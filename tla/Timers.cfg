SPECIFICATION FairSpec
CONSTANTS
  TimersMax = 2
  Base = 4
  Period = {0, 1, 2}
  NULL = NULL
INVARIANTS
  TypeOK
  EnabledIsOwned
PROPERTIES
  FiresOnlyArmed
  NoEarlyFire
  EnabledIsServed
