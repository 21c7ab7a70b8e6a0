SPECIFICATION Spec
CONSTANTS
  TimersMax = 1
  Base = 2
  Period = {2}
  NULL = NULL
PROPERTY NoEarlyFire
