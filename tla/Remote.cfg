SPECIFICATION FairSpec
CONSTANTS
  Key <- MCKey
  ReadFirst = "hi"
  ClearFirst = "hi"
  FrameGap = 2
  DebounceTime = 4
  PulseTime = 10
INVARIANTS
  TypeOK
  KeyIsReal
  FlagsAreTimed
PROPERTIES
  FrameIsTaken
  DebounceEnds
  PulseEnds
