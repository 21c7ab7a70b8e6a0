SPECIFICATION Spec
CONSTANTS
  Key <- MCKey
  ReadFirst = "lo"
  ClearFirst = "hi"
  FrameGap = 2
  DebounceTime = 4
  PulseTime = 10
INVARIANT KeyIsReal
