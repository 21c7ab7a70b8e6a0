SPECIFICATION FairSpec
CONSTANTS
  LineLength = 1
  BufferLength = 3
  Behind = 1
  Frames <- MCFrames
  UartTimeout = 2
  LossMax = 1
  AfterMax = 1
INVARIANTS
  TypeOK
  CollectingIsTimed
  FrameShown
  NoStrayWrite
PROPERTY FrameEnds
