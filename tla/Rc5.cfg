SPECIFICATION Spec
CONSTANTS
  FrameBits = 3
  HalfMin = 7
  HalfMax = 10
  TickMod = 24
  NoiseMax = 2
INVARIANTS
  TypeOK
  DecodesExactly
  NotStuck
  IdleIsClean
