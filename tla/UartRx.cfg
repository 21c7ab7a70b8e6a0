SPECIFICATION RxSpec
CONSTANTS
  Byte = {0, 1, 2}
  RxSize = 4
INVARIANT RxTypeOK
PROPERTY RxImplementsFifo
