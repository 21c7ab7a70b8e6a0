SPECIFICATION TxFairSpec
CONSTANTS
  Byte = {0, 1}
  TxSize = 4
INVARIANTS
  TxTypeOK
  NoLostWakeup
PROPERTIES
  TxImplementsFifo
  TxDrains
  PutcReturns
