SPECIFICATION Spec
CONSTANTS
  MaxTerms = 2
  Fd <- MCFd
  Dev <- MCDev
  DevOf <- MCDevOf
  Default <- MCDefault
  Foreign <- MCForeign
  Request <- MCRequest
INVARIANTS
  TypeOK
  Restored
  CurrIsDevice
PROPERTY FailureKeepsEntries
