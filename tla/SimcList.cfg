SPECIFICATION Spec
CONSTANTS
  Data = {1, 2, 3}
  Cells = 6
  MaxSpare = 2
  MinQuick = 2
  Others <- MCOthers
INVARIANTS RepOk Reads
PROPERTY ImplementsList
VIEW View
CHECK_DEADLOCK FALSE
