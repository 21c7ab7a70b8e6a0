SPECIFICATION FairSpec
CONSTANTS
  Library <- MCLibrary
  Stations <- MCStations
  Dims = {0}
  KeysMax = 1
INVARIANTS
  TypeOK
  CursorInMenu
  SelectionIsShown
  MenuMatchesLibrary
  CrashNeedsEmptyList
PROPERTY ScreenCatchesUp
