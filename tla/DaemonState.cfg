SPECIFICATION AnsweredSpec
CONSTANTS
  Library <- MCOneAlbum
  Stations <- MCStations
  Dims = {0}
  KeysMax = 1
PROPERTY StateFollowsPlayer
