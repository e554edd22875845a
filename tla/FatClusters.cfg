CONSTANTS
  BaseLen = 3
  ExtLen = 2
  FragLen = 2
  Upper <- MCUpper
  Lower <- MCLower
  Illegal = {"."}
  PageOrder = 1
  ClustOrder = 2
  EntOrder = 2
  RootClust = 2
  FatStart = 1
  DataStart = 4
  Eoc = 1000
  SeqMask = 5
  Volumes <- MCVolumesLarge
  Paths <- MCPaths
  Requests = {1, 5}
SPECIFICATION SpecFat
INVARIANTS
  PositionFollowsChain
CHECK_DEADLOCK FALSE
