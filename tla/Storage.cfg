CONSTANTS
  Slots = {m0, m1}
  Cards <- MCCards
  Tries = 2
  BaseLen = 3
  ExtLen = 2
  FragLen = 2
  Upper <- MCUpper
  Lower <- MCLower
  Illegal = {"."}
  PageOrder = 2
  ClustOrder = 1
  EntOrder = 2
  RootClust = 2
  FatStart = 1
  DataStart = 3
  Eoc = 1000
  SeqMask = 5
  Volumes <- MCVolumesStray
  Paths <- MCPaths
  Requests = {1, 5}
SPECIFICATION SpecBoth
INVARIANTS
  PanicOnlyIfUnsupported
  CardIsMounted
  PositionIsOffset
  StopsAtChainEndOnly
  SearchAgrees
  ListingAgrees
CHECK_DEADLOCK FALSE
