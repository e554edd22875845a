CONSTANTS
  PageCnt = 12
  Widest = 4
  Size <- MCSize
  AllocOrders <- MCAllocOrders
  NodeSize = 8
  SLOB_ALIGN = 8
  SLOB_MIN_BLOCK = 16
  FirstNode = 16
  StartAddr = 32
  Heap = 80
  EndAddr <- MCEndAddr
  Requests = {8, 9, 24}
SPECIFICATION SpecMemory
INVARIANTS
  BlocksTile
  BitMeansOneFree
  Coalesced
  HeapTiled
  SortedAndMerged
  RefusedOnlyIfFull
PROPERTIES
  IsPageAllocator
