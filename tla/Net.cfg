CONSTANTS
  BufferCount = 8
  Ports = {dhcp, udp}
  Peers = {p1, p2}
  Pool = Pool
  ArpQueue = ArpQueue
  Null = Null
  RxCount = 2
  TxCount = 2
  MaxFrames = 3
  MaxSends = 3
SPECIFICATION SpecNet
INVARIANTS
  BuffersApart
  DeliveredInOrder
  StopsExplained
SYMMETRY Alike
CHECK_DEADLOCK FALSE
