CONSTANTS
  DhcpServers = {s1, s2}
  Tid = Tid
  OtherTid = OtherTid
  Unset = Unset
  s1 = s1
  s2 = s2
  MaxBlocks = 4
  Wrap = 4
  Strange <- MCStrange
SPECIFICATION MCSpec
INVARIANTS
  AddressIsGranted
  PanicOnlyIfDisturbed
PROPERTIES
  CopiesFile
  DownloadEnds
CHECK_DEADLOCK FALSE
