CONSTANTS
  p1 = p1
  p2 = p2
  Printers = {p1, p2}
  Lengths = {1, 2}
  MaxMessages <- Messages
SPECIFICATION FairSpec
INVARIANTS
  OneTransfer
  LengthsKept
PROPERTIES
  AllSent
