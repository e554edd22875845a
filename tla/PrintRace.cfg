CONSTANTS
  p1 = p1
  p2 = p2
  Printers = {p1, p2}
  Lengths = {1}
  MaxMessages <- Messages
SPECIFICATION Spec
INVARIANTS
  SubmittedWhenDone
