------------------------------ MODULE MCMemory ------------------------------
(* The allocators of mm/: Buddy on a zone of eight pages, and four that    *)
(* rounding down leaves out, where callers also ask for more than there    *)
(* is; and Slob with the sizes of the code on a small heap.  The two share *)
(* no variable: one moves while the other is in its initial state.         *)
EXTENDS Buddy, Slob

CONSTANT Heap  \* the bytes from start_addr to last_node

MCSize == [o \in 0 .. Widest |-> 2 ^ o]
MCAllocOrders == 0 .. TopOrder + 1
MCEndAddr == StartAddr + Heap + NodeSize * NodeSize

InitMemory == Init /\ InitSlob

NextMemory ==
  \/ InitSlob /\ Next /\ UNCHANGED slobVars
  \/ Init /\ NextSlob /\ UNCHANGED vars

SpecMemory == InitMemory /\ [][NextMemory]_<<vars, slobVars>>
=============================================================================
