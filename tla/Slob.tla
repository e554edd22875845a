-------------------------------- MODULE Slob --------------------------------
(***************************************************************************)
(* The kernel heap, mm/slob.c: kmalloc and kfree on a list of free blocks  *)
(* in the order of their addresses.  Both run with interrupts masked, so   *)
(* that each is one step.  Addresses and sizes are in bytes; every block   *)
(* starts with a header (struct slob_node) of its size and a link.         *)
(*                                                                         *)
(* The list begins with a node of size zero inside struct slob_struct,     *)
(* which lies below the heap, and ends with last_node, of size zero too.   *)
(***************************************************************************)
EXTENDS Integers, SequencesExt, FiniteSetsExt

CONSTANTS
  NodeSize,       (* sizeof(struct slob_node): 8.                          *)
  SLOB_ALIGN,     (* 8 *)
  SLOB_MIN_BLOCK, (* 16 *)
  FirstNode,      (* The address of slob->node.                            *)
  StartAddr,      (* slob->start_addr, aligned.                            *)
  EndAddr,        (* slob->end_addr, aligned.                              *)
  Requests        (* The sizes callers ask for.                            *)

ASSUME SlobAssumption ==
  /\ {NodeSize, SLOB_ALIGN, SLOB_MIN_BLOCK} \subseteq Nat \ {0}
  /\ {FirstNode, StartAddr, EndAddr} \subseteq Nat
  /\ Requests \subseteq Nat \ {0}
  /\ FirstNode < StartAddr
  /\ StartAddr + NodeSize * NodeSize < EndAddr

(* slob_init subtracts sizeof(struct slob_node) from a pointer to such     *)
(* nodes, so many nodes and not so many bytes.                             *)
LastNode == EndAddr - NodeSize * NodeSize

(* The size of the first free block, and of the heap: slob_init takes the  *)
(* distance of last_node from first_node, which is not in the heap.        *)
Total == LastNode - FirstNode

Addrs == {a \in StartAddr .. StartAddr + Total : (a - StartAddr) % SLOB_ALIGN = 0}

(* slob_init aligns both ends of the heap, and the 64 bytes between are a  *)
(* multiple of the alignment.                                              *)
ASSUME HeapAssumption == (LastNode - StartAddr) % SLOB_ALIGN = 0

VARIABLES
  nodes,  (* The free list behind first_node: addresses.                   *)
  size,   (* The size field of the header at an address.                   *)
  statsUsed,  (* slob->stats.used                                          *)
  held,   (* History: the blocks callers hold a pointer into.              *)
  overrun (* History: a block that was given out reached last_node.        *)

slobVars == <<nodes, size, statsUsed, held, overrun>>

(* slob_init *)
InitSlob ==
  /\ nodes = <<StartAddr, LastNode>>
  /\ size = [a \in Addrs |-> IF a = StartAddr THEN Total ELSE 0]
  /\ statsUsed = 0
  /\ held = {}
  /\ overrun = FALSE

(* The bytes taken for a request: header and rounding. *)
BlockSize(bytes) ==
  LET s == bytes + NodeSize
  IN  IF s % SLOB_ALIGN = 0 THEN s ELSE s + SLOB_ALIGN - (s % SLOB_ALIGN)

-----------------------------------------------------------------------------
(* The first of some positions in a list, or 0. *)
FirstOf(positions) == IF positions = {} THEN 0 ELSE Min(positions)

(* Where slob_insert_free puts a node: before the first one with a higher  *)
(* address; there may be none.                                             *)
Place(list, node) == FirstOf({i \in 1 .. Len(list) : list[i] > node})

Adjacent(sizes, a, b) == a + sizes[a] = b

(* Variant: a block is only merged with the one behind it. *)
InsertForwardOnly(list, sizes, node) ==
  LET i       == Place(list, node)
      forward == Adjacent(sizes, node, list[i]) /\ list[i] # LastNode
      gained  == IF forward THEN sizes[list[i]] ELSE 0
  IN  IF i = 0 THEN [nodes |-> list, size |-> sizes]
      ELSE [nodes |-> InsertAt(IF forward THEN RemoveAt(list, i) ELSE list, i, node),
            size  |-> [sizes EXCEPT ![node] = @ + gained]]

(* slob_insert_free: merge the node with the free blocks before and behind *)
(* it, but never with last_node.  A node behind last_node is not inserted. *)
InsertFree(list, sizes, node) ==
  LET i        == Place(list, node)
      backward == i > 1 /\ Adjacent(sizes, list[i - 1], node)
      forward  == Adjacent(sizes, node, list[i]) /\ list[i] # LastNode
      gained   == IF forward THEN sizes[list[i]] ELSE 0
      rest     == IF forward THEN RemoveAt(list, i) ELSE list
  IN  IF i = 0 THEN [nodes |-> list, size |-> sizes]
      ELSE IF backward
        THEN [nodes |-> rest,
              size  |-> [sizes EXCEPT ![list[i - 1]] = @ + sizes[node] + gained]]
        ELSE [nodes |-> InsertAt(rest, i, node),
              size  |-> [sizes EXCEPT ![node] = @ + gained]]

(* Variant: a block of the very size is passed over. *)
FirstLarger(n) == FirstOf({i \in 1 .. Len(nodes) : size[nodes[i]] > n})

(* The first free block that is large enough. *)
FirstFit(n) == FirstOf({i \in 1 .. Len(nodes) : size[nodes[i]] >= n})

(* Variant: the rest keeps the size of the whole block. *)
SplitKeepsSize(i, n) ==
  LET it   == nodes[i]
      rest == [size EXCEPT ![it + n] = size[it]]
      ins  == InsertFree(RemoveAt(nodes, i), rest, it + n)
  IN  /\ nodes' = ins.nodes
      /\ size' = [ins.size EXCEPT ![it] = n]
      /\ statsUsed' = statsUsed + n
      /\ held' = held \union {it}

(* The block is split, and the rest of it is free. *)
Split(i, n) ==
  LET it   == nodes[i]
      rest == [size EXCEPT ![it + n] = size[it] - n]
      ins  == InsertFree(RemoveAt(nodes, i), rest, it + n)
  IN  /\ nodes' = ins.nodes
      /\ size' = [ins.size EXCEPT ![it] = n]
      /\ statsUsed' = statsUsed + n
      /\ held' = held \union {it}

(* The rest is too small for a block, and the caller gets it too. *)
TakeWhole(i) ==
  /\ nodes' = RemoveAt(nodes, i)
  /\ statsUsed' = statsUsed + size[nodes[i]]
  /\ held' = held \union {nodes[i]}
  /\ UNCHANGED size

Splits(i, n) == size[nodes[i]] - n >= SLOB_MIN_BLOCK

(* The address behind the block that is given out.  The heap is taken to   *)
(* be larger than it is, and nothing keeps the block away from last_node.  *)
EndOf(i, n) == nodes[i] + (IF Splits(i, n) THEN n ELSE size[nodes[i]])

(* slob_alloc.  If the block comes up to last_node, the header of the rest *)
(* or the data of the caller is stored over it, and the list has no end.   *)
Alloc(bytes) ==
  LET n == BlockSize(bytes)
      i == FirstFit(n)
  IN  /\ ~overrun
      /\ i # 0
      /\ IF Splits(i, n) THEN Split(i, n) ELSE TakeWhole(i)
      /\ overrun' = (EndOf(i, n) >= LastNode)

(* Without a block that is large enough it returns NULL. *)
Refuse(bytes) == ~overrun /\ FirstFit(BlockSize(bytes)) = 0 /\ UNCHANGED slobVars

(* slob_free of a block that the caller owns. *)
Free(block) ==
  LET ins == InsertFree(nodes, size, block)
  IN  /\ ~overrun /\ block \in held
      /\ nodes' = ins.nodes
      /\ size' = ins.size
      /\ statsUsed' = statsUsed - size[block]
      /\ held' = held \ {block}
      /\ UNCHANGED overrun

(* Without its last node the list leads anywhere: nothing is said of it.   *)
Overrun == overrun /\ UNCHANGED slobVars

NextSlob ==
  \/ \E bytes \in Requests : Alloc(bytes) \/ Refuse(bytes)
  \/ \E block \in Addrs : Free(block)
  \/ Overrun

SpecSlob == InitSlob /\ [][NextSlob]_slobVars

-----------------------------------------------------------------------------
(* Type invariant. *)
TypeSlob ==
  /\ nodes \in Seq(Addrs)
  /\ size \in [Addrs -> 0 .. Total]
  /\ statsUsed \in 0 .. Total
  /\ held \subseteq Addrs
  /\ overrun \in BOOLEAN

FreeNodes == Range(nodes) \ {LastNode}
Bytes(a) == a .. a + size[a] - 1
FreeBytes == UNION {Bytes(a) : a \in FreeNodes}
OwnedBytes == UNION {Bytes(a) : a \in held}

(* No byte of the heap is given out twice, or given out and free, and none *)
(* is lost: stats.used is what the callers own, and all the rest is free.  *)
(* This ends where the heap has run over its end.                          *)
HeapTiled ==
  ~overrun =>
    /\ TypeSlob
    /\ \A a, b \in held : a # b => Bytes(a) \intersect Bytes(b) = {}
    /\ FreeBytes \intersect OwnedBytes = {}
    /\ FreeBytes \union OwnedBytes = StartAddr .. StartAddr + Total - 1
    /\ statsUsed = Cardinality(OwnedBytes)

(* The free list is in the order of addresses and ends with last_node, and *)
(* of two free blocks that touch there is only one: whatever the order of  *)
(* calls, the heap does not fragment more than its blocks make it.         *)
SortedAndMerged ==
  ~overrun =>
    /\ nodes # <<>> /\ Last(nodes) = LastNode
    /\ \A i \in 1 .. Len(nodes) - 1 : nodes[i] < nodes[i + 1]
    /\ \A i \in 1 .. Len(nodes) - 2 : nodes[i] + size[nodes[i]] < nodes[i + 1]

(* No run of so many free bytes lies below last_node. *)
NoRun(n) ==
  \A a \in Addrs : \E x \in a .. a + n - 1 : x >= LastNode \/ x \in OwnedBytes

(* A request is refused only if no run of free bytes would hold it, and    *)
(* runs over the end of the heap only if none would hold it and a smallest *)
(* block besides: as long as a request fits somewhere, it is served there. *)
RefusedOnlyIfFull ==
  ~overrun =>
    \A bytes \in Requests :
      LET n == BlockSize(bytes)
          i == FirstFit(n)
      IN  /\ i = 0 => NoRun(n)
          /\ i # 0 /\ EndOf(i, n) >= LastNode => NoRun(n + SLOB_MIN_BLOCK)
=============================================================================
