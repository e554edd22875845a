------------------------------- MODULE Buddy -------------------------------
(***************************************************************************)
(* The binary buddy allocator of physical pages, mm/buddy_alloc.c.  Both   *)
(* operations run with interrupts masked (__atomic_enter), so that each is *)
(* one step.  A block is named by the index of its first page.             *)
(*                                                                         *)
(* There is one bit for each pair of buddies.  It is toggled whenever one  *)
(* of the two becomes free or stops being free; the allocator never asks   *)
(* which of the two it is.                                                 *)
(***************************************************************************)
EXTENDS Integers, SequencesExt, FiniteSetsExt

CONSTANTS
  PageCnt,     (* zone->page_cnt                                           *)
  Widest,      (* The widest shift: 31 in the code.                        *)
  Size,        (* The pages of a block of an order: 1 << order.            *)
  AllocOrders  (* The orders callers ask for.                              *)

(* Size is given as a constant, and these conditions say all of it. *)
ASSUME BuddyAssumption ==
  /\ Widest \in Nat
  /\ Size \in [0 .. Widest -> Nat]
  /\ Size[0] = 1
  /\ \A o \in 0 .. Widest - 1 : Size[o + 1] = 2 * Size[o]
  /\ PageCnt \in 2 .. Size[Widest] - 1
  /\ AllocOrders \subseteq 0 .. Widest

(* max_orders - 1: page_cnt is rounded down to a power of two. *)
TopOrder ==
  CHOOSE k \in 0 .. Widest - 1 : Size[k] <= PageCnt /\ PageCnt < Size[k + 1]
Orders == 0 .. TopOrder
Pages == 0 .. Size[TopOrder] - 1

VARIABLES
  freeList,   (* buddy->orders[order].free_list                            *)
  map,        (* The bits that are set, as <<order, bit>>.                 *)
  pageOrder,  (* page->order                                               *)
  used,       (* buddy->used, in pages                                     *)
  owned,      (* History: the pages callers hold a pointer to.             *)
  asked       (* History: the order of the last request.                   *)

vars == <<freeList, map, pageOrder, used, owned, asked>>

(* What buddy_alloc_init sets up: one block of the highest order. *)
EmptyZone ==
  [freeList |-> [o \in Orders |-> IF o = TopOrder THEN <<0>> ELSE <<>>],
   map      |-> {}]

(* buddy_alloc_init; page->order comes from the boot allocator. *)
Init ==
  /\ freeList = EmptyZone.freeList
  /\ map = EmptyZone.map
  /\ pageOrder = [p \in Pages |-> 0]
  /\ used = 0
  /\ owned = {}
  /\ asked = 0

Toggled(bits) == (map \ bits) \union (bits \ map)

(* get_parent_bit, and the map that it is a bit of. *)
ParentBit(index, order) == <<order + 1, index \div Size[order + 1]>>

(* The block of an order that holds a page. *)
BlockOf(index, order) == index - (index % Size[order])

(* The block it can be merged with: index ^ (1 << order). *)
BuddyOf(index, order) ==
  IF (index \div Size[order]) % 2 = 0 THEN index + Size[order] ELSE index - Size[order]

(* Variant: a block of the very order is passed over. *)
FittingLarger(order) == {o \in Orders : o > order /\ freeList[o] # <<>>}

(* The orders in which a block large enough is free. *)
Fitting(order) == {o \in Orders : o >= order /\ freeList[o] # <<>>}

-----------------------------------------------------------------------------
(* The block of order c that has just been taken from its list is split    *)
(* down to the order asked for: of each pair of halves the upper one is    *)
(* freed, and the lower one is split on.                                   *)
SplitLists(page, order, c) ==
  [o \in Orders |->
     IF o = c THEN Tail(freeList[o])
     ELSE IF o \in order .. c - 1 THEN <<page + Size[o]>> \o freeList[o]
     ELSE freeList[o]]

(* Variant: the parent bit of the block that is split is not toggled. *)
SplitBitsBelow(page, order, c) ==
  {ParentBit(page, o) : o \in order .. c - 1}

(* The bits toggled on the way: the whole block has none if it is the zone.*)
SplitBits(page, order, c) ==
  {ParentBit(page, o) : o \in (order .. c) \ {TopOrder}}

(* buddy_alloc_pages *)
AllocPages(order) ==
  /\ Fitting(order) # {}
  /\ LET c    == Min(Fitting(order))
         page == Head(freeList[c])
     IN  /\ freeList' = SplitLists(page, order, c)
         /\ map' = Toggled(SplitBits(page, order, c))
         /\ pageOrder' = [pageOrder EXCEPT ![page] = order]
         /\ used' = used + Size[order]
         /\ owned' = owned \union {page}
         /\ asked' = order

(* buddy_alloc_pages finds no block: it panics, and panic_handler resets   *)
(* the CPU, so that the system starts again.                               *)
OutOfMemory(order) ==
  /\ Fitting(order) = {}
  /\ freeList' = EmptyZone.freeList
  /\ map' = EmptyZone.map
  /\ pageOrder' = [p \in Pages |-> 0]
  /\ used' = 0
  /\ owned' = {}
  /\ asked' = order

(* Variant: no merging into the block of the highest order. *)
MergedOrderBelowTop(index, order) ==
  Min({o \in order .. TopOrder :
         o >= TopOrder - 1 \/ ParentBit(index, o) \notin map})

(* How far a freed block is merged: up to the first order in which the     *)
(* parent bit says that the buddy is not free.                             *)
MergedOrder(index, order) ==
  Min({o \in order .. TopOrder : o = TopOrder \/ ParentBit(index, o) \notin map})

(* list_delete_node.  Of the buddies of a merge each list has one at most: *)
(* they are of different orders.                                           *)
Unlinked(list, nodes) ==
  LET found == {i \in 1 .. Len(list) : list[i] \in nodes}
  IN  IF found = {} THEN list ELSE RemoveAt(list, Min(found))

(* Variant: the merged block is not aligned to its order. *)
MergedListsUnaligned(index, order, m) ==
  LET buddies == {BuddyOf(BlockOf(index, o), o) : o \in order .. m - 1}
  IN  [o \in Orders |->
         LET rest == Unlinked(freeList[o], buddies)
         IN  IF o = m THEN <<index>> \o rest ELSE rest]

(* The buddies that are merged are unlinked from whatever list they are    *)
(* in, and the merged block is freed.                                      *)
MergedLists(index, order, m) ==
  LET buddies == {BuddyOf(BlockOf(index, o), o) : o \in order .. m - 1}
  IN  [o \in Orders |->
         LET rest == Unlinked(freeList[o], buddies)
         IN  IF o = m THEN <<BlockOf(index, m)>> \o rest ELSE rest]

(* buddy_free_pages; callers free what they own. *)
FreePages(index) ==
  LET order == pageOrder[index]
      m     == MergedOrder(index, order)
  IN  /\ index \in owned
      /\ freeList' = MergedLists(index, order, m)
      /\ map' = Toggled({ParentBit(index, o) : o \in (order .. m) \ {TopOrder}})
      /\ used' = used - Size[order]
      /\ owned' = owned \ {index}
      /\ UNCHANGED <<pageOrder, asked>>

Next ==
  \/ \E order \in AllocOrders : AllocPages(order) \/ OutOfMemory(order)
  \/ \E index \in Pages : FreePages(index)

Spec == Init /\ [][Next]_vars

-----------------------------------------------------------------------------
FreeBlocks == {b \in Pages \X Orders : b[1] \in Range(freeList[b[2]])}
OwnedBlocks == {<<b, pageOrder[b]>> : b \in owned}

Extent(b) == b[1] .. b[1] + Size[b[2]] - 1

(* Type invariant. *)
TypeOK ==
  /\ freeList \in [Orders -> Seq(Pages)]
  /\ \A o \in Orders : IsInjective(freeList[o])
  /\ map \subseteq (Orders \ {0}) \X Pages
  /\ pageOrder \in [Pages -> Orders]
  /\ used \in 0 .. Size[TopOrder]
  /\ owned \subseteq Pages
  /\ asked \in AllocOrders \union {0}

(* The free blocks and the blocks of the callers are aligned to their size *)
(* and tile the zone: no page is given out twice, none is lost, whatever   *)
(* has been split and merged before; and buddy->used is what the callers   *)
(* own.                                                                    *)
BlocksTile ==
  LET blocks == FreeBlocks \union OwnedBlocks
  IN  /\ TypeOK
      /\ \A b \in blocks : b[1] % Size[b[2]] = 0
      /\ \A p \in Pages : \E b \in blocks : p \in Extent(b)
      /\ \A b, c \in blocks : b # c => Extent(b) \intersect Extent(c) = {}
      /\ FreeBlocks \intersect OwnedBlocks = {}
      /\ used = Cardinality(UNION {Extent(b) : b \in OwnedBlocks})

(* The one bit of a pair of buddies says whether exactly one of them is    *)
(* free ("if the parent bit is 0 it means that the free block we have has  *)
(* a non-free buddy"): freeing reads it without looking at the buddy.      *)
BitMeansOneFree ==
  \A o \in 0 .. TopOrder - 1 : \A b \in Pages :
    b % Size[o + 1] = 0 =>
      (ParentBit(b, o) \in map
         <=> Cardinality({b, b + Size[o]} \intersect Range(freeList[o])) = 1)

(* Buddies that are both free have been merged. *)
Coalesced ==
  \A o \in 0 .. TopOrder - 1 : \A b \in Range(freeList[o]) :
    BuddyOf(b, o) \notin Range(freeList[o])

Allocator == INSTANCE PageAllocator
  WITH Pages  <- Pages,
       Orders <- AllocOrders,
       Size   <- Size,
       free   <- UNION {Extent(b) : b \in FreeBlocks},
       blocks <- OwnedBlocks,
       last   <- asked

(* The buddy system is a page allocator: in particular a request panics    *)
(* only if no aligned run of that many pages is free.                      *)
IsPageAllocator == Allocator!ASpec
=============================================================================
