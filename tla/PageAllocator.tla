--------------------------- MODULE PageAllocator ---------------------------
(***************************************************************************)
(* What a page allocator promises its callers: a request for 2^order pages *)
(* gets pages that are contiguous, aligned to their number and nobody      *)
(* else's; freed pages can be given out again in any shape; and a request  *)
(* is only refused when no such pages are free.                            *)
(***************************************************************************)
EXTENDS Naturals

CONSTANTS
  Pages,   (* The pages, numbered from 0.                                  *)
  Orders,  (* The orders that are asked for.                               *)
  Size     (* The pages of a block of each: two to the power of the order. *)

VARIABLES
  free,    (* The pages nobody owns.                                       *)
  blocks,  (* The blocks given out, as <<first page, order>>.              *)
  last     (* The order of the last request, met or not.                   *)

avars == <<free, blocks, last>>

PagesOf(b) == b[1] .. b[1] + Size[b[2]] - 1

(* The blocks of an order that could be given out. *)
Candidates(order) ==
  {b \in Pages \X {order} : b[1] % Size[order] = 0 /\ PagesOf(b) \subseteq free}

AInit == free = Pages /\ blocks = {} /\ last = 0

AAlloc(order) ==
  \E b \in Candidates(order) :
    /\ free' = free \ PagesOf(b)
    /\ blocks' = blocks \union {b}
    /\ last' = order

AFree(b) ==
  /\ b \in blocks
  /\ free' = free \union PagesOf(b)
  /\ blocks' = blocks \ {b}
  /\ UNCHANGED last

(* A request that cannot be met restarts the system. *)
ARestart(order) ==
  /\ Candidates(order) = {}
  /\ free' = Pages
  /\ blocks' = {}
  /\ last' = order

ANext ==
  \/ \E order \in Orders : AAlloc(order) \/ ARestart(order)
  \/ \E b \in blocks : AFree(b)

ASpec == AInit /\ [][ANext]_avars
=============================================================================
