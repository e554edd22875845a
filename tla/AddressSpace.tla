---------------------------- MODULE AddressSpace ----------------------------
(***************************************************************************)
(* The memory of the user processes: the frames the page allocator gave    *)
(* out, the two levels of page tables of each process, and the regions its *)
(* image, its stacks and its heap take in its address space.               *)
(*                                                                         *)
(* Addresses are counted in pages.  An entry of the level 1 table covers   *)
(* SectPages pages (256 in the code) and points to a level 2 table; a      *)
(* level 2 table is a quarter of a frame, so that it is named by the frame *)
(* and its slot.  The state is one record, changed by the functions below  *)
(* in the order in which the code calls them:                              *)
(*   free    the frames nobody was given                                   *)
(*   dead    an allocation failed: the page allocator panics               *)
(*   tables  the level 2 tables in use, each with its entries              *)
(*   bits    per frame of level 2 tables, the bits set in its bitmap       *)
(*   spaces  the struct mmap of each process, in the order of creation     *)
(***************************************************************************)
EXTENDS Integers, Sequences, FiniteSets

CONSTANTS
  Frames,      (* The frames of the page allocator, numbered from 0.       *)
  SectPages,   (* Pages under one entry of the level 1 table.              *)
  Sections,    (* Entries of the level 1 table.                            *)
  Widest,      (* The widest shift: 31 in the code.                        *)
  Size,        (* The frames of a block of an order: 1 << order.           *)
  None         (* What is not there, unlike anything else: NULL.           *)

ASSUME FramesAssumption ==
  /\ Frames \subseteq Nat /\ IsFiniteSet(Frames)
  /\ None \notin Nat /\ None \notin Nat \X {0}
ASSUME SectionAssumption == SectPages \in Nat \ {0} /\ Sections \in Nat \ {0}

(* Size is given as a constant, and these conditions say all of it. *)
ASSUME SizeAssumption ==
  /\ Widest \in Nat \ {0}
  /\ Size \in [0 .. Widest -> Nat]
  /\ Size[0] = 1
  /\ \A o \in 0 .. Widest - 1 : Size[o + 1] = 2 * Size[o]

(* KERNEL_START, the end of the addresses of a process. *)
KernelStart == SectPages * Sections

(* The order of the blocks that hold a number of pages. *)
PagesToOrder(pages) == CHOOSE o \in 0 .. Widest :
  Size[o] >= pages /\ \A q \in 0 .. o - 1 : Size[q] < pages

NoMemory == [free |-> Frames, dead |-> FALSE, tables |-> << >>,
             bits |-> << >>, spaces |-> << >>]

(* alloc_pages: the lowest block of an order, aligned to its size.         *)
BlockOf(frame, order) == frame .. frame + Size[order] - 1

Fits(m, order) ==
  {f \in m.free : f % Size[order] = 0 /\ BlockOf(f, order) \subseteq m.free}
FirstFit(m, order) ==
  IF Fits(m, order) = {} THEN 0
  ELSE CHOOSE f \in Fits(m, order) : \A g \in Fits(m, order) : f <= g
AllocPages(m, order) ==
  IF Fits(m, order) = {} THEN [m EXCEPT !.dead = TRUE]
  ELSE [m EXCEPT !.free = @ \ BlockOf(FirstFit(m, order), order)]

(* mm_process_add_page: the block goes on the list of the process, so that *)
(* its memory can be found again.                                          *)
AddPage(m, p, frame, order) ==
  [m EXCEPT !.spaces[p].pages = @ \union {<<frame, order>>}]

-----------------------------------------------------------------------------
(* Variant: the bitmap of a new frame of tables is initialised. *)
NewBitsSet == 0 .. 2

(* lv2_pt_alloc: the frame is cleared, its bitmap included: lv2_pt_init is *)
(* not called.                                                             *)
NewBits == {}

(* mm_get_l2_pt.  A bit that is found set stays set. *)
SlotsLeft(m, p) ==
  IF m.spaces[p].pt2 = None THEN {} ELSE m.bits[m.spaces[p].pt2]
NewTable(m, p) ==
  IF SlotsLeft(m, p) # {}
    THEN <<m.spaces[p].pt2, CHOOSE i \in SlotsLeft(m, p) :
                              \A j \in SlotsLeft(m, p) : i <= j>>
    ELSE <<FirstFit(m, 0), 0>>
GetL2Table(m, p) ==
  IF SlotsLeft(m, p) # {} THEN m
  ELSE LET frame == FirstFit(m, 0)
       IN AddPage([AllocPages(m, 0) EXCEPT
                     !.bits = [g \in DOMAIN @ \union {frame} |->
                                 IF g = frame THEN NewBits ELSE @[g]],
                     !.spaces[p].pt2 = frame],
                  p, frame, 0)

(* One turn of the loop of mm_map_in_pages: a section without a table gets *)
(* one, and the page's entry is written whatever it held.                  *)
EmptyTable == [i \in 0 .. SectPages - 1 |-> None]
WithTable(m, p, sect) ==
  IF m.spaces[p].l1[sect] # None THEN m
  ELSE LET t == NewTable(m, p)
       IN [GetL2Table(m, p) EXCEPT
             !.spaces[p].l1[sect] = t,
             !.tables = [u \in DOMAIN @ \union {t} |->
                           IF u \in DOMAIN @ THEN @[u] ELSE EmptyTable]]
MapInPage(m, p, frame, page) ==
  LET n == WithTable(m, p, page \div SectPages)
  IN [n EXCEPT !.tables[n.spaces[p].l1[page \div SectPages]]
                 [page % SectPages] = frame]

(* mm_map_in_pages: the memory after each of its turns. *)
MapInPages(m, p, frame, cnt, page) ==
  LET after[k \in 0 .. cnt] ==
        IF k = 0 THEN m
        ELSE MapInPage(after[k - 1], p, frame + k - 1, page + k - 1)
  IN  after[cnt]

(* What the tables make of a page of a process. *)
Translate(m, p, page) ==
  LET t == m.spaces[p].l1[page \div SectPages]
  IN IF t = None THEN None ELSE m.tables[t][page % SectPages]
Mapped(m, p) == {v \in 0 .. KernelStart - 1 : Translate(m, p, v) # None}

-----------------------------------------------------------------------------
(* mm_process_init and process_mm_init: the two frames of the level 1      *)
(* table are the first on the list of the process.                         *)
NewSpace(lv1) ==
  [l1 |-> [s \in 0 .. Sections - 1 |-> None], lv1 |-> lv1, pt2 |-> None,
   pages |-> {<<lv1, 1>>}, stackE |-> KernelStart, heapE |-> 0, image |-> {}]
ProcessMmInit(m) ==
  [AllocPages(m, 1) EXCEPT !.spaces = Append(@, NewSpace(FirstFit(m, 1)))]

(* Words of a stack, as pages: the words are taken for bytes. *)
StackPages(words) == (words + 4095) \div 4096

(* create_user_thread_core: a block of pages for the stack, put under the  *)
(* stacks the process already has.                                         *)
CreateUserThread(m, p, words) ==
  LET order == PagesToOrder(StackPages(words))
      frame == FirstFit(m, order)
      n     == AddPage(AllocPages(m, order), p, frame, order)
      low   == n.spaces[p].stackE - Size[order]
  IN MapInPages([n EXCEPT !.spaces[p].stackE = low], p, frame, Size[order], low)

(* create_process: a new address space and its first thread. *)
CreateProcess(m, words) ==
  CreateUserThread(ProcessMmInit(m), Len(m.spaces) + 1, words)

(* set_break for a number of pages.  The end of the heap is a pointer to   *)
(* words, and moves four times as far as the pages that were mapped.       *)
HeapStep(order) == 4 * Size[order]

SetBreak(m, p, pages) ==
  LET order == PagesToOrder(pages)
      frame == FirstFit(m, order)
      n     == AddPage(AllocPages(m, order), p, frame, order)
  IN [MapInPages(n, p, frame, Size[order], n.spaces[p].heapE)
        EXCEPT !.spaces[p].heapE = @ + HeapStep(order)]
=============================================================================
