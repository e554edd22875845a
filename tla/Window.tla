------------------------------- MODULE Window -------------------------------
(***************************************************************************)
(* The window compositor: windows in the order in which they lie on each   *)
(* other are broken down into update regions, each of one window; a list   *)
(* of DMA descriptors, one per region, copies them into the screen buffer  *)
(* that is not shown; and the end of the transfer hands that buffer to the *)
(* display, which is external here.                                        *)
(*                                                                         *)
(* Buffers are linear: the pixel of row y and column x of a buffer of      *)
(* width n is number y * n + x.                                            *)
(***************************************************************************)
EXTENDS Naturals, Sequences, FiniteSets, SequencesExt

CONSTANTS
  Width, Height,   (* Of the screen.                                       *)
  FbWidth,         (* Of the framebuffers of the windows.                  *)
  MaxWindows,      (* Bound on the windows.                                *)
  None             (* What a pixel holds that nothing was copied to.       *)

ASSUME SizeAssumption ==
  /\ Width \in Nat \ {0} /\ Height \in Nat \ {0} /\ MaxWindows \in Nat
  /\ FbWidth \in Nat /\ FbWidth >= Width

VARIABLES
  windows,   (* The windows, the lowest first.                             *)
  composed,  (* How many of them update_regions has added.                 *)
  regions,   (* update_list.                                               *)
  picture,   (* The buffer that is drawn into.                             *)
  shown,     (* The buffer the display was given; empty before.            *)
  awkward    (* A region was covered by a new window as a whole, or only   *)
             (* touched by one.                                            *)

vars == <<windows, composed, regions, picture, shown, awkward>>

(* The rectangles on the screen.  A region is one with its window. *)
Rectangles ==
  {r \in [x : 0 .. Width - 1, y : 0 .. Height - 1, w : 1 .. Width, h : 1 .. Height] :
     r.x + r.w <= Width /\ r.y + r.h <= Height}

(* The memory from the buffer's first pixel, with a row after its end. *)
Memory == 0 .. Width * (Height + 1) - 1

Init ==
  /\ windows = << >> /\ composed = 0 /\ regions = << >>
  /\ picture = [a \in Memory |-> None] /\ shown = << >>
  /\ awkward = FALSE

(* add_window: the window lies on all others. *)
AddWindow ==
  /\ composed = 0 /\ Len(windows) < MaxWindows
  /\ \E r \in Rectangles : windows' = Append(windows, r)
  /\ UNCHANGED <<composed, regions, picture, shown, awkward>>

-----------------------------------------------------------------------------
(* add_window_region.                                                      *)

X2(r) == r.x + r.w
Y2(r) == r.y + r.h

(* No overlap: the region is left alone.  Edges that touch do overlap. *)
Apart(w, r) == w.x > X2(r) \/ w.y > Y2(r) \/ X2(w) < r.x \/ Y2(w) < r.y

Part(r, x, y, width, height) == [r EXCEPT !.x = x, !.y = y, !.w = width, !.h = height]

TopActive(w, r) == w.y > r.y /\ w.y < Y2(r)
BottomActive(w, r) == Y2(w) > r.y /\ Y2(w) < Y2(r)
LeftActive(w, r) == w.x > r.x /\ w.x < X2(r)
RightActive(w, r) == X2(w) < X2(r) /\ X2(w) > r.x

(* Variant: the side parts start at the top of the region. *)
MidYTop(w, r) == r.y

(* The rows between the top and the bottom part. *)
MidY(w, r) == IF TopActive(w, r) THEN w.y ELSE r.y

MidH(w, r) == (IF BottomActive(w, r) THEN Y2(w) ELSE Y2(r)) - MidY(w, r)

(* The parts of a region that a window on it leaves, the last one found    *)
(* first.                                                                  *)
If(cond, part) == IF cond THEN <<part>> ELSE << >>
Parts(w, r) ==
     If(RightActive(w, r),
        Part(r, X2(w), MidY(w, r), X2(r) - X2(w), MidH(w, r)))
  \o If(LeftActive(w, r), Part(r, r.x, MidY(w, r), w.x - r.x, MidH(w, r)))
  \o If(BottomActive(w, r), Part(r, r.x, Y2(w), r.w, Y2(r) - Y2(w)))
  \o If(TopActive(w, r), Part(r, r.x, r.y, r.w, w.y - r.y))

(* A region is deleted when it has parts: one that the window covers as a  *)
(* whole has none, and stays.                                              *)
Cut(w, r) == ~Apart(w, r) /\ Parts(w, r) # << >>
Covers(w, r) == w.x <= r.x /\ w.y <= r.y /\ X2(w) >= X2(r) /\ Y2(w) >= Y2(r)
Touches(w, r) ==
  ~Apart(w, r) /\ (w.x = X2(r) \/ w.y = Y2(r) \/ X2(w) = r.x \/ Y2(w) = r.y)

(* The new parts go in front of the list, each in front of the last, and   *)
(* the region of the window in front of them all.                          *)
AddRegion(w, list) ==
  LET cut  == SelectSeq(list, LAMBDA r : Cut(w, r))
      kept == SelectSeq(list, LAMBDA r : ~Cut(w, r))
  IN <<w>> \o FoldLeft(LAMBDA add, r : Parts(w, r) \o add, << >>, cut) \o kept

(* One turn of update_regions. *)
ComposeWindow ==
  /\ windows # << >> /\ composed < Len(windows)
  /\ LET top == windows[composed + 1]
         w   == [x |-> top.x, y |-> top.y, w |-> top.w, h |-> top.h,
                 parent |-> composed + 1]
     IN /\ regions' = AddRegion(w, regions)
        /\ awkward' = (awkward \/ \E r \in ToSet(regions) : Covers(w, r) \/ Touches(w, r))
  /\ composed' = composed + 1
  /\ UNCHANGED <<windows, picture, shown>>

-----------------------------------------------------------------------------
(* build_dma_transfer: the descriptor of a region. *)
BlockCtrl(r) == r.h
SrcStride(r) == FbWidth - r.w

Descriptor(r) ==
  LET w == windows[r.parent]
  IN [dest |-> r.y * Width + r.x,
      src |-> (r.y - w.y) * FbWidth + r.x - w.x,
      len |-> r.w, blocks |-> BlockCtrl(r), parent |-> r.parent,
      destStride |-> Width - r.w, srcStride |-> SrcStride(r)]

(* What the DMA does with a descriptor: the number of blocks is one less   *)
(* than the blocks that are copied, and the stride is added after each.    *)
Copy(buffer, d) ==
  LET row(a) == (a - d.dest) \div (d.len + d.destStride)
      col(a) == (a - d.dest) % (d.len + d.destStride)
  IN [a \in DOMAIN buffer |->
        IF a >= d.dest /\ row(a) <= d.blocks /\ col(a) < d.len
          THEN <<d.parent, d.src + row(a) * (d.len + d.srcStride) + col(a)>>
          ELSE buffer[a]]

(* The transfer works through the descriptors in the order of the list. *)
Transfer ==
  /\ windows # << >> /\ composed = Len(windows) /\ shown = << >>
  /\ picture = [a \in Memory |-> None]
  /\ picture' = FoldLeft(LAMBDA b, r : Copy(b, Descriptor(r)), picture, regions)
  /\ UNCHANGED <<windows, composed, regions, shown, awkward>>

(* done_callback and lcd_switch_screenbuffer: the display gets the buffer.  *)
Switch ==
  /\ picture # [a \in Memory |-> None] /\ shown = << >>
  /\ shown' = picture
  /\ UNCHANGED <<windows, composed, regions, picture, awkward>>

Next == AddWindow \/ ComposeWindow \/ Transfer \/ Switch

Spec == Init /\ [][Next]_vars

-----------------------------------------------------------------------------
(* Properties.                                                             *)

Inside(r, x, y) == x >= r.x /\ x < X2(r) /\ y >= r.y /\ y < Y2(r)

(* The windows at a pixel, and the pixel of the top one that belongs there. *)
At(x, y) == {k \in 1 .. Len(windows) : Inside(windows[k], x, y)}
Top(x, y) == CHOOSE k \in At(x, y) : \A j \in At(x, y) : j <= k
Right(x, y) ==
  IF At(x, y) = {} THEN None
  ELSE <<Top(x, y), (y - windows[Top(x, y)].y) * FbWidth + x - windows[Top(x, y)].x>>

(* The row that is copied too much lies under each region. *)
UnderRegion(x, y) ==
  \E r \in ToSet(regions) : y = Y2(r) /\ x >= r.x /\ x < X2(r)

(* The display shows at every pixel the window that lies on top there, at  *)
(* its place, however the windows overlap, and no pixel lies in two        *)
(* regions ("does only update one region once"); pixels under the last row *)
(* of a region excepted, and as long as no window covered or only touched  *)
(* a region (add_window_region, update_regions, build_dma_transfer).       *)
TopWindowShown ==
  shown # << >> /\ ~awkward =>
    \A x \in 0 .. Width - 1, y \in 0 .. Height - 1 :
      /\ Cardinality({i \in 1 .. Len(regions) : Inside(regions[i], x, y)}) <= 1
      /\ UnderRegion(x, y) \/ shown[y * Width + x] = Right(x, y)
=============================================================================
