---------------------------- MODULE LoaderProofs ----------------------------
(***************************************************************************)
(* What is proved of the loader, the memory of the processes and the PIDs. *)
(*                                                                         *)
(*   PIDs    No PID is given twice, and a kernel thread goes without one   *)
(*           only when all of them are given (PidInv).                     *)
(*   Memory  A frame has one use, and a page that was mapped stays mapped  *)
(*           (MemoryInv): every operation of AddressSpace has a lemma that *)
(*           it keeps the memory in order, from one turn of                *)
(*           mm_map_in_pages up to elf_init.                               *)
(*   File    The image of a process is the file that was sent (FileInv).   *)
(***************************************************************************)
EXTENDS Loader, ListLemmas

(* The inductive invariant.  The free bits of a leaf are its upper ones,   *)
(* because the lowest goes first; so the leaf is empty once its last bit   *)
(* is taken, which is when alloc_pid clears the leaf's bit in the root.    *)
Number(i, b) == Width * i + b

PidType ==
  /\ root \subseteq Bits
  /\ leaf \in [Bits -> SUBSET Bits]
  /\ pids \in Seq(Nat)

(* What is free in a leaf is everything from a bit on. *)
UpperBits(word) == \A b \in word : \A c \in Bits : b <= c => c \in word
LeavesUpper == \A i \in Bits : UpperBits(leaf[i])

(* The root has the bits of the leaves that are not empty. *)
RootIsLeaves == \A i \in Bits : i \in root <=> leaf[i] # {}

(* A PID is free or given. *)
Given == {pids[k] : k \in 1 .. Len(pids)}
FreeOrGiven == \A i, b \in Bits : b \in leaf[i] <=> Number(i, b) \notin Given

PidInv ==
  /\ PidType
  /\ LeavesUpper
  /\ RootIsLeaves
  /\ FreeOrGiven
  /\ PidsUnique

-----------------------------------------------------------------------------
(* Operators. *)

(* The count of trailing zeros of a word with a bit. *)
LEMMA LowestFacts ==
  ASSUME NEW word \in SUBSET Bits, word # {}
  PROVE  /\ Lowest(word) \in word
         /\ \A c \in word : Lowest(word) <= c
<1>1. word \in SUBSET Nat
  BY DEF Bits
<1>2. \E b \in word : \A c \in word : b <= c
  BY <1>1, LeastElement
<1> QED
  BY <1>2 DEF Lowest

(* A PID says which leaf and which bit it is. *)
LEMMA NumberInjective ==
  ASSUME NEW i \in Bits, NEW b \in Bits, NEW j \in Bits, NEW c \in Bits,
         Number(i, b) = Number(j, c)
  PROVE  i = j /\ b = c
<1>1. /\ Width \in Nat /\ i \in Nat /\ j \in Nat /\ b \in Nat /\ c \in Nat
      /\ b < Width /\ c < Width
  BY WidthAssumption DEF Bits
<1>2. Width * i + b = Width * j + c
  BY DEF Number
<1>3. ASSUME NEW x \in Nat, NEW y \in Nat, x < y
      PROVE  Width * x + Width <= Width * y
  <2>1. PICK d \in Nat : y = x + 1 + d
    <3>1. y - x - 1 \in Nat /\ y = x + 1 + (y - x - 1)
      BY <1>3
    <3> QED
      BY <3>1
  <2>2. Width * y = Width * x + Width + Width * d
    BY <2>1, <1>1
  <2>3. Width * d \in Nat
    BY <1>1
  <2> QED
    BY <1>1, <2>2, <2>3
<1>4. Width * i \in Nat /\ Width * j \in Nat
  BY <1>1
<1>5. ~ (i < j)
  <2>1. SUFFICES ASSUME i < j PROVE FALSE
    OBVIOUS
  <2>2. Width * i + Width <= Width * j
    BY <1>1, <1>3, <2>1
  <2> QED
    BY <1>1, <1>2, <1>4, <2>2
<1>6. ~ (j < i)
  <2>1. SUFFICES ASSUME j < i PROVE FALSE
    OBVIOUS
  <2>2. Width * j + Width <= Width * i
    BY <1>1, <1>3, <2>1
  <2> QED
    BY <1>1, <1>2, <1>4, <2>2
<1>7. i = j
  BY <1>1, <1>5, <1>6
<1> QED
  BY <1>1, <1>2, <1>4, <1>7

LEMMA NumberType ==
  ASSUME NEW i \in Bits, NEW b \in Bits PROVE Number(i, b) \in Nat
BY WidthAssumption DEF Number, Bits

-----------------------------------------------------------------------------
(* The invariant. *)

LEMMA InitPidInv == Init => PidInv
<1> SUFFICES ASSUME Init PROVE PidInv
  OBVIOUS
<1>1. root = Bits /\ leaf = [i \in Bits |-> Bits] /\ pids = << >>
  BY DEF Init, PidInit
<1>2. PidType
  BY <1>1 DEF PidType
<1>3. LeavesUpper
  BY <1>1 DEF LeavesUpper, UpperBits
<1>4. RootIsLeaves
  <2>1. 0 \in Bits
    BY WidthAssumption DEF Bits
  <2> QED
    BY <1>1, <2>1 DEF RootIsLeaves
<1>5. FreeOrGiven
  <2>1. Given = {}
    BY <1>1 DEF Given
  <2> QED
    BY <1>1, <2>1 DEF FreeOrGiven
<1>6. PidsUnique
  BY <1>1 DEF PidsUnique
<1> QED
  BY <1>2, <1>3, <1>4, <1>5, <1>6 DEF PidInv

LEMMA AllocPidStep == PidInv /\ AllocPid => PidInv'
<1> SUFFICES ASSUME PidInv, AllocPid PROVE PidInv'
  OBVIOUS
<1> USE DEF PidInv
<1> DEFINE i == Lowest(root)
           b == Lowest(leaf[i])
<1>1. i \in root /\ i \in Bits
  BY LowestFacts DEF PidType, AllocPid
<1>2. leaf[i] # {} /\ leaf[i] \in SUBSET Bits
  BY <1>1 DEF RootIsLeaves, PidType
<1>3. b \in leaf[i] /\ b \in Bits /\ \A c \in leaf[i] : b <= c
  BY <1>2, LowestFacts
<1>4. /\ leaf' = [leaf EXCEPT ![i] = @ \ {b}]
      /\ root' = IF ParentGoes(b) THEN root \ {i} ELSE root
      /\ pids' = Append(pids, Number(i, b))
  BY <1>2 DEF AllocPid, Number
<1> HIDE DEF i, b
<1>5. /\ Width \in Nat /\ Width - 1 \in Bits
      /\ \A c \in Bits : c \in Nat /\ c <= Width - 1
  BY WidthAssumption DEF Bits
<1>6. /\ leaf'[i] = leaf[i] \ {b}
      /\ \A j \in Bits : j # i => leaf'[j] = leaf[j]
  BY <1>1, <1>4 DEF PidType
<1>7. Number(i, b) \in Nat
  BY <1>1, <1>3, NumberType
<1>8. PidType'
  <2>1. leaf' \in [Bits -> SUBSET Bits]
    BY <1>4 DEF PidType
  <2>2. root' \subseteq Bits
    BY <1>4 DEF PidType
  <2>3. pids' \in Seq(Nat)
    BY <1>4, <1>7, AppendProperties DEF PidType
  <2> QED
    BY <2>1, <2>2, <2>3 DEF PidType
<1>9. LeavesUpper'
  <2> SUFFICES ASSUME NEW j \in Bits, NEW x \in leaf'[j], NEW c \in Bits, x <= c
               PROVE  c \in leaf'[j]
    BY DEF LeavesUpper, UpperBits
  <2>1. x \in leaf[j] /\ x \in Bits
    BY <1>6, <1>8 DEF PidType
  <2>2. c \in leaf[j]
    BY <2>1 DEF LeavesUpper, UpperBits
  <2>3. CASE j = i
    <3>1. b <= x /\ x # b
      BY <1>3, <1>6, <2>1, <2>3
    <3>2. c # b
      BY <1>3, <1>5, <2>1, <3>1
    <3> QED
      BY <1>6, <2>2, <2>3, <3>2
  <2> QED
    BY <1>6, <2>2, <2>3
<1>10. ParentGoes(b) <=> leaf'[i] = {}
  <2>1. ASSUME ParentGoes(b) PROVE leaf'[i] = {}
    <3>1. b = Width - 1
      BY <2>1 DEF ParentGoes
    <3>2. ASSUME NEW c \in leaf[i] PROVE c = b
      <4>1. c \in Bits /\ b <= c
        BY <1>2, <1>3
      <4>2. c \in Nat /\ c <= Width - 1
        BY <1>5, <4>1
      <4> QED
        BY <1>5, <3>1, <4>1, <4>2
    <3> QED
      BY <1>6, <3>2
  <2>2. ASSUME ~ ParentGoes(b) PROVE leaf'[i] # {}
    <3>1. b # Width - 1
      BY <2>2 DEF ParentGoes
    <3>2. Width - 1 \in leaf[i]
      BY <1>1, <1>3, <1>5 DEF LeavesUpper, UpperBits
    <3> QED
      BY <1>6, <3>1, <3>2
  <2> QED
    BY <2>1, <2>2
<1>11. RootIsLeaves'
  <2> SUFFICES ASSUME NEW j \in Bits PROVE j \in root' <=> leaf'[j] # {}
    BY DEF RootIsLeaves
  <2>1. CASE j = i
    BY <1>1, <1>4, <1>10, <2>1
  <2>2. CASE j # i
    BY <1>4, <1>6, <2>2 DEF RootIsLeaves
  <2> QED
    BY <2>1, <2>2
<1>12. /\ Len(pids) \in Nat /\ Len(pids') = Len(pids) + 1
       /\ \A k \in 1 .. Len(pids) : pids'[k] = pids[k]
       /\ pids'[Len(pids) + 1] = Number(i, b)
  BY <1>4, <1>7, AppendProperties, LenProperties DEF PidType
<1>13. Given' = Given \union {Number(i, b)}
  <2>1. \A x \in Given' : x \in Given \/ x = Number(i, b)
    BY <1>12 DEF Given
  <2>2. \A x \in Given : x \in Given'
    BY <1>12 DEF Given
  <2>3. Number(i, b) \in Given'
    BY <1>12 DEF Given
  <2> QED
    BY <2>1, <2>2, <2>3
<1>14. FreeOrGiven'
  <2> SUFFICES ASSUME NEW j \in Bits, NEW c \in Bits
               PROVE  c \in leaf'[j] <=> Number(j, c) \notin Given'
    BY DEF FreeOrGiven
  <2>1. c \in leaf[j] <=> Number(j, c) \notin Given
    BY DEF FreeOrGiven
  <2>2. Number(j, c) = Number(i, b) <=> j = i /\ c = b
    BY <1>1, <1>3, NumberInjective
  <2>3. c \in leaf'[j] <=> c \in leaf[j] /\ ~ (j = i /\ c = b)
    BY <1>6
  <2> QED
    BY <1>13, <2>1, <2>2, <2>3
<1>15. PidsUnique'
  <2>1. Number(i, b) \notin Given
    BY <1>1, <1>3 DEF FreeOrGiven
  <2>2. \A k \in 1 .. Len(pids) : pids[k] # Number(i, b)
    BY <2>1 DEF Given
  <2> SUFFICES ASSUME NEW k \in 1 .. Len(pids'), NEW l \in 1 .. Len(pids'),
                      pids'[k] = pids'[l]
               PROVE  k = l
    BY DEF PidsUnique
  <2>3. CASE k = Len(pids) + 1
    BY <1>12, <2>2, <2>3
  <2>4. CASE l = Len(pids) + 1
    BY <1>12, <2>2, <2>4
  <2>5. CASE k # Len(pids) + 1 /\ l # Len(pids) + 1
    BY <1>12, <2>5 DEF PidsUnique
  <2> QED
    BY <2>3, <2>4, <2>5
<1> QED
  BY <1>8, <1>9, <1>11, <1>14, <1>15

(* Nothing but the creation of a kernel thread takes a PID. *)
LEMMA OthersLeavePids == [Next]_vars => AllocPid \/ UNCHANGED pidVars
<1> SUFFICES ASSUME [Next]_vars PROVE AllocPid \/ UNCHANGED pidVars
  OBVIOUS
<1>1. CASE \E f \in Files : StartFile(f)
  BY <1>1 DEF StartFile
<1>2. CASE TakeOk \/ TakeError \/ TimeOut
  BY <1>2 DEF TakeOk, TakeError, TimeOut
<1>3. CASE Damage \/ DamageAnswer \/ Lose
  BY <1>3 DEF Damage, DamageAnswer, Lose
<1>4. CASE Refuse \/ TakeOther \/ TakeReset \/ TakeSize \/ TakePage \/ TakeLast
  BY <1>4 DEF Refuse, TakeOther, TakeReset, TakeSize, TakePage, TakeLast
<1>5. CASE \E p \in 1 .. Len(m.spaces) : CallCreateThread(p) \/ CallSetBreak(p)
  BY <1>5 DEF CallCreateThread, CallSetBreak
<1>6. CASE NewKthread
  BY <1>6 DEF NewKthread, CreateKthread
<1>7. CASE UNCHANGED vars
  BY <1>7 DEF vars
<1> QED
  BY <1>1, <1>2, <1>3, <1>4, <1>5, <1>6, <1>7 DEF Next

LEMMA NextPidInv == PidInv /\ [Next]_vars => PidInv'
<1> SUFFICES ASSUME PidInv, UNCHANGED pidVars PROVE PidInv'
  BY AllocPidStep, OthersLeavePids
<1> QED
  BY DEF PidInv, PidType, LeavesUpper, UpperBits, RootIsLeaves, FreeOrGiven,
         Given, PidsUnique, pidVars

(* The tree says of every PID whether it is free, whatever else the kernel *)
(* does beside create_kthread.                                             *)
THEOREM PidInvariant == Spec => []PidInv
BY InitPidInv, NextPidInv, PTL DEF Spec

(* No two kernel threads have the same PID (alloc_pid, create_kthread). *)
THEOREM OnePidOneThread == Spec => []PidsUnique
<1>1. PidInv => PidsUnique
  BY DEF PidInv
<1> QED
  BY PidInvariant, <1>1, PTL

(* alloc_pid finds nothing only when every PID of the tree was given: no   *)
(* PID is lost on the way.                                                 *)
NoPidLost == root = {} => \A i, b \in Bits : Number(i, b) \in Given

THEOREM EveryPidIsGiven == Spec => []NoPidLost
<1>1. PidInv => NoPidLost
  BY DEF PidInv, NoPidLost, RootIsLeaves, FreeOrGiven
<1> QED
  BY PidInvariant, <1>1, PTL

-----------------------------------------------------------------------------
(* Definitions. *)

(* The places of a process that hold a frame: an entry of a level 2 table, *)
(* the table itself (at the entry behind its last), and the two frames of  *)
(* the level 1 table (at the section behind the last).                     *)
Places == ((0 .. Sections - 1) \X (0 .. SectPages)) \union ({Sections} \X {0, 1})

Entries == (0 .. Sections - 1) \X (0 .. SectPages - 1)

FrameAt(a, p, x) ==
  IF x[1] = Sections THEN a.spaces[p].lv1 + x[2]
  ELSE IF a.spaces[p].l1[x[1]] = None THEN None
  ELSE IF x[2] = SectPages THEN a.spaces[p].l1[x[1]][1]
  ELSE a.tables[a.spaces[p].l1[x[1]]][x[2]]

(* The frames on the list of pages of a process. *)
InBlocks(S) == UNION {BlockOf(b[1], b[2]) : b \in S}
Listed(a, p) == InBlocks(a.spaces[p].pages)

TableIds == Frames \X {0}

Space ==
  [l1 : [0 .. Sections - 1 -> TableIds \union {None}], lv1 : Nat,
   pt2 : Frames \union {None}, pages : SUBSET (Nat \X (0 .. Widest)),
   stackE : Int, heapE : Nat, image : SUBSET Nat]

(* The fields of the memory. *)
Fields(a) ==
  a \in [free : {a.free}, dead : BOOLEAN, tables : {a.tables}, bits : {a.bits},
         spaces : {a.spaces}]

Table == [0 .. SectPages - 1 -> Frames \union {None}]

TypeMemory(a) ==
  /\ Fields(a)
  /\ a.free \subseteq Frames
  /\ a.tables \in [DOMAIN a.tables -> Table] /\ DOMAIN a.tables \subseteq TableIds
  /\ a.bits \in [DOMAIN a.bits -> {NewBits}] /\ DOMAIN a.bits \subseteq Frames
  /\ a.spaces \in Seq(Space)

(* The tables of the processes are tables, and no frame that is free or    *)
(* held holds one.                                                         *)
TablesLinked(a, H) ==
  /\ \A p \in 1 .. Len(a.spaces) :
       /\ \A s \in 0 .. Sections - 1 :
            a.spaces[p].l1[s] # None => a.spaces[p].l1[s] \in DOMAIN a.tables
       /\ a.spaces[p].pt2 # None => a.spaces[p].pt2 \in DOMAIN a.bits
  /\ \A t \in DOMAIN a.tables : t[1] \notin a.free \union H

(* Every frame at a place is neither free nor held. *)
FramesTaken(a, H) ==
  \A p \in 1 .. Len(a.spaces), x \in Places :
    FrameAt(a, p, x) # None => FrameAt(a, p, x) \in Frames \ (a.free \union H)

(* No frame is at two places. *)
Apart(a) ==
  \A p, q \in 1 .. Len(a.spaces), x, y \in Places :
    FrameAt(a, p, x) # None /\ FrameAt(a, p, x) = FrameAt(a, q, y) => p = q /\ x = y

(* A memory in order, when the frames of H have been allocated and are at  *)
(* no place yet.                                                           *)
InOrder(a, H) ==
  /\ TypeMemory(a)
  /\ H \subseteq Frames \ a.free
  /\ TablesLinked(a, H)
  /\ FramesTaken(a, H)
  /\ Apart(a)

(* What does not change when process p gets frames. *)
OthersKept(a, b, p) ==
  /\ Len(b.spaces) = Len(a.spaces)
  /\ \A q \in 1 .. Len(a.spaces) \ {p} :
       /\ b.spaces[q] = a.spaces[q]
       /\ \A x \in Places : FrameAt(b, q, x) = FrameAt(a, q, x)

RegionsKept(a, b, p) ==
  /\ b.spaces[p].lv1 = a.spaces[p].lv1
  /\ b.spaces[p].stackE = a.spaces[p].stackE
  /\ b.spaces[p].heapE = a.spaces[p].heapE
  /\ b.spaces[p].image = a.spaces[p].image

(* The frames at the places of p are those of before, listed ones, or in X.*)
Accounted(a, b, p, X) ==
  /\ Listed(a, p) \subseteq Listed(b, p)
  /\ \A x \in Places :
       FrameAt(b, p, x) \in {FrameAt(a, p, x), None} \union Listed(b, p) \union X

-----------------------------------------------------------------------------
(* Whatever happens, the memory keeps its fields, and stays dead. *)
Keeps(a, b) == Fields(b) /\ (a.dead => b.dead)

(* alloc_pages. *)
LEMMA AllocKeeps ==
  ASSUME NEW a, Fields(a), NEW order PROVE Keeps(a, AllocPages(a, order))
BY DEF Fields, AllocPages, Keeps

(* mm_process_add_page. *)
LEMMA AddPageKeeps ==
  ASSUME NEW a, Fields(a), NEW p, NEW frame, NEW order
  PROVE  Keeps(a, AddPage(a, p, frame, order))
BY DEF Fields, AddPage, Keeps

(* mm_get_l2_pt. *)
LEMMA GetL2Keeps ==
  ASSUME NEW a, Fields(a), NEW p PROVE Keeps(a, GetL2Table(a, p))
<1> DEFINE b == AllocPages(a, 0)
           frame == FirstFit(a, 0)
           c == [b EXCEPT !.bits = [g \in DOMAIN @ \union {frame} |->
                                 IF g = frame THEN NewBits ELSE @[g]],
                          !.spaces[p].pt2 = frame]
<1>1. Keeps(a, b)
  BY AllocKeeps
<1>2. Keeps(b, c)
  <2> HIDE DEF b, frame
  <2> QED
    BY <1>1 DEF Keeps, Fields
<1>3. GetL2Table(a, p) = IF SlotsLeft(a, p) # {} THEN a ELSE AddPage(c, p, frame, 0)
  BY DEF GetL2Table
<1> HIDE DEF b, c, frame
<1>4. Keeps(c, AddPage(c, p, frame, 0))
  BY <1>2, AddPageKeeps DEF Keeps
<1> QED
  BY <1>1, <1>2, <1>3, <1>4 DEF Keeps

(* The table of a section. *)
LEMMA TableKeeps ==
  ASSUME NEW a, Fields(a), NEW p, NEW s PROVE Keeps(a, WithTable(a, p, s))
<1> DEFINE b == GetL2Table(a, p)
           t == NewTable(a, p)
           c == [b EXCEPT !.spaces[p].l1[s] = t,
                          !.tables = [u \in DOMAIN @ \union {t} |->
                                        IF u \in DOMAIN @ THEN @[u] ELSE EmptyTable]]
<1>1. Keeps(a, b)
  BY GetL2Keeps
<1>2. Keeps(b, c)
  <2> HIDE DEF b, t
  <2> QED
    BY <1>1 DEF Keeps, Fields
<1>3. WithTable(a, p, s) = IF a.spaces[p].l1[s] # None THEN a ELSE c
  BY DEF WithTable
<1> QED
  BY <1>1, <1>2, <1>3 DEF Keeps

(* One page. *)
LEMMA MapInPageKeeps ==
  ASSUME NEW a, Fields(a), NEW p, NEW frame, NEW page
  PROVE  Keeps(a, MapInPage(a, p, frame, page))
<1> DEFINE n == WithTable(a, p, page \div SectPages)
<1>1. Keeps(a, n)
  BY TableKeeps
<1>2. MapInPage(a, p, frame, page)
        = [n EXCEPT !.tables[n.spaces[p].l1[page \div SectPages]]
                            [page % SectPages] = frame]
  BY DEF MapInPage
<1> HIDE DEF n
<1> QED
  BY <1>1, <1>2 DEF Keeps, Fields

-----------------------------------------------------------------------------
(* Frames at places. *)

(* What the places are. *)
LEMMA PlaceFacts ==
  /\ \A x \in Places : x = <<x[1], x[2]>> /\ x[1] \in 0 .. Sections /\ x[2] \in Nat
  /\ \A s \in 0 .. Sections - 1 : <<s, SectPages>> \in Places
  /\ \A s \in 0 .. Sections - 1, i \in 0 .. SectPages - 1 :
       <<s, i>> \in Places /\ <<s, i>> # <<s, SectPages>>
  /\ <<Sections, 0>> \in Places /\ <<Sections, 1>> \in Places
  /\ \A x \in Places : x[1] = Sections => x[2] \in {0, 1}
  /\ \A x \in Places : x[1] # Sections => x[1] \in 0 .. Sections - 1
                                          /\ x[2] \in 0 .. SectPages
BY SectionAssumption DEF Places

(* The table of a section is a table. *)
LEMMA SpaceFacts ==
  ASSUME NEW a, NEW H, TypeMemory(a), TablesLinked(a, H),
         NEW p \in 1 .. Len(a.spaces), NEW s \in 0 .. Sections - 1,
         a.spaces[p].l1[s] # None
  PROVE  /\ a.spaces[p].l1[s] \in DOMAIN a.tables
         /\ a.spaces[p].l1[s] \in TableIds
         /\ a.spaces[p].l1[s] = <<a.spaces[p].l1[s][1], 0>>
         /\ a.tables[a.spaces[p].l1[s]] \in Table
<1>1. a.spaces[p] \in Space
  BY DEF TypeMemory
<1>2. a.spaces[p].l1[s] \in TableIds
  BY <1>1 DEF Space
<1>3. a.spaces[p].l1[s] \in DOMAIN a.tables
  BY DEF TablesLinked
<1> QED
  BY <1>2, <1>3 DEF TypeMemory, TableIds

(* A table is that of one section of one process. *)
LEMMA OwnTable ==
  ASSUME NEW a, NEW H, InOrder(a, H),
         NEW p \in 1 .. Len(a.spaces), NEW s \in 0 .. Sections - 1,
         NEW q \in 1 .. Len(a.spaces), NEW r \in 0 .. Sections - 1,
         a.spaces[p].l1[s] # None, a.spaces[p].l1[s] = a.spaces[q].l1[r]
  PROVE  p = q /\ s = r
<1> DEFINE x == <<s, SectPages>>
           y == <<r, SectPages>>
<1>1. x \in Places /\ y \in Places
  BY PlaceFacts
<1>2. /\ FrameAt(a, p, x) = a.spaces[p].l1[s][1]
      /\ FrameAt(a, q, y) = a.spaces[p].l1[s][1]
  BY SectionAssumption DEF FrameAt
<1>3. a.spaces[p].l1[s] \in TableIds
  BY SpaceFacts DEF InOrder
<1>4. FrameAt(a, p, x) # None
  BY <1>2, <1>3, FramesAssumption DEF TableIds
<1>5. p = q /\ x = y
  BY <1>1, <1>2, <1>4 DEF InOrder, Apart
<1> QED
  BY <1>5

(* A frame that was at no place is put at one. *)
LEMMA PutAtPlace ==
  ASSUME NEW a, NEW H, FramesTaken(a, H), Apart(a),
         NEW b, NEW G, Len(b.spaces) = Len(a.spaces),
         b.free \union G \subseteq a.free \union H,
         NEW p \in 1 .. Len(a.spaces), NEW x \in Places, NEW f \in Frames,
         f \in a.free \union H, f \notin b.free \union G,
         FrameAt(b, p, x) = f,
         \A q \in 1 .. Len(a.spaces), y \in Places :
           (q = p /\ y = x) \/ FrameAt(b, q, y) = FrameAt(a, q, y)
  PROVE  FramesTaken(b, G) /\ Apart(b)
<1>1. \A q \in 1 .. Len(a.spaces), y \in Places : FrameAt(a, q, y) # f
  BY FramesAssumption DEF FramesTaken
<1>2. FramesTaken(b, G)
  BY DEF FramesTaken
<1>3. Apart(b)
  BY <1>1 DEF Apart
<1> QED
  BY <1>2, <1>3

(* The last line of a turn of mm_map_in_pages: the entry is written. *)
Written(n, p, s, i, f) == [n EXCEPT !.tables[n.spaces[p].l1[s]][i] = f]

WriteEffect(n, b, p, s, i, f, H) ==
  /\ InOrder(b, H \ {f})
  /\ b.spaces = n.spaces
  /\ FrameAt(b, p, <<s, i>>) = f
  /\ \A q \in 1 .. Len(n.spaces), x \in Places :
       (q = p /\ x = <<s, i>>) \/ FrameAt(b, q, x) = FrameAt(n, q, x)

LEMMA WriteStep ==
  ASSUME NEW n, NEW H, InOrder(n, H), NEW p \in 1 .. Len(n.spaces),
         NEW s \in 0 .. Sections - 1, NEW i \in 0 .. SectPages - 1, NEW f \in H,
         n.spaces[p].l1[s] # None
  PROVE  WriteEffect(n, Written(n, p, s, i, f), p, s, i, f, H)
<1> DEFINE b == Written(n, p, s, i, f)
           t == n.spaces[p].l1[s]
           e == [n.tables EXCEPT ![t] = [n.tables[t] EXCEPT ![i] = f]]
<1>1. /\ t \in DOMAIN n.tables /\ t \in TableIds /\ t = <<t[1], 0>>
      /\ n.tables[t] \in Table
  <2>1. TypeMemory(n) /\ TablesLinked(n, H) /\ t # None
    BY DEF InOrder
  <2> QED
    BY <2>1, SpaceFacts
<1>2. f \in Frames
  BY DEF InOrder
<1>3. /\ Fields(b) /\ b.free = n.free /\ b.dead = n.dead /\ b.bits = n.bits
      /\ b.spaces = n.spaces /\ b.tables = e
  BY DEF InOrder, TypeMemory, Fields, Written
<1> HIDE DEF b
<1>4. /\ DOMAIN e = DOMAIN n.tables
      /\ \A u \in DOMAIN n.tables : u # t => e[u] = n.tables[u]
      /\ e[t] = [n.tables[t] EXCEPT ![i] = f]
  BY <1>1 DEF InOrder, TypeMemory
<1>5. /\ e[t][i] = f /\ e[t] \in Table
      /\ \A j \in 0 .. SectPages - 1 : j # i => e[t][j] = n.tables[t][j]
  BY <1>1, <1>2, <1>4 DEF Table
<1>6. TypeMemory(b)
  <2>1. e \in [DOMAIN e -> Table]
    BY <1>1, <1>4, <1>5 DEF InOrder, TypeMemory
  <2> HIDE DEF e
  <2> QED
    BY <1>3, <1>4, <2>1 DEF InOrder, TypeMemory
<1> HIDE DEF e
<1>7. FrameAt(b, p, <<s, i>>) = f
  <2> DEFINE x == <<s, i>>
  <2>1. x[1] = s /\ x[2] = i /\ s # Sections /\ i # SectPages
    BY SectionAssumption
  <2>2. b.spaces[p].l1[s] = t /\ t # None /\ b.tables[t][i] = f
    BY <1>3, <1>5
  <2> HIDE DEF x, t
  <2>3. FrameAt(b, p, x) = f
    BY <2>1, <2>2 DEF FrameAt
  <2> QED
    BY <2>3 DEF x
<1>8. ASSUME NEW q \in 1 .. Len(n.spaces), NEW x \in Places, ~ (q = p /\ x = <<s, i>>)
      PROVE  FrameAt(b, q, x) = FrameAt(n, q, x)
  <2> DEFINE u == n.spaces[q].l1[x[1]]
  <2>1. CASE x[1] = Sections
    BY <1>3, <2>1 DEF FrameAt
  <2>2. CASE x[1] # Sections /\ (u = None \/ x[2] = SectPages)
    BY <1>3, <2>2 DEF FrameAt
  <2>3. CASE x[1] # Sections /\ u # None /\ x[2] # SectPages
    <3>1. x[1] \in 0 .. Sections - 1 /\ x[2] \in 0 .. SectPages - 1 /\ x = <<x[1], x[2]>>
      BY <2>3, PlaceFacts, SectionAssumption
    <3>2. FrameAt(b, q, x) = e[u][x[2]] /\ FrameAt(n, q, x) = n.tables[u][x[2]]
      BY <1>3, <2>3 DEF FrameAt
    <3>3. u \in DOMAIN n.tables
      BY <2>3, <3>1, SpaceFacts DEF InOrder
    <3>4. CASE u = t
      <4>1. q = p /\ x[1] = s
        BY <2>3, <3>1, <3>4, OwnTable
      <4>2. x[2] # i
        BY <1>8, <3>1, <4>1
      <4> QED
        BY <1>5, <3>1, <3>2, <3>4, <4>2
    <3>5. CASE u # t
      BY <1>4, <3>2, <3>3, <3>5
    <3> QED
      BY <3>4, <3>5
  <2> QED
    BY <2>1, <2>2, <2>3
<1>9. <<s, i>> \in Places
  BY PlaceFacts
<1>10. f \notin n.free
  BY DEF InOrder
<1>11. FramesTaken(b, H \ {f}) /\ Apart(b)
  <2>1. b.free \union (H \ {f}) \subseteq n.free \union H
    BY <1>3
  <2>2. f \notin b.free \union (H \ {f})
    BY <1>3, <1>10
  <2>3. \A q \in 1 .. Len(n.spaces), y \in Places :
          (q = p /\ y = <<s, i>>) \/ FrameAt(b, q, y) = FrameAt(n, q, y)
    BY <1>8
  <2>4. FramesTaken(n, H) /\ Apart(n)
    BY DEF InOrder
  <2> QED
    BY <1>2, <1>3, <1>7, <1>9, <2>1, <2>2, <2>3, <2>4, PutAtPlace
<1>12. TablesLinked(b, H \ {f})
  BY <1>3, <1>4 DEF InOrder, TablesLinked
<1>13. InOrder(b, H \ {f})
  BY <1>3, <1>6, <1>11, <1>12 DEF InOrder
<1> QED
  BY <1>3, <1>7, <1>8, <1>13 DEF b, WriteEffect

-----------------------------------------------------------------------------
(* Allocation. *)

(* alloc_pages gives a block of free frames. *)
LEMMA FirstFitFacts ==
  ASSUME NEW a, a.free \subseteq Frames, NEW order, Fits(a, order) # {}
  PROVE  /\ FirstFit(a, order) \in a.free
         /\ BlockOf(FirstFit(a, order), order) \subseteq a.free
<1>1. Fits(a, order) \in SUBSET Nat
  BY FramesAssumption DEF Fits
<1>2. \E f \in Fits(a, order) : \A g \in Fits(a, order) : f <= g
  BY <1>1, LeastElement
<1>3. FirstFit(a, order) \in Fits(a, order)
  BY <1>2 DEF FirstFit
<1> QED
  BY <1>3 DEF Fits

(* A block that was allocated is held. *)
AllocEffect(a, b, frame, block, H) ==
  /\ InOrder(b, H \union block)
  /\ b = [a EXCEPT !.free = a.free \ block]
  /\ ~ a.dead
  /\ frame \in a.free
  /\ block \subseteq a.free
  /\ block \intersect H = {}
  /\ b.spaces = a.spaces /\ b.tables = a.tables /\ b.bits = a.bits
  /\ b.free = a.free \ block
  /\ \A q \in 1 .. Len(a.spaces), x \in Places :
       FrameAt(b, q, x) = FrameAt(a, q, x)

LEMMA AllocStep ==
  ASSUME NEW a, NEW H, InOrder(a, H), NEW order, ~ AllocPages(a, order).dead
  PROVE  AllocEffect(a, AllocPages(a, order), FirstFit(a, order),
                     BlockOf(FirstFit(a, order), order), H)
<1> DEFINE b == AllocPages(a, order)
           block == BlockOf(FirstFit(a, order), order)
<1>1. Fits(a, order) # {}
  <2> SUFFICES ASSUME Fits(a, order) = {} PROVE FALSE
    OBVIOUS
  <2>1. AllocPages(a, order) = [a EXCEPT !.dead = TRUE]
    BY DEF AllocPages
  <2> QED
    BY <2>1 DEF InOrder, TypeMemory, Fields
<1>2. b = [a EXCEPT !.free = a.free \ block]
  BY <1>1 DEF AllocPages
<1>3. FirstFit(a, order) \in a.free /\ block \subseteq a.free
  BY <1>1, FirstFitFacts DEF InOrder, TypeMemory
<1> HIDE DEF b, block
<1>4. /\ Fields(b) /\ b.free = a.free \ block /\ b.dead = a.dead /\ b.bits = a.bits
      /\ b.spaces = a.spaces /\ b.tables = a.tables
  BY <1>2 DEF InOrder, TypeMemory, Fields
<1>5. \A q, x : FrameAt(b, q, x) = FrameAt(a, q, x)
  BY <1>4 DEF FrameAt
<1>6. TypeMemory(b)
  BY <1>4 DEF InOrder, TypeMemory
<1>7. block \intersect H = {} /\ H \union block \subseteq Frames \ b.free
  BY <1>3, <1>4 DEF InOrder, TypeMemory
<1>8. b.free \union (H \union block) = a.free \union H
  BY <1>3, <1>4
<1>9. TablesLinked(b, H \union block)
  BY <1>4, <1>8 DEF InOrder, TablesLinked
<1>10. FramesTaken(b, H \union block)
  BY <1>4, <1>5, <1>8 DEF InOrder, FramesTaken
<1>11. Apart(b)
  BY <1>4, <1>5 DEF InOrder, Apart
<1>12. InOrder(b, H \union block)
  BY <1>6, <1>7, <1>9, <1>10, <1>11 DEF InOrder
<1>13. ~ a.dead
  BY <1>4 DEF b
<1> QED
  BY <1>2, <1>3, <1>4, <1>5, <1>7, <1>12, <1>13 DEF b, block, AllocEffect

(* A frame that is one block of order 0. *)
LEMMA OneFrame == ASSUME NEW f \in Nat PROVE BlockOf(f, 0) = {f}
<1>1. Size[0] = 1
  BY SizeAssumption
<1> QED
  BY <1>1 DEF BlockOf

(* One more block on a list. *)
LEMMA ListedOne ==
  ASSUME NEW S, NEW f, NEW order
  PROVE  InBlocks(S \union {<<f, order>>}) = InBlocks(S) \union BlockOf(f, order)
<1> DEFINE t == <<f, order>>
<1>1. t[1] = f /\ t[2] = order
  OBVIOUS
<1> HIDE DEF t
<1>2. InBlocks(S \union {t}) = InBlocks(S) \union BlockOf(t[1], t[2])
  BY DEF InBlocks
<1> QED
  BY <1>1, <1>2 DEF t

(* mm_get_l2_pt and the entry of the level 1 table. *)
LEMMA TableStep ==
  ASSUME NEW a, NEW H, InOrder(a, H), NEW p \in 1 .. Len(a.spaces),
         NEW s \in 0 .. Sections - 1, ~ WithTable(a, p, s).dead
  PROVE  LET b == WithTable(a, p, s)
         IN  /\ InOrder(b, H)
             /\ OthersKept(a, b, p)
             /\ RegionsKept(a, b, p)
             /\ Accounted(a, b, p, {})
             /\ b.spaces[p].l1[s] # None
             /\ \A x \in Entries : FrameAt(b, p, x) = FrameAt(a, p, x)
<1>1. CASE a.spaces[p].l1[s] # None
  <2>1. WithTable(a, p, s) = a
    BY <1>1 DEF WithTable
  <2> QED
    BY <1>1, <2>1 DEF OthersKept, RegionsKept, Accounted
<1>2. CASE a.spaces[p].l1[s] = None
  <2> DEFINE c == AllocPages(a, 0)
             f == FirstFit(a, 0)
             t == <<f, 0>>
             z == a.spaces[p]
             d == [c EXCEPT !.bits = [g \in DOMAIN @ \union {f} |->
                                        IF g = f THEN NewBits ELSE @[g]],
                            !.spaces[p].pt2 = f]
             e == AddPage(d, p, f, 0)
             b == [e EXCEPT !.spaces[p].l1[s] = t,
                            !.tables = [u \in DOMAIN @ \union {t} |->
                                          IF u \in DOMAIN @ THEN @[u] ELSE EmptyTable]]
  <2>1. TypeMemory(a) /\ z \in Space /\ Fields(a)
    BY DEF InOrder, TypeMemory
  <2>2. SlotsLeft(a, p) = {}
    <3>1. CASE a.spaces[p].pt2 = None
      BY <3>1 DEF SlotsLeft
    <3>2. CASE a.spaces[p].pt2 # None
      <4>1. a.spaces[p].pt2 \in DOMAIN a.bits
        BY <3>2 DEF InOrder, TablesLinked
      <4>2. a.bits[a.spaces[p].pt2] = {}
        BY <2>1, <4>1 DEF TypeMemory, NewBits
      <4> QED
        BY <3>2, <4>2 DEF SlotsLeft
    <3> QED
      BY <3>1, <3>2
  <2>3. NewTable(a, p) = t /\ GetL2Table(a, p) = e
    BY <2>2 DEF NewTable, GetL2Table
  <2>4. WithTable(a, p, s) = b
    BY <1>2, <2>3 DEF WithTable
  <2>5. ~ c.dead
    <3>1. Keeps(a, c)
      BY <2>1, AllocKeeps
    <3>2. Keeps(c, d)
      <4> HIDE DEF c, f
      <4> QED
        BY <3>1 DEF Keeps, Fields
    <3> HIDE DEF c, d, f
    <3>3. Keeps(d, e)
      BY <3>2, AddPageKeeps DEF Keeps
    <3> HIDE DEF e
    <3>4. Keeps(e, b)
      BY <3>3 DEF Keeps, Fields
    <3> QED
      BY <2>4, <3>2, <3>3, <3>4 DEF Keeps
  <2>6. /\ InOrder(c, H \union BlockOf(f, 0))
        /\ f \in a.free /\ f \in Frames /\ f \in Nat
        /\ c.spaces = a.spaces /\ c.tables = a.tables /\ c.bits = a.bits
        /\ c.free = a.free \ BlockOf(f, 0)
        /\ Fields(c)
    <3>1. /\ InOrder(c, H \union BlockOf(f, 0))
          /\ f \in a.free
          /\ c.spaces = a.spaces /\ c.tables = a.tables /\ c.bits = a.bits
          /\ c.free = a.free \ BlockOf(f, 0)
      BY <2>5, AllocStep DEF AllocEffect
    <3> HIDE DEF c, f
    <3>2. Fields(c)
      BY <3>1 DEF InOrder, TypeMemory
    <3>3. f \in Frames /\ f \in Nat
      BY <2>1, <3>1, FramesAssumption DEF TypeMemory
    <3> QED
      BY <3>1, <3>2, <3>3
  <2>7. BlockOf(f, 0) = {f}
    BY <2>6, OneFrame
  <2> DEFINE w == [z EXCEPT !.pt2 = f, !.pages = z.pages \union {<<f, 0>>},
                            !.l1 = [z.l1 EXCEPT ![s] = t]]
  <2> HIDE DEF c, f
  <2>8. /\ Fields(d) /\ d.free = c.free /\ d.dead = c.dead /\ d.tables = a.tables
        /\ d.bits = [g \in DOMAIN a.bits \union {f} |->
                       IF g = f THEN NewBits ELSE a.bits[g]]
        /\ d.spaces = [a.spaces EXCEPT ![p] = [z EXCEPT !.pt2 = f]]
    BY <2>6 DEF Fields
  <2> HIDE DEF d
  <2>9. /\ Fields(e) /\ e.free = c.free /\ e.dead = c.dead /\ e.tables = a.tables
        /\ e.bits = d.bits
        /\ e.spaces = [d.spaces EXCEPT ![p] = [d.spaces[p] EXCEPT
                                                 !.pages = d.spaces[p].pages \union {<<f, 0>>}]]
    BY <2>8 DEF Fields, AddPage
  <2> HIDE DEF e
  <2>10. /\ Fields(b) /\ b.free = c.free /\ b.dead = c.dead /\ b.bits = d.bits
         /\ b.tables = [u \in DOMAIN a.tables \union {t} |->
                          IF u \in DOMAIN a.tables THEN a.tables[u] ELSE EmptyTable]
         /\ b.spaces = [e.spaces EXCEPT ![p] = [e.spaces[p] EXCEPT
                                                  !.l1 = [e.spaces[p].l1 EXCEPT ![s] = t]]]
    BY <2>9 DEF Fields
  <2> HIDE DEF b
  <2>11. a.spaces \in Seq(Space) /\ p \in DOMAIN a.spaces
    BY <2>1 DEF TypeMemory
  <2>12. b.spaces = [a.spaces EXCEPT ![p] = w]
    <3>1. d.spaces[p] = [z EXCEPT !.pt2 = f]
      BY <2>8, <2>11
    <3>2. e.spaces[p] = [z EXCEPT !.pt2 = f, !.pages = z.pages \union {<<f, 0>>}]
      <4> DEFINE y == d.spaces[p]
                 L == <<f, 0>>
      <4>1. d.spaces = [a.spaces EXCEPT ![p] = y] /\ y = [z EXCEPT !.pt2 = f]
        BY <2>8, <2>11, <3>1
      <4>2. e.spaces[p] = [y EXCEPT !.pages = y.pages \union {L}]
        <5> HIDE DEF y, L
        <5>1. e.spaces = [d.spaces EXCEPT ![p] = [y EXCEPT !.pages = y.pages \union {L}]]
          BY <2>9 DEF y, L
        <5> QED
          BY <2>11, <4>1, <5>1
      <4> HIDE DEF y, L
      <4>3. y.pages = z.pages
        BY <2>1, <4>1 DEF Space
      <4>4. [y EXCEPT !.pages = z.pages \union {L}]
              = [z EXCEPT !.pt2 = f, !.pages = z.pages \union {L}]
        BY <2>1, <4>1 DEF Space
      <4> QED
        BY <4>2, <4>3, <4>4 DEF L
    <3>3. e.spaces = [a.spaces EXCEPT ![p] = e.spaces[p]]
      BY <2>8, <2>9, <2>11, <3>2
    <3>4. [e.spaces[p] EXCEPT !.l1 = [e.spaces[p].l1 EXCEPT ![s] = t]] = w
      BY <2>1, <3>2 DEF Space
    <3> QED
      BY <2>10, <2>11, <3>3, <3>4
  <2>13. /\ w \in Space /\ w.pt2 = f /\ w.pages = z.pages \union {<<f, 0>>}
         /\ w.l1[s] = t /\ t \in TableIds
         /\ \A r \in 0 .. Sections - 1 : r # s => w.l1[r] = z.l1[r]
         /\ w.lv1 = z.lv1 /\ w.stackE = z.stackE /\ w.heapE = z.heapE
         /\ w.image = z.image
    <3>1. t \in TableIds /\ <<f, 0>> \in Nat \X (0 .. Widest)
      BY <2>6, SizeAssumption DEF TableIds
    <3> HIDE DEF t
    <3> QED
      BY <2>1, <2>6, <3>1 DEF Space
  <2> HIDE DEF w
  <2>14. /\ Len(b.spaces) = Len(a.spaces) /\ b.spaces \in Seq(Space)
         /\ b.spaces[p] = w
         /\ \A q \in 1 .. Len(a.spaces) : q # p => b.spaces[q] = a.spaces[q]
    BY <2>11, <2>12, <2>13
  <2>15. t \notin DOMAIN a.tables
    BY <2>6 DEF InOrder, TablesLinked
  <2>16. EmptyTable \in Table
    BY DEF EmptyTable, Table
  <2>17. TypeMemory(b)
    <3>1. b.tables \in [DOMAIN b.tables -> Table] /\ DOMAIN b.tables \subseteq TableIds
      <4>1. /\ \A u \in DOMAIN a.tables : a.tables[u] \in Table
            /\ DOMAIN a.tables \subseteq TableIds
        BY <2>1 DEF TypeMemory
      <4>2. \A u \in DOMAIN a.tables \union {t} :
              (IF u \in DOMAIN a.tables THEN a.tables[u] ELSE EmptyTable) \in Table
        BY <2>16, <4>1
      <4>3. DOMAIN b.tables = DOMAIN a.tables \union {t}
        BY <2>10
      <4>4. DOMAIN b.tables \subseteq TableIds
        BY <2>13, <4>1, <4>3
      <4> HIDE DEF t
      <4> QED
        BY <2>10, <4>2, <4>3, <4>4
    <3>2. b.bits \in [DOMAIN b.bits -> {NewBits}] /\ DOMAIN b.bits \subseteq Frames
      BY <2>1, <2>6, <2>8, <2>10 DEF TypeMemory
    <3>3. b.free \subseteq Frames
      BY <2>1, <2>6, <2>10 DEF TypeMemory
    <3> QED
      BY <2>10, <2>14, <3>1, <3>2, <3>3 DEF TypeMemory
  <2>18. ASSUME NEW q \in 1 .. Len(a.spaces), NEW x \in Places,
                ~ (q = p /\ x = <<s, SectPages>>)
         PROVE  FrameAt(b, q, x) = FrameAt(a, q, x)
    <3> DEFINE u == a.spaces[q].l1[x[1]]
    <3>1. /\ x[1] # Sections => x[1] \in 0 .. Sections - 1
          /\ x = <<x[1], x[2]>> /\ x[2] \in 0 .. SectPages
      <4>1. x[1] = Sections => x[2] \in 0 .. SectPages
        BY PlaceFacts, SectionAssumption
      <4> QED
        BY <4>1, PlaceFacts
    <3>2. CASE x[1] = Sections
      BY <2>13, <2>14, <3>2 DEF FrameAt
    <3>3. CASE x[1] # Sections /\ q = p /\ x[1] = s
      <4>1. x[2] # SectPages /\ x[2] \in 0 .. SectPages - 1
        BY <2>18, <3>1, <3>3, SectionAssumption
      <4>2. FrameAt(a, q, x) = None
        BY <1>2, <3>3 DEF FrameAt
      <4>3. b.spaces[q].l1[x[1]] = t
        BY <2>13, <2>14, <3>3
      <4>4. t # None
        BY <2>13, FramesAssumption DEF TableIds
      <4>5. b.tables[t] = EmptyTable
        BY <2>10, <2>15
      <4>6. FrameAt(b, q, x) = EmptyTable[x[2]]
        BY <3>3, <4>1, <4>3, <4>4, <4>5 DEF FrameAt
      <4> QED
        BY <4>1, <4>2, <4>6 DEF EmptyTable
    <3>4. CASE x[1] # Sections /\ ~ (q = p /\ x[1] = s)
      <4>1. b.spaces[q].l1[x[1]] = u
        BY <2>13, <2>14, <3>1, <3>4
      <4>2. CASE u = None \/ x[2] = SectPages
        BY <3>4, <4>1, <4>2 DEF FrameAt
      <4>3. CASE u # None /\ x[2] # SectPages
        <5>1. u \in DOMAIN a.tables
          BY <3>1, <3>4, <4>3, SpaceFacts DEF InOrder
        <5>2. b.tables[u] = a.tables[u]
          BY <2>10, <5>1
        <5> QED
          BY <3>4, <4>1, <4>3, <5>2 DEF FrameAt
      <4> QED
        BY <4>2, <4>3
    <3> QED
      BY <3>2, <3>3, <3>4
  <2>19. <<s, SectPages>> \in Places /\ FrameAt(b, p, <<s, SectPages>>) = f
    <3>1. t # None
      BY <2>13, FramesAssumption DEF TableIds
    <3>2. b.spaces[p].l1[s] = t
      BY <2>13, <2>14
    <3> QED
      BY <3>1, <3>2, PlaceFacts, SectionAssumption DEF FrameAt
  <2>20. FramesTaken(b, H) /\ Apart(b)
    <3>1. FramesTaken(a, H) /\ Apart(a)
      BY DEF InOrder
    <3>2. b.free \union H \subseteq a.free \union H /\ f \in a.free \union H
      BY <2>6, <2>10
    <3>3. f \notin b.free \union H
      BY <2>6, <2>7, <2>10 DEF InOrder
    <3> DEFINE place == <<s, SectPages>>
    <3>4. \A q \in 1 .. Len(a.spaces), y \in Places :
            (q = p /\ y = place) \/ FrameAt(b, q, y) = FrameAt(a, q, y)
      BY <2>18
    <3>5. place \in Places /\ FrameAt(b, p, place) = f
      BY <2>19
    <3> HIDE DEF place, f, t
    <3> QED
      BY <2>6, <2>14, <3>1, <3>2, <3>3, <3>4, <3>5, PutAtPlace
  <2>21. TablesLinked(b, H)
    <3>1. ASSUME NEW q \in 1 .. Len(b.spaces), NEW r \in 0 .. Sections - 1,
                 b.spaces[q].l1[r] # None
          PROVE  b.spaces[q].l1[r] \in DOMAIN b.tables
      <4>1. CASE q = p /\ r = s
        BY <2>10, <2>13, <2>14, <4>1
      <4>2. CASE ~ (q = p /\ r = s)
        <5>1. b.spaces[q].l1[r] = a.spaces[q].l1[r]
          BY <2>13, <2>14, <4>2
        <5>2. q \in 1 .. Len(a.spaces) /\ a.spaces[q].l1[r] # None
          BY <2>14, <3>1, <5>1
        <5>3. a.spaces[q].l1[r] \in DOMAIN a.tables
          BY <5>2 DEF InOrder, TablesLinked
        <5>4. DOMAIN a.tables \subseteq DOMAIN b.tables
          BY <2>10
        <5> QED
          BY <5>1, <5>3, <5>4
      <4> QED
        BY <4>1, <4>2
    <3>2. ASSUME NEW q \in 1 .. Len(b.spaces), b.spaces[q].pt2 # None
          PROVE  b.spaces[q].pt2 \in DOMAIN b.bits
      <4>1. CASE q = p
        BY <2>8, <2>10, <2>13, <2>14, <4>1
      <4>2. CASE q # p
        <5>1. q \in 1 .. Len(a.spaces) /\ b.spaces[q] = a.spaces[q]
          BY <2>14, <4>2
        <5>2. a.spaces[q].pt2 \in DOMAIN a.bits
          BY <3>2, <5>1 DEF InOrder, TablesLinked
        <5>3. DOMAIN a.bits \subseteq DOMAIN b.bits
          BY <2>8, <2>10
        <5> QED
          BY <5>1, <5>2, <5>3
      <4> QED
        BY <4>1, <4>2
    <3>3. ASSUME NEW u \in DOMAIN b.tables PROVE u[1] \notin b.free \union H
      <4>1. CASE u = t
        <5>1. u[1] = f
          BY <4>1
        <5> QED
          BY <2>6, <2>7, <2>10, <5>1 DEF InOrder
      <4>2. CASE u # t
        BY <2>6, <2>10, <4>2 DEF InOrder, TablesLinked
      <4> QED
        BY <4>1, <4>2
    <3> QED
      BY <3>1, <3>2, <3>3 DEF TablesLinked
  <2>22. InOrder(b, H)
    <3>1. H \subseteq Frames \ b.free
      BY <2>6, <2>10 DEF InOrder
    <3> QED
      BY <2>17, <2>20, <2>21, <3>1 DEF InOrder
  <2>23. OthersKept(a, b, p)
    BY <2>14, <2>18 DEF OthersKept
  <2>24. RegionsKept(a, b, p)
    BY <2>13, <2>14 DEF RegionsKept
  <2>25. Accounted(a, b, p, {})
    <3>1. Listed(b, p) = Listed(a, p) \union BlockOf(f, 0)
      <4>1. b.spaces[p].pages = z.pages \union {<<f, 0>>}
        BY <2>13, <2>14
      <4> QED
        BY <4>1, ListedOne DEF Listed
    <3>2. ASSUME NEW x \in Places
          PROVE  FrameAt(b, p, x) \in {FrameAt(a, p, x), None} \union Listed(b, p) \union {}
      BY <2>7, <2>18, <2>19, <3>1
    <3> QED
      BY <3>1, <3>2 DEF Accounted
  <2>26. \A x \in Entries : FrameAt(b, p, x) = FrameAt(a, p, x)
    <3>1. \A x \in Entries : x \in Places /\ x # <<s, SectPages>>
      BY SectionAssumption DEF Entries, Places
    <3> QED
      BY <2>18, <3>1
  <2>27. b.spaces[p].l1[s] # None
    BY <2>13, <2>14, FramesAssumption DEF TableIds
  <2> QED
    BY <2>4, <2>22, <2>23, <2>24, <2>25, <2>26, <2>27
<1> QED
  BY <1>1, <1>2

-----------------------------------------------------------------------------
(* Mapping. *)

User == 0 .. KernelStart - 1

(* The entry of a page. *)
EntryOf(v) == <<v \div SectPages, v % SectPages>>

(* A page of a process has an entry. *)
LEMMA EntryFacts ==
  ASSUME NEW v \in User
  PROVE  /\ v \div SectPages \in 0 .. Sections - 1
         /\ v % SectPages \in 0 .. SectPages - 1
         /\ EntryOf(v) \in Places /\ EntryOf(v) \in Entries
         /\ v = SectPages * (v \div SectPages) + (v % SectPages)
<1>1. SectPages \in Nat \ {0} /\ Sections \in Nat \ {0}
  BY SectionAssumption
<1>2. v \in Nat /\ v < SectPages * Sections
  BY <1>1 DEF User, KernelStart
<1> DEFINE q == v \div SectPages
           r == v % SectPages
<1>3. q \in Int /\ r \in 0 .. SectPages - 1 /\ v = SectPages * q + r
  BY <1>1, <1>2
<1> HIDE DEF q, r
<1>4. q >= 0
  <2> SUFFICES ASSUME q < 0 PROVE FALSE
    BY <1>3
  <2>1. q + 1 <= 0 /\ -(q + 1) \in Nat
    BY <1>3
  <2>2. SectPages * (-(q + 1)) \in Nat
    BY <1>1, <2>1
  <2>3. SectPages * q = -(SectPages * (-(q + 1))) - SectPages
    BY <1>1, <1>3
  <2> QED
    BY <1>1, <1>2, <1>3, <2>2, <2>3
<1>5. q < Sections
  <2> SUFFICES ASSUME q >= Sections PROVE FALSE
    BY <1>1, <1>3
  <2>1. q - Sections \in Nat
    BY <1>1, <1>3
  <2>2. SectPages * (q - Sections) \in Nat
    BY <1>1, <2>1
  <2>3. SectPages * q = SectPages * Sections + SectPages * (q - Sections)
    BY <1>1, <1>3
  <2>4. SectPages * Sections \in Nat
    BY <1>1
  <2> QED
    BY <1>1, <1>2, <1>3, <2>2, <2>3, <2>4
<1>6. q \in 0 .. Sections - 1
  BY <1>1, <1>3, <1>4, <1>5
<1>7. <<q, r>> \in Places /\ <<q, r>> \in Entries
  BY <1>3, <1>6, PlaceFacts DEF Entries
<1> QED
  BY <1>3, <1>6, <1>7 DEF EntryOf, q, r

(* An entry is that of one page. *)
LEMMA EntryOfOne ==
  ASSUME NEW u \in User, NEW v \in User, EntryOf(u) = EntryOf(v) PROVE u = v
<1>1. u \div SectPages = v \div SectPages /\ u % SectPages = v % SectPages
  BY DEF EntryOf
<1> DEFINE q == u \div SectPages
           r == u % SectPages
<1>2. u = SectPages * q + r
  BY EntryFacts
<1>3. v = SectPages * (v \div SectPages) + (v % SectPages)
  BY EntryFacts
<1> QED
  BY <1>1, <1>2, <1>3

(* What the tables make of a page is the frame at its entry. *)
LEMMA TranslateIsEntry ==
  ASSUME NEW a, NEW p, NEW v \in User
  PROVE  Translate(a, p, v) = FrameAt(a, p, EntryOf(v))
<1>1. v \div SectPages # Sections /\ v % SectPages # SectPages
  BY EntryFacts, SectionAssumption
<1> QED
  BY <1>1 DEF Translate, FrameAt, EntryOf

(* mm_map_in_pages, turn by turn. *)
Turns(after, a, p, frame, cnt, page) ==
  /\ after[0] = a
  /\ after[cnt] = MapInPages(a, p, frame, cnt, page)
  /\ \A k \in 1 .. cnt :
       after[k] = MapInPage(after[k - 1], p, frame + k - 1, page + k - 1)

LEMMA MapTurns ==
  ASSUME NEW a, NEW p, NEW frame \in Nat, NEW cnt \in Nat, NEW page \in Nat
  PROVE  \E after : Turns(after, a, p, frame, cnt, page)
<1> DEFINE Turn(g, k) == IF k = 0 THEN a
                         ELSE MapInPage(g[k - 1], p, frame + k - 1, page + k - 1)
           Upto(n) == \E g : g = [k \in 0 .. n |-> Turn(g, k)]
           Bad == {n \in Nat : ~ Upto(n)}
<1>1. Upto(0)
  <2> DEFINE g == [k \in 0 .. 0 |-> a]
  <2>1. g = [k \in 0 .. 0 |-> Turn(g, k)]
    OBVIOUS
  <2> QED
    BY <2>1
<1>2. ASSUME NEW n \in Nat, Upto(n) PROVE Upto(n + 1)
  <2>1. PICK g : g = [k \in 0 .. n |-> Turn(g, k)]
    BY <1>2
  <2> DEFINE h == [k \in 0 .. n + 1 |-> IF k = n + 1 THEN Turn(g, n + 1) ELSE g[k]]
  <2>2. ASSUME NEW k \in 0 .. n + 1 PROVE h[k] = Turn(h, k)
    <3>1. CASE k = 0
      <4>1. h[k] = g[k] /\ g[k] = Turn(g, k)
        BY <2>1, <3>1
      <4> QED
        BY <3>1, <4>1
    <3>2. CASE k # 0
      <4>1. k - 1 \in 0 .. n
        BY <3>2
      <4>2. h[k - 1] = g[k - 1]
        BY <4>1
      <4>3. h[k] = Turn(g, k)
        <5>1. CASE k = n + 1
          BY <5>1
        <5>2. CASE k # n + 1
          <6>1. k \in 0 .. n
            BY <5>2
          <6>2. h[k] = g[k]
            BY <5>2, <6>1
          <6>3. g[k] = Turn(g, k)
            BY <2>1, <6>1
          <6> QED
            BY <6>2, <6>3
        <5> QED
          BY <5>1, <5>2
      <4>4. Turn(g, k) = MapInPage(g[k - 1], p, frame + k - 1, page + k - 1)
        BY <3>2
      <4>5. Turn(h, k) = MapInPage(h[k - 1], p, frame + k - 1, page + k - 1)
        BY <3>2
      <4> HIDE DEF Turn, h
      <4> QED
        BY <4>2, <4>3, <4>4, <4>5
    <3> QED
      BY <3>1, <3>2
  <2>3. h = [k \in 0 .. n + 1 |-> h[k]]
    OBVIOUS
  <2>4. h = [k \in 0 .. n + 1 |-> Turn(h, k)]
    <3> HIDE DEF h, Turn
    <3> QED
      BY <2>2, <2>3
  <2> HIDE DEF h, Turn
  <2> QED
    BY <2>4
<1> HIDE DEF Turn
<1>3. Bad = {}
  <2> SUFFICES ASSUME Bad # {} PROVE FALSE
    OBVIOUS
  <2>1. PICK n \in Bad : \A k \in Bad : n <= k
    BY LeastElement
  <2>2. n # 0
    BY <1>1, <2>1
  <2>3. n - 1 \in Nat /\ n - 1 \notin Bad
    BY <2>1, <2>2
  <2>4. Upto(n - 1)
    BY <2>3
  <2>5. Upto(n - 1 + 1)
    BY <1>2, <2>3, <2>4
  <2> QED
    BY <2>1, <2>5
<1>4. Upto(cnt)
  BY <1>3
<1> DEFINE after == CHOOSE g : g = [k \in 0 .. cnt |-> Turn(g, k)]
<1>5. after = [k \in 0 .. cnt |-> Turn(after, k)]
  BY <1>4
<1>6. MapInPages(a, p, frame, cnt, page) = after[cnt]
  BY DEF MapInPages, Turn
<1> HIDE DEF after
<1>7. \A k \in 0 .. cnt : after[k] = Turn(after, k)
  BY <1>5
<1>8. after[0] = a
  BY <1>7 DEF Turn
<1>9. ASSUME NEW k \in 1 .. cnt
      PROVE  after[k] = MapInPage(after[k - 1], p, frame + k - 1, page + k - 1)
  BY <1>7 DEF Turn
<1> QED
  BY <1>6, <1>8, <1>9 DEF Turns

(* One turn of mm_map_in_pages. *)
TurnEffect(a, b, p, f, v, H) ==
  /\ InOrder(b, H \ {f})
  /\ OthersKept(a, b, p)
  /\ RegionsKept(a, b, p)
  /\ Accounted(a, b, p, {f})
  /\ Translate(b, p, v) = f
  /\ \A u \in User : u # v => Translate(b, p, u) = Translate(a, p, u)

LEMMA MapTurn ==
  ASSUME NEW a, NEW H, InOrder(a, H), NEW p \in 1 .. Len(a.spaces),
         NEW f \in H, NEW v \in User, ~ MapInPage(a, p, f, v).dead
  PROVE  TurnEffect(a, MapInPage(a, p, f, v), p, f, v, H)
<1> DEFINE s == v \div SectPages
           i == v % SectPages
           n == WithTable(a, p, s)
           b == MapInPage(a, p, f, v)
<1>1. b = Written(n, p, s, i, f)
  BY DEF MapInPage, Written
<1>2. Fields(a)
  BY DEF InOrder, TypeMemory
<1>3. Keeps(a, n)
  BY <1>2, TableKeeps
<1>4. ~ n.dead
  <2> HIDE DEF n
  <2> QED
    BY <1>1, <1>3 DEF Keeps, Written, Fields
<1>5. s \in 0 .. Sections - 1 /\ i \in 0 .. SectPages - 1
  BY EntryFacts
<1>6. <<s, i>> = EntryOf(v)
  BY DEF EntryOf
<1> HIDE DEF s, i
<1>7. /\ InOrder(n, H) /\ OthersKept(a, n, p) /\ RegionsKept(a, n, p)
      /\ Accounted(a, n, p, {}) /\ n.spaces[p].l1[s] # None
      /\ \A x \in Entries : FrameAt(n, p, x) = FrameAt(a, p, x)
  BY <1>4, <1>5, TableStep
<1> HIDE DEF n, b
<1>8. p \in 1 .. Len(n.spaces) /\ Len(n.spaces) = Len(a.spaces)
  BY <1>7 DEF OthersKept
<1>9. /\ InOrder(b, H \ {f})
      /\ b.spaces = n.spaces
      /\ FrameAt(b, p, <<s, i>>) = f
      /\ \A q \in 1 .. Len(n.spaces), x \in Places :
           (q = p /\ x = <<s, i>>) \/ FrameAt(b, q, x) = FrameAt(n, q, x)
  <2>1. InOrder(n, H) /\ n.spaces[p].l1[s] # None
    BY <1>7
  <2>2. WriteEffect(n, Written(n, p, s, i, f), p, s, i, f, H)
    BY <1>5, <1>8, <2>1, WriteStep
  <2> QED
    BY <1>1, <2>2 DEF WriteEffect
<1>10. OthersKept(a, b, p)
  BY <1>7, <1>8, <1>9 DEF OthersKept
<1>11. RegionsKept(a, b, p)
  BY <1>7, <1>9 DEF RegionsKept
<1>12. Accounted(a, b, p, {f})
  <2>1. Listed(b, p) = Listed(n, p)
    BY <1>9 DEF Listed
  <2> QED
    BY <1>7, <1>8, <1>9, <2>1 DEF Accounted
<1>13. Translate(b, p, v) = f
  BY <1>6, <1>9, TranslateIsEntry
<1>14. ASSUME NEW u \in User, u # v PROVE Translate(b, p, u) = Translate(a, p, u)
  <2>1. EntryOf(u) # <<s, i>> /\ EntryOf(u) \in Places /\ EntryOf(u) \in Entries
    BY <1>6, <1>14, EntryFacts, EntryOfOne
  <2> QED
    BY <1>7, <1>8, <1>9, <2>1, TranslateIsEntry
<1> QED
  BY <1>9, <1>10, <1>11, <1>12, <1>13, <1>14 DEF b, TurnEffect

(* A memory after a number of turns: H is held and block is mapped from    *)
(* page on in process p.                                                   *)
MappedIn(a, b, p, frame, cnt, page, H) ==
  /\ InOrder(b, H \ (frame .. frame + cnt - 1))
  /\ OthersKept(a, b, p)
  /\ RegionsKept(a, b, p)
  /\ Accounted(a, b, p, frame .. frame + cnt - 1)
  /\ \A v \in User :
       Translate(b, p, v) = IF v \in page .. page + cnt - 1 THEN frame + (v - page)
                            ELSE Translate(a, p, v)

(* mm_map_in_pages maps frames that are held, and nothing else changes.    *)
LEMMA MapStep ==
  ASSUME NEW a, NEW H, InOrder(a, H), NEW p \in 1 .. Len(a.spaces),
         NEW frame \in Nat, NEW cnt \in Nat, NEW page \in Nat,
         frame .. frame + cnt - 1 \subseteq H, page + cnt <= KernelStart,
         ~ MapInPages(a, p, frame, cnt, page).dead
  PROVE  MappedIn(a, MapInPages(a, p, frame, cnt, page), p, frame, cnt, page, H)
<1>1. PICK after : Turns(after, a, p, frame, cnt, page)
  BY MapTurns
<1> DEFINE Good(k) == /\ Fields(after[k])
                      /\ \/ after[k].dead
                         \/ MappedIn(a, after[k], p, frame, k, page, H)
<1>2. Good(0)
  <2>1. Fields(a)
    BY DEF InOrder, TypeMemory
  <2>2. frame .. frame + 0 - 1 = {} /\ page .. page + 0 - 1 = {}
    OBVIOUS
  <2>3. InOrder(a, H \ (frame .. frame + 0 - 1))
    BY <2>2
  <2>4. MappedIn(a, a, p, frame, 0, page, H)
    BY <2>2, <2>3 DEF MappedIn, OthersKept, RegionsKept, Accounted
  <2> QED
    BY <1>1, <2>1, <2>4 DEF Turns
<1>3. ASSUME NEW k \in 1 .. cnt, Good(k - 1) PROVE Good(k)
  <2> DEFINE b == after[k - 1]
             c == after[k]
             f == frame + k - 1
             v == page + k - 1
             X == frame .. frame + (k - 1) - 1
  <2>1. c = MapInPage(b, p, f, v)
    BY <1>1 DEF Turns
  <2>2. Fields(b)
    BY <1>3
  <2>3. /\ frame .. frame + k - 1 = X \union {f} /\ f \notin X
        /\ f \in frame .. frame + cnt - 1 /\ f \in Nat
        /\ v \in Nat /\ v < KernelStart
        /\ page .. page + k - 1 = (page .. page + (k - 1) - 1) \union {v}
        /\ v \notin page .. page + (k - 1) - 1
        /\ f = frame + (v - page)
    BY SectionAssumption DEF KernelStart
  <2>4. v \in User
    BY <2>3, SectionAssumption DEF User, KernelStart
  <2>5. Keeps(b, c)
    <3> HIDE DEF b, c, f, v
    <3> QED
      BY <2>1, <2>2, MapInPageKeeps
  <2> SUFFICES ASSUME ~ c.dead PROVE MappedIn(a, c, p, frame, k, page, H)
    BY <2>5 DEF Keeps
  <2>6. MappedIn(a, b, p, frame, k - 1, page, H)
    BY <1>3, <2>5 DEF Keeps
  <2>7. /\ InOrder(b, H \ X) /\ OthersKept(a, b, p) /\ RegionsKept(a, b, p)
        /\ Accounted(a, b, p, X)
        /\ \A u \in User :
             Translate(b, p, u) = IF u \in page .. page + (k - 1) - 1
                                  THEN frame + (u - page) ELSE Translate(a, p, u)
    BY <2>6 DEF MappedIn
  <2>8. p \in 1 .. Len(b.spaces) /\ Len(b.spaces) = Len(a.spaces)
    BY <2>7 DEF OthersKept
  <2>9. f \in H \ X /\ (H \ X) \ {f} = H \ (frame .. frame + k - 1)
    BY <2>3
  <2>10. \A u \in User : u \in page .. page + k - 1
                         <=> u \in page .. page + (k - 1) - 1 \/ u = v
    BY <2>3
  <2> DEFINE Y == frame .. frame + k - 1
             P1 == page .. page + (k - 1) - 1
             P2 == page .. page + k - 1
  <2>11. Y = X \union {f}
    BY <2>3
  <2>12. v \notin P1 /\ f = frame + (v - page)
    BY <2>3
  <2>13. \A u \in User : u \in P2 <=> u \in P1 \/ u = v
    BY <2>10
  <2>14. \A u \in User : Translate(b, p, u) = IF u \in P1 THEN frame + (u - page)
                                              ELSE Translate(a, p, u)
    BY <2>7
  <2>15. (H \ X) \ {f} = H \ Y
    BY <2>9
  <2> HIDE DEF b, c, f, v, X, Y, P1, P2
  <2>16. /\ InOrder(c, (H \ X) \ {f}) /\ OthersKept(b, c, p) /\ RegionsKept(b, c, p)
         /\ Accounted(b, c, p, {f}) /\ Translate(c, p, v) = f
         /\ \A u \in User : u # v => Translate(c, p, u) = Translate(b, p, u)
    <3> DEFINE G == H \ X
    <3>1. InOrder(b, G) /\ f \in G /\ ~ MapInPage(b, p, f, v).dead
      BY <2>1, <2>7, <2>9
    <3> HIDE DEF G
    <3>2. TurnEffect(b, MapInPage(b, p, f, v), p, f, v, G)
      BY <2>4, <2>8, <3>1, MapTurn
    <3> QED
      BY <2>1, <3>2 DEF G, TurnEffect
  <2>17. InOrder(c, H \ Y)
    BY <2>15, <2>16
  <2>18. OthersKept(a, c, p)
    BY <2>7, <2>8, <2>16 DEF OthersKept
  <2>19. RegionsKept(a, c, p)
    BY <2>7, <2>16 DEF RegionsKept
  <2>20. Accounted(a, c, p, Y)
    <3>1. Listed(a, p) \subseteq Listed(c, p) /\ Listed(b, p) \subseteq Listed(c, p)
      BY <2>7, <2>16 DEF Accounted
    <3>2. ASSUME NEW x \in Places
          PROVE  FrameAt(c, p, x) \in {FrameAt(a, p, x), None} \union Listed(c, p) \union Y
      <4>1. FrameAt(c, p, x) \in {FrameAt(b, p, x), None} \union Listed(c, p) \union {f}
        BY <2>16 DEF Accounted
      <4>2. FrameAt(b, p, x) \in {FrameAt(a, p, x), None} \union Listed(b, p) \union X
        BY <2>7 DEF Accounted
      <4> QED
        BY <2>11, <3>1, <4>1, <4>2
    <3> QED
      BY <3>1, <3>2 DEF Accounted
  <2>21. ASSUME NEW u \in User
         PROVE  Translate(c, p, u) = IF u \in P2 THEN frame + (u - page)
                                     ELSE Translate(a, p, u)
    <3>1. CASE u = v
      BY <2>4, <2>12, <2>13, <2>16, <3>1
    <3>2. CASE u # v
      BY <2>13, <2>14, <2>16, <3>2
    <3> QED
      BY <3>1, <3>2
  <2> QED
    BY <2>17, <2>18, <2>19, <2>20, <2>21 DEF MappedIn, Y, P2
<1> HIDE DEF Good
<1>4. \A k \in 0 .. cnt : Good(k)
  <2> DEFINE Bad == {k \in 0 .. cnt : ~ Good(k)}
  <2> SUFFICES ASSUME Bad # {} PROVE FALSE
    OBVIOUS
  <2>1. Bad \in SUBSET Nat
    OBVIOUS
  <2>2. PICK k \in Bad : \A j \in Bad : k <= j
    BY <2>1, LeastElement
  <2>3. k # 0
    BY <1>2, <2>2
  <2>4. k - 1 \in 0 .. cnt /\ k - 1 \notin Bad /\ k \in 1 .. cnt
    BY <2>2, <2>3
  <2>5. Good(k - 1)
    BY <2>4
  <2> QED
    BY <1>3, <2>2, <2>4, <2>5
<1>5. Good(cnt)
  BY <1>4
<1> QED
  BY <1>1, <1>5 DEF Good, Turns

-----------------------------------------------------------------------------
(* The calls of a process. *)

(* pages_to_order gives a block that is large enough. *)
LEMMA OrderFacts ==
  ASSUME NEW k \in Nat, k <= Size[Widest]
  PROVE  PagesToOrder(k) \in 0 .. Widest /\ Size[PagesToOrder(k)] >= k
<1> DEFINE S == {o \in 0 .. Widest : Size[o] >= k}
<1>1. S \in SUBSET Nat /\ Widest \in S
  BY SizeAssumption
<1>2. PICK o \in S : \A r \in S : o <= r
  BY <1>1, LeastElement
<1>3. ASSUME NEW q \in 0 .. o - 1 PROVE Size[q] < k
  <2>1. q \in 0 .. Widest /\ q \notin S
    BY <1>2, SizeAssumption
  <2> QED
    BY <2>1, SizeAssumption
<1>4. \E r \in 0 .. Widest : Size[r] >= k /\ \A q \in 0 .. r - 1 : Size[q] < k
  BY <1>2, <1>3
<1> QED
  BY <1>4 DEF PagesToOrder

(* The orders of one and of two pages. *)
LEMMA SmallOrders ==
  /\ Size[0] = 1 /\ Size[1] = 2 /\ 1 \in 0 .. Widest
  /\ PagesToOrder(1) = 0 /\ PagesToOrder(2) = 1 /\ StackPages(500) = 1
<1>1. Widest \in Nat \ {0} /\ Size[0] = 1 /\ Size[1] = 2
  <2>1. 0 \in 0 .. Widest - 1
    BY SizeAssumption
  <2>2. Size[0 + 1] = 2 * Size[0]
    BY <2>1, SizeAssumption
  <2> QED
    BY <2>2, SizeAssumption
<1>2. ASSUME NEW o \in 0 .. Widest
      PROVE  (Size[o] >= 1 /\ \A q \in 0 .. o - 1 : Size[q] < 1) <=> o = 0
  BY <1>1
<1>3. ASSUME NEW o \in 0 .. Widest
      PROVE  (Size[o] >= 2 /\ \A q \in 0 .. o - 1 : Size[q] < 2) <=> o = 1
  <2>1. CASE o = 0 \/ o = 1
    BY <1>1, <2>1
  <2>2. CASE o > 1
    <3>1. 1 \in 0 .. o - 1
      BY <2>2
    <3> QED
      BY <1>1, <2>2, <3>1
  <2> QED
    BY <2>1, <2>2
<1>4. PagesToOrder(1) = 0
  BY <1>1, <1>2 DEF PagesToOrder
<1>5. PagesToOrder(2) = 1
  BY <1>1, <1>3 DEF PagesToOrder
<1>6. StackPages(500) = 1
  BY DEF StackPages
<1> QED
  BY <1>1, <1>4, <1>5, <1>6

(* A process whose tables stay as they are. *)
FieldsEffect(a, b, p, w, H) ==
  /\ InOrder(b, H)
  /\ b.dead = a.dead
  /\ Len(b.spaces) = Len(a.spaces) /\ b.spaces[p] = w
  /\ \A q \in 1 .. Len(a.spaces) : q # p => b.spaces[q] = a.spaces[q]
  /\ \A q \in 1 .. Len(a.spaces), x \in Places : FrameAt(b, q, x) = FrameAt(a, q, x)

LEMMA FieldsStep ==
  ASSUME NEW a, NEW H, InOrder(a, H), NEW p \in 1 .. Len(a.spaces),
         NEW w \in Space,
         w.l1 = a.spaces[p].l1, w.lv1 = a.spaces[p].lv1, w.pt2 = a.spaces[p].pt2
  PROVE  FieldsEffect(a, [a EXCEPT !.spaces[p] = w], p, w, H)
<1> DEFINE b == [a EXCEPT !.spaces[p] = w]
<1>1. TypeMemory(a)
  BY DEF InOrder
<1>2. /\ Fields(b) /\ b.free = a.free /\ b.dead = a.dead /\ b.bits = a.bits
      /\ b.tables = a.tables /\ b.spaces = [a.spaces EXCEPT ![p] = w]
  BY <1>1 DEF TypeMemory, Fields
<1> HIDE DEF b
<1>3. /\ Len(b.spaces) = Len(a.spaces) /\ b.spaces \in Seq(Space) /\ b.spaces[p] = w
      /\ \A q \in 1 .. Len(a.spaces) : q # p => b.spaces[q] = a.spaces[q]
  BY <1>1, <1>2 DEF TypeMemory
<1>4. \A q \in 1 .. Len(a.spaces), x \in Places : FrameAt(b, q, x) = FrameAt(a, q, x)
  <2> TAKE q \in 1 .. Len(a.spaces), x \in Places
  <2>1. b.spaces[q].l1 = a.spaces[q].l1 /\ b.spaces[q].lv1 = a.spaces[q].lv1
    BY <1>3
  <2> QED
    BY <1>2, <2>1 DEF FrameAt
<1>5. TypeMemory(b)
  BY <1>1, <1>2, <1>3 DEF TypeMemory
<1>6. TablesLinked(b, H)
  <2>1. ASSUME NEW q \in 1 .. Len(b.spaces)
        PROVE  b.spaces[q].l1 = a.spaces[q].l1 /\ b.spaces[q].pt2 = a.spaces[q].pt2
    BY <1>3
  <2>2. \A q \in 1 .. Len(b.spaces) :
          /\ \A s \in 0 .. Sections - 1 :
               b.spaces[q].l1[s] # None => b.spaces[q].l1[s] \in DOMAIN b.tables
          /\ b.spaces[q].pt2 # None => b.spaces[q].pt2 \in DOMAIN b.bits
    BY <1>2, <1>3, <2>1 DEF InOrder, TablesLinked
  <2>3. \A t \in DOMAIN b.tables : t[1] \notin b.free \union H
    BY <1>2 DEF InOrder, TablesLinked
  <2> QED
    BY <2>2, <2>3 DEF TablesLinked
<1>7. FramesTaken(b, H)
  BY <1>2, <1>3, <1>4 DEF InOrder, FramesTaken
<1>8. Apart(b)
  BY <1>3, <1>4 DEF InOrder, Apart
<1>9. InOrder(b, H)
  BY <1>2, <1>5, <1>6, <1>7, <1>8 DEF InOrder
<1> QED
  BY <1>2, <1>3, <1>4, <1>9 DEF FieldsEffect, b

(* mm_map_in_pages keeps the fields. *)
LEMMA MapKeeps ==
  ASSUME NEW a, Fields(a), NEW p, NEW frame \in Nat, NEW cnt \in Nat, NEW page \in Nat
  PROVE  Keeps(a, MapInPages(a, p, frame, cnt, page))
<1>1. PICK after : Turns(after, a, p, frame, cnt, page)
  BY MapTurns
<1> DEFINE Bad == {k \in 0 .. cnt : ~ Keeps(a, after[k])}
<1>2. Bad = {}
  <2> SUFFICES ASSUME Bad # {} PROVE FALSE
    OBVIOUS
  <2>1. Bad \in SUBSET Nat
    OBVIOUS
  <2>2. PICK k \in Bad : \A j \in Bad : k <= j
    BY <2>1, LeastElement
  <2>3. k # 0
    BY <1>1, <2>2 DEF Turns, Keeps
  <2>4. k - 1 \in 0 .. cnt /\ k - 1 \notin Bad /\ k \in 1 .. cnt
    BY <2>2, <2>3
  <2>5. Keeps(a, after[k - 1])
    BY <2>4
  <2>6. after[k] = MapInPage(after[k - 1], p, frame + k - 1, page + k - 1)
    BY <1>1, <2>4 DEF Turns
  <2>7. Keeps(after[k - 1], after[k])
    BY <2>5, <2>6, MapInPageKeeps DEF Keeps
  <2>8. Keeps(a, after[k])
    BY <2>5, <2>7 DEF Keeps
  <2> QED
    BY <2>2, <2>8
<1> QED
  BY <1>1, <1>2 DEF Turns

(* A block is allocated for a process, goes on its list, and is mapped. *)
Granted(a, p, order, low) ==
  [AddPage(AllocPages(a, order), p, FirstFit(a, order), order)
     EXCEPT !.spaces[p].stackE = low]

GrantEffect(a, b, p, cnt, page, low, H) ==
  /\ InOrder(b, H) /\ OthersKept(a, b, p)
  /\ b.spaces[p].lv1 = a.spaces[p].lv1 /\ b.spaces[p].image = a.spaces[p].image
  /\ b.spaces[p].heapE = a.spaces[p].heapE /\ b.spaces[p].stackE = low
  /\ Accounted(a, b, p, {})
  /\ \A v \in User : v \notin page .. page + cnt - 1 =>
       Translate(b, p, v) = Translate(a, p, v)

LEMMA GrantStep ==
  ASSUME NEW a, NEW H, InOrder(a, H), NEW p \in 1 .. Len(a.spaces),
         NEW order \in 0 .. Widest, NEW low \in Int, NEW page \in Nat,
         page + Size[order] <= KernelStart,
         ~ MapInPages(Granted(a, p, order, low), p, FirstFit(a, order),
                      Size[order], page).dead
  PROVE  GrantEffect(a, MapInPages(Granted(a, p, order, low), p, FirstFit(a, order),
                                   Size[order], page), p, Size[order], page, low, H)
<1> DEFINE c == AllocPages(a, order)
           f == FirstFit(a, order)
           block == BlockOf(f, order)
           z == a.spaces[p]
           w == [z EXCEPT !.pages = z.pages \union {<<f, order>>}, !.stackE = low]
           d == [c EXCEPT !.spaces[p] = w]
           b == MapInPages(Granted(a, p, order, low), p, f, Size[order], page)
<1>1. Size[order] \in Nat
  BY SizeAssumption
<1>2. Fields(a) /\ z \in Space /\ a.free \subseteq Frames
  BY DEF InOrder, TypeMemory
<1>3. Granted(a, p, order, low) = d
  <2>1. Fields(c)
    BY <1>2, AllocKeeps DEF Keeps
  <2>2. c.spaces = a.spaces
    BY <1>2 DEF AllocPages, Fields
  <2> DEFINE t == <<f, order>>
             e == AddPage(c, p, f, order)
  <2>3. Granted(a, p, order, low) = [e EXCEPT !.spaces[p].stackE = low]
    BY DEF Granted
  <2> HIDE DEF c
  <2>4. /\ Fields(e) /\ e.free = c.free /\ e.dead = c.dead /\ e.tables = c.tables
        /\ e.bits = c.bits
        /\ e.spaces = [a.spaces EXCEPT ![p] = [z EXCEPT !.pages = z.pages \union {t}]]
    BY <2>1, <2>2 DEF Fields, AddPage
  <2> HIDE DEF e, t, f
  <2>5. a.spaces \in Seq(Space) /\ p \in DOMAIN a.spaces
    BY DEF InOrder, TypeMemory
  <2>6. w = [z EXCEPT !.pages = z.pages \union {t}, !.stackE = low]
    BY DEF t
  <2>7. e.spaces[p] = [z EXCEPT !.pages = z.pages \union {t}]
    BY <2>4, <2>5
  <2>8. [e.spaces[p] EXCEPT !.stackE = low] = w
    BY <1>2, <2>6, <2>7 DEF Space
  <2> HIDE DEF w
  <2>9. [e.spaces EXCEPT ![p] = [e.spaces[p] EXCEPT !.stackE = low]]
          = [a.spaces EXCEPT ![p] = w]
    BY <2>4, <2>5, <2>8
  <2> QED
    <3> DEFINE v == [a.spaces EXCEPT ![p] = w]
               y == [e.spaces EXCEPT ![p] = [e.spaces[p] EXCEPT !.stackE = low]]
    <3>1. Granted(a, p, order, low) = [e EXCEPT !.spaces = y]
      BY <2>3, <2>4 DEF Fields
    <3>2. d = [c EXCEPT !.spaces = v]
      BY <2>1, <2>2 DEF Fields
    <3>3. y = v
      BY <2>9
    <3> HIDE DEF v, y, d
    <3> QED
      BY <2>1, <2>2, <2>4, <3>1, <3>2, <3>3 DEF Fields
<1>4. d.dead = c.dead /\ Fields(d) /\ Fields(c)
  <2>1. Fields(c)
    BY <1>2, AllocKeeps DEF Keeps
  <2> HIDE DEF c, w
  <2> QED
    BY <2>1 DEF Fields
<1>5. ~ c.dead
  <2>1. CASE Fits(a, order) = {}
    <3>1. f = 0
      BY <2>1 DEF FirstFit
    <3>2. Keeps(d, b)
      <4> HIDE DEF d, f
      <4> QED
        BY <1>1, <1>3, <1>4, <3>1, MapKeeps
    <3> HIDE DEF b, d
    <3> QED
      BY <1>4, <3>2 DEF Keeps, b
  <2>2. CASE Fits(a, order) # {}
    <3>1. f \in Nat
      BY <1>2, <2>2, FirstFitFacts, FramesAssumption
    <3>2. Keeps(d, b)
      <4> HIDE DEF d, f
      <4> QED
        BY <1>1, <1>3, <1>4, <3>1, MapKeeps
    <3> HIDE DEF b, d
    <3> QED
      BY <1>4, <3>2 DEF Keeps, b
  <2> QED
    BY <2>1, <2>2
<1>6. /\ InOrder(c, H \union block) /\ f \in a.free /\ block \subseteq a.free
      /\ block \intersect H = {} /\ c.spaces = a.spaces
      /\ \A q \in 1 .. Len(a.spaces), x \in Places : FrameAt(c, q, x) = FrameAt(a, q, x)
  <2>1. AllocEffect(a, c, f, block, H)
    BY <1>5, AllocStep
  <2> HIDE DEF c, f, block
  <2> QED
    BY <2>1 DEF AllocEffect
<1>7. f \in Nat
  BY <1>2, <1>6, FramesAssumption
<1> HIDE DEF c, f
<1>8. /\ w \in Space /\ w.l1 = z.l1 /\ w.lv1 = z.lv1 /\ w.pt2 = z.pt2
      /\ w.pages = z.pages \union {<<f, order>>} /\ w.stackE = low
      /\ w.heapE = z.heapE /\ w.image = z.image
  <2> DEFINE t == <<f, order>>
  <2>1. t \in Nat \X (0 .. Widest)
    BY <1>7
  <2> HIDE DEF t
  <2>2. w = [z EXCEPT !.pages = z.pages \union {t}, !.stackE = low]
    BY DEF t
  <2> HIDE DEF w
  <2>3. /\ w \in Space /\ w.l1 = z.l1 /\ w.lv1 = z.lv1 /\ w.pt2 = z.pt2
        /\ w.pages = z.pages \union {t} /\ w.stackE = low
        /\ w.heapE = z.heapE /\ w.image = z.image
    BY <1>2, <2>1, <2>2 DEF Space
  <2> QED
    BY <2>3 DEF t
<1> HIDE DEF w
<1> DEFINE G == H \union block
<1>9. FieldsEffect(c, d, p, w, G)
  <2> HIDE DEF block, G
  <2>1. InOrder(c, G)
    BY <1>6 DEF G
  <2> QED
    BY <1>6, <1>8, <2>1, FieldsStep
<1>10. b = MapInPages(d, p, f, Size[order], page)
  BY <1>3
<1> HIDE DEF d, b
<1>11. MappedIn(d, b, p, f, Size[order], page, G)
  <2>1. f .. f + Size[order] - 1 \subseteq G
    BY DEF BlockOf
  <2>2. InOrder(d, G) /\ p \in 1 .. Len(d.spaces)
    BY <1>6, <1>9 DEF FieldsEffect
  <2>3. ~ MapInPages(d, p, f, Size[order], page).dead
    BY <1>3 DEF f
  <2> HIDE DEF G
  <2>4. MappedIn(d, MapInPages(d, p, f, Size[order], page), p, f, Size[order], page, G)
    BY <1>1, <1>7, <2>1, <2>2, <2>3, MapStep
  <2> QED
    BY <1>10, <2>4
<1>12. G \ block = H /\ block = f .. f + Size[order] - 1
  BY <1>6 DEF BlockOf
<1>13. /\ InOrder(b, H) /\ OthersKept(d, b, p) /\ RegionsKept(d, b, p)
       /\ Accounted(d, b, p, block)
       /\ \A v \in User :
            Translate(b, p, v) = IF v \in page .. page + Size[order] - 1
                                 THEN f + (v - page) ELSE Translate(d, p, v)
  <2> HIDE DEF block, G
  <2> QED
    BY <1>11, <1>12 DEF MappedIn
<1>14. /\ Len(d.spaces) = Len(a.spaces) /\ d.spaces[p] = w
       /\ \A q \in 1 .. Len(a.spaces) : q # p => d.spaces[q] = a.spaces[q]
       /\ \A q \in 1 .. Len(a.spaces), x \in Places : FrameAt(d, q, x) = FrameAt(a, q, x)
  BY <1>6, <1>9 DEF FieldsEffect
<1> HIDE DEF G, block
<1>15. OthersKept(a, b, p)
  BY <1>13, <1>14 DEF OthersKept
<1>16. Listed(d, p) = Listed(a, p) \union block
  <2>1. d.spaces[p].pages = z.pages \union {<<f, order>>}
    BY <1>8, <1>14
  <2>2. InBlocks(z.pages \union {<<f, order>>}) = InBlocks(z.pages) \union BlockOf(f, order)
    BY ListedOne
  <2> DEFINE grown == z.pages \union {<<f, order>>}
  <2> HIDE DEF grown
  <2>3. d.spaces[p].pages = grown
        /\ InBlocks(grown) = InBlocks(z.pages) \union BlockOf(f, order)
    BY <2>1, <2>2 DEF grown
  <2> QED
    BY <2>3 DEF Listed, block
<1>17. Accounted(a, b, p, {})
  <2>1. Listed(d, p) \subseteq Listed(b, p)
    BY <1>13 DEF Accounted
  <2>2. ASSUME NEW x \in Places
        PROVE  FrameAt(b, p, x) \in {FrameAt(a, p, x), None} \union Listed(b, p) \union {}
    <3>1. FrameAt(b, p, x) \in {FrameAt(d, p, x), None} \union Listed(b, p) \union block
      BY <1>13 DEF Accounted
    <3> QED
      BY <1>14, <1>16, <2>1, <3>1
  <2> QED
    BY <1>16, <2>1, <2>2 DEF Accounted
<1>18. ASSUME NEW v \in User, v \notin page .. page + Size[order] - 1
       PROVE  Translate(b, p, v) = Translate(a, p, v)
  <2>1. Translate(b, p, v) = Translate(d, p, v)
    BY <1>13, <1>18
  <2>2. EntryOf(v) \in Places
    BY EntryFacts
  <2> QED
    BY <1>14, <2>1, <2>2, TranslateIsEntry
<1>19. /\ b.spaces[p].lv1 = a.spaces[p].lv1 /\ b.spaces[p].image = a.spaces[p].image
       /\ b.spaces[p].heapE = a.spaces[p].heapE /\ b.spaces[p].stackE = low
  BY <1>8, <1>13, <1>14 DEF RegionsKept
<1>20. GrantEffect(a, b, p, Size[order], page, low, H)
  BY <1>13, <1>15, <1>17, <1>18, <1>19 DEF GrantEffect
<1> QED
  BY <1>20 DEF b, f

(* create_user_thread_core, for one page of stack. *)
Basic(a) == Fields(a) /\ a.spaces \in Seq(Space) /\ a.free \subseteq Frames

LEMMA InOrderBasic == ASSUME NEW a, NEW H, InOrder(a, H) PROVE Basic(a)
BY DEF InOrder, TypeMemory, Basic

(* A block on the list of a process leaves its regions. *)
LEMMA ListFields ==
  ASSUME NEW a, Basic(a), NEW p \in 1 .. Len(a.spaces), NEW f, NEW order
  PROVE  LET n == AddPage(AllocPages(a, order), p, f, order)
         IN  /\ n.spaces[p].stackE = a.spaces[p].stackE
             /\ n.spaces[p].heapE = a.spaces[p].heapE
             /\ n = [n EXCEPT !.spaces[p].stackE = a.spaces[p].stackE]
<1> DEFINE c == AllocPages(a, order)
           e == AddPage(c, p, f, order)
           z == a.spaces[p]
           Y == z.pages \union {<<f, order>>}
           y == [z EXCEPT !.pages = Y]
<1>1. /\ Fields(a) /\ a.spaces \in Seq(Space) /\ p \in DOMAIN a.spaces /\ z \in Space
  BY DEF Basic
<1>2. Fields(c) /\ c.spaces = a.spaces
  BY <1>1, AllocKeeps DEF Keeps, AllocPages, Fields
<1> HIDE DEF c
<1>3. Fields(e) /\ e.spaces = [a.spaces EXCEPT ![p] = y]
  BY <1>2 DEF Fields, AddPage
<1> HIDE DEF e, Y
<1>4. e.spaces[p] = y /\ y.stackE = z.stackE /\ y.heapE = z.heapE
  BY <1>1, <1>3 DEF Space
<1>5. [y EXCEPT !.stackE = z.stackE] = y
  BY <1>1 DEF Space
<1> HIDE DEF y
<1>6. [e.spaces EXCEPT ![p] = [e.spaces[p] EXCEPT !.stackE = z.stackE]] = e.spaces
  BY <1>1, <1>3, <1>4, <1>5
<1>7. [e EXCEPT !.spaces[p].stackE = z.stackE] = e
  BY <1>3, <1>6 DEF Fields
<1> QED
  BY <1>4, <1>7 DEF e, c

ThreadEffect(a, b, p, H) ==
  LET low == a.spaces[p].stackE - 1
  IN  GrantEffect(a, b, p, 1, low, low, H)

LEMMA ThreadStep ==
  ASSUME NEW a, NEW H, InOrder(a, H), NEW p \in 1 .. Len(a.spaces),
         a.spaces[p].stackE - 1 \in User, ~ CreateUserThread(a, p, 500).dead
  PROVE  ThreadEffect(a, CreateUserThread(a, p, 500), p, H)
<1> DEFINE f == FirstFit(a, 0)
           low == a.spaces[p].stackE - 1
           n == AddPage(AllocPages(a, 0), p, f, 0)
           b == CreateUserThread(a, p, 500)
<1>1. n.spaces[p].stackE = a.spaces[p].stackE
  BY ListFields, InOrderBasic
<1>2. b = MapInPages([n EXCEPT !.spaces[p].stackE = n.spaces[p].stackE - Size[0]],
                     p, f, Size[0], n.spaces[p].stackE - Size[0])
  BY SmallOrders DEF CreateUserThread
<1>3. b = MapInPages(Granted(a, p, 0, low), p, f, Size[0], low)
  <2> HIDE DEF b, f
  <2>1. Granted(a, p, 0, low) = [n EXCEPT !.spaces[p].stackE = low]
    BY DEF Granted, f
  <2> HIDE DEF n
  <2> QED
    BY <1>1, <1>2, <2>1, SmallOrders
<1>4. low \in Nat /\ low \in Int /\ low + Size[0] <= KernelStart /\ 0 \in 0 .. Widest
  BY SmallOrders, SectionAssumption, SizeAssumption DEF User, KernelStart
<1> HIDE DEF low, n
<1>5. ~ MapInPages(Granted(a, p, 0, low), p, FirstFit(a, 0), Size[0], low).dead
  BY <1>3
<1>6. GrantEffect(a, MapInPages(Granted(a, p, 0, low), p, FirstFit(a, 0), Size[0], low),
                  p, Size[0], low, low, H)
  BY <1>4, <1>5, GrantStep
<1>7. GrantEffect(a, b, p, 1, low, low, H)
  BY <1>3, <1>6, SmallOrders
<1> QED
  BY <1>7 DEF ThreadEffect, low

(* set_break. *)
BreakEffect(a, b, p, cnt, H) ==
  /\ InOrder(b, H) /\ OthersKept(a, b, p)
  /\ b.spaces[p].lv1 = a.spaces[p].lv1 /\ b.spaces[p].image = a.spaces[p].image
  /\ b.spaces[p].stackE = a.spaces[p].stackE
  /\ b.spaces[p].heapE = a.spaces[p].heapE + 4 * cnt
  /\ Accounted(a, b, p, {})
  /\ \A v \in User : v \notin a.spaces[p].heapE .. a.spaces[p].heapE + cnt - 1 =>
       Translate(b, p, v) = Translate(a, p, v)

LEMMA BreakStep ==
  ASSUME NEW a, NEW H, InOrder(a, H), NEW p \in 1 .. Len(a.spaces),
         NEW pages \in Nat, PagesToOrder(pages) \in 0 .. Widest,
         a.spaces[p].heapE + Size[PagesToOrder(pages)] <= KernelStart,
         ~ SetBreak(a, p, pages).dead
  PROVE  BreakEffect(a, SetBreak(a, p, pages), p, Size[PagesToOrder(pages)], H)
<1> DEFINE order == PagesToOrder(pages)
           f == FirstFit(a, order)
           heap == a.spaces[p].heapE
           low == a.spaces[p].stackE
           n == AddPage(AllocPages(a, order), p, f, order)
           b == MapInPages(n, p, f, Size[order], heap)
           w == [b.spaces[p] EXCEPT !.heapE = b.spaces[p].heapE + HeapStep(order)]
           c == [b EXCEPT !.spaces[p] = w]
<1>1. order \in 0 .. Widest
  OBVIOUS
<1>2. a.spaces[p] \in Space
  BY DEF InOrder, TypeMemory
<1>3. heap \in Nat /\ low \in Int /\ Size[order] \in Nat
  BY <1>1, <1>2, SizeAssumption DEF Space
<1> HIDE DEF order
<1>4. n.spaces[p].heapE = heap /\ n = [n EXCEPT !.spaces[p].stackE = low]
  BY ListFields, InOrderBasic
<1>5. n = Granted(a, p, order, low)
  BY <1>4 DEF Granted
<1>6. SetBreak(a, p, pages) = [b EXCEPT !.spaces[p].heapE = @ + HeapStep(order)]
  <2>1. SetBreak(a, p, pages)
          = [MapInPages(n, p, f, Size[order], n.spaces[p].heapE)
               EXCEPT !.spaces[p].heapE = @ + HeapStep(order)]
    BY DEF SetBreak, order
  <2> HIDE DEF n
  <2> QED
    BY <1>4, <2>1
<1>7. b = MapInPages(Granted(a, p, order, low), p, FirstFit(a, order), Size[order], heap)
  BY <1>5
<1> HIDE DEF b
<1>8. c = SetBreak(a, p, pages)
  BY <1>6
<1>9. Fields(b)
  <2>1. Fields(n)
    BY <1>2, AllocKeeps, AddPageKeeps DEF Keeps, InOrder, TypeMemory
  <2>2. f \in Nat
    <3>1. CASE Fits(a, order) = {}
      BY <3>1 DEF FirstFit
    <3>2. CASE Fits(a, order) # {}
      BY <3>2, FirstFitFacts, FramesAssumption DEF InOrder, TypeMemory
    <3> QED
      BY <3>1, <3>2
  <2> HIDE DEF n, f
  <2> QED
    BY <1>3, <2>1, <2>2, MapKeeps DEF Keeps, b
<1>10. ~ b.dead
  <2>1. ~ c.dead
    BY <1>8
  <2> HIDE DEF w
  <2> QED
    BY <1>9, <2>1 DEF Fields
<1>11. GrantEffect(a, b, p, Size[order], heap, low, H)
  <2>1. heap + Size[order] <= KernelStart
    BY DEF order
  <2>2. ~ MapInPages(Granted(a, p, order, low), p, FirstFit(a, order), Size[order], heap).dead
    BY <1>7, <1>10
  <2> HIDE DEF heap, low
  <2>3. GrantEffect(a, MapInPages(Granted(a, p, order, low), p, FirstFit(a, order),
                                  Size[order], heap), p, Size[order], heap, low, H)
    BY <1>1, <1>3, <2>1, <2>2, GrantStep
  <2> QED
    BY <1>7, <2>3
<1>12. /\ InOrder(b, H) /\ OthersKept(a, b, p) /\ Accounted(a, b, p, {})
       /\ b.spaces[p].lv1 = a.spaces[p].lv1 /\ b.spaces[p].image = a.spaces[p].image
       /\ b.spaces[p].heapE = heap /\ b.spaces[p].stackE = low
       /\ \A v \in User : v \notin heap .. heap + Size[order] - 1 =>
            Translate(b, p, v) = Translate(a, p, v)
  <2>1. heap = a.spaces[p].heapE
    OBVIOUS
  <2> HIDE DEF heap, low
  <2> QED
    BY <1>11, <2>1 DEF GrantEffect
<1>13. p \in 1 .. Len(b.spaces) /\ Len(b.spaces) = Len(a.spaces)
  BY <1>12 DEF OthersKept
<1>14. b.spaces[p] \in Space
  BY <1>12, <1>13 DEF InOrder, TypeMemory
<1>15. /\ w \in Space /\ w.l1 = b.spaces[p].l1 /\ w.lv1 = b.spaces[p].lv1
       /\ w.pt2 = b.spaces[p].pt2 /\ w.image = b.spaces[p].image
       /\ w.stackE = b.spaces[p].stackE /\ w.pages = b.spaces[p].pages
       /\ w.heapE = heap + 4 * Size[order]
  <2>1. HeapStep(order) \in Nat /\ HeapStep(order) = 4 * Size[order]
    BY <1>3 DEF HeapStep
  <2>2. b.spaces[p].heapE + HeapStep(order) \in Nat
    <3>1. b.spaces[p].heapE \in Nat
      BY <1>14 DEF Space
    <3> QED
      BY <2>1, <3>1
  <2> QED
    BY <1>12, <1>14, <2>1, <2>2 DEF Space
<1> HIDE DEF w
<1>16. FieldsEffect(b, c, p, w, H)
  BY <1>12, <1>13, <1>15, FieldsStep
<1> HIDE DEF c, heap, low
<1>17. /\ InOrder(c, H) /\ Len(c.spaces) = Len(b.spaces) /\ c.spaces[p] = w
       /\ \A q \in 1 .. Len(b.spaces) : q # p => c.spaces[q] = b.spaces[q]
       /\ \A q \in 1 .. Len(b.spaces), x \in Places : FrameAt(c, q, x) = FrameAt(b, q, x)
  BY <1>16 DEF FieldsEffect
<1>18. OthersKept(a, c, p)
  BY <1>12, <1>13, <1>17 DEF OthersKept
<1>19. Accounted(a, c, p, {})
  <2>1. Listed(c, p) = Listed(b, p)
    BY <1>15, <1>17 DEF Listed
  <2> QED
    BY <1>12, <1>13, <1>17, <2>1 DEF Accounted
<1>20. ASSUME NEW v \in User, v \notin heap .. heap + Size[order] - 1
       PROVE  Translate(c, p, v) = Translate(a, p, v)
  <2>1. EntryOf(v) \in Places
    BY EntryFacts
  <2>2. Translate(c, p, v) = Translate(b, p, v)
    BY <1>13, <1>17, <2>1, TranslateIsEntry
  <2> QED
    BY <1>12, <1>20, <2>2
<1>21. BreakEffect(a, c, p, Size[order], H)
  BY <1>12, <1>15, <1>17, <1>18, <1>19, <1>20 DEF BreakEffect, heap, low
<1> QED
  BY <1>8, <1>21 DEF order

-----------------------------------------------------------------------------
(* A new process. *)

(* The processes there are stay as they are, and one is added. *)
OldsKept(a, b) ==
  /\ Len(b.spaces) = Len(a.spaces) + 1
  /\ \A q \in 1 .. Len(a.spaces) :
       /\ b.spaces[q] = a.spaces[q]
       /\ \A x \in Places : FrameAt(b, q, x) = FrameAt(a, q, x)

(* Its regions, and its frames: listed ones, and those of X. *)
Born(b, N, low, X) ==
  /\ b.spaces[N].stackE = low /\ b.spaces[N].heapE = 0
  /\ \A x \in Places : FrameAt(b, N, x) \in {None} \union Listed(b, N) \union X

ProcessEffect(a, b, H) ==
  LET N == Len(a.spaces) + 1
  IN  /\ InOrder(b, H) /\ OldsKept(a, b) /\ Born(b, N, KernelStart, {})
      /\ \A v \in User : Translate(b, N, v) = None

(* A frame is a number, also when there is none. *)
LEMMA FirstFitNat ==
  ASSUME NEW a, a.free \subseteq Frames, NEW order PROVE FirstFit(a, order) \in Nat
<1>1. CASE Fits(a, order) = {}
  BY <1>1 DEF FirstFit
<1>2. CASE Fits(a, order) # {}
  BY <1>2, FirstFitFacts, FramesAssumption
<1> QED
  BY <1>1, <1>2

(* The address space of a new process is empty. *)
LEMMA NewSpaceFacts ==
  ASSUME NEW f \in Nat
  PROVE  LET z == NewSpace(f)
         IN  /\ z \in Space /\ z.lv1 = f /\ z.pt2 = None /\ z.pages = {<<f, 1>>}
             /\ z.stackE = KernelStart /\ z.heapE = 0
             /\ \A s \in 0 .. Sections - 1 : z.l1[s] = None
<1> DEFINE t == <<f, 1>>
           e == [s \in 0 .. Sections - 1 |-> None]
<1>1. t \in Nat \X (0 .. Widest)
  BY SmallOrders
<1>2. KernelStart \in Int
  BY SectionAssumption DEF KernelStart
<1>3. e \in [0 .. Sections - 1 -> TableIds \union {None}]
  OBVIOUS
<1>4. NewSpace(f) = [l1 |-> e, lv1 |-> f, pt2 |-> None, pages |-> {t},
                     stackE |-> KernelStart, heapE |-> 0, image |-> {}]
  BY DEF NewSpace
<1> DEFINE z == NewSpace(f)
<1> HIDE DEF t, e, z
<1>5. /\ z \in Space /\ z.lv1 = f /\ z.pt2 = None /\ z.pages = {t}
      /\ z.stackE = KernelStart /\ z.heapE = 0 /\ z.l1 = e
  BY <1>1, <1>2, <1>3, <1>4 DEF Space, z
<1> QED
  BY <1>5 DEF t, e, z

(* mm_process_init. *)
LEMMA ProcessStep ==
  ASSUME NEW a, NEW H, InOrder(a, H), ~ ProcessMmInit(a).dead
  PROVE  ProcessEffect(a, ProcessMmInit(a), H)
<1> DEFINE c == AllocPages(a, 1)
           f == FirstFit(a, 1)
           z == NewSpace(f)
           b == ProcessMmInit(a)
           N == Len(a.spaces) + 1
           block == BlockOf(f, 1)
<1>1. Fields(a) /\ a.spaces \in Seq(Space) /\ a.free \subseteq Frames
  BY DEF InOrder, TypeMemory
<1>2. Fields(c) /\ c.spaces = a.spaces
  BY <1>1, AllocKeeps DEF Keeps, AllocPages, Fields
<1>3. b = [c EXCEPT !.spaces = Append(c.spaces, z)]
  BY DEF ProcessMmInit
<1> HIDE DEF b
<1>4. ~ c.dead
  <2> HIDE DEF c, z
  <2> QED
    BY <1>2, <1>3 DEF Fields, b
<1>5. /\ InOrder(c, H \union block) /\ f \in a.free /\ block \subseteq a.free
      /\ block \intersect H = {} /\ c.free = a.free \ block
      /\ c.tables = a.tables /\ c.bits = a.bits
      /\ \A q \in 1 .. Len(a.spaces), x \in Places : FrameAt(c, q, x) = FrameAt(a, q, x)
  <2>1. AllocEffect(a, c, f, block, H)
    BY <1>4, AllocStep
  <2> HIDE DEF c, f, block
  <2> QED
    BY <2>1 DEF AllocEffect
<1>6. f \in Nat /\ f \in Frames /\ block = {f, f + 1} /\ block \subseteq Frames
  <2>1. f \in Nat /\ f \in Frames
    BY <1>1, <1>5, FramesAssumption
  <2> HIDE DEF f
  <2>2. block = {f, f + 1}
    BY <2>1, SmallOrders DEF BlockOf
  <2> QED
    BY <1>1, <1>5, <2>1, <2>2
<1> HIDE DEF c, f
<1>7. /\ z \in Space /\ z.lv1 = f /\ z.pt2 = None /\ z.pages = {<<f, 1>>}
      /\ z.stackE = KernelStart /\ z.heapE = 0
      /\ \A s \in 0 .. Sections - 1 : z.l1[s] = None
  BY <1>6, NewSpaceFacts
<1> HIDE DEF z
<1>8. /\ Fields(b) /\ b.free = c.free /\ b.dead = c.dead /\ b.tables = c.tables
      /\ b.bits = c.bits /\ b.spaces = Append(a.spaces, z)
  BY <1>2, <1>3 DEF Fields
<1>9. /\ b.spaces \in Seq(Space) /\ Len(b.spaces) = N /\ b.spaces[N] = z
      /\ \A q \in 1 .. Len(a.spaces) : b.spaces[q] = a.spaces[q]
      /\ N \in Nat /\ N \notin 1 .. Len(a.spaces)
      /\ 1 .. N = 1 .. Len(a.spaces) \union {N}
  BY <1>1, <1>7, <1>8
<1>10. \A q \in 1 .. Len(a.spaces), x \in Places : FrameAt(b, q, x) = FrameAt(a, q, x)
  BY <1>5, <1>8, <1>9 DEF FrameAt
<1>11. ASSUME NEW x \in Places
       PROVE  /\ x[1] # Sections => FrameAt(b, N, x) = None
              /\ x[1] = Sections => FrameAt(b, N, x) = f + x[2] /\ x[2] \in {0, 1}
                                    /\ x = <<Sections, x[2]>>
  <2>1. CASE x[1] = Sections
    BY <1>7, <1>9, <2>1, PlaceFacts DEF FrameAt
  <2>2. CASE x[1] # Sections
    <3>1. x[1] \in 0 .. Sections - 1
      BY <2>2, PlaceFacts
    <3> QED
      BY <1>7, <1>9, <2>2, <3>1 DEF FrameAt
  <2> QED
    BY <2>1, <2>2
<1>12. \A x \in Places : FrameAt(b, N, x) # None => FrameAt(b, N, x) \in block
  BY <1>6, <1>11
<1>13. TypeMemory(b)
  BY <1>5, <1>8, <1>9 DEF InOrder, TypeMemory
<1> HIDE DEF block, N
<1>14. TablesLinked(b, H)
  <2>1. ASSUME NEW q \in 1 .. Len(b.spaces)
        PROVE  /\ \A s \in 0 .. Sections - 1 :
                    b.spaces[q].l1[s] # None => b.spaces[q].l1[s] \in DOMAIN b.tables
               /\ b.spaces[q].pt2 # None => b.spaces[q].pt2 \in DOMAIN b.bits
    <3>1. CASE q = N
      BY <1>7, <1>9, <3>1
    <3>2. CASE q # N
      <4>1. q \in 1 .. Len(a.spaces) /\ b.spaces[q] = a.spaces[q]
        BY <1>9, <3>2
      <4> QED
        BY <1>5, <1>8, <4>1 DEF InOrder, TablesLinked
    <3> QED
      BY <3>1, <3>2
  <2>2. \A t \in DOMAIN b.tables : t[1] \notin b.free \union H
    BY <1>5, <1>8 DEF InOrder, TablesLinked
  <2> QED
    BY <2>1, <2>2 DEF TablesLinked
<1>15. FramesTaken(b, H)
  <2>1. ASSUME NEW q \in 1 .. Len(b.spaces), NEW x \in Places, FrameAt(b, q, x) # None
        PROVE  FrameAt(b, q, x) \in Frames \ (b.free \union H)
    <3>1. CASE q = N
      BY <1>5, <1>6, <1>8, <1>12, <2>1, <3>1
    <3>2. CASE q # N
      <4>1. q \in 1 .. Len(a.spaces) /\ FrameAt(b, q, x) = FrameAt(a, q, x)
        BY <1>9, <1>10, <3>2
      <4> QED
        BY <1>5, <1>8, <2>1, <4>1 DEF InOrder, FramesTaken
    <3> QED
      BY <3>1, <3>2
  <2> QED
    BY <2>1 DEF FramesTaken
<1>16. Apart(b)
  <2>1. ASSUME NEW q \in 1 .. Len(b.spaces), NEW x \in Places, FrameAt(b, q, x) # None, q # N
        PROVE  FrameAt(b, q, x) \notin block /\ FrameAt(b, q, x) = FrameAt(a, q, x)
               /\ q \in 1 .. Len(a.spaces)
    BY <1>5, <1>9, <1>10, <2>1 DEF InOrder, FramesTaken
  <2>2. ASSUME NEW p \in 1 .. Len(b.spaces), NEW q \in 1 .. Len(b.spaces),
               NEW x \in Places, NEW y \in Places,
               FrameAt(b, p, x) # None, FrameAt(b, p, x) = FrameAt(b, q, y)
        PROVE  p = q /\ x = y
    <3>1. CASE p = N /\ q = N
      BY <1>6, <1>11, <2>2, <3>1
    <3>2. CASE p = N /\ q # N
      BY <1>12, <2>1, <2>2, <3>2
    <3>3. CASE p # N /\ q = N
      BY <1>12, <2>1, <2>2, <3>3
    <3>4. CASE p # N /\ q # N
      BY <2>1, <2>2, <3>4 DEF InOrder, Apart
    <3> QED
      BY <3>1, <3>2, <3>3, <3>4
  <2> QED
    BY <2>2 DEF Apart
<1>17. InOrder(b, H)
  <2>1. H \subseteq Frames \ b.free
    BY <1>5, <1>8 DEF InOrder
  <2> QED
    BY <1>13, <1>14, <1>15, <1>16, <2>1 DEF InOrder
<1>18. OldsKept(a, b)
  BY <1>9, <1>10 DEF OldsKept, N
<1>19. Born(b, N, KernelStart, {})
  <2>1. b.spaces[N].pages = {} \union {<<f, 1>>}
    BY <1>7, <1>9
  <2>2. Listed(b, N) = InBlocks({}) \union block
    BY <2>1, ListedOne DEF Listed, block
  <2>3. \A x \in Places : FrameAt(b, N, x) \in {None} \union Listed(b, N) \union {}
    BY <1>12, <2>2
  <2> QED
    BY <1>7, <1>9, <2>3 DEF Born
<1>20. ASSUME NEW v \in User PROVE Translate(b, N, v) = None
  <2>1. EntryOf(v) \in Places /\ EntryOf(v)[1] # Sections
    <3>1. EntryOf(v)[1] = v \div SectPages
      BY DEF EntryOf
    <3> QED
      BY <3>1, EntryFacts, SectionAssumption
  <2> QED
    BY <1>11, <2>1, TranslateIsEntry
<1> QED
  BY <1>17, <1>18, <1>19, <1>20 DEF ProcessEffect, N, b

(* Allocation leaves the processes alone. *)
LEMMA AllocBasic ==
  ASSUME NEW a, Basic(a), NEW order
  PROVE  LET b == AllocPages(a, order)
         IN  Basic(b) /\ (a.dead => b.dead) /\ b.spaces = a.spaces
<1>1. AllocPages(a, order).free \subseteq a.free /\ AllocPages(a, order).spaces = a.spaces
  BY DEF AllocPages, Basic, Fields
<1>2. Keeps(a, AllocPages(a, order))
  BY AllocKeeps DEF Basic
<1> QED
  BY <1>1, <1>2 DEF Basic, Keeps

(* mm_process_init keeps the fields. *)
LEMMA ProcessKeeps ==
  ASSUME NEW a, Basic(a)
  PROVE  LET b == ProcessMmInit(a)
         IN  /\ Basic(b) /\ (a.dead => b.dead)
             /\ Len(b.spaces) = Len(a.spaces) + 1
             /\ b.spaces[Len(a.spaces) + 1].stackE = KernelStart
<1> DEFINE c == AllocPages(a, 1)
           z == NewSpace(FirstFit(a, 1))
           b == ProcessMmInit(a)
<1>1. Basic(c) /\ (a.dead => c.dead) /\ c.spaces = a.spaces
  BY AllocBasic
<1>2. z \in Space /\ z.stackE = KernelStart
  BY FirstFitNat, NewSpaceFacts DEF Basic
<1>3. b = [c EXCEPT !.spaces = Append(c.spaces, z)]
  BY DEF ProcessMmInit
<1> HIDE DEF b, c, z
<1>4. Fields(b) /\ b.dead = c.dead /\ b.free = c.free /\ b.spaces = Append(a.spaces, z)
  BY <1>1, <1>3 DEF Basic, Fields
<1>5. a.spaces \in Seq(Space)
  BY DEF Basic
<1>6. /\ b.spaces \in Seq(Space) /\ Len(b.spaces) = Len(a.spaces) + 1
      /\ b.spaces[Len(a.spaces) + 1] = z
  BY <1>2, <1>4, <1>5
<1> QED
  BY <1>1, <1>2, <1>4, <1>6 DEF Basic, b

(* create_user_thread_core keeps the fields. *)
LEMMA ThreadKeeps ==
  ASSUME NEW a, Basic(a), NEW p \in 1 .. Len(a.spaces), a.spaces[p].stackE - 1 \in Nat
  PROVE  Keeps(a, CreateUserThread(a, p, 500))
<1> DEFINE f == FirstFit(a, 0)
           low == a.spaces[p].stackE - 1
           c == AllocPages(a, 0)
           n == AddPage(c, p, f, 0)
           d == [n EXCEPT !.spaces[p].stackE = low]
           b == CreateUserThread(a, p, 500)
<1>1. n.spaces[p].stackE = a.spaces[p].stackE
  BY ListFields
<1>2. b = MapInPages([n EXCEPT !.spaces[p].stackE = n.spaces[p].stackE - Size[0]],
                     p, f, Size[0], n.spaces[p].stackE - Size[0])
  BY SmallOrders DEF CreateUserThread
<1>3. Keeps(a, n) /\ f \in Nat /\ Size[0] \in Nat
  BY AllocKeeps, AddPageKeeps, FirstFitNat, SmallOrders DEF Basic, Keeps
<1> HIDE DEF n, f, b
<1>4. b = MapInPages(d, p, f, Size[0], low)
  BY <1>1, <1>2, SmallOrders
<1>5. Keeps(a, d)
  BY <1>3 DEF Keeps, Fields
<1> HIDE DEF d
<1>6. Keeps(d, MapInPages(d, p, f, Size[0], low))
  <2>1. low \in Nat
    OBVIOUS
  <2> HIDE DEF low
  <2> QED
    BY <1>3, <1>5, <2>1, MapKeeps DEF Keeps
<1> QED
  BY <1>4, <1>5, <1>6 DEF Keeps, b

(* create_process. *)
CreateEffect(a, b, H) ==
  LET N == Len(a.spaces) + 1
  IN  /\ InOrder(b, H) /\ OldsKept(a, b) /\ Born(b, N, KernelStart - 1, {})
      /\ \A v \in User : v # KernelStart - 1 => Translate(b, N, v) = None

(* There is a page under the kernel. *)
LEMMA LastPage == KernelStart \in Nat /\ KernelStart - 1 \in User
<1>1. KernelStart \in Nat /\ KernelStart >= 1
  BY SectionAssumption DEF KernelStart
<1> QED
  BY <1>1 DEF User

(* create_process keeps the fields. *)
LEMMA CreateKeeps ==
  ASSUME NEW a, Basic(a) PROVE Keeps(a, CreateProcess(a, 500))
<1> DEFINE c == ProcessMmInit(a)
           N == Len(a.spaces) + 1
<1>1. /\ Basic(c) /\ (a.dead => c.dead) /\ Len(c.spaces) = N
      /\ c.spaces[N].stackE = KernelStart
  BY ProcessKeeps
<1>2. CreateProcess(a, 500) = CreateUserThread(c, N, 500)
  BY DEF CreateProcess
<1>3. N \in 1 .. Len(c.spaces)
  <2>1. Len(a.spaces) \in Nat
    BY DEF Basic
  <2> QED
    BY <1>1, <2>1
<1>4. c.spaces[N].stackE - 1 \in Nat
  BY <1>1, LastPage DEF User
<1> HIDE DEF c, N
<1>5. Keeps(c, CreateUserThread(c, N, 500))
  BY <1>1, <1>3, <1>4, ThreadKeeps
<1> QED
  BY <1>1, <1>2, <1>5 DEF Keeps

LEMMA CreateStep ==
  ASSUME NEW a, NEW H, InOrder(a, H), ~ CreateProcess(a, 500).dead
  PROVE  CreateEffect(a, CreateProcess(a, 500), H)
<1> DEFINE c == ProcessMmInit(a)
           N == Len(a.spaces) + 1
           b == CreateProcess(a, 500)
<1>1. /\ Basic(c) /\ (a.dead => c.dead) /\ Len(c.spaces) = N
      /\ c.spaces[N].stackE = KernelStart
  BY ProcessKeeps, InOrderBasic
<1>2. b = CreateUserThread(c, N, 500)
  BY DEF CreateProcess
<1>3. N \in 1 .. Len(c.spaces) /\ N \notin 1 .. Len(a.spaces)
      /\ \A q \in 1 .. Len(a.spaces) : q \in 1 .. Len(c.spaces) /\ q # N
  <2>1. Len(a.spaces) \in Nat
    BY InOrderBasic DEF Basic
  <2> QED
    BY <1>1, <2>1
<1>4. c.spaces[N].stackE - 1 = KernelStart - 1
  BY <1>1
<1>5. ~ c.dead
  <2> HIDE DEF c, N
  <2>1. Keeps(c, CreateUserThread(c, N, 500))
    BY <1>1, <1>3, <1>4, ThreadKeeps, LastPage DEF User
  <2> QED
    BY <1>2, <2>1 DEF Keeps
<1>6. ProcessEffect(a, c, H)
  BY <1>5, ProcessStep
<1>7. /\ InOrder(c, H) /\ OldsKept(a, c) /\ Born(c, N, KernelStart, {})
      /\ \A v \in User : Translate(c, N, v) = None
  <2> HIDE DEF c
  <2> QED
    BY <1>6 DEF ProcessEffect
<1> HIDE DEF c, b, N
<1>8. ThreadEffect(c, CreateUserThread(c, N, 500), N, H)
  BY <1>2, <1>3, <1>4, <1>7, LastPage, ThreadStep DEF b
<1>9. ThreadEffect(c, b, N, H)
  BY <1>2, <1>8
<1>10. /\ InOrder(b, H) /\ OthersKept(c, b, N)
       /\ b.spaces[N].heapE = c.spaces[N].heapE /\ b.spaces[N].stackE = KernelStart - 1
       /\ Accounted(c, b, N, {})
       /\ \A v \in User : v \notin KernelStart - 1 .. KernelStart - 1 + 1 - 1 =>
            Translate(b, N, v) = Translate(c, N, v)
  BY <1>4, <1>9 DEF ThreadEffect, GrantEffect
<1>11. OldsKept(a, b)
  BY <1>1, <1>3, <1>7, <1>10 DEF OldsKept, OthersKept
<1>12. Born(b, N, KernelStart - 1, {})
  <2>1. ASSUME NEW x \in Places
        PROVE  FrameAt(b, N, x) \in {None} \union Listed(b, N) \union {}
    <3>1. FrameAt(b, N, x) \in {FrameAt(c, N, x), None} \union Listed(b, N) \union {}
      BY <1>10 DEF Accounted
    <3>2. FrameAt(c, N, x) \in {None} \union Listed(c, N) \union {}
      BY <1>7 DEF Born
    <3>3. Listed(c, N) \subseteq Listed(b, N)
      BY <1>10 DEF Accounted
    <3> QED
      BY <3>1, <3>2, <3>3
  <2>2. b.spaces[N].heapE = 0
    BY <1>7, <1>10 DEF Born
  <2> QED
    BY <1>10, <2>1, <2>2 DEF Born
<1>13. ASSUME NEW v \in User, v # KernelStart - 1 PROVE Translate(b, N, v) = None
  <2>1. v \notin KernelStart - 1 .. KernelStart - 1 + 1 - 1
    BY <1>13, LastPage DEF User
  <2> QED
    BY <1>7, <1>10, <2>1
<1> QED
  BY <1>10, <1>11, <1>12, <1>13 DEF CreateEffect, b, N

(* What elf_init does to a memory: a block for the segment, a process, and *)
(* the block mapped where the program was linked.                          *)
Load(a, order, page) ==
  LET bin == FirstFit(a, order)
      n   == CreateProcess(AllocPages(a, order), 500)
  IN [MapInPages(n, Len(n.spaces), bin, Size[order], page)
        EXCEPT !.spaces[Len(n.spaces)].image = BlockOf(bin, order)]

LoadEffect(a, b, bin, block, page, cnt, H) ==
  LET N == Len(a.spaces) + 1
  IN  /\ InOrder(b, H) /\ OldsKept(a, b) /\ Born(b, N, KernelStart - 1, block)
      /\ b.spaces[N].image = block
      /\ bin \in a.free /\ block \subseteq a.free /\ block \intersect H = {}
      /\ \A v \in User : v # KernelStart - 1 =>
           Translate(b, N, v) = IF v \in page .. page + cnt - 1
                                THEN bin + (v - page) ELSE None

LEMMA LoadStep ==
  ASSUME NEW a, NEW H, InOrder(a, H), NEW order \in 0 .. Widest,
         NEW page \in Nat, page + Size[order] <= KernelStart,
         ~ Load(a, order, page).dead
  PROVE  LoadEffect(a, Load(a, order, page), FirstFit(a, order),
                    BlockOf(FirstFit(a, order), order), page, Size[order], H)
<1> DEFINE c == AllocPages(a, order)
           bin == FirstFit(a, order)
           block == BlockOf(bin, order)
           n == CreateProcess(c, 500)
           N == Len(a.spaces) + 1
           d == MapInPages(n, N, bin, Size[order], page)
           w == [d.spaces[N] EXCEPT !.image = block]
           b == [d EXCEPT !.spaces[N] = w]
           cnt == Size[order]
           G == H \union block
<1>1. cnt \in Nat /\ bin \in Nat
  BY SizeAssumption, InOrderBasic, FirstFitNat DEF Basic
<1>2. Basic(c) /\ c.spaces = a.spaces /\ Fields(c)
  BY InOrderBasic, AllocBasic DEF Basic
<1>3. Keeps(c, n) /\ Fields(n)
  <2> HIDE DEF c
  <2> QED
    BY <1>2, CreateKeeps DEF Keeps
<1>4. Keeps(n, d) /\ Fields(d)
  <2> HIDE DEF n, bin, cnt, N
  <2>1. Keeps(n, MapInPages(n, N, bin, cnt, page))
    BY <1>1, <1>3, MapKeeps
  <2> QED
    BY <2>1 DEF Keeps, cnt
<1>5. N \in Nat /\ N \notin 1 .. Len(a.spaces) /\ N \in 1 .. N
      /\ \A q \in 1 .. Len(a.spaces) : q \in 1 .. N /\ q # N
  BY InOrderBasic DEF Basic
<1>6. Load(a, order, page) = [MapInPages(n, Len(n.spaces), bin, cnt, page)
                                EXCEPT !.spaces[Len(n.spaces)].image = block]
  BY DEF Load
<1>7. ~ c.dead /\ ~ n.dead
  <2> DEFINE e == MapInPages(n, Len(n.spaces), bin, cnt, page)
  <2>1. Keeps(n, e)
    <3> HIDE DEF n, bin, cnt
    <3> QED
      BY <1>1, <1>3, MapKeeps
  <2> HIDE DEF n, e, c, block, bin, cnt
  <2>2. ~ e.dead
    BY <1>6, <2>1 DEF Keeps, Fields, e
  <2> QED
    BY <1>3, <2>1, <2>2 DEF Keeps
<1>8. /\ InOrder(c, G) /\ bin \in a.free /\ block \subseteq a.free
      /\ block \intersect H = {}
      /\ \A q \in 1 .. Len(a.spaces), x \in Places : FrameAt(c, q, x) = FrameAt(a, q, x)
  <2>1. AllocEffect(a, c, bin, block, H)
    BY <1>7, AllocStep
  <2> HIDE DEF c, bin, block
  <2> QED
    BY <2>1 DEF AllocEffect, G
<1> HIDE DEF c, G
<1>9. CreateEffect(c, n, G)
  BY <1>7, <1>8, CreateStep
<1> HIDE DEF n
<1>10. /\ InOrder(n, G) /\ OldsKept(c, n) /\ Born(n, N, KernelStart - 1, {})
       /\ \A v \in User : v # KernelStart - 1 => Translate(n, N, v) = None
  BY <1>2, <1>9 DEF CreateEffect
<1>11. Len(n.spaces) = N /\ OldsKept(a, n)
  <2>1. Len(n.spaces) = N
    BY <1>2, <1>10 DEF OldsKept
  <2> HIDE DEF N
  <2>2. OldsKept(a, n)
    BY <1>2, <1>8, <1>10 DEF OldsKept
  <2> QED
    BY <2>1, <2>2
<1> HIDE DEF N, bin, block, cnt
<1>12. block \subseteq G /\ G \ block = H /\ block = bin .. bin + cnt - 1
  BY <1>8 DEF G, BlockOf, block, cnt
<1>13. ~ d.dead
  <2> HIDE DEF d
  <2>1. Load(a, order, page) = [d EXCEPT !.spaces[N].image = block]
    BY <1>6, <1>11 DEF d, cnt
  <2> QED
    BY <1>4, <2>1 DEF Fields
<1>14. MappedIn(n, d, N, bin, cnt, page, G)
  <2>1. N \in 1 .. Len(n.spaces) /\ page + cnt <= KernelStart
    BY <1>5, <1>11 DEF cnt
  <2>2. bin .. bin + cnt - 1 \subseteq G
    BY <1>12
  <2>3. d = MapInPages(n, N, bin, cnt, page)
    BY DEF cnt
  <2> HIDE DEF d
  <2>4. ~ MapInPages(n, N, bin, cnt, page).dead
    BY <1>13, <2>3
  <2>5. MappedIn(n, MapInPages(n, N, bin, cnt, page), N, bin, cnt, page, G)
    BY <1>1, <1>10, <2>1, <2>2, <2>4, MapStep
  <2> QED
    BY <2>3, <2>5
<1>15. Load(a, order, page) = b
  <2>1. Load(a, order, page) = [d EXCEPT !.spaces[N].image = block]
    BY <1>6, <1>11 DEF cnt
  <2> HIDE DEF d
  <2> QED
    BY <2>1
<1> HIDE DEF d
<1>16. /\ InOrder(d, H) /\ OthersKept(n, d, N) /\ RegionsKept(n, d, N)
       /\ Accounted(n, d, N, block)
       /\ \A v \in User :
            Translate(d, N, v) = IF v \in page .. page + cnt - 1 THEN bin + (v - page)
                                 ELSE Translate(n, N, v)
  BY <1>12, <1>14 DEF MappedIn
<1>17. Len(d.spaces) = N /\ N \in 1 .. Len(d.spaces) /\ d.spaces[N] \in Space
  <2>1. Len(d.spaces) = N /\ N \in 1 .. Len(d.spaces)
    BY <1>5, <1>11, <1>16 DEF OthersKept
  <2> QED
    BY <1>16, <2>1 DEF InOrder, TypeMemory
<1>18. /\ w \in Space /\ w.l1 = d.spaces[N].l1 /\ w.lv1 = d.spaces[N].lv1
       /\ w.pt2 = d.spaces[N].pt2 /\ w.pages = d.spaces[N].pages
       /\ w.stackE = d.spaces[N].stackE /\ w.heapE = d.spaces[N].heapE
       /\ w.image = block
  <2>1. block \in SUBSET Nat
    BY <1>1, <1>12
  <2> QED
    BY <1>17, <2>1 DEF Space
<1> HIDE DEF w
<1>19. FieldsEffect(d, b, N, w, H)
  BY <1>16, <1>17, <1>18, FieldsStep
<1> HIDE DEF b
<1>20. /\ InOrder(b, H) /\ Len(b.spaces) = N /\ b.spaces[N] = w
       /\ \A q \in 1 .. N : q # N => b.spaces[q] = d.spaces[q]
       /\ \A q \in 1 .. N, x \in Places : FrameAt(b, q, x) = FrameAt(d, q, x)
  BY <1>17, <1>19 DEF FieldsEffect
<1>21. OldsKept(a, b)
  <2>1. ASSUME NEW q \in 1 .. Len(a.spaces)
        PROVE  /\ b.spaces[q] = a.spaces[q]
               /\ \A x \in Places : FrameAt(b, q, x) = FrameAt(a, q, x)
    <3>1. q \in 1 .. N /\ q # N
      BY <1>5
    <3>2. d.spaces[q] = n.spaces[q]
          /\ \A x \in Places : FrameAt(d, q, x) = FrameAt(n, q, x)
      BY <1>11, <1>16, <3>1 DEF OthersKept
    <3>3. n.spaces[q] = a.spaces[q]
          /\ \A x \in Places : FrameAt(n, q, x) = FrameAt(a, q, x)
      BY <1>11 DEF OldsKept
    <3> QED
      BY <1>20, <3>1, <3>2, <3>3
  <2> QED
    BY <1>20, <2>1 DEF OldsKept, N
<1>22. Born(b, N, KernelStart - 1, block)
  <2>1. Listed(b, N) = Listed(d, N)
    BY <1>18, <1>20 DEF Listed
  <2>2. ASSUME NEW x \in Places
        PROVE  FrameAt(b, N, x) \in {None} \union Listed(b, N) \union block
    <3>1. FrameAt(b, N, x) = FrameAt(d, N, x)
      BY <1>5, <1>20
    <3>2. FrameAt(d, N, x) \in {FrameAt(n, N, x), None} \union Listed(d, N) \union block
      BY <1>16 DEF Accounted
    <3>3. FrameAt(n, N, x) \in {None} \union Listed(n, N) \union {}
      BY <1>10 DEF Born
    <3>4. Listed(n, N) \subseteq Listed(d, N)
      BY <1>16 DEF Accounted
    <3> QED
      BY <2>1, <3>1, <3>2, <3>3, <3>4
  <2>3. b.spaces[N].stackE = KernelStart - 1 /\ b.spaces[N].heapE = 0
    BY <1>10, <1>16, <1>18, <1>20 DEF Born, RegionsKept
  <2> QED
    BY <2>2, <2>3 DEF Born
<1>23. ASSUME NEW v \in User, v # KernelStart - 1
       PROVE  Translate(b, N, v) = IF v \in page .. page + cnt - 1
                                   THEN bin + (v - page) ELSE None
  <2>1. EntryOf(v) \in Places
    BY EntryFacts
  <2>2. Translate(b, N, v) = Translate(d, N, v)
    BY <1>5, <1>20, <2>1, TranslateIsEntry
  <2> QED
    BY <1>10, <1>16, <1>23, <2>2
<1>24. LoadEffect(a, b, bin, block, page, cnt, H)
  BY <1>8, <1>18, <1>20, <1>21, <1>22, <1>23 DEF LoadEffect, N
<1> QED
  BY <1>15, <1>24 DEF bin, block, cnt

-----------------------------------------------------------------------------
(* The memory between two actions. *)

(* The pages of a process are in its heap, where a program was linked, or  *)
(* in its stacks, which take at most t pages after the first.              *)
Image(f) == VAddr[f] .. VAddr[f] + Size[ElfOrder(f)] - 1
Placed(a, p, t) ==
  /\ KernelStart - 1 - t <= a.spaces[p].stackE /\ a.spaces[p].stackE <= KernelStart
  /\ \E f \in Files : \A v \in User : Translate(a, p, v) # None =>
       v < a.spaces[p].heapE \/ v \in Image(f) \/ a.spaces[p].stackE <= v

(* All frames of a process are on its list or in its image. *)
AllListed(a, p) ==
  \A x \in Places : FrameAt(a, p, x) \in {None} \union Listed(a, p) \union a.spaces[p].image

MemoryOk(a, H, t) ==
  /\ InOrder(a, H) /\ ~ a.dead /\ t \in 0 .. MaxThreads
  /\ \A p \in 1 .. Len(a.spaces) : Placed(a, p, t) /\ AllListed(a, p)

(* No process of before loses a page but to its heap or to a stack that is *)
(* put into its heap.                                                      *)
PageKept(a, b, p, v) ==
  \/ Translate(b, p, v) = Translate(a, p, v)
  \/ a.spaces[p].heapE <= v /\ v < b.spaces[p].heapE
  \/ b.spaces[p].stackE <= v /\ v < a.spaces[p].heapE
Kept(a, b) ==
  \A p \in 1 .. Len(a.spaces) :
    /\ a.spaces[p].heapE <= b.spaces[p].heapE
    /\ \A v \in User : Translate(a, p, v) # None => PageKept(a, b, p, v)

(* The regions of a process are numbers. *)
LEMMA SpaceTypes ==
  ASSUME NEW a, NEW H, InOrder(a, H), NEW p \in 1 .. Len(a.spaces)
  PROVE  a.spaces[p].stackE \in Int /\ a.spaces[p].heapE \in Nat
<1>1. a.spaces[p] \in Space
  BY DEF InOrder, TypeMemory
<1> QED
  BY <1>1 DEF Space

(* A process that nothing happened to is as before. *)
LEMMA SameKept ==
  ASSUME NEW a, NEW H, InOrder(a, H), NEW b, NEW p \in 1 .. Len(a.spaces), NEW t,
         b.spaces[p] = a.spaces[p],
         \A x \in Places : FrameAt(b, p, x) = FrameAt(a, p, x)
  PROVE  /\ \A v \in User : Translate(b, p, v) = Translate(a, p, v)
         /\ Placed(a, p, t) => Placed(b, p, t)
         /\ AllListed(a, p) => AllListed(b, p)
         /\ a.spaces[p].heapE <= b.spaces[p].heapE
<1>1. \A v \in User : Translate(b, p, v) = Translate(a, p, v)
  BY EntryFacts, TranslateIsEntry
<1>2. Placed(a, p, t) => Placed(b, p, t)
  BY <1>1 DEF Placed
<1>3. AllListed(a, p) => AllListed(b, p)
  BY DEF AllListed, Listed
<1>4. a.spaces[p].heapE \in Nat
  BY SpaceTypes
<1> QED
  BY <1>1, <1>2, <1>3, <1>4

(* One more thread may have been created. *)
LEMMA PlacedMore ==
  ASSUME NEW a, NEW p, NEW t \in Nat, a.spaces[p].stackE \in Int, Placed(a, p, t)
  PROVE  Placed(a, p, t + 1)
<1>1. KernelStart - 1 - (t + 1) <= a.spaces[p].stackE
  BY LastPage DEF Placed
<1> QED
  BY <1>1 DEF Placed

(* Where a program is linked. *)
LEMMA ImageFacts ==
  ASSUME NEW f \in Files
  PROVE  /\ VAddr[f] \in Nat /\ ElfOrder(f) \in 0 .. Widest /\ MaxThreads \in Nat
         /\ Size[ElfOrder(f)] \in Nat /\ MemPages[f] <= Size[ElfOrder(f)]
         /\ MemPages[f] \in Nat
         /\ VAddr[f] + Size[ElfOrder(f)] + MaxThreads < KernelStart
<1>1. /\ VAddr[f] \in Nat /\ MaxThreads \in Nat /\ MemPages[f] \in Nat
      /\ VAddr[f] + Size[PagesToOrder(MemPages[f])] + MaxThreads < KernelStart
      /\ MemPages[f] <= Size[Widest]
  BY FileAssumption
<1>2. ElfOrder(f) \in 0 .. Widest /\ Size[ElfOrder(f)] >= MemPages[f]
  BY <1>1, OrderFacts DEF ElfOrder
<1> QED
  BY <1>1, <1>2, SizeAssumption DEF ElfOrder

(* create_thread. *)
LEMMA ThreadOk ==
  ASSUME NEW a, NEW H, NEW t, MemoryOk(a, H, t), t < MaxThreads,
         NEW p \in 1 .. Len(a.spaces), ~ CreateUserThread(a, p, 500).dead
  PROVE  LET b == CreateUserThread(a, p, 500)
         IN  MemoryOk(b, H, t + 1) /\ Kept(a, b) /\ Len(b.spaces) = Len(a.spaces)
<1> DEFINE b == CreateUserThread(a, p, 500)
           low == a.spaces[p].stackE - 1
<1>1. InOrder(a, H) /\ Placed(a, p, t) /\ AllListed(a, p) /\ t \in Nat /\ t \in 0 .. MaxThreads
  BY DEF MemoryOk
<1>2. PICK f \in Files : \A v \in User : Translate(a, p, v) # None =>
         v < a.spaces[p].heapE \/ v \in Image(f) \/ a.spaces[p].stackE <= v
  BY <1>1 DEF Placed
<1>3. a.spaces[p].stackE \in Int /\ a.spaces[p].heapE \in Nat
  BY <1>1, SpaceTypes
<1>4. /\ KernelStart - 1 - t <= a.spaces[p].stackE /\ a.spaces[p].stackE <= KernelStart
      /\ KernelStart \in Nat
  BY <1>1, LastPage DEF Placed
<1>5. /\ VAddr[f] \in Nat /\ MaxThreads \in Nat /\ Size[ElfOrder(f)] \in Nat
      /\ VAddr[f] + Size[ElfOrder(f)] + MaxThreads < KernelStart
  BY ImageFacts
<1>6. low \in Int /\ low >= KernelStart - 1 - (t + 1) /\ low <= KernelStart - 1 /\ low \in Nat
  <2> DEFINE e == a.spaces[p].stackE
  <2>1. e \in Int /\ KernelStart - 1 - t <= e /\ e <= KernelStart /\ low = e - 1
    BY <1>3, <1>4
  <2>2. t \in Nat /\ t + 1 <= MaxThreads
    BY <1>1, <1>5
  <2>3. MaxThreads < KernelStart /\ KernelStart \in Nat
    BY <1>4, <1>5
  <2> HIDE DEF e, low
  <2>4. low \in Int /\ low >= KernelStart - 1 - (t + 1) /\ low <= KernelStart - 1
    BY <2>1, <2>2, <2>3
  <2>5. KernelStart - 1 - (t + 1) >= -1
    BY <1>5, <2>2, <2>3
  <2> QED
    BY <1>5, <2>1, <2>2, <2>3, <2>4
<1>7. low \in User /\ low \notin Image(f)
  <2> HIDE DEF low
  <2> QED
    BY <1>1, <1>4, <1>5, <1>6 DEF User, Image
<1>8. ThreadEffect(a, b, p, H)
  BY <1>1, <1>7, ThreadStep
<1> HIDE DEF b
<1>9. /\ InOrder(b, H) /\ OthersKept(a, b, p)
      /\ b.spaces[p].image = a.spaces[p].image
      /\ b.spaces[p].heapE = a.spaces[p].heapE /\ b.spaces[p].stackE = low
      /\ Accounted(a, b, p, {})
      /\ \A v \in User : v # low => Translate(b, p, v) = Translate(a, p, v)
  <2>1. \A v \in User : v # low => v \notin low .. low + 1 - 1
    BY <1>6 DEF User
  <2> QED
    BY <1>8, <2>1 DEF ThreadEffect, GrantEffect
<1> HIDE DEF low
<1>10. Placed(b, p, t + 1)
  <2>1. KernelStart - 1 - (t + 1) <= b.spaces[p].stackE /\ b.spaces[p].stackE <= KernelStart
    BY <1>4, <1>6, <1>9
  <2>2. ASSUME NEW v \in User, Translate(b, p, v) # None
        PROVE  v < b.spaces[p].heapE \/ v \in Image(f) \/ b.spaces[p].stackE <= v
    <3>1. CASE v = low
      BY <1>6, <1>9, <3>1
    <3>2. CASE v # low
      <4>1. v < a.spaces[p].heapE \/ v \in Image(f) \/ a.spaces[p].stackE <= v
        BY <1>2, <1>9, <2>2, <3>2
      <4>2. low <= a.spaces[p].stackE /\ v \in Int
        BY <1>3, LastPage DEF low, User
      <4> QED
        BY <1>3, <1>6, <1>9, <4>1, <4>2
    <3> QED
      BY <3>1, <3>2
  <2> QED
    BY <2>1, <2>2 DEF Placed
<1>11. AllListed(b, p)
  BY <1>1, <1>9 DEF AllListed, Accounted
<1>12. Len(b.spaces) = Len(a.spaces)
  BY <1>9 DEF OthersKept
<1>13. ASSUME NEW q \in 1 .. Len(a.spaces), q # p
       PROVE  /\ Placed(b, q, t + 1) /\ AllListed(b, q)
              /\ a.spaces[q].heapE <= b.spaces[q].heapE
              /\ \A v \in User : Translate(b, q, v) = Translate(a, q, v)
  <2>1. b.spaces[q] = a.spaces[q] /\ \A x \in Places : FrameAt(b, q, x) = FrameAt(a, q, x)
    BY <1>9, <1>13 DEF OthersKept
  <2>2. Placed(a, q, t) /\ AllListed(a, q)
    BY DEF MemoryOk
  <2>3. Placed(a, q, t + 1)
    BY <1>1, <2>2, PlacedMore, SpaceTypes
  <2> QED
    BY <1>1, <2>1, <2>2, <2>3, SameKept
<1>14. Kept(a, b)
  <2>1. ASSUME NEW v \in User, Translate(a, p, v) # None PROVE PageKept(a, b, p, v)
    <3>1. CASE v = low
      <4>1. v < a.spaces[p].heapE
        BY <1>2, <1>3, <1>6, <1>7, <2>1, <3>1 DEF low
      <4> QED
        BY <1>6, <1>9, <3>1, <4>1 DEF PageKept
    <3>2. CASE v # low
      BY <1>9, <3>2 DEF PageKept
    <3> QED
      BY <3>1, <3>2
  <2>2. a.spaces[p].heapE <= b.spaces[p].heapE
    BY <1>3, <1>9
  <2> QED
    BY <1>13, <2>1, <2>2 DEF Kept, PageKept
<1>15. ~ b.dead /\ t + 1 \in 0 .. MaxThreads
  BY <1>1, <1>5 DEF b
<1>16. MemoryOk(b, H, t + 1)
  BY <1>9, <1>10, <1>11, <1>12, <1>13, <1>15 DEF MemoryOk
<1> QED
  BY <1>12, <1>14, <1>16 DEF b

(* set_break for one or two pages. *)
LEMMA BreakOk ==
  ASSUME NEW a, NEW H, NEW t, MemoryOk(a, H, t),
         NEW p \in 1 .. Len(a.spaces), NEW pages \in BreakPages,
         a.spaces[p].heapE + Size[PagesToOrder(pages)] <= KernelStart,
         ~ SetBreak(a, p, pages).dead
  PROVE  LET b == SetBreak(a, p, pages)
         IN  MemoryOk(b, H, t) /\ Kept(a, b) /\ Len(b.spaces) = Len(a.spaces)
<1> DEFINE b == SetBreak(a, p, pages)
           cnt == Size[PagesToOrder(pages)]
           heap == a.spaces[p].heapE
<1>1. /\ InOrder(a, H) /\ Placed(a, p, t) /\ AllListed(a, p)
      /\ \A q \in 1 .. Len(a.spaces) : Placed(a, q, t) /\ AllListed(a, q)
  BY DEF MemoryOk
<1>2. PICK f \in Files : \A v \in User : Translate(a, p, v) # None =>
         v < a.spaces[p].heapE \/ v \in Image(f) \/ a.spaces[p].stackE <= v
  BY <1>1 DEF Placed
<1>3. pages \in Nat /\ PagesToOrder(pages) \in 0 .. Widest /\ cnt \in Nat
  <2>1. pages \in Nat /\ pages <= Size[Widest]
    BY BreakAssumption
  <2> QED
    BY <2>1, OrderFacts, SizeAssumption
<1>4. BreakEffect(a, b, p, cnt, H)
  BY <1>1, <1>3, BreakStep
<1> HIDE DEF b, cnt
<1>5. /\ InOrder(b, H) /\ OthersKept(a, b, p)
      /\ b.spaces[p].image = a.spaces[p].image
      /\ b.spaces[p].stackE = a.spaces[p].stackE /\ b.spaces[p].heapE = heap + 4 * cnt
      /\ Accounted(a, b, p, {})
      /\ \A v \in User : v \notin heap .. heap + cnt - 1 =>
           Translate(b, p, v) = Translate(a, p, v)
  BY <1>4 DEF BreakEffect
<1>6. heap \in Nat
  BY <1>1, SpaceTypes
<1>7. \A v \in User : v \in heap .. heap + cnt - 1 => heap <= v /\ v < heap + 4 * cnt
  <2> HIDE DEF heap
  <2> QED
    BY <1>3, <1>6
<1>8. heap <= heap + 4 * cnt
  <2> HIDE DEF heap
  <2> QED
    BY <1>3, <1>6
<1>9. Placed(b, p, t)
  <2>1. KernelStart - 1 - t <= b.spaces[p].stackE /\ b.spaces[p].stackE <= KernelStart
    BY <1>1, <1>5 DEF Placed
  <2>2. ASSUME NEW v \in User, Translate(b, p, v) # None
        PROVE  v < b.spaces[p].heapE \/ v \in Image(f) \/ b.spaces[p].stackE <= v
    <3>1. CASE v \in heap .. heap + cnt - 1
      BY <1>5, <1>7, <3>1
    <3>2. CASE v \notin heap .. heap + cnt - 1
      <4>1. v < heap \/ v \in Image(f) \/ a.spaces[p].stackE <= v
        BY <1>2, <1>5, <2>2, <3>2
      <4>2. v < heap => v < heap + 4 * cnt
        <5> HIDE DEF heap
        <5> QED
          BY <1>3, <1>6, LastPage DEF User
      <4> QED
        BY <1>5, <4>1, <4>2
    <3> QED
      BY <3>1, <3>2
  <2> QED
    BY <2>1, <2>2 DEF Placed
<1>10. AllListed(b, p)
  BY <1>1, <1>5 DEF AllListed, Accounted
<1>11. Len(b.spaces) = Len(a.spaces)
  BY <1>5 DEF OthersKept
<1>12. ASSUME NEW q \in 1 .. Len(a.spaces), q # p
       PROVE  /\ Placed(b, q, t) /\ AllListed(b, q)
              /\ a.spaces[q].heapE <= b.spaces[q].heapE
              /\ \A v \in User : Translate(b, q, v) = Translate(a, q, v)
  <2>1. b.spaces[q] = a.spaces[q] /\ \A x \in Places : FrameAt(b, q, x) = FrameAt(a, q, x)
    BY <1>5, <1>12 DEF OthersKept
  <2> QED
    BY <1>1, <2>1, SameKept
<1>13. Kept(a, b)
  <2>1. ASSUME NEW v \in User, Translate(a, p, v) # None PROVE PageKept(a, b, p, v)
    BY <1>5, <1>7 DEF PageKept
  <2> QED
    BY <1>5, <1>8, <1>12, <2>1 DEF Kept, PageKept
<1>14. ~ b.dead /\ t \in 0 .. MaxThreads
  BY DEF MemoryOk, b
<1>15. MemoryOk(b, H, t)
  BY <1>5, <1>9, <1>10, <1>11, <1>12, <1>14 DEF MemoryOk
<1> QED
  BY <1>11, <1>13, <1>15 DEF b

(* Memory in which every process is as before. *)
LEMMA AllKept ==
  ASSUME NEW a, NEW H, NEW t, MemoryOk(a, H, t), NEW b,
         \A q \in 1 .. Len(a.spaces) :
           /\ b.spaces[q] = a.spaces[q]
           /\ \A x \in Places : FrameAt(b, q, x) = FrameAt(a, q, x)
  PROVE  /\ Kept(a, b)
         /\ \A q \in 1 .. Len(a.spaces) : Placed(b, q, t) /\ AllListed(b, q)
<1>1. ASSUME NEW q \in 1 .. Len(a.spaces)
      PROVE  /\ \A v \in User : Translate(b, q, v) = Translate(a, q, v)
             /\ Placed(b, q, t) /\ AllListed(b, q)
             /\ a.spaces[q].heapE <= b.spaces[q].heapE
  BY SameKept DEF MemoryOk
<1> QED
  BY <1>1 DEF Kept, PageKept

(* Frames may be given up. *)
LEMMA Fewer ==
  ASSUME NEW a, NEW H, InOrder(a, H), NEW G \in SUBSET H PROVE InOrder(a, G)
BY DEF InOrder, TablesLinked, FramesTaken

(* CMD_SIZE: a block is held in place of the one before. *)
LEMMA HoldOk ==
  ASSUME NEW a, NEW H, NEW t, MemoryOk(a, H, t), NEW order, ~ AllocPages(a, order).dead
  PROVE  LET b == AllocPages(a, order)
             block == BlockOf(FirstFit(a, order), order)
         IN  /\ MemoryOk(b, block, t) /\ Kept(a, b)
             /\ Len(b.spaces) = Len(a.spaces) /\ block \subseteq a.free
             /\ FirstFit(a, order) \in a.free
<1> DEFINE b == AllocPages(a, order)
           block == BlockOf(FirstFit(a, order), order)
<1>1. InOrder(a, H)
  BY DEF MemoryOk
<1>2. InOrder(a, {})
  BY <1>1, Fewer
<1>3. AllocEffect(a, b, FirstFit(a, order), block, {})
  BY <1>2, AllocStep
<1> HIDE DEF b, block
<1>4. /\ InOrder(b, {} \union block) /\ b.spaces = a.spaces /\ block \subseteq a.free
      /\ FirstFit(a, order) \in a.free
      /\ \A q \in 1 .. Len(a.spaces), x \in Places : FrameAt(b, q, x) = FrameAt(a, q, x)
  BY <1>3 DEF AllocEffect
<1>5. InOrder(b, block)
  BY <1>4
<1>6. Kept(a, b) /\ \A q \in 1 .. Len(a.spaces) : Placed(b, q, t) /\ AllListed(b, q)
  BY <1>4, AllKept
<1>7. ~ b.dead /\ t \in 0 .. MaxThreads
  BY DEF MemoryOk, b
<1>8. MemoryOk(b, block, t)
  BY <1>4, <1>5, <1>6, <1>7 DEF MemoryOk
<1> QED
  BY <1>4, <1>6, <1>8 DEF b, block

(* elf_init. *)
LoadOkEffect(a, b, f, bin, t) ==
  LET N == Len(a.spaces) + 1
  IN  /\ MemoryOk(b, {}, t) /\ Kept(a, b) /\ Len(b.spaces) = N
      /\ bin \in a.free /\ BlockOf(bin, ElfOrder(f)) \subseteq a.free
      /\ \A q \in 1 .. Len(a.spaces), v \in User : Translate(b, q, v) = Translate(a, q, v)
      /\ \A v \in Image(f) : v \in User /\ Translate(b, N, v) = bin + (v - VAddr[f])

LEMMA LoadOk ==
  ASSUME NEW a, NEW H, NEW t, MemoryOk(a, H, t), NEW f \in Files,
         ~ Load(a, ElfOrder(f), VAddr[f]).dead
  PROVE  LoadOkEffect(a, Load(a, ElfOrder(f), VAddr[f]), f, FirstFit(a, ElfOrder(f)), t)
<1> DEFINE order == ElfOrder(f)
           bin == FirstFit(a, order)
           block == BlockOf(bin, order)
           cnt == Size[order]
           page == VAddr[f]
           b == Load(a, order, page)
           N == Len(a.spaces) + 1
<1>1. InOrder(a, {}) /\ t \in 0 .. MaxThreads
  BY Fewer DEF MemoryOk
<1>2. /\ page \in Nat /\ order \in 0 .. Widest /\ cnt \in Nat
      /\ MaxThreads \in Nat /\ page + cnt + MaxThreads < KernelStart
  BY ImageFacts
<1>3. KernelStart \in Nat
  BY LastPage
<1> HIDE DEF order
<1>4. page + Size[order] <= KernelStart
  <2> HIDE DEF page
  <2> QED
    BY <1>2, <1>3
<1>5. LoadEffect(a, b, bin, block, page, cnt, {})
  <2>1. ~ Load(a, order, page).dead
    BY DEF order
  <2> HIDE DEF page
  <2> QED
    BY <1>1, <1>2, <1>4, <2>1, LoadStep
<1> HIDE DEF b, bin, block, page
<1>6. /\ InOrder(b, {}) /\ OldsKept(a, b) /\ Born(b, N, KernelStart - 1, block)
      /\ b.spaces[N].image = block /\ bin \in a.free /\ block \subseteq a.free
      /\ \A v \in User : v # KernelStart - 1 =>
           Translate(b, N, v) = IF v \in page .. page + cnt - 1
                                THEN bin + (v - page) ELSE None
  BY <1>5 DEF LoadEffect
<1>7. Image(f) = page .. page + cnt - 1
  BY DEF Image, page, order
<1> HIDE DEF cnt
<1>8. ASSUME NEW v \in Image(f)
      PROVE  v \in User /\ Translate(b, N, v) = bin + (v - page)
  <2>1. v \in User /\ v # KernelStart - 1
    BY <1>2, <1>3, <1>7 DEF User
  <2> QED
    BY <1>6, <1>7, <2>1
<1>9. /\ Len(b.spaces) = N
      /\ \A q \in 1 .. Len(a.spaces) :
           /\ b.spaces[q] = a.spaces[q]
           /\ \A x \in Places : FrameAt(b, q, x) = FrameAt(a, q, x)
  BY <1>6 DEF OldsKept
<1>10. Kept(a, b) /\ \A q \in 1 .. Len(a.spaces) : Placed(b, q, t) /\ AllListed(b, q)
  BY <1>9, AllKept
<1>11. \A q \in 1 .. Len(a.spaces), v \in User : Translate(b, q, v) = Translate(a, q, v)
  BY <1>9, EntryFacts, TranslateIsEntry
<1>12. b.spaces[N].stackE = KernelStart - 1
  BY <1>6 DEF Born
<1>13. Placed(b, N, t)
  <2>1. KernelStart - 1 - t <= b.spaces[N].stackE /\ b.spaces[N].stackE <= KernelStart
    BY <1>1, <1>2, <1>3, <1>12
  <2>2. ASSUME NEW v \in User, Translate(b, N, v) # None
        PROVE  v < b.spaces[N].heapE \/ v \in Image(f) \/ b.spaces[N].stackE <= v
    <3>1. CASE v = KernelStart - 1
      BY <1>3, <1>12, <3>1
    <3>2. CASE v # KernelStart - 1
      BY <1>6, <1>7, <2>2, <3>2
    <3> QED
      BY <3>1, <3>2
  <2> QED
    BY <2>1, <2>2 DEF Placed
<1>14. AllListed(b, N)
  BY <1>6 DEF AllListed, Born
<1>15. ~ b.dead
  BY DEF b, order, page
<1>16. ASSUME NEW q \in 1 .. Len(b.spaces) PROVE Placed(b, q, t) /\ AllListed(b, q)
  <2>1. Len(a.spaces) \in Nat
    BY <1>1, InOrderBasic DEF Basic
  <2>2. q = N \/ q \in 1 .. Len(a.spaces)
    BY <1>9, <2>1
  <2> QED
    BY <1>10, <1>13, <1>14, <2>2
<1>17. MemoryOk(b, {}, t)
  BY <1>1, <1>6, <1>15, <1>16 DEF MemoryOk
<1>18. LoadOkEffect(a, b, f, bin, t)
  BY <1>6, <1>8, <1>9, <1>10, <1>11, <1>17 DEF LoadOkEffect, block, order, page
<1> QED
  BY <1>18 DEF b, bin, order, page

-----------------------------------------------------------------------------
(* A frame of a process is at a place. *)
LEMMA UsedAtPlaces ==
  ASSUME NEW p \in 1 .. Len(m.spaces), InOrder(m, {}), NEW g
  PROVE  /\ g \in MappedFrames(p) =>
              \E x \in Places : x \in Entries /\ FrameAt(m, p, x) = g /\ g # None
         /\ g \in TableFrames(p) =>
              \E x \in Places : x \notin Entries /\ FrameAt(m, p, x) = g /\ g # None
<1>1. m.spaces[p] \in Space
  BY DEF InOrder, TypeMemory
<1>2. ASSUME g \in MappedFrames(p)
      PROVE  \E x \in Places : x \in Entries /\ FrameAt(m, p, x) = g /\ g # None
  <2>1. PICK v \in User : Translate(m, p, v) = g /\ g # None
    BY <1>2 DEF MappedFrames, Mapped, User
  <2> QED
    BY <2>1, EntryFacts, TranslateIsEntry
<1>3. ASSUME NEW i \in {0, 1}, g = m.spaces[p].lv1 + i
      PROVE  \E x \in Places : x \notin Entries /\ FrameAt(m, p, x) = g /\ g # None
  <2> DEFINE x == <<Sections, i>>
  <2>1. x \in Places /\ x[1] = Sections /\ x[2] = i
    BY PlaceFacts
  <2>2. x \notin Entries
    BY SectionAssumption DEF Entries
  <2> HIDE DEF x
  <2>3. FrameAt(m, p, x) = g
    BY <1>3, <2>1 DEF FrameAt
  <2>4. g \in Nat
    BY <1>1, <1>3 DEF Space
  <2>5. g # None
    BY <2>4, FramesAssumption
  <2> QED
    BY <2>1, <2>2, <2>3, <2>5
<1>4. ASSUME NEW s \in 0 .. Sections - 1, m.spaces[p].l1[s] # None,
             g = m.spaces[p].l1[s][1]
      PROVE  \E x \in Places : x \notin Entries /\ FrameAt(m, p, x) = g /\ g # None
  <2> DEFINE x == <<s, SectPages>>
  <2>1. x \in Places /\ x[1] = s /\ x[2] = SectPages /\ s # Sections
    BY PlaceFacts, SectionAssumption
  <2>2. x \notin Entries
    BY SectionAssumption DEF Entries
  <2> HIDE DEF x
  <2>3. FrameAt(m, p, x) = g
    BY <1>4, <2>1 DEF FrameAt
  <2>4. m.spaces[p].l1[s] \in TableIds
    BY <1>1, <1>4 DEF Space
  <2>5. g # None
    BY <1>4, <2>4, FramesAssumption DEF TableIds
  <2> QED
    BY <2>1, <2>2, <2>3, <2>5
<1>5. ASSUME g \in TableFrames(p)
      PROVE  \E x \in Places : x \notin Entries /\ FrameAt(m, p, x) = g /\ g # None
  <2>1. CASE g \in BlockOf(m.spaces[p].lv1, 1)
    <3>1. m.spaces[p].lv1 \in Nat
      BY <1>1 DEF Space
    <3>2. g = m.spaces[p].lv1 + 0 \/ g = m.spaces[p].lv1 + 1
      BY <2>1, <3>1, SmallOrders DEF BlockOf
    <3> QED
      BY <1>3, <3>2
  <2>2. CASE g \notin BlockOf(m.spaces[p].lv1, 1)
    <3>1. PICK s \in 0 .. Sections - 1 :
            m.spaces[p].l1[s] # None /\ g = m.spaces[p].l1[s][1]
      BY <1>5, <2>2 DEF TableFrames
    <3> QED
      BY <1>4, <3>1
  <2> QED
    BY <2>1, <2>2
<1> QED
  BY <1>2, <1>5

(* The frames of the file that is being received. *)
Held == IF elfBuffer = None THEN {} ELSE BlockOf(buffer[1], buffer[2])
MemoryInv == MemoryOk(m, Held, threads)

(* In a memory in order, a frame has one use. *)
LEMMA MemoryApart == MemoryInv => FramesApart
<1> SUFFICES ASSUME MemoryInv PROVE FramesApart
  OBVIOUS
<1>1. /\ InOrder(m, Held) /\ FramesTaken(m, Held) /\ Apart(m)
      /\ \A p \in 1 .. Len(m.spaces) : AllListed(m, p)
  BY DEF MemoryInv, MemoryOk, InOrder
<1>2. InOrder(m, {})
  BY <1>1, Fewer
<1> SUFFICES ASSUME NEW p \in 1 .. Len(m.spaces)
             PROVE  /\ Used(p) \intersect m.free = {}
                    /\ MappedFrames(p) \intersect TableFrames(p) = {}
                    /\ IsInjective([v \in Mapped(m, p) |-> Translate(m, p, v)])
                    /\ \A q \in 1 .. p - 1 : Used(p) \intersect Used(q) = {}
                    /\ elfBuffer = None
                       \/ Used(p) \intersect BlockOf(buffer[1], buffer[2]) = {}
                    /\ Used(p) \ m.spaces[p].image \subseteq ListedFrames(p)
  BY DEF FramesApart
<1>3. \A q \in 1 .. Len(m.spaces) : \A g \in Used(q) :
        g # None /\ \E x \in Places : FrameAt(m, q, x) = g
  BY <1>2, UsedAtPlaces DEF Used
<1>4. \A q \in 1 .. Len(m.spaces) : \A g \in Used(q) : g \notin m.free \union Held
  BY <1>1, <1>3 DEF FramesTaken
<1>5. Used(p) \intersect m.free = {}
  BY <1>4
<1>6. MappedFrames(p) \intersect TableFrames(p) = {}
  BY <1>1, <1>2, UsedAtPlaces DEF Apart
<1>7. IsInjective([v \in Mapped(m, p) |-> Translate(m, p, v)])
  <2> DEFINE F == [v \in Mapped(m, p) |-> Translate(m, p, v)]
  <2>1. ASSUME NEW u \in Mapped(m, p), NEW v \in Mapped(m, p), F[u] = F[v]
        PROVE  u = v
    <3>1. u \in User /\ v \in User /\ Translate(m, p, u) = Translate(m, p, v)
          /\ Translate(m, p, u) # None
      BY <2>1 DEF Mapped, User
    <3>2. EntryOf(u) \in Places /\ EntryOf(v) \in Places
      BY <3>1, EntryFacts
    <3>3. EntryOf(u) = EntryOf(v)
      BY <1>1, <3>1, <3>2, TranslateIsEntry DEF Apart
    <3> QED
      BY <3>1, <3>3, EntryOfOne
  <2>2. DOMAIN F = Mapped(m, p)
    OBVIOUS
  <2> HIDE DEF F
  <2>3. IsInjective(F)
    BY <2>1, <2>2 DEF IsInjective
  <2> QED
    BY <2>3 DEF F
<1>8. ASSUME NEW q \in 1 .. p - 1 PROVE Used(p) \intersect Used(q) = {}
  <2>1. q \in 1 .. Len(m.spaces) /\ q # p
    <3>1. Len(m.spaces) \in Nat
      BY <1>1, InOrderBasic DEF Basic
    <3> QED
      BY <3>1
  <2> QED
    BY <1>1, <1>3, <2>1 DEF Apart
<1>9. elfBuffer = None \/ Used(p) \intersect BlockOf(buffer[1], buffer[2]) = {}
  BY <1>4 DEF Held
<1>10. Used(p) \ m.spaces[p].image \subseteq ListedFrames(p)
  <2>1. ListedFrames(p) = Listed(m, p)
    BY DEF ListedFrames, Listed, InBlocks
  <2> QED
    BY <1>1, <1>3, <2>1 DEF AllListed
<1> QED
  BY <1>5, <1>6, <1>7, <1>8, <1>9, <1>10

(* No process, and every frame free. *)
LEMMA MemoryInit == Init => MemoryInv
<1> SUFFICES ASSUME Init PROVE MemoryInv
  OBVIOUS
<1>1. /\ m = [free |-> Frames, dead |-> FALSE, tables |-> << >>, bits |-> << >>,
              spaces |-> << >>]
      /\ elfBuffer = None /\ threads = 0
  BY DEF Init, NoMemory
<1>2. /\ m.free = Frames /\ ~ m.dead /\ m.tables = << >> /\ m.bits = << >>
      /\ m.spaces = << >> /\ Fields(m)
  BY <1>1 DEF Fields
<1>3. Len(m.spaces) = 0 /\ DOMAIN m.tables = {} /\ DOMAIN m.bits = {}
  BY <1>2
<1>4. m.spaces \in Seq(Space)
  BY <1>2
<1>5. m.tables \in [DOMAIN m.tables -> Table] /\ m.bits \in [DOMAIN m.bits -> {NewBits}]
  BY <1>2, <1>3
<1>6. TypeMemory(m)
  BY <1>2, <1>3, <1>4, <1>5 DEF TypeMemory
<1>7. InOrder(m, {})
  BY <1>2, <1>3, <1>6 DEF InOrder, TablesLinked, FramesTaken, Apart
<1>8. Held = {}
  BY <1>1 DEF Held
<1>9. threads \in 0 .. MaxThreads
  BY <1>1, FileAssumption
<1> QED
  BY <1>2, <1>3, <1>7, <1>8, <1>9 DEF MemoryInv, MemoryOk

(* Nothing happened. *)
LEMMA KeptSame == ASSUME NEW H, NEW t, MemoryOk(m, H, t) PROVE Kept(m, m)
BY AllKept

(* clear_elf_buffers frees nothing. *)
LEMMA ClearedSame == ASSUME NEW a, Fields(a) PROVE Cleared(a) = a
BY DEF Cleared, FreedByClear, Fields

(* elf_init works on the memory there is. *)
LEMMA LoadedIsLoad == ASSUME NEW f PROVE Loaded(f) = Load(m, ElfOrder(f), VAddr[f])
BY DEF Loaded, Load

(* The packet that ends a file makes a process, or stops the kernel. *)
Started(f) ==
  /\ TailFits /\ Header = <<f, 0>>
  /\ LoadOkEffect(m, m', f, FirstFit(m, ElfOrder(f)), threads)
  /\ mem' = Copied(f, Received)
  /\ sent' = Append(sent, line.file)
  /\ elfBuffer' = None /\ writePtr' = None

LEMMA LastEffect ==
  ASSUME MemoryInv, TakeLast
  PROVE  UNCHANGED <<m, receiver>> \/ \E f \in Files : Started(f)
<1>1. MemoryOk(m, Held, threads)
  BY DEF MemoryInv
<1>2. CASE UNCHANGED <<m, receiver>>
  BY <1>2
<1>3. ASSUME NEW f \in Files, Header = <<f, 0>>, ~ Loaded(f).dead,
             m' = Cleared(Loaded(f)), mem' = Copied(f, Received), TailFits,
             sent' = Append(sent, line.file), elfBuffer' = None, writePtr' = None
      PROVE  Started(f)
  <2> DEFINE b == Load(m, ElfOrder(f), VAddr[f])
  <2>1. Loaded(f) = b /\ ~ b.dead
    BY <1>3, LoadedIsLoad
  <2>2. LoadOkEffect(m, b, f, FirstFit(m, ElfOrder(f)), threads)
    BY <1>1, <2>1, LoadOk
  <2> HIDE DEF b
  <2>3. Cleared(b) = b
    BY <2>2, ClearedSame DEF LoadOkEffect, MemoryOk, InOrder, TypeMemory
  <2>4. m' = b
    BY <1>3, <2>1, <2>3
  <2> QED
    BY <1>3, <2>2, <2>4 DEF Started
<1>4. ASSUME Header \in {<<f, 0>> : f \in Files}, ~ Loaded(Header[1]).dead,
             m' = Cleared(Loaded(Header[1])), mem' = Copied(Header[1], Received),
             TailFits, sent' = Append(sent, line.file), elfBuffer' = None,
             writePtr' = None
      PROVE  \E f \in Files : Started(f)
  <2>1. PICK f \in Files : Header = <<f, 0>>
    BY <1>4
  <2>2. Header[1] = f
    BY <2>1
  <2>3. Started(f)
    BY <1>3, <1>4, <2>1, <2>2
  <2> QED
    BY <2>3
<1> QED
  BY <1>2, <1>4 DEF TakeLast, Stop

(* A packet that asks for a block of memory gets it, or stops the kernel.  *)
Asked(order) ==
  /\ ~ AllocPages(m, order).dead /\ m' = AllocPages(m, order)
  /\ buffer' = <<FirstFit(m, order), order>>
  /\ elfBuffer' = FirstFit(m, order) /\ writePtr' = FirstFit(m, order)
  /\ UNCHANGED <<mem, sent>> /\ misread' = (misread \/ line.part # 0)
  /\ reply' = "ok"

LEMMA SizeEffect ==
  ASSUME MemoryInv, TakeSize
  PROVE  \/ UNCHANGED <<m, receiver, reply>>
         \/ \E order : Asked(order)
<1>1. Cleared(m) = m
  BY ClearedSame DEF MemoryInv, MemoryOk, InOrder, TypeMemory
<1>2. CASE Stop("wrong size") \/ Stop("no memory")
  BY <1>2 DEF Stop
<1>3. CASE ~ Stop("wrong size") /\ ~ Stop("no memory")
  <2>1. PICK order \in Orders(line) :
          /\ ~ AllocPages(Cleared(m), order).dead
          /\ m' = AllocPages(Cleared(m), order)
          /\ buffer' = <<FirstFit(Cleared(m), order), order>>
          /\ elfBuffer' = FirstFit(Cleared(m), order)
          /\ writePtr' = FirstFit(Cleared(m), order)
          /\ misread' = (misread \/ line.part # 0)
          /\ Answer("ok")
          /\ UNCHANGED <<mem, sent, stopped>>
    BY <1>3, Zenon DEF TakeSize
  <2>2. Asked(order)
    BY <1>1, <2>1, Zenon DEF Asked, Answer
  <2> QED
    BY <2>2
<1> QED
  BY <1>2, <1>3

(* Every action keeps the memory in order, and the processes their pages. *)
MemoryStep ==
  /\ MemoryInv' /\ Kept(m, m')
  /\ Len(m'.spaces) = Len(m.spaces) \/ TakeLast

LEMMA MemoryNext == MemoryInv /\ [Next]_vars => MemoryStep
<1> SUFFICES ASSUME MemoryInv, [Next]_vars PROVE MemoryStep
  OBVIOUS
<1> USE DEF MemoryStep
<1>1. MemoryOk(m, Held, threads)
  BY DEF MemoryInv
<1>2. ASSUME UNCHANGED <<m, buffer, elfBuffer, threads>> PROVE MemoryStep
  BY <1>1, <1>2, KeptSame DEF MemoryInv, Held
<1>3. ASSUME NEW f \in Files, StartFile(f) PROVE MemoryStep
  BY <1>2, <1>3 DEF StartFile, receiver
<1>4. CASE TakeOk \/ TakeError \/ TimeOut
  BY <1>2, <1>4 DEF TakeOk, TakeError, TimeOut, receiver, bounds
<1>5. CASE Damage \/ DamageAnswer \/ Lose
  BY <1>2, <1>5 DEF Damage, DamageAnswer, Lose, receiver
<1>6. CASE Refuse \/ TakeOther \/ TakeReset
  BY <1>2, <1>6 DEF Refuse, TakeOther, TakeReset, Stop, receiver, bounds
<1>7. CASE TakeSize
  <2>1. threads' = threads
    BY <1>7 DEF TakeSize, bounds
  <2>2. CASE UNCHANGED <<m, receiver, reply>>
    BY <1>2, <2>1, <2>2 DEF receiver
  <2>3. ASSUME NEW order, Asked(order) PROVE MemoryStep
    <3> DEFINE n == AllocPages(m, order)
               frame == FirstFit(m, order)
    <3>1. ~ n.dead /\ m' = n /\ buffer' = <<frame, order>> /\ elfBuffer' = frame
      BY <2>3 DEF Asked
    <3>2. /\ MemoryOk(n, BlockOf(frame, order), threads) /\ Kept(m, n)
          /\ frame \in m.free /\ Len(n.spaces) = Len(m.spaces)
      BY <1>1, <3>1, HoldOk
    <3>3. frame # None
      BY <1>1, <3>2, FramesAssumption DEF MemoryOk, InOrder, TypeMemory
    <3>4. Held' = BlockOf(frame, order)
      <4> HIDE DEF frame
      <4> QED
        BY <3>1, <3>3 DEF Held
    <3> HIDE DEF n, frame
    <3> QED
      BY <2>1, <3>1, <3>2, <3>4 DEF MemoryInv
  <2> QED
    BY <1>7, <2>2, <2>3, SizeEffect
<1>8. CASE TakePage
  BY <1>2, <1>8 DEF TakePage, Stop, receiver, bounds
<1>9. CASE TakeLast
  <2>1. threads' = threads
    BY <1>9 DEF TakeLast, bounds
  <2>2. CASE UNCHANGED <<m, receiver>>
    BY <1>2, <2>1, <2>2 DEF receiver
  <2>3. ASSUME NEW f \in Files, Started(f) PROVE MemoryStep
    <3>1. MemoryOk(m', {}, threads) /\ Kept(m, m') /\ Held' = {}
      BY <2>3 DEF Started, LoadOkEffect, Held
    <3> QED
      BY <1>9, <2>1, <3>1 DEF MemoryInv
  <2> QED
    BY <1>9, <2>2, <2>3, LastEffect
<1>10. ASSUME NEW p \in 1 .. Len(m.spaces), CallCreateThread(p) PROVE MemoryStep
  <2> DEFINE n == CreateUserThread(m, p, 500)
  <2>1. /\ threads < MaxThreads /\ threads' = threads + 1
        /\ buffer' = buffer /\ elfBuffer' = elfBuffer
        /\ IF n.dead THEN m' = m ELSE m' = n
    BY <1>10 DEF CallCreateThread, receiver
  <2>2. Held' = Held
    BY <2>1 DEF Held
  <2>3. CASE n.dead
    <3>1. threads \in Nat /\ threads \in 0 .. MaxThreads /\ InOrder(m, Held)
      BY <1>1 DEF MemoryOk
    <3>2. threads + 1 \in 0 .. MaxThreads
      BY <2>1, <3>1, FileAssumption
    <3>3. \A q \in 1 .. Len(m.spaces) : Placed(m, q, threads + 1) /\ AllListed(m, q)
      BY <1>1, <3>1, PlacedMore, SpaceTypes DEF MemoryOk
    <3>4. MemoryOk(m, Held, threads + 1)
      BY <1>1, <3>1, <3>2, <3>3 DEF MemoryOk
    <3> QED
      BY <1>1, <2>1, <2>2, <2>3, <3>4, KeptSame DEF MemoryInv
  <2>4. CASE ~ n.dead
    <3>1. /\ MemoryOk(n, Held, threads + 1) /\ Kept(m, n)
          /\ Len(n.spaces) = Len(m.spaces)
      BY <1>1, <2>1, <2>4, ThreadOk
    <3> HIDE DEF n
    <3> QED
      BY <2>1, <2>2, <2>4, <3>1 DEF MemoryInv
  <2> QED
    BY <2>3, <2>4
<1>11. ASSUME NEW p \in 1 .. Len(m.spaces), CallSetBreak(p) PROVE MemoryStep
  <2>1. PICK pages \in BreakPages :
          m' = m \/ (~ PastTable(p, pages) /\ ~ SetBreak(m, p, pages).dead
                       /\ m' = SetBreak(m, p, pages))
    BY <1>11, Zenon DEF CallSetBreak
  <2>2. threads' = threads /\ buffer' = buffer /\ elfBuffer' = elfBuffer
    BY <1>11 DEF CallSetBreak, receiver
  <2> DEFINE n == SetBreak(m, p, pages)
  <2>3. CASE m' = m
    BY <1>2, <2>2, <2>3
  <2>4. CASE m' # m
    <3>0. m.spaces[p].heapE + Size[PagesToOrder(pages)] <= KernelStart
      <4>1. PagesToOrder(pages) \in 0 .. Widest
        BY BreakAssumption, OrderFacts
      <4>2. m.spaces[p].heapE \in Nat /\ Size[PagesToOrder(pages)] \in Nat
        BY <1>1, <4>1, SpaceTypes, SizeAssumption DEF MemoryOk
      <4> QED
        BY <2>1, <2>4, <4>2, LastPage DEF PastTable
    <3>1. /\ MemoryOk(n, Held, threads) /\ Kept(m, n)
          /\ Len(n.spaces) = Len(m.spaces)
      BY <1>1, <2>1, <2>4, <3>0, BreakOk
    <3> HIDE DEF n
    <3>2. m' = n
      BY <2>1, <2>4 DEF n
    <3> QED
      BY <2>2, <3>1, <3>2 DEF MemoryInv, Held
  <2> QED
    BY <2>3, <2>4
<1>12. CASE NewKthread
  BY <1>2, <1>12 DEF NewKthread, receiver, bounds
<1>13. CASE UNCHANGED vars
  BY <1>2, <1>13 DEF vars, receiver, bounds
<1> QED
  BY <1>3, <1>4, <1>5, <1>6, <1>7, <1>8, <1>9, <1>10, <1>11, <1>12, <1>13 DEF Next

(* The memory of the processes is always in order. *)
LEMMA MemoryAlways == Spec => []MemoryInv
<1>1. MemoryInv /\ [Next]_vars => MemoryInv'
  BY MemoryNext DEF MemoryStep
<1> QED
  BY <1>1, MemoryInit, PTL DEF Spec

(* A frame has one use: what alloc_pages gives is free and in one place    *)
(* only, whichever tables mm_get_l2_pt cuts from frames, and every use but *)
(* an image is put on the list of its process by mm_process_add_page.      *)
THEOREM OneUseOfAFrame == Spec => []FramesApart
BY MemoryAlways, MemoryApart, PTL

(* A page stays mapped to its frame: mm_map_in_pages writes entries of the *)
(* pages it is asked for and of no other page, process or table, so that   *)
(* only set_break, or a stack put where the heap is, replaces pages.       *)
THEOREM PagesStay == Spec => MappingsKept
<1>1. MemoryInv /\ [Next]_vars =>
        [\A p \in 1 .. Len(m.spaces) : \A v \in Mapped(m, p) :
           \/ Translate(m', p, v) = Translate(m, p, v)
           \/ m.spaces[p].heapE <= v /\ v < m'.spaces[p].heapE
           \/ m'.spaces[p].stackE <= v /\ v < m.spaces[p].heapE]_vars
  BY MemoryNext DEF MemoryStep, Kept, PageKept, Mapped, User
<1> QED
  BY <1>1, MemoryAlways, PTL DEF Spec, MappingsKept

-----------------------------------------------------------------------------
(* The file in its image.  The board and the script are never more than a  *)
(* packet apart: before packet n of a file is taken, its first n - 1 pages *)
(* are in the buffer and write_ptr is behind them.                         *)
Session == host.file \in Files /\ host.next \in 0 .. LastPacket(host.file)

PacketSet == [cmd : Commands, file : Files, part : Nat, whole : BOOLEAN]

HostFields == host \in [file : {host.file}, next : {host.next}, tries : {host.tries}]

SerialType ==
  /\ HostFields
  /\ reply \in {None, "ok", "error"}
  /\ reply # None => Session
  /\ line # None =>
       /\ reply = None /\ Session
       /\ line \in PacketSet /\ line.file = host.file /\ line.part = host.next

Got(f, n) ==
  n > 0 =>
    /\ elfBuffer # None /\ writePtr = elfBuffer + (n - 1)
    /\ \A j \in 0 .. n - 2 :
         elfBuffer + j \in Frames /\ mem[elfBuffer + j] = <<f, j>>

Progress ==
  misread \/
  /\ line # None \/ reply = "error" => Got(host.file, host.next)
  /\ reply = "ok" /\ host.next < LastPacket(host.file) => Got(host.file, host.next + 1)

BufferType ==
  /\ mem = [k \in Frames |-> mem[k]]
  /\ writePtr # None => elfBuffer # None
  /\ elfBuffer # None => elfBuffer \in Nat
  /\ sent \in Seq(Files) /\ Len(sent) = Len(m.spaces)
  /\ misread \in BOOLEAN

(* The image of one process. *)
ImageHolds(a, c, f, p) ==
  \A j \in 0 .. SegPages[f] - 1 :
    LET frame == Translate(a, p, VAddr[f] + j)
    IN frame # None /\ c[frame] = <<f, Offset[f] + j>>
ImagesHold ==
  \A p \in 1 .. Len(sent) :
    misread \/ m.spaces[p].heapE > VAddr[sent[p]] \/ ImageHolds(m, mem, sent[p], p)

FileInv == SerialType /\ BufferType /\ Progress /\ ImagesHold

(* Nothing is being sent. *)
LEMMA FileInit == Init => FileInv
<1> SUFFICES ASSUME Init PROVE FileInv
  OBVIOUS
<1>1. SerialType
  BY DEF Init, SerialType, HostFields, Idle
<1>2. BufferType
  <2>1. /\ mem = [k \in Frames |-> None] /\ sent = << >> /\ m.spaces = << >>
        /\ elfBuffer = None /\ writePtr = None /\ misread = FALSE
    BY DEF Init, NoMemory
  <2>2. mem = [k \in Frames |-> mem[k]]
    BY <2>1
  <2>3. sent \in Seq(Files) /\ Len(sent) = Len(m.spaces)
    BY <2>1
  <2> QED
    BY <2>1, <2>2, <2>3 DEF BufferType
<1>3. Progress
  BY AnswerAssumption DEF Init, Progress
<1>4. ImagesHold
  BY DEF Init, ImagesHold
<1> QED
  BY <1>1, <1>2, <1>3, <1>4 DEF FileInv

(* The packets of a file. *)
LEMMA PartFacts ==
  ASSUME NEW f \in Files
  PROVE  /\ Pages[f] \in Nat \ {0} /\ LastPacket(f) = Pages[f] + 1
         /\ Parts(f) \in Nat
         /\ Parts(f) = Pages[f] \/ (Parts(f) = Pages[f] + 1 /\ f \in HasTail)
<1>1. Pages[f] \in Nat \ {0}
  BY FileAssumption
<1>2. CASE f \in HasTail
  BY <1>1, <1>2 DEF LastPacket, Parts
<1>3. CASE f \notin HasTail
  BY <1>1, <1>3 DEF LastPacket, Parts
<1> QED
  BY <1>2, <1>3

(* The part of a file that is its segment. *)
LEMMA SegFacts ==
  ASSUME NEW f \in Files
  PROVE  /\ Offset[f] \in Nat /\ SegPages[f] \in Nat
         /\ Offset[f] + SegPages[f] <= Parts(f) /\ SegPages[f] <= Size[ElfOrder(f)]
         /\ \A j \in 0 .. SegPages[f] - 1 : Offset[f] + j \in 0 .. Parts(f) - 1
<1>1. /\ Offset[f] \in Nat /\ SegPages[f] \in Nat
      /\ Offset[f] + SegPages[f] <= Parts(f) /\ SegPages[f] <= MemPages[f]
  BY FileAssumption
<1>2. MemPages[f] <= Size[ElfOrder(f)] /\ MemPages[f] \in Nat /\ Size[ElfOrder(f)] \in Nat
  BY ImageFacts
<1>3. Parts(f) \in Nat
  BY PartFacts
<1> QED
  BY <1>1, <1>2, <1>3

(* A packet of the script. *)
LEMMA PacketFacts ==
  ASSUME NEW f \in Files, NEW n \in 0 .. LastPacket(f)
  PROVE  /\ Packet(f, n) \in PacketSet /\ Packet(f, n).file = f /\ Packet(f, n).part = n
<1>1. n \in Nat
  BY PartFacts
<1> QED
  BY <1>1 DEF Packet, PacketSet, Commands

(* The script keeps its fields. *)
LEMMA HostNext == HostFields /\ [Next]_vars => HostFields'
<1> SUFFICES ASSUME HostFields, [Next]_vars PROVE HostFields'
  OBVIOUS
<1>1. ASSUME UNCHANGED host PROVE HostFields'
  BY <1>1 DEF HostFields
<1>2. CASE host' = Idle
  BY <1>2 DEF Idle, HostFields
<1>3. CASE TakeOk \/ TakeError
  <2>1. CASE host' = [host EXCEPT !.next = @ + 1, !.tries = Retries]
    BY <2>1 DEF HostFields
  <2>2. CASE host' = [host EXCEPT !.tries = @ - 1]
    BY <2>2 DEF HostFields
  <2> QED
    BY <1>2, <1>3, <2>1, <2>2 DEF TakeOk, TakeError
<1>4. ASSUME NEW f \in Files, StartFile(f) PROVE HostFields'
  <2>1. host' = [file |-> f, next |-> 0, tries |-> Retries]
    BY <1>4 DEF StartFile
  <2> QED
    BY <2>1 DEF HostFields
<1>5. CASE TimeOut
  BY <1>2, <1>5 DEF TimeOut
<1>6. CASE \/ Damage \/ DamageAnswer \/ Lose \/ Refuse \/ TakeOther \/ TakeReset
           \/ TakeSize \/ TakePage \/ TakeLast \/ NewKthread
  BY <1>1, <1>6 DEF Damage, DamageAnswer, Lose, Refuse, TakeOther, TakeReset, TakeSize,
     TakePage, TakeLast, NewKthread, serial
<1>7. ASSUME NEW p \in 1 .. Len(m.spaces), CallCreateThread(p) \/ CallSetBreak(p)
      PROVE  HostFields'
  BY <1>1, <1>7 DEF CallCreateThread, CallSetBreak, serial
<1>8. CASE UNCHANGED vars
  BY <1>1, <1>8 DEF vars, serial
<1> QED
  BY <1>3, <1>4, <1>5, <1>6, <1>7, <1>8 DEF Next

(* The script and the line. *)
LEMMA SerialNext == SerialType /\ [Next]_vars => SerialType'
<1> SUFFICES ASSUME SerialType, [Next]_vars PROVE SerialType'
  OBVIOUS
<1>1. HostFields'
  BY HostNext DEF SerialType
<1>2. ASSUME UNCHANGED serial PROVE SerialType'
  BY <1>1, <1>2 DEF SerialType, Session, serial
<1>3. ASSUME UNCHANGED <<host, reply>>, line' = None PROVE SerialType'
  BY <1>1, <1>3 DEF SerialType, Session
<1>4. ASSUME UNCHANGED host, line' = None, reply' \in {"ok", "error"}, line # None
      PROVE  SerialType'
  BY <1>1, <1>4 DEF SerialType, Session
<1>5. ASSUME NEW f \in Files, StartFile(f) PROVE SerialType'
  <2>1. 0 \in 0 .. LastPacket(f)
    BY PartFacts
  <2> QED
    BY <1>1, <1>5, <2>1, PacketFacts DEF StartFile, SerialType, Session
<1>6. CASE TakeOk
  <2>1. Session /\ line = None
    BY <1>6, AnswerAssumption DEF TakeOk, SerialType
  <2>2. CASE host.next = LastPacket(host.file)
    BY <1>1, <1>6, <2>2 DEF TakeOk, SerialType
  <2>3. CASE host.next # LastPacket(host.file)
    <3>1. host.next + 1 \in 0 .. LastPacket(host.file)
      BY <2>1, <2>3, PartFacts DEF Session
    <3>2. /\ host' = [host EXCEPT !.next = host.next + 1, !.tries = Retries]
          /\ line' = Packet(host.file, host.next + 1) /\ reply' = None
      BY <1>6, <2>3 DEF TakeOk
    <3> QED
      BY <1>1, <2>1, <3>1, <3>2, PacketFacts DEF SerialType, Session, HostFields
  <2> QED
    BY <2>2, <2>3
<1>7. CASE TakeError
  <2>1. Session /\ line = None
    BY <1>7, AnswerAssumption DEF TakeError, SerialType
  <2>2. CASE host.tries = 1
    BY <1>1, <1>7, <2>2 DEF TakeError, SerialType
  <2>3. CASE host.tries # 1
    <3>1. /\ host' = [host EXCEPT !.tries = host.tries - 1]
          /\ line' = Packet(host.file, host.next) /\ reply' = None
      BY <1>7, <2>3 DEF TakeError
    <3>2. host'.file = host.file /\ host'.next = host.next
      BY <3>1 DEF SerialType, HostFields
    <3> QED
      BY <1>1, <2>1, <3>1, <3>2, PacketFacts DEF SerialType, Session, HostFields
  <2> QED
    BY <2>2, <2>3
<1>8. CASE TimeOut
  BY <1>1, <1>8 DEF TimeOut, SerialType
<1>9. CASE Damage
  BY <1>1, <1>9 DEF Damage, SerialType, Session, PacketSet
<1>9a. CASE DamageAnswer
  BY <1>1, <1>9a DEF DamageAnswer, SerialType, Session
<1>10. CASE Lose
  BY <1>1, <1>10 DEF Lose, SerialType
<1>11. CASE Refuse
  BY <1>4, <1>11 DEF Refuse, Answer
<1>12. CASE TakeOther
  BY <1>4, <1>12 DEF TakeOther, Answer, Take
<1>12a. CASE TakeReset
  BY <1>3, <1>12a DEF TakeReset, Stop
<1>13. CASE TakeSize
  BY <1>3, <1>4, <1>13 DEF TakeSize, Answer, Take, Stop
<1>14. CASE TakePage
  BY <1>3, <1>4, <1>14 DEF TakePage, Answer, Take, Stop
<1>15. CASE TakeLast
  BY <1>3, <1>4, <1>15 DEF TakeLast, Answer, Take, Stop
<1>16. ASSUME NEW p \in 1 .. Len(m.spaces), CallCreateThread(p) \/ CallSetBreak(p)
       PROVE  SerialType'
  BY <1>2, <1>16 DEF CallCreateThread, CallSetBreak
<1>17. CASE NewKthread
  BY <1>2, <1>17 DEF NewKthread
<1>18. CASE UNCHANGED vars
  BY <1>2, <1>18 DEF vars
<1> QED
  BY <1>5, <1>6, <1>7, <1>8, <1>9, <1>9a, <1>10, <1>11, <1>12, <1>12a, <1>13, <1>14,
     <1>15, <1>16, <1>17, <1>18 DEF Next

(* The receiver writes to the buffer it holds. *)
LEMMA WritesHeld ==
  ASSUME MemoryInv, BufferType, InBuffer(writePtr)
  PROVE  writePtr \in Held /\ writePtr \in Frames /\ elfBuffer # None
<1>1. elfBuffer # None
  BY DEF InBuffer, BufferType
<1>2. writePtr \in Held /\ Held \subseteq Frames
  BY <1>1 DEF InBuffer, Held, MemoryInv, MemoryOk, InOrder
<1> QED
  BY <1>1, <1>2

(* The tail goes to the buffer, too. *)
LEMMA TailHeld ==
  ASSUME MemoryInv, BufferType, TailFits
  PROVE  /\ Received = [k \in Frames |-> Received[k]]
         /\ \A g \in Frames : g \notin Held => Received[g] = mem[g]
         /\ HoldsTail(line) => Received[writePtr] = Content(line) /\ writePtr \in Frames
         /\ \A g \in Frames : g # writePtr => Received[g] = mem[g]
<1>1. mem = [k \in Frames |-> mem[k]]
  BY DEF BufferType
<1>2. CASE HoldsTail(line)
  <2>1. writePtr \in Held /\ writePtr \in Frames
    BY <1>2, WritesHeld DEF TailFits
  <2>2. Received = [mem EXCEPT ![writePtr] = Content(line)]
    BY <1>2 DEF Received
  <2> QED
    BY <1>1, <2>1, <2>2
<1>3. CASE ~ HoldsTail(line)
  <2>1. Received = mem
    BY <1>3 DEF Received
  <2> QED
    BY <1>1, <1>3, <2>1
<1> QED
  BY <1>2, <1>3

(* The block of CMD_SIZE. *)
LEMMA OrderFrame ==
  ASSUME MemoryInv, NEW order
  PROVE  /\ FirstFit(m, order) \in Nat /\ FirstFit(m, order) # None
         /\ FirstFit(Cleared(m), order) = FirstFit(m, order)
<1>1. Fields(m) /\ m.free \subseteq Frames
  BY InOrderBasic DEF MemoryInv, MemoryOk, Basic
<1> QED
  BY <1>1, FirstFitNat, ClearedSame, FramesAssumption

(* The receiver has a buffer, or none. *)
LEMMA BufferNext == MemoryInv /\ SerialType /\ BufferType /\ [Next]_vars => BufferType'
<1> SUFFICES ASSUME MemoryInv, SerialType, BufferType, [Next]_vars PROVE BufferType'
  OBVIOUS
<1>1. MemoryStep
  BY MemoryNext
<1>2. ASSUME UNCHANGED <<mem, writePtr, elfBuffer, sent>>, misread' \in BOOLEAN,
             Len(m'.spaces) = Len(m.spaces)
      PROVE  BufferType'
  BY <1>2 DEF BufferType
<1>3. ASSUME UNCHANGED <<m, receiver>> PROVE BufferType'
  BY <1>2, <1>3 DEF receiver, BufferType
<1>4. ASSUME NEW f \in Files, StartFile(f) PROVE BufferType'
  BY <1>3, <1>4 DEF StartFile
<1>5. CASE \/ TakeOk \/ TakeError \/ TimeOut \/ Damage \/ Lose \/ Refuse \/ TakeReset
           \/ NewKthread
  BY <1>3, <1>5 DEF TakeOk, TakeError, TimeOut, Damage, Lose, Refuse, TakeReset, Stop,
     NewKthread
<1>6. CASE TakeOther \/ DamageAnswer
  BY <1>2, <1>6 DEF TakeOther, DamageAnswer
<1>7. CASE TakeSize
  <2>1. CASE UNCHANGED <<m, receiver, reply>>
    BY <1>3, <2>1
  <2>2. ASSUME NEW order, Asked(order) PROVE BufferType'
    <3> DEFINE frame == FirstFit(m, order)
    <3>1. elfBuffer' = frame /\ writePtr' = frame /\ UNCHANGED <<mem, sent>>
      BY <2>2 DEF Asked
    <3>2. frame \in Nat /\ frame # None
      BY OrderFrame
    <3>3. Len(m'.spaces) = Len(m.spaces)
      BY <1>1, <1>7 DEF MemoryStep, TakeSize, TakeLast, Take
    <3>4. misread' \in BOOLEAN
      BY <2>2 DEF Asked
    <3> HIDE DEF frame
    <3> QED
      BY <3>1, <3>2, <3>3, <3>4 DEF BufferType
  <2> QED
    BY <1>7, <2>1, <2>2, SizeEffect
<1>8. CASE TakePage
  <2>1. CASE Stop("wild write")
    BY <1>3, <2>1 DEF Stop
  <2>2. CASE ~ Stop("wild write")
    <3>1. /\ mem' = [mem EXCEPT ![writePtr] = Content(line)]
          /\ writePtr' = writePtr + 1 /\ UNCHANGED <<m, elfBuffer, sent, misread>>
          /\ InBuffer(writePtr)
      BY <1>8, <2>2 DEF TakePage
    <3>2. elfBuffer # None
      BY <3>1, WritesHeld
    <3>3. mem' = [k \in Frames |-> mem'[k]]
      BY <3>1 DEF BufferType
    <3> QED
      BY <3>1, <3>2, <3>3 DEF BufferType
  <2> QED
    BY <2>1, <2>2
<1>9. CASE TakeLast
  <2>1. CASE UNCHANGED <<m, receiver>>
    BY <1>3, <2>1
  <2>2. ASSUME NEW f \in Files, Started(f) PROVE BufferType'
    <3>1. /\ mem' = Copied(f, Received) /\ sent' = Append(sent, line.file)
          /\ elfBuffer' = None /\ writePtr' = None
          /\ Len(m'.spaces) = Len(m.spaces) + 1
      BY <2>2 DEF Started, LoadOkEffect
    <3>2. line.file \in Files
      BY <1>9 DEF TakeLast, Take, SerialType, Session
    <3>3. mem' = [k \in Frames |-> mem'[k]]
      BY <3>1 DEF Copied
    <3>4. sent' \in Seq(Files) /\ Len(sent') = Len(m'.spaces)
      BY <3>1, <3>2 DEF BufferType
    <3>5. misread' \in BOOLEAN
      BY <1>9 DEF TakeLast, BufferType, Stop, receiver
    <3> QED
      BY <3>1, <3>3, <3>4, <3>5 DEF BufferType
  <2> QED
    BY <1>9, <2>1, <2>2, LastEffect
<1>10. ASSUME NEW p \in 1 .. Len(m.spaces), CallCreateThread(p) \/ CallSetBreak(p)
       PROVE  BufferType'
  <2>1. UNCHANGED <<line, mem, writePtr, elfBuffer, sent, misread>>
    BY <1>10 DEF CallCreateThread, CallSetBreak, serial, receiver
  <2>2. ~ TakeLast
    BY <2>1 DEF TakeLast, Take, Answer, Stop
  <2> QED
    BY <1>1, <1>2, <2>1, <2>2 DEF MemoryStep, BufferType
<1>11. CASE UNCHANGED vars
  BY <1>3, <1>11 DEF vars
<1> QED
  BY <1>4, <1>5, <1>6, <1>7, <1>8, <1>9, <1>10, <1>11 DEF Next

(* A page that is taken is the next of the file. *)
LEMMA PageGot ==
  ASSUME MemoryInv, BufferType, NEW f, NEW n \in Nat, n > 0, Got(f, n), InBuffer(writePtr),
         mem' = [mem EXCEPT ![writePtr] = <<f, n - 1>>], writePtr' = writePtr + 1,
         elfBuffer' = elfBuffer
  PROVE  Got(f, n + 1)'
<1>1. /\ elfBuffer # None /\ writePtr = elfBuffer + (n - 1)
      /\ \A j \in 0 .. n - 2 : elfBuffer + j \in Frames /\ mem[elfBuffer + j] = <<f, j>>
  BY DEF Got
<1>2. elfBuffer \in Nat
  BY <1>1 DEF BufferType
<1>3. mem'[writePtr] = <<f, n - 1>>
  BY WritesHeld DEF BufferType
<1>4. ASSUME NEW j \in 0 .. (n + 1) - 2
      PROVE  elfBuffer + j \in Frames /\ mem'[elfBuffer + j] = <<f, j>>
  <2>1. CASE j = n - 1
    <3>1. elfBuffer + j = writePtr /\ writePtr \in Frames
      BY <1>1, <1>2, <2>1, WritesHeld
    <3> QED
      BY <1>3, <2>1, <3>1
  <2>2. CASE j # n - 1
    <3>1. j \in 0 .. n - 2 /\ elfBuffer + j # writePtr
      BY <1>1, <1>2, <2>2
    <3>2. mem'[elfBuffer + j] = mem[elfBuffer + j]
      BY <3>1
    <3> QED
      BY <1>1, <3>1, <3>2
  <2> QED
    BY <2>1, <2>2
<1>5. writePtr' = elfBuffer + ((n + 1) - 1)
  BY <1>1, <1>2
<1> QED
  BY <1>1, <1>4, <1>5 DEF Got

(* The board and the script keep step. *)
LEMMA ProgressNext ==
  MemoryInv /\ SerialType /\ BufferType /\ Progress /\ [Next]_vars => Progress'
<1> SUFFICES ASSUME MemoryInv, SerialType, BufferType, Progress, [Next]_vars
             PROVE  Progress'
  OBVIOUS
<1>1. ASSUME UNCHANGED <<receiver, host, reply>>, line' \in {line, None} PROVE Progress'
  BY <1>1 DEF Progress, Got, receiver
<1>2. ASSUME UNCHANGED receiver, line' = None, reply' = None PROVE Progress'
  BY <1>2, AnswerAssumption DEF Progress, receiver
<1>3. ASSUME misread' = TRUE PROVE Progress'
  BY <1>3 DEF Progress
<1>4. ASSUME NEW f \in Files, StartFile(f) PROVE Progress'
  <2>1. host'.next = 0 /\ reply' = None
    BY <1>4 DEF StartFile
  <2> QED
    BY <2>1, AnswerAssumption DEF Progress, Got
<1>5. CASE TakeOk
  <2>1. Session /\ line = None /\ reply = "ok" /\ reply' = None /\ UNCHANGED receiver
    BY <1>5, AnswerAssumption DEF TakeOk, SerialType
  <2>2. CASE host.next = LastPacket(host.file)
    BY <1>2, <1>5, <2>1, <2>2 DEF TakeOk
  <2>3. CASE host.next # LastPacket(host.file)
    <3>1. host.next < LastPacket(host.file)
      BY <2>1, <2>3, PartFacts DEF Session
    <3>2. host' = [host EXCEPT !.next = host.next + 1, !.tries = Retries]
      BY <1>5, <2>3 DEF TakeOk
    <3>3. host'.next = host.next + 1 /\ host'.file = host.file
      BY <3>2 DEF SerialType, HostFields
    <3> QED
      BY <2>1, <3>1, <3>3, AnswerAssumption DEF Progress, Got, receiver
  <2> QED
    BY <2>2, <2>3
<1>6. CASE TakeError
  <2>1. reply = "error" /\ reply' = None /\ UNCHANGED receiver
    BY <1>6 DEF TakeError
  <2>2. CASE host.tries = 1
    BY <1>2, <1>6, <2>1, <2>2 DEF TakeError
  <2>3. CASE host.tries # 1
    <3>1. host' = [host EXCEPT !.tries = host.tries - 1]
      BY <1>6, <2>3 DEF TakeError
    <3>2. host'.next = host.next /\ host'.file = host.file
      BY <3>1 DEF SerialType, HostFields
    <3> QED
      BY <2>1, <3>2, AnswerAssumption DEF Progress, Got, receiver
  <2> QED
    BY <2>2, <2>3
<1>7. CASE TimeOut \/ Lose
  BY <1>2, <1>7 DEF TimeOut, Lose
<1>8. CASE Damage
  BY <1>8 DEF Damage, Progress, Got, receiver
<1>9. CASE Refuse
  <2>1. UNCHANGED <<receiver, host>> /\ line # None /\ line' = None /\ reply' = "error"
    BY <1>9 DEF Refuse, Answer
  <2> QED
    BY <2>1 DEF Progress, Got, receiver
<1>10. CASE TakeOther \/ DamageAnswer
  BY <1>3, <1>10 DEF TakeOther, DamageAnswer
<1>10a. CASE TakeReset
  <2>1. UNCHANGED <<receiver, host, reply>> /\ line' = None
    BY <1>10a DEF TakeReset, Stop
  <2> QED
    BY <1>1, <2>1
<1>11. CASE TakeSize
  <2>1. UNCHANGED host /\ line # None /\ line' = None
    BY <1>11 DEF TakeSize, Take, Stop, Answer
  <2>2. Session /\ line.part = host.next
    BY <2>1 DEF SerialType
  <2>3. CASE UNCHANGED <<m, receiver, reply>>
    BY <1>1, <2>1, <2>3
  <2>4. ASSUME NEW order, Asked(order) PROVE Progress'
    <3> DEFINE frame == FirstFit(m, order)
    <3>1. elfBuffer' = frame /\ writePtr' = frame /\ reply' = "ok"
      BY <2>4 DEF Asked
    <3>2. frame \in Nat /\ frame # None
      BY OrderFrame
    <3> HIDE DEF frame
    <3>3. \A f : Got(f, 0 + 1)'
      BY <3>1, <3>2 DEF Got
    <3>4. CASE line.part = 0
      BY <2>1, <2>2, <3>1, <3>3, <3>4, AnswerAssumption DEF Progress
    <3>5. CASE line.part # 0
      BY <1>3, <2>4, <3>5 DEF Asked
    <3> QED
      BY <3>4, <3>5
  <2> QED
    BY <1>11, <2>3, <2>4, SizeEffect
<1>12. CASE TakePage
  <2>1. UNCHANGED host /\ line # None /\ line.cmd = "data" /\ line.whole
    BY <1>12 DEF TakePage, Take, Checks
  <2>2. host.next \in Nat /\ host.next > 0 /\ Session
        /\ line.file = host.file /\ line.part = host.next
    <3>1. /\ line.part \in Nat /\ line.part > 0 /\ Session
          /\ line.file = host.file /\ line.part = host.next
      <4>1. line.part \in 1 .. Pages[line.file]
        BY <1>12 DEF TakePage, WholePage
      <4>2. line \in PacketSet /\ Session /\ line.file = host.file /\ line.part = host.next
        BY <2>1 DEF SerialType
      <4>3. line.part \in Nat
        BY <4>2 DEF PacketSet
      <4> QED
        BY <4>1, <4>2, <4>3
    <3> QED
      BY <3>1
  <2>3. CASE Stop("wild write")
    BY <1>1, <2>1, <2>3 DEF Stop
  <2>4. CASE ~ Stop("wild write")
    <3>1. /\ mem' = [mem EXCEPT ![writePtr] = Content(line)] /\ InBuffer(writePtr)
          /\ writePtr' = writePtr + 1 /\ elfBuffer' = elfBuffer /\ misread' = misread
          /\ line' = None /\ reply' = "ok"
      BY <1>12, <2>4 DEF TakePage, Answer
    <3>2. Content(line) = <<host.file, host.next - 1>>
      BY <2>1, <2>2 DEF Content
    <3>3. Got(host.file, host.next) => Got(host.file, host.next + 1)'
      <4> SUFFICES ASSUME Got(host.file, host.next)
                   PROVE  Got(host.file, host.next + 1)'
        OBVIOUS
      <4> DEFINE f == host.file
                 n == host.next
      <4>1. Got(f, n) /\ n \in Nat /\ n > 0
        BY <2>2
      <4>2. mem' = [mem EXCEPT ![writePtr] = <<f, n - 1>>]
        BY <3>1, <3>2
      <4>3. f' = f /\ n' = n
        BY <2>1
      <4> HIDE DEF f, n
      <4>4. \A g, k : g = f /\ k = n => Got(g, k + 1)'
        <5> TAKE g, k
        <5> HAVE g = f /\ k = n
        <5> QED
          BY <3>1, <4>1, <4>2, PageGot
      <4> QED
        BY <2>1, <4>4 DEF f, n
    <3> QED
      BY <2>1, <3>1, <3>3, AnswerAssumption DEF Progress
  <2> QED
    BY <2>3, <2>4
<1>13. CASE TakeLast
  <2>1. UNCHANGED host /\ line # None /\ ~ WholePage(line)
    BY <1>13 DEF TakeLast, Take
  <2>2. Session /\ line.file = host.file /\ line.part = host.next
    BY <2>1 DEF SerialType
  <2>4. /\ line' = None
        /\ \/ UNCHANGED <<receiver, reply>>
           \/ reply' = "ok" /\ misread' = (misread \/ line.part = 0)
    BY <1>13, Zenon DEF TakeLast, Stop, Answer
  <2>5. CASE UNCHANGED <<receiver, reply>>
    BY <1>1, <2>1, <2>4, <2>5
  <2>7. CASE ~ UNCHANGED <<receiver, reply>> /\ line.part = 0
    BY <1>3, <2>4, <2>7
  <2>6. CASE reply' = "ok" /\ line.part # 0
    <3>0. host.next = LastPacket(host.file)
      BY <2>1, <2>2, <2>6, PartFacts DEF WholePage, Session
    <3>1. ~ (host'.next < LastPacket(host'.file))
      BY <2>1, <2>2, <3>0, PartFacts DEF Session
    <3> QED
      BY <2>4, <2>6, <3>1, AnswerAssumption DEF Progress
  <2> QED
    BY <2>4, <2>5, <2>6, <2>7
<1>14. ASSUME NEW p \in 1 .. Len(m.spaces), CallCreateThread(p) \/ CallSetBreak(p)
       PROVE  Progress'
  BY <1>1, <1>14 DEF CallCreateThread, CallSetBreak, serial
<1>15. CASE NewKthread
  BY <1>1, <1>15 DEF NewKthread, serial
<1>16. CASE UNCHANGED vars
  BY <1>1, <1>16 DEF vars, serial
<1> QED
  BY <1>4, <1>5, <1>6, <1>7, <1>8, <1>9, <1>10, <1>10a, <1>11, <1>12, <1>13, <1>14,
     <1>15, <1>16 DEF Next

(* What a step may change of a memory in order leaves an image its pages. *)
LEMMA ImageKept ==
  ASSUME MemoryInv, MemoryInv', Kept(m, m'), Len(m'.spaces) >= Len(m.spaces),
         NEW p \in 1 .. Len(m.spaces), NEW f \in Files,
         ~ (m'.spaces[p].heapE > VAddr[f]),
         m.spaces[p].heapE > VAddr[f] \/ ImageHolds(m, mem, f, p),
         \A g \in Frames : g \notin m.free \union Held => mem'[g] = mem[g]
  PROVE  ImageHolds(m', mem', f, p)
<1>1. InOrder(m, Held) /\ InOrder(m', Held') /\ FramesTaken(m, Held)
  BY DEF MemoryInv, MemoryOk, InOrder
<1>2. m.spaces[p].heapE \in Nat /\ m'.spaces[p].heapE \in Nat
  <2>1. Len(m.spaces) \in Nat /\ Len(m'.spaces) \in Nat
    BY <1>1, InOrderBasic DEF Basic
  <2>2. p \in 1 .. Len(m'.spaces)
    BY <2>1
  <2> QED
    BY <1>1, <2>2, SpaceTypes
<1>3. VAddr[f] \in Nat
  BY ImageFacts
<1>4. m.spaces[p].heapE <= m'.spaces[p].heapE
  BY DEF Kept
<1>5. ImageHolds(m, mem, f, p)
  BY <1>2, <1>3, <1>4
<1> SUFFICES ASSUME NEW j \in 0 .. SegPages[f] - 1
             PROVE  LET frame == Translate(m', p, VAddr[f] + j)
                    IN  frame # None /\ mem'[frame] = <<f, Offset[f] + j>>
  BY DEF ImageHolds
<1> DEFINE v == VAddr[f] + j
           g == Translate(m, p, v)
<1>6. v \in User /\ VAddr[f] <= v
  <2>1. SegPages[f] \in Nat /\ KernelStart \in Nat /\ VAddr[f] \in Nat
    BY SegFacts, LastPage, ImageFacts
  <2>2. SegPages[f] <= Size[ElfOrder(f)] /\ Size[ElfOrder(f)] \in Nat
    BY SegFacts, ImageFacts
  <2>3. VAddr[f] + Size[ElfOrder(f)] < KernelStart
    BY <2>1, <2>2, ImageFacts
  <2>4. j \in Nat /\ j < SegPages[f]
    BY <2>1
  <2>5. v \in Nat /\ v < KernelStart /\ VAddr[f] <= v
    BY <2>1, <2>2, <2>3, <2>4
  <2> HIDE DEF v
  <2> QED
    BY <2>1, <2>5 DEF User
<1>7. g # None /\ mem[g] = <<f, Offset[f] + j>>
  BY <1>5 DEF ImageHolds
<1> HIDE DEF v
<1>8. Translate(m', p, v) = g
  <2>1. PageKept(m, m', p, v)
    BY <1>6, <1>7 DEF Kept
  <2>2. ~ (m.spaces[p].heapE <= v /\ v < m'.spaces[p].heapE)
    BY <1>2, <1>3, <1>6 DEF User
  <2>3. ~ (m'.spaces[p].stackE <= v /\ v < m.spaces[p].heapE)
    BY <1>2, <1>3, <1>4, <1>6 DEF User
  <2> QED
    BY <2>1, <2>2, <2>3 DEF PageKept
<1>9. g \in Frames /\ g \notin m.free \union Held
  <2>1. g = FrameAt(m, p, EntryOf(v)) /\ EntryOf(v) \in Places
    BY <1>6, EntryFacts, TranslateIsEntry
  <2> QED
    BY <1>1, <1>7, <2>1 DEF FramesTaken
<1>10. mem'[g] = mem[g]
  BY <1>9
<1> QED
  BY <1>7, <1>8, <1>10 DEF v

(* A program that was started finds its file in its image. *)
LEMMA NewImage ==
  ASSUME MemoryInv, SerialType, BufferType, Progress, ~ misread, TakeLast,
         line.part # 0, NEW f \in Files, Started(f)
  PROVE  line.file = f /\ ImageHolds(m', mem', f, Len(m.spaces) + 1)
<1> DEFINE h == line.file
           bin == FirstFit(m, ElfOrder(f))
<1>1. line # None /\ line.whole /\ ~ WholePage(line) /\ line.cmd = "data"
  BY DEF TakeLast, Take, Checks
<1>2. Session /\ h = host.file /\ line.part = host.next /\ h \in Files
  BY <1>1 DEF SerialType, Session
<1>3. line.part = Pages[h] + 1 /\ Pages[h] \in Nat \ {0}
  BY <1>1, <1>2, PartFacts DEF WholePage, Session
<1>4. /\ elfBuffer # None /\ writePtr = elfBuffer + Pages[h]
      /\ \A j \in 0 .. Pages[h] - 1 :
           elfBuffer + j \in Frames /\ mem[elfBuffer + j] = <<h, j>>
  <2>1. Got(h, Pages[h] + 1)
    BY <1>1, <1>2, <1>3 DEF Progress
  <2> HIDE DEF h
  <2>2. (Pages[h] + 1) - 1 = Pages[h] /\ (Pages[h] + 1) - 2 = Pages[h] - 1
        /\ Pages[h] + 1 > 0
    BY <1>3
  <2> QED
    BY <2>1, <2>2 DEF Got
<1>5. elfBuffer \in Nat
  BY <1>4 DEF BufferType
<1>6. /\ TailFits /\ Header = <<f, 0>> /\ mem' = Copied(f, Received)
      /\ LoadOkEffect(m, m', f, bin, threads)
  BY DEF Started
<1>7. HoldsTail(line) => Received[writePtr] = <<h, Pages[h]>>
  <2>1. Content(line) = <<h, Pages[h]>>
    BY <1>1, <1>3 DEF Content
  <2> QED
    BY <1>6, <2>1, TailHeld
<1>8. \A j \in 0 .. Pages[h] - 1 : Received[elfBuffer + j] = <<h, j>>
  <2>1. ASSUME NEW j \in 0 .. Pages[h] - 1
        PROVE  Received[elfBuffer + j] = mem[elfBuffer + j]
    <3>1. elfBuffer + j # writePtr
      BY <1>3, <1>4, <1>5
    <3> QED
      BY <3>1 DEF Received
  <2> QED
    BY <1>4, <2>1
<1>9. h = f
  <2>1. 0 \in 0 .. Pages[h] - 1 /\ elfBuffer + 0 = elfBuffer
    BY <1>3, <1>5
  <2>2. Header = <<h, 0>>
    BY <1>8, <2>1 DEF Header
  <2> QED
    BY <1>6, <2>2
<1>10. \A j \in 0 .. Parts(f) - 1 : Received[elfBuffer + j] = <<f, j>>
  <2> TAKE j \in 0 .. Parts(f) - 1
  <2>1. CASE j \in 0 .. Pages[f] - 1
    BY <1>8, <1>9, <2>1
  <2>2. CASE j \notin 0 .. Pages[f] - 1
    <3>1. j = Pages[f] /\ f \in HasTail
      BY <2>2, PartFacts
    <3> QED
      BY <1>4, <1>7, <1>9, <3>1 DEF HoldsTail
  <2> QED
    BY <2>1, <2>2
<1> HIDE DEF bin
<1>11. /\ bin \in Nat /\ BlockOf(bin, ElfOrder(f)) \subseteq Frames
       /\ \A v \in Image(f) : Translate(m', Len(m.spaces) + 1, v) = bin + (v - VAddr[f])
  <2>1. m.free \subseteq Frames
    BY InOrderBasic DEF MemoryInv, MemoryOk, Basic
  <2> QED
    BY <1>6, <2>1, FramesAssumption DEF LoadOkEffect
<1>14. \A j \in 0 .. Parts(f) - 1 : elfBuffer + j \in Frames
  <2> TAKE j \in 0 .. Parts(f) - 1
  <2>1. CASE j \in 0 .. Pages[f] - 1
    BY <1>4, <1>9, <2>1
  <2>2. CASE j \notin 0 .. Pages[f] - 1
    <3>1. j = Pages[f] /\ f \in HasTail
      BY <2>2, PartFacts
    <3>2. HoldsTail(line) => writePtr \in Frames
      BY <1>6, TailHeld
    <3> QED
      BY <1>4, <1>9, <3>1, <3>2 DEF HoldsTail
  <2> QED
    BY <2>1, <2>2
<1>12. /\ SegPages[f] \in Nat /\ SegPages[f] <= Size[ElfOrder(f)] /\ VAddr[f] \in Nat
       /\ Size[ElfOrder(f)] \in Nat /\ Offset[f] \in Nat
  BY SegFacts, ImageFacts
<1>13. ASSUME NEW j \in 0 .. SegPages[f] - 1
       PROVE  LET frame == Translate(m', Len(m.spaces) + 1, VAddr[f] + j)
              IN  frame # None /\ mem'[frame] = <<f, Offset[f] + j>>
  <2>0. Offset[f] + j \in 0 .. Parts(f) - 1
    BY SegFacts
  <2>1. VAddr[f] + j \in Image(f) /\ (VAddr[f] + j) - VAddr[f] = j
    BY <1>12 DEF Image
  <2>2. Translate(m', Len(m.spaces) + 1, VAddr[f] + j) = bin + j
    BY <1>11, <2>1
  <2>3. bin + j \in BlockOf(bin, ElfOrder(f)) /\ bin + j \in bin .. bin + SegPages[f] - 1
        /\ elfBuffer + Offset[f] + (bin + j) - bin = elfBuffer + (Offset[f] + j)
    <3> DEFINE o == Offset[f]
               z == Size[ElfOrder(f)]
               c == SegPages[f]
    <3>1. /\ bin \in Nat /\ elfBuffer \in Nat /\ o \in Nat /\ z \in Nat /\ c \in Nat
          /\ c <= z /\ j \in 0 .. c - 1
      BY <1>5, <1>11, <1>12
    <3> HIDE DEF o, z, c
    <3>2. bin + j \in bin .. bin + z - 1 /\ bin + j \in bin .. bin + c - 1
      BY <3>1
    <3>3. elfBuffer + o + (bin + j) - bin = elfBuffer + (o + j)
      BY <3>1
    <3> QED
      BY <3>2, <3>3 DEF BlockOf, o, z, c
  <2>4. bin + j \in Frames
    BY <1>11, <2>3
  <2>5. mem'[bin + j] = Received[elfBuffer + Offset[f] + (bin + j) - bin]
    <3> DEFINE at(k) == elfBuffer + Offset[f] + k - bin
    <3>1. mem' = [k \in Frames |-> IF k \in bin .. bin + SegPages[f] - 1 /\ at(k) \in Frames
                                     THEN Received[at(k)] ELSE Received[k]]
      BY <1>6 DEF Copied, bin
    <3>2. at(bin + j) \in Frames
      BY <1>14, <2>0, <2>3
    <3> HIDE DEF at
    <3>3. mem'[bin + j] = Received[at(bin + j)]
      BY <2>3, <2>4, <3>1, <3>2
    <3> QED
      BY <3>3 DEF at
  <2>6. bin + j # None
    BY <2>4, FramesAssumption
  <2> QED
    BY <1>10, <2>0, <2>2, <2>3, <2>5, <2>6
<1> QED
  BY <1>9, <1>13 DEF ImageHolds

(* The images hold what was sent. *)
LEMMA ImagesNext == MemoryInv /\ FileInv /\ [Next]_vars => ImagesHold'
<1> SUFFICES ASSUME MemoryInv, FileInv, [Next]_vars PROVE ImagesHold'
  OBVIOUS
<1>1. /\ MemoryInv' /\ Kept(m, m') /\ (Len(m'.spaces) = Len(m.spaces) \/ TakeLast)
  BY MemoryNext DEF MemoryStep
<1>2. SerialType /\ BufferType /\ Progress /\ ImagesHold /\ BufferType'
  BY BufferNext DEF FileInv
<1>3. sent \in Seq(Files) /\ Len(sent) = Len(m.spaces)
  BY <1>2 DEF BufferType
<1>4. ASSUME sent' = sent, misread => misread', Len(m'.spaces) = Len(m.spaces),
             \A g \in Frames : g \notin m.free \union Held => mem'[g] = mem[g]
      PROVE  ImagesHold'
  <2> SUFFICES ASSUME NEW p \in 1 .. Len(sent), ~ misread',
                      ~ (m'.spaces[p].heapE > VAddr[sent[p]])
               PROVE  ImageHolds(m', mem', sent[p], p)
    BY <1>4 DEF ImagesHold
  <2>1. sent[p] \in Files /\ p \in 1 .. Len(m.spaces)
    BY <1>3
  <2>2. m.spaces[p].heapE > VAddr[sent[p]] \/ ImageHolds(m, mem, sent[p], p)
    BY <1>2, <1>4 DEF ImagesHold
  <2>3. Len(m'.spaces) >= Len(m.spaces)
    BY <1>3, <1>4
  <2> QED
    BY <1>1, <1>4, <2>1, <2>2, <2>3, ImageKept
<1>5. CASE ~ TakeLast
  <2>1. Len(m'.spaces) = Len(m.spaces)
    BY <1>1, <1>5
  <2>2. ASSUME UNCHANGED <<mem, sent>>, misread => misread' PROVE ImagesHold'
    BY <1>4, <2>1, <2>2
  <2>3. CASE TakeSize
    <3>1. CASE UNCHANGED <<m, receiver, reply>>
      BY <2>2, <3>1 DEF receiver
    <3>2. ASSUME NEW order, Asked(order) PROVE ImagesHold'
      <4>1. UNCHANGED <<mem, sent>> /\ (misread => misread')
        BY <3>2 DEF Asked
      <4> QED
        BY <2>2, <4>1
    <3> QED
      BY <2>3, <3>1, <3>2, SizeEffect
  <2>4. CASE TakePage
    <3>1. CASE Stop("wild write")
      BY <2>2, <3>1 DEF Stop, receiver
    <3>2. CASE ~ Stop("wild write")
      <4>1. /\ mem' = [mem EXCEPT ![writePtr] = Content(line)] /\ InBuffer(writePtr)
            /\ UNCHANGED <<sent, misread>>
        BY <2>4, <3>2 DEF TakePage
      <4>2. writePtr \in Held
        BY <1>2, <4>1, WritesHeld
      <4>3. \A g \in Frames : g \notin m.free \union Held => mem'[g] = mem[g]
        BY <1>2, <4>1, <4>2 DEF BufferType
      <4> QED
        BY <1>4, <2>1, <4>1, <4>3
    <3> QED
      BY <3>1, <3>2
  <2>5. ASSUME NEW f \in Files, StartFile(f) PROVE ImagesHold'
    BY <2>2, <2>5 DEF StartFile, receiver
  <2>6. CASE \/ TakeOk \/ TakeError \/ TimeOut \/ Damage \/ DamageAnswer \/ Lose \/ Refuse
             \/ TakeOther \/ TakeReset \/ NewKthread
    BY <2>2, <2>6 DEF TakeOk, TakeError, TimeOut, Damage, DamageAnswer, Lose, Refuse,
       TakeOther, TakeReset, Stop, NewKthread, receiver
  <2>7. ASSUME NEW p \in 1 .. Len(m.spaces), CallCreateThread(p) \/ CallSetBreak(p)
        PROVE  ImagesHold'
    BY <2>2, <2>7 DEF CallCreateThread, CallSetBreak, receiver
  <2>8. CASE UNCHANGED vars
    BY <2>2, <2>8 DEF vars, receiver
  <2> QED
    BY <1>5, <2>3, <2>4, <2>5, <2>6, <2>7, <2>8 DEF Next
<1>6. CASE TakeLast
  <2>1. CASE UNCHANGED <<m, receiver>>
    <3>1. UNCHANGED <<m, mem, sent, misread>>
      BY <2>1 DEF receiver
    <3> QED
      BY <1>4, <3>1
  <2>2. ASSUME NEW f \in Files, Started(f) PROVE ImagesHold'
    <3>1. /\ TailFits /\ mem' = Copied(f, Received) /\ sent' = Append(sent, line.file)
          /\ LoadOkEffect(m, m', f, FirstFit(m, ElfOrder(f)), threads)
      BY <2>2 DEF Started
    <3>2. Len(m'.spaces) = Len(m.spaces) + 1
          /\ BlockOf(FirstFit(m, ElfOrder(f)), ElfOrder(f)) \subseteq m.free
      BY <3>1 DEF LoadOkEffect
    <3>0. \/ UNCHANGED <<m, misread>>
          \/ misread' = (misread \/ line.part = 0)
      BY <1>6, Zenon DEF TakeLast, Stop, receiver
    <3>9. misread' = (misread \/ line.part = 0)
      <4>1. Len(m'.spaces) = Len(m.spaces) + 1 /\ Len(m.spaces) \in Nat
        BY <1>3, <3>1 DEF LoadOkEffect
      <4>2. m' # m
        BY <4>1
      <4> QED
        BY <3>0, <4>2
    <3>3. misread => misread'
      BY <3>9
    <3>4. line.file \in Files
      BY <1>2, <1>6 DEF TakeLast, Take, SerialType, Session
    <3>5. /\ Len(sent') = Len(sent) + 1 /\ sent'[Len(sent) + 1] = line.file
          /\ \A p \in 1 .. Len(sent) : sent'[p] = sent[p]
          /\ Len(sent) \in Nat
      BY <1>3, <3>1, <3>4
    <3>6. \A g \in Frames : g \notin m.free \union Held => mem'[g] = mem[g]
      <4> TAKE g \in Frames
      <4> HAVE g \notin m.free \union Held
      <4> DEFINE bin == FirstFit(m, ElfOrder(f))
      <4>1. Received[g] = mem[g]
        BY <1>2, <3>1, TailHeld
      <4>2. bin .. bin + SegPages[f] - 1 \subseteq BlockOf(bin, ElfOrder(f))
        <5>1. bin \in Nat /\ SegPages[f] \in Nat /\ SegPages[f] <= Size[ElfOrder(f)]
              /\ Size[ElfOrder(f)] \in Nat
          BY OrderFrame, SegFacts, ImageFacts
        <5> HIDE DEF bin
        <5> QED
          BY <5>1 DEF BlockOf
      <4> DEFINE at(k) == elfBuffer + Offset[f] + k - bin
      <4>3. g \notin bin .. bin + SegPages[f] - 1
        BY <3>2, <4>2
      <4>4. mem' = [k \in Frames |-> IF k \in bin .. bin + SegPages[f] - 1 /\ at(k) \in Frames
                                     THEN Received[at(k)] ELSE Received[k]]
        BY <3>1 DEF Copied
      <4> HIDE DEF at
      <4> HIDE DEF bin
      <4> QED
        BY <4>1, <4>3, <4>4
    <3> SUFFICES ASSUME NEW p \in 1 .. Len(sent'), ~ misread',
                        ~ (m'.spaces[p].heapE > VAddr[sent'[p]])
                 PROVE  ImageHolds(m', mem', sent'[p], p)
      BY DEF ImagesHold
    <3>10. ~ misread /\ line.part # 0
      BY <3>9
    <3>7. CASE p \in 1 .. Len(sent)
      <4>1. sent'[p] = sent[p] /\ sent[p] \in Files /\ p \in 1 .. Len(m.spaces)
        BY <1>3, <3>5, <3>7
      <4>2. m.spaces[p].heapE > VAddr[sent[p]] \/ ImageHolds(m, mem, sent[p], p)
        BY <1>2, <3>7, <3>10 DEF ImagesHold
      <4>3. Len(m'.spaces) >= Len(m.spaces)
        BY <1>3, <3>2, <3>5
      <4> QED
        BY <1>1, <3>6, <4>1, <4>2, <4>3, ImageKept
    <3>8. CASE p \notin 1 .. Len(sent)
      <4>1. p = Len(sent) + 1
        BY <3>5, <3>8
      <4>2. line.file = f /\ ImageHolds(m', mem', f, Len(m.spaces) + 1)
        BY <1>2, <1>6, <2>2, <3>10, NewImage
      <4> QED
        BY <1>3, <3>5, <4>1, <4>2
    <3> QED
      BY <3>7, <3>8
  <2> QED
    BY <1>2, <1>6, <2>1, <2>2, LastEffect
<1> QED
  BY <1>5, <1>6

(* An image is the file that was sent: the packets process_packet accepts  *)
(* and handle_packet copies to write_ptr are those of one file in order,   *)
(* elf_init maps the buffer that holds them, and no later file, stack or   *)
(* system call writes to it or maps something else in its place.           *)
THEOREM ImageIsTheFile == Spec => []ImageIsFile
<1>1. Init => MemoryInv /\ FileInv
  BY MemoryInit, FileInit
<1>2. MemoryInv /\ FileInv /\ [Next]_vars => (MemoryInv /\ FileInv)'
  BY MemoryNext, SerialNext, BufferNext, ProgressNext, ImagesNext DEF FileInv, MemoryStep
<1>3. MemoryInv /\ FileInv => ImageIsFile
  <2> SUFFICES ASSUME MemoryInv, FileInv PROVE ImageIsFile
    OBVIOUS
  <2>1. TypeOK
    <3>1. m.free \subseteq Frames
      BY InOrderBasic DEF MemoryInv, MemoryOk, Basic
    <3> QED
      BY <3>1 DEF FileInv, SerialType, BufferType, Session, TypeOK
  <2> QED
    BY <2>1 DEF FileInv, ImagesHold, ImageHolds, ImageIsFile
<1> QED
  BY <1>1, <1>2, <1>3, PTL DEF Spec
=============================================================================
