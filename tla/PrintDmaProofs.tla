--------------------------- MODULE PrintDmaProofs ---------------------------
(***************************************************************************)
(* Proofs about PrintDma, for any threads that print any messages: until a *)
(* thread comes into another one's flush_buffer, no request is made to a   *)
(* channel that is busy and no length is lost.                             *)
(***************************************************************************)
EXTENDS PrintDma, TLAPS

Cells == {Blank} \union (Printers \X Nat \X Nat)

(* The types of what TypeOK leaves out. *)
TypeLocal ==
  /\ cnt \in [Printers -> Nat]
  /\ messages \in [Printers -> Nat]
  /\ sent \in Seq(Cells)
  /\ printed \in Seq(Printers \X Nat \X Nat)

(* The interrupt comes when the channel has been disabled, and dma_done    *)
(* says that neither is to come.                                           *)
ChannelState ==
  /\ dma.enabled => ~irq /\ dma.pos <= dma.len
  /\ dmaDone => ~dma.enabled /\ ~irq

(* From the first line of flush_buffer on, nobody else finds dma_done set, *)
(* and the length in the request is the one that is cleared later.         *)
FlushState ==
  \A p \in Printers :
    /\ at[p] \in Flushing \ {"flush"} => ~dmaDone
    /\ at[p] \in Counting => req[p][2] = currLen

Idle == \A p \in Printers : at[p] \in Flushing => ~dma.enabled /\ ~irq
Alone == \A p \in Printers : at[p] \in Flushing => ~OtherAt(p, Flushing)
Kept == Len(printed) = Len(sent) + currLen + Coming + Running

(* What holds until the threads come into each other's flush_buffer.       *)
Apart == ChannelState /\ FlushState /\ Idle /\ Alone /\ Kept

PrintInv == TypeOK /\ TypeLocal /\ (~raced => Apart)

-----------------------------------------------------------------------------
(* What the printers have to send is the length in the one request, and    *)
(* nothing if nobody has a request ready.                                  *)
LEMMA ComingOfOne ==
  ASSUME NEW p \in Printers, at[p] = "submit", Alone
  PROVE  Coming = req[p][2]
<1>1. \A q \in Printers \ {p} : at[q] # "submit"
  BY DEF Alone, OtherAt, Flushing
<1>2. Submitting = {p}
  BY <1>1 DEF Submitting
<1> QED
  BY <1>2 DEF Coming

LEMMA ComingOfNone ==
  ASSUME \A q \in Printers : at[q] # "submit"
  PROVE  Coming = 0
<1>1. Submitting = {}
  BY DEF Submitting
<1> QED
  BY <1>1 DEF Coming

(* It is a number, and changes only with the requests that are ready.      *)
LEMMA ComingTyped == TypeOK => Coming \in Nat
<1> SUFFICES ASSUME TypeOK PROVE Coming \in Nat
  OBVIOUS
<1>1. CASE Submitting = {}
  BY <1>1 DEF Coming
<1>2. CASE Submitting # {}
  <2>1. (CHOOSE p \in Submitting : TRUE) \in Submitting
    BY <1>2
  <2>2. PICK r : r = CHOOSE p \in Submitting : TRUE
    OBVIOUS
  <2>3. r \in Printers
    BY <2>1, <2>2 DEF Submitting
  <2>4. req[r][2] \in Nat
    BY <2>3 DEF TypeOK
  <2> QED
    BY <1>2, <2>2, <2>4 DEF Coming
<1> QED
  BY <1>1, <1>2

LEMMA ComingStays ==
  ASSUME \A q \in Printers : at'[q] = "submit" <=> at[q] = "submit",
         \A q \in Printers : at[q] = "submit" => req'[q] = req[q]
  PROVE  Coming' = Coming
<1>1. Submitting' = Submitting
  BY DEF Submitting
<1>2. Coming' = IF Submitting' = {} THEN 0
                ELSE req'[CHOOSE q \in Submitting' : TRUE][2]
  BY DEF Coming
<1>3. CASE Submitting = {}
  BY <1>1, <1>2, <1>3 DEF Coming
<1>4. CASE Submitting # {}
  <2>1. PICK r : r = CHOOSE q \in Submitting : TRUE
    OBVIOUS
  <2>2. r \in Submitting
    BY <1>4, <2>1
  <2>3. req'[r] = req[r]
    BY <2>2 DEF Submitting
  <2>4. Coming' = req'[r][2] /\ Coming = req[r][2]
    BY <1>1, <1>2, <1>4, <2>1 DEF Coming
  <2> QED
    BY <2>3, <2>4
<1> QED
  BY <1>3, <1>4

(* vsprint's cells and what a buffer holds with them are sequences.        *)
LEMMA MessageCells ==
  ASSUME TypeLocal, NEW p \in Printers, NEW n \in Nat
  PROVE  Message(p, n) \in Seq(Printers \X Nat \X Nat) /\ Len(Message(p, n)) = n
BY DEF TypeLocal, Message

LEMMA WrittenCells ==
  ASSUME NEW s \in Seq(Cells), NEW m \in Seq(Cells), NEW o \in Nat
  PROVE  Written(s, o, m) \in Seq(Cells)
<1>1. Len(s) \in Nat /\ Len(m) \in Nat
  OBVIOUS
<1>2. Blank \in Cells
  BY DEF Cells
<1> DEFINE N == IF Len(s) > o + Len(m) THEN Len(s) ELSE o + Len(m)
<1>3. N \in Nat
  BY <1>1
<1> DEFINE cell(i) == IF i > o /\ i <= o + Len(m) THEN m[i - o]
                      ELSE IF i <= Len(s) THEN s[i] ELSE Blank
<1>4. ASSUME NEW i \in 1 .. N PROVE cell(i) \in Cells
  <2>1. CASE i > o /\ i <= o + Len(m)
    <3>1. i - o \in 1 .. Len(m)
      BY <1>1, <1>3, <1>4, <2>1
    <3> QED
      BY <2>1, <3>1
  <2>2. CASE ~(i > o /\ i <= o + Len(m)) /\ i <= Len(s)
    <3>1. i \in 1 .. Len(s)
      BY <1>1, <1>3, <1>4, <2>2
    <3> QED
      BY <2>2, <3>1
  <2> QED
    BY <1>2, <2>1, <2>2
<1>5. Written(s, o, m) = [i \in 1 .. N |-> cell(i)]
  BY DEF Written
<1> HIDE DEF N, cell
<1> QED
  BY <1>3, <1>4, <1>5

-----------------------------------------------------------------------------
LEMMA InitPrint == Init => PrintInv
<1> SUFFICES ASSUME Init PROVE PrintInv
  OBVIOUS
<1> USE DEF Init
<1>1. TypeOK
  <2>1. text \in [Bufs -> Seq({Blank} \union (Printers \X Nat \X Nat))]
    OBVIOUS
  <2>2. currBuf \in Bufs /\ dmaBuf \in Bufs /\ currLen \in Nat /\ dmaDone \in BOOLEAN
    BY DEF Bufs
  <2>3. irq \in BOOLEAN /\ dma \in [src : Bufs, len : Nat, pos : Nat, enabled : BOOLEAN]
    BY DEF Bufs
  <2>4. /\ addr \in [Printers -> Bufs \X Nat] /\ req \in [Printers -> Bufs \X Nat]
        /\ at \in [Printers -> {"idle", "offset", "format", "update", "check"}
                                 \union Flushing]
        /\ raced \in BOOLEAN
    BY DEF Bufs
  <2> QED
    BY <2>1, <2>2, <2>3, <2>4 DEF TypeOK
<1>2. TypeLocal
  BY DEF TypeLocal
<1>3. ChannelState /\ FlushState /\ Idle /\ Alone
  BY DEF ChannelState, FlushState, Idle, Alone, OtherAt, Flushing, Counting
<1>4. Coming = 0
  BY ComingOfNone
<1>5. Kept
  BY <1>4 DEF Kept, Running
<1> QED
  BY <1>1, <1>2, <1>3, <1>5 DEF PrintInv, Apart

(* The types of all that a step changes.                                   *)
LEMMA PrintTyped ==
  ASSUME TypeOK, TypeLocal, PrintAssumption, Next
  PROVE  TypeOK' /\ TypeLocal'
<1> USE DEF TypeOK, TypeLocal, shared, channel, local, vars
<1>1. ASSUME NEW p \in Printers, PrintCall(p) \/ PrintOffset(p)
      PROVE  TypeOK' /\ TypeLocal'
  <2>1. addr[p] \in Bufs \X Nat
    OBVIOUS
  <2>2. CASE PrintCall(p)
    <3>1. addr' = [addr EXCEPT ![p] = <<currBuf, addr[p][2]>>]
      BY <2>1, <2>2 DEF PrintCall
    <3>2. addr' \in [Printers -> Bufs \X Nat]
      BY <2>1, <3>1
    <3> QED
      BY <2>2, <3>2 DEF PrintCall, Step
  <2>3. CASE PrintOffset(p)
    <3>1. addr' = [addr EXCEPT ![p] = <<addr[p][1], currLen>>]
      BY <2>1, <2>3 DEF PrintOffset
    <3>2. addr' \in [Printers -> Bufs \X Nat]
      BY <2>1, <3>1
    <3> QED
      BY <2>3, <3>2 DEF PrintOffset, Step
  <2> QED
    BY <1>1, <2>2, <2>3
<1>2. ASSUME NEW p \in Printers, Format(p) PROVE TypeOK' /\ TypeLocal'
  <2>1. PICK n \in Lengths :
          /\ Step(p, "format", "update")
          /\ text' = [text EXCEPT ![addr[p][1]] =
                        Written(@, addr[p][2], Message(p, n))]
          /\ cnt' = [cnt EXCEPT ![p] = n]
          /\ UNCHANGED <<currBuf, currLen, dmaBuf, dmaDone, channel, addr, req,
                         messages, printed, raced>>
    BY <1>2 DEF Format
  <2>2. n \in Nat
    BY PrintAssumption DEF PrintAssumption
  <2>3. addr[p][1] \in Bufs /\ addr[p][2] \in Nat
    OBVIOUS
  <2>4. Message(p, n) \in Seq(Cells)
    BY <2>2, MessageCells DEF Cells
  <2>5. text[addr[p][1]] \in Seq(Cells)
    BY <2>3 DEF Cells
  <2>6. Written(text[addr[p][1]], addr[p][2], Message(p, n)) \in Seq(Cells)
    BY <2>3, <2>4, <2>5, WrittenCells
  <2>7. text' \in [Bufs -> Seq(Cells)]
    BY <2>1, <2>6 DEF Cells
  <2> QED
    BY <2>1, <2>2, <2>7 DEF Step, Cells
<1>3. ASSUME NEW p \in Printers, Update(p) PROVE TypeOK' /\ TypeLocal'
  <2>1. cnt[p] \in Nat
    OBVIOUS
  <2>2. Message(p, cnt[p]) \in Seq(Printers \X Nat \X Nat)
    BY <2>1, MessageCells
  <2>3. printed' \in Seq(Printers \X Nat \X Nat) /\ UNCHANGED <<sent, cnt>>
    BY <1>3, <2>2 DEF Update
  <2>4. currLen' \in Nat
    <3>1. currLen \in Nat /\ currLen' = currLen + cnt[p]
      BY <1>3 DEF Update
    <3>2. \A x, y \in Nat : x + y \in Nat
      OBVIOUS
    <3>3. currLen + cnt[p] \in Nat
      BY <2>1, <3>1, <3>2
    <3> QED
      BY <3>1, <3>3
  <2>5. messages' \in [Printers -> Nat]
    <3>1. messages[p] \in Nat /\ messages' = [messages EXCEPT ![p] = messages[p] + 1]
      BY <1>3 DEF Update
    <3>2. messages[p] + 1 \in Nat
      BY <3>1
    <3> QED
      BY <3>1, <3>2
  <2>6. at' = [at EXCEPT ![p] = "check"] /\ raced' \in BOOLEAN
    BY <1>3 DEF Update, Step, OtherAt
  <2> QED
    BY <1>3, <2>3, <2>4, <2>5, <2>6 DEF Update
<1>4. ASSUME NEW p \in Printers, Check(p) PROVE TypeOK' /\ TypeLocal'
  <2>1. at' = [at EXCEPT ![p] = "flush"] \/ at' = [at EXCEPT ![p] = "idle"]
    BY <1>4 DEF Check, Step
  <2>2. at' \in [Printers -> {"idle", "offset", "format", "update", "check"}
                             \union Flushing]
    BY <2>1 DEF Flushing
  <2>3. UNCHANGED <<text, currBuf, currLen, dmaBuf, dmaDone, dma, irq, sent, addr,
                    cnt, req, messages, printed>> /\ raced' \in BOOLEAN
    BY <1>4 DEF Check, OtherAt
  <2> QED
    BY <2>2, <2>3
<1>5. ASSUME NEW p \in Printers, FlushBusy(p) \/ FlushSource(p) \/ FlushLength(p)
             \/ FlushSwap(p) \/ FlushClear(p)
      PROVE  TypeOK' /\ TypeLocal'
  <2>1. CASE FlushBusy(p)
    BY <2>1 DEF FlushBusy, Step, Flushing
  <2>2. CASE FlushSource(p)
    <3>1. req[p] \in Bufs \X Nat
      OBVIOUS
    <3>2. req' = [req EXCEPT ![p] = <<currBuf, req[p][2]>>]
      BY <2>2, <3>1 DEF FlushSource
    <3>3. req' \in [Printers -> Bufs \X Nat]
      BY <3>1, <3>2
    <3> QED
      BY <2>2, <3>3 DEF FlushSource, Step, Flushing
  <2>3. CASE FlushLength(p)
    <3>1. req[p] \in Bufs \X Nat
      OBVIOUS
    <3>2. req' = [req EXCEPT ![p] = <<req[p][1], currLen>>]
      BY <2>3, <3>1 DEF FlushLength
    <3>3. req' \in [Printers -> Bufs \X Nat]
      BY <3>1, <3>2
    <3> QED
      BY <2>3, <3>3 DEF FlushLength, Step, Flushing
  <2>4. CASE FlushSwap(p)
    BY <2>4 DEF FlushSwap, Step, Flushing
  <2>5. CASE FlushClear(p)
    BY <2>5 DEF FlushClear, Step, Flushing
  <2> QED
    BY <1>5, <2>1, <2>2, <2>3, <2>4, <2>5
<1>6. ASSUME NEW p \in Printers, FlushSubmit(p) PROVE TypeOK' /\ TypeLocal'
  BY <1>6 DEF FlushSubmit, Step, Started
<1>7. CASE DmaTransfer
  <2>1. (IF dma.pos < Len(text[dma.src]) THEN text[dma.src][dma.pos + 1] ELSE Blank)
          \in Cells
    <3>1. dma.src \in Bufs /\ dma.pos \in Nat
      OBVIOUS
    <3>2. text[dma.src] \in Seq(Cells)
      BY <3>1 DEF Cells
    <3>3. dma.pos < Len(text[dma.src]) => dma.pos + 1 \in 1 .. Len(text[dma.src])
      BY <3>1, <3>2
    <3> QED
      BY <3>2, <3>3 DEF Cells
  <2>2. sent' \in Seq(Cells)
    BY <1>7, <2>1 DEF DmaTransfer
  <2>3. dma' \in [src : Bufs, len : Nat, pos : Nat, enabled : BOOLEAN]
    <3>1. dma' = [src |-> dma.src, len |-> dma.len, pos |-> dma.pos + 1,
                  enabled |-> dma.pos + 1 < dma.len]
      BY <1>7 DEF DmaTransfer
    <3>2. dma.src \in Bufs /\ dma.len \in Nat /\ dma.pos + 1 \in Nat
      OBVIOUS
    <3> QED
      BY <3>1, <3>2
  <2>4. irq' \in BOOLEAN
    BY <1>7 DEF DmaTransfer
  <2> QED
    BY <1>7, <2>2, <2>3, <2>4 DEF DmaTransfer
<1>8. CASE DmaEmpty
  <2>1. dma' = [src |-> dma.src, len |-> dma.len, pos |-> dma.pos, enabled |-> FALSE]
    BY <1>8 DEF DmaEmpty
  <2>2. dma' \in [src : Bufs, len : Nat, pos : Nat, enabled : BOOLEAN]
    BY <2>1
  <2> QED
    BY <1>8, <2>2 DEF DmaEmpty
<1>9. CASE PrintDmaCallback
  <2> USE <1>9 DEF PrintDmaCallback
  <2>1. CASE currLen > 0
    <3>1. dma' = [src |-> currBuf, len |-> currLen, pos |-> 0, enabled |-> TRUE]
      BY <2>1 DEF Started
    <3>2. dma' \in [src : Bufs, len : Nat, pos : Nat, enabled : BOOLEAN]
      BY <3>1
    <3>3. currBuf' \in Bufs /\ dmaBuf' \in Bufs /\ currLen' \in Nat
      BY <2>1
    <3>4. irq' \in BOOLEAN
      OBVIOUS
    <3>5. dmaDone' \in BOOLEAN
      BY <2>1
    <3> QED
      BY <3>2, <3>3, <3>4, <3>5
  <2>2. CASE ~(currLen > 0)
    <3>1. irq' \in BOOLEAN /\ dmaDone' \in BOOLEAN
      BY <2>2
    <3>2. UNCHANGED <<dma, currBuf, dmaBuf, currLen>>
      BY <2>2
    <3> QED
      BY <3>1, <3>2
  <2> QED
    BY <2>1, <2>2
<1>10. CASE Quiet
  BY <1>10 DEF Quiet
<1> QED
  BY <1>1, <1>2, <1>3, <1>4, <1>5, <1>6, <1>7, <1>8, <1>9, <1>10 DEF Next, PrintStep

-----------------------------------------------------------------------------
(* Steps outside flush_buffer that touch neither buffer nor channel.       *)
LEMMA QuietStep ==
  ASSUME TypeOK, Apart, NEW p \in Printers,
         UNCHANGED <<currLen, dmaDone, channel, printed>>,
         \A q \in Printers \ {p} : at'[q] = at[q] /\ req'[q] = req[q],
         at'[p] \in Flushing => at[p] \in Flushing,
         at'[p] \in Flushing \ {"flush"} => at[p] \in Flushing \ {"flush"},
         at'[p] \in Counting => req'[p][2] = currLen,
         at'[p] # "submit" /\ at[p] # "submit"
  PROVE  Apart'
<1>1. Coming' = Coming
  BY ComingStays
<1>2. Alone'
  BY DEF Apart, Alone, OtherAt
<1>3. Kept'
  BY <1>1 DEF Apart, Kept, Running, channel
<1>4. ChannelState' /\ Idle'
  BY DEF Apart, ChannelState, Idle, channel
<1>5. FlushState'
  BY DEF Apart, FlushState
<1> QED
  BY <1>2, <1>3, <1>4, <1>5 DEF Apart

(* The steps of print and flush_buffer.                                    *)
LEMMA PrinterStep ==
  ASSUME TypeOK, TypeLocal, Apart, ~raced', NEW p \in Printers,
         PrintCall(p) \/ PrintStep(p)
  PROVE  Apart'
<1>1. /\ currLen \in Nat /\ cnt[p] \in Nat /\ req[p][2] \in Nat
      /\ printed \in Seq(Printers \X Nat \X Nat) /\ Len(sent) \in Nat
      /\ dma.len \in Nat /\ dma.pos \in Nat /\ Len(printed) \in Nat
  <2>1. currLen \in Nat /\ dma.len \in Nat /\ dma.pos \in Nat
    BY DEF TypeOK
  <2>2. req[p][2] \in Nat
    BY DEF TypeOK
  <2>3. cnt[p] \in Nat /\ printed \in Seq(Printers \X Nat \X Nat) /\ sent \in Seq(Cells)
    BY DEF TypeLocal
  <2>4. Len(printed) \in Nat /\ Len(sent) \in Nat
    BY <2>3
  <2> QED
    BY <2>1, <2>2, <2>3, <2>4
<1>2. /\ at \in [Printers -> {"idle", "offset", "format", "update", "check"}
                             \union Flushing]
      /\ req \in [Printers -> Bufs \X Nat]
  BY DEF TypeOK
<1>3. CASE PrintCall(p)
  <2>1. at[p] = "idle" /\ at' = [at EXCEPT ![p] = "offset"] /\ req' = req
    BY <1>3 DEF PrintCall, Step
  <2>2. UNCHANGED <<currLen, dmaDone, channel, printed>>
    BY <1>3 DEF PrintCall, shared
  <2> QED
    BY <1>2, <2>1, <2>2, QuietStep DEF Flushing, Counting
<1>4. CASE PrintOffset(p)
  <2>1. at[p] = "offset" /\ at' = [at EXCEPT ![p] = "format"] /\ req' = req
    BY <1>4 DEF PrintOffset, Step
  <2>2. UNCHANGED <<currLen, dmaDone, channel, printed>>
    BY <1>4 DEF PrintOffset, shared
  <2> QED
    BY <1>2, <2>1, <2>2, QuietStep DEF Flushing, Counting
<1>5. CASE Format(p)
  <2>1. at[p] = "format" /\ at' = [at EXCEPT ![p] = "update"] /\ req' = req
    BY <1>5 DEF Format, Step
  <2>2. UNCHANGED <<currLen, dmaDone, channel, printed>>
    BY <1>5 DEF Format
  <2> QED
    BY <1>2, <2>1, <2>2, QuietStep DEF Flushing, Counting
<1>6. CASE Update(p)
  <2>1. at[p] = "update" /\ at' = [at EXCEPT ![p] = "check"]
    BY <1>6 DEF Update, Step
  <2>2. Message(p, cnt[p]) \in Seq(Printers \X Nat \X Nat)
          /\ Len(Message(p, cnt[p])) = cnt[p]
    BY <1>1, MessageCells
  <2>3. Len(printed') = Len(printed) + cnt[p]
    <3>1. printed' = printed \o Message(p, cnt[p])
      BY <1>6 DEF Update
    <3>2. \A S : \A s, t \in Seq(S) : Len(s \o t) = Len(s) + Len(t)
      OBVIOUS
    <3> QED
      BY <1>1, <2>2, <3>1, <3>2
  <2>4. currLen' = currLen + cnt[p] /\ UNCHANGED <<dmaDone, channel, req>>
    BY <1>6 DEF Update
  <2>5. Running' = Running /\ Running \in Int
    BY <1>1, <2>4 DEF Running, channel
  <2>6. Coming' = Coming /\ Coming \in Nat
    BY <1>2, <2>1, <2>4, ComingStays, ComingTyped
  <2>7. Kept'
    <3>1. Len(printed) = Len(sent) + currLen + Coming + Running
      BY DEF Apart, Kept
    <3>2. Len(printed) + cnt[p] = Len(sent) + (currLen + cnt[p]) + Coming + Running
      BY <1>1, <2>5, <2>6, <3>1
    <3>3. sent' = sent
      BY <2>4 DEF channel
    <3> QED
      BY <2>3, <2>4, <2>5, <2>6, <3>2, <3>3 DEF Kept
  <2>8. \A q \in Printers \ {p} : at[q] \notin Counting
    BY <1>6 DEF Update, OtherAt
  <2>9. FlushState'
    BY <1>2, <2>1, <2>4, <2>8 DEF Apart, FlushState, Flushing, Counting
  <2>10. Alone' /\ Idle' /\ ChannelState'
    BY <1>2, <2>1, <2>4
       DEF Apart, Alone, OtherAt, Idle, ChannelState, Flushing, channel
  <2> QED
    BY <2>7, <2>9, <2>10 DEF Apart
<1>7. CASE Check(p)
  <2>1. /\ at[p] = "check" /\ at' = [at EXCEPT ![p] = IF dmaDone THEN "flush" ELSE "idle"]
        /\ UNCHANGED <<currLen, dmaDone, channel, printed, req>>
    BY <1>7 DEF Check, Step, shared
  <2>2. CASE ~dmaDone
    BY <1>2, <2>1, <2>2, QuietStep DEF Flushing, Counting
  <2>3. CASE dmaDone
    <3>1. at' = [at EXCEPT ![p] = "flush"]
      BY <2>1, <2>3
    <3>2. \A q \in Printers \ {p} : at[q] \notin Flushing
      BY <1>7, <2>3 DEF Check, OtherAt
    <3>3. ~dma.enabled /\ ~irq
      BY <2>3 DEF Apart, ChannelState
    <3>4. Alone' /\ Idle'
      BY <1>2, <2>1, <3>1, <3>2, <3>3 DEF Alone, OtherAt, Idle, channel
    <3>5. Coming' = Coming
      BY <1>2, <2>1, <3>1, ComingStays
    <3>6. Kept' /\ ChannelState'
      BY <2>1, <3>5 DEF Apart, Kept, ChannelState, Running, channel
    <3>7. FlushState'
      BY <1>2, <2>1, <3>1, <3>2 DEF FlushState, Counting, Flushing
    <3> QED
      BY <3>4, <3>6, <3>7 DEF Apart
  <2> QED
    BY <2>2, <2>3
<1>8. ASSUME at[p] \in Flushing
      PROVE  /\ ~dma.enabled /\ ~irq
             /\ \A q \in Printers \ {p} : at[q] \notin Flushing
  BY <1>8 DEF Apart, Idle, Alone, OtherAt
<1>9. CASE FlushBusy(p)
  <2>1. at[p] = "flush" /\ at' = [at EXCEPT ![p] = "source"]
    BY <1>9 DEF FlushBusy, Step
  <2>2. UNCHANGED <<currLen, channel, printed, req>> /\ ~dmaDone'
    BY <1>9 DEF FlushBusy
  <2>3. ~dma.enabled /\ ~irq /\ \A q \in Printers \ {p} : at[q] \notin Flushing
    BY <1>8, <2>1 DEF Flushing
  <2>4. Coming' = Coming
    BY <1>2, <2>1, <2>2, ComingStays
  <2>5. Kept' /\ ChannelState'
    BY <2>2, <2>3, <2>4 DEF Apart, Kept, ChannelState, Running, channel
  <2>6. Alone' /\ Idle'
    BY <1>2, <2>1, <2>2, <2>3 DEF Alone, OtherAt, Idle, channel
  <2>7. FlushState'
    BY <1>2, <2>1, <2>2, <2>3 DEF FlushState, Counting, Flushing
  <2> QED
    BY <2>5, <2>6, <2>7 DEF Apart
<1>10. CASE FlushSource(p)
  <2>1. at[p] = "source" /\ at' = [at EXCEPT ![p] = "length"]
    BY <1>10 DEF FlushSource, Step
  <2>2. /\ UNCHANGED <<currLen, dmaDone, channel, printed>>
        /\ \A q \in Printers \ {p} : req'[q] = req[q]
    BY <1>10 DEF FlushSource, shared
  <2> QED
    BY <1>2, <2>1, <2>2, QuietStep DEF Flushing, Counting
<1>11. CASE FlushLength(p)
  <2>1. at[p] = "length" /\ at' = [at EXCEPT ![p] = "swap"]
    BY <1>11 DEF FlushLength, Step
  <2>2. /\ UNCHANGED <<currLen, dmaDone, channel, printed>>
        /\ \A q \in Printers \ {p} : req'[q] = req[q]
    BY <1>11 DEF FlushLength, shared
  <2>3. req'[p][2] = currLen
    BY <1>2, <1>11 DEF FlushLength
  <2> QED
    BY <1>2, <2>1, <2>2, <2>3, QuietStep DEF Flushing, Counting
<1>12. CASE FlushSwap(p)
  <2>1. at[p] = "swap" /\ at' = [at EXCEPT ![p] = "clear"]
    BY <1>12 DEF FlushSwap, Step
  <2>2. UNCHANGED <<currLen, dmaDone, channel, printed, req>>
    BY <1>12 DEF FlushSwap
  <2>3. req'[p][2] = currLen
    BY <2>1, <2>2 DEF Apart, FlushState, Counting
  <2> QED
    BY <1>2, <2>1, <2>2, <2>3, QuietStep DEF Flushing, Counting
<1>13. CASE FlushClear(p)
  <2>1. at[p] = "clear" /\ at' = [at EXCEPT ![p] = "submit"]
    BY <1>13 DEF FlushClear, Step
  <2>2. UNCHANGED <<dmaDone, channel, printed, req>> /\ currLen' = 0
    BY <1>13 DEF FlushClear
  <2>3. ~dma.enabled /\ ~irq /\ \A q \in Printers \ {p} : at[q] \notin Flushing
    BY <1>8, <2>1 DEF Flushing
  <2>4. Alone' /\ Idle'
    BY <1>2, <2>1, <2>2, <2>3 DEF Alone, OtherAt, Idle, channel
  <2>5. req[p][2] = currLen
    BY <2>1 DEF Apart, FlushState, Counting
  <2>6. \A q \in Printers : at[q] # "submit"
    BY <2>1, <2>3 DEF Flushing
  <2>7. Coming = 0
    BY <2>6, ComingOfNone
  <2>8. Coming' = currLen
    <3>1. Submitting' = {p}
      BY <1>2, <2>1, <2>6 DEF Submitting
    <3>2. Coming' = IF Submitting' = {} THEN 0
                    ELSE req'[CHOOSE q \in Submitting' : TRUE][2]
      BY DEF Coming
    <3> QED
      BY <2>2, <2>5, <3>1, <3>2
  <2>9. Running' = Running /\ Running = 0
    BY <2>2, <2>3 DEF Running, channel
  <2>10. Kept'
    BY <1>1, <2>2, <2>7, <2>8, <2>9 DEF Apart, Kept, channel
  <2>11. ChannelState'
    BY <2>2 DEF Apart, ChannelState, channel
  <2>12. FlushState'
    BY <1>2, <2>1, <2>2, <2>3 DEF Apart, FlushState, Counting, Flushing
  <2> QED
    BY <2>4, <2>10, <2>11, <2>12 DEF Apart
<1>14. CASE FlushSubmit(p)
  <2>1. at[p] = "submit" /\ at' = [at EXCEPT ![p] = "idle"]
    BY <1>14 DEF FlushSubmit, Step
  <2>2. ~dma.enabled /\ ~irq /\ \A q \in Printers \ {p} : at[q] \notin Flushing
    BY <1>8, <2>1 DEF Flushing
  <2>3. ~dmaDone
    BY <2>1 DEF Apart, FlushState, Flushing
  <2>4. /\ dma'.enabled = TRUE /\ dma'.pos = 0 /\ dma'.len = req[p][2]
        /\ UNCHANGED <<currLen, dmaDone, irq, sent, printed, req>>
    BY <1>14 DEF FlushSubmit, Started, shared
  <2>5. Running' = req[p][2] /\ Running = 0
    BY <1>1, <2>2, <2>4 DEF Running
  <2>6. Coming = req[p][2]
    BY <2>1, ComingOfOne DEF Apart
  <2>7. Coming' = 0
    <3>1. Submitting' = {}
      BY <1>2, <2>1, <2>2 DEF Submitting, Flushing
    <3>2. Coming' = IF Submitting' = {} THEN 0
                    ELSE req'[CHOOSE q \in Submitting' : TRUE][2]
      BY DEF Coming
    <3> QED
      BY <3>1, <3>2
  <2>8. Kept'
    BY <1>1, <2>4, <2>5, <2>6, <2>7 DEF Apart, Kept
  <2>9. \A q \in Printers : at'[q] \notin Flushing
    BY <1>2, <2>1, <2>2 DEF Flushing
  <2>10. Alone' /\ Idle' /\ FlushState'
    BY <2>9 DEF Alone, Idle, FlushState, Flushing, Counting
  <2>11. ChannelState'
    BY <1>1, <2>2, <2>3, <2>4 DEF ChannelState
  <2> QED
    BY <2>8, <2>10, <2>11 DEF Apart
<1> QED
  BY <1>3, <1>4, <1>5, <1>6, <1>7, <1>9, <1>10, <1>11, <1>12, <1>13, <1>14 DEF PrintStep

(* The channel and its interrupt, against the printers.                    *)
LEMMA ChannelStep ==
  ASSUME TypeOK, TypeLocal, Apart,
         DmaTransfer \/ DmaEmpty \/ PrintDmaCallback
  PROVE  Apart'
<1>1. /\ currLen \in Nat /\ sent \in Seq(Cells) /\ Len(sent) \in Nat
      /\ Len(printed) \in Nat /\ dma.len \in Nat /\ dma.pos \in Nat
  <2>1. currLen \in Nat /\ dma.len \in Nat /\ dma.pos \in Nat
    BY DEF TypeOK
  <2>2. printed \in Seq(Printers \X Nat \X Nat) /\ sent \in Seq(Cells)
    BY DEF TypeLocal
  <2>3. Len(printed) \in Nat /\ Len(sent) \in Nat
    BY <2>2
  <2> QED
    BY <2>1, <2>2, <2>3
<1>2. UNCHANGED <<at, req, printed>>
  BY DEF DmaTransfer, DmaEmpty, PrintDmaCallback, local
<1>3. Coming' = Coming /\ Coming \in Nat
  BY <1>2, ComingStays, ComingTyped
<1>4. Len(printed) = Len(sent) + currLen + Coming + Running
  BY DEF Apart, Kept
<1>8. Alone'
  BY <1>2 DEF Apart, Alone, OtherAt
<1>5. CASE DmaTransfer
  <2>1. /\ dma.enabled /\ ~irq /\ ~dmaDone /\ (\A p \in Printers : at[p] \notin Flushing) /\ dma.pos < dma.len
    BY <1>1, <1>5 DEF DmaTransfer, Apart, ChannelState, Idle
  <2>2. Len(sent') = Len(sent) + 1 /\ UNCHANGED <<currLen, dmaDone>>
    BY <1>1, <1>5 DEF DmaTransfer, shared
  <2>3. /\ dma'.pos = dma.pos + 1 /\ dma'.len = dma.len
        /\ dma'.enabled = (dma.pos + 1 < dma.len)
    BY <1>5 DEF DmaTransfer, TypeOK
  <2>4. irq' = (dma.pos + 1 = dma.len)
    BY <1>5, <2>1 DEF DmaTransfer
  <2>5. Running = dma.len - dma.pos /\ Running' = dma.len - (dma.pos + 1)
    <3>1. Running = dma.len - dma.pos
      BY <2>1 DEF Running
    <3>2. CASE dma.pos + 1 < dma.len
      <4>1. dma'.enabled
        BY <2>3, <3>2
      <4> QED
        BY <2>3, <3>1, <4>1 DEF Running
    <3>3. CASE ~(dma.pos + 1 < dma.len)
      <4>1. ~dma'.enabled
        BY <2>3, <3>3
      <4>2. dma.len - (dma.pos + 1) = 0
        BY <1>1, <2>1, <3>3
      <4> QED
        BY <3>1, <4>1, <4>2 DEF Running
    <3> QED
      BY <3>2, <3>3
  <2>6. Kept'
    <3>1. Len(sent') + currLen' + Coming' + Running' =
            Len(sent) + 1 + currLen + Coming + (dma.len - (dma.pos + 1))
      BY <1>3, <2>2, <2>5
    <3>2. Len(printed') = Len(sent) + currLen + Coming + (dma.len - dma.pos)
      BY <1>2, <1>4, <2>5
    <3>3. Len(sent) + 1 + currLen + Coming + (dma.len - (dma.pos + 1)) =
            Len(sent) + currLen + Coming + (dma.len - dma.pos)
      BY <1>1, <1>3
    <3> QED
      BY <3>1, <3>2, <3>3 DEF Kept
  <2>7. ChannelState'
    <3>1. CASE dma.pos + 1 < dma.len
      <4>1. dma'.pos <= dma'.len
        BY <1>1, <2>3, <3>1
      <4>2. dma.pos + 1 # dma.len
        BY <1>1, <3>1
      <4>3. ~irq'
        BY <2>4, <4>2
      <4> QED
        BY <2>1, <2>2, <4>1, <4>3 DEF ChannelState
    <3>2. CASE ~(dma.pos + 1 < dma.len)
      <4>1. ~dma'.enabled
        BY <2>3, <3>2
      <4> QED
        BY <2>1, <2>2, <4>1 DEF ChannelState
    <3> QED
      BY <3>1, <3>2
  <2> QED
    BY <1>2, <1>8, <2>1, <2>2, <2>6, <2>7 DEF FlushState, Idle, Flushing, Counting, Apart
<1>6. CASE DmaEmpty
  <2>1. /\ dma.enabled /\ ~irq /\ ~dmaDone /\ (\A p \in Printers : at[p] \notin Flushing) /\ dma.pos <= dma.len
    BY <1>1, <1>6 DEF DmaEmpty, Apart, ChannelState, Idle
  <2>2. dma'.enabled = FALSE /\ dma.len = 0 /\ UNCHANGED <<currLen, dmaDone, sent>>
    BY <1>6 DEF DmaEmpty, shared, TypeOK
  <2>3. Running = 0 /\ Running' = 0
    BY <1>1, <2>1, <2>2 DEF Running
  <2>4. Kept'
    BY <1>1, <1>2, <1>3, <1>4, <2>2, <2>3 DEF Kept
  <2>5. ChannelState'
    BY <2>1, <2>2 DEF ChannelState
  <2> QED
    BY <1>2, <1>8, <2>1, <2>2, <2>4, <2>5 DEF FlushState, Idle, Flushing, Counting, Apart
<1>7. CASE PrintDmaCallback
  <2>1. irq /\ ~dma.enabled /\ ~dmaDone /\ (\A p \in Printers : at[p] \notin Flushing)
    BY <1>1, <1>7 DEF PrintDmaCallback, Apart, ChannelState, Idle
  <2>2. Running = 0 /\ sent' = sent /\ ~irq'
    BY <1>7, <2>1 DEF Running, PrintDmaCallback
  <2>3. CASE currLen > 0
    <3>1. /\ dma' = Started(currBuf, currLen) /\ ~dmaDone' /\ currLen' = 0
      BY <1>7, <2>3 DEF PrintDmaCallback
    <3>2. dma'.len = currLen /\ dma'.pos = 0 /\ dma'.enabled
      BY <3>1 DEF Started
    <3>3. Running' = currLen
      BY <1>1, <3>2 DEF Running
    <3>4. Kept'
      BY <1>1, <1>2, <1>3, <1>4, <2>2, <3>1, <3>3 DEF Kept
    <3>5. ChannelState'
      BY <1>1, <2>2, <3>1, <3>2 DEF ChannelState
    <3> QED
      BY <1>2, <1>8, <2>1, <3>4, <3>5 DEF FlushState, Idle, Flushing, Counting, Apart
  <2>4. CASE ~(currLen > 0)
    <3>1. UNCHANGED <<dma, currLen>>
      BY <1>7, <2>4 DEF PrintDmaCallback
    <3>2. Kept'
      BY <1>1, <1>2, <1>3, <1>4, <2>2, <3>1 DEF Kept, Running
    <3>3. ChannelState'
      BY <2>1, <2>2, <3>1 DEF ChannelState
    <3> QED
      BY <1>2, <1>8, <2>1, <3>2, <3>3 DEF FlushState, Idle, Flushing, Counting, Apart
  <2> QED
    BY <2>3, <2>4
<1> QED
  BY <1>5, <1>6, <1>7

-----------------------------------------------------------------------------
LEMMA NextPrint ==
  ASSUME PrintInv, [Next]_vars
  PROVE  PrintInv'
<1>1. CASE UNCHANGED vars
  <2>1. UNCHANGED <<text, currBuf, currLen, dmaBuf, dmaDone, dma, irq, sent, at, addr,
                    cnt, req, messages, printed, raced>>
    BY <1>1 DEF vars, shared, channel, local
  <2>2. TypeOK' /\ TypeLocal'
    BY <2>1 DEF PrintInv, TypeOK, TypeLocal
  <2>3. Coming' = Coming
    BY <2>1, ComingStays
  <2>4. Kept = Kept'
    BY <2>1, <2>3 DEF Kept, Running
  <2>5. (ChannelState /\ FlushState) = (ChannelState /\ FlushState)'
    BY <2>1 DEF ChannelState, FlushState
  <2>6. (Idle /\ Alone) = (Idle /\ Alone)'
    BY <2>1 DEF Idle, Alone, OtherAt
  <2> QED
    BY <2>1, <2>2, <2>4, <2>5, <2>6 DEF PrintInv, Apart
<1>2. CASE Next /\ ~UNCHANGED vars
  <2>1. TypeOK' /\ TypeLocal'
    BY <1>2, PrintTyped, PrintAssumption DEF PrintInv
  <2>2. ASSUME ~raced' PROVE Apart'
    <3>1. CASE \E p \in Printers : PrintCall(p) \/ PrintStep(p)
      <4>1. PICK p \in Printers : PrintCall(p) \/ PrintStep(p)
        BY <3>1
      <4>2. ~raced
        BY <2>2, <4>1 DEF PrintStep, PrintCall, PrintOffset, Format, Update, Check,
             FlushBusy, FlushSource, FlushLength, FlushSwap, FlushClear, FlushSubmit
      <4>3. TypeOK /\ TypeLocal /\ Apart
        BY <4>2 DEF PrintInv
      <4> QED
        BY <2>2, <4>1, <4>3, PrinterStep
    <3>2. CASE DmaTransfer \/ DmaEmpty \/ PrintDmaCallback
      <4>1. ~raced
        BY <2>2, <3>2 DEF DmaTransfer, DmaEmpty, PrintDmaCallback
      <4> QED
        BY <3>2, <4>1, ChannelStep DEF PrintInv
    <3> QED
      BY <1>2, <3>1, <3>2 DEF Next, Quiet
  <2> QED
    BY <2>1, <2>2 DEF PrintInv
<1> QED
  BY <1>1, <1>2

(* Whatever the threads print, they and the interrupts of their transfers  *)
(* agree about dma_done, the buffers and what is still to be sent, until a *)
(* thread comes into another one's flush_buffer.                           *)
THEOREM PrintInvariant == Spec => []PrintInv
<1>1. Init => PrintInv
  BY InitPrint
<1>2. PrintInv /\ [Next]_vars => PrintInv'
  BY NextPrint
<1> QED
  BY <1>1, <1>2, PTL DEF Spec

(* dma_done is never stale for a thread that has found it set while no     *)
(* other thread was in flush_buffer: until its request is submitted the    *)
(* channel is idle, no interrupt is pending and no other thread flushes.   *)
THEOREM OneTransferAtATime == Spec => []OneTransfer
<1>1. PrintInv => OneTransfer
  BY DEF PrintInv, Apart, OneTransfer, Idle, Alone
<1> QED
  BY <1>1, PrintInvariant, PTL

(* What print has counted is sent, waits in the current buffer, or is the  *)
(* rest of the one transfer: print, flush_buffer and the interrupt lose    *)
(* nothing to each other before a thread comes into another's flush_buffer.*)
THEOREM NoLengthLost == Spec => []LengthsKept
<1>1. PrintInv => LengthsKept
  BY DEF PrintInv, Apart, Kept, LengthsKept
<1> QED
  BY <1>1, PrintInvariant, PTL
=============================================================================
