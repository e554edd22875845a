------------------------------ MODULE PrintDma ------------------------------
(***************************************************************************)
(* Double buffered printing over a DMA channel: entry/print.c, with the    *)
(* parts of drivers/dma.c it uses.  print() formats into the current       *)
(* buffer behind the text that waits there; when no transfer runs, the     *)
(* current buffer is handed to the DMA and the buffers are swapped, either *)
(* by print() or by the interrupt at the end of a transfer.                *)
(*                                                                         *)
(* A thread may be stopped between any two accesses to the shared state;   *)
(* print_dma_callback runs to its end, because handlers are not nested.    *)
(* A text is a sequence of cells, each named after the printing thread,    *)
(* the message and the place in it.                                        *)
(***************************************************************************)
EXTENDS Naturals, SequencesExt, FiniteSetsExt

CONSTANTS
  Printers,     (* The threads that print.                                 *)
  Lengths,      (* The lengths of the messages.                            *)
  MaxMessages   (* Bound on the messages each thread prints.               *)

ASSUME PrintAssumption ==
  /\ IsFiniteSet(Printers)
  /\ Lengths \subseteq Nat \ {0}
  /\ MaxMessages \in [Printers -> Nat]

Bufs == {"buf_a", "buf_b"}
Blank == <<>>            \* the contents of a cell that nobody has written

VARIABLES
  text,      (* The cells of both buffers, from offset 0 on.               *)
  currBuf,   (* state.curr_buf                                             *)
  currLen,   (* state.curr_len                                             *)
  dmaBuf,    (* state.dma_buf                                              *)
  dmaDone,   (* state.dma_done                                             *)
  dma,       (* The channel: source, cells in all, cells sent, enabled.    *)
  irq,       (* The end-of-block interrupt of the channel is pending.      *)
  sent,      (* The cells that have left through the UART.                 *)
  at,        (* Where a thread is in print and flush_buffer.               *)
  addr,      (* The buffer and offset vsprint has been given.              *)
  cnt,       (* The length of the message a thread prints.                 *)
  req,       (* The request flush_buffer has filled in.                    *)
  messages,  (* How many messages a thread has printed.                    *)
  printed,   (* History: the cells of all messages, in order of their     *)
             (* update of curr_len.                                        *)
  raced      (* History: a thread came into another one's flush_buffer.    *)

shared == <<text, currBuf, currLen, dmaBuf, dmaDone>>
channel == <<dma, irq, sent>>
local == <<at, addr, cnt, req, messages>>
vars == <<shared, channel, local, printed, raced>>

(* The places of flush_buffer, and those between its reading the length    *)
(* and clearing it.                                                        *)
Flushing == {"flush", "source", "length", "swap", "clear", "submit"}
Counting == {"swap", "clear"}

OtherAt(p, places) == \E q \in Printers \ {p} : at[q] \in places

(* The cells of the message that thread p prints. *)
Message(p, n) == [i \in 1 .. n |-> <<p, messages[p], i>>]

(* print_dma_init *)
Init ==
  /\ text = [b \in Bufs |-> <<>>]
  /\ currBuf = "buf_a"
  /\ currLen = 0
  /\ dmaBuf = "buf_b"
  /\ dmaDone = TRUE
  /\ dma = [src |-> "buf_a", len |-> 0, pos |-> 0, enabled |-> FALSE]
  /\ irq = FALSE
  /\ sent = <<>>
  /\ at = [p \in Printers |-> "idle"]
  /\ addr = [p \in Printers |-> <<"buf_a", 0>>]
  /\ cnt = [p \in Printers |-> 0]
  /\ req = [p \in Printers |-> <<"buf_a", 0>>]
  /\ messages = [p \in Printers |-> 0]
  /\ printed = <<>>
  /\ raced = FALSE

Step(p, from, to) == at[p] = from /\ at' = [at EXCEPT ![p] = to]

(* The buffer s with the cells m written at offset o; cells between the    *)
(* end of what was there and o have never been written.                    *)
Written(s, o, m) ==
  [i \in 1 .. IF Len(s) > o + Len(m) THEN Len(s) ELSE o + Len(m) |->
     IF i > o /\ i <= o + Len(m) THEN m[i - o]
     ELSE IF i <= Len(s) THEN s[i] ELSE Blank]

-----------------------------------------------------------------------------
(* print: the address is computed from two reads before vsprint is called. *)
PrintCall(p) ==
  /\ messages[p] < MaxMessages[p]
  /\ Step(p, "idle", "offset")
  /\ addr' = [addr EXCEPT ![p] = <<currBuf, @[2]>>]
  /\ UNCHANGED <<shared, channel, cnt, req, messages, printed, raced>>

PrintOffset(p) ==
  /\ Step(p, "offset", "format")
  /\ addr' = [addr EXCEPT ![p] = <<@[1], currLen>>]
  /\ UNCHANGED <<shared, channel, cnt, req, messages, printed, raced>>

(* vsprint writes the message and returns its length. *)
Format(p) ==
  \E n \in Lengths :
    LET b == addr[p][1] IN
    /\ Step(p, "format", "update")
    /\ text' = [text EXCEPT ![b] = Written(@, addr[p][2], Message(p, n))]
    /\ cnt' = [cnt EXCEPT ![p] = n]
    /\ UNCHANGED <<currBuf, currLen, dmaBuf, dmaDone, channel, addr, req,
                   messages, printed, raced>>

(* Variant: the addition is not atomic and loses a transfer's reset. *)
UpdateStale(p) ==
  /\ Step(p, "update", "check")
  /\ currLen' = addr[p][2] + cnt[p]
  /\ messages' = [messages EXCEPT ![p] = @ + 1]
  /\ printed' = printed \o Message(p, cnt[p])
  /\ raced' = (raced \/ OtherAt(p, Counting))
  /\ UNCHANGED <<text, currBuf, dmaBuf, dmaDone, channel, addr, cnt, req>>

(* The atomic section: curr_len += cnt. *)
Update(p) ==
  /\ Step(p, "update", "check")
  /\ currLen' = currLen + cnt[p]
  /\ messages' = [messages EXCEPT ![p] = @ + 1]
  /\ printed' = printed \o Message(p, cnt[p])
  /\ raced' = (raced \/ OtherAt(p, Counting))
  /\ UNCHANGED <<text, currBuf, dmaBuf, dmaDone, channel, addr, cnt, req>>

(* Is a transfer running? *)
Check(p) ==
  /\ Step(p, "check", IF dmaDone THEN "flush" ELSE "idle")
  /\ raced' = (raced \/ (dmaDone /\ OtherAt(p, Flushing)))
  /\ UNCHANGED <<shared, channel, addr, cnt, req, messages, printed>>

(* flush_buffer, one access to the shared state after the other. *)
FlushBusy(p) ==
  /\ Step(p, "flush", "source")
  /\ dmaDone' = FALSE
  /\ UNCHANGED <<text, currBuf, currLen, dmaBuf, channel, addr, cnt, req,
                 messages, printed, raced>>

FlushSource(p) ==
  /\ Step(p, "source", "length")
  /\ req' = [req EXCEPT ![p] = <<currBuf, @[2]>>]
  /\ UNCHANGED <<shared, channel, addr, cnt, messages, printed, raced>>

FlushLength(p) ==
  /\ Step(p, "length", "swap")
  /\ req' = [req EXCEPT ![p] = <<@[1], currLen>>]
  /\ UNCHANGED <<shared, channel, addr, cnt, messages, printed, raced>>

FlushSwap(p) ==
  /\ Step(p, "swap", "clear")
  /\ currBuf' = dmaBuf
  /\ dmaBuf' = currBuf
  /\ UNCHANGED <<text, currLen, dmaDone, channel, addr, cnt, req, messages,
                 printed, raced>>

FlushClear(p) ==
  /\ Step(p, "clear", "submit")
  /\ currLen' = 0
  /\ UNCHANGED <<text, currBuf, dmaBuf, dmaDone, channel, addr, cnt, req,
                 messages, printed, raced>>

(* dma_submit_request: the channel's registers are written, its status     *)
(* flags are cleared by reading them, and it is enabled.                   *)
Started(b, n) == [src |-> b, len |-> n, pos |-> 0, enabled |-> TRUE]

FlushSubmit(p) ==
  /\ Step(p, "submit", "idle")
  /\ dma' = Started(req[p][1], req[p][2])
  /\ UNCHANGED <<shared, irq, sent, addr, cnt, req, messages, printed, raced>>

-----------------------------------------------------------------------------
(* The DMA sends a cell to the UART; after the last one the channel is     *)
(* disabled and raises its interrupt.                                      *)
DmaTransfer ==
  /\ dma.enabled
  /\ dma.pos < dma.len
  /\ sent' = Append(sent, IF dma.pos < Len(text[dma.src])
                          THEN text[dma.src][dma.pos + 1] ELSE Blank)
  /\ dma' = [dma EXCEPT !.pos = @ + 1, !.enabled = dma.pos + 1 < dma.len]
  /\ irq' = (irq \/ dma.pos + 1 = dma.len)
  /\ UNCHANGED <<shared, local, printed, raced>>

(* A block of length zero is taken to end at once. *)
DmaEmpty ==
  /\ dma.enabled
  /\ dma.len = 0
  /\ dma' = [dma EXCEPT !.enabled = FALSE]
  /\ irq' = TRUE
  /\ UNCHANGED <<shared, sent, local, printed, raced>>

(* Variant: the text that has come meanwhile is left to the next print. *)
CallbackWaits ==
  /\ irq
  /\ irq' = FALSE
  /\ dmaDone' = TRUE
  /\ UNCHANGED <<text, currBuf, currLen, dmaBuf, dma, sent, local, printed, raced>>

(* Variant: dma_done is set although the next transfer has been started. *)
CallbackSetsDone ==
  /\ irq
  /\ irq' = FALSE
  /\ dmaDone' = TRUE
  /\ IF currLen > 0
       THEN /\ dma' = Started(currBuf, currLen)
            /\ currBuf' = dmaBuf
            /\ dmaBuf' = currBuf
            /\ currLen' = 0
       ELSE UNCHANGED <<dma, currBuf, dmaBuf, currLen>>
  /\ UNCHANGED <<text, sent, local, printed, raced>>

(* dma_common_interrupt and print_dma_callback: what has been printed      *)
(* during the transfer is sent next.                                       *)
PrintDmaCallback ==
  /\ irq
  /\ irq' = FALSE
  /\ IF currLen > 0
       THEN /\ dmaDone' = FALSE
            /\ dma' = Started(currBuf, currLen)
            /\ currBuf' = dmaBuf
            /\ dmaBuf' = currBuf
            /\ currLen' = 0
       ELSE /\ dmaDone' = TRUE
            /\ UNCHANGED <<dma, currBuf, dmaBuf, currLen>>
  /\ UNCHANGED <<text, sent, local, printed, raced>>

-----------------------------------------------------------------------------
PrintStep(p) ==
  \/ PrintOffset(p)
  \/ Format(p)
  \/ Update(p)
  \/ Check(p)
  \/ FlushBusy(p)
  \/ FlushSource(p)
  \/ FlushLength(p)
  \/ FlushSwap(p)
  \/ FlushClear(p)
  \/ FlushSubmit(p)

(* No thread has to print again, and all that was printed has been sent. *)
Quiet ==
  /\ \A p \in Printers : at[p] = "idle" /\ messages[p] = MaxMessages[p]
  /\ ~dma.enabled
  /\ ~irq
  /\ UNCHANGED vars

Next ==
  \/ \E p \in Printers : PrintCall(p) \/ PrintStep(p)
  \/ DmaTransfer
  \/ DmaEmpty
  \/ PrintDmaCallback
  \/ Quiet

Spec == Init /\ [][Next]_vars

(* A thread that prints goes on, the DMA sends, the interrupt is taken. *)
Fairness ==
  /\ \A p \in Printers : WF_vars(PrintStep(p))
  /\ WF_vars(DmaTransfer \/ DmaEmpty)
  /\ WF_vars(PrintDmaCallback)

FairSpec == Spec /\ Fairness

-----------------------------------------------------------------------------
(* Type invariant. *)
TypeOK ==
  /\ text \in [Bufs -> Seq({Blank} \union (Printers \X Nat \X Nat))]
  /\ currBuf \in Bufs /\ dmaBuf \in Bufs
  /\ currLen \in Nat
  /\ dmaDone \in BOOLEAN
  /\ dma \in [src : Bufs, len : Nat, pos : Nat, enabled : BOOLEAN]
  /\ irq \in BOOLEAN
  /\ at \in [Printers -> {"idle", "offset", "format", "update", "check"}
                           \union Flushing]
  /\ addr \in [Printers -> Bufs \X Nat]
  /\ req \in [Printers -> Bufs \X Nat]
  /\ raced \in BOOLEAN

(* "If the DMA is done we start the next reqest right away": a request is  *)
(* only submitted to a channel that is idle.  Two threads can both find    *)
(* dma_done set, and the second one to submit finds the channel running.   *)
SubmittedWhenDone ==
  \A p \in Printers : at[p] = "submit" => ~dma.enabled

(* As long as no thread came into another one's flush_buffer, a thread     *)
(* that has found dma_done set has the channel, idle and without a pending *)
(* interrupt, to itself until it has submitted its request, whatever the   *)
(* other threads and the interrupt do meanwhile.                           *)
OneTransfer ==
  ~raced =>
    \A p \in Printers : at[p] \in Flushing =>
      ~dma.enabled /\ ~irq /\ ~OtherAt(p, Flushing)

(* Every cell that was printed is sent, waits in the buffer or is part of  *)
(* the running or the coming transfer: no length is lost or counted twice  *)
(* between the threads' prints and the interrupt, until a thread comes     *)
(* into another one's flush_buffer.                                        *)
Submitting == {p \in Printers : at[p] = "submit"}
Coming == IF Submitting = {} THEN 0 ELSE req[CHOOSE p \in Submitting : TRUE][2]
Running == IF dma.enabled THEN dma.len - dma.pos ELSE 0

LengthsKept ==
  /\ TypeOK
  /\ raced \/ Len(printed) = Len(sent) + currLen + Coming + Running

(* Printed text never stays in the buffer: the end of a transfer and a     *)
(* print never each leave the next transfer to the other.                  *)
AllSent == <>[](raced \/ Len(sent) = Len(printed))
=============================================================================
