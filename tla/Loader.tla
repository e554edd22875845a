------------------------------- MODULE Loader -------------------------------
(***************************************************************************)
(* How a program gets from a file on the host to a running process: the    *)
(* script that sends the file over the serial line, the line, the handler  *)
(* that takes the packets out of the receive buffer, and the ELF loader    *)
(* that makes a process of them; composed with the memory of the processes *)
(* (AddressSpace), with the calls of the processes that change it, and     *)
(* with the PIDs of the kernel threads (Pid).                              *)
(*                                                                         *)
(* A packet carries a page of the file.  A file of n whole pages and a     *)
(* tail ends with the packet of the tail; without a tail it ends with an   *)
(* empty packet.  The content of a frame is the page of the file it holds. *)
(* The first page of a file has its headers; of its program headers, the   *)
(* first is read, and names the segment: the pages of the file, the pages  *)
(* in memory and the address.                                              *)
(***************************************************************************)
EXTENDS AddressSpace, Pid, Functions

CONSTANTS
  Files,        (* The files that can be sent.                             *)
  Pages,        (* [Files -> Nat \ {0}]: whole pages of a file.            *)
  HasTail,      (* The files whose length is not a multiple of a page.     *)
  Offset,       (* [Files -> Nat]: the page the segment starts at,         *)
  SegPages,     (* [Files -> Nat]: its pages in the file (filesz)          *)
  MemPages,     (* [Files -> Nat]: and in memory (memsz),                  *)
  VAddr,        (* [Files -> Nat]: and the page it is linked at.           *)
  Retries,      (* How often the script sends a packet (10 in the script). *)
  MaxSessions,  (* Bound on the runs of the script.                        *)
  MaxFaults,    (* Bound on the packets and answers the line spoils.       *)
  MaxThreads,   (* Bound on the user threads that are created.             *)
  MaxBreaks,    (* Bound on the calls of set_break,                        *)
  BreakPages    (* and the pages they ask for.                             *)

(* Pages of the file, the tail included, and the packets after the first.  *)
Parts(f) == Pages[f] + IF f \in HasTail THEN 1 ELSE 0
LastPacket(f) == Pages[f] + 1

(* What is not there is no answer; and a program is linked under all the   *)
(* stacks its process can get, its segment a part of its file.             *)
ASSUME AnswerAssumption == None \notin {"ok", "error"}
ASSUME FileAssumption ==
  /\ MaxThreads \in Nat
  /\ HasTail \subseteq Files
  /\ \A f \in Files :
       /\ Pages[f] \in Nat \ {0} /\ MemPages[f] \in Nat /\ VAddr[f] \in Nat
       /\ Offset[f] \in Nat /\ SegPages[f] \in Nat
       /\ Offset[f] + SegPages[f] <= Parts(f)
       /\ SegPages[f] <= MemPages[f] /\ MemPages[f] <= Size[Widest]
       /\ VAddr[f] + Size[PagesToOrder(MemPages[f])] + MaxThreads < KernelStart
ASSUME BreakAssumption ==
  \A pages \in BreakPages : pages \in Nat /\ pages <= Size[Widest]

VARIABLES
  m,            (* The memory of the processes, see AddressSpace.          *)
  mem,          (* The page of a file each frame holds, or None.           *)
  host,         (* The script: the file, the number of the packet it sends *)
                (* (0 is the size), how often it may still send it.        *)
  line,         (* The packet on the line, or None.                        *)
  reply,        (* The board's answer on the line, or None.                *)
  buffer,       (* elf_page_buffer: the block for the file, or None.       *)
  writePtr,     (* write_ptr, as a frame; None when it is NULL.            *)
  elfBuffer,    (* elf_buffer, as a frame; None when it is NULL.           *)
  sessions, faults, threads, breaks,  (* What has happened of what is      *)
                (* bounded.                                                *)
  sent,         (* The file of each process that was loaded.               *)
  misread,      (* A packet was taken for another command, or an answer    *)
                (* for the other answer.                                   *)
  stopped       (* "no", or why the kernel stopped.                        *)

serial == <<host, line, reply>>
bounds == <<sessions, faults, threads, breaks>>
receiver == <<mem, buffer, writePtr, elfBuffer, sent, misread>>
vars == <<m, serial, receiver, bounds, stopped, pidVars>>

Idle == [file |-> None, next |-> 0, tries |-> 0]

Init ==
  /\ m = NoMemory /\ mem = [k \in Frames |-> None]
  /\ host = Idle /\ line = None /\ reply = None
  /\ buffer = None /\ writePtr = None /\ elfBuffer = None
  /\ sessions = 0 /\ faults = 0 /\ threads = 0 /\ breaks = 0
  /\ sent = << >> /\ misread = FALSE /\ stopped = "no"
  /\ PidInit

-----------------------------------------------------------------------------
(* The script, send_file and send_packet.                                  *)

Packet(f, n) == [cmd |-> IF n = 0 THEN "size" ELSE "data",
                 file |-> f, part |-> n, whole |-> TRUE]

(* A user starts the script. *)
StartFile(f) ==
  /\ host = Idle /\ reply = None /\ sessions < MaxSessions
  /\ host' = [file |-> f, next |-> 0, tries |-> Retries]
  /\ line' = Packet(f, 0)
  /\ sessions' = sessions + 1
  /\ UNCHANGED <<m, reply, receiver, faults, threads, breaks, stopped, pidVars>>

(* The answer is "ok": the next packet, or the end of the file. *)
TakeOk ==
  /\ reply = "ok"
  /\ IF host.next = LastPacket(host.file)
       THEN host' = Idle /\ line' = None
       ELSE /\ host' = [host EXCEPT !.next = @ + 1, !.tries = Retries]
            /\ line' = Packet(host.file, host.next + 1)
  /\ reply' = None
  /\ UNCHANGED <<m, receiver, bounds, stopped, pidVars>>

(* The answer is "error": the same packet again, until the script has had  *)
(* enough of it.                                                           *)
TakeError ==
  /\ reply = "error"
  /\ IF host.tries = 1
       THEN host' = Idle /\ line' = None
       ELSE /\ host' = [host EXCEPT !.tries = @ - 1]
            /\ line' = Packet(host.file, host.next)
  /\ reply' = None
  /\ UNCHANGED <<m, receiver, bounds, stopped, pidVars>>

(* No answer within a second: the script ends. *)
TimeOut ==
  /\ host # Idle /\ line = None /\ reply = None
  /\ host' = Idle
  /\ UNCHANGED <<m, line, reply, receiver, bounds, stopped, pidVars>>

-----------------------------------------------------------------------------
(* The serial line: it changes a packet in a way the tag, the length or    *)
(* the CRC shows; or its command, which the CRC does not cover, to another *)
(* ("other" is CMD_KILL, the mouse or none there is); or it changes an     *)
(* answer, of one byte, to the other; or it loses a packet or an answer.   *)
Commands == {"size", "data", "reset", "other"}

Damage ==
  /\ line # None /\ faults < MaxFaults
  /\ \/ line' = [line EXCEPT !.whole = FALSE]
     \/ \E cmd \in Commands : line' = [line EXCEPT !.cmd = cmd]
  /\ faults' = faults + 1
  /\ UNCHANGED <<m, host, reply, receiver, sessions, threads, breaks, stopped,
                 pidVars>>

DamageAnswer ==
  /\ reply # None /\ faults < MaxFaults
  /\ reply' \in {"ok", "error"} /\ reply' # reply
  /\ misread' = TRUE
  /\ faults' = faults + 1
  /\ UNCHANGED <<m, host, line, mem, buffer, writePtr, elfBuffer, sent, sessions,
                 threads, breaks, stopped, pidVars>>

Lose ==
  /\ line # None \/ reply # None
  /\ faults < MaxFaults
  /\ line' = None /\ reply' = None
  /\ faults' = faults + 1
  /\ UNCHANGED <<m, host, receiver, sessions, threads, breaks, stopped, pidVars>>

-----------------------------------------------------------------------------
(* elf_init.  The headers are in the first page that was received.  The    *)
(* pages of the segment are copied into a block for all of it, which is    *)
(* mapped where the program was linked; the block does not go on the list  *)
(* of the process.                                                         *)

ElfOrder(f) == PagesToOrder(MemPages[f])
Loaded(f) ==
  LET bin == FirstFit(m, ElfOrder(f))
      n   == CreateProcess(AllocPages(m, ElfOrder(f)), 500)
  IN [MapInPages(n, Len(n.spaces), bin, Size[ElfOrder(f)], VAddr[f])
        EXCEPT !.spaces[Len(n.spaces)].image = BlockOf(bin, ElfOrder(f))]
Copied(f, from) ==
  LET bin == FirstFit(m, ElfOrder(f))
      at(k) == elfBuffer + Offset[f] + k - bin
  IN [k \in Frames |-> IF k \in bin .. bin + SegPages[f] - 1 /\ at(k) \in Frames
                         THEN from[at(k)] ELSE from[k]]

(* Variant: the call of free_pages that is commented out is made. *)
FreedByClearAgain ==
  IF buffer = None THEN {} ELSE BlockOf(buffer[1], buffer[2])

(* clear_elf_buffers does not give the block back, and elf_page_buffer     *)
(* keeps pointing to it.                                                   *)
FreedByClear == {}

Cleared(n) == [n EXCEPT !.free = @ \union FreedByClear]

-----------------------------------------------------------------------------
(* The timeout interrupt: process_packet, then handle_packet, one action   *)
(* per command.  The answer is sent when the packet has been handled.      *)

(* Variant: the CRC is not compared. *)
ChecksNothing(packet) == TRUE

(* The tag, the length and the CRC. *)
Checks(packet) == packet.whole

Take(cmd) == stopped = "no" /\ line # None /\ Checks(line) /\ line.cmd = cmd
Answer(r) == reply' = r /\ line' = None
Stop(why) ==
  /\ stopped' = why /\ line' = None
  /\ UNCHANGED <<m, reply, receiver>>

Refuse ==
  /\ stopped = "no" /\ line # None /\ ~Checks(line)
  /\ Answer("error")
  /\ UNCHANGED <<m, host, receiver, bounds, stopped, pidVars>>

(* CMD_KILL prints, the mouse moves, and a command without a branch does   *)
(* nothing: all are acknowledged.                                          *)
TakeOther ==
  /\ Take("other")
  /\ misread' = TRUE
  /\ Answer("ok")
  /\ UNCHANGED <<m, host, mem, buffer, writePtr, elfBuffer, sent, bounds,
                 stopped, pidVars>>

(* CMD_RESET: the board starts from the beginning. *)
TakeReset ==
  /\ Take("reset")
  /\ Stop("reset")
  /\ UNCHANGED <<host, bounds, pidVars>>

(* CMD_SIZE: a block for the file, in place of the one before.  Of a piece *)
(* of a file taken for its size, only four bytes get so far, and they can  *)
(* be any number.                                                          *)
WholePage(packet) == packet.part \in 1 .. Pages[packet.file]
HoldsTail(packet) == packet.part = 0 \/ packet.file \in HasTail
FourBytes(packet) == ~WholePage(packet) /\ HoldsTail(packet)
Orders(packet) ==
  IF packet.part = 0 THEN {PagesToOrder(Parts(packet.file))} ELSE 0 .. Widest
TakeSize ==
  /\ Take("size")
  /\ \/ line.part # 0 /\ Stop("wrong size")
     \/ /\ FourBytes(line)
        /\ \E order \in Orders(line) :
             LET n     == AllocPages(Cleared(m), order)
                 frame == FirstFit(Cleared(m), order)
             IN \/ n.dead /\ Stop("no memory")
                \/ /\ ~n.dead
                   /\ m' = n
                   /\ buffer' = <<frame, order>>
                   /\ elfBuffer' = frame /\ writePtr' = frame
                   /\ misread' = (misread \/ line.part # 0)
                   /\ Answer("ok")
                   /\ UNCHANGED <<mem, sent, stopped>>
  /\ UNCHANGED <<host, bounds, pidVars>>

(* CMD_DATA copies to write_ptr, which is not compared with anything. *)
InBuffer(w) == w # None /\ w \in BlockOf(buffer[1], buffer[2])
Content(packet) ==
  IF packet.whole /\ packet.part > 0 THEN <<packet.file, packet.part - 1>> ELSE None

TakePage ==
  /\ Take("data") /\ WholePage(line)
  /\ \/ ~InBuffer(writePtr) /\ Stop("wild write")
     \/ /\ InBuffer(writePtr)
        /\ mem' = [mem EXCEPT ![writePtr] = Content(line)]
        /\ writePtr' = writePtr + 1
        /\ Answer("ok")
        /\ UNCHANGED <<m, buffer, elfBuffer, sent, misread, stopped>>
  /\ UNCHANGED <<host, bounds, pidVars>>

(* Less than a page ends the file: the tail is copied, or there is none,   *)
(* and the program is started.  A size taken for data is such a piece.     *)
Received ==
  IF HoldsTail(line) THEN [mem EXCEPT ![writePtr] = Content(line)] ELSE mem
TailFits ==
  /\ writePtr # None
  /\ HoldsTail(line) => InBuffer(writePtr)
Header == Received[elfBuffer]
TakeLast ==
  /\ Take("data") /\ ~WholePage(line)
  /\ \/ ~TailFits /\ Stop("wild write")
     \/ /\ TailFits
        /\ \/ Header \notin {<<f, 0>> : f \in Files} /\ Stop("no header")
           \/ /\ Header \in {<<f, 0>> : f \in Files}
              /\ LET f == Header[1]
                 IN \/ Loaded(f).dead /\ Stop("no memory")
                    \/ /\ ~Loaded(f).dead
                       /\ m' = Cleared(Loaded(f))
                       /\ mem' = Copied(f, Received)
                       /\ sent' = Append(sent, line.file)
                       /\ elfBuffer' = None /\ writePtr' = None
                       /\ misread' = (misread \/ line.part = 0)
                       /\ Answer("ok")
                       /\ UNCHANGED <<buffer, stopped>>
  /\ UNCHANGED <<host, bounds, pidVars>>

-----------------------------------------------------------------------------
(* The calls of a running thread of process p: create_thread and           *)
(* set_break; and a kernel thread that is created.                         *)

CallCreateThread(p) ==
  /\ stopped = "no" /\ threads < MaxThreads
  /\ threads' = threads + 1
  /\ LET n == CreateUserThread(m, p, 500)
     IN IF n.dead THEN stopped' = "no memory" /\ UNCHANGED m
                  ELSE m' = n /\ UNCHANGED stopped
  /\ UNCHANGED <<serial, receiver, sessions, faults, breaks, pidVars>>

(* set_break asks nothing of the end of the heap: for pages of the kernel  *)
(* the entries it writes are behind the level 1 table of the process.      *)
PastTable(p, pages) == m.spaces[p].heapE + Size[PagesToOrder(pages)] > KernelStart
CallSetBreak(p) ==
  /\ stopped = "no" /\ breaks < MaxBreaks
  /\ breaks' = breaks + 1
  /\ \E pages \in BreakPages :
       LET n == SetBreak(m, p, pages)
       IN CASE PastTable(p, pages) -> stopped' = "wild write" /\ UNCHANGED m
            [] ~PastTable(p, pages) /\ n.dead -> stopped' = "no memory" /\ UNCHANGED m
            [] OTHER -> m' = n /\ UNCHANGED stopped
  /\ UNCHANGED <<serial, receiver, sessions, faults, threads, pidVars>>

NewKthread ==
  /\ stopped = "no"
  /\ CreateKthread
  /\ UNCHANGED <<m, serial, receiver, bounds, stopped>>

Next ==
  \/ \E f \in Files : StartFile(f)
  \/ TakeOk \/ TakeError \/ TimeOut
  \/ Damage \/ DamageAnswer \/ Lose
  \/ Refuse \/ TakeOther \/ TakeReset \/ TakeSize \/ TakePage \/ TakeLast
  \/ \E p \in 1 .. Len(m.spaces) : CallCreateThread(p) \/ CallSetBreak(p)
  \/ NewKthread

Spec == Init /\ [][Next]_vars

-----------------------------------------------------------------------------
(* Properties.                                                             *)

TypeOK ==
  /\ m.free \subseteq Frames
  /\ line = None \/ line.file \in Files
  /\ reply \in {None, "ok", "error"}
  /\ Len(sent) = Len(m.spaces)

(* A process that was started runs the file the script was sending when it *)
(* was started: each page of the segment in the file is what the process   *)
(* finds at its place in the address space, whatever packets were damaged, *)
(* repeated or given up, as long as no command and no answer was taken for *)
(* another and the heap has not reached the image (process_packet,         *)
(* handle_packet, elf_init).                                               *)
ImageIsFile ==
  /\ TypeOK
  /\ \A p \in 1 .. Len(sent) :
       misread \/ m.spaces[p].heapE > VAddr[sent[p]] \/
       \A j \in 0 .. SegPages[sent[p]] - 1 :
         LET frame == Translate(m, p, VAddr[sent[p]] + j)
         IN frame # None /\ mem[frame] = <<sent[p], Offset[sent[p]] + j>>

(* A page that was mapped stays mapped to the same frame, whichever        *)
(* sections, stacks and heaps the process and the others get later: only a *)
(* heap that grows over the image or the stacks replaces pages, or a stack *)
(* that is put where the heap is already                                   *)
(* (mm_map_in_pages writes the entry whatever it holds, mm_get_l2_pt hands *)
(* out the tables, set_break moves the end of the heap).                   *)
MappingsKept ==
  [][\A p \in 1 .. Len(m.spaces) : \A v \in Mapped(m, p) :
       \/ Translate(m', p, v) = Translate(m, p, v)
       \/ m.spaces[p].heapE <= v /\ v < m'.spaces[p].heapE
       \/ m'.spaces[p].stackE <= v /\ v < m.spaces[p].heapE]_vars

(* A frame has one use: no frame of one process is free, holds a table and *)
(* a page, is mapped twice or by two processes, or lies in the buffer that *)
(* is being received; and all of a process but its image is on its list of *)
(* pages (alloc_pages, mm_process_add_page, clear_elf_buffers).            *)
MappedFrames(p) == {Translate(m, p, v) : v \in Mapped(m, p)}
TableFrames(p) ==
  BlockOf(m.spaces[p].lv1, 1) \union
  {m.spaces[p].l1[s][1] : s \in {t \in 0 .. Sections - 1 : m.spaces[p].l1[t] # None}}
Used(p) == MappedFrames(p) \union TableFrames(p)
ListedFrames(p) == UNION {BlockOf(b[1], b[2]) : b \in m.spaces[p].pages}
FramesApart ==
  \A p \in 1 .. Len(m.spaces) :
    /\ Used(p) \intersect m.free = {}
    /\ MappedFrames(p) \intersect TableFrames(p) = {}
    /\ IsInjective([v \in Mapped(m, p) |-> Translate(m, p, v)])
    /\ \A q \in 1 .. p - 1 : Used(p) \intersect Used(q) = {}
    /\ elfBuffer = None \/ Used(p) \intersect BlockOf(buffer[1], buffer[2]) = {}
    /\ Used(p) \ m.spaces[p].image \subseteq ListedFrames(p)

(* No two kernel threads have the same PID, up to the last PID the tree    *)
(* has and beyond (alloc_pid, create_kthread).                             *)
PidsUnique ==
  \A i, j \in 1 .. Len(pids) : pids[i] = pids[j] => i = j
=============================================================================
