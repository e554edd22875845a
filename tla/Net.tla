-------------------------------- MODULE Net --------------------------------
(***************************************************************************)
(* The network stack between the Ethernet MAC and the applications:        *)
(* net/netbuf.c (the pool of buffers), drivers/gmac.c (the descriptor      *)
(* rings), net/mac.c and net/arp.c (addresses, and the packets that wait   *)
(* for one), net/ip.c and net/udp.c (ports).                               *)
(*                                                                         *)
(* Buffers are linked through one list_node each, whatever list they are   *)
(* in, so the lists are modelled by their links: a buffer that is linked   *)
(* a second time takes the first list with it.  One thread at a time uses  *)
(* the stack; the MAC works beside it, and a sender that waits for the MAC *)
(* is a step of its own.                                                   *)
(***************************************************************************)
EXTENDS Integers, Sequences, SequencesExt

CONSTANTS
  BufferCount,      (* The netbufs (1024).                                 *)
  Ports,            (* The ports that applications listen on.              *)
  Peers,            (* Hosts of the network, by IPv4 address.              *)
  Pool, ArpQueue,   (* The list heads netbuf_pool and arp_queue.           *)
  Null,
  RxCount,          (* RX_DESC_CNT (32).                                   *)
  TxCount,          (* TX_DESC_CNT (2).                                    *)
  MaxFrames,        (* Bound on the frames that arrive.                    *)
  MaxSends          (* Bound on the packets that applications send.        *)

ASSUME NetAssumption ==
  /\ BufferCount \in Nat /\ RxCount \in Nat \ {0} /\ TxCount \in Nat \ {0}
  /\ RxCount + TxCount <= BufferCount
  /\ MaxFrames \in Nat /\ MaxSends \in Nat

(* The list heads are variables of their own, and none is a buffer.        *)
ASSUME HeadAssumption ==
  /\ Pool # ArpQueue /\ Pool \notin Ports /\ ArpQueue \notin Ports
  /\ Null \notin Ports \union {Pool, ArpQueue}
  /\ (Ports \union {Pool, ArpQueue, Null}) \intersect (1 .. BufferCount) = {}

Buffers == 1 .. BufferCount
Heads == Ports \union {Pool, ArpQueue}
Nodes == Buffers \union Heads \union {Null}

(* What a frame carries: no more is said of those that the board sends.    *)
Nothing == [kind |-> "none", of |-> Null, id |-> 0]

(* The answer to an ARP request, whose frame_len arp_handle_req leaves as  *)
(* it was before, or as kmalloc gave it.                                   *)
Answer == [kind |-> "answer", of |-> Null, id |-> 0]

VARIABLES
  links,      (* next and prev of every list_node.                         *)
  rx,         (* The receive ring: netbuf, owner_software and the frame.   *)
  rxIndex,    (* rx_index.                                                 *)
  macRx,      (* The descriptor that the MAC fills next.                   *)
  tx,         (* The transmit ring: netbuf, and whether the MAC owns it.   *)
  txIndex,    (* tx_index.                                                 *)
  macTx,      (* The descriptor that the MAC sends next.                   *)
  complete,   (* TXCOMP of GMAC_TSR: set by the MAC, cleared by nobody.    *)
  arp,        (* The ARP table: "none", "waiting" or "known" per address.  *)
  dest,       (* The ip field of each netbuf.                              *)
  content,    (* What the buffers hold.                                    *)
  held,       (* The buffers that applications have.                       *)
  pc, back,   (* Where the thread in the stack is, and returns to.         *)
  cursor,     (* mac_unqueue's node.                                       *)
  resolved,   (* The address that mac_unqueue is for.                      *)
  arrived, sent,          (* Counters of MaxFrames and MaxSends.           *)
  (* History: the UDP frames the ring took, what the applications got, the *)
  (* ARP requests that were sent to an address and the replies that the    *)
  (* ring took from it, the hosts that were answered, the addresses that   *)
  (* packets were queued for, and the received frames that no port took.   *)
  accepted, got, requests, replies, answered, queuedFor, dropped

ringVars == <<rx, rxIndex, macRx, tx, txIndex, macTx, complete>>
threadVars == <<pc, back, cursor, resolved>>
history == <<accepted, got, requests, replies, answered, queuedFor, dropped>>
netVars == <<links, ringVars, arp, dest, content, held, threadVars,
             arrived, sent, history>>

-----------------------------------------------------------------------------
(* list.h: the stores of _list_add and of list_delete_node.                *)
AddBetween(l, new, before, after) ==
  [next |-> [l.next EXCEPT ![before] = new, ![new] = after],
   prev |-> [l.prev EXCEPT ![after] = new, ![new] = before]]

AddFirst(l, new, head) == AddBetween(l, new, head, l.next[head])
AddLast(l, new, head) == AddBetween(l, new, l.prev[head], head)

Unlink(l, node) ==
  [next |-> [l.next EXCEPT ![l.prev[node]] = l.next[node], ![node] = Null],
   prev |-> [l.prev EXCEPT ![l.next[node]] = l.prev[node], ![node] = Null]]

DeleteFirst(l, head) == Unlink(l, l.next[head])

(* What a walk from n meets before the next list head.                     *)
Walk(n) ==
  LET Step(m) == IF m \in Buffers THEN links.next[m] ELSE m
      at[k \in 0 .. BufferCount] == IF k = 0 THEN n ELSE Step(at[k - 1])
  IN  {at[k] : k \in DOMAIN at} \intersect Buffers

Listed(head) == Walk(links.next[head])

(* netbuf_init, gmac_alloc_buffers and gmac_init_queues: the rings take    *)
(* the first buffers, the pool the others.                                 *)
InitNet ==
  LET first == RxCount + TxCount + 1
      full == BufferCount >= first
  IN  /\ links = [next |-> [m \in Nodes |->
                     CASE m = Pool -> IF full THEN first ELSE Pool
                       [] m \in first .. BufferCount ->
                            IF m = BufferCount THEN Pool ELSE m + 1
                       [] m \in Heads \ {Pool} -> m
                       [] OTHER -> Null],
                   prev |-> [m \in Nodes |->
                     CASE m = Pool -> IF full THEN BufferCount ELSE Pool
                       [] m \in first .. BufferCount ->
                            IF m = first THEN Pool ELSE m - 1
                       [] m \in Heads \ {Pool} -> m
                       [] OTHER -> Null]]
      /\ rx = [i \in 0 .. RxCount - 1 |->
                 [buf |-> i + 1, full |-> FALSE, frame |-> Nothing]]
      /\ tx = [i \in 0 .. TxCount - 1 |-> [buf |-> RxCount + i + 1, mac |-> FALSE]]
      /\ rxIndex = 0 /\ macRx = 0 /\ txIndex = 0 /\ macTx = 0
      /\ complete = FALSE
      /\ arp = [p \in Peers |-> "none"]
      /\ dest = [b \in Buffers |-> Null]
      /\ content = [b \in Buffers |-> Nothing]
      /\ held = {}
      /\ pc = "idle" /\ back = "idle" /\ cursor = Null /\ resolved = Null
      /\ arrived = 0 /\ sent = 0
      /\ accepted = [q \in Ports |-> <<>>] /\ got = [q \in Ports |-> <<>>]
      /\ requests = [p \in Peers |-> 0] /\ replies = [p \in Peers |-> 0]
      /\ answered = {} /\ queuedFor = {} /\ dropped = 0

-----------------------------------------------------------------------------
(* The MAC.  A frame that arrives goes to the next descriptor, if that is  *)
(* the MAC's, and is lost otherwise.  The buffers of the ring take whole   *)
(* frames, so that SOF and EOF are both set in every one.                  *)
Arrive(f) ==
  /\ ~rx[macRx].full
  /\ rx' = [rx EXCEPT ![macRx].full = TRUE, ![macRx].frame = f]
  /\ macRx' = (macRx + 1) % RxCount
  /\ accepted' = IF f.kind = "udp" THEN [accepted EXCEPT ![f.of] = Append(@, f.id)]
                 ELSE accepted
  /\ replies' = IF f.kind = "reply" THEN [replies EXCEPT ![f.of] = @ + 1] ELSE replies
  /\ UNCHANGED <<links, rxIndex, tx, txIndex, macTx, complete, arp, dest, content,
                 held, threadVars, sent, got, requests, answered, queuedFor, dropped>>

(* A frame of the network: a packet, an ARP request or reply of any host,  *)
(* whether or not it was asked and as often as it likes, another type.     *)
FrameArrives ==
  /\ arrived < MaxFrames
  /\ arrived' = arrived + 1
  /\ \E f \in [kind : {"udp"}, of : Ports, id : {arrived'}]
              \union [kind : {"request", "reply"}, of : Peers, id : {0}]
              \union {Nothing} :
       Arrive(f)

(* The MAC sends the frame of the descriptor it is at and hands it back.   *)
Transmit ==
  /\ tx[macTx].mac
  /\ tx' = [tx EXCEPT ![macTx].mac = FALSE]
  /\ macTx' = (macTx + 1) % TxCount
  /\ complete' = TRUE
  /\ UNCHANGED <<links, rx, rxIndex, macRx, txIndex, arp, dest, content, held,
                 threadVars, arrived, sent, history>>

-----------------------------------------------------------------------------
(* The thread in the stack: stops, or goes on at a step.                   *)
Stop(why) ==
  /\ pc' = why
  /\ UNCHANGED <<links, ringVars, arp, dest, content, held, back, cursor, resolved,
                 arrived, sent, history>>

(* alloc_netbuf finds the pool empty, or its first node without links.     *)
PoolEmpty(l) == l.next[Pool] = Pool
Broken(l) == l.next[Pool] = Null \/ l.prev[l.next[Pool]] = Null

(* gmac_send_raw takes b for the descriptor.  Then come its assertions:    *)
(* what is in b may be too long if nobody has set its length.              *)
Hand(b, f, then) ==
  \/ /\ tx' = [tx EXCEPT ![txIndex] = [buf |-> b, mac |-> TRUE]]
     /\ pc' = "wait"
     /\ back' = then
  \/ /\ f = Answer
     /\ tx' = [tx EXCEPT ![txIndex].buf = b]
     /\ pc' = "bad length"
     /\ UNCHANGED back

(* Variant: the buffer that is freed is the one that is sent. *)
SendRawFreesSent(l, b, f, then) ==
  IF tx[txIndex].mac
  THEN pc' = "tx error" /\ links' = l /\ UNCHANGED <<tx, back>>
  ELSE links' = AddFirst(l, b, Pool) /\ Hand(b, f, then)

(* gmac_send_raw up to the wait: the buffer that the descriptor had goes   *)
(* back to the pool, l being the links so far, and the MAC gets b with f.  *)
SendRaw(l, b, f, then) ==
  IF tx[txIndex].mac
  THEN pc' = "tx error" /\ links' = l /\ UNCHANGED <<tx, back>>
  ELSE links' = AddFirst(l, tx[txIndex].buf, Pool) /\ Hand(b, f, then)

(* The end of gmac_send_raw: TXCOMP is set, and the index moves on.        *)
SendDone ==
  /\ pc = "wait"
  /\ complete
  /\ txIndex' = (txIndex + 1) % TxCount
  /\ pc' = back
  /\ UNCHANGED <<links, rx, rxIndex, macRx, tx, macTx, complete, arp, dest, content,
                 held, back, cursor, resolved, arrived, sent, history>>

(* mac_send: to a known address, or into arp_queue and an ARP request for  *)
(* the address, for which arp_request takes a buffer r of its own.         *)
MacSend(l, b, f, p) ==
  IF arp[p] = "known"
  THEN /\ dest' = [dest EXCEPT ![b] = p]
       /\ content' = [content EXCEPT ![b] = f]
       /\ SendRaw(l, b, f, "idle")
       /\ UNCHANGED <<arp, requests, queuedFor>>
  ELSE LET m == AddFirst(l, b, ArpQueue)
           r == m.next[Pool]
       IN  /\ dest' = [dest EXCEPT ![b] = p]
           /\ queuedFor' = queuedFor \union {p}
           /\ arp' = [arp EXCEPT ![p] = "waiting"]
           /\ IF PoolEmpty(m) \/ Broken(m)
              THEN /\ pc' = IF PoolEmpty(m) THEN "no buffer" ELSE "fault"
                   /\ links' = m
                   /\ UNCHANGED <<tx, back, content, requests>>
              ELSE /\ SendRaw(DeleteFirst(m, Pool), r, Nothing, "idle")
                   /\ content' = [content EXCEPT ![b] = f, ![r] = Nothing]
                   /\ requests' = [requests EXCEPT ![p] = @ + 1]

(* udp_send to a host (the thread tx, the TFTP client), or a broadcast     *)
(* (the DHCP client); alloc_netbuf may find nothing, and then they stop.   *)
SendPacket ==
  /\ pc = "idle" /\ sent < MaxSends
  /\ IF PoolEmpty(links) \/ Broken(links)
     THEN Stop(IF PoolEmpty(links) THEN "no buffer" ELSE "fault")
     ELSE LET b == links.next[Pool]
              l == DeleteFirst(links, Pool)
          IN  /\ \/ \E p \in Peers : MacSend(l, b, Nothing, p)
                 \/ /\ SendRaw(l, b, Nothing, "idle")
                    /\ content' = [content EXCEPT ![b] = Nothing]
                    /\ UNCHANGED <<arp, dest, requests, queuedFor>>
              /\ sent' = sent + 1
              /\ UNCHANGED <<rx, rxIndex, macRx, txIndex, macTx, complete, held,
                             cursor, resolved, arrived, accepted, got, replies,
                             answered, dropped>>

(* udp_rec finds a packet in the queue of its port.                        *)
TakeFromPort(q) ==
  LET b == links.next[q]
  IN  /\ pc = "idle"
      /\ b # q
      /\ links' = DeleteFirst(links, q)
      /\ held' = held \union {b}
      /\ got' = [got EXCEPT ![q] = Append(@, content[b].id)]
      /\ UNCHANGED <<ringVars, arp, dest, content, threadVars, arrived, sent,
                     accepted, requests, replies, answered, queuedFor, dropped>>

(* gmac_rec_raw: the frame's buffer is exchanged for one of the pool.      *)
RecRaw ==
  /\ rx' = [rx EXCEPT ![rxIndex] = [buf |-> links.next[Pool], full |-> FALSE,
                                     frame |-> Nothing]]
  /\ rxIndex' = (rxIndex + 1) % RxCount
  /\ UNCHANGED <<macRx, txIndex, macTx, complete, arrived, sent, accepted, replies>>

(* udp_rec with an empty port: mac_receive takes one frame through the     *)
(* stack, and the port is looked at once more.                             *)
MayReceive(q, kind) ==
  /\ pc = "idle"
  /\ links.next[q] = q
  /\ rx[rxIndex].full
  /\ rx[rxIndex].frame.kind = kind

CanAllocate == ~PoolEmpty(links) /\ ~Broken(links)

(* Variant: udp_handle puts the packet first in the queue of its port.     *)
ReceiveUdpFirst(q) ==
  LET f == rx[rxIndex].frame
      b == rx[rxIndex].buf
      l == AddFirst(DeleteFirst(links, Pool), b, f.of)
  IN  /\ MayReceive(q, "udp") /\ CanAllocate
      /\ RecRaw
      /\ links' = IF f.of = q THEN DeleteFirst(l, q) ELSE l
      /\ content' = [content EXCEPT ![b] = f]
      /\ got' = IF f.of = q THEN [got EXCEPT ![q] = Append(@, f.id)] ELSE got
      /\ IF f.of = q THEN held' = held \union {b} ELSE UNCHANGED held
      /\ UNCHANGED <<tx, arp, dest, threadVars, requests, answered, queuedFor, dropped>>

ReceiveUdp(q) ==
  LET f == rx[rxIndex].frame
      b == rx[rxIndex].buf
      l == AddLast(DeleteFirst(links, Pool), b, f.of)
  IN  /\ MayReceive(q, "udp") /\ CanAllocate
      /\ RecRaw
      /\ links' = IF f.of = q THEN DeleteFirst(l, q) ELSE l
      /\ content' = [content EXCEPT ![b] = f]
      /\ got' = IF f.of = q THEN [got EXCEPT ![q] = Append(@, f.id)] ELSE got
      /\ IF f.of = q THEN held' = held \union {b} ELSE UNCHANGED held
      /\ UNCHANGED <<tx, arp, dest, threadVars, requests, answered, queuedFor, dropped>>

(* arp_handle_req: the answer takes another buffer and goes through        *)
(* mac_send, which may have to ask for the asker's address first.          *)
ReceiveRequest(q) ==
  LET l == DeleteFirst(links, Pool)
      p == rx[rxIndex].frame.of
  IN  /\ MayReceive(q, "request") /\ CanAllocate
      /\ RecRaw
      /\ dropped' = dropped + 1
      /\ answered' = answered \union {p}
      /\ IF PoolEmpty(l) \/ Broken(l)
         THEN /\ pc' = IF PoolEmpty(l) THEN "no buffer" ELSE "fault"
              /\ links' = l
              /\ UNCHANGED <<tx, back, arp, dest, content, requests, queuedFor>>
         ELSE MacSend(DeleteFirst(l, Pool), l.next[Pool], Answer, p)
      /\ UNCHANGED <<held, cursor, resolved, got>>

(* arp_handle_reply: the entry must wait for it; then mac_unqueue.         *)
ReceiveReply(q) ==
  LET p == rx[rxIndex].frame.of
  IN  /\ MayReceive(q, "reply") /\ CanAllocate
      /\ RecRaw
      /\ links' = DeleteFirst(links, Pool)
      /\ dropped' = dropped + 1
      /\ IF arp[p] = "waiting"
         THEN /\ arp' = [arp EXCEPT ![p] = "known"]
              /\ resolved' = p
              /\ cursor' = links'.next[ArpQueue]
              /\ pc' = "unqueue"
         ELSE pc' = "no mapping" /\ UNCHANGED <<arp, resolved, cursor>>
      /\ UNCHANGED <<tx, dest, content, held, back, got, requests, answered, queuedFor>>

(* Any other frame: its buffer is forgotten.                               *)
ReceiveOther(q) ==
  /\ MayReceive(q, "none") /\ CanAllocate
  /\ RecRaw
  /\ links' = DeleteFirst(links, Pool)
  /\ dropped' = dropped + 1
  /\ UNCHANGED <<tx, arp, dest, content, held, threadVars, got, requests, answered,
                 queuedFor>>

(* The pool has no buffer to exchange: gmac_rec_raw's assertion.           *)
ReceiveNothing(q) ==
  /\ \E kind \in {"udp", "request", "reply", "none"} : MayReceive(q, kind)
  /\ ~CanAllocate
  /\ Stop(IF PoolEmpty(links) THEN "no buffer" ELSE "fault")

(* Variant: a packet is unlinked before the walk reads its next.           *)
UnqueueUnlinks ==
  /\ pc = "unqueue"
  /\ \/ /\ cursor \in Buffers /\ dest[cursor] = resolved
        /\ SendRaw(Unlink(links, cursor), cursor, content[cursor], "unqueue")
        /\ cursor' = links'.next[cursor]
     \/ /\ cursor \in Buffers /\ dest[cursor] # resolved
        /\ cursor' = links.next[cursor]
        /\ UNCHANGED <<links, tx, pc, back>>
     \/ /\ cursor \notin Buffers
        /\ pc' = CASE cursor = ArpQueue -> "idle"
                   [] cursor = Null -> "fault"
                   [] OTHER -> "hang"
        /\ UNCHANGED <<links, tx, back, cursor>>
  /\ UNCHANGED <<rx, rxIndex, macRx, txIndex, macTx, complete, arp, dest, content,
                 held, resolved, arrived, sent, history>>

(* mac_unqueue's loop: the packets for the address are sent, and stay in   *)
(* the list.  A walk that leaves the list never comes back to its head.    *)
Unqueue ==
  /\ pc = "unqueue"
  /\ \/ /\ cursor \in Buffers /\ dest[cursor] = resolved
        /\ SendRaw(links, cursor, content[cursor], "unqueue")
        /\ cursor' = links'.next[cursor]
     \/ /\ cursor \in Buffers /\ dest[cursor] # resolved
        /\ cursor' = links.next[cursor]
        /\ UNCHANGED <<links, tx, pc, back>>
     \/ /\ cursor \notin Buffers
        /\ pc' = CASE cursor = ArpQueue -> "idle"
                   [] cursor = Null -> "fault"
                   [] OTHER -> "hang"
        /\ UNCHANGED <<links, tx, back, cursor>>
  /\ UNCHANGED <<rx, rxIndex, macRx, txIndex, macTx, complete, arp, dest, content,
                 held, resolved, arrived, sent, history>>

(* free_netbuf of an application.                                          *)
FreeNetbuf(b) ==
  /\ pc = "idle" /\ b \in held
  /\ held' = held \ {b}
  /\ links' = AddFirst(links, b, Pool)
  /\ UNCHANGED <<ringVars, arp, dest, content, threadVars, arrived, sent, history>>

NextNet ==
  \/ FrameArrives \/ Transmit
  \/ SendPacket \/ SendDone \/ Unqueue
  \/ \E q \in Ports : TakeFromPort(q) \/ ReceiveUdp(q) \/ ReceiveRequest(q)
                       \/ ReceiveReply(q) \/ ReceiveOther(q) \/ ReceiveNothing(q)
  \/ \E b \in held : FreeNetbuf(b)

SpecNet == InitNet /\ [][NextNet]_netVars

-----------------------------------------------------------------------------
(* Packets were queued for one address at most.                            *)
OneQueued == Cardinality(queuedFor) <= 1

InPorts == UNION {Listed(q) : q \in Ports}

(* While mac_unqueue walks, what its list held before the cursor has been  *)
(* sent, and the pool may have it again.                                   *)
Walking == pc = "unqueue" \/ (pc = "wait" /\ back = "unqueue")
Waiting == IF Walking THEN Walk(cursor) ELSE Listed(ArpQueue)

(* A buffer that is in the pool, in a ring, in the queue of a port or with *)
(* an application is in none of the others, so the MAC never reads or      *)
(* writes a buffer that someone can allocate, and no buffer is lost but    *)
(* those of the received frames that no port takes.                        *)
BuffersApart ==
  OneQueued /\ pc \in {"idle", "wait", "unqueue"} =>
    LET places == <<Listed(Pool), {rx[i].buf : i \in DOMAIN rx},
                    {tx[i].buf : i \in DOMAIN tx}, held>>
        all == (UNION Range(places)) \union InPorts
    IN  /\ \A i, j \in DOMAIN places : i # j => places[i] \intersect places[j] = {}
        /\ \A i \in DOMAIN places : places[i] \intersect InPorts = {}
        /\ Cardinality(Buffers \ (all \union Waiting)) <= dropped

(* The packets that a port's applications get are the packets for it that  *)
(* the receive ring took, each once and in the order of their arrival.     *)
DeliveredInOrder ==
  OneQueued => \A q \in Ports : IsPrefix(got[q], accepted[q])

(* While packets were queued for one address only, the stack meets no      *)
(* broken list.  It stops for an ARP reply only when the address had been  *)
(* asked for more than once, or a host has sent more replies than it was   *)
(* asked for; and for the length of a frame only when it had an ARP        *)
(* request to answer.  One packet at a time to one host is safe, as long   *)
(* as the hosts ask nothing and answer once.                               *)
StopsExplained ==
  OneQueued =>
    /\ pc \notin {"fault", "hang"}
    /\ pc = "no mapping" => \E p \in Peers : requests[p] > 1 \/ replies[p] > requests[p]
    /\ pc = "bad length" => answered # {}
=============================================================================
