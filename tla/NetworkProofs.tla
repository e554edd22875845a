---------------------------- MODULE NetworkProofs ----------------------------
(***************************************************************************)
(* Proofs about the network.  First its clients, Tftp with the Dhcp it     *)
(* extends, for any number of DHCP servers, any file, any modulus of the   *)
(* block numbers, and packets that are lost, come again, or come from      *)
(* strangers.  Then the stack, Net, for any number of buffers, of          *)
(* descriptors in the rings, of ports and of hosts: the buffers stay       *)
(* apart, and what the applications get is what arrived, as long as        *)
(* packets wait for one address at most.                                   *)
(***************************************************************************)
EXTENDS Tftp, Net, ListLemmas, FiniteSetTheorems

(* DHCP.  The request names the address of the offer that was taken, and   *)
(* who acknowledges it to this client has granted that address.            *)
RequestTakesOffer ==
  \A m \in wire : m.type = "request" => dhcp \in {"ack", "bound"} /\ m.ip = ipStruct.ip

AckIsGrant ==
  \A m \in wire : m.type = "ack" /\ m.tid = Tid /\ Tid \notin others =>
    /\ dhcp \in {"ack", "bound"}
    /\ \E s \in DhcpServers : lease[s] = ipStruct.ip

DhcpInv ==
  /\ lease \in [DhcpServers -> (DhcpServers \X {"ours"}) \union {NoAddress}]
  /\ \A s \in DhcpServers : lease[s] \in {NoAddress, Given(s)}
  /\ RequestTakesOffer
  /\ AckIsGrant
  /\ AddressIsGranted

Blocks == [at : 1 .. MaxBlocks, full : BOOLEAN]

(* TFTP.  What changes at no time or in no order. *)
Ranges ==
  /\ file \in Seq(Blocks) /\ Len(file) > 0
  /\ \A i \in 1 .. Len(file) : file[i] = Block(i, Len(file))
  /\ block \in 1 .. Wrap
  /\ position \in -1 .. Len(file)
  /\ tftp \in {"start", "options", "data", "done", "panic"}
  /\ tftp \in {"start", "options"} => block = 1
  /\ lost \in BOOLEAN /\ again \in BOOLEAN
  /\ refused \in BOOLEAN /\ stray \in BOOLEAN

(* The client's copy is the file up to the block it waits for. *)
CopySoFar ==
  ~stray =>
    /\ buffer \in Seq(Blocks)
    /\ block <= Len(file) + 1 /\ Len(buffer) = block - 1
    /\ \A i \in 1 .. Len(buffer) : buffer[i] = file[i]
    /\ tftp = "done" => block = Len(file) + 1

(* The server never has sent more than the block that the client waits     *)
(* for, until the numbers wrap: the client has sent no ACK of it.          *)
InToServer ==
  /\ tftp = "start" => toServer = {} /\ position = -1
  /\ \A m \in toServer :
       \/ m.type = "request"
       \/ \E k \in 0 .. block - 1 : m = Ack(k) /\ tftp \notin {"start", "options"}

ServerNotAhead == position <= block \/ block = Wrap

InToClient ==
  \A m \in toClient :
    \/ m \in StrangePackets /\ stray
    \/ m = Error /\ refused
    \/ m = Options
    \/ \E n \in 1 .. Len(file) : m = Data(n) /\ (n <= block \/ block = Wrap)

(* What is not disturbed goes in lockstep: one packet is on its way that   *)
(* moves the transfer on, or it is lost.                                   *)
Lockstep ==
  ~Disturbed =>
    /\ tftp # "panic"
    /\ tftp \in {"start", "options"} <=> position = -1 \/ (position = 0 /\ tftp = "options")
    /\ tftp \in {"data", "done"} => position = block - 1 \/ position = block
    /\ \A m \in toServer :
         m.type = "request" => position = -1 /\ tftp = "options" /\ toServer = {m}
    /\ position = -1 => toClient = {}
    /\ \A m \in toClient :
         \/ m = Options /\ position = 0 /\ tftp = "options"
         \/ m = Data(block) /\ position = block /\ tftp = "data"

TftpInv ==
  Ranges /\ CopySoFar /\ InToServer /\ ServerNotAhead /\ InToClient /\ Lockstep

-----------------------------------------------------------------------------
LEMMA InitDhcpInv == InitDhcp => DhcpInv
BY DEF InitDhcp, DhcpInv, RequestTakesOffer, AckIsGrant, AddressIsGranted, Message

LEMMA NextDhcpInv ==
  ASSUME DhcpInv, DhcpNext
  PROVE  DhcpInv'
<1> USE DEF DhcpInv, RequestTakesOffer, AckIsGrant, AddressIsGranted, Message
<1>1. CASE Discover
  BY <1>1 DEF Discover
<1>2. CASE ReceiveOffer
  BY <1>2 DEF ReceiveOffer
<1>3. CASE SendRequest
  BY <1>3 DEF SendRequest
<1>4. CASE ReceiveAck
  BY <1>4 DEF ReceiveAck, Valid
<1>5. ASSUME NEW s \in DhcpServers, ServerOffer(s) PROVE DhcpInv'
  BY <1>5 DEF ServerOffer
<1>6. ASSUME NEW s \in DhcpServers, ServerAnswer(s) PROVE DhcpInv'
  <2>1. PICK m \in wire :
          /\ m.type = "request" /\ m.server = s
          /\ IF m.ip = Given(s)
             THEN /\ wire' = wire \union {Message("ack", Tid, s, m.ip)}
                  /\ lease' = [lease EXCEPT ![s] = m.ip]
             ELSE /\ wire' = wire \union {Message("nak", Tid, s, m.ip)}
                  /\ UNCHANGED lease
    BY <1>6 DEF ServerAnswer
  <2>2. UNCHANGED <<others, router, dhcp, ipStruct, ourIp>>
    BY <1>6 DEF ServerAnswer
  <2>3. dhcp \in {"ack", "bound"} /\ m.ip = ipStruct.ip
    BY <2>1
  <2>4. CASE m.ip = Given(s)
    <3>1. lease' = [lease EXCEPT ![s] = Given(s)]
      BY <2>1, <2>4
    <3>2. /\ lease' \in [DhcpServers -> (DhcpServers \X {"ours"}) \union {NoAddress}]
          /\ \A r \in DhcpServers : lease'[r] \in {NoAddress, Given(r)}
          /\ lease'[s] = ipStruct.ip
      BY <2>3, <2>4, <3>1 DEF Given
    <3>3. \A r \in DhcpServers : lease[r] # NoAddress => lease'[r] = lease[r]
      BY <3>1
    <3>4. AddressIsGranted'
      BY <2>2, <3>3
    <3>5. wire' = wire \union {Message("ack", Tid, s, m.ip)}
      BY <2>1, <2>4
    <3>6. RequestTakesOffer'
      BY <2>2, <3>5
    <3>7. AckIsGrant'
      BY <2>2, <2>3, <3>2, <3>5
    <3> QED
      BY <3>2, <3>4, <3>6, <3>7
  <2>5. CASE m.ip # Given(s)
    BY <2>1, <2>2, <2>5
  <2> QED
    BY <2>4, <2>5
<1> QED
  BY <1>1, <1>2, <1>3, <1>4, <1>5, <1>6 DEF DhcpNext

(* The host only uses an address that a server has granted it, unless      *)
(* another host has the same transaction number.                           *)
THEOREM AddressGranted == Spec => []AddressIsGranted
<1>1. Init => DhcpInv
  BY InitDhcpInv DEF Init
<1>2. DhcpInv /\ [Next]_vars => DhcpInv'
  <2> SUFFICES ASSUME DhcpInv, [Next]_vars PROVE DhcpInv'
    OBVIOUS
  <2>1. CASE DhcpNext
    BY <2>1, NextDhcpInv
  <2>2. CASE UNCHANGED dhcpVars
    BY <2>2 DEF dhcpVars, DhcpInv, RequestTakesOffer, AckIsGrant, AddressIsGranted
  <2> QED
    BY <2>1, <2>2 DEF Next, vars
<1>3. DhcpInv => AddressIsGranted
  BY DEF DhcpInv
<1> QED
  BY <1>1, <1>2, <1>3, PTL DEF Spec

-----------------------------------------------------------------------------
LEMMA InitTftpInv == InitTftp => TftpInv
<1> SUFFICES ASSUME InitTftp PROVE TftpInv
  OBVIOUS
<1>1. PICK n \in 1 .. MaxBlocks : file = [i \in 1 .. n |-> Block(i, n)]
  BY DEF InitTftp
<1>2. n \in Nat /\ n > 0 /\ Len(file) = n
  BY <1>1, TftpAssumption DEF TftpAssumption
<1>3. \A i \in 1 .. n : Block(i, n) \in Blocks
  BY <1>2, TftpAssumption DEF Block, Blocks, TftpAssumption
<1>4. file \in Seq(Blocks) /\ \A i \in 1 .. Len(file) : file[i] = Block(i, Len(file))
  BY <1>1, <1>2, <1>3
<1>5. Ranges
  <2>1. block = 1 /\ position = -1 /\ tftp = "start"
    BY DEF InitTftp
  <2>2. block \in 1 .. Wrap /\ position \in -1 .. Len(file)
    BY <1>2, <2>1, TftpAssumption DEF TftpAssumption
  <2>3. lost \in BOOLEAN /\ again \in BOOLEAN /\ refused \in BOOLEAN /\ stray \in BOOLEAN
    BY DEF InitTftp
  <2> QED
    BY <1>2, <1>4, <2>1, <2>2, <2>3 DEF Ranges
<1>6. CopySoFar
  BY <1>2 DEF InitTftp, CopySoFar
<1>7. InToServer /\ ServerNotAhead /\ InToClient /\ Lockstep
  BY DEF InitTftp, InToServer, ServerNotAhead, InToClient, Lockstep
<1> QED
  BY <1>5, <1>6, <1>7 DEF TftpInv

(* A number of a packet is that of the block that the client waits for,    *)
(* and nothing later is on its way.                                        *)
LEMMA NumberOfBlock ==
  ASSUME NEW n \in Nat, NEW b \in Nat, n <= b, n % Wrap = b
  PROVE  n = b
<1>1. n % Wrap <= n
  <2>1. CASE n < Wrap
    BY <2>1, TftpAssumption DEF TftpAssumption
  <2>2. CASE n >= Wrap
    <3>1. n % Wrap < Wrap
      BY TftpAssumption DEF TftpAssumption
    <3> QED
      BY <2>2, <3>1, TftpAssumption DEF TftpAssumption
  <2> QED
    BY <2>1, <2>2, TftpAssumption DEF TftpAssumption
<1> QED
  BY <1>1, TftpAssumption DEF TftpAssumption

LEMMA NumberInRange ==
  ASSUME NEW n \in Nat
  PROVE  n % Wrap \in 0 .. Wrap - 1
BY TftpAssumption DEF TftpAssumption

LEMMA NumberBelowWrap ==
  ASSUME NEW n \in Nat, n < Wrap
  PROVE  n % Wrap = n
BY TftpAssumption DEF TftpAssumption

(* The ACKs of two blocks up to the last number differ, but for 0 and Wrap.*)
LEMMA AckOfBlock ==
  ASSUME NEW k \in Nat, NEW n \in Nat, k < n, n <= Wrap, Ack(k) = Ack(n)
  PROVE  n = Wrap
<1>1. k % Wrap = n % Wrap
  BY DEF Ack
<1>2. k % Wrap = k
  BY NumberBelowWrap, TftpAssumption DEF TftpAssumption
<1>3. n < Wrap => n % Wrap = n
  BY NumberBelowWrap
<1> QED
  BY <1>1, <1>2, <1>3, TftpAssumption DEF TftpAssumption

(* All blocks but the last are full. *)
LEMMA BlockFull ==
  ASSUME NEW n, NEW last
  PROVE  Block(n, last).full <=> n # last
BY DEF Block

(* What a packet is, by its type. *)
LEMMA PacketTypes ==
  /\ Error.type = "error" /\ Options.type = "options"
  /\ \A n : Ack(n).type = "ack" /\ Data(n).type = "data"
  /\ \A n : Data(n).block = file[n] /\ Data(n).number = n % Wrap
BY DEF Error, Options, Ack, Data

LEMMA StrangeTypes ==
  ASSUME NEW m \in StrangePackets
  PROVE  /\ m.type \in {"options", "error", "data"}
         /\ m.type = "data" => m.number \in 0 .. Wrap - 1
BY DEF StrangePackets, NotOurs

(* The packets are the same ones after a step that leaves the file.        *)
LEMMA SamePackets ==
  ASSUME file' = file
  PROVE  Options' = Options /\ Error' = Error /\ \A n : Data(n)' = Data(n)
BY DEF Options, Error, Data

(* Once disturbed, always disturbed. *)
LEMMA StaysDisturbed ==
  ASSUME file' = file, again => again', refused => refused', stray => stray'
  PROVE  Disturbed => Disturbed'
BY DEF Disturbed

LEMMA ArrivesKeeps ==
  ASSUME again \in BOOLEAN, NEW m, Arrives(m)
  PROVE  /\ toClient' \subseteq toClient
         /\ UNCHANGED <<lost, refused, stray>>
         /\ again' \in BOOLEAN /\ (again => again')
         /\ toClient' = toClient \ {m} \/ again'
<1>1. toClient' \subseteq toClient /\ UNCHANGED <<lost, refused, stray>>
  BY DEF Arrives
<1>2. CASE toClient' = toClient \ {m} /\ UNCHANGED again
  BY <1>1, <1>2, Zenon
<1>3. CASE again' = TRUE
  BY <1>1, <1>3, Zenon
<1> QED
  BY <1>2, <1>3, Zenon DEF Arrives

-----------------------------------------------------------------------------
(* The client takes the block it waits for, unless a stranger has sent it. *)
LEMMA TakesItsBlock ==
  ASSUME TftpInv, NEW m \in toClient, m.type = "data", m.number = block, ~stray
  PROVE  /\ block <= Len(file) /\ m = Data(block) /\ m.block = file[block]
         /\ m.block.full <=> block # Len(file)
<1> USE DEF TftpInv
<1>1. block \in Nat /\ Len(file) \in Nat /\ block >= 1 /\ block <= Wrap /\ Wrap \in Nat
  BY TftpAssumption DEF Ranges, TftpAssumption
<1>2. PICK n \in 1 .. Len(file) : m = Data(n) /\ (n <= block \/ block = Wrap)
  BY PacketTypes DEF InToClient
<1>3. n % Wrap = block /\ n \in Nat
  BY <1>1, <1>2, PacketTypes
<1>4. block # Wrap
  BY <1>1, <1>3, NumberInRange
<1>5. n = block
  BY <1>1, <1>2, <1>3, <1>4, NumberOfBlock
<1>6. file[block] = Block(block, Len(file))
  BY <1>1, <1>2, <1>5 DEF Ranges
<1> QED
  BY <1>1, <1>2, <1>5, <1>6, PacketTypes, BlockFull

LEMMA TakeBlockStep ==
  ASSUME TftpInv, NEW m \in toClient, ReceiveData(m),
         m.type = "data", m.number = block
  PROVE  TftpInv'
<1> USE DEF TftpInv
<1>1. /\ tftp = "data" /\ toClient' \subseteq toClient
      /\ UNCHANGED <<file, position, lost, refused, stray>>
      /\ again' \in BOOLEAN /\ (again => again')
      /\ toClient' = toClient \ {m} \/ again'
  BY ArrivesKeeps, Zenon DEF ReceiveData, Ranges
<1>2. /\ buffer' = Append(buffer, m.block)
      /\ toServer' = toServer \union {Ack(block)}
      /\ block' = block + 1
      /\ tftp' = IF m.block.full THEN "data" ELSE "done"
  BY DEF ReceiveData, TakeBlock
<1>3. /\ block \in Nat /\ Len(file) \in Nat /\ block >= 1 /\ block <= Wrap /\ Wrap \in Nat
      /\ position \in Int
  BY TftpAssumption DEF Ranges, TftpAssumption
<1>4. block < Wrap
  <2>1. ASSUME m \in StrangePackets PROVE block # Wrap
    BY <1>3, <2>1, StrangeTypes
  <2>2. ASSUME NEW n \in 1 .. Len(file), m = Data(n) PROVE block # Wrap
    <3>1. n % Wrap = block /\ n \in Nat
      BY <1>3, <2>2, PacketTypes
    <3> QED
      BY <1>3, <3>1, NumberInRange
  <2>3. m # Error /\ m # Options
    BY PacketTypes
  <2> QED
    BY <1>3, <2>1, <2>2, <2>3 DEF InToClient
<1>5. Ranges'
  BY <1>1, <1>2, <1>3, <1>4 DEF Ranges, disturbances
<1>6. CopySoFar'
  <2>1. SUFFICES ASSUME ~stray
                 PROVE  /\ buffer' \in Seq(Blocks)
                        /\ block' <= Len(file) + 1 /\ Len(buffer') = block' - 1
                        /\ \A i \in 1 .. Len(buffer') : buffer'[i] = file[i]
                        /\ tftp' = "done" => block' = Len(file) + 1
    BY <1>1 DEF CopySoFar
  <2>2. /\ block <= Len(file) /\ m.block = file[block]
        /\ m.block.full <=> block # Len(file)
    BY <2>1, TakesItsBlock
  <2>3. buffer \in Seq(Blocks) /\ Len(buffer) = block - 1
        /\ \A i \in 1 .. Len(buffer) : buffer[i] = file[i]
    BY <2>1 DEF CopySoFar
  <2>4. file[block] \in Blocks
    BY <1>3, <2>2 DEF Ranges
  <2>5. buffer' = Append(buffer, file[block])
    BY <1>2, <2>2
  <2>6. buffer' \in Seq(Blocks) /\ Len(buffer') = block
    BY <1>3, <2>3, <2>4, <2>5
  <2>7. \A i \in 1 .. Len(buffer') : buffer'[i] = file[i]
    BY <1>3, <2>3, <2>4, <2>5, <2>6
  <2> QED
    BY <1>2, <1>3, <2>2, <2>6, <2>7
<1>7. InToServer'
  <2>1. ASSUME NEW k \in toServer'
        PROVE  k.type = "request" \/ \E i \in 0 .. block' - 1 : k = Ack(i)
    <3>1. CASE k = Ack(block)
      BY <1>2, <1>3, <3>1
    <3>2. CASE k \in toServer
      BY <1>2, <1>3, <3>2 DEF InToServer
    <3> QED
      BY <1>2, <2>1, <3>1, <3>2
  <2>2. tftp' \notin {"start", "options"} /\ \A i : Ack(i)' = Ack(i)
    BY <1>2 DEF Ack
  <2> QED
    BY <2>1, <2>2 DEF InToServer
<1>8. ServerNotAhead'
  BY <1>1, <1>2, <1>3, <1>4 DEF ServerNotAhead
<1>9. InToClient'
  <2>1. SUFFICES ASSUME NEW k \in toClient'
                 PROVE  \/ k \in StrangePackets /\ stray
                        \/ k = Error /\ refused
                        \/ k = Options
                        \/ \E n \in 1 .. Len(file) : k = Data(n) /\ (n <= block' \/ block' = Wrap)
    BY <1>1, SamePackets DEF InToClient
  <2>2. k \in toClient
    BY <1>1
  <2>3. ASSUME NEW n \in 1 .. Len(file), k = Data(n), n <= block \/ block = Wrap
        PROVE  \E i \in 1 .. Len(file) : k = Data(i) /\ (i <= block' \/ block' = Wrap)
    BY <1>2, <1>3, <1>4, <2>3
  <2> QED
    BY <2>2, <2>3 DEF InToClient
<1>10. Lockstep'
  <2>1. SUFFICES ASSUME ~Disturbed' PROVE Lockstep'
    BY DEF Lockstep
  <2>2. ~Disturbed
    BY <1>1, <2>1, StaysDisturbed
  <2>3. m = Data(block) /\ position = block
    BY <1>1, <2>2, PacketTypes DEF Lockstep
  <2>4. toClient' = {}
    <3>1. ~again'
      BY <2>1 DEF Disturbed
    <3>2. \A k \in toClient : k = m
      BY <1>1, <2>2, <2>3 DEF Lockstep
    <3> QED
      BY <1>1, <3>1, <3>2
  <2>5. tftp' \in {"data", "done"}
    BY <1>2
  <2>6. \A k \in toServer' : k.type # "request"
    <3>1. \A k \in toServer : k.type # "request"
      BY <1>1, <2>2 DEF Lockstep
    <3> QED
      BY <1>2, <3>1, PacketTypes
  <2>7. position' = block' - 1 /\ position' # -1
    BY <1>1, <1>2, <1>3, <2>3
  <2> QED
    BY <1>1, <2>4, <2>5, <2>6, <2>7 DEF Lockstep
<1> QED
  BY <1>5, <1>6, <1>7, <1>8, <1>9, <1>10

LEMMA PanicStep ==
  ASSUME TftpInv, NEW m \in toClient, ReceiveData(m),
         ~(m.type = "data" /\ m.number = block)
  PROVE  TftpInv'
<1> USE DEF TftpInv
<1>1. /\ tftp = "data" /\ toClient' \subseteq toClient /\ tftp' = "panic"
      /\ UNCHANGED <<file, position, lost, refused, stray, buffer, toServer, block>>
      /\ again' \in BOOLEAN /\ (again => again')
  BY ArrivesKeeps, Zenon DEF ReceiveData, Ranges
<1>2. Ranges' /\ CopySoFar' /\ InToServer' /\ ServerNotAhead'
  BY <1>1 DEF Ranges, CopySoFar, InToServer, ServerNotAhead, Ack, disturbances
<1>3. InToClient'
  BY <1>1, SamePackets DEF InToClient
<1>4. Disturbed
  <2>1. SUFFICES ASSUME ~Disturbed PROVE FALSE
    OBVIOUS
  <2>2. m = Data(block) /\ position = block
    BY <1>1, <2>1, PacketTypes DEF Lockstep
  <2>3. block \in Nat /\ block < Wrap
    BY <2>1, <2>2, TftpAssumption DEF Ranges, Disturbed, TftpAssumption
  <2> QED
    BY <2>2, <2>3, NumberBelowWrap, PacketTypes
<1>5. Lockstep'
  BY <1>1, <1>4, StaysDisturbed DEF Lockstep
<1> QED
  BY <1>2, <1>3, <1>5

-----------------------------------------------------------------------------
(* The other steps of the client, the server and the network.              *)
LEMMA SendReadStep ==
  ASSUME TftpInv, SendRead
  PROVE  TftpInv'
<1> USE DEF TftpInv
<1>1. /\ tftp = "start" /\ tftp' = "options" /\ toServer' = toServer \union {Request(ourIp)}
      /\ UNCHANGED <<file, buffer, block, toClient, position, lost, again, refused, stray>>
  BY DEF SendRead, disturbances
<1>2. toServer = {} /\ position = -1
  BY <1>1 DEF InToServer
<1>3. toServer' = {Request(ourIp)} /\ Request(ourIp).type = "request"
  BY <1>1, <1>2 DEF Request
<1>4. Ranges' /\ CopySoFar' /\ InToServer' /\ ServerNotAhead'
  BY <1>1, <1>3 DEF Ranges, CopySoFar, InToServer, ServerNotAhead, disturbances
<1>5. InToClient'
  BY <1>1, SamePackets DEF InToClient
<1>6. Disturbed' = Disturbed
  BY <1>1 DEF Disturbed
<1>7. Lockstep'
  <2>1. SUFFICES ASSUME ~Disturbed PROVE Lockstep'
    BY <1>6 DEF Lockstep
  <2>2. toClient = {}
    BY <1>2, <2>1 DEF Lockstep
  <2> QED
    BY <1>1, <1>2, <1>3, <2>2 DEF Lockstep
<1> QED
  BY <1>4, <1>5, <1>7

LEMMA ReceiveOptionsStep ==
  ASSUME TftpInv, NEW m \in toClient, ReceiveOptions(m)
  PROVE  TftpInv'
<1> USE DEF TftpInv
<1>1. /\ tftp = "options" /\ toClient' \subseteq toClient
      /\ UNCHANGED <<file, buffer, block, position, lost, refused, stray>>
      /\ again' \in BOOLEAN /\ (again => again')
      /\ toClient' = toClient \ {m} \/ again'
  BY ArrivesKeeps, Zenon DEF ReceiveOptions, Ranges
<1>2. \/ m.type = "options" /\ tftp' = "data" /\ toServer' = toServer \union {Ack(0)}
      \/ m.type # "options" /\ tftp' = "panic" /\ toServer' = toServer
  BY DEF ReceiveOptions
<1>3. Ranges' /\ CopySoFar' /\ ServerNotAhead'
  BY <1>1, <1>2 DEF Ranges, CopySoFar, ServerNotAhead, disturbances
<1>4. InToClient'
  BY <1>1, SamePackets DEF InToClient
<1>5. InToServer'
  <2>1. block = 1 /\ tftp' \notin {"start", "options"}
    BY <1>1, <1>2 DEF Ranges
  <2>2. \A k \in toServer : k.type = "request"
    BY <1>1 DEF InToServer
  <2>3. \A i : Ack(i)' = Ack(i)
    BY DEF Ack
  <2> QED
    BY <1>1, <1>2, <2>1, <2>2, <2>3 DEF InToServer
<1>6. Lockstep'
  <2>1. SUFFICES ASSUME ~Disturbed' PROVE Lockstep'
    BY DEF Lockstep
  <2>2. ~Disturbed
    BY <1>1, <2>1, StaysDisturbed
  <2>3. m = Options /\ position = 0
    BY <1>1, <2>2 DEF Lockstep
  <2>4. tftp' = "data" /\ toServer' = toServer \union {Ack(0)} /\ block = 1
    BY <1>1, <1>2, <2>3, PacketTypes DEF Ranges
  <2>5. toClient' = {}
    <3>1. ~again'
      BY <2>1 DEF Disturbed
    <3>2. \A k \in toClient : k = m
      BY <1>1, <2>2, <2>3 DEF Lockstep
    <3> QED
      BY <1>1, <3>1, <3>2
  <2>6. \A k \in toServer' : k.type # "request"
    <3>1. \A k \in toServer : k.type # "request"
      BY <2>2, <2>3 DEF Lockstep
    <3> QED
      BY <2>4, <3>1, PacketTypes
  <2> QED
    BY <1>1, <2>3, <2>4, <2>5, <2>6 DEF Lockstep
<1> QED
  BY <1>3, <1>4, <1>5, <1>6

LEMMA ServerStartStep ==
  ASSUME TftpInv, NEW m \in toServer, ServerStart(m)
  PROVE  TftpInv'
<1> USE DEF TftpInv
<1>1. /\ m.type = "request" /\ toServer' \subseteq toServer
      /\ UNCHANGED <<file, buffer, tftp, block, lost, stray>>
      /\ again' \in BOOLEAN /\ refused' \in BOOLEAN
      /\ (again => again') /\ (refused => refused')
      /\ toServer' = toServer \ {m} \/ again'
  <2>1. again \in BOOLEAN /\ refused \in BOOLEAN
    BY DEF Ranges
  <2>2. /\ m.type = "request" /\ toServer' \subseteq toServer
        /\ UNCHANGED <<file, buffer, tftp, block, lost, stray>>
        /\ toServer' = toServer \/ toServer' = toServer \ {m}
    BY DEF ServerStart
  <2>3. again' = (again \/ m \in toServer') /\ (UNCHANGED refused \/ refused' = TRUE)
    BY Zenon DEF ServerStart
  <2>4. refused' \in BOOLEAN /\ (refused => refused')
    BY <2>1, <2>3, Zenon
  <2>5. again' \in BOOLEAN /\ (again => again') /\ (again' \/ m \notin toServer')
    BY <2>1, <2>3, Zenon
  <2>6. toServer' = toServer \ {m} \/ again'
    BY <2>2, <2>5, Zenon
  <2> QED
    BY <2>2, <2>4, <2>5, <2>6
<1>2. \/ /\ toClient' = toClient \union {Options}
         /\ position' = IF position = -1 THEN 0 ELSE position
      \/ toClient' = toClient \union {Error} /\ refused' = TRUE /\ position' = position
  BY DEF ServerStart
<1>3. /\ block \in Nat /\ block >= 1 /\ Len(file) \in Nat /\ position \in Int
      /\ tftp # "start"
  BY DEF Ranges, InToServer
<1>4. Ranges' /\ CopySoFar' /\ InToServer' /\ ServerNotAhead'
  <2>1. position' = position \/ (position = -1 /\ position' = 0)
    BY <1>2, <1>3
  <2>2. Ranges'
    BY <1>1, <1>3, <2>1 DEF Ranges
  <2>3. CopySoFar'
    BY <1>1 DEF CopySoFar
  <2>4. InToServer'
    BY <1>1, <1>3 DEF InToServer, Ack
  <2>5. ServerNotAhead'
    BY <1>1, <1>3, <2>1 DEF ServerNotAhead
  <2> QED
    BY <2>2, <2>3, <2>4, <2>5
<1>5. InToClient'
  <2>1. SUFFICES ASSUME NEW k \in toClient'
                 PROVE  \/ k \in StrangePackets /\ stray
                        \/ k = Error /\ refused'
                        \/ k = Options
                        \/ \E n \in 1 .. Len(file) : k = Data(n) /\ (n <= block \/ block = Wrap)
    BY <1>1, SamePackets DEF InToClient
  <2>2. CASE k \in toClient
    <3>1. \/ k \in StrangePackets /\ stray
          \/ k = Error /\ refused
          \/ k = Options
          \/ \E n \in 1 .. Len(file) : k = Data(n) /\ (n <= block \/ block = Wrap)
      BY <2>2 DEF InToClient
    <3> QED
      BY <1>1, <3>1, Zenon
  <2>3. CASE k \notin toClient
    <3>1. k = Options \/ (k = Error /\ refused')
      BY <1>2, <2>1, <2>3
    <3> QED
      BY <3>1, Zenon
  <2> QED
    BY <2>2, <2>3
<1>6. Lockstep'
  <2>1. SUFFICES ASSUME ~Disturbed' PROVE Lockstep'
    BY DEF Lockstep
  <2>2. ~Disturbed /\ ~again' /\ ~refused'
    BY <1>1, <2>1, StaysDisturbed DEF Disturbed
  <2>3. /\ position = -1 /\ tftp = "options" /\ toServer = {m} /\ toClient = {}
    BY <1>1, <2>2 DEF Lockstep
  <2>4. toServer' = {} /\ toClient' = {Options} /\ position' = 0
    BY <1>1, <1>2, <2>2, <2>3
  <2> QED
    BY <1>1, <2>3, <2>4, SamePackets DEF Lockstep
<1> QED
  BY <1>4, <1>5, <1>6

LEMMA ServerAckStep ==
  ASSUME TftpInv, NEW m \in toServer, ServerAck(m)
  PROVE  TftpInv'
<1> USE DEF TftpInv
<1>1. /\ m.type = "ack" /\ toServer' \subseteq toServer
      /\ UNCHANGED <<file, buffer, tftp, block, lost, again, refused, stray>>
  BY DEF ServerAck, disturbances
<1>2. PICK k \in 0 .. block - 1 : m = Ack(k) /\ tftp \notin {"start", "options"}
  BY <1>1 DEF InToServer
<1>3. /\ block \in Nat /\ block >= 1 /\ block <= Wrap /\ Len(file) \in Nat
      /\ position \in Int /\ k \in Nat /\ Wrap \in Nat
  BY <1>2, TftpAssumption DEF Ranges, TftpAssumption
<1>4. Disturbed' = Disturbed
  BY <1>1 DEF Disturbed
<1>5. CopySoFar' /\ InToServer'
  BY <1>1, <1>2 DEF CopySoFar, InToServer, Ack
<1>6. CASE position \in 0 .. Len(file) - 1 /\ m = Ack(position)
  <2>1. toClient' = toClient \union {Data(position + 1)} /\ position' = position + 1
    BY <1>6 DEF ServerAck
  <2>2. position \in Nat /\ position' \in 1 .. Len(file)
    BY <1>3, <1>6, <2>1
  <2>3. Ranges'
    BY <1>1, <1>3, <2>2 DEF Ranges, disturbances
  <2>4. position' <= block \/ block = Wrap
    <3>1. CASE position = block
      <4>1. Ack(k) = Ack(position) /\ k < position
        BY <1>2, <1>3, <1>6, <3>1
      <4> QED
        BY <1>3, <2>2, <3>1, <4>1, AckOfBlock
    <3>2. CASE position < block
      BY <1>3, <2>1, <3>2
    <3> QED
      BY <1>3, <3>1, <3>2 DEF ServerNotAhead
  <2>5. ServerNotAhead'
    BY <1>1, <2>4 DEF ServerNotAhead
  <2>6. InToClient'
    <3>1. SUFFICES ASSUME NEW i \in toClient'
                   PROVE  \/ i \in StrangePackets /\ stray
                          \/ i = Error /\ refused
                          \/ i = Options
                          \/ \E n \in 1 .. Len(file) : i = Data(n) /\ (n <= block \/ block = Wrap)
      BY <1>1, SamePackets DEF InToClient
    <3>2. CASE i = Data(position + 1)
      BY <2>1, <2>2, <2>4, <3>2
    <3>3. CASE i \in toClient
      BY <3>3 DEF InToClient
    <3> QED
      BY <2>1, <3>2, <3>3
  <2>7. Lockstep'
    <3>1. SUFFICES ASSUME ~Disturbed PROVE Lockstep'
      BY <1>4 DEF Lockstep
    <3>2. Len(file) < Wrap
      BY <1>3, <3>1 DEF Disturbed
    <3>3. position # block
      <4>1. ASSUME position = block PROVE FALSE
        <5>1. Ack(k) = Ack(position) /\ k < position /\ position < Wrap
          BY <1>2, <1>3, <1>6, <3>2, <4>1
        <5> QED
          BY <1>3, <2>2, <5>1, AckOfBlock
      <4> QED
        BY <4>1
    <3>4. position = block - 1 /\ tftp \in {"data", "done"}
      BY <1>2, <3>1, <3>3 DEF Lockstep, Ranges
    <3>5. tftp = "data"
      <4>1. block <= Len(file)
        BY <1>3, <1>6, <3>4
      <4>2. tftp = "done" => block = Len(file) + 1
        BY <3>1 DEF CopySoFar, Disturbed
      <4> QED
        BY <1>3, <3>4, <4>1, <4>2
    <3>6. toClient = {}
      BY <1>3, <3>1, <3>4, <3>5 DEF Lockstep
    <3>7. toClient' = {Data(block)} /\ position' = block
      BY <1>3, <2>1, <3>4, <3>6
    <3>8. \A i \in toServer' : i.type # "request"
      BY <1>1, <3>1, <3>5 DEF Lockstep
    <3>9. Data(block)' = Data(block)
      BY <1>1 DEF Data
    <3> QED
      BY <1>1, <1>3, <3>5, <3>7, <3>8, <3>9 DEF Lockstep
  <2> QED
    BY <1>5, <2>3, <2>5, <2>6, <2>7
<1>7. CASE ~(position \in 0 .. Len(file) - 1 /\ m = Ack(position))
  <2>1. UNCHANGED <<toClient, position>>
    BY <1>7 DEF ServerAck
  <2>2. Ranges' /\ ServerNotAhead' /\ InToClient'
    BY <1>1, <2>1, SamePackets DEF Ranges, ServerNotAhead, InToClient, disturbances
  <2>3. Lockstep'
    <3>1. SUFFICES ASSUME ~Disturbed PROVE Lockstep'
      BY <1>4 DEF Lockstep
    <3>2. \A i \in toServer' : i.type # "request"
      BY <1>1, <1>2, <3>1 DEF Lockstep
    <3>3. Data(block)' = Data(block)
      BY <1>1 DEF Data
    <3> QED
      BY <1>1, <2>1, <3>1, <3>2, <3>3, SamePackets DEF Lockstep
  <2> QED
    BY <1>5, <2>2, <2>3
<1> QED
  BY <1>6, <1>7

(* Steps that only disturb: the server repeats a packet, or gives up, or a *)
(* stranger sends something.                                               *)
LEMMA DisturbingStep ==
  ASSUME TftpInv, ServerResend \/ ServerAbort \/ StrayPacket
  PROVE  TftpInv'
<1> USE DEF TftpInv
<1>1. /\ UNCHANGED <<file, buffer, tftp, block, toServer, lost>>
      /\ again' \in BOOLEAN /\ refused' \in BOOLEAN /\ stray' \in BOOLEAN
      /\ (again => again') /\ (refused => refused') /\ (stray => stray')
      /\ position' \in {position, -1}
      /\ again' \/ refused' \/ stray'
  <2>1. again \in BOOLEAN /\ refused \in BOOLEAN /\ stray \in BOOLEAN
    BY DEF Ranges
  <2>2. CASE ServerResend
    BY <2>1, <2>2, Zenon DEF ServerResend
  <2>3. CASE ServerAbort
    BY <2>1, <2>3, Zenon DEF ServerAbort
  <2>4. CASE StrayPacket
    BY <2>1, <2>4, Zenon DEF StrayPacket
  <2> QED
    BY <2>2, <2>3, <2>4
<1>2. Ranges' /\ CopySoFar' /\ InToServer' /\ ServerNotAhead'
  <2>1. block \in Nat /\ block >= 1 /\ position \in Int /\ Len(file) \in Nat
    BY DEF Ranges
  <2>2. Ranges'
    BY <1>1, <2>1 DEF Ranges
  <2>3. CopySoFar'
    <3>1. UNCHANGED <<file, buffer, tftp, block>> /\ (~stray' => ~stray)
      BY <1>1, Zenon
    <3> QED
      BY <3>1 DEF CopySoFar
  <2>4. InToServer'
    BY <1>1 DEF InToServer, Ack
  <2>5. ServerNotAhead'
    BY <1>1, <2>1 DEF ServerNotAhead
  <2> QED
    BY <2>2, <2>3, <2>4, <2>5
<1>3. ASSUME NEW k \in toClient'
      PROVE  \/ k \in toClient
             \/ k \in StrangePackets /\ stray'
             \/ k = Error /\ refused'
             \/ k = Options
             \/ position \in 1 .. Len(file) /\ k = Data(position)
  <2>1. CASE ServerResend
    BY <1>3, <2>1 DEF ServerResend, Ranges
  <2>2. CASE ServerAbort
    BY <1>3, <2>2 DEF ServerAbort
  <2>3. CASE StrayPacket
    BY <1>3, <2>3, TftpAssumption DEF StrayPacket, TftpAssumption
  <2> QED
    BY <2>1, <2>2, <2>3
<1>4. InToClient'
  <2>1. SUFFICES ASSUME NEW k \in toClient'
                 PROVE  \/ k \in StrangePackets /\ stray'
                        \/ k = Error /\ refused'
                        \/ k = Options
                        \/ \E n \in 1 .. Len(file) : k = Data(n) /\ (n <= block \/ block = Wrap)
    BY <1>1, SamePackets DEF InToClient
  <2>2. CASE k \in toClient
    <3>1. \/ k \in StrangePackets /\ stray
          \/ k = Error /\ refused
          \/ k = Options
          \/ \E n \in 1 .. Len(file) : k = Data(n) /\ (n <= block \/ block = Wrap)
      BY <2>2 DEF InToClient
    <3> QED
      BY <1>1, <3>1, Zenon
  <2>3. CASE position \in 1 .. Len(file) /\ k = Data(position)
    BY <2>3 DEF ServerNotAhead
  <2> QED
    BY <1>3, <2>2, <2>3
<1>5. Disturbed'
  BY <1>1 DEF Disturbed
<1>6. Lockstep'
  BY <1>5 DEF Lockstep
<1> QED
  BY <1>2, <1>4, <1>6

LEMMA LoseStep ==
  ASSUME TftpInv, Lose
  PROVE  TftpInv'
<1> USE DEF TftpInv
<1>1. /\ toServer' \subseteq toServer /\ toClient' \subseteq toClient /\ lost' = TRUE
      /\ UNCHANGED <<file, buffer, tftp, block, position, again, refused, stray>>
  BY DEF Lose
<1>2. Ranges' /\ CopySoFar' /\ InToServer' /\ ServerNotAhead'
  BY <1>1 DEF Ranges, CopySoFar, InToServer, ServerNotAhead, Ack, disturbances
<1>3. InToClient'
  BY <1>1, SamePackets DEF InToClient
<1>4. Disturbed' = Disturbed
  BY <1>1 DEF Disturbed
<1>5. Lockstep'
  <2>1. SUFFICES ASSUME ~Disturbed PROVE Lockstep'
    BY <1>4 DEF Lockstep
  <2>2. \A k \in toServer' : k.type = "request" => position = -1 /\ tftp = "options"
                                                  /\ toServer' = {k}
    BY <1>1, <2>1 DEF Lockstep
  <2>3. Data(block)' = Data(block)
    BY <1>1 DEF Data
  <2> QED
    BY <1>1, <2>1, <2>2, <2>3, SamePackets DEF Lockstep
<1> QED
  BY <1>2, <1>3, <1>5

LEMMA NextTftpInv ==
  ASSUME TftpInv, [Next]_vars
  PROVE  TftpInv'
<1>1. CASE TftpNext
  BY <1>1, SendReadStep, ReceiveOptionsStep, TakeBlockStep, PanicStep, ServerStartStep,
     ServerAckStep, DisturbingStep, LoseStep
     DEF TftpNext, ClientStep, ServerStep
<1>2. CASE UNCHANGED tftpVars
  <2>1. /\ UNCHANGED <<file, buffer, tftp, block, toServer, toClient, position>>
        /\ UNCHANGED <<lost, again, refused, stray>>
    BY <1>2 DEF tftpVars, disturbances
  <2>2. Ranges' /\ CopySoFar' /\ InToServer' /\ ServerNotAhead'
    BY <2>1 DEF TftpInv, Ranges, CopySoFar, InToServer, ServerNotAhead, Ack, disturbances
  <2>3. InToClient'
    BY <2>1, SamePackets DEF TftpInv, InToClient
  <2>4. Disturbed' = Disturbed /\ Data(block)' = Data(block)
    BY <2>1 DEF Disturbed, Data
  <2>5. Lockstep'
    BY <2>1, <2>4, SamePackets DEF TftpInv, Lockstep
  <2> QED
    BY <2>2, <2>3, <2>5 DEF TftpInv
<1> QED
  BY <1>1, <1>2 DEF Next, vars

(* Client, server and the packets between them agree about how far the     *)
(* copy is, however packets are lost, come again or come from strangers.   *)
THEOREM TftpInvariant == Spec => []TftpInv
<1>1. Init => TftpInv
  BY InitTftpInv DEF Init
<1>2. TftpInv /\ [Next]_vars => TftpInv'
  BY NextTftpInv
<1> QED
  BY <1>1, <1>2, PTL DEF Spec

(* A download stops the kernel only if a packet to the client comes again, *)
(* the server sends an error, a stranger interferes or the file has as     *)
(* many blocks as there are numbers.  A loss or a repeated ACK does not.   *)
THEOREM PanicExplained == Spec => []PanicOnlyIfDisturbed
<1>1. TftpInv => PanicOnlyIfDisturbed
  BY DEF TftpInv, Lockstep, PanicOnlyIfDisturbed
<1> QED
  BY <1>1, TftpInvariant, PTL

-----------------------------------------------------------------------------
(* tftp_download implements the copying of a file.                         *)
copyVars == <<file, buffer, tftp = "done", stray>>

LEMMA InitCopies == Init => Copy!Init
BY InitTftpInv DEF Init, InitTftp, Copy!Init, TftpInv, Ranges, Blocks

LEMMA NextCopies ==
  ASSUME TftpInv, [Next]_vars
  PROVE  [Copy!Next]_copyVars
<1>1. file' = file
  BY DEF Next, TftpNext, ClientStep, ServerStep, SendRead, ReceiveOptions, ReceiveData,
         ServerStart, ServerAck, ServerResend, ServerAbort, StrayPacket, Lose, vars, tftpVars
<1>2. CASE stray' = TRUE
  BY <1>1, <1>2 DEF Copy!Next, Copy!Disturbed
<1>3. SUFFICES ASSUME NEW m \in toClient, ReceiveData(m),
                      m.type = "data", m.number = block, ~stray, stray' = stray
               PROVE  Copy!Next
  <2>1. CASE SendRead \/ \E m \in toClient : ReceiveOptions(m)
    <3>1. UNCHANGED <<file, buffer, stray>> /\ tftp # "done" /\ tftp' # "done"
      BY <2>1 DEF SendRead, ReceiveOptions, Arrives, disturbances
    <3> QED
      BY <3>1 DEF copyVars
  <2>2. ASSUME NEW m \in toClient, ReceiveData(m), ~(m.type = "data" /\ m.number = block)
        PROVE  UNCHANGED copyVars
    <3>1. UNCHANGED <<file, buffer, stray>> /\ tftp # "done" /\ tftp' # "done"
      BY <2>2 DEF ReceiveData, Arrives
    <3> QED
      BY <3>1 DEF copyVars
  <2>3. CASE ServerStep \/ ServerResend \/ ServerAbort \/ Lose \/ UNCHANGED tftpVars
    <3>1. UNCHANGED <<file, buffer, tftp, stray>>
      BY <2>3 DEF ServerStep, ServerStart, ServerAck, ServerResend, ServerAbort, Lose,
                  tftpVars, disturbances
    <3> QED
      BY <3>1 DEF copyVars
  <2>4. CASE StrayPacket
    BY <1>2, <2>4 DEF StrayPacket
  <2>5. ASSUME NEW m \in toClient, ReceiveData(m), m.type = "data", m.number = block
        PROVE  [Copy!Next]_copyVars
    <3>1. stray' = stray /\ stray \in BOOLEAN
      BY <2>5 DEF ReceiveData, Arrives, TftpInv, Ranges, disturbances
    <3> QED
      BY <1>2, <1>3, <2>5, <3>1
  <2> QED
    BY <2>1, <2>2, <2>3, <2>4, <2>5 DEF Next, TftpNext, ClientStep, vars
<1>4. /\ block <= Len(file) /\ m.block = file[block]
      /\ m.block.full <=> block # Len(file)
  BY <1>3, TakesItsBlock
<1>5. /\ tftp = "data" /\ Len(buffer) = block - 1 /\ block \in Nat /\ Len(file) \in Nat
      /\ buffer \in Seq(Blocks) /\ file \in Seq(Blocks) /\ block >= 1
      /\ buffer' = Append(buffer, m.block) /\ tftp' = IF m.block.full THEN "data" ELSE "done"
  BY <1>3 DEF ReceiveData, TakeBlock, TftpInv, Ranges, CopySoFar
<1>6. block = Len(file) => buffer' = file
  <2>1. SUFFICES ASSUME block = Len(file) PROVE buffer' = file
    OBVIOUS
  <2>2. file[block] \in Blocks
    BY <1>4, <1>5
  <2>3. buffer' \in Seq(Blocks) /\ Len(buffer') = Len(file)
    BY <1>4, <1>5, <2>1, <2>2
  <2>4. \A i \in 1 .. Len(buffer) : buffer[i] = file[i]
    BY <1>3 DEF TftpInv, CopySoFar
  <2>5. \A i \in 1 .. Len(file) : buffer'[i] = file[i]
    BY <1>4, <1>5, <2>1, <2>2, <2>4
  <2> QED
    BY <1>5, <2>3, <2>5
<1>7. buffer' = Append(buffer, file[Len(buffer) + 1])
  BY <1>4, <1>5
<1>8. (tftp' = "done") \in {FALSE, buffer' = file}
  BY <1>4, <1>5, <1>6
<1>9. tftp # "done" /\ Len(buffer) < Len(file) /\ UNCHANGED <<file, stray>> /\ ~stray
  BY <1>1, <1>3, <1>4, <1>5
<1> QED
  BY <1>7, <1>8, <1>9, Zenon DEF Copy!Next, Copy!NextBlock

(* Whatever the network and the server do, the buffer only ever grows by   *)
(* the file's next block, and tftp_download returns 0 only with all of the *)
(* file, unless a stranger's packet comes in.                              *)
THEOREM CopyIsFile == Spec => CopiesFile
<1>1. Init => Copy!Init
  BY InitCopies
<1>2. TftpInv /\ [Next]_vars => [Copy!Next]_<<file, buffer, tftp = "done", stray>>
  BY NextCopies DEF copyVars
<1> QED
  BY <1>1, <1>2, TftpInvariant, PTL DEF Spec, CopiesFile, Copy!Spec
-----------------------------------------------------------------------------
(* The network stack.  A list is a sequence L[h] of buffers next to the    *)
(* links of its nodes, every buffer b has an owner W[b], and a step moves  *)
(* a buffer from one owner to the next.                                    *)

(* The node at a place of a list, whose head comes before and after it.    *)
At(s, h, i) == IF i \in 1 .. Len(s) THEN s[i] ELSE h

(* The circle of a list: next goes once round it, prev the other way.      *)
Ring(nx, pv, h, s) ==
  \A i \in 0 .. Len(s) : nx[At(s, h, i)] = At(s, h, i + 1)
                         /\ pv[At(s, h, i + 1)] = At(s, h, i)

(* The way from a node to the head of its list.                            *)
Path(nx, from, h, s) ==
  from = At(s, h, 1) /\ \A i \in 1 .. Len(s) : nx[s[i]] = At(s, h, i + 1)

(* Who has a buffer.                                                       *)
List(h) == <<"list", h>>
Rx(i) == <<"rx", i>>
Tx(i) == <<"tx", i>>
Held == <<"held", 0>>
Gone == <<"gone", 0>>

RxSlots == 0 .. RxCount - 1
TxSlots == 0 .. TxCount - 1
Circles == Ports \union {Pool}
Lists == Circles \union {ArpQueue}

Linked(l) == l \in [next : [Nodes -> Nodes], prev : [Nodes -> Nodes]]

(* The lists L, whose buffers have the owners W; the packets that still    *)
(* wait for an address begin at from.                                      *)
ListsOk(l, L, W, from) ==
  /\ Linked(l)
  /\ L \in [Lists -> Seq(Buffers)]
  /\ DOMAIN W = Buffers
  /\ \A h \in Lists : IsInjective(L[h])
  /\ \A h \in Lists : \A b \in Buffers : W[b] = List(h) <=> b \in Range(L[h])
  /\ \A h \in Circles : Ring(l.next, l.prev, h, L[h])
  /\ Path(l.next, from, ArpQueue, L[ArpQueue])

-----------------------------------------------------------------------------
(* The rest of the invariant.                                              *)
Udp == [kind : {"udp"}, of : Ports, id : Nat]
ArpFrames == [kind : {"request", "reply"}, of : Peers, id : {0}]
Frames == Udp \union ArpFrames \union {Nothing, Answer}

Types ==
  /\ rx \in [RxSlots -> [buf : Buffers, full : BOOLEAN, frame : Frames]]
  /\ tx \in [TxSlots -> [buf : Buffers, mac : BOOLEAN]]
  /\ rxIndex \in RxSlots /\ macRx \in RxSlots
  /\ txIndex \in TxSlots /\ macTx \in TxSlots
  /\ arp \in [Peers -> {"none", "waiting", "known"}]
  /\ DOMAIN dest = Buffers
  /\ content \in [Buffers -> Frames]
  /\ held \subseteq Buffers
  /\ cursor \in Nodes
  /\ back \in {"idle", "unqueue"}
  /\ requests \in [Peers -> Nat]

HistoryOk ==
  /\ accepted \in [Ports -> Seq(Nat)]
  /\ got \in [Ports -> Seq(Nat)]
  /\ dropped \in Nat /\ arrived \in Nat

(* The owners are who has the buffers, in the rings r and t or held; those *)
(* without an owner are counted.                                           *)
Free(w) == w = Gone \/ \E h \in Lists : w = List(h)
SlotsOk(W, r, t, hd) ==
  \A b \in Buffers :
    /\ \A i \in RxSlots : W[b] = Rx(i) <=> r[i].buf = b
    /\ \A i \in TxSlots : W[b] = Tx(i) <=> t[i].buf = b
    /\ W[b] = Held <=> b \in hd
    /\ \/ Free(W[b]) \/ W[b] = Held
       \/ \E i \in RxSlots : W[b] = Rx(i)
       \/ \E i \in TxSlots : W[b] = Tx(i)

Unowned(W) == {b \in Buffers : W[b] = Gone}
LostOk(W) == Cardinality(Unowned(W)) <= dropped

(* Where the packets that wait for an address begin: nowhere any more when *)
(* an address is known and mac_unqueue is done.                            *)
Ahead(a, l) == IF \E p \in Peers : a[p] = "known" THEN ArpQueue ELSE l.next[ArpQueue]
From == IF Walking THEN cursor ELSE Ahead(arp, links)

AskedFor(a, n, S) == \A p \in Peers : /\ a[p] # "none" => p \in S
                                      /\ n[p] # 0 => a[p] # "none"
WaitOk(s, d, S) == \A b \in Range(s) : d[b] \in S
ArpOk(s) ==
  /\ AskedFor(arp, requests, queuedFor)
  /\ WaitOk(s, dest, queuedFor)
  /\ Walking => /\ resolved \in queuedFor \intersect Peers
                /\ arp[resolved] = "known"

(* How far the receive ring is filled, from rxIndex on.                    *)
Off(i) == IF i >= rxIndex THEN i - rxIndex ELSE i - rxIndex + RxCount
RingOk(n) ==
  /\ n \in 0 .. RxCount
  /\ \A i \in RxSlots : rx[i].full <=> Off(i) < n
  /\ n < RxCount => Off(macRx) = n
  /\ n = RxCount => macRx = rxIndex

(* P: which of its port's frames a slot has.  The applications got the     *)
(* first frames, the port's list has the next ones and the ring the rest.  *)
UdpIn(i, q) == rx[i].full /\ rx[i].frame.kind = "udp" /\ rx[i].frame.of = q
Taken(L, q) == Len(got[q]) + Len(L[q])
QueueOk(L) ==
  \A q \in Ports : \A k \in 1 .. Len(L[q]) :
    content[L[q][k]].id = accepted[q][Len(got[q]) + k]
OrderOk(L, P) ==
  /\ P \in [RxSlots -> Nat]
  /\ \A q \in Ports :
       /\ Taken(L, q) <= Len(accepted[q])
       /\ \A i \in RxSlots : UdpIn(i, q) =>
            /\ P[i] \in Taken(L, q) + 1 .. Len(accepted[q])
            /\ rx[i].frame.id = accepted[q][P[i]]
            /\ \A j \in RxSlots : UdpIn(j, q) /\ Off(i) < Off(j) => P[i] < P[j]
       /\ \A m \in Taken(L, q) + 1 .. Len(accepted[q]) :
            \E i \in RxSlots : UdpIn(i, q) /\ P[i] = m

GotOk ==
  \A q \in Ports : /\ Len(got[q]) <= Len(accepted[q])
                   /\ \A k \in 1 .. Len(got[q]) : got[q][k] = accepted[q][k]

(* A host has sent a reply for each that waits in the ring, and one more   *)
(* if its address is known.                                                *)
ReplyIn(i, p) == rx[i].full /\ rx[i].frame.kind = "reply" /\ rx[i].frame.of = p
RepliesOk ==
  \A p \in Peers :
    /\ arp[p] = "known" => replies[p] >= 1
    /\ \A i \in RxSlots : ReplyIn(i, p) =>
         /\ replies[p] >= 1
         /\ arp[p] = "known" => replies[p] >= 2
         /\ \A j \in RxSlots : ReplyIn(j, p) /\ i # j => replies[p] >= 2

(* What the thread may stop for: these replies, and the answers in buffers. *)
CausesOk ==
  /\ RepliesOk
  /\ \A b \in Buffers : content[b] = Answer => answered # {}

StateOk(L, W, n, P) ==
  /\ pc \in {"idle", "wait", "unqueue"}
  /\ Types
  /\ ListsOk(links, L, W, From)
  /\ SlotsOk(W, rx, tx, held) /\ LostOk(W)
  /\ ArpOk(L[ArpQueue])
  /\ RingOk(n)
  /\ OrderOk(L, P) /\ QueueOk(L)
  /\ CausesOk

Alive == \E L, W, n, P : StateOk(L, W, n, P)

Dead ==
  /\ pc \in {"no buffer", "tx error", "no mapping", "bad length"}
  /\ pc = "no mapping" => \E p \in Peers : requests[p] > 1 \/ replies[p] > requests[p]
  /\ pc = "bad length" => answered # {}

Sound == HistoryOk /\ GotOk /\ (Alive \/ Dead)
QueuedOk == IsFiniteSet(queuedFor)
CountsOk == requests \in [Peers -> Nat] /\ replies \in [Peers -> Nat]
NetInv == QueuedOk /\ CountsOk /\ (OneQueued => Sound)
-----------------------------------------------------------------------------
(* The places of a list without its first node.                            *)
TailPlaces(S, s, h) ==
  /\ Tail(s) \in Seq(S) /\ Len(Tail(s)) = Len(s) - 1 /\ Len(s) \in Nat \ {0}
  /\ Head(s) = s[1] /\ s[1] \in S
  /\ At(Tail(s), h, 0) = h
  /\ \A i \in 1 .. Len(s) : At(Tail(s), h, i) = At(s, h, i + 1)

LEMMA AtTail ==
  ASSUME NEW S, NEW s \in Seq(S), s # <<>>, NEW h
  PROVE  TailPlaces(S, s, h)
<1> DEFINE r == Tail(s)
<1>1. /\ Head(s) = s[1] /\ Head(s) \in S
      /\ r \in Seq(S) /\ Len(r) = Len(s) - 1
      /\ \A i \in 1 .. Len(s) - 1 : r[i] = s[i + 1]
      /\ Len(s) \in Nat \ {0}
  BY HeadTailProperties, EmptySeq
<1> HIDE DEF r
<1>2. At(r, h, 0) = h
  BY <1>1 DEF At
<1>3. ASSUME NEW i \in 1 .. Len(s) PROVE At(r, h, i) = At(s, h, i + 1)
  <2>1. CASE i = Len(s)
    BY <1>1, <2>1 DEF At
  <2>2. CASE i # Len(s)
    <3>1. i \in 1 .. Len(r) /\ i + 1 \in 1 .. Len(s) /\ r[i] = s[i + 1]
      BY <1>1, <2>2
    <3> QED
      BY <3>1 DEF At
  <2> QED
    BY <2>1, <2>2
<1> QED
  BY <1>1, <1>2, <1>3 DEF r, TailPlaces

(* The places of a list with another first node.                           *)
FirstPlaces(S, s, b, h) ==
  /\ InsertAt(s, 1, b) \in Seq(S)
  /\ Len(InsertAt(s, 1, b)) = Len(s) + 1
  /\ Range(InsertAt(s, 1, b)) = Range(s) \union {b}
  /\ IsInjective(s) /\ b \notin Range(s) => IsInjective(InsertAt(s, 1, b))
  /\ At(InsertAt(s, 1, b), h, 0) = h
  /\ At(InsertAt(s, 1, b), h, 1) = b
  /\ \A i \in 1 .. Len(s) + 1 :
       At(InsertAt(s, 1, b), h, i + 1) = At(s, h, i)

LEMMA AtFirst ==
  ASSUME NEW S, NEW s \in Seq(S), NEW b \in S, NEW h
  PROVE  FirstPlaces(S, s, b, h)
<1> DEFINE r == InsertAt(s, 1, b)
<1>1. Len(s) \in Nat /\ 1 \in 1 .. Len(s) + 1
  BY LenProperties
<1>2. /\ r \in Seq(S) /\ Len(r) = Len(s) + 1
      /\ \A i \in 1 .. Len(s) + 1 :
           r[i] = IF i < 1 THEN s[i] ELSE IF i = 1 THEN b ELSE s[i - 1]
  BY <1>1, InsertFacts
<1>3. /\ Range(r) = Range(s) \union {b}
      /\ IsInjective(s) /\ b \notin Range(s) => IsInjective(r)
  BY <1>1, InsertRange
<1> HIDE DEF r
<1>4. At(r, h, 0) = h /\ At(r, h, 1) = b
  BY <1>1, <1>2 DEF At
<1>5. ASSUME NEW i \in 1 .. Len(s) + 1 PROVE At(r, h, i + 1) = At(s, h, i)
  <2>1. CASE i = Len(s) + 1
    BY <1>1, <1>2, <2>1 DEF At
  <2>2. CASE i # Len(s) + 1
    <3>1. i + 1 \in 1 .. Len(r) /\ i \in 1 .. Len(s) /\ r[i + 1] = s[i]
      BY <1>1, <1>2, <2>2
    <3> QED
      BY <3>1 DEF At
  <2> QED
    BY <2>1, <2>2
<1> QED
  BY <1>2, <1>3, <1>4, <1>5 DEF r, FirstPlaces

(* The places of a list with another last node.                            *)
LastPlaces(S, s, b, h) ==
  /\ Append(s, b) \in Seq(S) /\ Len(Append(s, b)) = Len(s) + 1
  /\ \A i \in 0 .. Len(s) : At(Append(s, b), h, i) = At(s, h, i)
  /\ At(Append(s, b), h, Len(s) + 1) = b
  /\ At(Append(s, b), h, Len(s) + 2) = h

LEMMA AtLast ==
  ASSUME NEW S, NEW s \in Seq(S), NEW b \in S, NEW h
  PROVE  LastPlaces(S, s, b, h)
<1> DEFINE r == Append(s, b)
<1>1. /\ r \in Seq(S) /\ Len(r) = Len(s) + 1 /\ Len(s) \in Nat
      /\ \A i \in 1 .. Len(s) : r[i] = s[i]
      /\ r[Len(s) + 1] = b
  BY AppendProperties, LenProperties
<1> HIDE DEF r
<1>2. ASSUME NEW i \in 0 .. Len(s) PROVE At(r, h, i) = At(s, h, i)
  BY <1>1 DEF At
<1>3. At(r, h, Len(s) + 1) = b /\ At(r, h, Len(s) + 2) = h
  BY <1>1 DEF At
<1> QED
  BY <1>1, <1>2, <1>3 DEF r, LastPlaces

(* Every place of a list is its head or one of its nodes.                  *)
Places(S, s, h) ==
  /\ \A i : At(s, h, i) \in {h} \union Range(s)
  /\ \A i \in 1 .. Len(s) : At(s, h, i) = s[i] /\ s[i] \in Range(s) /\ s[i] \in S
  /\ \A x \in Range(s) : \E i \in 1 .. Len(s) : s[i] = x
  /\ At(s, h, 0) = h /\ At(s, h, Len(s) + 1) = h
  /\ Len(s) \in Nat

LEMMA AtRange ==
  ASSUME NEW S, NEW s \in Seq(S), NEW h
  PROVE  Places(S, s, h)
<1>1. /\ Len(s) \in Nat
      /\ \A x : x \in Range(s) <=> \E i \in 1 .. Len(s) : s[i] = x
      /\ Range(s) \subseteq S
  BY RangeFacts
<1>2. ASSUME NEW i PROVE At(s, h, i) \in {h} \union Range(s)
  <2>1. CASE i \in 1 .. Len(s)
    BY <1>1, <2>1 DEF At
  <2>2. CASE i \notin 1 .. Len(s)
    BY <2>2 DEF At
  <2> QED
    BY <2>1, <2>2
<1>3. \A i \in 1 .. Len(s) : At(s, h, i) = s[i] /\ s[i] \in Range(s) /\ s[i] \in S
  BY <1>1 DEF At
<1>4. At(s, h, 0) = h /\ At(s, h, Len(s) + 1) = h
  BY <1>1 DEF At
<1> QED
  BY <1>1, <1>2, <1>3, <1>4 DEF Places

(* A circle stays one when the links of its nodes do not change.           *)
LEMMA RingFrame ==
  ASSUME NEW S, NEW s \in Seq(S), NEW h, NEW nx, NEW pv, NEW nx2, NEW pv2,
         Ring(nx, pv, h, s),
         \A x \in Range(s) \union {h} : nx2[x] = nx[x] /\ pv2[x] = pv[x]
  PROVE  Ring(nx2, pv2, h, s)
<1>10. Places(S, s, h)
  BY AtRange
<1>1. \A i : At(s, h, i) \in {h} \union Range(s)
  BY <1>10 DEF Places
<1>2. ASSUME NEW i \in 0 .. Len(s)
      PROVE  nx2[At(s, h, i)] = At(s, h, i + 1) /\ pv2[At(s, h, i + 1)] = At(s, h, i)
  <2>1. nx[At(s, h, i)] = At(s, h, i + 1) /\ pv[At(s, h, i + 1)] = At(s, h, i)
    BY DEF Ring
  <2>2. nx2[At(s, h, i)] = nx[At(s, h, i)] /\ pv2[At(s, h, i + 1)] = pv[At(s, h, i + 1)]
    BY <1>1
  <2> QED
    BY <2>1, <2>2
<1> QED
  BY <1>2 DEF Ring

LEMMA PathFrame ==
  ASSUME NEW S, NEW s \in Seq(S), NEW h, NEW from, NEW nx, NEW nx2,
         Path(nx, from, h, s),
         \A x \in Range(s) : nx2[x] = nx[x]
  PROVE  Path(nx2, from, h, s)
<1>10. Places(S, s, h)
  BY AtRange
<1>1. \A i \in 1 .. Len(s) : s[i] \in Range(s)
  BY <1>10 DEF Places
<1> QED
  BY <1>1 DEF Path

(* The first node leaves a circle: its two neighbours are linked.          *)
LEMMA RingTail ==
  ASSUME NEW S, NEW s \in Seq(S), NEW h, NEW nx, NEW pv, NEW nx2, NEW pv2,
         s # <<>>, IsInjective(s), h \notin Range(s),
         Ring(nx, pv, h, s),
         nx2[h] = nx[s[1]], pv2[nx[s[1]]] = h,
         \A x \in (Range(s) \union {h}) \ {s[1], h} : nx2[x] = nx[x],
         \A x \in (Range(s) \union {h}) \ {s[1], nx[s[1]]} : pv2[x] = pv[x]
  PROVE  Ring(nx2, pv2, h, Tail(s))
<1> DEFINE r == Tail(s)
<1>10. TailPlaces(S, s, h)
  BY AtTail
<1>1. /\ r \in Seq(S) /\ Len(r) = Len(s) - 1 /\ Len(s) \in Nat \ {0}
      /\ At(r, h, 0) = h
      /\ \A i \in 1 .. Len(s) : At(r, h, i) = At(s, h, i + 1)
  BY <1>10 DEF TailPlaces
<1> HIDE DEF r
<1>20. Places(S, s, h)
  BY AtRange
<1>2. /\ \A i : At(s, h, i) \in {h} \union Range(s)
      /\ \A i \in 1 .. Len(s) : At(s, h, i) = s[i] /\ s[i] \in Range(s)
      /\ At(s, h, Len(s) + 1) = h
  BY <1>20 DEF Places
<1>3. \A i, j \in 1 .. Len(s) : s[i] = s[j] => i = j
  BY RangeFacts
<1>4. \A i \in 0 .. Len(s) : nx[At(s, h, i)] = At(s, h, i + 1)
                             /\ pv[At(s, h, i + 1)] = At(s, h, i)
  BY DEF Ring
<1>5. nx[s[1]] = At(s, h, 2)
  BY <1>1, <1>2, <1>4
<1>6. ASSUME NEW i \in 0 .. Len(r)
      PROVE  nx2[At(r, h, i)] = At(r, h, i + 1) /\ pv2[At(r, h, i + 1)] = At(r, h, i)
  <2>1. i + 1 \in 1 .. Len(s) /\ At(r, h, i + 1) = At(s, h, i + 2)
    BY <1>1
  <2>2. CASE i = 0
    BY <1>1, <1>5, <2>1, <2>2
  <2>3. CASE i # 0
    <3>1. i \in 1 .. Len(s) /\ i + 1 \in 2 .. Len(s) /\ At(r, h, i) = At(s, h, i + 1)
      BY <1>1, <2>3
    <3>2. /\ nx[At(s, h, i + 1)] = At(s, h, i + 2)
          /\ pv[At(s, h, i + 2)] = At(s, h, i + 1)
      BY <1>4, <2>1
    <3>3. At(s, h, i + 1) = s[i + 1] /\ s[i + 1] \in Range(s) /\ s[i + 1] # s[1]
      BY <1>1, <1>2, <1>3, <3>1
    <3>4. nx2[At(s, h, i + 1)] = nx[At(s, h, i + 1)]
      BY <3>3
    <3>5. At(s, h, i + 2) # s[1] /\ At(s, h, i + 2) # At(s, h, 2)
      <4>1. CASE i + 2 = Len(s) + 1
        BY <1>1, <1>2, <3>1, <4>1
      <4>2. CASE i + 2 # Len(s) + 1
        <5>1. i + 2 \in 1 .. Len(s) /\ 2 \in 1 .. Len(s) /\ i + 2 # 2 /\ i + 2 # 1
          BY <1>1, <3>1, <4>2
        <5> QED
          BY <1>1, <1>2, <1>3, <5>1
      <4> QED
        BY <4>1, <4>2
    <3>6. pv2[At(s, h, i + 2)] = pv[At(s, h, i + 2)]
      BY <1>2, <1>5, <3>5
    <3> QED
      BY <2>1, <3>1, <3>2, <3>4, <3>6
  <2> QED
    BY <2>2, <2>3
<1> QED
  BY <1>6 DEF Ring, r

(* A node is linked between the head of a circle and its first node.       *)
FirstLinks(nx, pv, nx2, pv2, h, s, b) ==
  /\ nx2[h] = b /\ nx2[b] = nx[h] /\ pv2[nx[h]] = b /\ pv2[b] = h
  /\ \A x \in Range(s) : nx2[x] = nx[x]
  /\ \A x \in (Range(s) \union {h}) \ {nx[h]} : pv2[x] = pv[x]

LEMMA RingFirst ==
  ASSUME NEW S, NEW s \in Seq(S), NEW h, NEW b \in S,
         NEW nx, NEW pv, NEW nx2, NEW pv2,
         IsInjective(s), h \notin Range(s), b \notin Range(s), b # h,
         Ring(nx, pv, h, s), FirstLinks(nx, pv, nx2, pv2, h, s, b)
  PROVE  Ring(nx2, pv2, h, InsertAt(s, 1, b))
<1> DEFINE r == InsertAt(s, 1, b)
<1>0. /\ nx2[h] = b /\ nx2[b] = nx[h] /\ pv2[nx[h]] = b /\ pv2[b] = h
      /\ \A x \in Range(s) : nx2[x] = nx[x]
      /\ \A x \in (Range(s) \union {h}) \ {nx[h]} : pv2[x] = pv[x]
  BY DEF FirstLinks
<1>10. FirstPlaces(S, s, b, h)
  BY AtFirst
<1>1. /\ r \in Seq(S) /\ Len(r) = Len(s) + 1
      /\ At(r, h, 0) = h /\ At(r, h, 1) = b
      /\ \A i \in 1 .. Len(s) + 1 : At(r, h, i + 1) = At(s, h, i)
  BY <1>10 DEF FirstPlaces
<1> HIDE DEF r
<1>20. Places(S, s, h)
  BY AtRange
<1>2. /\ \A i : At(s, h, i) \in {h} \union Range(s)
      /\ \A i \in 1 .. Len(s) : At(s, h, i) = s[i] /\ s[i] \in Range(s)
      /\ At(s, h, 0) = h /\ At(s, h, Len(s) + 1) = h
      /\ Len(s) \in Nat
  BY <1>20 DEF Places
<1>3. \A i, j \in 1 .. Len(s) : s[i] = s[j] => i = j
  BY RangeFacts
<1>4. \A i \in 0 .. Len(s) : nx[At(s, h, i)] = At(s, h, i + 1)
                             /\ pv[At(s, h, i + 1)] = At(s, h, i)
  BY DEF Ring
<1>5. nx[h] = At(s, h, 1)
  BY <1>2, <1>4
<1>6. ASSUME NEW i \in 0 .. Len(r)
      PROVE  nx2[At(r, h, i)] = At(r, h, i + 1) /\ pv2[At(r, h, i + 1)] = At(r, h, i)
  <2>1. CASE i = 0
    BY <1>0, <1>1, <2>1
  <2>2. CASE i = 1
    <3>1. At(r, h, i) = b /\ At(r, h, i + 1) = At(s, h, 1)
      BY <1>1, <1>2, <2>2
    <3> QED
      BY <1>0, <1>5, <3>1
  <2>3. CASE i # 0 /\ i # 1
    <3>1. /\ i - 1 \in 1 .. Len(s) /\ i \in 2 .. Len(s) + 1
          /\ At(r, h, i) = At(s, h, i - 1) /\ At(r, h, i + 1) = At(s, h, i)
      <4>1. i - 1 \in 1 .. Len(s) /\ i \in 2 .. Len(s) + 1 /\ (i - 1) + 1 = i
        BY <1>1, <1>2, <2>3
      <4>2. At(r, h, (i - 1) + 1) = At(s, h, i - 1) /\ At(r, h, i + 1) = At(s, h, i)
        BY <1>1, <1>2, <4>1
      <4> QED
        BY <4>1, <4>2
    <3>2. nx[At(s, h, i - 1)] = At(s, h, i) /\ pv[At(s, h, i)] = At(s, h, i - 1)
      <4>1. i - 1 \in 0 .. Len(s) /\ (i - 1) + 1 = i
        BY <3>1
      <4> QED
        BY <1>4, <4>1
    <3>3. nx2[At(s, h, i - 1)] = nx[At(s, h, i - 1)]
      BY <1>0, <1>2, <3>1
    <3>4. At(s, h, i) # At(s, h, 1)
      <4>1. At(s, h, 1) = s[1] /\ s[1] \in Range(s) /\ 1 \in 1 .. Len(s)
        BY <1>2, <3>1
      <4>2. CASE i = Len(s) + 1
        BY <1>2, <4>1, <4>2
      <4>3. CASE i # Len(s) + 1
        <5>1. i \in 1 .. Len(s) /\ i # 1
          BY <3>1, <4>3
        <5> QED
          BY <1>2, <1>3, <4>1, <5>1
      <4> QED
        BY <4>2, <4>3
    <3>5. pv2[At(s, h, i)] = pv[At(s, h, i)]
      BY <1>0, <1>2, <1>5, <3>4
    <3> QED
      BY <3>1, <3>2, <3>3, <3>5
  <2> QED
    BY <2>1, <2>2, <2>3
<1> QED
  BY <1>6 DEF Ring, r

(* A node is linked between the last node of a circle and its head.        *)
LastLinks(nx, pv, nx2, pv2, h, s, b) ==
  /\ nx2[pv[h]] = b /\ nx2[b] = h /\ pv2[h] = b /\ pv2[b] = pv[h]
  /\ \A x \in (Range(s) \union {h}) \ {pv[h]} : nx2[x] = nx[x]
  /\ \A x \in Range(s) : pv2[x] = pv[x]

LEMMA RingLast ==
  ASSUME NEW S, NEW s \in Seq(S), NEW h, NEW b \in S,
         NEW nx, NEW pv, NEW nx2, NEW pv2,
         IsInjective(s), h \notin Range(s), b \notin Range(s), b # h,
         Ring(nx, pv, h, s), LastLinks(nx, pv, nx2, pv2, h, s, b)
  PROVE  Ring(nx2, pv2, h, Append(s, b))
<1> DEFINE r == Append(s, b)
           n == Len(s)
<1>0. /\ nx2[pv[h]] = b /\ nx2[b] = h /\ pv2[h] = b /\ pv2[b] = pv[h]
      /\ \A x \in (Range(s) \union {h}) \ {pv[h]} : nx2[x] = nx[x]
      /\ \A x \in Range(s) : pv2[x] = pv[x]
  BY DEF LastLinks
<1>10. LastPlaces(S, s, b, h)
  BY AtLast
<1>1. /\ r \in Seq(S) /\ Len(r) = n + 1
      /\ \A i \in 0 .. n : At(r, h, i) = At(s, h, i)
      /\ At(r, h, n + 1) = b /\ At(r, h, n + 2) = h
  BY <1>10 DEF LastPlaces
<1> HIDE DEF r
<1>20. Places(S, s, h)
  BY AtRange
<1>2. /\ \A i : At(s, h, i) \in {h} \union Range(s)
      /\ \A i \in 1 .. n : At(s, h, i) = s[i] /\ s[i] \in Range(s)
      /\ At(s, h, 0) = h /\ At(s, h, n + 1) = h
      /\ n \in Nat
  BY <1>20 DEF Places
<1>3. \A i, j \in 1 .. n : s[i] = s[j] => i = j
  BY RangeFacts
<1>4. \A i \in 0 .. n : nx[At(s, h, i)] = At(s, h, i + 1)
                        /\ pv[At(s, h, i + 1)] = At(s, h, i)
  BY DEF Ring
<1>5. pv[h] = At(s, h, n)
  BY <1>2, <1>4
<1> HIDE DEF n
<1>6. ASSUME NEW i \in 0 .. n + 1
      PROVE  nx2[At(r, h, i)] = At(r, h, i + 1) /\ pv2[At(r, h, i + 1)] = At(r, h, i)
  <2>1. CASE i = n + 1
    <3>1. At(r, h, i) = b /\ At(r, h, i + 1) = h
      BY <1>1, <1>2, <2>1
    <3> QED
      BY <1>0, <3>1
  <2>2. CASE i = n
    <3>1. At(r, h, i) = pv[h] /\ At(r, h, i + 1) = b
      BY <1>1, <1>2, <1>5, <2>2
    <3> QED
      BY <1>0, <3>1
  <2>3. CASE i # n /\ i # n + 1
    <3>1. /\ i \in 0 .. n /\ i + 1 \in 1 .. n
          /\ At(r, h, i) = At(s, h, i) /\ At(r, h, i + 1) = At(s, h, i + 1)
      BY <1>1, <1>2, <2>3
    <3>2. nx[At(s, h, i)] = At(s, h, i + 1) /\ pv[At(s, h, i + 1)] = At(s, h, i)
      BY <1>4, <3>1
    <3>3. At(s, h, i) # At(s, h, n)
      <4>1. n \in 1 .. n /\ At(s, h, n) = s[n] /\ s[n] \in Range(s)
        BY <1>2, <3>1
      <4>2. CASE i = 0
        BY <1>2, <4>1, <4>2
      <4>3. CASE i # 0
        <5>1. i \in 1 .. n
          BY <3>1, <4>3
        <5> QED
          BY <1>2, <1>3, <2>3, <4>1, <5>1
      <4> QED
        BY <4>2, <4>3
    <3>4. nx2[At(s, h, i)] = nx[At(s, h, i)]
      BY <1>0, <1>2, <1>5, <3>3
    <3>5. pv2[At(s, h, i + 1)] = pv[At(s, h, i + 1)]
      BY <1>0, <1>2, <3>1
    <3> QED
      BY <3>1, <3>2, <3>4, <3>5
  <2> QED
    BY <2>1, <2>2, <2>3
<1>7. \A i \in 0 .. Len(r) : nx2[At(r, h, i)] = At(r, h, i + 1)
                             /\ pv2[At(r, h, i + 1)] = At(r, h, i)
  BY <1>1, <1>6
<1> QED
  BY <1>7 DEF Ring, r

-----------------------------------------------------------------------------
(* The heads and the owners are what their names say.                      *)
LEMMA HeadFacts ==
  /\ Lists = Heads /\ Circles \subseteq Lists /\ Pool \in Circles
  /\ ArpQueue \in Lists /\ ArpQueue \notin Circles
  /\ \A h \in Lists \ Circles : h = ArpQueue
  /\ \A h \in Lists : h \in Nodes /\ h \notin Buffers /\ h # Null
  /\ \A q \in Ports : q \in Circles /\ q # Pool
  /\ Buffers \subseteq Nodes /\ Null \in Nodes /\ Null \notin Buffers
BY HeadAssumption DEF Lists, Circles, Heads, Nodes, Buffers

LEMMA Owners ==
  /\ \A h, k : List(h) = List(k) => h = k
  /\ \A h, i : List(h) # Rx(i) /\ List(h) # Tx(i)
  /\ \A h : List(h) # Held /\ List(h) # Gone
  /\ \A i, j : Rx(i) = Rx(j) => i = j
  /\ \A i, j : Tx(i) = Tx(j) => i = j
  /\ \A i, j : Rx(i) # Tx(j)
  /\ \A i : Rx(i) # Held /\ Rx(i) # Gone /\ Tx(i) # Held /\ Tx(i) # Gone
  /\ Held # Gone
BY DEF List, Rx, Tx, Held, Gone

(* A list changes, and one buffer's owner: the other lists stay.           *)
Relists(l, L, W, l2, h, s, b, w) ==
  /\ Linked(l2) /\ h \in Lists /\ s \in Seq(Buffers) /\ IsInjective(s) /\ b \in Buffers
  /\ Range(s) \ {b} = Range(L[h]) \ {b}
  /\ w = List(h) <=> b \in Range(s)
  /\ \A k \in Lists \ {h} : w # List(k) /\ W[b] # List(k)
  /\ \A x \in Nodes \ (Range(L[h]) \union {h, b}) :
       l2.next[x] = l.next[x] /\ l2.prev[x] = l.prev[x]

LEMMA Relisted ==
  ASSUME NEW l, NEW L, NEW W, NEW from, ListsOk(l, L, W, from),
         NEW l2, NEW h, NEW s, NEW b, NEW w, NEW from2,
         Relists(l, L, W, l2, h, s, b, w),
         h \in Circles => Ring(l2.next, l2.prev, h, s) /\ from2 = from,
         h = ArpQueue => Path(l2.next, from2, ArpQueue, s)
  PROVE  ListsOk(l2, [L EXCEPT ![h] = s], [W EXCEPT ![b] = w], from2)
<1>0. /\ Linked(l2) /\ h \in Lists /\ s \in Seq(Buffers) /\ IsInjective(s) /\ b \in Buffers
      /\ Range(s) \ {b} = Range(L[h]) \ {b}
      /\ w = List(h) <=> b \in Range(s)
      /\ \A k \in Lists \ {h} : w # List(k) /\ W[b] # List(k)
      /\ \A x \in Nodes \ (Range(L[h]) \union {h, b}) :
           l2.next[x] = l.next[x] /\ l2.prev[x] = l.prev[x]
  BY DEF Relists
<1> DEFINE M == [L EXCEPT ![h] = s]
           V == [W EXCEPT ![b] = w]
<1>1. /\ L \in [Lists -> Seq(Buffers)] /\ DOMAIN W = Buffers
      /\ \A k \in Lists : IsInjective(L[k])
      /\ \A k \in Lists : \A c \in Buffers : W[c] = List(k) <=> c \in Range(L[k])
      /\ \A k \in Circles : Ring(l.next, l.prev, k, L[k])
      /\ Path(l.next, from, ArpQueue, L[ArpQueue])
  BY DEF ListsOk
<1>2. /\ M \in [Lists -> Seq(Buffers)] /\ M[h] = s
      /\ \A k \in Lists \ {h} : M[k] = L[k]
      /\ DOMAIN V = Buffers /\ V[b] = w /\ \A c \in Buffers \ {b} : V[c] = W[c]
  BY <1>0, <1>1
<1> HIDE DEF M, V
<1>3. \A k \in Lists : IsInjective(M[k])
  BY <1>0, <1>1, <1>2
<1>4. ASSUME NEW k \in Lists, NEW c \in Buffers
      PROVE  V[c] = List(k) <=> c \in Range(M[k])
  <2>1. CASE k = h /\ c = b
    BY <1>0, <1>2, <2>1
  <2>2. CASE k = h /\ c # b
    <3>1. V[c] = W[c] /\ M[k] = s /\ (W[c] = List(k) <=> c \in Range(L[h]))
      BY <1>0, <1>1, <1>2, <2>2
    <3>2. c \in Range(L[h]) <=> c \in Range(s)
      BY <1>0, <2>2
    <3> QED
      BY <1>0, <3>1, <3>2
  <2>3. CASE k # h /\ c = b
    <3>1. V[c] = w /\ M[k] = L[k] /\ (W[c] = List(k) <=> c \in Range(L[k]))
      BY <1>0, <1>1, <1>2, <2>3
    <3> QED
      BY <1>0, <2>3, <3>1
  <2>4. CASE k # h /\ c # b
    BY <1>0, <1>1, <1>2, <2>4
  <2> QED
    BY <1>0, <2>1, <2>2, <2>3, <2>4
<1>5. ASSUME NEW k \in Lists, k # h, NEW x \in Range(L[k])
      PROVE  x \in Nodes /\ x \notin Range(L[h]) \union {h, b}
  <2>0. L[k] \in Seq(Buffers)
    BY <1>0, <1>1
  <2>1. x \in Buffers
    BY <1>0, <1>5, <2>0, RangeFacts
  <2>2. W[x] = List(k)
    BY <1>0, <1>1, <2>1
  <2>3. W[x] # List(h) /\ x # b
    BY <1>0, <1>5, <2>2, Owners
  <2>4. x \notin Range(L[h])
    BY <1>0, <1>1, <2>1, <2>3
  <2>5. x \in Nodes /\ x # h
    BY <1>0, <2>1, HeadFacts
  <2> QED
    BY <1>0, <2>3, <2>4, <2>5
<1>6. ASSUME NEW k \in Lists, k # h
      PROVE  k \in Nodes /\ k \notin Range(L[h]) \union {h, b}
  <2>1. k \in Nodes /\ k \notin Buffers
    BY <1>0, HeadFacts
  <2>2. L[h] \in Seq(Buffers)
    BY <1>0, <1>1
  <2>3. Range(L[h]) \subseteq Buffers
    BY <1>0, <2>2, RangeFacts
  <2> QED
    BY <1>0, <1>6, <2>1, <2>3
<1>7. ASSUME NEW k \in Circles PROVE Ring(l2.next, l2.prev, k, M[k])
  <2>1. CASE k = h
    BY <1>0, <1>2, <2>1
  <2>2. CASE k # h
    <3>1. k \in Lists
      BY <1>0, HeadFacts
    <3>2. \A x \in Range(L[k]) \union {k} :
            l2.next[x] = l.next[x] /\ l2.prev[x] = l.prev[x]
      BY <1>0, <1>5, <1>6, <2>2, <3>1
    <3>3. L[k] \in Seq(Buffers) /\ Ring(l.next, l.prev, k, L[k])
      BY <1>0, <1>1, <3>1
    <3>4. Ring(l2.next, l2.prev, k, L[k])
      BY <1>0, <3>2, <3>3, RingFrame
    <3> QED
      BY <1>0, <1>2, <2>2, <3>1, <3>4
  <2> QED
    BY <1>0, <2>1, <2>2
<1>8. Path(l2.next, from2, ArpQueue, M[ArpQueue])
  <2>1. CASE h = ArpQueue
    BY <1>0, <1>2, <2>1
  <2>2. CASE h # ArpQueue
    <3>1. ArpQueue \in Lists /\ h \in Circles
      BY <1>0, <2>2, HeadFacts
    <3>2. \A x \in Range(L[ArpQueue]) : l2.next[x] = l.next[x]
      BY <1>0, <1>5, <2>2, <3>1
    <3>3. L[ArpQueue] \in Seq(Buffers)
      BY <1>0, <1>1, <3>1
    <3>4. Path(l2.next, from, ArpQueue, L[ArpQueue])
      BY <1>0, <1>1, <3>2, <3>3, PathFrame
    <3> QED
      BY <1>0, <1>2, <2>2, <3>1, <3>4
  <2> QED
    BY <1>0, <2>1, <2>2
<1>9. ListsOk(l2, M, V, from2)
  BY <1>0, <1>2, <1>3, <1>4, <1>7, <1>8 DEF ListsOk
<1> QED
  BY <1>9 DEF M, V

-----------------------------------------------------------------------------
(* The operations of list.h, as the stack uses them.                       *)

(* The stores of AddBetween. *)
LEMMA AddBetweenStores ==
  ASSUME NEW l, Linked(l), NEW b \in Nodes, NEW u \in Nodes, NEW v \in Nodes,
         b # u, b # v
  PROVE  /\ Linked(AddBetween(l, b, u, v))
         /\ AddBetween(l, b, u, v).next[u] = b /\ AddBetween(l, b, u, v).next[b] = v
         /\ AddBetween(l, b, u, v).prev[v] = b /\ AddBetween(l, b, u, v).prev[b] = u
         /\ \A x \in Nodes \ {b, u} : AddBetween(l, b, u, v).next[x] = l.next[x]
         /\ \A x \in Nodes \ {b, v} : AddBetween(l, b, u, v).prev[x] = l.prev[x]
BY DEF AddBetween, Linked

(* The stores of Unlink. *)
LEMMA UnlinkStores ==
  ASSUME NEW l, Linked(l), NEW b \in Nodes, Null \in Nodes,
         l.prev[b] # b, l.next[b] # b
  PROVE  /\ Linked(Unlink(l, b))
         /\ Unlink(l, b).next[l.prev[b]] = l.next[b]
         /\ Unlink(l, b).prev[l.next[b]] = l.prev[b]
         /\ \A x \in Nodes \ {b, l.prev[b]} : Unlink(l, b).next[x] = l.next[x]
         /\ \A x \in Nodes \ {b, l.next[b]} : Unlink(l, b).prev[x] = l.prev[x]
BY DEF Unlink, Linked

(* What a list of ListsOk is like. *)
ListIs(l, L, W, h) ==
  /\ L[h] \in Seq(Buffers) /\ IsInjective(L[h])
  /\ h \in Nodes /\ h \notin Range(L[h]) /\ Range(L[h]) \subseteq Buffers
  /\ \A b \in Buffers : b \in Range(L[h]) <=> W[b] = List(h)
  /\ Linked(l)

LEMMA ListFacts ==
  ASSUME NEW l, NEW L, NEW W, NEW from, ListsOk(l, L, W, from), NEW h \in Lists
  PROVE  ListIs(l, L, W, h)
<1>1. /\ L[h] \in Seq(Buffers) /\ IsInjective(L[h]) /\ Linked(l)
      /\ \A b \in Buffers : b \in Range(L[h]) <=> W[b] = List(h)
  BY DEF ListsOk
<1>2. Range(L[h]) \subseteq Buffers
  BY <1>1, RangeFacts
<1>3. h \in Nodes /\ h \notin Buffers
  BY HeadFacts
<1> QED
  BY <1>1, <1>2, <1>3 DEF ListIs

(* Whether a list of the stack has a node, and which is its first.         *)
FirstIs(l, L, W, h) ==
  /\ l.next[h] = h <=> L[h] = <<>>
  /\ L[h] # <<>> => /\ l.next[h] = Head(L[h]) /\ l.next[h] \in Buffers
                    /\ W[l.next[h]] = List(h) /\ l.prev[l.next[h]] = h
                    /\ l.next[l.next[h]] \in (Range(L[h]) \union {h}) \ {l.next[h]}
                    /\ l.next[h] = L[h][1]

LEMMA FirstFacts ==
  ASSUME NEW l, NEW L, NEW W, NEW from, ListsOk(l, L, W, from), NEW h \in Circles
  PROVE  FirstIs(l, L, W, h)
<1> DEFINE s == L[h]
<1>1. ListIs(l, L, W, h) /\ h \in Lists
  BY ListFacts, HeadFacts
<1>2. s \in Seq(Buffers) /\ IsInjective(s) /\ h \notin Range(s) /\ Ring(l.next, l.prev, h, s)
  BY <1>1 DEF ListIs, ListsOk
<1> HIDE DEF s
<1>3. Places(Buffers, s, h)
  BY <1>2, AtRange
<1>4. /\ Len(s) \in Nat /\ At(s, h, 0) = h /\ At(s, h, Len(s) + 1) = h
      /\ \A i \in 1 .. Len(s) : At(s, h, i) = s[i] /\ s[i] \in Range(s) /\ s[i] \in Buffers
      /\ \A i : At(s, h, i) \in {h} \union Range(s)
  BY <1>3 DEF Places
<1>5. l.next[h] = At(s, h, 1) /\ l.prev[At(s, h, 1)] = h
  BY <1>2, <1>4 DEF Ring
<1>6. CASE s = <<>>
  <2>1. Len(s) = 0
    BY <1>6
  <2>2. At(s, h, 1) = h
    BY <1>4, <2>1
  <2> QED
    BY <1>5, <1>6, <2>2 DEF FirstIs, s
<1>7. CASE s # <<>>
  <2>1. TailPlaces(Buffers, s, h)
    BY <1>2, <1>7, AtTail
  <2>2. Len(s) \in Nat \ {0} /\ Head(s) = s[1]
    BY <2>1 DEF TailPlaces
  <2>3. 1 \in 1 .. Len(s) /\ At(s, h, 1) = s[1] /\ s[1] \in Range(s) /\ s[1] \in Buffers
    BY <1>4, <2>2
  <2>4. l.next[s[1]] = At(s, h, 2)
    BY <1>2, <2>2, <2>3 DEF Ring
  <2>5. At(s, h, 2) # s[1]
    <3>1. CASE Len(s) = 1
      <4>1. At(s, h, 2) = h
        BY <1>4, <3>1
      <4> QED
        BY <1>2, <2>3, <4>1
    <3>2. CASE Len(s) # 1
      <4>0. 2 \in 1 .. Len(s)
        <5>1. \A k \in Nat \ {0} : k # 1 => 2 \in 1 .. k
          OBVIOUS
        <5> QED
          BY <2>2, <3>2, <5>1
      <4>1. 2 \in 1 .. Len(s) /\ At(s, h, 2) = s[2]
        BY <1>4, <4>0
      <4>2. \A i, j \in 1 .. Len(s) : s[i] = s[j] => i = j
        BY <1>2, RangeFacts
      <4> QED
        BY <2>3, <4>1, <4>2
    <3> QED
      BY <3>1, <3>2
  <2>6. W[s[1]] = List(h)
    BY <1>1, <2>3 DEF ListIs, s
  <2>7. s[1] # h
    BY <1>2, <2>3
  <2> QED
    BY <1>4, <1>5, <1>7, <2>2, <2>3, <2>4, <2>5, <2>6, <2>7 DEF FirstIs, s
<1> QED
  BY <1>6, <1>7

(* The first buffer of a list gets another owner, who is no list.          *)
Removes(l, L, W, from, h, w) ==
  /\ ListsOk(DeleteFirst(l, h), [L EXCEPT ![h] = Tail(L[h])],
             [W EXCEPT ![l.next[h]] = w], from)
  /\ DeleteFirst(l, h).next[ArpQueue] = l.next[ArpQueue]

LEMMA Removed ==
  ASSUME NEW l, NEW L, NEW W, NEW from, ListsOk(l, L, W, from),
         NEW h \in Circles, L[h] # <<>>, NEW w, \A k \in Lists : w # List(k)
  PROVE  Removes(l, L, W, from, h, w)
<1> DEFINE s == L[h]
           b == l.next[h]
           m == Unlink(l, b)
<1>0. h \in Lists
  BY HeadFacts
<1>1. ListIs(l, L, W, h) /\ FirstIs(l, L, W, h)
  BY <1>0, ListFacts, FirstFacts
<1>2. /\ s \in Seq(Buffers) /\ s # <<>> /\ IsInjective(s) /\ h \in Nodes /\ h \notin Range(s)
      /\ Range(s) \subseteq Buffers /\ Linked(l)
  BY <1>1 DEF ListIs
<1>3. /\ b = Head(s) /\ b = s[1] /\ b \in Buffers /\ W[b] = List(h) /\ l.prev[b] = h
      /\ l.next[b] \in (Range(s) \union {h}) \ {b} /\ l.next[h] = b
  BY <1>1 DEF FirstIs
<1>4. /\ Tail(s) \in Seq(Buffers) /\ Range(Tail(s)) = Range(s) \ {b}
      /\ IsInjective(Tail(s)) /\ b \in Range(s)
  BY <1>2, <1>3, TailFacts
<1>5. Ring(l.next, l.prev, h, s)
  BY DEF ListsOk
<1>6. Buffers \subseteq Nodes /\ Null \in Nodes
  BY HeadFacts
<1> HIDE DEF s, b
<1>7. /\ Linked(m) /\ m.next[h] = l.next[b] /\ m.prev[l.next[b]] = h
      /\ \A x \in Nodes \ {b, h} : m.next[x] = l.next[x]
      /\ \A x \in Nodes \ {b, l.next[b]} : m.prev[x] = l.prev[x]
  <2>1. b \in Nodes /\ l.prev[b] # b /\ l.next[b] # b /\ l.prev[b] = h
    BY <1>2, <1>3, <1>6
  <2> QED
    BY <1>2, <1>6, <2>1, UnlinkStores
<1> HIDE DEF m
<1>8. Ring(m.next, m.prev, h, Tail(s))
  <2>1. Range(s) \union {h} \subseteq Nodes
    BY <1>2, <1>6
  <2>2. /\ \A x \in (Range(s) \union {h}) \ {s[1], h} : m.next[x] = l.next[x]
        /\ \A x \in (Range(s) \union {h}) \ {s[1], l.next[s[1]]} : m.prev[x] = l.prev[x]
    BY <1>3, <1>7, <2>1
  <2>3. m.next[h] = l.next[s[1]] /\ m.prev[l.next[s[1]]] = h
    BY <1>3, <1>7
  <2> QED
    BY <1>2, <1>5, <2>2, <2>3, RingTail
<1>9. ListsOk(m, [L EXCEPT ![h] = Tail(s)], [W EXCEPT ![b] = w], from)
  <2>1. /\ Range(Tail(s)) \ {b} = Range(s) \ {b}
        /\ w = List(h) <=> b \in Range(Tail(s))
    BY <1>0, <1>4
  <2>2. \A k \in Lists \ {h} : w # List(k) /\ W[b] # List(k)
    BY <1>3, Owners
  <2>3. \A x \in Nodes \ (Range(s) \union {h, b}) :
          m.next[x] = l.next[x] /\ m.prev[x] = l.prev[x]
    BY <1>3, <1>7
  <2>4. h # ArpQueue
    BY HeadFacts
  <2> QED
    <3>1. Relists(l, L, W, m, h, Tail(s), b, w)
      BY <1>0, <1>3, <1>4, <1>7, <2>1, <2>2, <2>3 DEF Relists, s
    <3> QED
      BY <1>8, <2>4, <3>1, Relisted
<1>10. m.next[ArpQueue] = l.next[ArpQueue]
  <2>1. ArpQueue \in Nodes /\ ArpQueue # h /\ ArpQueue \notin Buffers
    BY HeadFacts
  <2> QED
    BY <1>3, <1>7, <2>1
<1> QED
  BY <1>9, <1>10 DEF m, b, s, DeleteFirst, Removes

(* A buffer that is in no list goes to the head of the pool.               *)
LEMMA Freed ==
  ASSUME NEW l, NEW L, NEW W, NEW from, ListsOk(l, L, W, from),
         NEW b \in Buffers, \A k \in Lists : W[b] # List(k)
  PROVE  /\ ListsOk(AddFirst(l, b, Pool), [L EXCEPT ![Pool] = InsertAt(L[Pool], 1, b)],
                    [W EXCEPT ![b] = List(Pool)], from)
         /\ AddFirst(l, b, Pool).next[ArpQueue] = l.next[ArpQueue]
         /\ \A c \in Buffers \ {b} : AddFirst(l, b, Pool).next[c] = l.next[c]
<1> DEFINE h == Pool
           s == L[h]
           f == l.next[h]
           m == AddBetween(l, b, h, f)
           r == InsertAt(s, 1, b)
<1>0. /\ h \in Lists /\ h \in Circles /\ h # ArpQueue /\ h \notin Buffers
      /\ Buffers \subseteq Nodes /\ ArpQueue \in Nodes /\ ArpQueue \notin Buffers
  BY HeadFacts
<1>1. ListIs(l, L, W, h) /\ FirstIs(l, L, W, h)
  BY <1>0, ListFacts, FirstFacts
<1>2. /\ s \in Seq(Buffers) /\ IsInjective(s) /\ h \in Nodes /\ h \notin Range(s)
      /\ Range(s) \subseteq Buffers /\ Linked(l) /\ b \notin Range(s)
  BY <1>0, <1>1 DEF ListIs
<1>3. f \in Range(s) \union {h}
  <2>1. CASE s = <<>>
    BY <1>1, <2>1 DEF FirstIs
  <2>2. CASE s # <<>>
    BY <1>1, <2>2 DEF FirstIs, ListIs
  <2> QED
    BY <2>1, <2>2
<1>4. FirstPlaces(Buffers, s, b, h)
  BY <1>2, AtFirst
<1>5. Ring(l.next, l.prev, h, s)
  BY <1>0 DEF ListsOk
<1>6. f = l.next[h]
  OBVIOUS
<1> HIDE DEF s, f
<1>7. /\ Linked(m) /\ m.next[h] = b /\ m.next[b] = f /\ m.prev[f] = b /\ m.prev[b] = h
      /\ \A x \in Nodes \ {b, h} : m.next[x] = l.next[x]
      /\ \A x \in Nodes \ {b, f} : m.prev[x] = l.prev[x]
  <2>1. b \in Nodes /\ f \in Nodes /\ b # h /\ b # f
    BY <1>0, <1>2, <1>3
  <2> QED
    BY <1>2, <2>1, AddBetweenStores
<1> HIDE DEF m
<1>8. Ring(m.next, m.prev, h, r)
  <2>1. Range(s) \union {h} \subseteq Nodes /\ b # h
    BY <1>0, <1>2
  <2>2. /\ \A x \in Range(s) : m.next[x] = l.next[x]
        /\ \A x \in (Range(s) \union {h}) \ {l.next[h]} : m.prev[x] = l.prev[x]
    BY <1>2, <1>6, <1>7, <2>1
  <2>3. /\ m.next[h] = b /\ m.next[b] = l.next[h] /\ m.prev[l.next[h]] = b
        /\ m.prev[b] = h
    BY <1>6, <1>7
  <2> QED
    <3>1. FirstLinks(l.next, l.prev, m.next, m.prev, h, s, b)
      BY <2>2, <2>3 DEF FirstLinks
    <3> QED
      BY <1>2, <1>5, <2>1, <3>1, RingFirst
<1>9. ListsOk(m, [L EXCEPT ![h] = r], [W EXCEPT ![b] = List(h)], from)
  <2>1. /\ r \in Seq(Buffers) /\ IsInjective(r)
        /\ Range(r) \ {b} = Range(s) \ {b} /\ b \in Range(r)
    BY <1>2, <1>4 DEF FirstPlaces
  <2>2. \A k \in Lists \ {h} : List(h) # List(k) /\ W[b] # List(k)
    BY Owners
  <2>3. \A x \in Nodes \ (Range(s) \union {h, b}) :
          m.next[x] = l.next[x] /\ m.prev[x] = l.prev[x]
    BY <1>3, <1>7
  <2> HIDE DEF r
  <2> QED
    <3>1. Relists(l, L, W, m, h, r, b, List(h))
      BY <1>0, <1>7, <2>1, <2>2, <2>3 DEF Relists, s
    <3> QED
      BY <1>0, <1>8, <3>1, Relisted
<1>10. /\ m.next[ArpQueue] = l.next[ArpQueue]
       /\ \A c \in Buffers \ {b} : m.next[c] = l.next[c]
  BY <1>0, <1>7
<1> QED
  BY <1>9, <1>10 DEF m, f, s, AddFirst

(* A buffer that is in no list goes to the end of a port's.                *)
LEMMA Queued ==
  ASSUME NEW l, NEW L, NEW W, NEW from, ListsOk(l, L, W, from),
         NEW h \in Ports, NEW b \in Buffers, \A k \in Lists : W[b] # List(k)
  PROVE  /\ ListsOk(AddLast(l, b, h), [L EXCEPT ![h] = Append(L[h], b)],
                    [W EXCEPT ![b] = List(h)], from)
         /\ AddLast(l, b, h).next[ArpQueue] = l.next[ArpQueue]
<1> DEFINE s == L[h]
           f == l.prev[h]
           m == AddBetween(l, b, f, h)
           r == Append(s, b)
<1>0. /\ h \in Lists /\ h \in Circles /\ h # ArpQueue /\ h \notin Buffers
      /\ Buffers \subseteq Nodes /\ ArpQueue \in Nodes /\ ArpQueue \notin Buffers
  BY HeadFacts
<1>1. ListIs(l, L, W, h)
  BY <1>0, ListFacts
<1>2. /\ s \in Seq(Buffers) /\ IsInjective(s) /\ h \in Nodes /\ h \notin Range(s)
      /\ Range(s) \subseteq Buffers /\ Linked(l) /\ b \notin Range(s)
  BY <1>0, <1>1 DEF ListIs
<1>3. Ring(l.next, l.prev, h, s)
  BY <1>0 DEF ListsOk
<1>4. f = l.prev[h]
  OBVIOUS
<1> HIDE DEF s, f
<1>5. f \in Range(s) \union {h}
  <2>1. Places(Buffers, s, h)
    BY <1>2, AtRange
  <2>2. /\ Len(s) \in 0 .. Len(s) /\ At(s, h, Len(s) + 1) = h
        /\ At(s, h, Len(s)) \in {h} \union Range(s)
    BY <2>1 DEF Places
  <2>3. l.prev[h] = At(s, h, Len(s))
    BY <1>3, <2>2 DEF Ring
  <2> QED
    BY <1>4, <2>2, <2>3
<1>6. /\ Linked(m) /\ m.next[f] = b /\ m.next[b] = h /\ m.prev[h] = b /\ m.prev[b] = f
      /\ \A x \in Nodes \ {b, f} : m.next[x] = l.next[x]
      /\ \A x \in Nodes \ {b, h} : m.prev[x] = l.prev[x]
  <2>1. b \in Nodes /\ f \in Nodes /\ b # h /\ b # f
    BY <1>0, <1>2, <1>5
  <2> QED
    BY <1>2, <2>1, AddBetweenStores
<1> HIDE DEF m
<1>7. Ring(m.next, m.prev, h, r)
  <2>1. Range(s) \union {h} \subseteq Nodes /\ b # h
    BY <1>0, <1>2
  <2>2. /\ \A x \in (Range(s) \union {h}) \ {l.prev[h]} : m.next[x] = l.next[x]
        /\ \A x \in Range(s) : m.prev[x] = l.prev[x]
    BY <1>2, <1>4, <1>6, <2>1
  <2>3. LastLinks(l.next, l.prev, m.next, m.prev, h, s, b)
    BY <1>4, <1>6, <2>2 DEF LastLinks
  <2> QED
    BY <1>2, <1>3, <2>1, <2>3, RingLast
<1>8. ListsOk(m, [L EXCEPT ![h] = r], [W EXCEPT ![b] = List(h)], from)
  <2>1. /\ r \in Seq(Buffers) /\ IsInjective(r)
        /\ Range(r) \ {b} = Range(s) \ {b} /\ b \in Range(r)
    BY <1>2, AppendFacts
  <2>2. \A k \in Lists \ {h} : List(h) # List(k) /\ W[b] # List(k)
    BY Owners
  <2>3. \A x \in Nodes \ (Range(s) \union {h, b}) :
          m.next[x] = l.next[x] /\ m.prev[x] = l.prev[x]
    BY <1>5, <1>6
  <2> HIDE DEF r
  <2>4. Relists(l, L, W, m, h, r, b, List(h))
    BY <1>0, <1>6, <2>1, <2>2, <2>3 DEF Relists, s
  <2> QED
    BY <1>0, <1>7, <2>4, Relisted
<1>9. m.next[ArpQueue] = l.next[ArpQueue]
  BY <1>0, <1>2, <1>5, <1>6, HeadFacts DEF ListIs
<1> QED
  BY <1>8, <1>9 DEF m, f, s, AddLast

(* The way through a list that begins with a new node, or without its      *)
(* first.                                                                  *)
LEMMA PathFirst ==
  ASSUME NEW S, NEW s \in Seq(S), NEW h, NEW b \in S, NEW nx, NEW nx2, NEW from,
         Path(nx, from, h, s), nx2[b] = from,
         \A x \in Range(s) : nx2[x] = nx[x]
  PROVE  Path(nx2, b, h, InsertAt(s, 1, b))
<1> DEFINE r == InsertAt(s, 1, b)
<1>1. FirstPlaces(S, s, b, h)
  BY AtFirst
<1>2. /\ r \in Seq(S) /\ Len(r) = Len(s) + 1 /\ At(r, h, 1) = b
      /\ \A i \in 1 .. Len(s) + 1 : At(r, h, i + 1) = At(s, h, i)
  BY <1>1 DEF FirstPlaces
<1> HIDE DEF r
<1>3. Places(S, s, h) /\ Places(S, r, h)
  BY <1>2, AtRange
<1>4. /\ \A i \in 1 .. Len(s) : At(s, h, i) = s[i] /\ s[i] \in Range(s)
      /\ \A i \in 1 .. Len(r) : At(r, h, i) = r[i]
      /\ Len(s) \in Nat
  BY <1>3 DEF Places
<1>5. from = At(s, h, 1) /\ \A i \in 1 .. Len(s) : nx[s[i]] = At(s, h, i + 1)
  BY DEF Path
<1>6. ASSUME NEW i \in 1 .. Len(r) PROVE nx2[r[i]] = At(r, h, i + 1)
  <2>1. r[i] = At(r, h, i) /\ At(r, h, i + 1) = At(s, h, i)
    BY <1>2, <1>4
  <2>2. CASE i = 1
    BY <1>2, <1>5, <2>1, <2>2
  <2>3. CASE i # 1
    <3>1. i - 1 \in 1 .. Len(s) /\ (i - 1) + 1 = i
      BY <1>2, <1>4, <2>3
    <3>2. r[i] = s[i - 1] /\ s[i - 1] \in Range(s)
      BY <1>2, <1>4, <2>1, <3>1
    <3>3. nx[s[i - 1]] = At(s, h, i)
      BY <1>5, <3>1
    <3> QED
      BY <2>1, <3>2, <3>3
  <2> QED
    BY <2>2, <2>3
<1> QED
  BY <1>2, <1>6 DEF Path, r

LEMMA PathTail ==
  ASSUME NEW S, NEW s \in Seq(S), NEW h, NEW nx, NEW from,
         Path(nx, from, h, s), from # h
  PROVE  /\ s # <<>> /\ from = Head(s) /\ from \in Range(s)
         /\ Path(nx, nx[from], h, Tail(s))
<1>1. Places(S, s, h)
  BY AtRange
<1>2. from = At(s, h, 1) /\ \A i \in 1 .. Len(s) : nx[s[i]] = At(s, h, i + 1)
  BY DEF Path
<1>3. s # <<>>
  BY <1>2 DEF At
<1> DEFINE r == Tail(s)
<1>4. TailPlaces(S, s, h)
  BY <1>3, AtTail
<1>5. /\ r \in Seq(S) /\ Len(r) = Len(s) - 1 /\ Len(s) \in Nat \ {0} /\ Head(s) = s[1]
      /\ \A i \in 1 .. Len(s) : At(r, h, i) = At(s, h, i + 1)
  BY <1>4 DEF TailPlaces
<1> HIDE DEF r
<1>6. Places(S, r, h)
  BY <1>5, AtRange
<1>7. /\ \A i \in 1 .. Len(s) : At(s, h, i) = s[i] /\ s[i] \in Range(s)
      /\ \A i \in 1 .. Len(r) : At(r, h, i) = r[i]
  BY <1>1, <1>6 DEF Places
<1>8. from = s[1] /\ s[1] \in Range(s) /\ nx[from] = At(r, h, 1)
  <2>1. 1 \in 1 .. Len(s)
    BY <1>5
  <2>2. At(s, h, 1) = s[1] /\ s[1] \in Range(s) /\ nx[s[1]] = At(s, h, 1 + 1)
        /\ At(r, h, 1) = At(s, h, 1 + 1)
    BY <1>2, <1>5, <1>7, <2>1
  <2> QED
    BY <1>2, <2>2
<1>9. ASSUME NEW i \in 1 .. Len(r) PROVE nx[r[i]] = At(r, h, i + 1)
  <2>1. i + 1 \in 1 .. Len(s) /\ i \in 1 .. Len(s)
    BY <1>5
  <2>2. r[i] = s[i + 1] /\ nx[s[i + 1]] = At(s, h, (i + 1) + 1)
    BY <1>2, <1>5, <1>7, <2>1
  <2>3. At(r, h, i + 1) = At(s, h, (i + 1) + 1)
    BY <1>5, <2>1
  <2> QED
    BY <2>2, <2>3
<1> QED
  BY <1>3, <1>5, <1>8, <1>9 DEF Path, r

(* A buffer that is in no list goes to the head of arp_queue, while no     *)
(* walk of mac_unqueue is under way.                                       *)
LEMMA Parked ==
  ASSUME NEW l, NEW L, NEW W, ListsOk(l, L, W, l.next[ArpQueue]),
         NEW b \in Buffers, \A k \in Lists : W[b] # List(k)
  PROVE  /\ ListsOk(AddFirst(l, b, ArpQueue),
                    [L EXCEPT ![ArpQueue] = InsertAt(L[ArpQueue], 1, b)],
                    [W EXCEPT ![b] = List(ArpQueue)], b)
         /\ AddFirst(l, b, ArpQueue).next[ArpQueue] = b
<1> DEFINE h == ArpQueue
           s == L[h]
           f == l.next[h]
           m == AddBetween(l, b, h, f)
           r == InsertAt(s, 1, b)
<1>0. h \in Lists /\ h \notin Circles /\ h \notin Buffers /\ Buffers \subseteq Nodes
  BY HeadFacts
<1>1. ListIs(l, L, W, h)
  BY <1>0, ListFacts
<1>2. /\ s \in Seq(Buffers) /\ IsInjective(s) /\ h \in Nodes /\ h \notin Range(s)
      /\ Range(s) \subseteq Buffers /\ Linked(l) /\ b \notin Range(s)
  BY <1>0, <1>1 DEF ListIs
<1>3. Path(l.next, f, h, s)
  BY DEF ListsOk
<1> HIDE DEF s, f
<1>4. f \in Range(s) \union {h}
  <2>1. Places(Buffers, s, h)
    BY <1>2, AtRange
  <2> QED
    BY <1>3, <2>1 DEF Path, Places
<1>5. /\ Linked(m) /\ m.next[h] = b /\ m.next[b] = f
      /\ \A x \in Nodes \ {b, h} : m.next[x] = l.next[x]
      /\ \A x \in Nodes \ {b, f} : m.prev[x] = l.prev[x]
  <2>1. b \in Nodes /\ f \in Nodes /\ b # h /\ b # f
    BY <1>0, <1>2, <1>4
  <2> QED
    BY <1>2, <2>1, AddBetweenStores
<1> HIDE DEF m
<1>6. Path(m.next, b, h, r)
  <2>1. \A x \in Range(s) : m.next[x] = l.next[x]
    BY <1>0, <1>2, <1>5
  <2> QED
    BY <1>2, <1>3, <1>5, <2>1, PathFirst
<1>7. ListsOk(m, [L EXCEPT ![h] = r], [W EXCEPT ![b] = List(h)], b)
  <2>0. FirstPlaces(Buffers, s, b, h)
    BY <1>2, AtFirst
  <2>1. /\ r \in Seq(Buffers) /\ IsInjective(r)
        /\ Range(r) \ {b} = Range(s) \ {b} /\ b \in Range(r)
    BY <1>2, <2>0 DEF FirstPlaces
  <2>2. \A k \in Lists \ {h} : List(h) # List(k) /\ W[b] # List(k)
    BY Owners
  <2>3. \A x \in Nodes \ (Range(s) \union {h, b}) :
          m.next[x] = l.next[x] /\ m.prev[x] = l.prev[x]
    BY <1>4, <1>5
  <2> HIDE DEF r
  <2>4. Relists(l, L, W, m, h, r, b, List(h))
    BY <1>0, <1>5, <2>1, <2>2, <2>3 DEF Relists, s
  <2> QED
    BY <1>0, <1>6, <2>4, Relisted
<1> QED
  BY <1>5, <1>7 DEF m, f, s, AddFirst

(* mac_unqueue goes on from a packet, which gets another owner.            *)
LEMMA Walked ==
  ASSUME NEW l, NEW L, NEW W, NEW b \in Buffers, ListsOk(l, L, W, b),
         NEW w, \A k \in Lists : w # List(k)
  PROVE  /\ W[b] = List(ArpQueue) /\ b \in Range(L[ArpQueue]) /\ L[ArpQueue] # <<>>
         /\ ListsOk(l, [L EXCEPT ![ArpQueue] = Tail(L[ArpQueue])],
                    [W EXCEPT ![b] = w], l.next[b])
<1> DEFINE h == ArpQueue
           s == L[h]
<1>0. h \in Lists /\ h \notin Circles /\ h \notin Buffers
  BY HeadFacts
<1>1. ListIs(l, L, W, h) /\ Path(l.next, b, h, s)
  BY <1>0, ListFacts DEF ListsOk
<1>2. s \in Seq(Buffers) /\ IsInjective(s) /\ Linked(l)
      /\ (b \in Range(s) <=> W[b] = List(h))
  BY <1>1 DEF ListIs
<1> HIDE DEF s
<1>3. s # <<>> /\ b = Head(s) /\ b \in Range(s) /\ Path(l.next, l.next[b], h, Tail(s))
  BY <1>0, <1>1, <1>2, PathTail
<1>4. /\ Tail(s) \in Seq(Buffers) /\ IsInjective(Tail(s)) /\ Range(Tail(s)) = Range(s) \ {b}
  BY <1>2, <1>3, TailFacts
<1>5. \A k \in Lists \ {h} : w # List(k) /\ W[b] # List(k)
  BY <1>2, <1>3, Owners
<1>6. Relists(l, L, W, l, h, Tail(s), b, w)
  <2>1. Range(Tail(s)) \ {b} = Range(s) \ {b} /\ (w = List(h) <=> b \in Range(Tail(s)))
    BY <1>0, <1>4
  <2> QED
    BY <1>0, <1>2, <1>4, <1>5, <2>1 DEF Relists, s
<1>7. ListsOk(l, [L EXCEPT ![h] = Tail(s)], [W EXCEPT ![b] = w], l.next[b])
  BY <1>0, <1>3, <1>6, Relisted
<1> QED
  BY <1>2, <1>3, <1>7 DEF s

(* A buffer that is in no list gets another owner, who is none either.     *)
LEMMA Moved ==
  ASSUME NEW l, NEW L, NEW W, NEW from, ListsOk(l, L, W, from),
         NEW b \in Buffers, \A k \in Lists : W[b] # List(k),
         NEW w, \A k \in Lists : w # List(k)
  PROVE  ListsOk(l, L, [W EXCEPT ![b] = w], from)
<1> DEFINE V == [W EXCEPT ![b] = w]
<1>1. DOMAIN W = Buffers /\ \A h \in Lists : \A c \in Buffers :
                              W[c] = List(h) <=> c \in Range(L[h])
  BY DEF ListsOk
<1>2. DOMAIN V = Buffers /\ V[b] = w /\ \A c \in Buffers \ {b} : V[c] = W[c]
  BY <1>1
<1> HIDE DEF V
<1>3. \A h \in Lists : \A c \in Buffers : V[c] = List(h) <=> c \in Range(L[h])
  BY <1>1, <1>2
<1>4. ListsOk(l, L, V, from)
  BY <1>2, <1>3 DEF ListsOk
<1> QED
  BY <1>4 DEF V

-----------------------------------------------------------------------------
(* The owners of the buffers in the rings and of those that are held.      *)

(* What the slots say of the owners. *)
LEMMA SlotOwners ==
  ASSUME NEW W, NEW r, NEW t, NEW hd, SlotsOk(W, r, t, hd)
  PROVE  /\ \A i \in RxSlots : r[i].buf \in Buffers => W[r[i].buf] = Rx(i)
         /\ \A i \in TxSlots : t[i].buf \in Buffers => W[t[i].buf] = Tx(i)
         /\ \A b \in hd : b \in Buffers => W[b] = Held
BY DEF SlotsOk

LEMMA FreeFacts ==
  /\ Free(Gone) /\ \A h \in Lists : Free(List(h))
  /\ \A i : ~Free(Rx(i)) /\ ~Free(Tx(i))
  /\ ~Free(Held)
BY Owners DEF Free

(* The owner of every buffer but some changes from free to free at most.   *)
SameBut(W, V, S) ==
  \A b \in Buffers \ S : V[b] = W[b] \/ (Free(V[b]) /\ Free(W[b]))

LEMMA SlotsSame ==
  ASSUME NEW W, NEW V, NEW r, NEW t, NEW hd, SlotsOk(W, r, t, hd), SameBut(W, V, {})
  PROVE  SlotsOk(V, r, t, hd)
<1> SUFFICES ASSUME NEW b \in Buffers
             PROVE  /\ \A i \in RxSlots : V[b] = Rx(i) <=> r[i].buf = b
                    /\ \A i \in TxSlots : V[b] = Tx(i) <=> t[i].buf = b
                    /\ V[b] = Held <=> b \in hd
                    /\ \/ Free(V[b]) \/ V[b] = Held
                       \/ \E i \in RxSlots : V[b] = Rx(i)
                       \/ \E i \in TxSlots : V[b] = Tx(i)
  BY DEF SlotsOk
<1>1. /\ \A i \in RxSlots : W[b] = Rx(i) <=> r[i].buf = b
      /\ \A i \in TxSlots : W[b] = Tx(i) <=> t[i].buf = b
      /\ W[b] = Held <=> b \in hd
      /\ \/ Free(W[b]) \/ W[b] = Held
         \/ \E i \in RxSlots : W[b] = Rx(i)
         \/ \E i \in TxSlots : W[b] = Tx(i)
  BY DEF SlotsOk
<1>2. CASE V[b] = W[b]
  BY <1>1, <1>2
<1>3. CASE Free(V[b]) /\ Free(W[b])
  BY <1>1, <1>3, FreeFacts
<1> QED
  BY <1>2, <1>3 DEF SameBut

(* A transmit descriptor gets a free buffer, and its old one is free.      *)
LEMMA TxExchange ==
  ASSUME NEW W, NEW V, NEW r, NEW t, NEW t2, NEW hd, SlotsOk(W, r, t, hd),
         NEW i \in TxSlots, NEW o \in Buffers, o = t[i].buf,
         NEW b \in Buffers, Free(W[b]), V[b] = Tx(i), Free(V[o]),
         SameBut(W, V, {b, o}),
         t2[i].buf = b, \A j \in TxSlots \ {i} : t2[j] = t[j]
  PROVE  SlotsOk(V, r, t2, hd)
<1> SUFFICES ASSUME NEW c \in Buffers
             PROVE  /\ \A k \in RxSlots : V[c] = Rx(k) <=> r[k].buf = c
                    /\ \A k \in TxSlots : V[c] = Tx(k) <=> t2[k].buf = c
                    /\ V[c] = Held <=> c \in hd
                    /\ \/ Free(V[c]) \/ V[c] = Held
                       \/ \E k \in RxSlots : V[c] = Rx(k)
                       \/ \E k \in TxSlots : V[c] = Tx(k)
  BY DEF SlotsOk
<1>1. /\ \A k \in RxSlots : W[c] = Rx(k) <=> r[k].buf = c
      /\ \A k \in TxSlots : W[c] = Tx(k) <=> t[k].buf = c
      /\ W[c] = Held <=> c \in hd
      /\ \/ Free(W[c]) \/ W[c] = Held
         \/ \E k \in RxSlots : W[c] = Rx(k)
         \/ \E k \in TxSlots : W[c] = Tx(k)
  BY DEF SlotsOk
<1>2. CASE c = b
  <2>1. V[c] = Tx(i) /\ Free(W[c])
    BY <1>2
  <2>2. /\ \A k \in RxSlots : r[k].buf # c
        /\ \A k \in TxSlots : t[k].buf # c
        /\ c \notin hd
    BY <1>1, <2>1, FreeFacts
  <2>3. \A k \in TxSlots : V[c] = Tx(k) <=> t2[k].buf = c
    BY <1>2, <2>1, <2>2, Owners
  <2> QED
    BY <2>1, <2>2, <2>3, Owners
<1>3. CASE c = o /\ c # b
  <2>1. Free(V[c]) /\ W[c] = Tx(i)
    BY <1>1, <1>3
  <2>2. /\ \A k \in RxSlots : r[k].buf # c
        /\ \A k \in TxSlots \ {i} : t[k].buf # c
        /\ c \notin hd
    BY <1>1, <2>1, Owners
  <2>3. \A k \in TxSlots : t2[k].buf # c
    BY <1>3, <2>2
  <2> QED
    BY <2>1, <2>2, <2>3, FreeFacts
<1>4. CASE c # o /\ c # b
  <2>1. V[c] = W[c] \/ (Free(V[c]) /\ Free(W[c]))
    BY <1>4 DEF SameBut
  <2>2. \A k \in TxSlots : t2[k].buf = c <=> t[k].buf = c
    BY <1>4
  <2>3. CASE V[c] = W[c]
    BY <1>1, <2>2, <2>3
  <2>4. CASE Free(V[c]) /\ Free(W[c])
    BY <1>1, <2>2, <2>4, FreeFacts
  <2> QED
    BY <2>1, <2>3, <2>4
<1> QED
  BY <1>2, <1>3, <1>4

(* So does a receive descriptor.                                           *)
LEMMA RxExchange ==
  ASSUME NEW W, NEW V, NEW r, NEW r2, NEW t, NEW hd, SlotsOk(W, r, t, hd),
         NEW i \in RxSlots, NEW o \in Buffers, o = r[i].buf,
         NEW b \in Buffers, Free(W[b]), V[b] = Rx(i), Free(V[o]),
         SameBut(W, V, {b, o}),
         r2[i].buf = b, \A j \in RxSlots \ {i} : r2[j] = r[j]
  PROVE  SlotsOk(V, r2, t, hd)
<1> SUFFICES ASSUME NEW c \in Buffers
             PROVE  /\ \A k \in RxSlots : V[c] = Rx(k) <=> r2[k].buf = c
                    /\ \A k \in TxSlots : V[c] = Tx(k) <=> t[k].buf = c
                    /\ V[c] = Held <=> c \in hd
                    /\ \/ Free(V[c]) \/ V[c] = Held
                       \/ \E k \in RxSlots : V[c] = Rx(k)
                       \/ \E k \in TxSlots : V[c] = Tx(k)
  BY DEF SlotsOk
<1>1. /\ \A k \in RxSlots : W[c] = Rx(k) <=> r[k].buf = c
      /\ \A k \in TxSlots : W[c] = Tx(k) <=> t[k].buf = c
      /\ W[c] = Held <=> c \in hd
      /\ \/ Free(W[c]) \/ W[c] = Held
         \/ \E k \in RxSlots : W[c] = Rx(k)
         \/ \E k \in TxSlots : W[c] = Tx(k)
  BY DEF SlotsOk
<1>2. CASE c = b
  <2>1. V[c] = Rx(i) /\ Free(W[c])
    BY <1>2
  <2>2. /\ \A k \in TxSlots : t[k].buf # c
        /\ \A k \in RxSlots : r[k].buf # c
        /\ c \notin hd
    BY <1>1, <2>1, FreeFacts
  <2>3. \A k \in RxSlots : V[c] = Rx(k) <=> r2[k].buf = c
    BY <1>2, <2>1, <2>2, Owners
  <2> QED
    BY <2>1, <2>2, <2>3, Owners
<1>3. CASE c = o /\ c # b
  <2>1. Free(V[c]) /\ W[c] = Rx(i)
    BY <1>1, <1>3
  <2>2. /\ \A k \in TxSlots : t[k].buf # c
        /\ \A k \in RxSlots \ {i} : r[k].buf # c
        /\ c \notin hd
    BY <1>1, <2>1, Owners
  <2>3. \A k \in RxSlots : r2[k].buf # c
    BY <1>3, <2>2
  <2> QED
    BY <2>1, <2>2, <2>3, FreeFacts
<1>4. CASE c # o /\ c # b
  <2>1. V[c] = W[c] \/ (Free(V[c]) /\ Free(W[c]))
    BY <1>4 DEF SameBut
  <2>2. \A k \in RxSlots : r2[k].buf = c <=> r[k].buf = c
    BY <1>4
  <2>3. CASE V[c] = W[c]
    BY <1>1, <2>2, <2>3
  <2>4. CASE Free(V[c]) /\ Free(W[c])
    BY <1>1, <2>2, <2>4, FreeFacts
  <2> QED
    BY <2>1, <2>3, <2>4
<1> QED
  BY <1>2, <1>3, <1>4

(* An application takes a free buffer, or gives one back.                  *)
LEMMA HeldExchange ==
  ASSUME NEW W, NEW V, NEW r, NEW t, NEW hd, NEW hd2, SlotsOk(W, r, t, hd),
         NEW b \in Buffers, SameBut(W, V, {b}),
         \/ Free(W[b]) /\ V[b] = Held /\ hd2 = hd \union {b}
         \/ b \in hd /\ Free(V[b]) /\ hd2 = hd \ {b}
  PROVE  SlotsOk(V, r, t, hd2)
<1> SUFFICES ASSUME NEW c \in Buffers
             PROVE  /\ \A k \in RxSlots : V[c] = Rx(k) <=> r[k].buf = c
                    /\ \A k \in TxSlots : V[c] = Tx(k) <=> t[k].buf = c
                    /\ V[c] = Held <=> c \in hd2
                    /\ \/ Free(V[c]) \/ V[c] = Held
                       \/ \E k \in RxSlots : V[c] = Rx(k)
                       \/ \E k \in TxSlots : V[c] = Tx(k)
  BY DEF SlotsOk
<1>1. /\ \A k \in RxSlots : W[c] = Rx(k) <=> r[k].buf = c
      /\ \A k \in TxSlots : W[c] = Tx(k) <=> t[k].buf = c
      /\ W[c] = Held <=> c \in hd
      /\ \/ Free(W[c]) \/ W[c] = Held
         \/ \E k \in RxSlots : W[c] = Rx(k)
         \/ \E k \in TxSlots : W[c] = Tx(k)
  BY DEF SlotsOk
<1>2. CASE c = b
  <2>1. /\ \A k \in RxSlots : r[k].buf # c
        /\ \A k \in TxSlots : t[k].buf # c
    BY <1>1, <1>2, FreeFacts, Owners
  <2>2. CASE Free(W[b]) /\ V[b] = Held /\ hd2 = hd \union {b}
    BY <1>2, <2>1, <2>2, Owners
  <2>3. CASE b \in hd /\ Free(V[b]) /\ hd2 = hd \ {b}
    BY <1>2, <2>1, <2>3, FreeFacts
  <2> QED
    BY <2>2, <2>3
<1>3. CASE c # b
  <2>1. V[c] = W[c] \/ (Free(V[c]) /\ Free(W[c]))
    BY <1>3 DEF SameBut
  <2>2. c \in hd2 <=> c \in hd
    BY <1>3
  <2>3. CASE V[c] = W[c]
    BY <1>1, <2>2, <2>3
  <2>4. CASE Free(V[c]) /\ Free(W[c])
    BY <1>1, <2>2, <2>4, FreeFacts
  <2> QED
    BY <2>1, <2>3, <2>4
<1> QED
  BY <1>2, <1>3

(* The buffers without an owner, when one more has none.                   *)
LEMMA LostOne ==
  ASSUME NEW V, NEW W, NEW b, Unowned(V) \subseteq Unowned(W) \union {b}, NEW k \in Nat,
         Cardinality(Unowned(W)) <= k
  PROVE  /\ Cardinality(Unowned(V)) <= k + 1
         /\ b \in Unowned(W) => Cardinality(Unowned(V)) <= k
<1>1. IsFiniteSet(Buffers)
  BY NetAssumption, FS_Interval DEF Buffers
<1>2. IsFiniteSet(Unowned(W)) /\ Cardinality(Unowned(W)) \in Nat
  <2>1. Unowned(W) \in SUBSET Buffers
    BY DEF Unowned
  <2> QED
    BY <1>1, <2>1, FS_Subset, FS_CardinalityType
<1>3. /\ IsFiniteSet(Unowned(W) \union {b})
      /\ Cardinality(Unowned(W) \union {b}) =
           IF b \in Unowned(W) THEN Cardinality(Unowned(W))
           ELSE Cardinality(Unowned(W)) + 1
  BY <1>2, FS_AddElement
<1>4. Cardinality(Unowned(V)) <= Cardinality(Unowned(W) \union {b})
      /\ Cardinality(Unowned(V)) \in Nat
  <2>1. Unowned(V) \in SUBSET (Unowned(W) \union {b})
    OBVIOUS
  <2> QED
    BY <1>3, <2>1, FS_Subset, FS_CardinalityType
<1> QED
  BY <1>2, <1>3, <1>4

-----------------------------------------------------------------------------
(* What the functions of the stack do to the lists and the slots.          *)

(* One address at most was asked for.                                      *)
LEMMA OneAddress ==
  ASSUME NEW S, IsFiniteSet(S)
  PROVE  Cardinality(S) <= 1 <=> \A x, y \in S : x = y
<1>1. /\ Cardinality(S) \in Nat
      /\ Cardinality(S) = 0 <=> S = {}
      /\ Cardinality(S) = 1 <=> \E x : S = {x}
  BY FS_CardinalityType, FS_EmptySet, FS_Singleton
<1>2. CASE S = {}
  BY <1>1, <1>2
<1>3. CASE S # {}
  <2>1. PICK x : x \in S
    BY <1>3
  <2>2. (\A u, v \in S : u = v) => S = {x}
    BY <2>1
  <2>3. (\E u : S = {u}) => \A u, v \in S : u = v
    OBVIOUS
  <2> QED
    BY <1>1, <1>3, <2>2, <2>3
<1> QED
  BY <1>2, <1>3

LEMMA QueuedGrows ==
  ASSUME QueuedOk, QueuedOk', queuedFor \subseteq queuedFor', OneQueued'
  PROVE  OneQueued /\ (\A x, y \in queuedFor' : x = y) /\ \A x, y \in queuedFor : x = y
<1>1. \A x, y \in queuedFor' : x = y
  BY OneAddress DEF QueuedOk, OneQueued
<1>2. \A x, y \in queuedFor : x = y
  BY <1>1
<1> QED
  BY <1>1, <1>2, OneAddress DEF QueuedOk, OneQueued

(* A pool that is not empty is not broken. *)
LEMMA PoolFacts ==
  ASSUME NEW l, NEW L, NEW W, NEW from, ListsOk(l, L, W, from), ~PoolEmpty(l)
  PROVE  /\ ~Broken(l) /\ L[Pool] # <<>> /\ l.next[Pool] \in Buffers
         /\ W[l.next[Pool]] = List(Pool)
<1>1. Pool \in Circles /\ Pool \in Lists /\ Pool # Null /\ Null \notin Buffers
  BY HeadFacts
<1>2. FirstIs(l, L, W, Pool)
  BY <1>1, FirstFacts
<1> QED
  BY <1>1, <1>2 DEF FirstIs, PoolEmpty, Broken

(* gmac_send_raw of a buffer that is nowhere: the transmit ring has it,    *)
(* and the pool has the one that the ring had.                             *)
Sends(l, L, W, from, b, r, hd, M, V) ==
  /\ ListsOk(links', M, V, from) /\ SlotsOk(V, r, tx', hd)
  /\ tx' \in [TxSlots -> [buf : Buffers, mac : BOOLEAN]]
  /\ tx'[txIndex].buf = b /\ \A i \in TxSlots \ {txIndex} : tx'[i] = tx[i]
  /\ Unowned(V) \subseteq Unowned(W) /\ b \notin Unowned(V)
  /\ \A h \in Lists \ {Pool} : M[h] = L[h]
  /\ links'.next[ArpQueue] = l.next[ArpQueue]
  /\ links'.next[b] = l.next[b]

LEMMA SendRawSends ==
  ASSUME NEW l, NEW L, NEW W, NEW from, ListsOk(l, L, W, from),
         NEW r, NEW hd, SlotsOk(W, r, tx, hd),
         tx \in [TxSlots -> [buf : Buffers, mac : BOOLEAN]], txIndex \in TxSlots,
         NEW b \in Buffers, W[b] = Gone, NEW f, NEW then, SendRaw(l, b, f, then)
  PROVE  \/ pc' = "tx error" \/ (pc' = "bad length" /\ f = Answer)
         \/ /\ pc' = "wait" /\ back' = then
            /\ \E M, V : Sends(l, L, W, from, b, r, hd, M, V)
<1> DEFINE placed == [tx EXCEPT ![txIndex] = [buf |-> b, mac |-> TRUE]]
<1>a. SUFFICES ASSUME ~tx[txIndex].mac, links' = AddFirst(l, tx[txIndex].buf, Pool),
                      tx' = placed, pc' = "wait" /\ back' = then
               PROVE  \E M, V : Sends(l, L, W, from, b, r, hd, M, V)
  BY DEF SendRaw, Hand
<1> DEFINE t == tx[txIndex].buf
           M == [L EXCEPT ![Pool] = InsertAt(L[Pool], 1, t)]
           U == [W EXCEPT ![t] = List(Pool)]
           V == [U EXCEPT ![b] = Tx(txIndex)]
<1>1. /\ links' = AddFirst(l, t, Pool)
      /\ tx' = [tx EXCEPT ![txIndex] = [buf |-> b, mac |-> TRUE]]
  BY <1>a
<1>2. t \in Buffers /\ W[t] = Tx(txIndex)
  BY SlotOwners
<1>3. \A k \in Lists : W[t] # List(k) /\ W[b] # List(k) /\ Tx(txIndex) # List(k)
  BY <1>2, Owners
<1>4. t # b
  BY <1>2, Owners
<1>5. DOMAIN W = Buffers /\ L \in [Lists -> Seq(Buffers)]
  BY DEF ListsOk
<1>6. /\ tx' \in [TxSlots -> [buf : Buffers, mac : BOOLEAN]]
      /\ tx'[txIndex].buf = b /\ \A i \in TxSlots \ {txIndex} : tx'[i] = tx[i]
  BY <1>1
<1>t. t = tx[txIndex].buf
  OBVIOUS
<1> HIDE DEF t
<1>7. /\ ListsOk(links', M, U, from)
      /\ links'.next[ArpQueue] = l.next[ArpQueue] /\ links'.next[b] = l.next[b]
  <2>0. t \in Buffers /\ \A k \in Lists : W[t] # List(k)
    BY <1>2, <1>3
  <2>1. /\ ListsOk(AddFirst(l, t, Pool), M, U, from)
        /\ AddFirst(l, t, Pool).next[ArpQueue] = l.next[ArpQueue]
        /\ \A c \in Buffers \ {t} : AddFirst(l, t, Pool).next[c] = l.next[c]
    BY <2>0, Freed
  <2>2. links' = AddFirst(l, t, Pool)
    BY <1>1
  <2> HIDE DEF M, U
  <2> QED
    BY <1>4, <2>1, <2>2
<1>8. /\ DOMAIN U = Buffers /\ U[t] = List(Pool) /\ U[b] = Gone
      /\ \A c \in Buffers \ {t} : U[c] = W[c]
  BY <1>2, <1>4, <1>5
<1>m. \A h \in Lists \ {Pool} : M[h] = L[h]
  BY <1>5
<1> HIDE DEF U, M
<1>9. ListsOk(links', M, V, from)
  <2>1. \A k \in Lists : U[b] # List(k) /\ Tx(txIndex) # List(k)
    BY <1>3, <1>8, Owners
  <2> QED
    BY <1>7, <2>1, Moved
<1>10. V[b] = Tx(txIndex) /\ V[t] = List(Pool) /\ \A c \in Buffers \ {b, t} : V[c] = W[c]
  BY <1>2, <1>4, <1>8
<1> HIDE DEF V
<1>11. SlotsOk(V, r, tx', hd)
  <2>1. Free(W[b]) /\ Free(V[t])
    BY <1>10, FreeFacts, HeadFacts
  <2>2. SameBut(W, V, {b, t})
    BY <1>10 DEF SameBut
  <2> QED
    BY <1>2, <1>6, <1>10, <1>t, <2>1, <2>2, TxExchange
<1>12. Unowned(V) \subseteq Unowned(W) /\ b \notin Unowned(V)
  BY <1>10, Owners DEF Unowned
<1>13. Sends(l, L, W, from, b, r, hd, M, V)
  BY <1>6, <1>7, <1>9, <1>11, <1>12, <1>m DEF Sends
<1> QED
  BY <1>13

(* A buffer that mac_send has in hand; the receive ring is r.              *)
InHand(l, L, W, r, b) ==
  /\ ListsOk(l, L, W, Ahead(arp, l)) /\ SlotsOk(W, r, tx, held)
  /\ Types
  /\ b \in Buffers /\ W[b] = Gone
  /\ AskedFor(arp, requests, queuedFor)
  /\ WaitOk(L[ArpQueue], dest, queuedFor)

(* No address becomes known, and no answer is sent but f.                  *)
Placed(f) ==
  /\ \A p \in Peers : arp'[p] = "known" => arp[p] = "known"
  /\ \A c \in Buffers : content'[c] = Answer => content[c] = Answer \/ f = Answer

Dispatched(L, W, r, b, f, M, V) ==
  /\ ListsOk(links', M, V, Ahead(arp', links')) /\ SlotsOk(V, r, tx', held)
  /\ tx' \in [TxSlots -> [buf : Buffers, mac : BOOLEAN]]
  /\ content' \in [Buffers -> Frames] /\ DOMAIN dest' = Buffers
  /\ arp' \in [Peers -> {"none", "waiting", "known"}] /\ requests' \in [Peers -> Nat]
  /\ Unowned(V) \subseteq Unowned(W) \ {b}
  /\ \A q \in Ports : M[q] = L[q]
  /\ \A c \in Buffers : ~(W[c] \in {Gone, List(Pool)}) => content'[c] = content[c]
  /\ AskedFor(arp', requests', queuedFor')
  /\ WaitOk(M[ArpQueue], dest', queuedFor')
  /\ Placed(f)

(* To a known address, or to all. *)
LEMMA DirectSend ==
  ASSUME NEW l, NEW L, NEW W, NEW r, NEW b, InHand(l, L, W, r, b),
         NEW f \in Frames, SendRaw(l, b, f, "idle"), content' = [content EXCEPT ![b] = f],
         UNCHANGED <<arp, requests, queuedFor>>,
         DOMAIN dest' = Buffers, \A c \in Buffers \ {b} : dest'[c] = dest[c]
  PROVE  \/ pc' = "tx error" \/ (pc' = "bad length" /\ f = Answer)
         \/ /\ pc' = "wait" /\ back' = "idle"
            /\ \E M, V : Dispatched(L, W, r, b, f, M, V)
<1>1. /\ ListsOk(l, L, W, Ahead(arp, l)) /\ SlotsOk(W, r, tx, held)
      /\ b \in Buffers /\ W[b] = Gone
      /\ AskedFor(arp, requests, queuedFor)
      /\ WaitOk(L[ArpQueue], dest, queuedFor)
  BY DEF InHand
<1>2. /\ tx \in [TxSlots -> [buf : Buffers, mac : BOOLEAN]] /\ txIndex \in TxSlots
      /\ content \in [Buffers -> Frames]
      /\ arp \in [Peers -> {"none", "waiting", "known"}] /\ requests \in [Peers -> Nat]
  BY DEF InHand, Types
<1>3. \/ pc' = "tx error" \/ (pc' = "bad length" /\ f = Answer)
      \/ /\ pc' = "wait" /\ back' = "idle"
         /\ \E M, V : Sends(l, L, W, Ahead(arp, l), b, r, held, M, V)
  <2> DEFINE A == Ahead(arp, l)
  <2>1. ListsOk(l, L, W, A)
    BY <1>1
  <2> HIDE DEF A
  <2>2. \/ pc' = "tx error" \/ (pc' = "bad length" /\ f = Answer)
        \/ /\ pc' = "wait" /\ back' = "idle"
           /\ \E M, V : Sends(l, L, W, A, b, r, held, M, V)
    BY <1>1, <1>2, <2>1, SendRawSends
  <2> QED
    BY <2>2 DEF A
<1> SUFFICES ASSUME NEW M, NEW V, Sends(l, L, W, Ahead(arp, l), b, r, held, M, V)
             PROVE  Dispatched(L, W, r, b, f, M, V)
  BY <1>3
<1>4. /\ ListsOk(links', M, V, Ahead(arp, l)) /\ SlotsOk(V, r, tx', held)
      /\ tx' \in [TxSlots -> [buf : Buffers, mac : BOOLEAN]]
      /\ tx'[txIndex].buf = b /\ \A i \in TxSlots \ {txIndex} : tx'[i] = tx[i]
      /\ Unowned(V) \subseteq Unowned(W) /\ b \notin Unowned(V)
      /\ \A h \in Lists \ {Pool} : M[h] = L[h]
      /\ links'.next[ArpQueue] = l.next[ArpQueue]
  BY DEF Sends
<1>5. Ahead(arp', links') = Ahead(arp, l)
  BY <1>4 DEF Ahead
<1>6. \A q \in Ports \union {ArpQueue} : M[q] = L[q]
  BY <1>4, HeadFacts
<1>7. /\ content' \in [Buffers -> Frames] /\ content'[b] = f
      /\ \A c \in Buffers \ {b} : content'[c] = content[c]
  BY <1>1, <1>2
<1>8. WaitOk(M[ArpQueue], dest', queuedFor')
  <2>1. ListIs(l, L, W, ArpQueue)
    BY <1>1, ListFacts, HeadFacts
  <2>2. Range(L[ArpQueue]) \subseteq Buffers /\ b \notin Range(L[ArpQueue])
    BY <1>1, <2>1, Owners DEF ListIs
  <2>3. M[ArpQueue] = L[ArpQueue] /\ queuedFor' = queuedFor
    BY <1>6
  <2> QED
    BY <1>1, <1>7, <2>2, <2>3 DEF WaitOk
<1>9. Placed(f)
  BY <1>1, <1>7 DEF Placed
<1>10. Unowned(V) \subseteq Unowned(W) \ {b}
  BY <1>4
<1>11. \A c \in Buffers : ~(W[c] \in {Gone, List(Pool)}) => content'[c] = content[c]
  BY <1>1, <1>7
<1>12. /\ arp' \in [Peers -> {"none", "waiting", "known"}] /\ requests' \in [Peers -> Nat]
       /\ AskedFor(arp', requests', queuedFor')
  BY <1>1, <1>2
<1> QED
  BY <1>4, <1>5, <1>6, <1>7, <1>8, <1>9, <1>10, <1>11, <1>12 DEF Dispatched

(* To an unknown address: the packet waits, and another buffer asks.       *)
Asks(l, b, f, p) ==
  LET m == AddFirst(l, b, ArpQueue)
      q == m.next[Pool]
  IN  /\ dest' = [dest EXCEPT ![b] = p]
      /\ queuedFor' = queuedFor \union {p}
      /\ arp' = [arp EXCEPT ![p] = "waiting"]
      /\ IF PoolEmpty(m) \/ Broken(m)
         THEN /\ pc' = IF PoolEmpty(m) THEN "no buffer" ELSE "fault"
              /\ links' = m
              /\ UNCHANGED <<tx, back, content, requests>>
         ELSE /\ SendRaw(DeleteFirst(m, Pool), q, Nothing, "idle")
              /\ content' = [content EXCEPT ![b] = f, ![q] = Nothing]
              /\ requests' = [requests EXCEPT ![p] = @ + 1]

LEMMA AskingSend ==
  ASSUME NEW l, NEW L, NEW W, NEW r, NEW b, InHand(l, L, W, r, b),
         NEW f \in Frames, NEW p \in Peers, arp[p] # "known", Asks(l, b, f, p),
         \A x, y \in queuedFor' : x = y
  PROVE  \/ pc' \in {"tx error", "no buffer"}
         \/ /\ pc' = "wait" /\ back' = "idle"
            /\ \E M, V : Dispatched(L, W, r, b, f, M, V)
<1> DEFINE m == AddFirst(l, b, ArpQueue)
           q == m.next[Pool]
           k == DeleteFirst(m, Pool)
           L1 == [L EXCEPT ![ArpQueue] = InsertAt(L[ArpQueue], 1, b)]
           W1 == [W EXCEPT ![b] = List(ArpQueue)]
           L2 == [L1 EXCEPT ![Pool] = Tail(L1[Pool])]
           W2 == [W1 EXCEPT ![q] = Gone]
<1>1. /\ ListsOk(l, L, W, Ahead(arp, l)) /\ SlotsOk(W, r, tx, held)
      /\ b \in Buffers /\ W[b] = Gone
      /\ AskedFor(arp, requests, queuedFor)
      /\ WaitOk(L[ArpQueue], dest, queuedFor)
  BY DEF InHand
<1>2. /\ tx \in [TxSlots -> [buf : Buffers, mac : BOOLEAN]] /\ txIndex \in TxSlots
      /\ content \in [Buffers -> Frames] /\ Nothing \in Frames /\ DOMAIN dest = Buffers
      /\ arp \in [Peers -> {"none", "waiting", "known"}] /\ requests \in [Peers -> Nat]
  BY DEF InHand, Types, Frames
<1>3. /\ dest' = [dest EXCEPT ![b] = p] /\ queuedFor' = queuedFor \union {p}
      /\ arp' = [arp EXCEPT ![p] = "waiting"]
  BY DEF Asks
<1>e. PoolEmpty(m) => pc' = "no buffer"
  BY DEF Asks
<1>s. ~PoolEmpty(m) /\ ~Broken(m) =>
         /\ SendRaw(k, q, Nothing, "idle")
         /\ content' = [content EXCEPT ![b] = f, ![q] = Nothing]
         /\ requests' = [requests EXCEPT ![p] = @ + 1]
  BY DEF Asks
<1>4. \A x \in Peers : arp[x] # "known"
  BY <1>1, <1>3 DEF AskedFor
<1>5. ListsOk(l, L, W, l.next[ArpQueue])
  BY <1>1, <1>4 DEF Ahead
<1>6. \A h \in Lists : W[b] # List(h)
  BY <1>1, Owners
<1>7. /\ DOMAIN W = Buffers /\ L \in [Lists -> Seq(Buffers)] /\ ArpQueue \in Lists
      /\ Pool \in Lists /\ Pool # ArpQueue
  BY <1>1, HeadFacts DEF ListsOk
<1>8. ListsOk(m, L1, W1, b) /\ m.next[ArpQueue] = b
  BY <1>1, <1>5, <1>6, Parked
<1>9. /\ DOMAIN W1 = Buffers /\ W1[b] = List(ArpQueue)
      /\ \A c \in Buffers \ {b} : W1[c] = W[c]
  BY <1>1, <1>7
<1>10. /\ L1[ArpQueue] = InsertAt(L[ArpQueue], 1, b) /\ DOMAIN L1 = Lists
       /\ \A h \in Lists \ {ArpQueue} : L1[h] = L[h]
  BY <1>7
<1>l. /\ DOMAIN L1 = Lists => \A h \in Lists \ {Pool} : L2[h] = L1[h]
      /\ k = DeleteFirst(m, Pool) /\ q = m.next[Pool]
  OBVIOUS
<1>w. \A h : h = m => W2 = [W1 EXCEPT ![h.next[Pool]] = Gone]
  OBVIOUS
<1> HIDE DEF L1, W1, m, L2, W2
<1>11. CASE PoolEmpty(m)
  BY <1>e, <1>11
<1>12. CASE ~PoolEmpty(m)
  <2>1. ~Broken(m) /\ L1[Pool] # <<>> /\ q \in Buffers /\ W1[q] = List(Pool)
    BY <1>8, <1>12, PoolFacts
  <2>2. q # b /\ W[q] = List(Pool)
    BY <1>7, <1>9, <2>1, Owners
  <2>3. ListsOk(k, L2, W2, b) /\ k.next[ArpQueue] = b
    <3>1. Pool \in Circles /\ \A h \in Lists : Gone # List(h)
      BY HeadFacts, Owners
    <3>2. /\ ListsOk(DeleteFirst(m, Pool), [L1 EXCEPT ![Pool] = Tail(L1[Pool])],
                     [W1 EXCEPT ![m.next[Pool]] = Gone], b)
          /\ DeleteFirst(m, Pool).next[ArpQueue] = m.next[ArpQueue]
      <4>1. ListsOk(m, L1, W1, b) /\ L1[Pool] # <<>>
        BY <1>8, <2>1
      <4>2. Removes(m, L1, W1, b, Pool, Gone)
        BY <3>1, <4>1, Removed
      <4> QED
        BY <4>2 DEF Removes
    <3> QED
      BY <1>8, <3>2 DEF L2, W2
  <2>4. W2[q] = Gone /\ W2[b] = List(ArpQueue) /\ \A c \in Buffers \ {b, q} : W2[c] = W[c]
    BY <1>9, <2>1, <2>2 DEF W2
  <2> HIDE DEF k, q
  <2>5. SlotsOk(W2, r, tx, held)
    <3>1. Free(W[b]) /\ Free(W2[b]) /\ Free(W[q]) /\ Free(W2[q])
      BY <1>1, <1>7, <2>2, <2>4, FreeFacts
    <3>2. SameBut(W, W2, {})
      BY <2>4, <3>1 DEF SameBut
    <3> QED
      BY <1>1, <3>2, SlotsSame
  <2>6. /\ SendRaw(k, q, Nothing, "idle")
        /\ content' = [content EXCEPT ![b] = f, ![q] = Nothing]
        /\ requests' = [requests EXCEPT ![p] = @ + 1]
    BY <1>s, <1>12, <2>1 DEF k, q
  <2>7. \/ pc' = "tx error"
        \/ /\ pc' = "wait" /\ back' = "idle"
           /\ \E M, V : Sends(k, L2, W2, b, q, r, held, M, V)
    <3>1. /\ ListsOk(k, L2, W2, b) /\ SlotsOk(W2, r, tx, held) /\ SendRaw(k, q, Nothing, "idle")
          /\ tx \in [TxSlots -> [buf : Buffers, mac : BOOLEAN]] /\ txIndex \in TxSlots
          /\ q \in Buffers /\ W2[q] = Gone
      BY <1>2, <2>1, <2>3, <2>4, <2>5, <2>6
    <3>2. Nothing # Answer
      BY DEF Nothing, Answer
    <3> QED
      BY <3>1, <3>2, SendRawSends
  <2> SUFFICES ASSUME NEW M, NEW V, Sends(k, L2, W2, b, q, r, held, M, V)
               PROVE  Dispatched(L, W, r, b, f, M, V)
    BY <2>7
  <2>8. /\ ListsOk(links', M, V, b) /\ SlotsOk(V, r, tx', held)
        /\ tx' \in [TxSlots -> [buf : Buffers, mac : BOOLEAN]]
        /\ tx'[txIndex].buf = q /\ \A i \in TxSlots \ {txIndex} : tx'[i] = tx[i]
        /\ Unowned(V) \subseteq Unowned(W2) /\ q \notin Unowned(V)
        /\ \A h \in Lists \ {Pool} : M[h] = L2[h]
        /\ links'.next[ArpQueue] = b
    BY <2>3 DEF Sends
  <2>9. arp' \in [Peers -> {"none", "waiting", "known"}] /\ \A x \in Peers : arp'[x] # "known"
    BY <1>2, <1>3, <1>4
  <2>10. Ahead(arp', links') = b
    BY <2>8, <2>9 DEF Ahead
  <2>11. \A h \in Ports : M[h] = L[h]
    <3>1. \A h \in Ports : h \in Lists /\ h # Pool /\ h # ArpQueue
      BY HeadFacts
    <3>2. \A h \in Lists \ {Pool} : L2[h] = L1[h]
      BY <1>10 DEF L2
    <3> QED
      BY <1>10, <2>8, <3>1, <3>2
  <2>12. /\ content' \in [Buffers -> Frames] /\ content'[b] = f
         /\ content'[q] = Nothing
         /\ \A c \in Buffers \ {b, q} : content'[c] = content[c]
    BY <1>1, <1>2, <2>1, <2>2, <2>6
  <2>13. Unowned(V) \subseteq Unowned(W) \ {b}
    BY <2>1, <2>4, <2>8, Owners DEF Unowned
  <2>14. \A c \in Buffers : ~(W[c] \in {Gone, List(Pool)}) => content'[c] = content[c]
    BY <1>1, <2>2, <2>12
  <2>15. requests' \in [Peers -> Nat] /\ AskedFor(arp', requests', queuedFor')
    <3>1. requests' \in [Peers -> Nat]
      BY <1>2, <2>6
    <3>2. ASSUME NEW x \in Peers
          PROVE  (arp'[x] # "none" => x \in queuedFor') /\ (requests'[x] # 0 => arp'[x] # "none")
      <4>1. CASE x = p
        BY <1>2, <1>3, <4>1
      <4>2. CASE x # p
        <5>1. arp'[x] = arp[x] /\ requests'[x] = requests[x]
          BY <1>2, <1>3, <2>6, <4>2
        <5> QED
          BY <1>1, <1>3, <5>1 DEF AskedFor
      <4> QED
        BY <4>1, <4>2
    <3> QED
      BY <3>1, <3>2 DEF AskedFor
  <2>16. WaitOk(M[ArpQueue], dest', queuedFor')
    <3>1. ListIs(l, L, W, ArpQueue)
      BY <1>1, <1>7, ListFacts
    <3>2. /\ L[ArpQueue] \in Seq(Buffers) /\ Range(L[ArpQueue]) \subseteq Buffers
          /\ b \notin Range(L[ArpQueue]) /\ q \notin Range(L[ArpQueue])
      BY <1>1, <1>7, <2>1, <2>2, <3>1, Owners DEF ListIs
    <3>3. M[ArpQueue] = InsertAt(L[ArpQueue], 1, b)
      BY <1>7, <1>10, <2>8, <1>l
    <3>4. FirstPlaces(Buffers, L[ArpQueue], b, ArpQueue)
      BY <1>1, <3>2, AtFirst
    <3>5. Range(M[ArpQueue]) = Range(L[ArpQueue]) \union {b}
      BY <3>3, <3>4 DEF FirstPlaces
    <3>6. dest'[b] = p /\ \A c \in Buffers \ {b} : dest'[c] = dest[c]
      BY <1>1, <1>2, <1>3
    <3>7. ASSUME NEW c \in Range(L[ArpQueue])
          PROVE  dest'[c] \in queuedFor'
      <4>1. c \in Buffers \ {b, q} /\ dest[c] \in queuedFor
        BY <1>1, <3>2 DEF WaitOk
      <4> QED
        BY <1>3, <3>6, <4>1
    <3> QED
      BY <1>3, <3>5, <3>6, <3>7 DEF WaitOk
  <2>17. Placed(f)
    <3>1. Nothing # Answer
      BY DEF Nothing, Answer
    <3> QED
      BY <1>1, <2>1, <2>9, <2>12, <3>1 DEF Placed
  <2>18. DOMAIN dest' = Buffers
    BY <1>2, <1>3
  <2> QED
    BY <2>8, <2>9, <2>10, <2>11, <2>12, <2>13, <2>14, <2>15, <2>16, <2>17, <2>18
       DEF Dispatched
<1> QED
  BY <1>11, <1>12

-----------------------------------------------------------------------------
(* The receive ring.                                                       *)

(* The descriptor after the last is the first.                             *)
LEMMA NextSlot ==
  ASSUME NEW s \in Nat \ {0}, NEW x \in 0 .. s - 1
  PROVE  (x + 1) % s = IF x + 1 = s THEN 0 ELSE x + 1
<1> DEFINE i == x + 1
           d == i \div s
           m == i % s
<1>1. i \in Nat /\ i = x + 1 /\ i <= s /\ i > 0
  OBVIOUS
<1> HIDE DEF i
<1>2. d \in Nat /\ m \in Nat /\ m < s /\ i = s * d + m
  BY <1>1
<1> HIDE DEF d, m
<1>3. CASE d = 0
  <2>1. s * d = 0
    BY <1>3
  <2>2. i = m
    BY <1>1, <1>2, <2>1
  <2> QED
    BY <1>1, <1>2, <2>2 DEF m, i
<1>4. CASE d = 1
  <2>1. s * d = s
    BY <1>4
  <2>2. m = 0 /\ i = s
    BY <1>1, <1>2, <2>1
  <2> QED
    BY <1>1, <2>2 DEF m, i
<1>5. CASE d > 1
  <2>1. PICK e \in Nat : d = 2 + e
    <3>1. d - 2 \in Nat /\ d = 2 + (d - 2)
      BY <1>2, <1>5
    <3> QED
      BY <3>1
  <2>2. s * (2 + e) = s + s + s * e /\ s * e \in Nat
    OBVIOUS
  <2> QED
    BY <1>1, <1>2, <2>1, <2>2
<1> QED
  BY <1>2, <1>3, <1>4, <1>5

(* The place of a descriptor in the order in which they are read.          *)
LEMMA Offs ==
  ASSUME rxIndex \in RxSlots
  PROVE  /\ \A i \in RxSlots : Off(i) \in RxSlots /\ (Off(i) = 0 <=> i = rxIndex)
         /\ \A i, j \in RxSlots : Off(i) = Off(j) => i = j
         /\ RxCount \in Nat \ {0}
BY NetAssumption DEF Off, RxSlots

LEMMA OffsMove ==
  ASSUME rxIndex \in RxSlots, rxIndex' = (rxIndex + 1) % RxCount
  PROVE  /\ rxIndex' \in RxSlots
         /\ \A i \in RxSlots : Off(i)' = IF i = rxIndex THEN RxCount - 1 ELSE Off(i) - 1
<1>1. RxCount \in Nat \ {0} /\ rxIndex \in 0 .. RxCount - 1
  BY NetAssumption DEF RxSlots
<1>2. rxIndex' = IF rxIndex + 1 = RxCount THEN 0 ELSE rxIndex + 1
  BY <1>1, NextSlot
<1>3. rxIndex' \in RxSlots
  BY <1>1, <1>2 DEF RxSlots
<1>4. ASSUME NEW i \in RxSlots
      PROVE  Off(i)' = IF i = rxIndex THEN RxCount - 1 ELSE Off(i) - 1
  BY <1>1, <1>2 DEF Off, RxSlots
<1> QED
  BY <1>3, <1>4

(* The MAC fills a descriptor. *)
LEMMA RingFilled ==
  ASSUME Types, NEW n, RingOk(n), ~rx[macRx].full,
         macRx' = (macRx + 1) % RxCount, rxIndex' = rxIndex,
         \A i \in RxSlots : rx'[i].full <=> (i = macRx \/ rx[i].full)
  PROVE  /\ macRx' \in RxSlots
         /\ RingOk(n + 1)'
         /\ \A i \in RxSlots : rx[i].full => Off(i) < Off(macRx)
<1>1. /\ rxIndex \in RxSlots /\ macRx \in RxSlots
      /\ RxCount \in Nat \ {0}
      /\ n \in 0 .. RxCount
      /\ \A i \in RxSlots : rx[i].full <=> Off(i) < n
      /\ n < RxCount => Off(macRx) = n
      /\ n = RxCount => macRx = rxIndex
  BY NetAssumption DEF Types, RingOk
<1>2. \A i \in RxSlots : Off(i) \in RxSlots /\ Off(i)' = Off(i)
  BY <1>1, Offs DEF Off
<1>3. n < RxCount
  <2>1. Off(macRx) \in 0 .. RxCount - 1
    BY <1>1, <1>2 DEF RxSlots
  <2> QED
    BY <1>1, <2>1
<1>4. macRx' = IF macRx + 1 = RxCount THEN 0 ELSE macRx + 1
  BY <1>1, NextSlot DEF RxSlots
<1>5. Off(macRx) = n
  BY <1>1, <1>3
<1>6. ASSUME NEW i \in RxSlots PROVE rx'[i].full <=> Off(i)' < n + 1
  <2>1. CASE i = macRx
    BY <1>1, <1>2, <1>5, <2>1
  <2>2. CASE i # macRx
    <3>1. Off(i) # n
      BY <1>1, <1>5, <2>2, Offs
    <3>2. Off(i) \in Int /\ n \in Int
      BY <1>1, <1>2 DEF RxSlots
    <3> QED
      BY <1>1, <1>2, <2>2, <3>1, <3>2
  <2> QED
    BY <2>1, <2>2
<1>7. macRx' \in RxSlots
  BY <1>1, <1>4 DEF RxSlots
<1>8. /\ n + 1 < RxCount => Off(macRx)' = n + 1
      /\ n + 1 = RxCount => macRx' = rxIndex'
  BY <1>1, <1>4, <1>5 DEF Off, RxSlots
<1>9. RingOk(n + 1)'
  BY <1>1, <1>3, <1>6, <1>8 DEF RingOk
<1> QED
  BY <1>1, <1>5, <1>7, <1>9

(* The stack reads one. *)
LEMMA RingRead ==
  ASSUME Types, NEW n, RingOk(n), rx[rxIndex].full,
         rxIndex' = (rxIndex + 1) % RxCount, macRx' = macRx,
         \A i \in RxSlots : rx'[i].full <=> (i # rxIndex /\ rx[i].full)
  PROVE  rxIndex' \in RxSlots /\ RingOk(n - 1)'
<1>1. /\ rxIndex \in RxSlots /\ macRx \in RxSlots
      /\ RxCount \in Nat \ {0}
      /\ n \in 0 .. RxCount
      /\ \A i \in RxSlots : rx[i].full <=> Off(i) < n
      /\ n < RxCount => Off(macRx) = n
      /\ n = RxCount => macRx = rxIndex
  BY NetAssumption DEF Types, RingOk
<1>2. /\ \A i \in RxSlots : Off(i) \in 0 .. RxCount - 1 /\ (Off(i) = 0 <=> i = rxIndex)
      /\ rxIndex' \in RxSlots
      /\ \A i \in RxSlots : Off(i)' = IF i = rxIndex THEN RxCount - 1 ELSE Off(i) - 1
  BY <1>1, Offs, OffsMove DEF RxSlots
<1>3. n > 0
  BY <1>1, <1>2
<1>4. ASSUME NEW i \in RxSlots PROVE rx'[i].full <=> Off(i)' < n - 1
  <2>1. CASE i = rxIndex
    BY <1>1, <1>2, <2>1
  <2>2. CASE i # rxIndex
    BY <1>1, <1>2, <2>2
  <2> QED
    BY <2>1, <2>2
<1>5. Off(macRx)' = n - 1
  <2>1. Off(macRx)' = IF macRx = rxIndex THEN RxCount - 1 ELSE Off(macRx) - 1
    <3>1. Off(macRx)' = IF macRx' = rxIndex THEN RxCount - 1
                        ELSE IF macRx' >= rxIndex THEN macRx' - rxIndex - 1
                             ELSE macRx' - rxIndex + RxCount - 1
      <4>1. \A i \in RxSlots : (IF i >= rxIndex' THEN i - rxIndex' ELSE i - rxIndex' + RxCount)
              = IF i = rxIndex THEN RxCount - 1
                ELSE IF i >= rxIndex THEN i - rxIndex - 1 ELSE i - rxIndex + RxCount - 1
        BY <1>1, <1>2 DEF Off, RxSlots
      <4> QED
        BY <1>1, <4>1 DEF Off
    <3> QED
      BY <1>1, <3>1 DEF Off, RxSlots
  <2>2. CASE n = RxCount
    BY <1>1, <2>1, <2>2
  <2>3. CASE n < RxCount
    <3>1. macRx # rxIndex
      BY <1>1, <1>2, <1>3, <2>3
    <3> QED
      BY <1>1, <2>1, <2>3, <3>1
  <2> QED
    BY <1>1, <2>2, <2>3
<1>6. RingOk(n - 1)'
  BY <1>1, <1>3, <1>4, <1>5 DEF RingOk
<1> QED
  BY <1>2, <1>6

-----------------------------------------------------------------------------
(* The order of a port's frames.                                           *)

(* Frames are added to what a port was sent, and nothing else changes.     *)
Extends ==
  \A q \in Ports : /\ Len(accepted[q]) \in Nat /\ Len(accepted'[q]) \in Nat
                   /\ Len(accepted[q]) <= Len(accepted'[q])
                   /\ \A k \in 1 .. Len(accepted[q]) : accepted'[q][k] = accepted[q][k]

LEMMA GotSame ==
  ASSUME HistoryOk, GotOk, Extends, got' = got
  PROVE  GotOk'
<1>1. \A q \in Ports : Len(got[q]) \in Nat
  BY LenProperties DEF HistoryOk
<1>2. ASSUME NEW q \in Ports
      PROVE  /\ Len(got'[q]) <= Len(accepted'[q])
             /\ \A k \in 1 .. Len(got'[q]) : got'[q][k] = accepted'[q][k]
  <2>1. Len(got[q]) \in Nat /\ Len(got[q]) <= Len(accepted[q]) /\ got'[q] = got[q]
    BY <1>1 DEF GotOk
  <2>2. /\ Len(accepted[q]) \in Nat /\ Len(accepted'[q]) \in Nat
        /\ Len(accepted[q]) <= Len(accepted'[q])
        /\ \A k \in 1 .. Len(accepted[q]) : accepted'[q][k] = accepted[q][k]
    BY DEF Extends
  <2>3. \A k \in 1 .. Len(got[q]) : got[q][k] = accepted[q][k] /\ k \in 1 .. Len(accepted[q])
    BY <2>1, <2>2 DEF GotOk
  <2> QED
    BY <2>1, <2>2, <2>3
<1> QED
  BY <1>2 DEF GotOk

LEMMA ExtendsSame ==
  ASSUME HistoryOk, accepted' = accepted
  PROVE  Extends
<1>1. \A q \in Ports : Len(accepted[q]) \in Nat
  BY LenProperties DEF HistoryOk
<1> QED
  BY <1>1 DEF Extends

(* The lengths that the order is about. *)
LEMMA Lengths ==
  ASSUME HistoryOk, NEW L, L \in [Lists -> Seq(Buffers)], NEW q \in Ports
  PROVE  /\ Len(got[q]) \in Nat /\ Len(L[q]) \in Nat /\ Len(accepted[q]) \in Nat
         /\ Taken(L, q) \in Nat /\ Taken(L, q) = Len(got[q]) + Len(L[q])
<1>1. q \in Lists
  BY HeadFacts
<1>2. L[q] \in Seq(Buffers) /\ got[q] \in Seq(Nat) /\ accepted[q] \in Seq(Nat)
  BY <1>1 DEF HistoryOk
<1>3. Len(L[q]) \in Nat /\ Len(got[q]) \in Nat /\ Len(accepted[q]) \in Nat
  BY <1>2, LenProperties
<1>4. \A a, b \in Nat : a + b \in Nat
  OBVIOUS
<1>5. Len(got[q]) + Len(L[q]) \in Nat
  BY <1>3, <1>4
<1> QED
  BY <1>3, <1>5 DEF Taken

(* The queues of the ports stay, with what their buffers hold.             *)
LEMMA QueueSame ==
  ASSUME HistoryOk, NEW L, NEW M, NEW P, L \in [Lists -> Seq(Buffers)],
         OrderOk(L, P), QueueOk(L), Extends, got' = got, \A q \in Ports : M[q] = L[q],
         \A q \in Ports : \A b \in Range(L[q]) : content'[b] = content[b]
  PROVE  QueueOk(M)'
<1> SUFFICES ASSUME NEW q \in Ports, NEW k \in 1 .. Len(L[q])
             PROVE  content'[L[q][k]].id = accepted'[q][Len(got[q]) + k]
  BY DEF QueueOk
<1>1. q \in Lists /\ L[q] \in Seq(Buffers)
  BY HeadFacts
<1>2. Places(Buffers, L[q], q)
  BY <1>1, AtRange
<1>3. L[q][k] \in Range(L[q])
  BY <1>2 DEF Places
<1>4. /\ Len(got[q]) \in Nat /\ Len(L[q]) \in Nat /\ Len(accepted[q]) \in Nat
      /\ Len(got[q]) + Len(L[q]) <= Len(accepted[q])
  <2>1. Taken(L, q) <= Len(accepted[q])
    BY DEF OrderOk
  <2>2. /\ Len(got[q]) \in Nat /\ Len(L[q]) \in Nat /\ Len(accepted[q]) \in Nat
        /\ Taken(L, q) = Len(got[q]) + Len(L[q])
    BY Lengths
  <2> QED
    BY <2>1, <2>2
<1>5. Len(got[q]) + k \in 1 .. Len(accepted[q])
  <2>1. \A a, b, c \in Nat : \A d \in 1 .. b : a + b <= c => a + d \in 1 .. c
    OBVIOUS
  <2> QED
    BY <1>4, <2>1
<1>6. accepted'[q][Len(got[q]) + k] = accepted[q][Len(got[q]) + k]
  BY <1>5 DEF Extends
<1> QED
  BY <1>3, <1>6 DEF QueueOk

(* The frames in the ring stay, and so does their order.                   *)
RingKept ==
  /\ \A i \in RxSlots, q \in Ports : UdpIn(i, q)' <=> UdpIn(i, q)
  /\ \A i \in RxSlots, q \in Ports : UdpIn(i, q) => rx'[i].frame.id = rx[i].frame.id
  /\ \A i, j \in RxSlots, q \in Ports :
       UdpIn(i, q) /\ UdpIn(j, q) /\ Off(i)' < Off(j)' => Off(i) < Off(j)

LEMMA OrderSame ==
  ASSUME NEW L, NEW M, NEW P, OrderOk(L, P), RingKept, accepted' = accepted,
         \A q \in Ports : Taken(M, q)' = Taken(L, q)
  PROVE  OrderOk(M, P)'
<1> SUFFICES ASSUME NEW q \in Ports
             PROVE  /\ Taken(M, q)' <= Len(accepted'[q])
                    /\ \A i \in RxSlots : UdpIn(i, q)' =>
                         /\ P[i] \in Taken(M, q)' + 1 .. Len(accepted'[q])
                         /\ rx'[i].frame.id = accepted'[q][P[i]]
                         /\ \A j \in RxSlots : UdpIn(j, q)' /\ Off(i)' < Off(j)'
                                               => P[i] < P[j]
                    /\ \A m \in Taken(M, q)' + 1 .. Len(accepted'[q]) :
                         \E i \in RxSlots : UdpIn(i, q)' /\ P[i] = m
  BY DEF OrderOk
<1>1. /\ Taken(L, q) <= Len(accepted[q])
      /\ \A i \in RxSlots : UdpIn(i, q) =>
           /\ P[i] \in Taken(L, q) + 1 .. Len(accepted[q])
           /\ rx[i].frame.id = accepted[q][P[i]]
           /\ \A j \in RxSlots : UdpIn(j, q) /\ Off(i) < Off(j) => P[i] < P[j]
      /\ \A m \in Taken(L, q) + 1 .. Len(accepted[q]) :
           \E i \in RxSlots : UdpIn(i, q) /\ P[i] = m
  BY DEF OrderOk
<1>2. /\ \A i \in RxSlots : UdpIn(i, q)' <=> UdpIn(i, q)
      /\ \A i \in RxSlots : UdpIn(i, q) => rx'[i].frame.id = rx[i].frame.id
      /\ \A i, j \in RxSlots :
           UdpIn(i, q) /\ UdpIn(j, q) /\ Off(i)' < Off(j)' => Off(i) < Off(j)
  BY DEF RingKept
<1>3. Taken(M, q)' = Taken(L, q)
  OBVIOUS
<1> QED
  BY <1>1, <1>2, <1>3

(* A frame for a port comes last.                                          *)
LEMMA OrderArrives ==
  ASSUME HistoryOk, NEW L, NEW P, L \in [Lists -> Seq(Buffers)], OrderOk(L, P),
         Types, NEW f \in Udp, ~rx[macRx].full,
         rx' = [rx EXCEPT ![macRx].full = TRUE, ![macRx].frame = f],
         accepted' = [accepted EXCEPT ![f.of] = Append(@, f.id)],
         got' = got, rxIndex' = rxIndex,
         \A i \in RxSlots : rx[i].full => Off(i) < Off(macRx)
  PROVE  \E R : OrderOk(L, R)'
<1>c. PICK c : c = macRx
  OBVIOUS
<1>a. PICK a : a = Len(accepted[f.of]) + 1
  OBVIOUS
<1>r. PICK R : R = [P EXCEPT ![c] = a]
  OBVIOUS
<1>1. /\ f.of \in Ports /\ f.id \in Nat /\ f.kind = "udp"
      /\ c \in RxSlots /\ rxIndex \in RxSlots
      /\ rx \in [RxSlots -> [buf : Buffers, full : BOOLEAN, frame : Frames]]
      /\ P \in [RxSlots -> Nat]
      /\ ~rx[c].full /\ rx' = [rx EXCEPT ![c].full = TRUE, ![c].frame = f]
      /\ \A i \in RxSlots : rx[i].full => Off(i) < Off(c)
  BY <1>c DEF Udp, Types, OrderOk
<1>2. accepted \in [Ports -> Seq(Nat)]
  BY DEF HistoryOk
<1>3. /\ a \in Nat
      /\ Len(accepted'[f.of]) = a /\ accepted'[f.of][a] = f.id
      /\ \A k \in 1 .. a - 1 : accepted'[f.of][k] = accepted[f.of][k]
      /\ \A q \in Ports \ {f.of} : accepted'[q] = accepted[q]
  <2>1. accepted[f.of] \in Seq(Nat) /\ accepted'[f.of] = Append(accepted[f.of], f.id)
    BY <1>1, <1>2
  <2>2. Len(accepted[f.of]) \in Nat /\ a = Len(accepted[f.of]) + 1
    BY <1>a, <2>1, LenProperties
  <2>3. /\ Len(Append(accepted[f.of], f.id)) = Len(accepted[f.of]) + 1
        /\ \A k \in 1 .. Len(accepted[f.of]) :
             Append(accepted[f.of], f.id)[k] = accepted[f.of][k]
        /\ Append(accepted[f.of], f.id)[Len(accepted[f.of]) + 1] = f.id
    BY <1>1, <2>1, AppendProperties
  <2>4. \A q \in Ports \ {f.of} : accepted'[q] = accepted[q]
    BY <1>2
  <2> QED
    BY <2>1, <2>2, <2>3, <2>4
<1>4. /\ rx'[c].full = TRUE /\ rx'[c].frame = f
      /\ \A i \in RxSlots \ {c} : rx'[i] = rx[i]
  BY <1>1
<1>5. R[c] = a /\ R \in [RxSlots -> Nat] /\ \A i \in RxSlots \ {c} : R[i] = P[i]
  BY <1>1, <1>3, <1>r
<1>6. /\ \A i \in RxSlots : Off(i)' = Off(i) /\ Off(i) \in Int
      /\ \A i \in RxSlots : rx[i].full => Off(i) < Off(c)
  BY <1>1, Offs DEF Off, RxSlots
<1>7. /\ \A i \in RxSlots \ {c}, q \in Ports : UdpIn(i, q)' <=> UdpIn(i, q)
      /\ \A q \in Ports : UdpIn(c, q)' <=> q = f.of
      /\ \A q \in Ports : ~UdpIn(c, q)
  <2>1. ASSUME NEW i \in RxSlots \ {c}, NEW q \in Ports
        PROVE  UdpIn(i, q)' <=> UdpIn(i, q)
    <3>1. rx'[i] = rx[i]
      BY <1>4
    <3> QED
      BY <3>1 DEF UdpIn
  <2>2. \A q \in Ports : UdpIn(c, q)' <=> q = f.of
    <3>1. UdpIn(c, f.of)' /\ \A q \in Ports : UdpIn(c, q)' => q = f.of
      BY <1>1, <1>4 DEF UdpIn
    <3> QED
      BY <3>1
  <2>3. \A q \in Ports : ~UdpIn(c, q)
    BY <1>1 DEF UdpIn
  <2> QED
    BY <2>1, <2>2, <2>3
<1>8. \A q \in Ports : Taken(L, q)' = Taken(L, q)
  BY DEF Taken
<1>9. ASSUME NEW q \in Ports
      PROVE  /\ Taken(L, q)' <= Len(accepted'[q])
             /\ \A i \in RxSlots : UdpIn(i, q)' =>
                  /\ R[i] \in Taken(L, q)' + 1 .. Len(accepted'[q])
                  /\ rx'[i].frame.id = accepted'[q][R[i]]
                  /\ \A j \in RxSlots : UdpIn(j, q)' /\ Off(i)' < Off(j)'
                                        => R[i] < R[j]
             /\ \A m \in Taken(L, q)' + 1 .. Len(accepted'[q]) :
                  \E i \in RxSlots : UdpIn(i, q)' /\ R[i] = m
  <2>1. /\ Taken(L, q) <= Len(accepted[q])
        /\ \A i \in RxSlots : UdpIn(i, q) =>
             /\ P[i] \in Taken(L, q) + 1 .. Len(accepted[q])
             /\ rx[i].frame.id = accepted[q][P[i]]
             /\ \A j \in RxSlots : UdpIn(j, q) /\ Off(i) < Off(j) => P[i] < P[j]
        /\ \A m \in Taken(L, q) + 1 .. Len(accepted[q]) :
             \E i \in RxSlots : UdpIn(i, q) /\ P[i] = m
    BY DEF OrderOk
  <2>2. Taken(L, q) \in Nat /\ Len(accepted[q]) \in Nat
    BY Lengths
  <2>3. CASE q # f.of
    <3>1. /\ accepted'[q] = accepted[q] /\ Taken(L, q)' = Taken(L, q)
          /\ ~UdpIn(c, q)' /\ ~UdpIn(c, q)
      BY <1>3, <1>7, <1>8, <2>3
    <3>2. ASSUME NEW i \in RxSlots, UdpIn(i, q)'
          PROVE  /\ i # c /\ UdpIn(i, q) /\ rx'[i] = rx[i] /\ R[i] = P[i]
                 /\ Off(i)' = Off(i)
      <4>1. i # c
        BY <3>1, <3>2
      <4> QED
        BY <1>4, <1>5, <1>6, <1>7, <3>2, <4>1
    <3>3. \A i \in RxSlots : UdpIn(i, q) => UdpIn(i, q)' /\ R[i] = P[i]
      BY <1>5, <1>7, <3>1
    <3>4. Taken(L, q)' <= Len(accepted'[q])
      BY <2>1, <3>1
    <3>5. ASSUME NEW i \in RxSlots, UdpIn(i, q)'
          PROVE  /\ R[i] \in Taken(L, q)' + 1 .. Len(accepted'[q])
                 /\ rx'[i].frame.id = accepted'[q][R[i]]
                 /\ \A j \in RxSlots : UdpIn(j, q)' /\ Off(i)' < Off(j)' => R[i] < R[j]
      <4>1. UdpIn(i, q) /\ rx'[i] = rx[i] /\ R[i] = P[i] /\ Off(i)' = Off(i)
        BY <3>2, <3>5
      <4>2. \A j \in RxSlots : UdpIn(j, q)' => UdpIn(j, q) /\ R[j] = P[j] /\ Off(j)' = Off(j)
        BY <3>2
      <4> QED
        BY <2>1, <3>1, <4>1, <4>2
    <3>6. \A m \in Taken(L, q)' + 1 .. Len(accepted'[q]) :
            \E i \in RxSlots : UdpIn(i, q)' /\ R[i] = m
      <4>1. SUFFICES ASSUME NEW m \in Taken(L, q) + 1 .. Len(accepted[q])
                     PROVE  \E i \in RxSlots : UdpIn(i, q)' /\ R[i] = m
        BY <3>1
      <4>2. PICK i \in RxSlots : UdpIn(i, q) /\ P[i] = m
        BY <2>1
      <4> QED
        BY <3>3, <4>2
    <3> QED
      BY <3>4, <3>5, <3>6
  <2>4. CASE q = f.of
    <3>1. /\ Len(accepted[q]) = a - 1 /\ Len(accepted'[q]) = a
          /\ Taken(L, q)' = Taken(L, q) /\ UdpIn(c, q)' /\ ~UdpIn(c, q)
      BY <1>3, <1>7, <1>8, <1>a, <2>2, <2>4
    <3>2. Taken(L, q) + 1 <= a
      BY <1>3, <2>1, <2>2, <3>1
    <3>3. ASSUME NEW i \in RxSlots, UdpIn(i, q)', i # c
          PROVE  /\ UdpIn(i, q) /\ rx'[i] = rx[i] /\ R[i] = P[i]
                 /\ P[i] \in Taken(L, q) + 1 .. a - 1
                 /\ Off(i) < Off(c)
      <4>1. UdpIn(i, q) /\ rx'[i] = rx[i] /\ R[i] = P[i]
        BY <1>4, <1>5, <1>7, <3>3
      <4>2. P[i] \in Taken(L, q) + 1 .. a - 1
        BY <2>1, <3>1, <4>1
      <4>3. rx[i].full
        BY <4>1 DEF UdpIn
      <4> QED
        BY <1>6, <4>1, <4>2, <4>3
    <3>4. ASSUME NEW i \in RxSlots, UdpIn(i, q)'
          PROVE  /\ R[i] \in Taken(L, q) + 1 .. a
                 /\ rx'[i].frame.id = accepted'[q][R[i]]
                 /\ \A j \in RxSlots : UdpIn(j, q)' /\ Off(i)' < Off(j)' => R[i] < R[j]
      <4>1. CASE i = c
        <5>1. R[i] \in Taken(L, q) + 1 .. a
          BY <1>3, <1>5, <2>2, <3>2, <4>1
        <5>2. rx'[i].frame.id = accepted'[q][R[i]]
          BY <1>3, <1>4, <1>5, <2>4, <4>1
        <5>3. \A j \in RxSlots : UdpIn(j, q)' => ~(Off(i)' < Off(j)')
          <6>1. SUFFICES ASSUME NEW j \in RxSlots, UdpIn(j, q)', Off(c) < Off(j)
                         PROVE  FALSE
            BY <1>6, <4>1
          <6>2. CASE j = c
            BY <1>6, <6>1, <6>2
          <6>3. CASE j # c
            <7>1. Off(j) < Off(c)
              BY <3>3, <6>1, <6>3
            <7>2. Off(j) \in Int /\ Off(c) \in Int
              BY <1>1, <1>6
            <7> QED
              BY <6>1, <7>1, <7>2
          <6> QED
            BY <6>2, <6>3
        <5> QED
          BY <5>1, <5>2, <5>3
      <4>2. CASE i # c
        <5>1. /\ UdpIn(i, q) /\ rx'[i] = rx[i] /\ R[i] = P[i]
              /\ P[i] \in Taken(L, q) + 1 .. a - 1
          BY <3>3, <3>4, <4>2
        <5>2. R[i] \in Taken(L, q) + 1 .. a
          BY <1>3, <2>2, <5>1
        <5>3. rx'[i].frame.id = accepted'[q][R[i]]
          <6>1. P[i] \in 1 .. a - 1
            BY <1>3, <2>2, <5>1
          <6>2. accepted'[q][P[i]] = accepted[q][P[i]]
            BY <1>3, <2>4, <6>1
          <6>3. rx[i].frame.id = accepted[q][P[i]]
            BY <2>1, <5>1
          <6> QED
            BY <5>1, <6>2, <6>3
        <5>4. ASSUME NEW j \in RxSlots, UdpIn(j, q)', Off(i)' < Off(j)'
              PROVE  R[i] < R[j]
          <6>1. CASE j = c
            BY <1>3, <1>5, <2>2, <5>1, <6>1
          <6>2. CASE j # c
            <7>1. UdpIn(j, q) /\ R[j] = P[j]
              BY <3>3, <5>4, <6>2
            <7>2. Off(i) < Off(j)
              BY <1>6, <5>4
            <7> QED
              BY <2>1, <5>1, <7>1, <7>2
          <6> QED
            BY <6>1, <6>2
        <5> QED
          BY <5>2, <5>3, <5>4
      <4> QED
        BY <4>1, <4>2
    <3>5. ASSUME NEW m \in Taken(L, q) + 1 .. a
          PROVE  \E i \in RxSlots : UdpIn(i, q)' /\ R[i] = m
      <4>1. CASE m = a
        <5>1. c \in RxSlots /\ UdpIn(c, q)' /\ R[c] = m
          BY <1>1, <1>5, <3>1, <4>1
        <5> QED
          BY <5>1
      <4>2. CASE m # a
        <5>1. m \in Taken(L, q) + 1 .. Len(accepted[q])
          BY <1>3, <2>2, <3>1, <4>2
        <5>2. PICK i \in RxSlots : UdpIn(i, q) /\ P[i] = m
          BY <2>1, <5>1
        <5>3. i # c
          BY <3>1, <5>2
        <5>4. UdpIn(i, q)' /\ R[i] = m
          BY <1>5, <1>7, <5>2, <5>3
        <5> QED
          BY <5>4
      <4> QED
        BY <4>1, <4>2
    <3>6. Taken(L, q) <= a
      BY <1>3, <2>2, <3>2
    <3> QED
      BY <3>1, <3>4, <3>5, <3>6
  <2> QED
    BY <2>3, <2>4
<1>10. OrderOk(L, R)'
  <2>1. R \in [RxSlots -> Nat]
    BY <1>5
  <2> QED
    BY <1>9, <2>1 DEF OrderOk
<1> QED
  BY <1>10

(* The oldest frame of the ring is the next one of its port, which has it  *)
(* now.                                                                    *)
Counts(L, M, h) ==
  \A q \in Ports : Taken(M, q)' = IF q = h THEN Taken(L, q) + 1 ELSE Taken(L, q)

LEMMA OrderReads ==
  ASSUME HistoryOk, NEW L, NEW M, NEW P, L \in [Lists -> Seq(Buffers)], OrderOk(L, P),
         Types, NEW f, f = rx[rxIndex].frame, f \in Udp, rx[rxIndex].full,
         rxIndex' = (rxIndex + 1) % RxCount,
         ~rx'[rxIndex].full, \A i \in RxSlots \ {rxIndex} : rx'[i] = rx[i],
         accepted' = accepted
  PROVE  /\ Counts(L, M, f.of) => OrderOk(M, P)'
         /\ Taken(L, f.of) + 1 <= Len(accepted[f.of])
         /\ f.id = accepted[f.of][Taken(L, f.of) + 1]
<1>c. PICK c : c = rxIndex
  OBVIOUS
<1>1. /\ f.of \in Ports /\ f.kind = "udp"
      /\ c \in RxSlots /\ P \in [RxSlots -> Nat]
      /\ UdpIn(c, f.of) /\ rx[c].frame.id = f.id
      /\ \A i \in RxSlots \ {c} : rx'[i] = rx[i]
      /\ ~rx'[c].full
  BY <1>c DEF Udp, Types, OrderOk, UdpIn
<1>2. /\ \A i \in RxSlots : Off(i) \in Int
      /\ \A i \in RxSlots \ {c} : Off(i)' = Off(i) - 1 /\ Off(c) < Off(i)
  <2>1. /\ \A i \in RxSlots : Off(i) \in 0 .. RxCount - 1 /\ (Off(i) = 0 <=> i = rxIndex)
        /\ \A i \in RxSlots : Off(i)' = IF i = rxIndex THEN RxCount - 1 ELSE Off(i) - 1
    BY <1>1, <1>c, Offs, OffsMove DEF RxSlots
  <2>2. Off(c) = 0
    BY <1>1, <1>c, <2>1
  <2>3. ASSUME NEW i \in RxSlots \ {c}
        PROVE  Off(i)' = Off(i) - 1 /\ Off(c) < Off(i)
    <3>1. Off(i) \in 0 .. RxCount - 1 /\ Off(i) # 0 /\ Off(i)' = Off(i) - 1
      BY <1>c, <2>1
    <3> QED
      BY <2>2, <3>1
  <2> QED
    BY <2>1, <2>3
<1>3. /\ ~\E q \in Ports : UdpIn(c, q)'
      /\ \A i \in RxSlots \ {c}, q \in Ports : UdpIn(i, q)' <=> UdpIn(i, q)
      /\ \A q \in Ports : UdpIn(c, q) => q = f.of
  <2>1. ASSUME NEW i \in RxSlots \ {c}, NEW q \in Ports
        PROVE  UdpIn(i, q)' <=> UdpIn(i, q)
    <3>1. rx'[i] = rx[i]
      BY <1>1
    <3> QED
      BY <3>1 DEF UdpIn
  <2>2. ~\E q \in Ports : UdpIn(c, q)'
    BY <1>1 DEF UdpIn
  <2>3. \A q \in Ports : UdpIn(c, q) => q = f.of
    BY <1>c DEF UdpIn
  <2> QED
    BY <2>1, <2>2, <2>3
<1>4. ASSUME NEW q \in Ports
      PROVE  /\ Taken(L, q) \in Nat /\ Len(accepted[q]) \in Nat
             /\ Taken(L, q) <= Len(accepted[q])
             /\ \A i \in RxSlots : UdpIn(i, q) =>
                  /\ P[i] \in Taken(L, q) + 1 .. Len(accepted[q])
                  /\ rx[i].frame.id = accepted[q][P[i]]
                  /\ \A j \in RxSlots : UdpIn(j, q) /\ Off(i) < Off(j) => P[i] < P[j]
             /\ \A m \in Taken(L, q) + 1 .. Len(accepted[q]) :
                  \E i \in RxSlots : UdpIn(i, q) /\ P[i] = m
  BY Lengths DEF OrderOk
<1> DEFINE o == f.of
           k == Taken(L, o)
<1>5. k \in Nat /\ k + 1 <= Len(accepted[o]) /\ P[c] = k + 1
  <2>1. P[c] \in k + 1 .. Len(accepted[o]) /\ k \in Nat /\ Len(accepted[o]) \in Nat
    BY <1>1, <1>4
  <2>2. k + 1 \in k + 1 .. Len(accepted[o])
    BY <2>1
  <2>3. PICK i \in RxSlots : UdpIn(i, o) /\ P[i] = k + 1
    BY <1>1, <1>4, <2>2
  <2>4. i = c
    <3>1. SUFFICES ASSUME i # c PROVE FALSE
      OBVIOUS
    <3>2. Off(c) < Off(i)
      BY <1>2, <3>1
    <3>3. P[c] < P[i]
      BY <1>1, <1>4, <2>3, <3>2
    <3> QED
      BY <2>1, <2>3, <3>3
  <2> QED
    BY <2>1, <2>2, <2>3, <2>4
<1>6. f.id = accepted[o][k + 1]
  BY <1>1, <1>4, <1>5
<1>7. o \in Ports /\ k = Taken(L, o) /\ o = f.of
  BY <1>1
<1> HIDE DEF o, k
<1>8. ASSUME Counts(L, M, o), NEW q \in Ports
      PROVE  /\ Taken(M, q)' <= Len(accepted'[q])
             /\ \A i \in RxSlots : UdpIn(i, q)' =>
                  /\ P[i] \in Taken(M, q)' + 1 .. Len(accepted'[q])
                  /\ rx'[i].frame.id = accepted'[q][P[i]]
                  /\ \A j \in RxSlots : UdpIn(j, q)' /\ Off(i)' < Off(j)'
                                        => P[i] < P[j]
             /\ \A m \in Taken(M, q)' + 1 .. Len(accepted'[q]) :
                  \E i \in RxSlots : UdpIn(i, q)' /\ P[i] = m
  <2>1. /\ Taken(L, q) \in Nat /\ Len(accepted[q]) \in Nat
        /\ Taken(L, q) <= Len(accepted[q]) /\ accepted'[q] = accepted[q]
        /\ Taken(M, q)' = IF q = o THEN k + 1 ELSE Taken(L, q)
        /\ q = o => Taken(L, q) = k
    BY <1>4, <1>7, <1>8 DEF Counts
  <2>2. Taken(M, q)' <= Len(accepted'[q])
    BY <1>5, <2>1
  <2>3. ASSUME NEW i \in RxSlots, UdpIn(i, q)'
        PROVE  /\ P[i] \in Taken(M, q)' + 1 .. Len(accepted'[q])
               /\ rx'[i].frame.id = accepted'[q][P[i]]
               /\ \A j \in RxSlots : UdpIn(j, q)' /\ Off(i)' < Off(j)' => P[i] < P[j]
    <3>1. i # c /\ UdpIn(i, q) /\ rx'[i] = rx[i]
      BY <1>1, <1>3, <2>3
    <3>2. /\ P[i] \in Taken(L, q) + 1 .. Len(accepted[q])
          /\ rx[i].frame.id = accepted[q][P[i]]
      BY <1>4, <3>1
    <3>3. P[i] \in Taken(M, q)' + 1 .. Len(accepted'[q])
      <4>1. CASE q # o
        BY <2>1, <3>2, <4>1
      <4>2. CASE q = o
        <5>1. UdpIn(c, q) /\ Off(c) < Off(i)
          BY <1>1, <1>2, <1>7, <3>1, <4>2
        <5>2. P[c] < P[i]
          BY <1>1, <1>4, <3>1, <5>1
        <5> QED
          BY <1>5, <2>1, <3>2, <4>2, <5>2
      <4> QED
        BY <4>1, <4>2
    <3>4. ASSUME NEW j \in RxSlots, UdpIn(j, q)', Off(i)' < Off(j)'
          PROVE  P[i] < P[j]
      <4>1. j # c /\ UdpIn(j, q)
        BY <1>3, <3>4
      <4>2. Off(i) < Off(j)
        BY <1>2, <3>1, <3>4, <4>1
      <4> QED
        BY <1>4, <3>1, <4>1, <4>2
    <3> QED
      BY <2>1, <3>1, <3>2, <3>3, <3>4
  <2>4. ASSUME NEW m \in Taken(M, q)' + 1 .. Len(accepted'[q])
        PROVE  \E i \in RxSlots : UdpIn(i, q)' /\ P[i] = m
    <3>1. m \in Taken(L, q) + 1 .. Len(accepted[q])
      BY <1>5, <2>1
    <3>2. PICK i \in RxSlots : UdpIn(i, q) /\ P[i] = m
      BY <1>4, <3>1
    <3>3. i # c
      <4>1. SUFFICES ASSUME i = c PROVE FALSE
        OBVIOUS
      <4>2. q = o /\ m = k + 1
        BY <1>3, <1>5, <1>7, <3>2, <4>1
      <4> QED
        BY <1>5, <2>1, <4>2
    <3>4. UdpIn(i, q)'
      BY <1>3, <3>2, <3>3
    <3> QED
      BY <3>2, <3>4
  <2> QED
    BY <2>2, <2>3, <2>4
<1>9. Counts(L, M, o) => OrderOk(M, P)'
  BY <1>1, <1>8 DEF OrderOk
<1> QED
  BY <1>5, <1>6, <1>9 DEF k, o

-----------------------------------------------------------------------------
(* The steps.                                                              *)

(* The parts of the state. *)
LEMMA Parts ==
  ASSUME NEW L, NEW W, NEW n, NEW P, StateOk(L, W, n, P)
  PROVE  /\ pc \in {"idle", "wait", "unqueue"} /\ Types
         /\ ListsOk(links, L, W, From) /\ SlotsOk(W, rx, tx, held) /\ LostOk(W)
         /\ ArpOk(L[ArpQueue])
         /\ RingOk(n) /\ OrderOk(L, P) /\ QueueOk(L) /\ CausesOk
         /\ L \in [Lists -> Seq(Buffers)] /\ DOMAIN W = Buffers
BY DEF StateOk, ListsOk

LEMMA StateNext ==
  ASSUME HistoryOk', GotOk', NEW L, NEW W, NEW n, NEW P,
         pc' \in {"idle", "wait", "unqueue"}, Types',
         ListsOk(links', L, W, From'), SlotsOk(W, rx', tx', held'), LostOk(W)',
         ArpOk(L[ArpQueue])',
         RingOk(n)', OrderOk(L, P)', QueueOk(L)', CausesOk'
  PROVE  Sound'
<1>1. StateOk(L, W, n, P)'
  BY DEF StateOk
<1>2. Alive'
  BY <1>1 DEF Alive
<1> QED
  BY <1>2 DEF Sound

(* No reply is new, no address becomes known, and no answer comes from      *)
(* nowhere.                                                                *)
LEMMA CausesSame ==
  ASSUME CausesOk, replies' = replies,
         \A p \in Peers : arp'[p] = "known" => arp[p] = "known",
         \A b \in Buffers : content'[b] = Answer => content[b] = Answer \/ answered' # {},
         answered \subseteq answered',
         \A i \in RxSlots, p \in Peers : ReplyIn(i, p)' => ReplyIn(i, p)
  PROVE  CausesOk'
<1>1. RepliesOk /\ \A b \in Buffers : content[b] = Answer => answered # {}
  BY DEF CausesOk
<1>2. RepliesOk'
  <2> SUFFICES ASSUME NEW p \in Peers
               PROVE  /\ arp'[p] = "known" => replies[p] >= 1
                      /\ \A i \in RxSlots : ReplyIn(i, p)' =>
                           /\ replies[p] >= 1
                           /\ arp'[p] = "known" => replies[p] >= 2
                           /\ \A j \in RxSlots : ReplyIn(j, p)' /\ i # j => replies[p] >= 2
    BY DEF RepliesOk
  <2> QED
    BY <1>1 DEF RepliesOk
<1>3. \A b \in Buffers : content'[b] = Answer => answered' # {}
  BY <1>1
<1> QED
  BY <1>2, <1>3 DEF CausesOk

(* The receive ring and what is in it stay, and so do the ports' queues. *)
LEMMA QuietRing ==
  ASSUME HistoryOk, GotOk, NEW L, NEW M, NEW n, NEW P,
         L \in [Lists -> Seq(Buffers)], RingOk(n), OrderOk(L, P), QueueOk(L),
         UNCHANGED <<rx, rxIndex, macRx, accepted, got>>,
         \A q \in Ports : M[q] = L[q],
         \A q \in Ports : \A b \in Range(L[q]) : content'[b] = content[b]
  PROVE  GotOk' /\ RingOk(n)' /\ OrderOk(M, P)' /\ QueueOk(M)'
<1>1. Extends
  BY ExtendsSame
<1>2. GotOk'
  BY <1>1, GotSame
<1>3. RingOk(n)'
  BY DEF RingOk, Off
<1>4. RingKept
  BY DEF RingKept, UdpIn, Off
<1>5. \A q \in Ports : Taken(M, q)' = Taken(L, q)
  BY DEF Taken
<1>6. OrderOk(M, P)'
  BY <1>4, <1>5, OrderSame
<1>7. QueueOk(M)'
  BY <1>1, QueueSame
<1> QED
  BY <1>2, <1>3, <1>6, <1>7

(* The slots keep their buffers. *)
LEMMA SlotsFrame ==
  ASSUME NEW W, NEW r, NEW t, NEW r2, NEW t2, NEW hd, SlotsOk(W, r, t, hd),
         \A i \in RxSlots : r2[i].buf = r[i].buf,
         \A i \in TxSlots : t2[i].buf = t[i].buf
  PROVE  SlotsOk(W, r2, t2, hd)
<1>1. ASSUME NEW b \in Buffers
      PROVE  /\ \A i \in RxSlots : W[b] = Rx(i) <=> r2[i].buf = b
             /\ \A i \in TxSlots : W[b] = Tx(i) <=> t2[i].buf = b
             /\ W[b] = Held <=> b \in hd
             /\ \/ Free(W[b]) \/ W[b] = Held
                \/ \E i \in RxSlots : W[b] = Rx(i)
                \/ \E i \in TxSlots : W[b] = Tx(i)
  BY DEF SlotsOk
<1> QED
  BY <1>1 DEF SlotsOk

(* A frame arrives. *)
LEMMA ArriveHistory ==
  ASSUME HistoryOk, GotOk, NEW f \in Frames, Arrive(f), arrived' \in Nat
  PROVE  Extends /\ HistoryOk' /\ GotOk'
<1>1. got' = got /\ dropped' = dropped
  BY DEF Arrive
<1>2. CASE f.kind # "udp"
  <2>1. accepted' = accepted
    BY <1>2 DEF Arrive
  <2>2. Extends
    BY <2>1, ExtendsSame
  <2> QED
    BY <1>1, <2>1, <2>2, GotSame DEF HistoryOk
<1>3. CASE f.kind = "udp"
  <2>1. f.of \in Ports /\ f.id \in Nat
    BY <1>3 DEF Frames, Udp, ArpFrames, Nothing, Answer
  <2>2. accepted' = [accepted EXCEPT ![f.of] = Append(@, f.id)]
    BY <1>3 DEF Arrive
  <2>3. \A q \in Ports : accepted[q] \in Seq(Nat)
    BY DEF HistoryOk
  <2>4. accepted'[f.of] = Append(accepted[f.of], f.id)
        /\ \A q \in Ports \ {f.of} : accepted'[q] = accepted[q]
    BY <2>1, <2>2 DEF HistoryOk
  <2>5. /\ Append(accepted[f.of], f.id) \in Seq(Nat)
        /\ Len(Append(accepted[f.of], f.id)) = Len(accepted[f.of]) + 1
        /\ \A k \in 1 .. Len(accepted[f.of]) :
             Append(accepted[f.of], f.id)[k] = accepted[f.of][k]
    BY <2>1, <2>3, AppendProperties
  <2>6. \A q \in Ports : Len(accepted[q]) \in Nat
    BY <2>3, LenProperties
  <2>7. \A k \in Nat : k + 1 \in Nat /\ k <= k + 1 /\ k <= k
    OBVIOUS
  <2>8. ASSUME NEW q \in Ports
        PROVE  /\ Len(accepted[q]) \in Nat /\ Len(accepted'[q]) \in Nat
               /\ Len(accepted[q]) <= Len(accepted'[q])
               /\ \A k \in 1 .. Len(accepted[q]) : accepted'[q][k] = accepted[q][k]
    <3>1. CASE q = f.of
      BY <2>4, <2>5, <2>6, <2>7, <3>1
    <3>2. CASE q # f.of
      BY <2>4, <2>6, <2>7, <3>2
    <3> QED
      BY <3>1, <3>2
  <2>9. Extends
    BY <2>8 DEF Extends
  <2>10. accepted' \in [Ports -> Seq(Nat)]
    BY <2>1, <2>2, <2>3, <2>5 DEF HistoryOk
  <2>11. GotOk'
    BY <1>1, <2>9, GotSame
  <2>12. HistoryOk'
    BY <1>1, <2>10 DEF HistoryOk
  <2> QED
    BY <2>9, <2>11, <2>12
<1> QED
  BY <1>2, <1>3

LEMMA ArriveState ==
  ASSUME HistoryOk, GotOk, NEW L, NEW W, NEW n, NEW P, StateOk(L, W, n, P),
         NEW f \in Frames, Arrive(f), arrived' \in Nat, CausesOk'
  PROVE  Sound'
<1>1. /\ pc \in {"idle", "wait", "unqueue"} /\ Types
      /\ ListsOk(links, L, W, From) /\ SlotsOk(W, rx, tx, held) /\ LostOk(W)
      /\ ArpOk(L[ArpQueue])
      /\ RingOk(n) /\ OrderOk(L, P) /\ QueueOk(L) /\ CausesOk
      /\ L \in [Lists -> Seq(Buffers)]
  BY Parts
<1>2. /\ ~rx[macRx].full
      /\ rx' = [rx EXCEPT ![macRx].full = TRUE, ![macRx].frame = f]
      /\ macRx' = (macRx + 1) % RxCount
      /\ UNCHANGED <<links, rxIndex, tx, txIndex, macTx, arp, dest, content, held,
                     pc, back, cursor, resolved, got, requests, queuedFor, dropped>>
  BY DEF Arrive, threadVars
<1>3. Extends /\ HistoryOk' /\ GotOk'
  BY ArriveHistory
<1>4. rx \in [RxSlots -> [buf : Buffers, full : BOOLEAN, frame : Frames]]
      /\ macRx \in RxSlots
  BY <1>1 DEF Types
<1>5. /\ rx' \in [RxSlots -> [buf : Buffers, full : BOOLEAN, frame : Frames]]
      /\ \A i \in RxSlots \ {macRx} : rx'[i] = rx[i]
      /\ rx'[macRx].full /\ rx'[macRx].frame = f /\ rx'[macRx].buf = rx[macRx].buf
  BY <1>2, <1>4
<1>6. \A i \in RxSlots : rx'[i].full <=> (i = macRx \/ rx[i].full)
  BY <1>5
<1>7. /\ macRx' \in RxSlots /\ RingOk(n + 1)'
      /\ \A i \in RxSlots : rx[i].full => Off(i) < Off(macRx)
  BY <1>1, <1>2, <1>6, RingFilled
<1>8. Types'
  BY <1>1, <1>2, <1>5, <1>7 DEF Types
<1>9. From' = From
  BY <1>2 DEF From, Walking, Ahead
<1>10. ListsOk(links', L, W, From')
  BY <1>1, <1>2, <1>9
<1>11. SlotsOk(W, rx', tx', held')
  <2>1. \A i \in RxSlots : rx'[i].buf = rx[i].buf
    BY <1>5
  <2>2. \A i \in TxSlots : tx'[i].buf = tx[i].buf
    BY <1>2
  <2>3. SlotsOk(W, rx', tx', held)
    BY <1>1, <2>1, <2>2, SlotsFrame
  <2> QED
    BY <1>2, <2>3
<1>12. LostOk(W)'
  BY <1>1, <1>2 DEF LostOk
<1>13. ArpOk(L[ArpQueue])'
  BY <1>1, <1>2 DEF ArpOk, AskedFor, WaitOk, Walking
<1>14. QueueOk(L)'
  BY <1>1, <1>2, <1>3, QueueSame
<1>15. \E Q : OrderOk(L, Q)'
  <2>1. CASE f.kind = "udp"
    <3>1. f \in Udp
      BY <2>1 DEF Frames, ArpFrames, Nothing, Answer
    <3>2. accepted' = [accepted EXCEPT ![f.of] = Append(@, f.id)]
      BY <2>1 DEF Arrive
    <3> QED
      BY <1>1, <1>2, <1>7, <3>1, <3>2, OrderArrives
  <2>2. CASE f.kind # "udp"
    <3>1. accepted' = accepted
      BY <2>2 DEF Arrive
    <3>2. \A i \in RxSlots, q \in Ports : UdpIn(i, q)' <=> UdpIn(i, q)
      BY <1>2, <1>5, <2>2 DEF UdpIn
    <3>3. \A i \in RxSlots, q \in Ports : UdpIn(i, q) => rx'[i].frame.id = rx[i].frame.id
      BY <1>2, <1>5 DEF UdpIn
    <3>4. \A i \in RxSlots : Off(i)' = Off(i)
      BY <1>2 DEF Off
    <3>5. RingKept
      BY <3>2, <3>3, <3>4 DEF RingKept
    <3>6. \A q \in Ports : Taken(L, q)' = Taken(L, q)
      BY <1>2 DEF Taken
    <3>7. OrderOk(L, P)'
      BY <1>1, <3>1, <3>5, <3>6, OrderSame
    <3> QED
      BY <3>7
  <2> QED
    BY <2>1, <2>2
<1>16. PICK Q : OrderOk(L, Q)'
  BY <1>15
<1>17. pc' \in {"idle", "wait", "unqueue"}
  BY <1>1, <1>2
<1> QED
  BY <1>3, <1>7, <1>8, <1>10, <1>11, <1>12, <1>13, <1>14, <1>16, <1>17, StateNext

(* A frame that arrives leaves a stopped thread as it is. *)
LEMMA ArriveDead ==
  ASSUME HistoryOk, GotOk, CountsOk, Dead, NEW f \in Frames, Arrive(f), arrived' \in Nat
  PROVE  Sound'
<1>1. HistoryOk' /\ GotOk'
  BY ArriveHistory
<1>2. pc' = pc /\ requests' = requests /\ answered' = answered
  BY DEF Arrive, threadVars
<1>3. ASSUME NEW p \in Peers, replies[p] > requests[p]
      PROVE  replies'[p] > requests[p]
  <2>1. replies[p] \in Nat /\ requests[p] \in Nat
    BY DEF CountsOk
  <2>2. replies'[p] = replies[p] \/ replies'[p] = replies[p] + 1
    BY DEF Arrive, CountsOk
  <2> QED
    BY <1>3, <2>1, <2>2
<1>4. Dead'
  BY <1>2, <1>3 DEF Dead
<1> QED
  BY <1>1, <1>4 DEF Sound

(* A reply more in the ring is counted. *)
LEMMA ReplyCounted ==
  ASSUME Types, CountsOk, CausesOk, NEW f \in Frames, Arrive(f)
  PROVE  CausesOk'
<1>c. PICK c \in RxSlots : c = macRx
  BY DEF Types
<1>1. /\ ~rx[c].full /\ rx' = [rx EXCEPT ![c].full = TRUE, ![c].frame = f]
      /\ replies' = IF f.kind = "reply" THEN [replies EXCEPT ![f.of] = @ + 1] ELSE replies
      /\ arp' = arp /\ content' = content /\ answered' = answered
  BY <1>c DEF Arrive
<1>2. \A i \in RxSlots \ {c} : rx'[i] = rx[i]
  BY <1>1 DEF Types
<1>3. rx'[c].frame = f
  BY <1>1 DEF Types
<1>4. CASE f.kind # "reply"
  <2>1. replies' = replies
    BY <1>1, <1>4
  <2>2. \A i \in RxSlots, p \in Peers : ReplyIn(i, p)' => ReplyIn(i, p)
    BY <1>2, <1>3, <1>4 DEF ReplyIn
  <2> QED
    BY <1>1, <2>1, <2>2, CausesSame
<1>5. CASE f.kind = "reply"
  <2>p. PICK p \in Peers : p = f.of
    BY <1>5 DEF Frames, Udp, ArpFrames, Nothing, Answer
  <2>1. /\ replies'[p] = replies[p] + 1 /\ replies[p] \in Nat
        /\ \A x \in Peers \ {p} : replies'[x] = replies[x]
    BY <1>1, <1>5, <2>p DEF CountsOk
  <2>2. \A i \in RxSlots, x \in Peers : ReplyIn(i, x)' => ReplyIn(i, x) \/ (i = c /\ x = p)
    BY <1>2, <1>3, <2>p DEF ReplyIn
  <2>3. RepliesOk /\ \A b \in Buffers : content[b] = Answer => answered # {}
    BY DEF CausesOk
  <2>4. ASSUME NEW x \in Peers
        PROVE  /\ arp[x] = "known" => replies'[x] >= 1
               /\ \A i \in RxSlots : ReplyIn(i, x)' =>
                    /\ replies'[x] >= 1
                    /\ arp[x] = "known" => replies'[x] >= 2
                    /\ \A j \in RxSlots : ReplyIn(j, x)' /\ i # j => replies'[x] >= 2
    <3>1. CASE x # p
      <4>1. replies'[x] = replies[x] /\ \A i \in RxSlots : ReplyIn(i, x)' => ReplyIn(i, x)
        BY <2>1, <2>2, <3>1
      <4> QED
        BY <2>3, <4>1 DEF RepliesOk
    <3>2. CASE x = p
      <4>1. \A k \in Nat : k + 1 >= 1 /\ (k >= 1 => k + 1 >= 2)
        OBVIOUS
      <4>2. replies'[p] >= 1 /\ (replies[p] >= 1 => replies'[p] >= 2)
        BY <2>1, <4>1
      <4>3. arp[p] = "known" => replies[p] >= 1
        BY <2>3 DEF RepliesOk
      <4>4. \A i \in RxSlots : ReplyIn(i, p) => replies[p] >= 1
        BY <2>3 DEF RepliesOk
      <4>5. \A i, j \in RxSlots : ReplyIn(i, p)' /\ ReplyIn(j, p)' /\ i # j => replies[p] >= 1
        BY <2>2, <4>4
      <4> QED
        BY <3>2, <4>2, <4>3, <4>5
    <3> QED
      BY <3>1, <3>2
  <2>5. RepliesOk'
    BY <1>1, <2>4 DEF RepliesOk
  <2> QED
    BY <1>1, <2>3, <2>5 DEF CausesOk
<1> QED
  BY <1>4, <1>5

LEMMA FrameArrivesSound ==
  ASSUME CountsOk, Sound, FrameArrives
  PROVE  Sound'
<1>1. HistoryOk /\ GotOk /\ (Alive \/ Dead)
  BY DEF Sound
<1>2. arrived' \in Nat
  BY <1>1 DEF HistoryOk, FrameArrives
<1>3. PICK f : /\ f \in [kind : {"udp"}, of : Ports, id : {arrived'}]
                        \union [kind : {"request", "reply"}, of : Peers, id : {0}]
                        \union {Nothing}
               /\ Arrive(f)
  BY DEF FrameArrives
<1>4. f \in Frames
  BY <1>2, <1>3 DEF Frames, Udp, ArpFrames
<1>5. CASE Dead
  BY <1>1, <1>2, <1>3, <1>4, <1>5, ArriveDead
<1>6. CASE Alive
  <2>1. PICK L, W, n, P : StateOk(L, W, n, P)
    BY <1>6 DEF Alive
  <2>2. Types /\ CausesOk
    BY <2>1, Parts
  <2>3. CausesOk'
    BY <1>3, <1>4, <2>2, ReplyCounted
  <2> QED
    BY <1>1, <1>2, <1>3, <1>4, <2>1, <2>3, ArriveState
<1> QED
  BY <1>1, <1>5, <1>6

(* The transmit descriptor after one. *)
LEMMA NextTx ==
  ASSUME NEW x \in TxSlots
  PROVE  (x + 1) % TxCount \in TxSlots
<1>1. TxCount \in Nat \ {0} /\ x \in 0 .. TxCount - 1
  BY NetAssumption DEF TxSlots
<1>2. (x + 1) % TxCount = IF x + 1 = TxCount THEN 0 ELSE x + 1
  BY <1>1, NextSlot
<1>3. \A c \in Nat \ {0} : \A k \in 0 .. c - 1 :
        (IF k + 1 = c THEN 0 ELSE k + 1) \in 0 .. c - 1
  OBVIOUS
<1> QED
  BY <1>1, <1>2, <1>3 DEF TxSlots

(* The MAC sends a frame. *)
LEMMA TransmitSound ==
  ASSUME Sound, Transmit
  PROVE  Sound'
<1>1. HistoryOk /\ GotOk /\ (Alive \/ Dead)
  BY DEF Sound
<1>2. /\ tx' = [tx EXCEPT ![macTx].mac = FALSE] /\ macTx' = (macTx + 1) % TxCount
      /\ UNCHANGED <<links, rx, rxIndex, macRx, txIndex, arp, dest, content, held>>
      /\ UNCHANGED <<pc, back, cursor, resolved, arrived, accepted, got, requests,
                     replies, answered, queuedFor, dropped>>
  BY DEF Transmit, threadVars, history
<1>3. HistoryOk' /\ GotOk'
  BY <1>1, <1>2 DEF HistoryOk, GotOk
<1>4. CASE Dead
  <2>1. Dead'
    BY <1>2, <1>4 DEF Dead
  <2> QED
    BY <1>3, <2>1 DEF Sound
<1>5. CASE Alive
  <2>1. PICK L, W, n, P : StateOk(L, W, n, P)
    BY <1>5 DEF Alive
  <2>2. /\ pc \in {"idle", "wait", "unqueue"} /\ Types
        /\ ListsOk(links, L, W, From) /\ SlotsOk(W, rx, tx, held) /\ LostOk(W)
        /\ ArpOk(L[ArpQueue])
        /\ RingOk(n) /\ OrderOk(L, P) /\ QueueOk(L) /\ CausesOk
        /\ L \in [Lists -> Seq(Buffers)]
    BY <2>1, Parts
  <2>3. CausesOk'
    BY <1>2, <2>2 DEF CausesOk, RepliesOk, ReplyIn
  <2>5. tx \in [TxSlots -> [buf : Buffers, mac : BOOLEAN]] /\ macTx \in TxSlots
    BY <2>2 DEF Types
  <2>6. /\ tx' \in [TxSlots -> [buf : Buffers, mac : BOOLEAN]]
        /\ \A i \in TxSlots : tx'[i].buf = tx[i].buf
    BY <1>2, <2>5
  <2>7. macTx' \in TxSlots
    BY <1>2, <2>5, NextTx
  <2>8. Types'
    BY <1>2, <2>2, <2>6, <2>7 DEF Types
  <2>9. ListsOk(links', L, W, From')
    <3>1. From' = From
      BY <1>2 DEF From, Walking, Ahead
    <3> QED
      BY <1>2, <2>2, <3>1
  <2>10. SlotsOk(W, rx', tx', held')
    <3>1. SlotsOk(W, rx, tx', held)
      BY <2>2, <2>6, SlotsFrame
    <3> QED
      BY <1>2, <3>1
  <2>11. LostOk(W)'
    BY <1>2, <2>2 DEF LostOk
  <2>12. ArpOk(L[ArpQueue])'
    BY <1>2, <2>2 DEF ArpOk, AskedFor, WaitOk, Walking
  <2>13. RingOk(n)' /\ OrderOk(L, P)' /\ QueueOk(L)'
    BY <1>1, <1>2, <2>2, QuietRing
  <2>14. pc' \in {"idle", "wait", "unqueue"}
    BY <1>2, <2>2
  <2> QED
    BY <1>3, <2>3, <2>8, <2>9, <2>10, <2>11, <2>12, <2>13, <2>14, StateNext
<1> QED
  BY <1>1, <1>4, <1>5

(* A sender goes on when the MAC has sent something. *)
LEMMA SendDoneSound ==
  ASSUME Sound, SendDone
  PROVE  Sound'
<1>1. HistoryOk /\ GotOk /\ (Alive \/ Dead)
  BY DEF Sound
<1>2. /\ pc = "wait" /\ pc' = back /\ txIndex' = (txIndex + 1) % TxCount
      /\ UNCHANGED <<links, rx, rxIndex, macRx, tx, macTx, arp, dest, content, held>>
      /\ UNCHANGED <<back, cursor, resolved, arrived, accepted, got, requests,
                     replies, answered, queuedFor, dropped>>
  BY DEF SendDone, history
<1>3. HistoryOk' /\ GotOk'
  BY <1>1, <1>2 DEF HistoryOk, GotOk
<1>4. Alive
  BY <1>1, <1>2 DEF Dead
<1>5. PICK L, W, n, P : StateOk(L, W, n, P)
  BY <1>4 DEF Alive
<1>6. /\ Types
      /\ ListsOk(links, L, W, From) /\ SlotsOk(W, rx, tx, held) /\ LostOk(W)
      /\ ArpOk(L[ArpQueue])
      /\ RingOk(n) /\ OrderOk(L, P) /\ QueueOk(L) /\ CausesOk
      /\ L \in [Lists -> Seq(Buffers)]
  BY <1>5, Parts
<1>7. back \in {"idle", "unqueue"}
  BY <1>6 DEF Types
<1>8. txIndex' \in TxSlots
  BY <1>2, <1>6, NextTx DEF Types
<1>9. Types'
  BY <1>2, <1>6, <1>8 DEF Types
<1>10. Walking' = Walking
  BY <1>2, <1>7 DEF Walking
<1>11. From' = From
  BY <1>2, <1>10 DEF From, Ahead
<1>12. ListsOk(links', L, W, From') /\ SlotsOk(W, rx', tx', held')
  BY <1>2, <1>6, <1>11
<1>13. LostOk(W)'
  BY <1>2, <1>6 DEF LostOk
<1>14. ArpOk(L[ArpQueue])'
  BY <1>2, <1>6, <1>10 DEF ArpOk, AskedFor, WaitOk
<1>15. RingOk(n)' /\ OrderOk(L, P)' /\ QueueOk(L)'
  BY <1>1, <1>2, <1>6, QuietRing
<1>16. CausesOk'
  BY <1>2, <1>6 DEF CausesOk, RepliesOk, ReplyIn
<1>17. pc' \in {"idle", "wait", "unqueue"}
  BY <1>2, <1>7
<1> QED
  BY <1>3, <1>9, <1>12, <1>13, <1>14, <1>15, <1>16, <1>17, StateNext

(* The first buffer of the pool is in hand. *)
LEMMA TakeInHand ==
  ASSUME NEW l, NEW L, NEW W, NEW r, ListsOk(l, L, W, Ahead(arp, l)),
         SlotsOk(W, r, tx, held), Types, AskedFor(arp, requests, queuedFor),
         WaitOk(L[ArpQueue], dest, queuedFor), ~PoolEmpty(l)
  PROVE  /\ l.next[Pool] \in Buffers /\ W[l.next[Pool]] = List(Pool)
         /\ InHand(DeleteFirst(l, Pool), [L EXCEPT ![Pool] = Tail(L[Pool])],
                   [W EXCEPT ![l.next[Pool]] = Gone], r, l.next[Pool])
<1> DEFINE b == l.next[Pool]
           M == [L EXCEPT ![Pool] = Tail(L[Pool])]
           V == [W EXCEPT ![b] = Gone]
           m == DeleteFirst(l, Pool)
<1>1. L[Pool] # <<>> /\ b \in Buffers /\ W[b] = List(Pool)
  BY PoolFacts
<1>2. Pool \in Circles /\ \A h \in Lists : Gone # List(h)
  BY HeadFacts, Owners
<1>3. Removes(l, L, W, Ahead(arp, l), Pool, Gone)
  BY <1>1, <1>2, Removed
<1>4. ListsOk(m, M, V, Ahead(arp, l)) /\ m.next[ArpQueue] = l.next[ArpQueue]
  BY <1>3 DEF Removes
<1>5. DOMAIN W = Buffers /\ L \in [Lists -> Seq(Buffers)]
  BY DEF ListsOk
<1>6. V[b] = Gone /\ \A c \in Buffers \ {b} : V[c] = W[c]
  BY <1>1, <1>5
<1>7. M[ArpQueue] = L[ArpQueue]
  BY <1>5, HeadFacts
<1> HIDE DEF M, V, m, b
<1>8. Ahead(arp, m) = Ahead(arp, l)
  BY <1>4 DEF Ahead
<1>9. SlotsOk(V, r, tx, held)
  <2>1. Free(W[b]) /\ Free(V[b])
    BY <1>1, <1>2, <1>6, FreeFacts, HeadFacts
  <2>2. SameBut(W, V, {})
    BY <1>6, <2>1 DEF SameBut
  <2> QED
    BY <2>2, SlotsSame
<1>10. InHand(m, M, V, r, b)
  BY <1>1, <1>4, <1>6, <1>7, <1>8, <1>9 DEF InHand
<1> QED
  BY <1>1, <1>10 DEF b, M, V, m

(* mac_send of the buffer in hand. *)
LEMMA MacSends ==
  ASSUME NEW l, NEW L, NEW W, NEW r, NEW b, InHand(l, L, W, r, b),
         \A x, y \in queuedFor' : x = y,
         NEW f \in Frames, NEW p \in Peers, MacSend(l, b, f, p)
  PROVE  \/ pc' \in {"tx error", "no buffer"} \/ (pc' = "bad length" /\ f = Answer)
         \/ /\ pc' = "wait" /\ back' = "idle"
            /\ \E M, V : Dispatched(L, W, r, b, f, M, V)
<1>1. CASE arp[p] = "known"
  <2>1. /\ dest' = [dest EXCEPT ![b] = p] /\ content' = [content EXCEPT ![b] = f]
        /\ SendRaw(l, b, f, "idle") /\ UNCHANGED <<arp, requests, queuedFor>>
    BY <1>1 DEF MacSend
  <2>2. DOMAIN dest = Buffers
    BY DEF InHand, Types
  <2>3. DOMAIN dest' = Buffers /\ \A c \in Buffers \ {b} : dest'[c] = dest[c]
    BY <2>1, <2>2
  <2>4. \/ pc' = "tx error" \/ (pc' = "bad length" /\ f = Answer)
        \/ /\ pc' = "wait" /\ back' = "idle"
           /\ \E M, V : Dispatched(L, W, r, b, f, M, V)
    BY <2>1, <2>3, DirectSend
  <2> QED
    BY <2>4
<1>2. CASE arp[p] # "known"
  <2>1. Asks(l, b, f, p)
    BY <1>2 DEF MacSend, Asks
  <2>2. \/ pc' \in {"tx error", "no buffer"}
        \/ /\ pc' = "wait" /\ back' = "idle"
           /\ \E M, V : Dispatched(L, W, r, b, f, M, V)
    BY <1>2, <2>1, AskingSend
  <2> QED
    BY <2>2
<1> QED
  BY <1>1, <1>2

(* What mac_send leaves as it was. *)
LEMMA DispatchedRest ==
  ASSUME NEW l, NEW L, NEW W, NEW r, NEW b, NEW f, NEW M, NEW V, InHand(l, L, W, r, b),
         Dispatched(L, W, r, b, f, M, V), CausesOk, replies' = replies,
         answered \subseteq answered', f = Answer => answered' # {},
         \A i \in RxSlots, p \in Peers : ReplyIn(i, p)' => ReplyIn(i, p)
  PROVE  /\ \A q \in Ports : \A c \in Range(L[q]) : content'[c] = content[c]
         /\ CausesOk'
<1>1. ListsOk(l, L, W, Ahead(arp, l))
  BY DEF InHand
<1>2. /\ \A c \in Buffers : ~(W[c] \in {Gone, List(Pool)}) => content'[c] = content[c]
      /\ Placed(f)
  BY DEF Dispatched
<1>3. ASSUME NEW q \in Ports, NEW c \in Range(L[q])
      PROVE  content'[c] = content[c]
  <2>1. q \in Lists /\ q # Pool
    BY HeadFacts
  <2>2. ListIs(l, L, W, q)
    BY <1>1, <2>1, ListFacts
  <2>3. c \in Buffers /\ W[c] = List(q)
    BY <2>2 DEF ListIs
  <2> QED
    BY <1>2, <2>1, <2>3, Owners
<1>4. CausesOk'
  <2>1. \A c \in Buffers : content'[c] = Answer => content[c] = Answer \/ answered' # {}
    BY <1>2 DEF Placed
  <2>2. \A p \in Peers : arp'[p] = "known" => arp[p] = "known"
    BY <1>2 DEF Placed
  <2> QED
    BY <2>1, <2>2, CausesSame
<1> QED
  BY <1>3, <1>4

(* The state after mac_send. *)
LEMMA DispatchedNext ==
  ASSUME HistoryOk', GotOk', Types, NEW L, NEW W, NEW b, NEW f, NEW M, NEW V,
         NEW n, NEW P,
         Dispatched(L, W, rx', b, f, M, V), pc' = "wait", back' = "idle",
         UNCHANGED <<held, cursor, resolved, txIndex, macTx>>,
         rx' \in [RxSlots -> [buf : Buffers, full : BOOLEAN, frame : Frames]],
         rxIndex' \in RxSlots, macRx' \in RxSlots,
         LostOk(V)', RingOk(n)', OrderOk(M, P)', QueueOk(M)', CausesOk'
  PROVE  Sound'
<1>1. /\ ListsOk(links', M, V, Ahead(arp', links')) /\ SlotsOk(V, rx', tx', held)
      /\ tx' \in [TxSlots -> [buf : Buffers, mac : BOOLEAN]]
      /\ content' \in [Buffers -> Frames] /\ DOMAIN dest' = Buffers
      /\ arp' \in [Peers -> {"none", "waiting", "known"}] /\ requests' \in [Peers -> Nat]
      /\ AskedFor(arp', requests', queuedFor')
      /\ WaitOk(M[ArpQueue], dest', queuedFor')
  BY DEF Dispatched
<1>2. ~Walking'
  BY DEF Walking
<1>3. From' = Ahead(arp', links')
  BY <1>2 DEF From, Ahead
<1>4. ListsOk(links', M, V, From')
  BY <1>1, <1>3
<1>5. SlotsOk(V, rx', tx', held')
  BY <1>1
<1>6. Types'
  BY <1>1 DEF Types
<1>7. ArpOk(M[ArpQueue])'
  BY <1>1, <1>2 DEF ArpOk, AskedFor, WaitOk
<1>8. pc' \in {"idle", "wait", "unqueue"}
  OBVIOUS
<1> QED
  BY <1>4, <1>5, <1>6, <1>7, <1>8, StateNext

(* No buffer loses its owner. *)
LEMMA LostSame ==
  ASSUME NEW V, NEW W, Unowned(V) \subseteq Unowned(W), NEW k \in Nat,
         Cardinality(Unowned(W)) <= k
  PROVE  Cardinality(Unowned(V)) <= k
<1>1. IsFiniteSet(Unowned(W))
  <2>1. IsFiniteSet(Buffers)
    BY NetAssumption, FS_Interval DEF Buffers
  <2>2. Unowned(W) \subseteq Buffers
    BY DEF Unowned
  <2> QED
    BY <2>1, <2>2, FS_Subset
<1>2. /\ IsFiniteSet(Unowned(V)) /\ Cardinality(Unowned(V)) <= Cardinality(Unowned(W))
  BY <1>1, FS_Subset
<1>3. Cardinality(Unowned(V)) \in Nat /\ Cardinality(Unowned(W)) \in Nat
  BY <1>1, <1>2, FS_CardinalityType
<1>4. \A i, j, m \in Nat : i <= j /\ j <= m => i <= m
  OBVIOUS
<1> QED
  BY <1>2, <1>3, <1>4

(* The thread stops. *)
LEMMA StopSound ==
  ASSUME HistoryOk, GotOk, pc' \in {"no buffer", "tx error", "bad length"},
         pc' = "bad length" => answered' # {},
         UNCHANGED <<arrived, accepted, got>>, dropped' \in Nat
  PROVE  Sound'
<1>1. HistoryOk' /\ GotOk'
  BY DEF HistoryOk, GotOk
<1>2. Dead'
  BY DEF Dead
<1> QED
  BY <1>1, <1>2 DEF Sound

(* An application sends a packet. *)
LEMMA SendPacketSound ==
  ASSUME Sound, \A x, y \in queuedFor' : x = y, SendPacket
  PROVE  Sound'
<1>1. HistoryOk /\ GotOk /\ (Alive \/ Dead)
  BY DEF Sound
<1>2. pc = "idle"
  BY DEF SendPacket
<1>3. Alive
  BY <1>1, <1>2 DEF Dead
<1>4. PICK L, W, n, P : StateOk(L, W, n, P)
  BY <1>3 DEF Alive
<1>5. /\ Types
      /\ ListsOk(links, L, W, From) /\ SlotsOk(W, rx, tx, held) /\ LostOk(W)
      /\ ArpOk(L[ArpQueue])
      /\ RingOk(n) /\ OrderOk(L, P) /\ QueueOk(L) /\ CausesOk
      /\ L \in [Lists -> Seq(Buffers)]
  BY <1>4, Parts
<1>6. From = Ahead(arp, links)
  BY <1>2 DEF From, Walking
<1>7. dropped \in Nat
  BY <1>1 DEF HistoryOk
<1>8. CASE PoolEmpty(links)
  <2>1. Stop("no buffer")
    BY <1>8 DEF SendPacket
  <2>2. pc' \in {"no buffer"} /\ UNCHANGED <<arrived, accepted, got, dropped>>
    BY <2>1 DEF Stop, history
  <2> QED
    BY <1>1, <1>7, <2>2, StopSound
<1>9. CASE ~PoolEmpty(links)
  <2>1. ~Broken(links)
    BY <1>5, <1>9, PoolFacts
  <2> DEFINE b == links.next[Pool]
             l == DeleteFirst(links, Pool)
             K == [L EXCEPT ![Pool] = Tail(L[Pool])]
             U == [W EXCEPT ![b] = Gone]
  <2>2. /\ \/ \E p \in Peers : MacSend(l, b, Nothing, p)
           \/ /\ SendRaw(l, b, Nothing, "idle")
              /\ content' = [content EXCEPT ![b] = Nothing]
              /\ UNCHANGED <<arp, dest, requests, queuedFor>>
        /\ UNCHANGED <<rx, rxIndex, macRx, txIndex, macTx, held,
                       cursor, resolved, arrived, accepted, got, replies, answered,
                       dropped>>
    BY <1>9, <2>1 DEF SendPacket
  <2>3. AskedFor(arp, requests, queuedFor) /\ WaitOk(L[ArpQueue], dest, queuedFor)
    BY <1>5 DEF ArpOk
  <2>4. /\ b \in Buffers /\ W[b] = List(Pool)
        /\ InHand(l, K, U, rx, b)
    BY <1>5, <1>6, <1>9, <2>3, TakeInHand
  <2>5. \A q \in Ports : K[q] = L[q]
    BY <1>5, HeadFacts
  <2>6. Unowned(U) \ {b} \subseteq Unowned(W)
    BY <1>5 DEF Unowned, ListsOk
  <2> HIDE DEF b, l, K, U
  <2>7. \/ pc' \in {"tx error", "no buffer"}
        \/ /\ pc' = "wait" /\ back' = "idle"
           /\ \E M, V : Dispatched(K, U, rx, b, Nothing, M, V)
    <3>1. CASE \E p \in Peers : MacSend(l, b, Nothing, p)
      <4>1. Nothing \in Frames /\ Nothing # Answer
        BY DEF Frames, Nothing, Answer
      <4> QED
        BY <2>4, <3>1, <4>1, MacSends
    <3>2. CASE /\ SendRaw(l, b, Nothing, "idle")
               /\ content' = [content EXCEPT ![b] = Nothing]
               /\ UNCHANGED <<arp, dest, requests, queuedFor>>
      <4>1. DOMAIN dest' = Buffers /\ \A c \in Buffers \ {b} : dest'[c] = dest[c]
        BY <1>5, <3>2 DEF Types
      <4>2. Nothing \in Frames /\ Nothing # Answer
        BY DEF Frames, Nothing, Answer
      <4> QED
        BY <2>4, <3>2, <4>1, <4>2, DirectSend
    <3> QED
      BY <2>2, <3>1, <3>2
  <2>8. CASE pc' \in {"tx error", "no buffer"}
    BY <1>1, <1>7, <2>2, <2>8, StopSound
  <2>9. ASSUME NEW M, NEW V, Dispatched(K, U, rx, b, Nothing, M, V), pc' = "wait", back' = "idle"
        PROVE  Sound'
    <3>1. \A i \in RxSlots, p \in Peers : ReplyIn(i, p)' => ReplyIn(i, p)
      BY <2>2 DEF ReplyIn
    <3>2. /\ \A q \in Ports : \A c \in Range(K[q]) : content'[c] = content[c]
          /\ CausesOk'
      <4>1. Nothing # Answer
        BY DEF Nothing, Answer
      <4> QED
        BY <1>5, <2>2, <2>4, <2>9, <3>1, <4>1, DispatchedRest
    <3>4. Unowned(V) \subseteq Unowned(U) \ {b} /\ \A q \in Ports : M[q] = K[q]
      BY <2>9 DEF Dispatched
    <3>5. GotOk' /\ RingOk(n)' /\ OrderOk(M, P)' /\ QueueOk(M)'
      <4>1. \A q \in Ports : M[q] = L[q]
        BY <2>5, <3>4
      <4>2. \A q \in Ports : \A c \in Range(L[q]) : content'[c] = content[c]
        BY <2>5, <3>2
      <4> QED
        BY <1>1, <1>5, <2>2, <4>1, <4>2, QuietRing
    <3>6. HistoryOk'
      BY <1>1, <2>2 DEF HistoryOk
    <3>7. LostOk(V)'
      <4>1. Unowned(V) \subseteq Unowned(W)
        BY <2>6, <3>4
      <4>2. Cardinality(Unowned(V)) <= dropped
        BY <1>5, <1>7, <4>1, LostSame DEF LostOk
      <4> QED
        BY <2>2, <4>2 DEF LostOk
    <3>8. /\ rx' \in [RxSlots -> [buf : Buffers, full : BOOLEAN, frame : Frames]]
          /\ rxIndex' \in RxSlots /\ macRx' \in RxSlots
      BY <1>5, <2>2 DEF Types
    <3>9. Dispatched(K, U, rx', b, Nothing, M, V)
      BY <2>2, <2>9
    <3> QED
      BY <1>5, <2>2, <2>9, <3>2, <3>5, <3>6, <3>7, <3>8, <3>9, DispatchedNext
  <2> QED
    BY <2>7, <2>8, <2>9
<1> QED
  BY <1>8, <1>9

(* An application frees a buffer. *)
LEMMA FreeNetbufSound ==
  ASSUME Sound, NEW b \in held, FreeNetbuf(b)
  PROVE  Sound'
<1>1. HistoryOk /\ GotOk /\ (Alive \/ Dead)
  BY DEF Sound
<1>2. /\ pc = "idle" /\ held' = held \ {b} /\ links' = AddFirst(links, b, Pool)
      /\ UNCHANGED <<rx, rxIndex, macRx, tx, txIndex, macTx, arp, dest, content>>
      /\ UNCHANGED <<pc, back, cursor, resolved, arrived, accepted, got, requests,
                     replies, answered, queuedFor, dropped>>
  BY DEF FreeNetbuf, ringVars, threadVars, history
<1>3. Alive
  BY <1>1, <1>2 DEF Dead
<1>4. PICK L, W, n, P : StateOk(L, W, n, P)
  BY <1>3 DEF Alive
<1>5. /\ Types
      /\ ListsOk(links, L, W, From) /\ SlotsOk(W, rx, tx, held) /\ LostOk(W)
      /\ ArpOk(L[ArpQueue])
      /\ RingOk(n) /\ OrderOk(L, P) /\ QueueOk(L) /\ CausesOk
      /\ L \in [Lists -> Seq(Buffers)] /\ DOMAIN W = Buffers
  BY <1>4, Parts
<1>6. b \in Buffers /\ W[b] = Held
  BY <1>5, SlotOwners DEF Types
<1> DEFINE M == [L EXCEPT ![Pool] = InsertAt(L[Pool], 1, b)]
           V == [W EXCEPT ![b] = List(Pool)]
<1>7. /\ ListsOk(links', M, V, From)
      /\ links'.next[ArpQueue] = links.next[ArpQueue]
  <2>1. \A k \in Lists : W[b] # List(k)
    BY <1>6, Owners
  <2>2. /\ ListsOk(AddFirst(links, b, Pool), M, V, From)
        /\ AddFirst(links, b, Pool).next[ArpQueue] = links.next[ArpQueue]
    <3>1. ListsOk(links, L, W, From) /\ b \in Buffers
      BY <1>5, <1>6
    <3> QED
      BY <2>1, <3>1, Freed
  <2> HIDE DEF M, V
  <2> QED
    BY <1>2, <2>2
<1>8. V[b] = List(Pool) /\ \A c \in Buffers \ {b} : V[c] = W[c]
  BY <1>5, <1>6
<1>9. M[ArpQueue] = L[ArpQueue] /\ \A q \in Ports : M[q] = L[q]
  BY <1>5, HeadFacts
<1> HIDE DEF M, V
<1>10. From' = From
  BY <1>2, <1>7 DEF From, Walking, Ahead
<1>11. SlotsOk(V, rx', tx', held')
  <2>1. SameBut(W, V, {b}) /\ Free(V[b])
    BY <1>8, FreeFacts, HeadFacts DEF SameBut
  <2>2. SlotsOk(V, rx, tx, held')
    BY <1>2, <1>5, <1>6, <2>1, HeldExchange
  <2> QED
    BY <1>2, <2>2
<1>12. LostOk(V)'
  <2>1. dropped \in Nat /\ dropped' = dropped
    BY <1>1, <1>2 DEF HistoryOk
  <2>2. Unowned(V) \subseteq Unowned(W)
    BY <1>6, <1>8, Owners DEF Unowned
  <2>3. Cardinality(Unowned(V)) <= dropped
    BY <1>5, <2>1, <2>2, LostSame DEF LostOk
  <2> QED
    BY <2>1, <2>3 DEF LostOk
<1>13. Types'
  BY <1>2, <1>5 DEF Types
<1>14. ArpOk(M[ArpQueue])'
  BY <1>2, <1>5, <1>9 DEF ArpOk, AskedFor, WaitOk, Walking
<1>15. GotOk' /\ RingOk(n)' /\ OrderOk(M, P)' /\ QueueOk(M)'
  BY <1>1, <1>2, <1>5, <1>9, QuietRing
<1>16. CausesOk'
  BY <1>2, <1>5 DEF CausesOk, RepliesOk, ReplyIn
<1>17. HistoryOk'
  BY <1>1, <1>2 DEF HistoryOk
<1>18. ListsOk(links', M, V, From')
  BY <1>7, <1>10
<1>19. pc' \in {"idle", "wait", "unqueue"}
  BY <1>2
<1> QED
  BY <1>11, <1>12, <1>13, <1>14, <1>15, <1>16, <1>17, <1>18, <1>19, StateNext

(* An application gets the next frame of its port. *)
LEMMA GotNext ==
  ASSUME HistoryOk, GotOk, NEW q \in Ports, Len(got[q]) + 1 <= Len(accepted[q]),
         got' = [got EXCEPT ![q] = Append(@, accepted[q][Len(got[q]) + 1])],
         accepted' = accepted
  PROVE  /\ GotOk' /\ got' \in [Ports -> Seq(Nat)]
         /\ Len(got'[q]) = Len(got[q]) + 1
         /\ \A x \in Ports \ {q} : got'[x] = got[x]
<1> DEFINE v == accepted[q][Len(got[q]) + 1]
<1>1. got[q] \in Seq(Nat) /\ accepted[q] \in Seq(Nat)
  BY DEF HistoryOk
<1>2. Len(got[q]) \in Nat /\ Len(accepted[q]) \in Nat
  BY <1>1, LenProperties
<1>3. \A k, m \in Nat : k + 1 <= m => k + 1 \in 1 .. m
  OBVIOUS
<1>4. v \in Nat
  <2>1. Len(got[q]) + 1 \in 1 .. Len(accepted[q])
    BY <1>2, <1>3
  <2> QED
    BY <1>1, <2>1, ElementOfSeq
<1>5. got'[q] = Append(got[q], v) /\ \A x \in Ports \ {q} : got'[x] = got[x]
  BY DEF HistoryOk
<1>6. /\ Append(got[q], v) \in Seq(Nat) /\ Len(Append(got[q], v)) = Len(got[q]) + 1
      /\ \A k \in 1 .. Len(got[q]) : Append(got[q], v)[k] = got[q][k]
      /\ Append(got[q], v)[Len(got[q]) + 1] = v
  BY <1>1, <1>4, AppendProperties
<1>7. got' \in [Ports -> Seq(Nat)]
  BY <1>6 DEF HistoryOk
<1>8. /\ Len(got'[q]) <= Len(accepted[q])
      /\ \A k \in 1 .. Len(got'[q]) : got'[q][k] = accepted[q][k]
  <2>1. \A k \in 1 .. Len(got[q]) : got[q][k] = accepted[q][k]
    BY DEF GotOk
  <2>2. \A k \in 1 .. Len(got[q]) + 1 : k \in 1 .. Len(got[q]) \/ k = Len(got[q]) + 1
    BY <1>2
  <2> QED
    BY <1>5, <1>6, <2>1, <2>2
<1>9. GotOk'
  BY <1>5, <1>8 DEF GotOk
<1> QED
  BY <1>5, <1>6, <1>7, <1>9

(* It takes the frame from the queue of the port. *)
LEMMA GotQueued ==
  ASSUME HistoryOk, GotOk, NEW L, NEW M, NEW P, L \in [Lists -> Seq(Buffers)],
         OrderOk(L, P), QueueOk(L), NEW q \in Ports, L[q] # <<>>,
         got' = [got EXCEPT ![q] = Append(@, content[L[q][1]].id)],
         accepted' = accepted, content' = content,
         M[q] = Tail(L[q]), \A x \in Ports \ {q} : M[x] = L[x]
  PROVE  /\ GotOk' /\ got' \in [Ports -> Seq(Nat)] /\ QueueOk(M)'
         /\ \A x \in Ports : Taken(M, x)' = Taken(L, x)
<1>1. L[q] \in Seq(Buffers) /\ q \in Lists
  BY HeadFacts
<1>2. /\ Len(got[q]) \in Nat /\ Len(L[q]) \in Nat /\ Len(accepted[q]) \in Nat
      /\ Taken(L, q) = Len(got[q]) + Len(L[q])
  BY Lengths
<1>3. Len(L[q]) \in Nat \ {0}
  BY <1>1, <1>2, EmptySeq
<1>4. Taken(L, q) <= Len(accepted[q])
  BY DEF OrderOk
<1>5. \A g, k, a \in Nat : k # 0 /\ g + k <= a => g + 1 <= a
  OBVIOUS
<1>6. Len(got[q]) + 1 <= Len(accepted[q])
  BY <1>2, <1>3, <1>4, <1>5
<1>7. content[L[q][1]].id = accepted[q][Len(got[q]) + 1]
  <2>1. \A k \in Nat \ {0} : 1 \in 1 .. k
    OBVIOUS
  <2>2. 1 \in 1 .. Len(L[q])
    BY <1>3, <2>1
  <2> QED
    BY <2>2 DEF QueueOk
<1>8. /\ GotOk' /\ got' \in [Ports -> Seq(Nat)]
      /\ Len(got'[q]) = Len(got[q]) + 1
      /\ \A x \in Ports \ {q} : got'[x] = got[x]
  BY <1>6, <1>7, GotNext
<1>9. /\ Tail(L[q]) \in Seq(Buffers) /\ Len(Tail(L[q])) = Len(L[q]) - 1
      /\ \A k \in 1 .. Len(Tail(L[q])) : Tail(L[q])[k] = L[q][k + 1]
  BY <1>1, <1>3, HeadTailProperties
<1>10. \A g, k \in Nat : k # 0 => (g + 1) + (k - 1) = g + k
  OBVIOUS
<1>11. ASSUME NEW x \in Ports
       PROVE  Taken(M, x)' = Taken(L, x)
  <2>1. CASE x = q
    <3>1. Taken(M, x)' = (Len(got[q]) + 1) + (Len(L[q]) - 1)
      BY <1>8, <1>9, <2>1 DEF Taken
    <3> QED
      BY <1>2, <1>3, <1>10, <2>1, <3>1
  <2>2. CASE x # q
    BY <1>8, <2>2 DEF Taken
  <2> QED
    BY <2>1, <2>2
<1>12. ASSUME NEW x \in Ports, NEW k \in 1 .. Len(M[x])
       PROVE  content[M[x][k]].id = accepted[x][Len(got'[x]) + k]
  <2>1. CASE x = q
    <3>1. \A g, m \in Nat : \A i \in 1 .. m - 1 :
            /\ i + 1 \in 1 .. m /\ g + (i + 1) = (g + 1) + i
      OBVIOUS
    <3>2. k \in 1 .. Len(L[q]) - 1
      BY <1>9, <2>1
    <3>3. /\ k + 1 \in 1 .. Len(L[q])
          /\ Len(got[q]) + (k + 1) = (Len(got[q]) + 1) + k
      BY <1>2, <3>1, <3>2
    <3>4. M[x][k] = L[q][k + 1]
      BY <1>9, <2>1
    <3>5. content[L[q][k + 1]].id = accepted[q][Len(got[q]) + (k + 1)]
      BY <3>3 DEF QueueOk
    <3> QED
      BY <1>8, <2>1, <3>3, <3>4, <3>5
  <2>2. CASE x # q
    <3>1. got'[x] = got[x] /\ M[x] = L[x] /\ k \in 1 .. Len(L[x])
      BY <1>8, <2>2
    <3>2. content[L[x][k]].id = accepted[x][Len(got[x]) + k]
      BY <3>1 DEF QueueOk
    <3> QED
      BY <3>1, <3>2
  <2> QED
    BY <2>1, <2>2
<1>13. QueueOk(M)'
  BY <1>12 DEF QueueOk
<1> QED
  BY <1>8, <1>11, <1>13

LEMMA TakeFromPortSound ==
  ASSUME Sound, NEW q \in Ports, TakeFromPort(q)
  PROVE  Sound'
<1>1. HistoryOk /\ GotOk /\ (Alive \/ Dead)
  BY DEF Sound
<1>b. PICK b : b = links.next[q]
  OBVIOUS
<1>2. /\ pc = "idle" /\ b # q /\ held' = held \union {b}
      /\ links' = DeleteFirst(links, q)
      /\ got' = [got EXCEPT ![q] = Append(@, content[b].id)]
      /\ UNCHANGED <<rx, rxIndex, macRx, tx, txIndex, macTx, arp, dest, content>>
      /\ UNCHANGED <<pc, back, cursor, resolved, arrived, accepted, requests,
                     replies, answered, queuedFor, dropped>>
  BY <1>b DEF TakeFromPort, ringVars, threadVars
<1>3. Alive
  BY <1>1, <1>2 DEF Dead
<1>4. PICK L, W, n, P : StateOk(L, W, n, P)
  BY <1>3 DEF Alive
<1>5. /\ Types
      /\ ListsOk(links, L, W, From) /\ SlotsOk(W, rx, tx, held) /\ LostOk(W)
      /\ ArpOk(L[ArpQueue])
      /\ RingOk(n) /\ OrderOk(L, P) /\ QueueOk(L) /\ CausesOk
      /\ L \in [Lists -> Seq(Buffers)] /\ DOMAIN W = Buffers
  BY <1>4, Parts
<1>6. q \in Circles /\ q \in Lists /\ q # ArpQueue /\ \A k \in Lists : Held # List(k)
  BY HeadFacts, Owners
<1>7. FirstIs(links, L, W, q)
  BY <1>5, <1>6, FirstFacts
<1>8. /\ L[q] # <<>> /\ b \in Buffers /\ W[b] = List(q) /\ b = L[q][1]
  BY <1>2, <1>7, <1>b DEF FirstIs
<1> DEFINE M == [L EXCEPT ![q] = Tail(L[q])]
           V == [W EXCEPT ![b] = Held]
<1>9. ListsOk(links', M, V, From) /\ links'.next[ArpQueue] = links.next[ArpQueue]
  <2>1. Removes(links, L, W, From, q, Held)
    BY <1>5, <1>6, <1>8, Removed
  <2> QED
    BY <1>2, <1>b, <2>1 DEF Removes
<1>10. V[b] = Held /\ \A c \in Buffers \ {b} : V[c] = W[c]
  BY <1>5, <1>8
<1>11. /\ M[ArpQueue] = L[ArpQueue]
       /\ M[q] = Tail(L[q]) /\ \A x \in Ports \ {q} : M[x] = L[x]
  BY <1>5, <1>6, HeadFacts
<1> HIDE DEF M, V
<1>12. From' = From
  BY <1>2, <1>9 DEF From, Walking, Ahead
<1>13. SlotsOk(V, rx', tx', held')
  <2>1. SameBut(W, V, {b}) /\ Free(W[b])
    BY <1>6, <1>8, <1>10, FreeFacts DEF SameBut
  <2>2. SlotsOk(V, rx, tx, held')
    BY <1>2, <1>5, <1>8, <1>10, <2>1, HeldExchange
  <2> QED
    BY <1>2, <2>2
<1>14. LostOk(V)'
  <2>1. dropped \in Nat /\ dropped' = dropped
    BY <1>1, <1>2 DEF HistoryOk
  <2>2. Unowned(V) \subseteq Unowned(W)
    BY <1>8, <1>10, Owners DEF Unowned
  <2>3. Cardinality(Unowned(V)) <= dropped
    BY <1>5, <2>1, <2>2, LostSame DEF LostOk
  <2> QED
    BY <2>1, <2>3 DEF LostOk
<1>15. Types'
  BY <1>2, <1>5, <1>8 DEF Types
<1>16. ArpOk(M[ArpQueue])'
  BY <1>2, <1>5, <1>11 DEF ArpOk, AskedFor, WaitOk, Walking
<1>17. /\ GotOk' /\ got' \in [Ports -> Seq(Nat)] /\ QueueOk(M)'
       /\ \A x \in Ports : Taken(M, x)' = Taken(L, x)
  BY <1>1, <1>2, <1>5, <1>8, <1>11, GotQueued
<1>18. RingOk(n)' /\ OrderOk(M, P)'
  <2>1. RingKept
    BY <1>2 DEF RingKept, UdpIn, Off
  <2>2. RingOk(n)'
    BY <1>2, <1>5 DEF RingOk, Off
  <2> QED
    BY <1>2, <1>5, <1>17, <2>1, <2>2, OrderSame
<1>19. CausesOk'
  BY <1>2, <1>5 DEF CausesOk, RepliesOk, ReplyIn
<1>20. HistoryOk'
  BY <1>1, <1>2, <1>17 DEF HistoryOk
<1>21. ListsOk(links', M, V, From')
  BY <1>9, <1>12
<1>22. pc' \in {"idle", "wait", "unqueue"}
  BY <1>2
<1> QED
  BY <1>13, <1>14, <1>15, <1>16, <1>17, <1>18, <1>19, <1>20, <1>21, <1>22, StateNext

(* The pool has no buffer for the receive ring. *)
LEMMA ReceiveNothingSound ==
  ASSUME Sound, NEW q \in Ports, ReceiveNothing(q)
  PROVE  Sound'
<1>1. HistoryOk /\ GotOk /\ (Alive \/ Dead)
  BY DEF Sound
<1>2. /\ pc = "idle" /\ ~CanAllocate
      /\ Stop(IF PoolEmpty(links) THEN "no buffer" ELSE "fault")
  BY DEF ReceiveNothing, MayReceive
<1>3. Alive
  BY <1>1, <1>2 DEF Dead
<1>4. PICK L, W, n, P : StateOk(L, W, n, P)
  BY <1>3 DEF Alive
<1>5. ListsOk(links, L, W, From)
  BY <1>4, Parts
<1>6. PoolEmpty(links)
  BY <1>2, <1>5, PoolFacts DEF CanAllocate
<1>7. Stop("no buffer")
  BY <1>2, <1>6
<1>8. pc' = "no buffer" /\ UNCHANGED <<arrived, accepted, got, dropped>>
  BY <1>7 DEF Stop, history
<1>9. dropped' \in Nat
  BY <1>1, <1>8 DEF HistoryOk
<1> QED
  BY <1>1, <1>8, <1>9, StopSound

(* gmac_rec_raw exchanges the buffer of the oldest frame, which is nowhere *)
(* now, for the pool's first.                                              *)
Exchanged(L, W, n, K, V) ==
  /\ ListsOk(DeleteFirst(links, Pool), K, V, From)
  /\ DeleteFirst(links, Pool).next[ArpQueue] = links.next[ArpQueue]
  /\ SlotsOk(V, rx', tx, held)
  /\ rx' \in [RxSlots -> [buf : Buffers, full : BOOLEAN, frame : Frames]]
  /\ rxIndex' \in RxSlots /\ macRx' \in RxSlots /\ RingOk(n - 1)'
  /\ rx[rxIndex].buf \in Buffers /\ V[rx[rxIndex].buf] = Gone
  /\ Unowned(V) \subseteq Unowned(W) \union {rx[rxIndex].buf}
  /\ \A h \in Lists \ {Pool} : K[h] = L[h] /\ rx[rxIndex].buf \notin Range(L[h])
  /\ ~rx'[rxIndex].full /\ \A i \in RxSlots \ {rxIndex} : rx'[i] = rx[i]

LEMMA RecRawExchanges ==
  ASSUME NEW L, NEW W, NEW n, NEW P, StateOk(L, W, n, P),
         CanAllocate, rx[rxIndex].full, RecRaw
  PROVE  \E K, V : Exchanged(L, W, n, K, V)
<1>1. /\ Types /\ ListsOk(links, L, W, From) /\ SlotsOk(W, rx, tx, held) /\ RingOk(n)
      /\ L \in [Lists -> Seq(Buffers)] /\ DOMAIN W = Buffers
  BY Parts
<1>c. PICK c \in RxSlots : c = rxIndex
  BY <1>1 DEF Types
<1>h. PICK h : h = links.next[Pool]
  OBVIOUS
<1>o. PICK o : o = rx[c].buf
  OBVIOUS
<1>2. /\ rx' = [rx EXCEPT ![c] = [buf |-> h, full |-> FALSE, frame |-> Nothing]]
      /\ rxIndex' = (rxIndex + 1) % RxCount /\ macRx' = macRx
  BY <1>c, <1>h DEF RecRaw
<1>3. /\ rx \in [RxSlots -> [buf : Buffers, full : BOOLEAN, frame : Frames]]
      /\ rxIndex \in RxSlots /\ macRx \in RxSlots
  BY <1>1 DEF Types
<1>4. o \in Buffers /\ W[o] = Rx(c)
  BY <1>1, <1>3, <1>o, SlotOwners
<1>5. L[Pool] # <<>> /\ h \in Buffers /\ W[h] = List(Pool)
  BY <1>1, <1>h, PoolFacts DEF CanAllocate
<1>6. h # o /\ Pool \in Circles /\ \A k \in Lists : Rx(c) # List(k) /\ Gone # List(k)
  BY <1>4, <1>5, HeadFacts, Owners
<1> DEFINE K == [L EXCEPT ![Pool] = Tail(L[Pool])]
           U == [W EXCEPT ![h] = Rx(c)]
           V == [U EXCEPT ![o] = Gone]
           l == DeleteFirst(links, Pool)
<1>7. ListsOk(l, K, U, From) /\ l.next[ArpQueue] = links.next[ArpQueue]
  <2>1. ListsOk(links, L, W, From) /\ L[Pool] # <<>>
    BY <1>1, <1>5
  <2>2. Removes(links, L, W, From, Pool, Rx(c))
    BY <1>6, <2>1, Removed
  <2> QED
    BY <1>h, <2>2 DEF Removes
<1>8. U[o] = Rx(c) /\ U[h] = Rx(c) /\ DOMAIN U = Buffers
      /\ \A b \in Buffers \ {h} : U[b] = W[b]
  BY <1>1, <1>4, <1>5, <1>6
<1>9. \A k \in Lists \ {Pool} : K[k] = L[k]
  BY <1>1
<1> HIDE DEF K, U, l
<1>10. ListsOk(l, K, V, From)
  <2>1. \A k \in Lists : U[o] # List(k)
    BY <1>6, <1>8
  <2> QED
    BY <1>4, <1>6, <1>7, <2>1, Moved
<1>11. V[o] = Gone /\ V[h] = Rx(c) /\ \A b \in Buffers \ {h, o} : V[b] = W[b]
  BY <1>4, <1>5, <1>6, <1>8
<1> HIDE DEF V
<1>12. /\ rx' \in [RxSlots -> [buf : Buffers, full : BOOLEAN, frame : Frames]]
       /\ rx'[c].buf = h /\ ~rx'[c].full /\ \A i \in RxSlots \ {c} : rx'[i] = rx[i]
  <2>1. [buf |-> h, full |-> FALSE, frame |-> Nothing]
          \in [buf : Buffers, full : BOOLEAN, frame : Frames]
    BY <1>5 DEF Frames
  <2> QED
    BY <1>2, <1>3, <2>1
<1>13. SlotsOk(V, rx', tx, held)
  <2>1. Free(W[h]) /\ Free(V[o])
    BY <1>5, <1>11, FreeFacts, HeadFacts
  <2>2. SameBut(W, V, {h, o})
    BY <1>11 DEF SameBut
  <2> QED
    BY <1>1, <1>4, <1>5, <1>11, <1>12, <1>o, <2>1, <2>2, RxExchange
<1>14. rxIndex' \in RxSlots /\ RingOk(n - 1)'
  <2>1. \A i \in RxSlots : rx'[i].full <=> (i # rxIndex /\ rx[i].full)
    BY <1>12, <1>c
  <2> QED
    BY <1>1, <1>2, <2>1, RingRead
<1>15. Unowned(V) \subseteq Unowned(W) \union {o}
  BY <1>11, Owners DEF Unowned
<1>16. ASSUME NEW k \in Lists
       PROVE  o \notin Range(L[k])
  <2>1. ListIs(links, L, W, k)
    BY <1>1, ListFacts
  <2> QED
    BY <1>4, <1>6, <2>1 DEF ListIs
<1>17. Exchanged(L, W, n, K, V)
  BY <1>2, <1>3, <1>4, <1>7, <1>9, <1>10, <1>11, <1>12, <1>13, <1>14, <1>15, <1>16,
     <1>c, <1>o DEF Exchanged, l
<1> QED
  BY <1>17

(* The frame was no packet for a port: the order of the others stays. *)
LEMMA QuietRead ==
  ASSUME HistoryOk, GotOk, NEW L, NEW W, NEW n, NEW P, StateOk(L, W, n, P),
         NEW K, NEW V, Exchanged(L, W, n, K, V), rx[rxIndex].frame.kind # "udp",
         rxIndex' = (rxIndex + 1) % RxCount, accepted' = accepted, got' = got,
         NEW M, \A q \in Ports : M[q] = L[q],
         \A q \in Ports : \A b \in Range(L[q]) : content'[b] = content[b]
  PROVE  OrderOk(M, P)' /\ QueueOk(M)' /\ GotOk'
<1>1. /\ Types /\ OrderOk(L, P) /\ QueueOk(L) /\ L \in [Lists -> Seq(Buffers)]
  BY Parts
<1>c. PICK c \in RxSlots : c = rxIndex
  BY <1>1 DEF Types
<1>2. ~rx'[c].full /\ \A i \in RxSlots \ {c} : rx'[i] = rx[i]
  BY <1>c DEF Exchanged
<1>3. \A i \in RxSlots, q \in Ports : UdpIn(i, q)' <=> UdpIn(i, q)
  BY <1>2, <1>c DEF UdpIn
<1>4. \A i \in RxSlots, q \in Ports : UdpIn(i, q) => i # c
  BY <1>c DEF UdpIn
<1>5. /\ \A i \in RxSlots : Off(i) \in RxSlots
      /\ \A i \in RxSlots \ {c} : Off(i)' = Off(i) - 1
  BY <1>1, <1>c, Offs, OffsMove DEF Types
<1>6. \A j, k \in RxSlots : j - 1 < k - 1 => j < k
  BY NetAssumption DEF RxSlots
<1>7. ASSUME NEW i \in RxSlots, NEW j \in RxSlots, NEW q \in Ports,
             UdpIn(i, q), UdpIn(j, q), Off(i)' < Off(j)'
      PROVE  Off(i) < Off(j)
  <2>1. i # c /\ j # c
    BY <1>4, <1>7
  <2>2. Off(i) - 1 < Off(j) - 1
    BY <1>5, <1>7, <2>1
  <2> QED
    BY <1>5, <1>6, <2>2
<1>8. \A i \in RxSlots, q \in Ports : UdpIn(i, q) => rx'[i].frame.id = rx[i].frame.id
  BY <1>2, <1>4
<1>9. RingKept
  BY <1>3, <1>7, <1>8 DEF RingKept
<1>10. \A q \in Ports : Taken(M, q)' = Taken(L, q)
  BY DEF Taken
<1>11. Extends
  BY ExtendsSame
<1> QED
  BY <1>1, <1>9, <1>10, <1>11, OrderSame, QueueSame, GotSame

(* No answer is new in the ring. *)
LEMMA ReadReplies ==
  ASSUME Types, NEW L, NEW W, NEW n, NEW K, NEW V, Exchanged(L, W, n, K, V)
  PROVE  \A i \in RxSlots, p \in Peers : ReplyIn(i, p)' => ReplyIn(i, p) /\ i # rxIndex
<1>c. PICK c \in RxSlots : c = rxIndex
  BY DEF Types
<1>1. ~rx'[c].full /\ \A i \in RxSlots \ {c} : rx'[i] = rx[i]
  BY <1>c DEF Exchanged
<1>2. ASSUME NEW i \in RxSlots, NEW p \in Peers, ReplyIn(i, p)'
      PROVE  ReplyIn(i, p) /\ i # c
  BY <1>1, <1>2 DEF ReplyIn
<1> QED
  BY <1>2, <1>c

(* One more buffer is lost when the frame is dropped. *)
LEMMA Dropped ==
  ASSUME HistoryOk, NEW W, NEW V, NEW o, LostOk(W), Unowned(V) \subseteq Unowned(W) \union {o},
         dropped' = dropped + 1
  PROVE  LostOk(V)' /\ dropped' \in Nat
<1>1. dropped \in Nat
  BY DEF HistoryOk
<1>2. Cardinality(Unowned(V)) <= dropped + 1
  BY <1>1, LostOne DEF LostOk
<1> QED
  BY <1>1, <1>2 DEF LostOk

(* A frame that is no one's. *)
LEMMA ReceiveOtherSound ==
  ASSUME Sound, NEW q \in Ports, ReceiveOther(q)
  PROVE  Sound'
<1>1. HistoryOk /\ GotOk /\ (Alive \/ Dead)
  BY DEF Sound
<1>2. /\ pc = "idle" /\ rx[rxIndex].full /\ rx[rxIndex].frame.kind = "none"
      /\ CanAllocate /\ RecRaw
      /\ links' = DeleteFirst(links, Pool) /\ dropped' = dropped + 1
      /\ UNCHANGED <<tx, arp, dest, content, held, pc, back, cursor, resolved,
                     got, requests, answered, queuedFor>>
  BY DEF ReceiveOther, MayReceive, threadVars
<1>3. /\ rxIndex' = (rxIndex + 1) % RxCount
      /\ UNCHANGED <<macRx, txIndex, macTx, arrived, accepted, replies>>
  BY <1>2 DEF RecRaw
<1>4. Alive
  BY <1>1, <1>2 DEF Dead
<1>5. PICK L, W, n, P : StateOk(L, W, n, P)
  BY <1>4 DEF Alive
<1>6. Types /\ LostOk(W) /\ ArpOk(L[ArpQueue]) /\ CausesOk
  BY <1>5, Parts
<1>7. PICK K, V : Exchanged(L, W, n, K, V)
  BY <1>2, <1>5, RecRawExchanges
<1>8. /\ ListsOk(DeleteFirst(links, Pool), K, V, From)
      /\ DeleteFirst(links, Pool).next[ArpQueue] = links.next[ArpQueue]
      /\ SlotsOk(V, rx', tx, held)
      /\ rx' \in [RxSlots -> [buf : Buffers, full : BOOLEAN, frame : Frames]]
      /\ rxIndex' \in RxSlots /\ macRx' \in RxSlots /\ RingOk(n - 1)'
      /\ Unowned(V) \subseteq Unowned(W) \union {rx[rxIndex].buf}
      /\ \A h \in Lists \ {Pool} : K[h] = L[h]
  BY <1>7 DEF Exchanged
<1>9. K[ArpQueue] = L[ArpQueue] /\ \A x \in Ports : K[x] = L[x]
  BY <1>8, HeadFacts
<1>10. From' = From
  BY <1>2, <1>8 DEF From, Walking, Ahead
<1>11. ListsOk(links', K, V, From') /\ SlotsOk(V, rx', tx', held')
  BY <1>2, <1>3, <1>8, <1>10
<1>12. LostOk(V)' /\ dropped' \in Nat
  BY <1>1, <1>2, <1>6, <1>8, Dropped
<1>13. Types'
  BY <1>2, <1>3, <1>6, <1>8 DEF Types
<1>14. ArpOk(K[ArpQueue])'
  BY <1>2, <1>6, <1>9 DEF ArpOk, AskedFor, WaitOk, Walking
<1>15. OrderOk(K, P)' /\ QueueOk(K)' /\ GotOk'
  BY <1>1, <1>2, <1>3, <1>5, <1>7, <1>9, QuietRead
<1>16. CausesOk'
  <2>1. \A i \in RxSlots, p \in Peers : ReplyIn(i, p)' => ReplyIn(i, p)
    BY <1>6, <1>7, ReadReplies
  <2> QED
    BY <1>2, <1>3, <1>6, <2>1, CausesSame
<1>17. HistoryOk'
  BY <1>1, <1>2, <1>3, <1>12 DEF HistoryOk
<1>18. pc' \in {"idle", "wait", "unqueue"}
  BY <1>2
<1> QED
  BY <1>8, <1>11, <1>12, <1>13, <1>14, <1>15, <1>16, <1>17, <1>18, StateNext

(* A reply: its address is known, or the thread stops. *)
LEMMA ReplyRead ==
  ASSUME Types, NEW L, NEW W, NEW n, NEW K, NEW V, Exchanged(L, W, n, K, V),
         CausesOk, NEW p \in Peers, ReplyIn(rxIndex, p),
         replies' = replies, answered' = answered, content' = content,
         arp' = [arp EXCEPT ![p] = "known"]
  PROVE  CausesOk'
<1>c. PICK c \in RxSlots : c = rxIndex
  BY DEF Types
<1>1. \A i \in RxSlots, x \in Peers : ReplyIn(i, x)' => ReplyIn(i, x) /\ i # c
  BY <1>c, ReadReplies
<1>2. \A x \in Peers \ {p} : arp'[x] = arp[x]
  BY DEF Types
<1>3. RepliesOk /\ \A b \in Buffers : content[b] = Answer => answered # {}
  BY DEF CausesOk
<1>4. ASSUME NEW x \in Peers
      PROVE  /\ arp'[x] = "known" => replies[x] >= 1
             /\ \A i \in RxSlots : ReplyIn(i, x)' =>
                  /\ replies[x] >= 1
                  /\ arp'[x] = "known" => replies[x] >= 2
                  /\ \A j \in RxSlots : ReplyIn(j, x)' /\ i # j => replies[x] >= 2
  <2>1. CASE x # p
    BY <1>1, <1>2, <1>3, <2>1 DEF RepliesOk
  <2>2. CASE x = p
    <3>1. ReplyIn(c, p)
      BY <1>c
    <3>2. replies[p] >= 1
      BY <1>3, <3>1 DEF RepliesOk
    <3>3. \A i \in RxSlots : ReplyIn(i, p) /\ i # c => replies[p] >= 2
      BY <1>3, <3>1 DEF RepliesOk
    <3> QED
      BY <1>1, <2>2, <3>2, <3>3
  <2> QED
    BY <2>1, <2>2
<1>5. RepliesOk'
  BY <1>4 DEF RepliesOk
<1> QED
  BY <1>3, <1>5 DEF CausesOk

LEMMA ReplyWaited ==
  ASSUME CountsOk, CausesOk, NEW p \in Peers, ReplyIn(rxIndex, p), rxIndex \in RxSlots,
         AskedFor(arp, requests, queuedFor),
         arp \in [Peers -> {"none", "waiting", "known"}], arp[p] # "waiting"
  PROVE  requests[p] > 1 \/ replies[p] > requests[p]
<1>1. requests[p] \in Nat /\ replies[p] \in Nat
  BY DEF CountsOk
<1>2. replies[p] >= 1 /\ (arp[p] = "known" => replies[p] >= 2)
  BY DEF CausesOk, RepliesOk
<1>3. arp[p] = "none" => requests[p] = 0
  BY DEF AskedFor
<1>4. arp[p] = "none" \/ arp[p] = "known"
  OBVIOUS
<1>5. \A m, k \in Nat : (k >= 1 /\ m = 0) \/ k >= 2 => m > 1 \/ k > m
  OBVIOUS
<1> QED
  BY <1>1, <1>2, <1>3, <1>4, <1>5

LEMMA ReceiveReplySound ==
  ASSUME CountsOk, Sound, \A x, y \in queuedFor' : x = y, NEW q \in Ports, ReceiveReply(q)
  PROVE  Sound'
<1>1. HistoryOk /\ GotOk /\ (Alive \/ Dead)
  BY DEF Sound
<1>p. PICK p : p = rx[rxIndex].frame.of
  OBVIOUS
<1>2. /\ pc = "idle" /\ rx[rxIndex].full /\ rx[rxIndex].frame.kind = "reply"
      /\ CanAllocate /\ RecRaw
      /\ links' = DeleteFirst(links, Pool) /\ dropped' = dropped + 1
      /\ UNCHANGED <<tx, dest, content, held, back, got, requests, answered, queuedFor>>
  BY DEF ReceiveReply, MayReceive
<1>3. /\ arp[p] = "waiting" => /\ arp' = [arp EXCEPT ![p] = "known"]
                               /\ resolved' = p
                               /\ cursor' = links'.next[ArpQueue]
                               /\ pc' = "unqueue"
      /\ arp[p] # "waiting" => pc' = "no mapping" /\ UNCHANGED <<arp, resolved, cursor>>
  BY <1>p DEF ReceiveReply
<1>4. /\ rxIndex' = (rxIndex + 1) % RxCount
      /\ UNCHANGED <<macRx, txIndex, macTx, arrived, accepted, replies>>
  BY <1>2 DEF RecRaw
<1>5. Alive
  BY <1>1, <1>2 DEF Dead
<1>6. PICK L, W, n, P : StateOk(L, W, n, P)
  BY <1>5 DEF Alive
<1>7. Types /\ LostOk(W) /\ ArpOk(L[ArpQueue]) /\ CausesOk
  BY <1>6, Parts
<1>8. /\ rx \in [RxSlots -> [buf : Buffers, full : BOOLEAN, frame : Frames]]
      /\ rxIndex \in RxSlots /\ arp \in [Peers -> {"none", "waiting", "known"}]
      /\ requests \in [Peers -> Nat]
  BY <1>7 DEF Types
<1>9. p \in Peers
  <2>1. rx[rxIndex].frame \in Frames
    BY <1>8
  <2> QED
    BY <1>2, <1>p, <2>1 DEF Frames, Udp, ArpFrames, Nothing, Answer
<1>10. ReplyIn(rxIndex, p)
  BY <1>2, <1>p DEF ReplyIn
<1>11. PICK K, V : Exchanged(L, W, n, K, V)
  BY <1>2, <1>6, RecRawExchanges
<1>12. /\ ListsOk(DeleteFirst(links, Pool), K, V, From)
       /\ DeleteFirst(links, Pool).next[ArpQueue] = links.next[ArpQueue]
       /\ SlotsOk(V, rx', tx, held)
       /\ rx' \in [RxSlots -> [buf : Buffers, full : BOOLEAN, frame : Frames]]
       /\ rxIndex' \in RxSlots /\ macRx' \in RxSlots /\ RingOk(n - 1)'
       /\ Unowned(V) \subseteq Unowned(W) \union {rx[rxIndex].buf}
       /\ \A h \in Lists \ {Pool} : K[h] = L[h]
  BY <1>11 DEF Exchanged
<1>13. K[ArpQueue] = L[ArpQueue] /\ \A x \in Ports : K[x] = L[x]
  BY <1>12, HeadFacts
<1>14. LostOk(V)' /\ dropped' \in Nat
  BY <1>1, <1>2, <1>7, <1>12, Dropped
<1>15. OrderOk(K, P)' /\ QueueOk(K)' /\ GotOk'
  BY <1>1, <1>2, <1>4, <1>6, <1>11, <1>13, QuietRead
<1>16. HistoryOk'
  BY <1>1, <1>2, <1>4, <1>14 DEF HistoryOk
<1>17. AskedFor(arp, requests, queuedFor) /\ WaitOk(L[ArpQueue], dest, queuedFor)
  BY <1>7 DEF ArpOk
<1>18. CASE arp[p] # "waiting"
  <2>3. requests[p] > 1 \/ replies[p] > requests[p]
    BY <1>7, <1>8, <1>9, <1>10, <1>17, <1>18, ReplyWaited
  <2>4. pc' = "no mapping"
    BY <1>3, <1>18
  <2>5. Dead'
    BY <1>2, <1>4, <1>9, <2>3, <2>4 DEF Dead
  <2> QED
    BY <1>15, <1>16, <2>5 DEF Sound
<1>19. CASE arp[p] = "waiting"
  <2>1. /\ arp' = [arp EXCEPT ![p] = "known"] /\ resolved' = p
        /\ cursor' = links'.next[ArpQueue] /\ pc' = "unqueue"
    BY <1>3, <1>19
  <2>2. /\ arp'[p] = "known" /\ \A x \in Peers \ {p} : arp'[x] = arp[x]
        /\ arp' \in [Peers -> {"none", "waiting", "known"}]
    BY <1>8, <1>9, <2>1
  <2>3. \A x \in Peers : arp[x] # "known"
    BY <1>2, <1>9, <1>17, <1>19 DEF AskedFor
  <2>4. From = links.next[ArpQueue]
    BY <1>2, <2>3 DEF From, Walking, Ahead
  <2>5. Walking' /\ From' = cursor'
    BY <2>1 DEF From, Walking
  <2>6. From' = From /\ cursor' = From
    BY <1>2, <1>12, <2>1, <2>4, <2>5
  <2>7. ListsOk(links', K, V, From') /\ SlotsOk(V, rx', tx', held')
    BY <1>2, <1>4, <1>12, <2>6
  <2>8. cursor' \in Nodes
    <3>1. links' \in [next : [Nodes -> Nodes], prev : [Nodes -> Nodes]]
      BY <2>7 DEF ListsOk, Linked
    <3>2. ArpQueue \in Nodes
      BY HeadFacts
    <3> QED
      BY <2>1, <3>1, <3>2
  <2>9. Types'
    BY <1>2, <1>4, <1>7, <1>12, <2>2, <2>8 DEF Types
  <2>10. p \in queuedFor
    BY <1>9, <1>17, <1>19 DEF AskedFor
  <2>11. AskedFor(arp, requests, queuedFor)'
    BY <1>2, <1>17, <2>2, <2>10 DEF AskedFor
  <2>12. WaitOk(K[ArpQueue], dest, queuedFor)'
    BY <1>2, <1>13, <1>17 DEF WaitOk
  <2>13. resolved' \in queuedFor' \intersect Peers /\ arp'[resolved'] = "known"
    BY <1>2, <1>9, <2>1, <2>2, <2>10
  <2>14. ArpOk(K[ArpQueue])'
    BY <2>11, <2>12, <2>13 DEF ArpOk
  <2>15. CausesOk'
    BY <1>2, <1>4, <1>7, <1>9, <1>10, <1>11, <2>1, ReplyRead
  <2>17. pc' \in {"idle", "wait", "unqueue"}
    BY <2>1
  <2> QED
    BY <1>12, <1>14, <1>15, <1>16, <2>7, <2>9, <2>14, <2>15, <2>17, StateNext
<1> QED
  BY <1>18, <1>19

(* An ARP request of another host is answered. *)
LEMMA ReceiveRequestSound ==
  ASSUME Sound, \A x, y \in queuedFor' : x = y, NEW q \in Ports, ReceiveRequest(q)
  PROVE  Sound'
<1>1. HistoryOk /\ GotOk /\ (Alive \/ Dead)
  BY DEF Sound
<1>p. PICK p : p = rx[rxIndex].frame.of
  OBVIOUS
<1>l. PICK l : l = DeleteFirst(links, Pool)
  OBVIOUS
<1>r. PICK r : r = rx'
  OBVIOUS
<1>2. /\ pc = "idle" /\ rx[rxIndex].full /\ rx[rxIndex].frame.kind = "request"
      /\ CanAllocate /\ RecRaw
      /\ dropped' = dropped + 1
      /\ answered' = answered \union {p}
      /\ UNCHANGED <<held, cursor, resolved, got>>
  BY <1>p DEF ReceiveRequest, MayReceive
<1>3. IF PoolEmpty(l) \/ Broken(l)
      THEN pc' = IF PoolEmpty(l) THEN "no buffer" ELSE "fault"
      ELSE MacSend(DeleteFirst(l, Pool), l.next[Pool], Answer, p)
  BY <1>p, <1>l DEF ReceiveRequest
<1>4. /\ rxIndex' = (rxIndex + 1) % RxCount
      /\ UNCHANGED <<macRx, txIndex, macTx, arrived, accepted, replies>>
  BY <1>2 DEF RecRaw
<1>5. Alive
  BY <1>1, <1>2 DEF Dead
<1>6. PICK L, W, n, P : StateOk(L, W, n, P)
  BY <1>5 DEF Alive
<1>7. Types /\ LostOk(W) /\ ArpOk(L[ArpQueue]) /\ CausesOk
  BY <1>6, Parts
<1>8. p \in Peers
  <2>1. rx[rxIndex].frame \in Frames
    BY <1>7 DEF Types
  <2> QED
    BY <1>2, <1>p, <2>1 DEF Frames, Udp, ArpFrames, Nothing, Answer
<1>9. PICK K, V : Exchanged(L, W, n, K, V)
  BY <1>2, <1>6, RecRawExchanges
<1>10. /\ ListsOk(l, K, V, From) /\ l.next[ArpQueue] = links.next[ArpQueue]
       /\ SlotsOk(V, r, tx, held)
       /\ rx' \in [RxSlots -> [buf : Buffers, full : BOOLEAN, frame : Frames]]
       /\ rxIndex' \in RxSlots /\ macRx' \in RxSlots /\ RingOk(n - 1)'
       /\ Unowned(V) \subseteq Unowned(W) \union {rx[rxIndex].buf}
       /\ \A h \in Lists \ {Pool} : K[h] = L[h]
  BY <1>9, <1>l, <1>r DEF Exchanged
<1>11. K[ArpQueue] = L[ArpQueue] /\ \A x \in Ports : K[x] = L[x]
  BY <1>10, HeadFacts
<1>12. dropped' \in Nat
  BY <1>1, <1>2 DEF HistoryOk
<1>13. CASE PoolEmpty(l)
  <2>1. pc' = "no buffer"
    BY <1>3, <1>13
  <2> QED
    BY <1>1, <1>2, <1>4, <1>12, <2>1, StopSound
<1>14. CASE ~PoolEmpty(l)
  <2>1. ~Broken(l)
    BY <1>10, <1>14, PoolFacts
  <2> DEFINE b == l.next[Pool]
             m == DeleteFirst(l, Pool)
             J == [K EXCEPT ![Pool] = Tail(K[Pool])]
             U == [V EXCEPT ![b] = Gone]
  <2>2. MacSend(m, b, Answer, p)
    BY <1>3, <1>14, <2>1
  <2>3. ListsOk(l, K, V, Ahead(arp, l))
    <3>1. From = Ahead(arp, l)
      BY <1>2, <1>10 DEF From, Walking, Ahead
    <3> QED
      BY <1>10, <3>1
  <2>4. AskedFor(arp, requests, queuedFor) /\ WaitOk(K[ArpQueue], dest, queuedFor)
    BY <1>7, <1>11 DEF ArpOk
  <2>5. b \in Buffers /\ InHand(m, J, U, r, b)
    BY <1>7, <1>10, <1>14, <2>3, <2>4, TakeInHand
  <2>6. \A x \in Ports : J[x] = L[x]
    BY <1>10, <1>11, HeadFacts DEF ListsOk
  <2>7. Unowned(U) \ {b} \subseteq Unowned(V)
    BY <1>10 DEF Unowned, ListsOk
  <2> HIDE DEF b, m, J, U
  <2>8. \/ pc' \in {"tx error", "no buffer", "bad length"}
        \/ /\ pc' = "wait" /\ back' = "idle"
           /\ \E M, X : Dispatched(J, U, r, b, Answer, M, X)
    <3>1. Answer \in Frames
      BY DEF Frames
    <3> QED
      BY <1>8, <2>2, <2>5, <3>1, MacSends
  <2>9. CASE pc' \in {"tx error", "no buffer", "bad length"}
    BY <1>1, <1>2, <1>4, <1>12, <2>9, StopSound
  <2>10. ASSUME NEW M, NEW X, Dispatched(J, U, r, b, Answer, M, X), pc' = "wait", back' = "idle"
         PROVE  Sound'
    <3>1. \A i \in RxSlots, x \in Peers : ReplyIn(i, x)' => ReplyIn(i, x)
      BY <1>7, <1>9, ReadReplies
    <3>2. /\ \A x \in Ports : \A c \in Range(J[x]) : content'[c] = content[c]
          /\ CausesOk'
      <4>1. answered \subseteq answered' /\ answered' # {}
        BY <1>2
      <4> QED
        BY <1>4, <1>7, <2>5, <2>10, <3>1, <4>1, DispatchedRest
    <3>4. Unowned(X) \subseteq Unowned(U) \ {b} /\ \A x \in Ports : M[x] = J[x]
      BY <2>10 DEF Dispatched
    <3>5. GotOk' /\ OrderOk(M, P)' /\ QueueOk(M)'
      <4>1. \A x \in Ports : M[x] = L[x]
        BY <2>6, <3>4
      <4>2. \A x \in Ports : \A c \in Range(L[x]) : content'[c] = content[c]
        BY <2>6, <3>2
      <4> QED
        BY <1>1, <1>2, <1>4, <1>6, <1>9, <4>1, <4>2, QuietRead
    <3>6. LostOk(X)'
      <4>1. Unowned(X) \subseteq Unowned(W) \union {rx[rxIndex].buf}
        BY <1>10, <2>7, <3>4
      <4> QED
        BY <1>1, <1>2, <1>7, <4>1, Dropped
    <3>7. HistoryOk'
      BY <1>1, <1>2, <1>4, <1>12 DEF HistoryOk
    <3>8. Dispatched(J, U, rx', b, Answer, M, X)
      BY <1>r, <2>10
    <3>9. UNCHANGED <<held, cursor, resolved, txIndex, macTx>>
      BY <1>2, <1>4
    <3> QED
      BY <1>7, <1>10, <2>10, <3>2, <3>5, <3>6, <3>7, <3>8, <3>9, DispatchedNext
  <2> QED
    BY <2>8, <2>9, <2>10
<1> QED
  BY <1>13, <1>14

(* What comes after the first node of a list was in it. *)
LEMMA TailRange ==
  ASSUME NEW S, NEW s \in Seq(S), s # <<>>
  PROVE  Range(Tail(s)) \subseteq Range(s)
<1>1. /\ Tail(s) \in Seq(S) /\ Len(Tail(s)) = Len(s) - 1 /\ Len(s) \in Nat
      /\ \A i \in 1 .. Len(s) - 1 : Tail(s)[i] = s[i + 1]
  BY HeadTailProperties, LenProperties
<1>2. DOMAIN s = 1 .. Len(s) /\ DOMAIN Tail(s) = 1 .. Len(s) - 1
  BY <1>1, LenProperties
<1>3. ASSUME NEW i \in DOMAIN Tail(s)
      PROVE  i + 1 \in DOMAIN s /\ Tail(s)[i] = s[i + 1]
  BY <1>1, <1>2
<1> QED
  BY <1>3 DEF Range

(* mac_unqueue: a packet for the address is sent, or the walk ends.        *)
LEMMA UnqueueSound ==
  ASSUME Sound, \A x, y \in queuedFor : x = y, Unqueue
  PROVE  Sound'
<1>1. HistoryOk /\ GotOk /\ (Alive \/ Dead)
  BY DEF Sound
<1>2. /\ pc = "unqueue"
      /\ UNCHANGED <<rx, rxIndex, macRx, txIndex, macTx, arp, dest, content, held>>
      /\ UNCHANGED <<resolved, arrived, accepted, got, requests, replies>>
      /\ UNCHANGED <<answered, queuedFor, dropped>>
  BY DEF Unqueue, history
<1>3. \/ /\ cursor \in Buffers /\ dest[cursor] = resolved
         /\ SendRaw(links, cursor, content[cursor], "unqueue") /\ cursor' = links'.next[cursor]
      \/ cursor \in Buffers /\ dest[cursor] # resolved
      \/ /\ cursor \notin Buffers
         /\ pc' = CASE cursor = ArpQueue -> "idle"
                    [] cursor = Null -> "fault"
                    [] OTHER -> "hang"
         /\ UNCHANGED <<links, tx, back, cursor>>
  BY DEF Unqueue
<1>4. Alive
  BY <1>1, <1>2 DEF Dead
<1>5. PICK L, W, n, P : StateOk(L, W, n, P)
  BY <1>4 DEF Alive
<1>6. /\ Types
      /\ ListsOk(links, L, W, From) /\ SlotsOk(W, rx, tx, held) /\ LostOk(W)
      /\ ArpOk(L[ArpQueue])
      /\ RingOk(n) /\ OrderOk(L, P) /\ QueueOk(L) /\ CausesOk
      /\ L \in [Lists -> Seq(Buffers)] /\ DOMAIN W = Buffers
  BY <1>5, Parts
<1>7. Walking /\ From = cursor
  BY <1>2 DEF Walking, From
<1>8. resolved \in queuedFor \intersect Peers /\ arp[resolved] = "known"
      /\ WaitOk(L[ArpQueue], dest, queuedFor)
      /\ AskedFor(arp, requests, queuedFor)
  BY <1>6, <1>7 DEF ArpOk
<1>9. HistoryOk'
  BY <1>1, <1>2 DEF HistoryOk
<1>10. dropped \in Nat
  BY <1>1 DEF HistoryOk
<1>11. CASE cursor \notin Buffers
  <2>1. Path(links.next, cursor, ArpQueue, L[ArpQueue])
    BY <1>6, <1>7 DEF ListsOk
  <2>2. cursor = ArpQueue
    <3>1. ArpQueue \in Lists
      BY HeadFacts
    <3>2. L[ArpQueue] \in Seq(Buffers)
      BY <1>6, <3>1
    <3>3. cursor # ArpQueue => cursor \in Range(L[ArpQueue])
      BY <2>1, <3>2, PathTail
    <3>4. Range(L[ArpQueue]) \subseteq Buffers
      <4>1. ListIs(links, L, W, ArpQueue)
        BY <1>6, <3>1, ListFacts
      <4> QED
        BY <4>1 DEF ListIs
    <3> QED
      BY <1>11, <3>3, <3>4
  <2>3. pc' = "idle" /\ UNCHANGED <<links, tx, back, cursor>>
    <3>1. ArpQueue # Null
      BY HeadFacts
    <3>2. /\ pc' = CASE cursor = ArpQueue -> "idle"
                     [] cursor = Null -> "fault"
                     [] OTHER -> "hang"
          /\ UNCHANGED <<links, tx, back, cursor>>
      BY <1>3, <1>11
    <3> QED
      BY <2>2, <3>1, <3>2
  <2>4. From' = From
    <3>1. resolved \in Peers
      BY <1>8
    <3>2. Ahead(arp', links') = ArpQueue
      <4>1. \E x \in Peers : arp'[x] = "known"
        BY <1>2, <1>8, <3>1
      <4> QED
        BY <4>1 DEF Ahead
    <3>3. ~Walking'
      BY <2>3 DEF Walking
    <3> QED
      BY <1>7, <2>2, <3>2, <3>3 DEF From, Ahead
  <2>5. ListsOk(links', L, W, From') /\ SlotsOk(W, rx', tx', held')
    BY <1>2, <1>6, <2>3, <2>4
  <2>6. Types' /\ LostOk(W)'
    BY <1>2, <1>6, <2>3 DEF Types, LostOk
  <2>7. ~Walking'
    BY <2>3 DEF Walking
  <2>8. ArpOk(L[ArpQueue])'
    BY <1>2, <1>8, <2>7 DEF ArpOk, AskedFor, WaitOk
  <2>9. GotOk' /\ RingOk(n)' /\ OrderOk(L, P)' /\ QueueOk(L)'
    BY <1>1, <1>2, <1>6, QuietRing
  <2>10. CausesOk'
    BY <1>2, <1>6, <2>3 DEF CausesOk, RepliesOk, ReplyIn
  <2>11. pc' \in {"idle", "wait", "unqueue"}
    BY <2>3
  <2> QED
    BY <1>9, <2>5, <2>6, <2>8, <2>9, <2>10, <2>11, StateNext
<1>12. CASE cursor \in Buffers
  <2>b. PICK b \in Buffers : b = cursor
    BY <1>12
  <2>f. PICK f : f = links.next[b]
    OBVIOUS
  <2>1. ListsOk(links, L, W, b) /\ \A k \in Lists : Gone # List(k)
    BY <1>6, <1>7, <2>b, Owners
  <2> DEFINE K == [L EXCEPT ![ArpQueue] = Tail(L[ArpQueue])]
             U == [W EXCEPT ![b] = Gone]
  <2>2. /\ W[b] = List(ArpQueue) /\ b \in Range(L[ArpQueue]) /\ L[ArpQueue] # <<>>
        /\ ListsOk(links, K, U, f)
    BY <2>1, <2>f, Walked
  <2>3. dest[b] = resolved
    BY <1>2, <1>8, <2>2 DEF WaitOk
  <2>4. SendRaw(links, b, content[b], "unqueue") /\ cursor' = links'.next[b]
    BY <1>3, <2>3, <2>b
  <2>5. U[b] = Gone /\ \A c \in Buffers \ {b} : U[c] = W[c]
    BY <1>6
  <2>6. K[ArpQueue] = Tail(L[ArpQueue]) /\ \A x \in Ports : K[x] = L[x]
    BY <1>6, HeadFacts
  <2>7. Range(K[ArpQueue]) \subseteq Range(L[ArpQueue])
    BY <1>6, <2>2, <2>6, HeadFacts, TailRange
  <2> HIDE DEF K, U
  <2>8. SlotsOk(U, rx, tx, held)
    <3>1. Free(W[b]) /\ Free(U[b])
      BY <2>2, <2>5, FreeFacts, HeadFacts
    <3>2. SameBut(W, U, {})
      BY <2>5, <3>1 DEF SameBut
    <3> QED
      BY <1>6, <3>2, SlotsSame
  <2>9. \/ pc' = "tx error" \/ (pc' = "bad length" /\ content[b] = Answer)
        \/ /\ pc' = "wait" /\ back' = "unqueue"
           /\ \E M, V : Sends(links, K, U, f, b, rx, held, M, V)
    <3>1. tx \in [TxSlots -> [buf : Buffers, mac : BOOLEAN]] /\ txIndex \in TxSlots
      BY <1>6 DEF Types
    <3> QED
      BY <2>2, <2>4, <2>5, <2>8, <3>1, SendRawSends
  <2>10. CASE pc' = "tx error" \/ (pc' = "bad length" /\ content[b] = Answer)
    <3>1. content[b] = Answer => answered' # {}
      BY <1>2, <1>6 DEF CausesOk
    <3> QED
      BY <1>1, <1>2, <1>10, <2>10, <3>1, StopSound
  <2>11. ASSUME NEW M, NEW V, Sends(links, K, U, f, b, rx, held, M, V),
                pc' = "wait", back' = "unqueue"
         PROVE  Sound'
    <3>1. /\ ListsOk(links', M, V, f) /\ SlotsOk(V, rx, tx', held)
          /\ tx' \in [TxSlots -> [buf : Buffers, mac : BOOLEAN]]
          /\ tx'[txIndex].buf = b /\ \A i \in TxSlots \ {txIndex} : tx'[i] = tx[i]
          /\ Unowned(V) \subseteq Unowned(U) /\ b \notin Unowned(V)
          /\ \A h \in Lists \ {Pool} : M[h] = K[h]
          /\ links'.next[b] = links.next[b]
      BY <2>11 DEF Sends
    <3>2. Walking' /\ From' = f
      BY <2>4, <2>11, <2>f, <3>1 DEF Walking, From
    <3>3. ListsOk(links', M, V, From') /\ SlotsOk(V, rx', tx', held')
      BY <1>2, <3>1, <3>2
    <3>4. cursor' \in Nodes
      BY <2>4, <3>1, HeadFacts DEF ListsOk, Linked
    <3>5. Types'
      BY <1>2, <1>6, <2>11, <3>1, <3>4 DEF Types
    <3>6. M[ArpQueue] = K[ArpQueue] /\ \A x \in Ports : M[x] = L[x]
      BY <2>6, <3>1, HeadFacts
    <3>7. LostOk(V)'
      <4>1. Unowned(V) \subseteq Unowned(W)
        BY <2>5, <3>1 DEF Unowned
      <4>2. Cardinality(Unowned(V)) <= dropped
        BY <1>6, <1>10, <4>1, LostSame DEF LostOk
      <4> QED
        BY <1>2, <4>2 DEF LostOk
    <3>8. ArpOk(M[ArpQueue])'
      <4>1. WaitOk(M[ArpQueue], dest, queuedFor)
        BY <1>8, <2>7, <3>6 DEF WaitOk
      <4> QED
        BY <1>2, <1>8, <4>1 DEF ArpOk, AskedFor, WaitOk
    <3>9. GotOk' /\ RingOk(n)' /\ OrderOk(M, P)' /\ QueueOk(M)'
      BY <1>1, <1>2, <1>6, <3>6, QuietRing
    <3>10. CausesOk'
      BY <1>2, <1>6 DEF CausesOk, RepliesOk, ReplyIn
    <3>11. pc' \in {"idle", "wait", "unqueue"}
      BY <2>11
    <3> QED
      BY <1>9, <3>3, <3>5, <3>7, <3>8, <3>9, <3>10, <3>11, StateNext
  <2> QED
    BY <2>9, <2>10, <2>11
<1> QED
  BY <1>11, <1>12

(* A packet joins the queue of its port, whose next frame it is. *)
LEMMA QueueGrows ==
  ASSUME HistoryOk, NEW L, NEW M, NEW P, L \in [Lists -> Seq(Buffers)],
         OrderOk(L, P), QueueOk(L), NEW h \in Ports, NEW b \in Buffers, NEW f,
         content \in [Buffers -> Frames], content' = [content EXCEPT ![b] = f],
         \A q \in Ports : b \notin Range(L[q]),
         f.id = accepted[h][Taken(L, h) + 1], accepted' = accepted, got' = got,
         M[h] = Append(L[h], b), \A x \in Ports \ {h} : M[x] = L[x]
  PROVE  /\ QueueOk(M)'
         /\ Counts(L, M, h)
<1>1. L[h] \in Seq(Buffers) /\ h \in Lists
  BY HeadFacts
<1>2. /\ Len(got[h]) \in Nat /\ Len(L[h]) \in Nat
      /\ Taken(L, h) = Len(got[h]) + Len(L[h])
  BY Lengths
<1>3. /\ Append(L[h], b) \in Seq(Buffers) /\ Len(Append(L[h], b)) = Len(L[h]) + 1
      /\ \A k \in 1 .. Len(L[h]) : Append(L[h], b)[k] = L[h][k]
      /\ Append(L[h], b)[Len(L[h]) + 1] = b
  BY <1>1, AppendProperties
<1>4. content'[b] = f /\ \A c \in Buffers \ {b} : content'[c] = content[c]
  OBVIOUS
<1>5. ASSUME NEW x \in Ports, NEW k \in 1 .. Len(L[x])
      PROVE  content'[L[x][k]].id = accepted[x][Len(got[x]) + k]
  <2>1. L[x] \in Seq(Buffers)
    BY <1>5, HeadFacts
  <2>2. Places(Buffers, L[x], x)
    BY <2>1, AtRange
  <2>3. L[x][k] \in Range(L[x]) /\ L[x][k] \in Buffers
    BY <1>5, <2>2 DEF Places
  <2>4. content'[L[x][k]] = content[L[x][k]]
    BY <1>4, <2>3
  <2> QED
    BY <1>5, <2>4 DEF QueueOk
<1>6. ASSUME NEW x \in Ports, NEW k \in 1 .. Len(M[x])
      PROVE  content'[M[x][k]].id = accepted[x][Len(got[x]) + k]
  <2>1. CASE x # h
    <3>1. M[x] = L[x]
      BY <2>1
    <3> QED
      BY <1>5, <1>6, <3>1
  <2>2. CASE x = h
    <3>1. \A m \in Nat : \A i \in 1 .. m + 1 : i \in 1 .. m \/ i = m + 1
      OBVIOUS
    <3>2. k \in 1 .. Len(L[h]) \/ k = Len(L[h]) + 1
      BY <1>2, <1>3, <2>2, <3>1
    <3>3. CASE k \in 1 .. Len(L[h])
      <4>1. M[x][k] = L[h][k]
        BY <1>3, <2>2, <3>3
      <4> QED
        BY <1>5, <2>2, <3>3, <4>1
    <3>4. CASE k = Len(L[h]) + 1
      <4>1. M[x][k] = b
        BY <1>3, <2>2, <3>4
      <4>2. \A g, m \in Nat : g + (m + 1) = g + m + 1
        OBVIOUS
      <4>3. Len(got[h]) + k = Taken(L, h) + 1
        BY <1>2, <3>4, <4>2
      <4> QED
        BY <1>4, <2>2, <4>1, <4>3
    <3> QED
      BY <3>2, <3>3, <3>4
  <2> QED
    BY <2>1, <2>2
<1>7. QueueOk(M)'
  BY <1>6 DEF QueueOk
<1>8. ASSUME NEW x \in Ports
      PROVE  Taken(M, x)' = IF x = h THEN Taken(L, x) + 1 ELSE Taken(L, x)
  <2>1. CASE x # h
    BY <2>1 DEF Taken
  <2>2. CASE x = h
    <3>1. \A g, m \in Nat : g + (m + 1) = g + m + 1
      OBVIOUS
    <3>2. Taken(M, x)' = Len(got[h]) + (Len(L[h]) + 1)
      BY <1>3, <2>2 DEF Taken
    <3> QED
      BY <1>2, <2>2, <3>1, <3>2
  <2> QED
    BY <2>1, <2>2
<1> QED
  BY <1>7, <1>8 DEF Counts

(* The reader of an empty port gets its packet at once. *)
LEMMA GotRead ==
  ASSUME HistoryOk, GotOk, NEW L, NEW M, NEW P, L \in [Lists -> Seq(Buffers)],
         OrderOk(L, P), QueueOk(L), NEW h \in Ports, L[h] = <<>>, NEW b \in Buffers, NEW f,
         content \in [Buffers -> Frames], content' = [content EXCEPT ![b] = f],
         \A q \in Ports : b \notin Range(L[q]),
         Taken(L, h) + 1 <= Len(accepted[h]), f.id = accepted[h][Taken(L, h) + 1],
         accepted' = accepted, got' = [got EXCEPT ![h] = Append(@, f.id)],
         \A x \in Ports : M[x] = L[x]
  PROVE  /\ GotOk' /\ got' \in [Ports -> Seq(Nat)] /\ QueueOk(M)'
         /\ Counts(L, M, h)
<1>1. /\ Len(got[h]) \in Nat /\ Len(L[h]) = 0
      /\ Taken(L, h) = Len(got[h]) + Len(L[h])
  BY Lengths
<1>2. Taken(L, h) = Len(got[h])
  BY <1>1
<1>3. /\ GotOk' /\ got' \in [Ports -> Seq(Nat)]
      /\ Len(got'[h]) = Len(got[h]) + 1
      /\ \A x \in Ports \ {h} : got'[x] = got[x]
  BY <1>2, GotNext
<1>4. content'[b] = f /\ \A c \in Buffers \ {b} : content'[c] = content[c]
  OBVIOUS
<1>5. ASSUME NEW x \in Ports, NEW k \in 1 .. Len(L[x])
      PROVE  content'[L[x][k]].id = accepted[x][Len(got'[x]) + k]
  <2>1. x # h
    BY <1>1, <1>5
  <2>2. L[x] \in Seq(Buffers)
    BY <1>5, HeadFacts
  <2>3. Places(Buffers, L[x], x)
    BY <2>2, AtRange
  <2>4. L[x][k] \in Range(L[x]) /\ L[x][k] \in Buffers
    BY <1>5, <2>3 DEF Places
  <2>5. content'[L[x][k]] = content[L[x][k]] /\ got'[x] = got[x]
    BY <1>3, <1>4, <2>1, <2>4
  <2> QED
    BY <1>5, <2>5 DEF QueueOk
<1>6. QueueOk(M)'
  BY <1>5 DEF QueueOk
<1>7. ASSUME NEW x \in Ports
      PROVE  Taken(M, x)' = IF x = h THEN Taken(L, x) + 1 ELSE Taken(L, x)
  <2>1. CASE x # h
    BY <1>3, <2>1 DEF Taken
  <2>2. CASE x = h
    <3>1. Taken(M, x)' = (Len(got[h]) + 1) + 0
      BY <1>1, <1>3, <2>2 DEF Taken
    <3> QED
      BY <1>1, <1>2, <2>2, <3>1
  <2> QED
    BY <2>1, <2>2
<1> QED
  BY <1>3, <1>6, <1>7 DEF Counts

(* A packet of a port is read: it is queued, or its reader has it. *)
LEMMA ReceiveUdpSound ==
  ASSUME Sound, NEW q \in Ports, ReceiveUdp(q)
  PROVE  Sound'
<1>1. HistoryOk /\ GotOk /\ (Alive \/ Dead)
  BY DEF Sound
<1>f. PICK f : f = rx[rxIndex].frame
  OBVIOUS
<1>o. PICK o : o = rx[rxIndex].buf
  OBVIOUS
<1>l. PICK l : l = DeleteFirst(links, Pool)
  OBVIOUS
<1>2. /\ pc = "idle" /\ rx[rxIndex].full /\ f.kind = "udp" /\ links.next[q] = q
      /\ CanAllocate /\ RecRaw
      /\ content' = [content EXCEPT ![o] = f]
      /\ UNCHANGED <<tx, arp, dest, requests, answered, queuedFor, dropped>>
      /\ UNCHANGED <<pc, back, cursor, resolved>>
  BY <1>f, <1>o DEF ReceiveUdp, MayReceive, threadVars
<1>3. /\ links' = IF f.of = q THEN DeleteFirst(AddLast(l, o, f.of), q)
                  ELSE AddLast(l, o, f.of)
      /\ got' = IF f.of = q THEN [got EXCEPT ![q] = Append(@, f.id)] ELSE got
      /\ held' = IF f.of = q THEN held \union {o} ELSE held
  BY <1>f, <1>o, <1>l DEF ReceiveUdp, RecRaw
<1>4. /\ rxIndex' = (rxIndex + 1) % RxCount
      /\ UNCHANGED <<macRx, txIndex, macTx, arrived, accepted, replies>>
  BY <1>2 DEF RecRaw
<1>5. Alive
  BY <1>1, <1>2 DEF Dead
<1>6. PICK L, W, n, P : StateOk(L, W, n, P)
  BY <1>5 DEF Alive
<1>7. /\ Types /\ ListsOk(links, L, W, From) /\ LostOk(W) /\ ArpOk(L[ArpQueue])
      /\ CausesOk /\ OrderOk(L, P) /\ QueueOk(L) /\ L \in [Lists -> Seq(Buffers)]
  BY <1>6, Parts
<1>8. PICK K, V : Exchanged(L, W, n, K, V)
  BY <1>2, <1>6, RecRawExchanges
<1>9. /\ ListsOk(l, K, V, From) /\ l.next[ArpQueue] = links.next[ArpQueue]
      /\ SlotsOk(V, rx', tx, held)
      /\ rx' \in [RxSlots -> [buf : Buffers, full : BOOLEAN, frame : Frames]]
      /\ rxIndex' \in RxSlots /\ macRx' \in RxSlots /\ RingOk(n - 1)'
      /\ o \in Buffers /\ V[o] = Gone
      /\ Unowned(V) \subseteq Unowned(W) \union {o}
      /\ \A x \in Lists \ {Pool} : K[x] = L[x] /\ o \notin Range(L[x])
  BY <1>8, <1>l, <1>o DEF Exchanged
<1>10. f \in Udp
  <2>1. f \in Frames
    BY <1>7, <1>f DEF Types
  <2> QED
    BY <1>2, <2>1 DEF Frames, ArpFrames, Nothing, Answer
<1>h. PICK h \in Ports : h = f.of
  BY <1>10 DEF Udp
<1>11. /\ h \in Circles /\ h \in Lists /\ h # Pool /\ h # ArpQueue /\ ArpQueue \in Lists
       /\ ArpQueue # Pool
       /\ \A x \in Ports : x \in Lists /\ x # Pool
  BY HeadFacts
<1>12. /\ \A x \in Ports : o \notin Range(L[x])
       /\ K[ArpQueue] = L[ArpQueue] /\ o \notin Range(L[ArpQueue])
       /\ \A x \in Ports : K[x] = L[x]
  BY <1>9, <1>11
<1>13. /\ Taken(L, h) + 1 <= Len(accepted[h]) /\ f.id = accepted[h][Taken(L, h) + 1]
       /\ \A M : Counts(L, M, h) => OrderOk(M, P)'
  <2>1. ~rx'[rxIndex].full /\ \A i \in RxSlots \ {rxIndex} : rx'[i] = rx[i]
    BY <1>8 DEF Exchanged
  <2>2. ASSUME NEW M
        PROVE  /\ Counts(L, M, f.of) => OrderOk(M, P)'
               /\ Taken(L, f.of) + 1 <= Len(accepted[f.of])
               /\ f.id = accepted[f.of][Taken(L, f.of) + 1]
    <3>1. /\ HistoryOk /\ L \in [Lists -> Seq(Buffers)] /\ OrderOk(L, P)
          /\ Types /\ rx[rxIndex].full
          /\ rxIndex' = (rxIndex + 1) % RxCount /\ accepted' = accepted
      BY <1>1, <1>2, <1>4, <1>7
    <3> QED
      BY <1>10, <1>f, <2>1, <3>1, OrderReads
  <2> QED
    BY <1>h, <2>2
<1>14. content \in [Buffers -> Frames] /\ content' \in [Buffers -> Frames]
  BY <1>2, <1>7, <1>10 DEF Types, Frames
<1> DEFINE J == [K EXCEPT ![h] = Append(K[h], o)]
           U == [V EXCEPT ![o] = List(h)]
           m == AddLast(l, o, h)
<1>15. ListsOk(m, J, U, From) /\ m.next[ArpQueue] = l.next[ArpQueue]
  <2>1. \A k \in Lists : V[o] # List(k)
    BY <1>9, Owners
  <2>2. ListsOk(l, K, V, From) /\ o \in Buffers
    BY <1>9
  <2> QED
    BY <2>1, <2>2, Queued
<1>16. /\ U[o] = List(h) /\ \A b \in Buffers \ {o} : U[b] = V[b]
       /\ J \in [Lists -> Seq(Buffers)] /\ DOMAIN U = Buffers
  BY <1>9, <1>15 DEF ListsOk
<1>17. /\ J[h] = Append(L[h], o) /\ \A x \in Ports \ {h} : J[x] = L[x]
       /\ J[ArpQueue] = L[ArpQueue]
  <2>1. DOMAIN K = Lists
    BY <1>9 DEF ListsOk
  <2> QED
    BY <1>11, <1>12, <2>1
<1>m. m = AddLast(l, o, h)
  OBVIOUS
<1> HIDE DEF J, U, m
<1>18. CausesOk'
  <2>1. \A i \in RxSlots, p \in Peers : ReplyIn(i, p)' => ReplyIn(i, p)
    BY <1>7, <1>8, ReadReplies
  <2>2. \A b \in Buffers : content'[b] = Answer => content[b] = Answer
    <3>1. f # Answer
      BY <1>2 DEF Answer
    <3> QED
      BY <1>2, <1>14, <3>1
  <2> QED
    BY <1>2, <1>4, <1>7, <2>1, <2>2, CausesSame
<1>19. ASSUME links'.next[ArpQueue] = l.next[ArpQueue] PROVE From' = From
  BY <1>2, <1>9, <1>19 DEF From, Walking, Ahead
<1>20. ASSUME NEW M, M[ArpQueue] = L[ArpQueue] PROVE ArpOk(M[ArpQueue])'
  BY <1>2, <1>7, <1>20 DEF ArpOk, AskedFor, WaitOk, Walking
<1>21. pc' \in {"idle", "wait", "unqueue"} /\ dropped \in Nat /\ dropped' = dropped
  BY <1>1, <1>2 DEF HistoryOk
<1>22. CASE h # q
  <2>1. links' = m /\ got' = got /\ held' = held
    BY <1>3, <1>22, <1>h, <1>m
  <2>2. QueueOk(J)' /\ Counts(L, J, h)
    BY <1>1, <1>2, <1>4, <1>7, <1>9, <1>12, <1>13, <1>14, <1>17, <2>1, QueueGrows
  <2>3. Extends /\ GotOk'
    BY <1>1, <1>4, <2>1, ExtendsSame, GotSame
  <2>4. HistoryOk'
    BY <1>1, <1>2, <1>4, <2>1 DEF HistoryOk
  <2>5. SlotsOk(U, rx', tx', held')
    <3>1. Free(V[o]) /\ Free(U[o])
      BY <1>9, <1>11, <1>16, FreeFacts
    <3>2. SameBut(V, U, {})
      BY <1>16, <3>1 DEF SameBut
    <3>3. SlotsOk(U, rx', tx, held)
      BY <1>9, <3>2, SlotsSame
    <3> QED
      BY <1>2, <2>1, <3>3
  <2>6. LostOk(U)'
    <3>1. Unowned(U) \subseteq Unowned(W)
      BY <1>9, <1>16, Owners DEF Unowned
    <3>2. Cardinality(Unowned(U)) <= dropped
      BY <1>7, <1>21, <3>1, LostSame DEF LostOk
    <3> QED
      BY <1>21, <3>2 DEF LostOk
  <2>7. ListsOk(links', J, U, From')
    BY <1>15, <1>19, <2>1
  <2>8. Types'
    BY <1>2, <1>4, <1>7, <1>9, <1>14, <2>1 DEF Types
  <2>9. OrderOk(J, P)' /\ ArpOk(J[ArpQueue])'
    BY <1>13, <1>17, <1>20, <2>2
  <2> QED
    BY <1>9, <1>18, <1>21, <2>2, <2>3, <2>4, <2>5, <2>6, <2>7, <2>8, <2>9, StateNext
<1>23. CASE h = q
  <2>1. /\ links' = DeleteFirst(m, h) /\ held' = held \union {o}
        /\ got' = [got EXCEPT ![h] = Append(@, f.id)]
    BY <1>3, <1>23, <1>h, <1>m
  <2>2. L[h] = <<>>
    <3>1. FirstIs(links, L, W, h)
      BY <1>7, <1>11, FirstFacts
    <3> QED
      BY <1>2, <1>23, <3>1 DEF FirstIs
  <2>3. /\ J[h] # <<>> /\ J[h][1] = o /\ Tail(J[h]) = <<>>
    <3>1. <<>> \in Seq(Buffers) /\ Len(<<>>) = 0
      BY EmptySeq
    <3>2. /\ J[h] \in Seq(Buffers) /\ Len(J[h]) = 1 /\ J[h][1] = o
      BY <1>9, <1>17, <2>2, <3>1, AppendProperties
    <3>3. J[h] # <<>>
      BY <3>1, <3>2
    <3>4. Tail(J[h]) \in Seq(Buffers) /\ Len(Tail(J[h])) = 0
      BY <3>2, <3>3, HeadTailProperties
    <3> QED
      BY <3>2, <3>3, <3>4, EmptySeq
  <2>4. m.next[h] = o
    <3>1. FirstIs(m, J, U, h)
      BY <1>11, <1>15, FirstFacts
    <3> QED
      BY <2>3, <3>1 DEF FirstIs
  <2> DEFINE M == [J EXCEPT ![h] = Tail(J[h])]
             Y == [U EXCEPT ![o] = Held]
  <2>5. ListsOk(links', M, Y, From) /\ links'.next[ArpQueue] = l.next[ArpQueue]
    <3>1. \A k \in Lists : Held # List(k)
      BY Owners
    <3>2. Removes(m, J, U, From, h, Held)
      BY <1>11, <1>15, <2>3, <3>1, Removed
    <3> QED
      BY <1>15, <2>1, <2>4, <3>2 DEF Removes
  <2>6. Y[o] = Held /\ \A b \in Buffers \ {o} : Y[b] = V[b]
    BY <1>9, <1>16
  <2>7. M[ArpQueue] = L[ArpQueue] /\ \A x \in Ports : M[x] = L[x]
    <3>1. M[h] = L[h]
      BY <1>11, <1>16, <2>2, <2>3
    <3>2. \A x \in Lists \ {h} : M[x] = J[x]
      BY <1>16
    <3> QED
      BY <1>11, <1>17, <3>1, <3>2
  <2> HIDE DEF M, Y
  <2>8. /\ GotOk' /\ got' \in [Ports -> Seq(Nat)] /\ QueueOk(M)'
        /\ Counts(L, M, h)
    BY <1>1, <1>2, <1>4, <1>7, <1>9, <1>12, <1>13, <1>14, <2>1, <2>2, <2>7, GotRead
  <2>9. HistoryOk'
    BY <1>1, <1>2, <1>4, <2>8 DEF HistoryOk
  <2>10. SlotsOk(Y, rx', tx', held')
    <3>1. Free(V[o]) /\ SameBut(V, Y, {o})
      BY <1>9, <2>6, FreeFacts DEF SameBut
    <3>2. SlotsOk(Y, rx', tx, held')
      BY <1>9, <2>1, <2>6, <3>1, HeldExchange
    <3> QED
      BY <1>2, <3>2
  <2>11. LostOk(Y)'
    <3>1. Unowned(Y) \subseteq Unowned(W)
      BY <1>9, <2>6, Owners DEF Unowned
    <3>2. Cardinality(Unowned(Y)) <= dropped
      BY <1>7, <1>21, <3>1, LostSame DEF LostOk
    <3> QED
      BY <1>21, <3>2 DEF LostOk
  <2>12. ListsOk(links', M, Y, From')
    BY <1>19, <2>5
  <2>13. Types'
    BY <1>2, <1>4, <1>7, <1>9, <1>14, <2>1 DEF Types
  <2>14. OrderOk(M, P)' /\ ArpOk(M[ArpQueue])'
    BY <1>13, <1>20, <2>7, <2>8
  <2> QED
    BY <1>9, <1>18, <1>21, <2>8, <2>9, <2>10, <2>11, <2>12, <2>13, <2>14, StateNext
<1> QED
  BY <1>22, <1>23

(* The addresses that packets were queued for are never forgotten. *)
LEMMA SendKeeps ==
  ASSUME NEW l, NEW b, NEW f, NEW p, MacSend(l, b, f, p)
  PROVE  queuedFor' = queuedFor \/ queuedFor' = queuedFor \union {p}
BY DEF MacSend

(* The counters stay numbers. *)
LEMMA SendCounts ==
  ASSUME NEW l, NEW b, NEW f, NEW p, MacSend(l, b, f, p), requests \in [Peers -> Nat]
  PROVE  requests' \in [Peers -> Nat]
<1>1. requests' = requests \/ requests' = [requests EXCEPT ![p] = @ + 1]
  BY DEF MacSend
<1>2. \A x \in Peers : requests[x] + 1 \in Nat
  OBVIOUS
<1> QED
  BY <1>1, <1>2

LEMMA CountsKept ==
  ASSUME CountsOk, [NextNet]_netVars
  PROVE  CountsOk'
<1>1. requests \in [Peers -> Nat] /\ replies \in [Peers -> Nat]
  BY DEF CountsOk
<1>2. ASSUME replies' = replies, requests' = requests
      PROVE  CountsOk'
  BY <1>1, <1>2 DEF CountsOk
<1>3. ASSUME replies' = replies, requests' \in [Peers -> Nat]
      PROVE  CountsOk'
  BY <1>1, <1>3 DEF CountsOk
<1>4. CASE SendPacket
  <2>1. replies' = replies
    BY <1>4 DEF SendPacket, Stop, history
  <2>2. CASE \E p \in Peers : MacSend(DeleteFirst(links, Pool), links.next[Pool], Nothing, p)
    BY <1>1, <1>3, <2>1, <2>2, SendCounts
  <2>3. CASE requests' = requests
    BY <1>2, <2>1, <2>3
  <2> QED
    BY <1>4, <2>2, <2>3 DEF SendPacket, Stop, history
<1>5. ASSUME NEW q \in Ports, ReceiveRequest(q)
      PROVE  CountsOk'
  <2> DEFINE l == DeleteFirst(links, Pool)
             p == rx[rxIndex].frame.of
  <2>1. \/ requests' = requests
        \/ MacSend(DeleteFirst(l, Pool), l.next[Pool], Answer, p)
    BY <1>5 DEF ReceiveRequest
  <2>2. replies' = replies
    BY <1>5 DEF ReceiveRequest, RecRaw
  <2> HIDE DEF l, p
  <2> QED
    BY <1>1, <1>2, <1>3, <2>1, <2>2, SendCounts
<1>6. CASE FrameArrives
  <2>1. PICK f : Arrive(f)
    BY <1>6 DEF FrameArrives
  <2>2. requests' = requests
    BY <2>1 DEF Arrive
  <2>3. replies' = replies \/ replies' = [replies EXCEPT ![f.of] = @ + 1]
    BY <2>1 DEF Arrive
  <2>4. \A x \in Peers : replies[x] + 1 \in Nat
    BY <1>1
  <2>5. replies' \in [Peers -> Nat]
    BY <1>1, <2>3, <2>4
  <2> QED
    BY <1>1, <2>2, <2>5 DEF CountsOk
<1>7. CASE Transmit \/ SendDone \/ Unqueue
  <2>1. requests' = requests /\ replies' = replies
    BY <1>7 DEF Transmit, SendDone, Unqueue, history
  <2> QED
    BY <1>2, <2>1
<1>8. ASSUME NEW q \in Ports,
             \/ TakeFromPort(q) \/ ReceiveUdp(q) \/ ReceiveReply(q)
             \/ ReceiveOther(q) \/ ReceiveNothing(q)
      PROVE  CountsOk'
  <2>1. requests' = requests /\ replies' = replies
    BY <1>8 DEF TakeFromPort, ReceiveUdp, ReceiveReply, ReceiveOther, ReceiveNothing,
                RecRaw, Stop, history
  <2> QED
    BY <1>2, <2>1
<1>9. ASSUME NEW b \in held, FreeNetbuf(b)
      PROVE  CountsOk'
  <2>1. requests' = requests /\ replies' = replies
    BY <1>9 DEF FreeNetbuf, history
  <2> QED
    BY <1>2, <2>1
<1>10. CASE UNCHANGED netVars
  <2>1. requests' = requests /\ replies' = replies
    BY <1>10 DEF netVars, history
  <2> QED
    BY <1>2, <2>1
<1> QED
  BY <1>4, <1>5, <1>6, <1>7, <1>8, <1>9, <1>10 DEF NextNet

LEMMA QueuedKept ==
  ASSUME QueuedOk, [NextNet]_netVars
  PROVE  QueuedOk' /\ queuedFor \subseteq queuedFor'
<1>1. ASSUME queuedFor' = queuedFor
      PROVE  QueuedOk' /\ queuedFor \subseteq queuedFor'
  BY <1>1 DEF QueuedOk
<1>2. ASSUME NEW p, queuedFor' = queuedFor \union {p}
      PROVE  QueuedOk' /\ queuedFor \subseteq queuedFor'
  <2>1. IsFiniteSet(queuedFor \union {p})
    BY FS_AddElement DEF QueuedOk
  <2> QED
    BY <1>2, <2>1 DEF QueuedOk
<1>3. CASE SendPacket
  <2>1. CASE \E p \in Peers : MacSend(DeleteFirst(links, Pool), links.next[Pool], Nothing, p)
    BY <1>1, <1>2, <2>1, SendKeeps
  <2>2. CASE queuedFor' = queuedFor
    BY <1>1, <2>2
  <2> QED
    BY <1>3, <2>1, <2>2 DEF SendPacket, Stop, history
<1>4. ASSUME NEW q \in Ports, ReceiveRequest(q)
      PROVE  QueuedOk' /\ queuedFor \subseteq queuedFor'
  <2> DEFINE l == DeleteFirst(links, Pool)
             p == rx[rxIndex].frame.of
  <2>1. \/ queuedFor' = queuedFor
        \/ MacSend(DeleteFirst(l, Pool), l.next[Pool], Answer, p)
    BY <1>4 DEF ReceiveRequest
  <2> HIDE DEF l, p
  <2> QED
    BY <1>1, <1>2, <2>1, SendKeeps
<1>5. CASE FrameArrives
  <2>1. queuedFor' = queuedFor
    BY <1>5 DEF FrameArrives, Arrive
  <2> QED
    BY <1>1, <2>1
<1>6. CASE Transmit \/ SendDone \/ Unqueue
  <2>1. queuedFor' = queuedFor
    BY <1>6 DEF Transmit, SendDone, Unqueue, history
  <2> QED
    BY <1>1, <2>1
<1>7. ASSUME NEW q \in Ports,
             \/ TakeFromPort(q) \/ ReceiveUdp(q) \/ ReceiveReply(q)
             \/ ReceiveOther(q) \/ ReceiveNothing(q)
      PROVE  QueuedOk' /\ queuedFor \subseteq queuedFor'
  <2>1. queuedFor' = queuedFor
    BY <1>7 DEF TakeFromPort, ReceiveUdp, ReceiveReply, ReceiveOther, ReceiveNothing,
                Stop, history
  <2> QED
    BY <1>1, <2>1
<1>8. ASSUME NEW b \in held, FreeNetbuf(b)
      PROVE  QueuedOk' /\ queuedFor \subseteq queuedFor'
  <2>1. queuedFor' = queuedFor
    BY <1>8 DEF FreeNetbuf, history
  <2> QED
    BY <1>1, <2>1
<1>9. CASE UNCHANGED netVars
  <2>1. queuedFor' = queuedFor
    BY <1>9 DEF netVars, history
  <2> QED
    BY <1>1, <2>1
<1> QED
  BY <1>3, <1>4, <1>5, <1>6, <1>7, <1>8, <1>9 DEF NextNet

(* Every step keeps the invariant. *)
LEMMA NetKept ==
  ASSUME NetInv, [NextNet]_netVars
  PROVE  NetInv'
<1>1. QueuedOk' /\ queuedFor \subseteq queuedFor'
  BY QueuedKept DEF NetInv
<1>c. CountsOk /\ CountsOk'
  BY CountsKept DEF NetInv
<1> SUFFICES ASSUME OneQueued' PROVE Sound'
  BY <1>1, <1>c DEF NetInv
<1>2. /\ Sound
      /\ \A x, y \in queuedFor' : x = y
      /\ \A x, y \in queuedFor : x = y
  BY <1>1, QueuedGrows DEF NetInv
<1>3. CASE FrameArrives
  BY <1>2, <1>3, <1>c, FrameArrivesSound
<1>5. CASE Transmit
  BY <1>2, <1>5, TransmitSound
<1>6. CASE SendPacket
  BY <1>2, <1>6, SendPacketSound
<1>7. CASE SendDone
  BY <1>2, <1>7, SendDoneSound
<1>8. CASE Unqueue
  BY <1>2, <1>8, UnqueueSound
<1>9. ASSUME NEW q \in Ports, TakeFromPort(q) PROVE Sound'
  BY <1>2, <1>9, TakeFromPortSound
<1>10. ASSUME NEW q \in Ports, ReceiveUdp(q) PROVE Sound'
  BY <1>2, <1>10, ReceiveUdpSound
<1>11. ASSUME NEW q \in Ports, ReceiveRequest(q) PROVE Sound'
  BY <1>2, <1>11, ReceiveRequestSound
<1>12. ASSUME NEW q \in Ports, ReceiveReply(q) PROVE Sound'
  BY <1>2, <1>12, <1>c, ReceiveReplySound
<1>13. ASSUME NEW q \in Ports, ReceiveOther(q) PROVE Sound'
  BY <1>2, <1>13, ReceiveOtherSound
<1>14. ASSUME NEW q \in Ports, ReceiveNothing(q) PROVE Sound'
  BY <1>2, <1>14, ReceiveNothingSound
<1>15. ASSUME NEW b \in held, FreeNetbuf(b) PROVE Sound'
  BY <1>2, <1>15, FreeNetbufSound
<1>16. CASE UNCHANGED netVars
  <2>1. /\ UNCHANGED <<links, rx, rxIndex, macRx, tx, txIndex, macTx, arp, dest, content>>
        /\ UNCHANGED <<held, pc, back, cursor, resolved, arrived>>
        /\ UNCHANGED <<accepted, got, requests, replies, answered, queuedFor, dropped>>
    BY <1>16 DEF netVars, ringVars, threadVars, history
  <2>2. HistoryOk' /\ GotOk'
    BY <1>2, <2>1 DEF Sound, HistoryOk, GotOk
  <2>3. CASE Dead
    BY <2>1, <2>2, <2>3 DEF Sound, Dead
  <2>4. CASE Alive
    <3>1. PICK L, W, n, P : StateOk(L, W, n, P)
      BY <2>4 DEF Alive
    <3>2. /\ pc \in {"idle", "wait", "unqueue"} /\ Types
          /\ ListsOk(links, L, W, From) /\ SlotsOk(W, rx, tx, held) /\ LostOk(W)
          /\ ArpOk(L[ArpQueue])
          /\ RingOk(n) /\ OrderOk(L, P) /\ QueueOk(L) /\ CausesOk
          /\ L \in [Lists -> Seq(Buffers)]
      BY <3>1, Parts
    <3>3. Types' /\ LostOk(W)' /\ pc' \in {"idle", "wait", "unqueue"}
      BY <2>1, <3>2 DEF Types, LostOk
    <3>4. From' = From
      BY <2>1 DEF From, Walking, Ahead
    <3>5. ListsOk(links', L, W, From') /\ SlotsOk(W, rx', tx', held')
      BY <2>1, <3>2, <3>4
    <3>6. ArpOk(L[ArpQueue])'
      BY <2>1, <3>2 DEF ArpOk, AskedFor, WaitOk, Walking
    <3>7. RingOk(n)' /\ OrderOk(L, P)' /\ QueueOk(L)'
      BY <1>2, <2>1, <3>2, QuietRing DEF Sound
    <3>8. CausesOk'
      BY <2>1, <3>2 DEF CausesOk, RepliesOk, ReplyIn
    <3> QED
      BY <2>2, <3>3, <3>5, <3>6, <3>7, <3>8, StateNext
  <2> QED
    BY <1>2, <2>3, <2>4 DEF Sound
<1>17. CASE \E q \in Ports : \/ TakeFromPort(q) \/ ReceiveUdp(q) \/ ReceiveRequest(q)
                             \/ ReceiveReply(q) \/ ReceiveOther(q) \/ ReceiveNothing(q)
  BY <1>9, <1>10, <1>11, <1>12, <1>13, <1>14, <1>17
<1> QED
  BY <1>3, <1>5, <1>6, <1>7, <1>8, <1>15, <1>16, <1>17 DEF NextNet

-----------------------------------------------------------------------------
(* The initial state.                                                      *)
Slots == RxCount + TxCount
FirstPool == [k \in 1 .. BufferCount - Slots |-> Slots + k]
FirstLists == [h \in Lists |-> IF h = Pool THEN FirstPool ELSE <<>>]
FirstOwner == [b \in Buffers |-> IF b <= RxCount THEN Rx(b - 1)
                                 ELSE IF b <= Slots THEN Tx(b - RxCount - 1)
                                 ELSE List(Pool)]

(* The pool has the buffers that the rings have not. *)
PoolIs ==
  /\ Slots \in Nat \ {0} /\ BufferCount \in Nat /\ Slots <= BufferCount
  /\ RxCount \in Nat \ {0} /\ TxCount \in Nat \ {0} /\ Slots = RxCount + TxCount
  /\ FirstPool \in Seq(Buffers) /\ Len(FirstPool) = BufferCount - Slots
  /\ \A k \in 1 .. BufferCount - Slots : FirstPool[k] = Slots + k
  /\ IsInjective(FirstPool)
  /\ Range(FirstPool) = Slots + 1 .. BufferCount

LEMMA PoolFirst == PoolIs
<1>1. /\ Slots \in Nat \ {0} /\ BufferCount \in Nat /\ Slots <= BufferCount
      /\ RxCount \in Nat \ {0} /\ TxCount \in Nat \ {0} /\ Slots = RxCount + TxCount
  BY NetAssumption DEF Slots
<1>2. \A k \in 1 .. BufferCount - Slots : Slots + k \in Slots + 1 .. BufferCount
  BY <1>1
<1>3. Slots + 1 .. BufferCount \subseteq Buffers
  BY <1>1 DEF Buffers
<1>4. FirstPool \in [1 .. BufferCount - Slots -> Buffers]
  BY <1>2, <1>3 DEF FirstPool
<1>5. BufferCount - Slots \in Nat
  BY <1>1
<1>6. FirstPool \in Seq(Buffers) /\ Len(FirstPool) = BufferCount - Slots
  BY <1>4, <1>5, SeqDef, LenProperties
<1>7. /\ DOMAIN FirstPool = 1 .. BufferCount - Slots
      /\ \A k \in 1 .. BufferCount - Slots : FirstPool[k] = Slots + k
  BY DEF FirstPool
<1>8. IsInjective(FirstPool)
  <2>1. \A j, k \in 1 .. BufferCount - Slots : Slots + j = Slots + k => j = k
    BY <1>1
  <2> QED
    BY <1>7, <2>1 DEF IsInjective
<1>9. Range(FirstPool) = Slots + 1 .. BufferCount
  <2>1. ASSUME NEW b \in Slots + 1 .. BufferCount
        PROVE  b - Slots \in 1 .. BufferCount - Slots /\ Slots + (b - Slots) = b
    BY <1>1
  <2>2. \A b \in Slots + 1 .. BufferCount : b \in Range(FirstPool)
    BY <1>7, <2>1 DEF Range
  <2>3. \A b \in Range(FirstPool) : b \in Slots + 1 .. BufferCount
    BY <1>2, <1>7 DEF Range
  <2> QED
    BY <2>2, <2>3
<1> QED
  BY <1>1, <1>6, <1>7, <1>8, <1>9 DEF PoolIs

(* The links at first. *)
LEMMA FirstLinked ==
  ASSUME InitNet
  PROVE  /\ Linked(links)
         /\ \A h \in Heads \ {Pool} : links.next[h] = h /\ links.prev[h] = h
         /\ Ring(links.next, links.prev, Pool, FirstPool)
<1>1. /\ Slots \in Nat \ {0} /\ BufferCount \in Nat /\ Slots <= BufferCount
      /\ Len(FirstPool) = BufferCount - Slots
      /\ \A k \in 1 .. BufferCount - Slots : FirstPool[k] = Slots + k
  BY PoolFirst DEF PoolIs
<1> DEFINE first == Slots + 1
           N(m) == CASE m = Pool -> IF BufferCount >= first THEN first ELSE Pool
                     [] m \in first .. BufferCount ->
                          IF m = BufferCount THEN Pool ELSE m + 1
                     [] m \in Heads \ {Pool} -> m
                     [] OTHER -> Null
           V(m) == CASE m = Pool -> IF BufferCount >= first THEN BufferCount ELSE Pool
                     [] m \in first .. BufferCount ->
                          IF m = first THEN Pool ELSE m - 1
                     [] m \in Heads \ {Pool} -> m
                     [] OTHER -> Null
<1>2. links = [next |-> [m \in Nodes |-> N(m)], prev |-> [m \in Nodes |-> V(m)]]
  BY DEF InitNet, Slots
<1>3. /\ first \in Nat /\ first .. BufferCount \subseteq Buffers
      /\ Buffers \subseteq Nodes /\ Heads \subseteq Nodes /\ Pool \in Heads /\ Null \in Nodes
      /\ \A m \in first .. BufferCount : m \notin Heads /\ m # Pool
  BY <1>1, HeadFacts DEF Buffers, Nodes, Heads, Lists, Circles
<1>4. /\ N(Pool) = IF BufferCount >= first THEN first ELSE Pool
      /\ V(Pool) = IF BufferCount >= first THEN BufferCount ELSE Pool
  BY <1>3
<1>5. ASSUME NEW m \in first .. BufferCount
      PROVE  /\ N(m) = IF m = BufferCount THEN Pool ELSE m + 1
             /\ V(m) = IF m = first THEN Pool ELSE m - 1
  BY <1>3
<1>6. ASSUME NEW m \in Heads \ {Pool}
      PROVE  N(m) = m /\ V(m) = m
  BY <1>3
<1>7. ASSUME NEW m \in Nodes, m \notin first .. BufferCount, m \notin Heads
      PROVE  N(m) = Null /\ V(m) = Null
  BY <1>3, <1>7
<1>d. first = Slots + 1
  OBVIOUS
<1> HIDE DEF N, V, first
<1>8. ASSUME NEW m \in Nodes
      PROVE  N(m) \in Nodes /\ V(m) \in Nodes
  <2>1. CASE m = Pool
    <3>1. BufferCount >= first => /\ first \in first .. BufferCount
                                  /\ BufferCount \in first .. BufferCount
      BY <1>1, <1>3
    <3> QED
      BY <1>3, <1>4, <2>1, <3>1
  <2>2. CASE m \in first .. BufferCount
    <3>1. /\ m # BufferCount => m + 1 \in first .. BufferCount
          /\ m # first => m - 1 \in first .. BufferCount
      BY <1>1, <1>3, <2>2
    <3> QED
      BY <1>3, <1>5, <2>2, <3>1
  <2>3. CASE m \in Heads \ {Pool}
    BY <1>6, <2>3
  <2>4. CASE m \notin first .. BufferCount /\ m \notin Heads
    BY <1>3, <1>7, <2>4
  <2> QED
    BY <1>3, <2>1, <2>2, <2>3, <2>4
<1>9. /\ links.next = [m \in Nodes |-> N(m)] /\ links.prev = [m \in Nodes |-> V(m)]
      /\ links \in [next : [Nodes -> Nodes], prev : [Nodes -> Nodes]]
  BY <1>2, <1>8
<1>10. \A m \in Nodes : links.next[m] = N(m) /\ links.prev[m] = V(m)
  BY <1>9
<1>11. \A h \in Heads \ {Pool} : links.next[h] = h /\ links.prev[h] = h
  BY <1>3, <1>6, <1>10
<1>12. ASSUME NEW i \in 0 .. Len(FirstPool)
       PROVE  /\ links.next[At(FirstPool, Pool, i)] = At(FirstPool, Pool, i + 1)
              /\ links.prev[At(FirstPool, Pool, i + 1)] = At(FirstPool, Pool, i)
  <2> DEFINE c == BufferCount - Slots
  <2>1. /\ c \in Nat /\ c = BufferCount - Slots /\ i \in 0 .. c
    BY <1>1
  <2>2. /\ At(FirstPool, Pool, 0) = Pool /\ At(FirstPool, Pool, c + 1) = Pool
        /\ \A k \in 1 .. c : At(FirstPool, Pool, k) = Slots + k
    BY <1>1 DEF At
  <2> HIDE DEF c
  <2>3. /\ links.next[Pool] = IF c >= 1 THEN Slots + 1 ELSE Pool
        /\ links.prev[Pool] = IF c >= 1 THEN Slots + c ELSE Pool
    <3>1. /\ BufferCount >= first <=> c >= 1
          /\ Slots + c = BufferCount
      BY <1>1, <1>d, <2>1
    <3> QED
      BY <1>3, <1>4, <1>10, <1>d, <3>1
  <2>4. ASSUME NEW k \in 1 .. c
        PROVE  /\ links.next[Slots + k] = IF k = c THEN Pool ELSE Slots + (k + 1)
               /\ links.prev[Slots + k] = IF k = 1 THEN Pool ELSE Slots + (k - 1)
    <3>1. /\ Slots + k \in first .. BufferCount
          /\ Slots + k = BufferCount <=> k = c
          /\ Slots + k = first <=> k = 1
          /\ (Slots + k) + 1 = Slots + (k + 1) /\ (Slots + k) - 1 = Slots + (k - 1)
      BY <1>1, <1>d, <2>1
    <3>2. Slots + k \in Nodes
      BY <1>3, <3>1
    <3> QED
      BY <1>5, <1>10, <3>1, <3>2
  <2>5. links.next[At(FirstPool, Pool, i)] = At(FirstPool, Pool, i + 1)
    <3>1. CASE i = 0
      <4>1. CASE c = 0
        BY <2>1, <2>2, <2>3, <3>1, <4>1
      <4>2. CASE c # 0
        <5>1. c >= 1 /\ 1 \in 1 .. c /\ i + 1 = 1
          BY <2>1, <3>1, <4>2
        <5> QED
          BY <2>2, <2>3, <3>1, <5>1
      <4> QED
        BY <4>1, <4>2
    <3>2. CASE i = c /\ i # 0
      <4>1. i \in 1 .. c
        BY <2>1, <3>2
      <4> QED
        BY <2>2, <2>4, <3>2, <4>1
    <3>3. CASE i # c /\ i # 0
      <4>1. i \in 1 .. c /\ i + 1 \in 1 .. c
        BY <2>1, <3>3
      <4> QED
        BY <2>2, <2>4, <3>3, <4>1
    <3> QED
      BY <3>1, <3>2, <3>3
  <2>6. links.prev[At(FirstPool, Pool, i + 1)] = At(FirstPool, Pool, i)
    <3>1. CASE i = c
      <4>1. CASE c = 0
        BY <2>1, <2>2, <2>3, <3>1, <4>1
      <4>2. CASE c # 0
        <5>1. c >= 1 /\ c \in 1 .. c
          BY <2>1, <4>2
        <5> QED
          BY <2>2, <2>3, <3>1, <5>1
      <4> QED
        BY <4>1, <4>2
    <3>2. CASE i # c
      <4>1. i + 1 \in 1 .. c /\ (i + 1 = 1 <=> i = 0) /\ (i + 1) - 1 = i
            /\ (i # 0 => i \in 1 .. c)
        BY <2>1, <3>2
      <4>2. links.prev[Slots + (i + 1)] = IF i = 0 THEN Pool ELSE Slots + i
        BY <2>4, <4>1
      <4>3. CASE i = 0
        BY <2>2, <4>1, <4>2, <4>3
      <4>4. CASE i # 0
        BY <2>2, <4>1, <4>2, <4>4
      <4> QED
        BY <4>3, <4>4
    <3> QED
      BY <3>1, <3>2
  <2> QED
    BY <2>5, <2>6
<1>13. Ring(links.next, links.prev, Pool, FirstPool)
  BY <1>12 DEF Ring
<1> QED
  BY <1>9, <1>11, <1>13 DEF Linked

LEMMA FirstListsOk ==
  ASSUME InitNet
  PROVE  ListsOk(links, FirstLists, FirstOwner, From)
<1>1. /\ Linked(links)
      /\ \A h \in Heads \ {Pool} : links.next[h] = h /\ links.prev[h] = h
      /\ Ring(links.next, links.prev, Pool, FirstPool)
  BY FirstLinked
<1>2. /\ Slots \in Nat \ {0} /\ BufferCount \in Nat /\ Slots <= BufferCount
      /\ RxCount \in Nat \ {0} /\ TxCount \in Nat \ {0} /\ Slots = RxCount + TxCount
      /\ FirstPool \in Seq(Buffers) /\ IsInjective(FirstPool)
      /\ Range(FirstPool) = Slots + 1 .. BufferCount
  BY PoolFirst DEF PoolIs
<1>3. <<>> \in Seq(Buffers) /\ Len(<<>>) = 0 /\ Range(<<>>) = {} /\ IsInjective(<<>>)
  BY EmptySeq DEF Range, IsInjective
<1>4. /\ FirstLists[Pool] = FirstPool
      /\ \A h \in Lists \ {Pool} : FirstLists[h] = <<>>
      /\ FirstLists \in [Lists -> Seq(Buffers)]
  BY <1>2, <1>3, HeadFacts DEF FirstLists
<1>5. \A h \in Lists : IsInjective(FirstLists[h])
  BY <1>2, <1>3, <1>4
<1>6. DOMAIN FirstOwner = Buffers
  BY DEF FirstOwner
<1>7. ASSUME NEW b \in Buffers
      PROVE  /\ FirstOwner[b] = List(Pool) <=> b \in Slots + 1 .. BufferCount
             /\ \A h \in Lists \ {Pool} : FirstOwner[b] # List(h)
  <2>1. b \in 1 .. BufferCount
    BY DEF Buffers
  <2>2. CASE b <= RxCount
    <3>1. FirstOwner[b] = Rx(b - 1)
      BY <2>2 DEF FirstOwner
    <3>2. b \notin Slots + 1 .. BufferCount
      BY <1>2, <2>1, <2>2
    <3> QED
      BY <3>1, <3>2, Owners
  <2>3. CASE ~(b <= RxCount) /\ b <= Slots
    <3>1. FirstOwner[b] = Tx(b - RxCount - 1)
      BY <2>3 DEF FirstOwner
    <3>2. b \notin Slots + 1 .. BufferCount
      BY <1>2, <2>1, <2>3
    <3> QED
      BY <3>1, <3>2, Owners
  <2>4. CASE ~(b <= RxCount) /\ ~(b <= Slots)
    <3>1. FirstOwner[b] = List(Pool)
      BY <2>4 DEF FirstOwner
    <3>2. b \in Slots + 1 .. BufferCount
      BY <1>2, <2>1, <2>4
    <3> QED
      BY <3>1, <3>2, Owners
  <2> QED
    BY <2>2, <2>3, <2>4
<1>8. \A h \in Lists : \A b \in Buffers : FirstOwner[b] = List(h) <=> b \in Range(FirstLists[h])
  BY <1>2, <1>3, <1>4, <1>7
<1>9. ASSUME NEW h \in Circles
      PROVE  Ring(links.next, links.prev, h, FirstLists[h])
  <2>1. CASE h = Pool
    BY <1>1, <1>4, <2>1
  <2>2. CASE h # Pool
    <3>1. h \in Heads \ {Pool} /\ FirstLists[h] = <<>>
      BY <1>4, <2>2, HeadFacts
    <3>2. links.next[h] = h /\ links.prev[h] = h
      BY <1>1, <3>1
    <3>3. At(<<>>, h, 0) = h /\ At(<<>>, h, 1) = h
      BY <1>3 DEF At
    <3>4. Ring(links.next, links.prev, h, <<>>)
      BY <1>3, <3>2, <3>3 DEF Ring
    <3> QED
      BY <3>1, <3>4
  <2> QED
    BY <2>1, <2>2
<1>10. Path(links.next, From, ArpQueue, FirstLists[ArpQueue])
  <2>1. ArpQueue \in Heads \ {Pool} /\ FirstLists[ArpQueue] = <<>>
    BY <1>4, HeadFacts
  <2>2. links.next[ArpQueue] = ArpQueue
    BY <1>1, <2>1
  <2>3. ~Walking
    BY DEF InitNet, Walking
  <2>4. From = ArpQueue
    BY <2>2, <2>3 DEF From, Ahead
  <2>5. At(<<>>, ArpQueue, 1) = ArpQueue
    BY <1>3 DEF At
  <2> QED
    BY <1>3, <2>1, <2>4, <2>5 DEF Path
<1> QED
  BY <1>1, <1>4, <1>5, <1>6, <1>8, <1>9, <1>10 DEF ListsOk

LEMMA FirstSlots ==
  ASSUME InitNet
  PROVE  SlotsOk(FirstOwner, rx, tx, held) /\ Types
<1>1. /\ Slots \in Nat \ {0} /\ BufferCount \in Nat /\ Slots <= BufferCount
      /\ RxCount \in Nat \ {0} /\ TxCount \in Nat \ {0} /\ Slots = RxCount + TxCount
  BY PoolFirst DEF PoolIs
<1>2. /\ rx = [i \in 0 .. RxCount - 1 |-> [buf |-> i + 1, full |-> FALSE, frame |-> Nothing]]
      /\ tx = [i \in 0 .. TxCount - 1 |-> [buf |-> RxCount + i + 1, mac |-> FALSE]]
      /\ held = {}
  BY DEF InitNet
<1>3. /\ \A i \in RxSlots : rx[i].buf = i + 1 /\ i + 1 \in Buffers
      /\ \A i \in TxSlots : tx[i].buf = RxCount + i + 1 /\ RxCount + i + 1 \in Buffers
  <2>1. \A i \in RxSlots : i + 1 \in 1 .. BufferCount
    BY <1>1 DEF RxSlots
  <2>2. \A i \in TxSlots : RxCount + i + 1 \in 1 .. BufferCount
    BY <1>1 DEF TxSlots
  <2> QED
    BY <1>2, <2>1, <2>2 DEF RxSlots, TxSlots, Buffers
<1>4. ASSUME NEW b \in Buffers
      PROVE  /\ \A i \in RxSlots : FirstOwner[b] = Rx(i) <=> rx[i].buf = b
             /\ \A i \in TxSlots : FirstOwner[b] = Tx(i) <=> tx[i].buf = b
             /\ FirstOwner[b] = Held <=> b \in held
             /\ \/ Free(FirstOwner[b]) \/ FirstOwner[b] = Held
                \/ \E i \in RxSlots : FirstOwner[b] = Rx(i)
                \/ \E i \in TxSlots : FirstOwner[b] = Tx(i)
  <2>1. b \in 1 .. BufferCount
    BY DEF Buffers
  <2>2. CASE b <= RxCount
    <3>1. FirstOwner[b] = Rx(b - 1)
      BY <2>2 DEF FirstOwner
    <3>2. /\ b - 1 \in RxSlots /\ \A i \in RxSlots : i + 1 = b <=> i = b - 1
          /\ \A i \in TxSlots : RxCount + i + 1 # b
      BY <1>1, <2>1, <2>2 DEF RxSlots, TxSlots
    <3>3. \A i \in RxSlots : Rx(b - 1) = Rx(i) <=> rx[i].buf = b
      BY <1>3, <3>2, Owners
    <3>4. \A i \in TxSlots : tx[i].buf # b /\ FirstOwner[b] # Tx(i)
      BY <1>3, <3>1, <3>2, Owners
    <3> QED
      BY <1>2, <3>1, <3>2, <3>3, <3>4, Owners
  <2>3. CASE ~(b <= RxCount) /\ b <= Slots
    <3>1. FirstOwner[b] = Tx(b - RxCount - 1)
      BY <2>3 DEF FirstOwner
    <3>2. /\ b - RxCount - 1 \in TxSlots
          /\ \A i \in TxSlots : RxCount + i + 1 = b <=> i = b - RxCount - 1
          /\ \A i \in RxSlots : i + 1 # b
      BY <1>1, <2>1, <2>3 DEF RxSlots, TxSlots
    <3>3. \A i \in TxSlots : Tx(b - RxCount - 1) = Tx(i) <=> tx[i].buf = b
      BY <1>3, <3>2, Owners
    <3>4. \A i \in RxSlots : rx[i].buf # b /\ FirstOwner[b] # Rx(i)
      BY <1>3, <3>1, <3>2, Owners
    <3> QED
      BY <1>2, <3>1, <3>2, <3>3, <3>4, Owners
  <2>4. CASE ~(b <= RxCount) /\ ~(b <= Slots)
    <3>1. FirstOwner[b] = List(Pool)
      BY <2>4 DEF FirstOwner
    <3>2. /\ \A i \in TxSlots : RxCount + i + 1 # b
          /\ \A i \in RxSlots : i + 1 # b
      BY <1>1, <2>1, <2>4 DEF RxSlots, TxSlots
    <3>3. Free(FirstOwner[b])
      BY <3>1, FreeFacts, HeadFacts
    <3> QED
      BY <1>2, <1>3, <3>1, <3>2, <3>3, Owners
  <2> QED
    BY <2>2, <2>3, <2>4
<1>5. SlotsOk(FirstOwner, rx, tx, held)
  BY <1>4 DEF SlotsOk
<1>6. /\ rx \in [RxSlots -> [buf : Buffers, full : BOOLEAN, frame : Frames]]
      /\ tx \in [TxSlots -> [buf : Buffers, mac : BOOLEAN]]
  BY <1>2, <1>3 DEF RxSlots, TxSlots, Frames
<1>7. 0 \in RxSlots /\ 0 \in TxSlots
  BY <1>1 DEF RxSlots, TxSlots
<1>8. /\ arp \in [Peers -> {"none", "waiting", "known"}] /\ DOMAIN dest = Buffers
      /\ content \in [Buffers -> Frames] /\ held \subseteq Buffers
      /\ cursor \in Nodes /\ back \in {"idle", "unqueue"}
      /\ requests \in [Peers -> Nat]
  BY HeadFacts DEF InitNet, Frames
<1>9. rxIndex \in RxSlots /\ macRx \in RxSlots /\ txIndex \in TxSlots /\ macTx \in TxSlots
  BY <1>7 DEF InitNet
<1>10. Types
  BY <1>6, <1>8, <1>9 DEF Types
<1> QED
  BY <1>5, <1>10

LEMMA NetFirst ==
  ASSUME InitNet
  PROVE  NetInv
<1>1. /\ accepted = [q \in Ports |-> <<>>] /\ got = [q \in Ports |-> <<>>]
      /\ requests = [p \in Peers |-> 0] /\ queuedFor = {} /\ dropped = 0 /\ arrived = 0
      /\ replies = [p \in Peers |-> 0] /\ arp = [p \in Peers |-> "none"]
      /\ pc = "idle" /\ rxIndex = 0 /\ macRx = 0
      /\ content = [b \in Buffers |-> Nothing]
      /\ rx = [i \in 0 .. RxCount - 1 |-> [buf |-> i + 1, full |-> FALSE, frame |-> Nothing]]
      /\ tx = [i \in 0 .. TxCount - 1 |-> [buf |-> RxCount + i + 1, mac |-> FALSE]]
  BY DEF InitNet
<1>2. QueuedOk /\ CountsOk
  BY <1>1, FS_EmptySet DEF QueuedOk, CountsOk
<1>3. <<>> \in Seq(Nat) /\ <<>> \in Seq(Buffers) /\ Len(<<>>) = 0 /\ Range(<<>>) = {}
  BY EmptySeq DEF Range
<1>4. HistoryOk
  BY <1>1, <1>3 DEF HistoryOk
<1>5. \A q \in Ports : Len(got[q]) = 0 /\ Len(accepted[q]) = 0
  BY <1>1, <1>3
<1>6. GotOk
  BY <1>5 DEF GotOk
<1>7. ListsOk(links, FirstLists, FirstOwner, From) /\ SlotsOk(FirstOwner, rx, tx, held) /\ Types
  BY FirstListsOk, FirstSlots
<1>8. \A h \in Lists \ {Pool} : FirstLists[h] = <<>>
  BY DEF FirstLists
<1>9. LostOk(FirstOwner)
  <2>1. \A b \in Buffers : FirstOwner[b] # Gone
    BY Owners DEF FirstOwner
  <2>2. Unowned(FirstOwner) = {}
    BY <2>1 DEF Unowned
  <2> QED
    BY <1>1, <2>2, FS_EmptySet DEF LostOk
<1>10. ArpOk(FirstLists[ArpQueue])
  <2>1. FirstLists[ArpQueue] = <<>>
    BY <1>8, HeadFacts
  <2>2. ~Walking
    BY <1>1 DEF Walking
  <2>3. AskedFor(arp, requests, queuedFor)
    BY <1>1 DEF AskedFor
  <2> QED
    BY <1>3, <2>1, <2>2, <2>3 DEF ArpOk, WaitOk
<1>11. \A i \in RxSlots : ~rx[i].full
  BY <1>1 DEF RxSlots
<1>12. RingOk(0)
  <2>1. RxCount \in Nat \ {0}
    BY NetAssumption
  <2>2. \A i \in RxSlots : Off(i) = i
    BY <1>1, <2>1 DEF Off, RxSlots
  <2>3. Off(macRx) = 0
    BY <1>1, <2>1 DEF Off
  <2>4. \A i \in RxSlots : ~(i < 0)
    BY <2>1 DEF RxSlots
  <2> QED
    BY <1>11, <2>1, <2>2, <2>3, <2>4 DEF RingOk
<1> DEFINE P == [i \in RxSlots |-> 0]
<1>13. \A q \in Ports : Taken(FirstLists, q) = 0 /\ Len(FirstLists[q]) = 0
  <2>1. \A q \in Ports : FirstLists[q] = <<>>
    BY <1>8, HeadFacts
  <2>2. \A q \in Ports : Len(FirstLists[q]) = 0
    BY <1>3, <2>1
  <2>3. ASSUME NEW q \in Ports
        PROVE  Taken(FirstLists, q) = 0
    <3>1. Taken(FirstLists, q) = 0 + 0
      BY <1>5, <2>2 DEF Taken
    <3> QED
      BY <3>1
  <2> QED
    BY <2>2, <2>3
<1>14. OrderOk(FirstLists, P)
  <2>1. \A i \in RxSlots, q \in Ports : ~UdpIn(i, q)
    BY <1>11 DEF UdpIn
  <2> QED
    BY <1>5, <1>13, <2>1 DEF OrderOk
<1>15. QueueOk(FirstLists)
  BY <1>13 DEF QueueOk
<1>16. CausesOk
  <2>1. \A i \in RxSlots, p \in Peers : ~ReplyIn(i, p)
    BY <1>11 DEF ReplyIn
  <2>2. \A p \in Peers : arp[p] # "known"
    BY <1>1
  <2>3. RepliesOk
    BY <2>1, <2>2 DEF RepliesOk
  <2>4. \A b \in Buffers : content[b] # Answer
    BY <1>1 DEF Nothing, Answer
  <2> QED
    BY <2>3, <2>4 DEF CausesOk
<1>17. StateOk(FirstLists, FirstOwner, 0, P)
  BY <1>1, <1>7, <1>9, <1>10, <1>12, <1>14, <1>15, <1>16 DEF StateOk
<1>18. Alive
  BY <1>17 DEF Alive
<1> QED
  BY <1>2, <1>4, <1>6, <1>18 DEF NetInv, Sound

-----------------------------------------------------------------------------
(* What the invariant says.                                                *)

(* A list without repetitions has no more nodes than there are buffers. *)
LEMMA InjectiveLen ==
  ASSUME NEW s \in Seq(Buffers), IsInjective(s)
  PROVE  Len(s) <= BufferCount
<1>1. Len(s) \in Nat /\ BufferCount \in Nat /\ s \in [1 .. Len(s) -> Buffers]
  BY NetAssumption, LenProperties
<1>2. s \in Injection(1 .. Len(s), Buffers)
  BY <1>1 DEF IsInjective, Injection
<1>3. IsFiniteSet(Buffers) /\ Cardinality(Buffers) = BufferCount
  <2>1. Cardinality(1 .. BufferCount) = IF 1 > BufferCount THEN 0 ELSE BufferCount - 1 + 1
    BY <1>1, FS_Interval
  <2> QED
    BY <1>1, <2>1, FS_Interval DEF Buffers
<1>4. Cardinality(1 .. Len(s)) = Len(s)
  <2>1. Cardinality(1 .. Len(s)) = IF 1 > Len(s) THEN 0 ELSE Len(s) - 1 + 1
    BY <1>1, FS_Interval
  <2> QED
    BY <1>1, <2>1
<1>5. Cardinality(1 .. Len(s)) <= Cardinality(Buffers)
  BY <1>2, <1>3, FS_Injection
<1> QED
  BY <1>3, <1>4, <1>5

(* A walk along a list meets its nodes. *)
LEMMA WalkIs ==
  ASSUME NEW s \in Seq(Buffers), IsInjective(s), NEW h, h \notin Buffers, NEW from,
         Path(links.next, from, h, s)
  PROVE  Walk(from) = Range(s)
<1> DEFINE Step(m) == IF m \in Buffers THEN links.next[m] ELSE m
           Turn(g, k) == IF k = 0 THEN from ELSE Step(g[k - 1])
           at == CHOOSE g : g = [k \in 0 .. BufferCount |-> Turn(g, k)]
           a == [k \in 0 .. BufferCount |-> At(s, h, k + 1)]
<1>1. Len(s) \in Nat /\ BufferCount \in Nat
  BY NetAssumption, LenProperties
<1>2. /\ from = At(s, h, 1)
      /\ \A i \in 1 .. Len(s) : links.next[s[i]] = At(s, h, i + 1)
  BY DEF Path
<1>3. Places(Buffers, s, h)
  BY AtRange
<1>4. ASSUME NEW k \in 0 .. BufferCount, k # 0
      PROVE  Step(At(s, h, k)) = At(s, h, k + 1)
  <2>1. CASE k \in 1 .. Len(s)
    <3>1. At(s, h, k) = s[k] /\ s[k] \in Buffers
      BY <1>3, <2>1 DEF Places
    <3> QED
      BY <1>2, <2>1, <3>1
  <2>2. CASE k \notin 1 .. Len(s)
    <3>1. k + 1 \notin 1 .. Len(s)
      BY <1>1, <1>4, <2>2
    <3>2. At(s, h, k) = h /\ At(s, h, k + 1) = h
      BY <2>2, <3>1 DEF At
    <3> QED
      BY <3>2
  <2> QED
    BY <2>1, <2>2
<1> HIDE DEF Step
<1>5. ASSUME NEW k \in 0 .. BufferCount
      PROVE  a[k] = Turn(a, k)
  <2>1. CASE k = 0
    BY <1>2, <2>1
  <2>2. CASE k # 0
    <3>1. k - 1 \in 0 .. BufferCount /\ (k - 1) + 1 = k
      BY <1>1, <2>2
    <3>2. a[k - 1] = At(s, h, k)
      BY <3>1
    <3> QED
      BY <1>4, <2>2, <3>2
  <2> QED
    BY <2>1, <2>2
<1>6. a = [k \in 0 .. BufferCount |-> a[k]] /\ DOMAIN a = 0 .. BufferCount
      /\ \A k \in 0 .. BufferCount : a[k] = At(s, h, k + 1)
  OBVIOUS
<1> HIDE DEF a
<1>7. a = [k \in 0 .. BufferCount |-> Turn(a, k)]
  <2> HIDE DEF Turn
  <2> QED
    BY <1>5, <1>6
<1>8. at = [k \in 0 .. BufferCount |-> Turn(at, k)]
  <2> HIDE DEF Turn
  <2> QED
    BY <1>7
<1> HIDE DEF at
<1>9. at = a
  <2> DEFINE Bad == {k \in 0 .. BufferCount : at[k] # a[k]}
  <2>1. Bad = {}
    <3> SUFFICES ASSUME Bad # {} PROVE FALSE
      OBVIOUS
    <3>1. Bad \subseteq Nat
      BY <1>1
    <3>2. PICK k \in Bad : \A j \in Bad : k <= j
      BY <3>1, LeastElement
    <3>3. /\ k \in 0 .. BufferCount /\ at[k] # a[k]
          /\ at[k] = Turn(at, k) /\ a[k] = Turn(a, k)
      <4>1. k \in 0 .. BufferCount /\ at[k] # a[k]
        BY <3>2
      <4>2. at[k] = Turn(at, k)
        <5> HIDE DEF Turn
        <5> QED
          BY <1>8, <4>1
      <4> QED
        BY <1>5, <4>1, <4>2
    <3>4. k # 0
      BY <3>3
    <3>5. k - 1 \in 0 .. BufferCount /\ ~(k <= k - 1)
      BY <1>1, <3>3, <3>4
    <3>6. at[k - 1] = a[k - 1]
      BY <3>2, <3>5
    <3> QED
      BY <3>3, <3>4, <3>6
  <2>2. \A k \in 0 .. BufferCount : at[k] = a[k]
    BY <2>1
  <2>3. at = [k \in 0 .. BufferCount |-> at[k]]
    <3> HIDE DEF Turn
    <3> QED
      BY <1>8
  <2> HIDE DEF Bad
  <2> QED
    BY <1>6, <2>2, <2>3
<1>10. Walk(from) = {at[k] : k \in DOMAIN at} \intersect Buffers
  BY DEF Walk, at, Turn, Step
<1>11. Len(s) <= BufferCount
  BY InjectiveLen
<1>12. ASSUME NEW b \in Range(s)
       PROVE  b \in Walk(from)
  <2>1. PICK i \in 1 .. Len(s) : s[i] = b /\ At(s, h, i) = s[i] /\ s[i] \in Buffers
    BY <1>3, <1>12 DEF Places
  <2>2. i - 1 \in 0 .. BufferCount /\ (i - 1) + 1 = i
    BY <1>1, <1>11, <2>1
  <2>3. a[i - 1] = b /\ b \in Buffers
    BY <1>6, <2>1, <2>2
  <2> QED
    BY <1>6, <1>9, <1>10, <2>2, <2>3
<1>13. ASSUME NEW b \in Walk(from)
       PROVE  b \in Range(s)
  <2>1. PICK k \in 0 .. BufferCount : a[k] = b /\ b \in Buffers
    BY <1>6, <1>9, <1>10, <1>13
  <2>2. At(s, h, k + 1) \in {h} \union Range(s)
    BY <1>3 DEF Places
  <2> QED
    BY <1>6, <2>1, <2>2
<1> QED
  BY <1>12, <1>13

(* The sets of BuffersApart, by the owners of the buffers.                 *)
InRx == {rx[i].buf : i \in DOMAIN rx}
InTx == {tx[i].buf : i \in DOMAIN tx}
SetsAre(W) ==
  /\ \A b : b \in Listed(Pool) <=> b \in Buffers /\ W[b] = List(Pool)
  /\ \A b : b \in InRx <=> b \in Buffers /\ \E i \in RxSlots : W[b] = Rx(i)
  /\ \A b : b \in InTx <=> b \in Buffers /\ \E i \in TxSlots : W[b] = Tx(i)
  /\ \A b : b \in held <=> b \in Buffers /\ W[b] = Held
  /\ \A b : b \in InPorts <=> b \in Buffers /\ \E q \in Ports : W[b] = List(q)
  /\ \A b \in Buffers : W[b] = List(ArpQueue) => b \in Waiting

(* A circle lists its buffers. *)
LEMMA ListedIs ==
  ASSUME NEW L, NEW W, NEW from, ListsOk(links, L, W, from), NEW h \in Circles
  PROVE  Listed(h) = Range(L[h])
<1>1. /\ h \in Lists /\ h \notin Buffers
  BY HeadFacts
<1>2. /\ L[h] \in Seq(Buffers) /\ IsInjective(L[h])
      /\ Ring(links.next, links.prev, h, L[h])
  BY <1>1 DEF ListsOk
<1>3. Places(Buffers, L[h], h)
  BY <1>2, AtRange
<1>4. Path(links.next, links.next[h], h, L[h])
  <2>1. Len(L[h]) \in Nat /\ At(L[h], h, 0) = h
        /\ \A i \in 1 .. Len(L[h]) : At(L[h], h, i) = L[h][i]
    BY <1>3 DEF Places
  <2>2. \A i \in 0 .. Len(L[h]) : links.next[At(L[h], h, i)] = At(L[h], h, i + 1)
    BY <1>2 DEF Ring
  <2>3. 0 \in 0 .. Len(L[h]) /\ 0 + 1 = 1
        /\ \A i \in 1 .. Len(L[h]) : i \in 0 .. Len(L[h])
    BY <2>1
  <2>4. links.next[h] = At(L[h], h, 1)
    BY <2>1, <2>2, <2>3
  <2>5. \A i \in 1 .. Len(L[h]) : links.next[L[h][i]] = At(L[h], h, i + 1)
    BY <2>1, <2>2, <2>3
  <2> QED
    BY <2>4, <2>5 DEF Path
<1>5. Walk(links.next[h]) = Range(L[h])
  BY <1>1, <1>2, <1>4, WalkIs
<1> QED
  BY <1>5 DEF Listed

(* The packets that wait for an address are met from From on. *)
LEMMA WaitingHas ==
  ASSUME NEW L, NEW W, ListsOk(links, L, W, From)
  PROVE  Range(L[ArpQueue]) \subseteq Waiting
<1>1. ArpQueue \in Lists /\ ArpQueue \notin Buffers
  BY HeadFacts
<1>2. /\ L[ArpQueue] \in Seq(Buffers) /\ IsInjective(L[ArpQueue])
      /\ Path(links.next, From, ArpQueue, L[ArpQueue])
  BY <1>1 DEF ListsOk
<1>3. Walk(From) = Range(L[ArpQueue])
  BY <1>1, <1>2, WalkIs
<1>4. CASE Walking
  BY <1>3, <1>4 DEF From, Waiting
<1>5. CASE ~Walking /\ From = links.next[ArpQueue]
  BY <1>3, <1>5 DEF Waiting, Listed
<1>6. CASE ~Walking /\ From = ArpQueue
  <2>1. Places(Buffers, L[ArpQueue], ArpQueue)
    BY <1>2, AtRange
  <2>2. At(L[ArpQueue], ArpQueue, 1) = ArpQueue
    BY <1>2, <1>6 DEF Path
  <2>3. ASSUME NEW b \in Range(L[ArpQueue])
        PROVE  FALSE
    <3>1. PICK i \in 1 .. Len(L[ArpQueue]) : L[ArpQueue][i] = b
      BY <2>1 DEF Places
    <3>2. 1 \in 1 .. Len(L[ArpQueue])
      BY <2>1, <3>1 DEF Places
    <3>3. L[ArpQueue][1] = ArpQueue /\ L[ArpQueue][1] \in Buffers
      BY <2>1, <2>2, <3>2 DEF Places
    <3> QED
      BY <1>1, <3>3
  <2> QED
    BY <2>3
<1> QED
  BY <1>4, <1>5, <1>6 DEF From, Ahead

LEMMA SetsOwned ==
  ASSUME NEW L, NEW W, Types, ListsOk(links, L, W, From), SlotsOk(W, rx, tx, held)
  PROVE  SetsAre(W)
<1>1. /\ DOMAIN rx = RxSlots /\ DOMAIN tx = TxSlots /\ held \subseteq Buffers
      /\ \A i \in RxSlots : rx[i].buf \in Buffers
      /\ \A i \in TxSlots : tx[i].buf \in Buffers
  BY DEF Types
<1>2. \A b \in Buffers : /\ \A i \in RxSlots : W[b] = Rx(i) <=> rx[i].buf = b
                         /\ \A i \in TxSlots : W[b] = Tx(i) <=> tx[i].buf = b
                         /\ W[b] = Held <=> b \in held
  BY DEF SlotsOk
<1>3. /\ L \in [Lists -> Seq(Buffers)]
      /\ \A h \in Lists : \A b \in Buffers : W[b] = List(h) <=> b \in Range(L[h])
  BY DEF ListsOk
<1>4. \A h \in Lists : Range(L[h]) \subseteq Buffers
  <2>1. ASSUME NEW h \in Lists PROVE L[h] \in Seq(Buffers)
    BY <1>3
  <2> QED
    BY <2>1, RangeFacts
<1>5. ASSUME NEW h \in Circles
      PROVE  \A b : b \in Listed(h) <=> b \in Buffers /\ W[b] = List(h)
  <2>1. h \in Lists
    BY HeadFacts
  <2>2. Listed(h) = Range(L[h])
    BY ListedIs
  <2> QED
    BY <1>3, <1>4, <2>1, <2>2
<1>6. \A b : b \in Listed(Pool) <=> b \in Buffers /\ W[b] = List(Pool)
  BY <1>5, HeadFacts
<1>7. \A b : b \in InPorts <=> b \in Buffers /\ \E q \in Ports : W[b] = List(q)
  <2>1. ASSUME NEW q \in Ports
        PROVE  \A b : b \in Listed(q) <=> b \in Buffers /\ W[b] = List(q)
    BY <1>5, HeadFacts
  <2>2. \A b : b \in InPorts <=> \E q \in Ports : b \in Listed(q)
    BY DEF InPorts
  <2> QED
    BY <2>1, <2>2
<1>8. \A b \in Buffers : W[b] = List(ArpQueue) => b \in Waiting
  <2>1. Range(L[ArpQueue]) \subseteq Waiting
    BY WaitingHas
  <2>2. ArpQueue \in Lists
    BY HeadFacts
  <2> QED
    BY <1>3, <2>1, <2>2
<1>9. \A b : b \in InRx <=> b \in Buffers /\ \E i \in RxSlots : W[b] = Rx(i)
  <2>1. \A b : b \in InRx <=> \E i \in RxSlots : rx[i].buf = b
    BY <1>1 DEF InRx
  <2> QED
    BY <1>1, <1>2, <2>1
<1>10. \A b : b \in InTx <=> b \in Buffers /\ \E i \in TxSlots : W[b] = Tx(i)
  <2>1. \A b : b \in InTx <=> \E i \in TxSlots : tx[i].buf = b
    BY <1>1 DEF InTx
  <2> QED
    BY <1>1, <1>2, <2>1
<1>11. \A b : b \in held <=> b \in Buffers /\ W[b] = Held
  BY <1>1, <1>2
<1> QED
  BY <1>6, <1>7, <1>8, <1>9, <1>10, <1>11 DEF SetsAre

(* No two of the sets meet. *)
LEMMA SetsDisjoint ==
  ASSUME NEW W, SetsAre(W)
  PROVE  /\ Listed(Pool) \intersect InRx = {} /\ Listed(Pool) \intersect InTx = {}
         /\ Listed(Pool) \intersect held = {} /\ Listed(Pool) \intersect InPorts = {}
         /\ InRx \intersect InTx = {} /\ InRx \intersect held = {}
         /\ InRx \intersect InPorts = {}
         /\ InTx \intersect held = {} /\ InTx \intersect InPorts = {}
         /\ held \intersect InPorts = {}
<1>1. /\ \A b \in Listed(Pool) : W[b] = List(Pool)
      /\ \A b \in InRx : \E i \in RxSlots : W[b] = Rx(i)
      /\ \A b \in InTx : \E i \in TxSlots : W[b] = Tx(i)
      /\ \A b \in held : W[b] = Held
      /\ \A b \in InPorts : \E q \in Ports : W[b] = List(q)
  BY DEF SetsAre
<1>2. \A q \in Ports : List(Pool) # List(q)
  BY HeadFacts, Owners
<1>3. \A h, i, j : /\ List(h) # Rx(i) /\ List(h) # Tx(i) /\ Rx(i) # Tx(j)
                   /\ List(h) # Held /\ Rx(i) # Held /\ Tx(i) # Held
  BY Owners
<1>4. /\ Listed(Pool) \intersect InRx = {} /\ Listed(Pool) \intersect InTx = {}
      /\ Listed(Pool) \intersect held = {} /\ Listed(Pool) \intersect InPorts = {}
  BY <1>1, <1>2, <1>3
<1>5. /\ InRx \intersect InTx = {} /\ InRx \intersect held = {}
      /\ InRx \intersect InPorts = {}
  BY <1>1, <1>3
<1>6. /\ InTx \intersect held = {} /\ InTx \intersect InPorts = {}
      /\ held \intersect InPorts = {}
  BY <1>1, <1>3
<1> QED
  BY <1>4, <1>5, <1>6

(* A set of buffers without an owner is no larger than all of them. *)
LEMMA FewLost ==
  ASSUME NEW W, NEW S, S \subseteq Unowned(W), NEW k \in Nat,
         Cardinality(Unowned(W)) <= k
  PROVE  Cardinality(S) <= k
<1>1. IsFiniteSet(Unowned(W))
  <2>1. IsFiniteSet(Buffers)
    BY NetAssumption, FS_Interval DEF Buffers
  <2>2. Unowned(W) \subseteq Buffers
    BY DEF Unowned
  <2> QED
    BY <2>1, <2>2, FS_Subset
<1>2. IsFiniteSet(S) /\ Cardinality(S) <= Cardinality(Unowned(W))
  BY <1>1, FS_Subset
<1>3. Cardinality(S) \in Nat /\ Cardinality(Unowned(W)) \in Nat
  BY <1>1, <1>2, FS_CardinalityType
<1>4. \A i, j, m \in Nat : i <= j /\ j <= m => i <= m
  OBVIOUS
<1> QED
  BY <1>2, <1>3, <1>4

LEMMA ApartFromInv ==
  ASSUME NetInv
  PROVE  BuffersApart
<1> SUFFICES ASSUME OneQueued, pc \in {"idle", "wait", "unqueue"}
             PROVE  LET places == <<Listed(Pool), InRx, InTx, held>>
                        all == (UNION Range(places)) \union InPorts
                    IN  /\ \A i, j \in DOMAIN places :
                             i # j => places[i] \intersect places[j] = {}
                        /\ \A i \in DOMAIN places : places[i] \intersect InPorts = {}
                        /\ Cardinality(Buffers \ (all \union Waiting)) <= dropped
  BY DEF BuffersApart, InRx, InTx
<1>1. HistoryOk /\ Alive
  BY DEF NetInv, Sound, Dead
<1>2. PICK L, W, n, P : StateOk(L, W, n, P)
  BY <1>1 DEF Alive
<1>3. /\ Types /\ ListsOk(links, L, W, From) /\ SlotsOk(W, rx, tx, held) /\ LostOk(W)
  BY <1>2, Parts
<1>4. SetsAre(W)
  BY <1>3, SetsOwned
<1>5. /\ Listed(Pool) \intersect InRx = {} /\ Listed(Pool) \intersect InTx = {}
      /\ Listed(Pool) \intersect held = {} /\ Listed(Pool) \intersect InPorts = {}
      /\ InRx \intersect InTx = {} /\ InRx \intersect held = {}
      /\ InRx \intersect InPorts = {}
      /\ InTx \intersect held = {} /\ InTx \intersect InPorts = {}
      /\ held \intersect InPorts = {}
  BY <1>4, SetsDisjoint
<1> DEFINE places == <<Listed(Pool), InRx, InTx, held>>
           all == (UNION Range(places)) \union InPorts
<1>6. /\ DOMAIN places = 1 .. 4
      /\ places[1] = Listed(Pool) /\ places[2] = InRx
      /\ places[3] = InTx /\ places[4] = held
  OBVIOUS
<1> HIDE DEF places
<1>7. \A i \in 1 .. 4 : i = 1 \/ i = 2 \/ i = 3 \/ i = 4
  OBVIOUS
<1>8. \A i, j \in DOMAIN places : i # j => places[i] \intersect places[j] = {}
  <2>1. \A A, B : A \intersect B = B \intersect A
    OBVIOUS
  <2>2. ASSUME NEW i \in 1 .. 4, NEW j \in 1 .. 4, i # j
        PROVE  places[i] \intersect places[j] = {}
    <3>1. CASE i = 1
      BY <1>5, <1>6, <1>7, <2>2, <3>1
    <3>2. CASE i = 2
      BY <1>5, <1>6, <1>7, <2>1, <2>2, <3>2
    <3>3. CASE i = 3
      BY <1>5, <1>6, <1>7, <2>1, <2>2, <3>3
    <3>4. CASE i = 4
      BY <1>5, <1>6, <1>7, <2>1, <2>2, <3>4
    <3> QED
      BY <1>7, <3>1, <3>2, <3>3, <3>4
  <2> QED
    BY <1>6, <2>2
<1>9. \A i \in DOMAIN places : places[i] \intersect InPorts = {}
  BY <1>5, <1>6, <1>7
<1>10. Buffers \ (all \union Waiting) \subseteq Unowned(W)
  <2> SUFFICES ASSUME NEW b \in Buffers, b \notin all, b \notin Waiting
               PROVE  W[b] = Gone
    BY DEF Unowned
  <2>1. \A i \in 1 .. 4 : places[i] \in Range(places)
    BY <1>6 DEF Range
  <2>2. b \notin Listed(Pool) /\ b \notin InRx /\ b \notin InTx /\ b \notin held
    BY <1>6, <2>1
  <2>3. b \notin InPorts
    OBVIOUS
  <2>4. /\ W[b] # List(Pool) /\ W[b] # Held /\ W[b] # List(ArpQueue)
        /\ \A q \in Ports : W[b] # List(q)
        /\ \A i \in RxSlots : W[b] # Rx(i)
        /\ \A i \in TxSlots : W[b] # Tx(i)
    BY <1>4, <2>2, <2>3 DEF SetsAre
  <2>5. \A h \in Lists : W[b] # List(h)
    BY <2>4 DEF Lists, Circles
  <2>6. \/ Free(W[b]) \/ W[b] = Held
        \/ \E i \in RxSlots : W[b] = Rx(i)
        \/ \E i \in TxSlots : W[b] = Tx(i)
    BY <1>3 DEF SlotsOk
  <2> QED
    BY <2>4, <2>5, <2>6 DEF Free
<1>11. Cardinality(Buffers \ (all \union Waiting)) <= dropped
  <2> HIDE DEF all
  <2>1. dropped \in Nat /\ Cardinality(Unowned(W)) <= dropped
    BY <1>1, <1>3 DEF HistoryOk, LostOk
  <2> QED
    BY <1>10, <2>1, FewLost
<1> QED
  BY <1>8, <1>9, <1>11 DEF places

LEMMA DeliveredFromInv ==
  ASSUME NetInv
  PROVE  DeliveredInOrder
<1> SUFFICES ASSUME OneQueued, NEW q \in Ports
             PROVE  IsPrefix(got[q], accepted[q])
  BY DEF DeliveredInOrder
<1>1. HistoryOk /\ GotOk
  BY DEF NetInv, Sound
<1> DEFINE s == got[q]
           t == accepted[q]
<1>2. s \in Seq(Nat) /\ t \in Seq(Nat)
  BY <1>1 DEF HistoryOk
<1>3. /\ Len(s) <= Len(t)
      /\ \A k \in 1 .. Len(s) : s[k] = t[k]
  BY <1>1 DEF GotOk
<1> HIDE DEF s, t
<1>4. /\ Len(s) \in Nat /\ Len(t) \in Nat
      /\ \A k \in 1 .. Len(s) : s[k] \in Nat
      /\ \A k \in 1 .. Len(t) : t[k] \in Nat
  BY <1>2, LenProperties
<1>5. \A k \in 1 .. Len(s) : k \in 1 .. Len(t)
  BY <1>3, <1>4
<1>6. 1 \in Int /\ Len(s) \in Int
  BY <1>4
<1>7. /\ SubSeq(s, 1, Len(s)) \in Seq(Nat)
      /\ Len(SubSeq(s, 1, Len(s))) = IF 1 <= Len(s) THEN Len(s) - 1 + 1 ELSE 0
      /\ \A k \in 1 .. Len(s) - 1 + 1 : SubSeq(s, 1, Len(s))[k] = s[1 + k - 1]
  BY <1>4, <1>6, SubSeqProperties
<1>8. /\ SubSeq(t, 1, Len(s)) \in Seq(Nat)
      /\ Len(SubSeq(t, 1, Len(s))) = IF 1 <= Len(s) THEN Len(s) - 1 + 1 ELSE 0
      /\ \A k \in 1 .. Len(s) - 1 + 1 : SubSeq(t, 1, Len(s))[k] = t[1 + k - 1]
  BY <1>4, <1>5, <1>6, SubSeqProperties
<1>9. /\ Len(s) - 1 + 1 = Len(s) /\ \A k \in 1 .. Len(s) : 1 + k - 1 = k
      /\ (IF 1 <= Len(s) THEN Len(s) - 1 + 1 ELSE 0) = Len(s)
  BY <1>4
<1> DEFINE a == SubSeq(s, 1, Len(s))
           b == SubSeq(t, 1, Len(s))
<1>10. /\ a \in Seq(Nat) /\ b \in Seq(Nat) /\ Len(a) = Len(s) /\ Len(b) = Len(s)
       /\ \A k \in 1 .. Len(s) : a[k] = s[k] /\ b[k] = t[k]
  BY <1>7, <1>8, <1>9
<1> HIDE DEF a, b
<1>11. a = b
  BY <1>3, <1>10, SeqEqual
<1>12. IsPrefix(s, t)
  BY <1>3, <1>11 DEF IsPrefix, a, b
<1> QED
  BY <1>12 DEF s, t

LEMMA StopsFromInv ==
  ASSUME NetInv
  PROVE  StopsExplained
BY DEF NetInv, Sound, Alive, StateOk, Dead, StopsExplained

-----------------------------------------------------------------------------
(* The invariant: while packets were queued for one address at most, the   *)
(* lists of drivers/gmac.c, net/netbuf.c, net/udp.c and net/arp.c are      *)
(* whole, every buffer has one owner, the receive ring is full from        *)
(* rx_index on, each port's frames are where they can be delivered in      *)
(* order, and who has sent a reply for each that the board has or had.     *)
THEOREM NetInvariant == SpecNet => []NetInv
<1>1. InitNet => NetInv
  BY NetFirst
<1>2. NetInv /\ [NextNet]_netVars => NetInv'
  BY NetKept
<1> QED
  BY <1>1, <1>2, PTL DEF SpecNet

(* No buffer is in the pool and in a ring, a port's queue or with an       *)
(* application, and no more buffers are lost than frames were dropped:     *)
(* the exchange of gmac_rec_raw and gmac_send_raw, udp_handle, udp_rec and *)
(* free_netbuf keep each buffer in one place.                              *)
THEOREM BuffersStayApart == SpecNet => []BuffersApart
BY NetInvariant, ApartFromInv, PTL

(* udp_rec hands out the packets of a port as gmac_rec_raw took them from  *)
(* the ring: each once, and in order.                                      *)
THEOREM PacketsInOrder == SpecNet => []DeliveredInOrder
BY NetInvariant, DeliveredFromInv, PTL

(* alloc_netbuf, gmac_rec_raw and mac_unqueue meet no broken list, and     *)
(* arp_handle_reply no reply without its entry, before packets wait for a  *)
(* second address, an address is asked for again or a host sends more      *)
(* replies than it was asked for; and gmac_send_raw's assertions on the    *)
(* length fail only when an ARP request was answered.                      *)
THEOREM StopsAreExplained == SpecNet => []StopsExplained
BY NetInvariant, StopsFromInv, PTL
=============================================================================
