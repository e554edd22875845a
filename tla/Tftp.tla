-------------------------------- MODULE Tftp --------------------------------
(***************************************************************************)
(* The TFTP client of net/tftp.c, over the address that the DHCP client    *)
(* sets: main starts both threads, and nothing orders them.                *)
(*                                                                         *)
(* A file is a sequence of blocks; all but the last are full.  The server  *)
(* is external (RFC 1350 and 2347): it answers a host that has an address, *)
(* sends its last packet again when it has waited too long for an ACK, and *)
(* may give up with an error.  Sent packets are in toServer and toClient   *)
(* until they arrive or are lost, in any order; the network may deliver    *)
(* one twice.  The client looks neither at the sender nor at its port, so  *)
(* that packets of strangers come in too.                                  *)
(***************************************************************************)
EXTENDS Dhcp, Sequences, SequencesExt

CONSTANTS
  MaxBlocks,  (* Bound on the length of the file, in blocks.               *)
  Wrap,       (* 2^16: the block numbers of packets.                       *)
  Strange     (* The packets of strangers: of the server for other hosts,  *)
              (* or for a transfer before the board was reset.             *)

NotOurs == [at : {0}, full : BOOLEAN]
StrangePackets ==
  [type : {"options", "error"}]
    \union [type : {"data"}, number : 0 .. Wrap - 1, block : NotOurs]

ASSUME TftpAssumption ==
  MaxBlocks \in Nat \ {0} /\ Wrap \in Nat \ {0} /\ Strange \subseteq StrangePackets

VARIABLES
  file,       (* The server's blocks: their place and whether full.        *)
  buffer,     (* What the client has copied.                               *)
  tftp,       (* The step of tftp_download.                                *)
  block,      (* block_number, a u32.                                      *)
  toServer, toClient,
  position,   (* The server: -1 idle, 0 options sent, n block n sent.      *)
  lost,       (* History: a packet was lost,                               *)
  again,      (* the client was sent or brought a packet again, or the     *)
              (* request came again,                                       *)
  refused,    (* the server has sent an error,                             *)
  stray       (* a stranger's packet was sent to the client.               *)

disturbances == <<lost, again, refused, stray>>
tftpVars == <<file, buffer, tftp, block, toServer, toClient, position, disturbances>>
vars == <<dhcpVars, tftpVars>>

Block(n, last) == [at |-> n, full |-> n # last]

InitTftp ==
  /\ \E n \in 1 .. MaxBlocks : file = [i \in 1 .. n |-> Block(i, n)]
  /\ buffer = <<>>
  /\ tftp = "start"
  /\ block = 1
  /\ toServer = {} /\ toClient = {}
  /\ position = -1
  /\ lost = FALSE /\ again = FALSE /\ refused = FALSE /\ stray = FALSE

(* The packets: a read request, ACKs, the options, an error, data. *)
Request(from) == [type |-> "request", ip |-> from]
Ack(n) == [type |-> "ack", number |-> n % Wrap]
Options == [type |-> "options"]
Error == [type |-> "error"]
Data(n) == [type |-> "data", number |-> n % Wrap, block |-> file[n]]

(* tftp_download's first packet, with get_src_ip() as its source. *)
SendRead ==
  /\ tftp = "start"
  /\ toServer' = toServer \union {Request(ourIp)}
  /\ tftp' = "options"
  /\ UNCHANGED <<file, buffer, block, toClient, position, disturbances>>

(* A packet comes to the client, and the network may keep a second copy.   *)
Arrives(m) ==
  /\ \/ toClient' = toClient \ {m} /\ UNCHANGED again
     \/ again' = TRUE /\ UNCHANGED toClient
  /\ UNCHANGED <<lost, refused, stray>>

(* Variant: the options are not acknowledged. *)
ReceiveOptionsOnly(m) ==
  /\ tftp = "options"
  /\ Arrives(m)
  /\ tftp' = IF m.type = "options" THEN "data" ELSE "panic"
  /\ UNCHANGED <<file, buffer, block, toServer, position>>

(* get_filesize and ack_opt_ack; with anything but options tftp_download   *)
(* returns an error, at which main's thread panics.                        *)
ReceiveOptions(m) ==
  /\ tftp = "options"
  /\ Arrives(m)
  /\ IF m.type = "options"
     THEN tftp' = "data" /\ toServer' = toServer \union {Ack(0)}
     ELSE tftp' = "panic" /\ UNCHANGED toServer
  /\ UNCHANGED <<file, buffer, block, position>>

(* The loop of tftp_download takes a block and acknowledges it. *)
TakeBlock(m) ==
  /\ buffer' = Append(buffer, m.block)
  /\ toServer' = toServer \union {Ack(block)}
  /\ block' = block + 1
  /\ tftp' = IF m.block.full THEN "data" ELSE "done"

(* Variant: the block number is not compared. *)
ReceiveAnyData(m) ==
  /\ tftp = "data"
  /\ Arrives(m)
  /\ IF m.type = "data" THEN TakeBlock(m)
     ELSE tftp' = "panic" /\ UNCHANGED <<buffer, toServer, block>>
  /\ UNCHANGED <<file, position>>

(* Variant: block_number counts from zero. *)
ReceiveNextData(m) ==
  /\ tftp = "data"
  /\ Arrives(m)
  /\ IF m.type = "data" /\ m.number = block - 1 THEN TakeBlock(m)
     ELSE tftp' = "panic" /\ UNCHANGED <<buffer, toServer, block>>
  /\ UNCHANGED <<file, position>>

(* The loop of tftp_download: the 16-bit number of a packet is compared    *)
(* with the 32-bit block_number; a wrong number or type panics.            *)
ReceiveData(m) ==
  /\ tftp = "data"
  /\ Arrives(m)
  /\ IF m.type = "data" /\ m.number = block THEN TakeBlock(m)
     ELSE tftp' = "panic" /\ UNCHANGED <<buffer, toServer, block>>
  /\ UNCHANGED <<file, position>>

ClientStep ==
  SendRead \/ \E m \in toClient : ReceiveOptions(m) \/ ReceiveData(m)

(* The server: options or an error for a request.  One that comes again    *)
(* begins another session, of which the client only gets the first packet. *)
ServerStart(m) ==
  /\ m.type = "request" /\ m.ip # NoAddress
  /\ toServer' \in {toServer, toServer \ {m}}
  /\ \/ /\ toClient' = toClient \union {Options}
        /\ position' = IF position = -1 THEN 0 ELSE position
        /\ UNCHANGED refused
     \/ toClient' = toClient \union {Error} /\ refused' = TRUE /\ UNCHANGED position
  /\ again' = (again \/ m \in toServer')
  /\ UNCHANGED <<file, buffer, tftp, block, lost, stray>>

(* The next block for an ACK of the last one.  It may have come before:    *)
(* the server takes no notice of an ACK that it does not wait for.         *)
ServerAck(m) ==
  /\ m.type = "ack"
  /\ toServer' \in {toServer, toServer \ {m}}
  /\ IF position \in 0 .. Len(file) - 1 /\ m = Ack(position)
     THEN /\ toClient' = toClient \union {Data(position + 1)}
          /\ position' = position + 1
     ELSE UNCHANGED <<toClient, position>>
  /\ UNCHANGED <<file, buffer, tftp, block, disturbances>>

ServerStep == \E m \in toServer : ServerStart(m) \/ ServerAck(m)

ServerResend ==
  /\ position >= 0
  /\ toClient' = toClient \union {IF position = 0 THEN Options ELSE Data(position)}
  /\ again' = TRUE
  /\ UNCHANGED <<file, buffer, tftp, block, toServer, position, lost, refused, stray>>

(* The server gives up in the middle of a transfer. *)
ServerAbort ==
  /\ position >= 0
  /\ toClient' = toClient \union {Error}
  /\ position' = -1
  /\ refused' = TRUE
  /\ UNCHANGED <<file, buffer, tftp, block, toServer, lost, again, stray>>

StrayPacket ==
  /\ \E m \in Strange : toClient' = toClient \union {m}
  /\ stray' = TRUE
  /\ UNCHANGED <<file, buffer, tftp, block, toServer, position, lost, again, refused>>

Lose ==
  /\ \/ \E m \in toServer : toServer' = toServer \ {m} /\ UNCHANGED toClient
     \/ \E m \in toClient : toClient' = toClient \ {m} /\ UNCHANGED toServer
  /\ lost' = TRUE
  /\ UNCHANGED <<file, buffer, tftp, block, position, again, refused, stray>>

TftpNext ==
  ClientStep \/ ServerStep \/ ServerResend \/ ServerAbort \/ StrayPacket \/ Lose

(* A kernel that has panicked does nothing more.                           *)
Running == dhcp # "panic" /\ tftp # "panic"

Init == InitDhcp /\ InitTftp
Next ==
  /\ Running
  /\ \/ DhcpNext /\ UNCHANGED tftpVars
     \/ TftpNext /\ UNCHANGED dhcpVars

(* The client's thread polls, and the server answers; no packet need come. *)
Fairness ==
  /\ WF_vars(Running /\ ClientStep /\ UNCHANGED dhcpVars)
  /\ WF_vars(Running /\ ServerStep /\ UNCHANGED dhcpVars)

Spec == Init /\ [][Next]_vars /\ Fairness

-----------------------------------------------------------------------------
(* The buffer that tftp_download fills is a copy of the file, block after  *)
(* block, whatever is lost or comes again; when it returns 0, all of it.   *)
(* A stranger's packet ends the promise: it may be taken for a block.      *)
Copy == INSTANCE FileCopy WITH
  Blocks <- [at : 1 .. MaxBlocks, full : BOOLEAN],
  copy <- buffer, complete <- tftp = "done", disturbed <- stray
CopiesFile == Copy!Spec

(* The transfer is not one of the right server's packets, each of them     *)
(* once, or the file has as many blocks as the packets have numbers.       *)
Disturbed == again \/ refused \/ stray \/ Len(file) >= Wrap

(* A download stops the kernel only if it is disturbed.  In particular a   *)
(* lost packet does not, nor an ACK that comes twice, nor when the address *)
(* comes.                                                                  *)
PanicOnlyIfDisturbed == tftp = "panic" => Disturbed

(* A request that carries an address leads to the file, unless the         *)
(* transfer is disturbed or a packet is lost.  (Or the DHCP client panics.)*)
DownloadEnds ==
  (\E m \in toServer : m.type = "request" /\ m.ip # NoAddress)
    ~> tftp = "done" \/ lost \/ Disturbed \/ dhcp = "panic"
=============================================================================
