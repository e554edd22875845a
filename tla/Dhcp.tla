-------------------------------- MODULE Dhcp --------------------------------
(***************************************************************************)
(* The DHCP client of net/dhcp.c: discover, offer, request, ACK, once.     *)
(*                                                                         *)
(* The network may lose, delay, repeat and reorder: a message that was     *)
(* sent stays in wire and is received any number of times, or never.  A    *)
(* received message that the client does not take changes nothing.  What   *)
(* servers send to other hosts is received too: the MAC takes every frame, *)
(* and nothing above it looks at where a frame goes or for whom a message  *)
(* is.  The servers are external: they follow RFC 2131.                    *)
(***************************************************************************)
EXTENDS Integers, FiniteSets

CONSTANTS
  DhcpServers,  (* Each has an address and one address to give.            *)
  Tid,          (* The transaction number, 0xC0DEBABE in every client.     *)
  OtherTid,     (* That of a client which is another program.              *)
  Unset         (* The address 0.0.0.0.                                    *)

ASSUME DhcpAssumption == IsFiniteSet(DhcpServers)

(* The addresses that a server gives: to this host and to another one.     *)
Given(s) == <<s, "ours">>
Elsewhere(s) == <<s, "theirs">>
NoAddress == <<Unset, "none">>

VARIABLES
  others,    (* The transaction numbers that other hosts use: Tid is there *)
             (* if another board runs this program.                        *)
  wire,      (* Every message that has been sent.                          *)
  router,    (* The router option of each server's offers; Unset for none. *)
  lease,     (* What each server has granted to this host.                 *)
  dhcp,      (* The step of dhcp_thread.                                   *)
  ipStruct,  (* Its ip_struct: our_ip and server_ip[0].                    *)
  ourIp      (* The address of net/ip.c's ip_struct, set_ip_struct.        *)

dhcpVars == <<others, wire, router, lease, dhcp, ipStruct, ourIp>>

Message(type, tid, server, ip) ==
  [type |-> type, tid |-> tid, server |-> server, ip |-> ip]

InitDhcp ==
  /\ others \in SUBSET {Tid, OtherTid}
  /\ wire = {Message(type, t, s, Elsewhere(s)) :
               type \in {"offer", "ack"}, t \in others, s \in DhcpServers}
  /\ router \in [DhcpServers -> DhcpServers \union {Unset}]
  /\ lease = [s \in DhcpServers |-> NoAddress]
  /\ dhcp = "start"
  /\ ipStruct = [ip |-> NoAddress, server |-> Unset]
  /\ ourIp = NoAddress

(* dhcp_send_discover, after a second of sleep. *)
Discover ==
  /\ dhcp = "start"
  /\ wire' = wire \union {Message("discover", Tid, Unset, NoAddress)}
  /\ dhcp' = "offer"
  /\ UNCHANGED <<others, router, lease, ipStruct, ourIp>>

(* A server offers its address, and names the router of the network.       *)
ServerOffer(s) ==
  /\ Message("discover", Tid, Unset, NoAddress) \in wire
  /\ wire' = wire \union {Message("offer", Tid, s, Given(s))}
  /\ UNCHANGED <<others, router, lease, dhcp, ipStruct, ourIp>>

(* is_dhcp_reply_valid and get_dhcp_type. *)
Valid(m, type) == m.type = type /\ m.tid = Tid

(* dhcp_parse_offer: takes the address and the router.  An offer without   *)
(* one leaves server_cnt as the stack had it: the assertion fails, or what *)
(* lies in the stack is the server's address.                              *)
ReceiveOffer ==
  /\ dhcp = "offer"
  /\ \E m \in wire :
       /\ Valid(m, "offer")
       /\ IF router[m.server] # Unset
          THEN ipStruct' = [ip |-> m.ip, server |-> router[m.server]] /\ dhcp' = "request"
          ELSE ipStruct' = [ip |-> m.ip, server |-> Unset] /\ dhcp' \in {"panic", "request"}
  /\ UNCHANGED <<others, wire, router, lease, ourIp>>

(* dhcp_send_request: the router is what it names as the server.           *)
SendRequest ==
  /\ dhcp = "request"
  /\ wire' = wire \union {Message("request", Tid, ipStruct.server, ipStruct.ip)}
  /\ dhcp' = "ack"
  /\ UNCHANGED <<others, router, lease, ipStruct, ourIp>>

(* The server that is named grants what it offered and refuses the rest.   *)
ServerAnswer(s) ==
  /\ \E m \in wire :
       /\ m.type = "request" /\ m.server = s
       /\ IF m.ip = Given(s)
          THEN /\ wire' = wire \union {Message("ack", Tid, s, m.ip)}
               /\ lease' = [lease EXCEPT ![s] = m.ip]
          ELSE wire' = wire \union {Message("nak", Tid, s, m.ip)} /\ UNCHANGED lease
  /\ UNCHANGED <<others, router, dhcp, ipStruct, ourIp>>

(* Variant: the type of the message is not looked at. *)
ReceiveAnyReply ==
  /\ dhcp = "ack"
  /\ \E m \in wire : m.tid = Tid /\ m.type \in {"offer", "ack", "nak"}
  /\ ourIp' = ipStruct.ip
  /\ dhcp' = "bound"
  /\ UNCHANGED <<others, wire, router, lease, ipStruct>>

(* dhcp_parse_ack and set_ip_struct. *)
ReceiveAck ==
  /\ dhcp = "ack"
  /\ \E m \in wire : Valid(m, "ack")
  /\ ourIp' = ipStruct.ip
  /\ dhcp' = "bound"
  /\ UNCHANGED <<others, wire, router, lease, ipStruct>>

DhcpNext ==
  \/ Discover \/ ReceiveOffer \/ SendRequest \/ ReceiveAck
  \/ \E s \in DhcpServers : ServerOffer(s) \/ ServerAnswer(s)

(* The host uses an address only if a server has granted it this address,  *)
(* although the client looks neither at who answers nor at the address in  *)
(* the answer, and names the router as the server: unless another board on *)
(* the network runs this program, with the same transaction number.        *)
AddressIsGranted ==
  ourIp # NoAddress /\ Tid \notin others => \E s \in DhcpServers : lease[s] = ourIp
=============================================================================
