----------------------------- MODULE MCClients -----------------------------
(* Two DHCP servers, and files of up to as many blocks as wrap the number; *)
(* strangers send an error, and a block with the number of the second one. *)
(*                                                                         *)
(* The two clients share ourIp, which SendRead reads, and nothing else, so *)
(* that their other steps commute.  To keep the product of their states    *)
(* small the DHCP client moves before SendRead only, and SendRead comes    *)
(* when it has not begun, or is done with no more than four messages.      *)
EXTENDS Tftp

CONSTANTS s1, s2

MCStrange ==
  {[type |-> "error"], [type |-> "data", number |-> 2, block |-> [at |-> 0, full |-> TRUE]]}

Settled ==
  /\ others = {} /\ router = [s \in DhcpServers |-> s1]
  /\ dhcp = "start" \/ (dhcp = "bound" /\ Cardinality(wire) = 4)

MCNext ==
  /\ Next
  /\ IF tftp = "start" THEN tftp' = "start" \/ Settled ELSE UNCHANGED dhcpVars

MCSpec == Init /\ [][MCNext]_vars /\ Fairness
=============================================================================
