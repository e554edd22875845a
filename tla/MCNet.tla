------------------------------- MODULE MCNet -------------------------------
(* A stack of few buffers, and two hosts that ask and are asked for.       *)
EXTENDS Net, TLC

Alike == Permutations(Peers) \union Permutations(Ports)
=============================================================================
