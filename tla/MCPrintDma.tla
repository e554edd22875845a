----------------------------- MODULE MCPrintDma -----------------------------
(* PrintDma with two threads, one of which prints twice. *)
EXTENDS PrintDma

CONSTANTS p1, p2

Messages == p1 :> 2 @@ p2 :> 1
=============================================================================
