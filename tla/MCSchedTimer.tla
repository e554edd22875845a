---------------------------- MODULE MCSchedTimer ----------------------------
(* SchedTimer with two threads of different classes. *)
EXTENDS SchedTimer

CONSTANTS t1, t2

MCClass == [t \in Threads |-> IF t = t1 THEN "rt" ELSE "fair"]
=============================================================================
