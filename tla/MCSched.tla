------------------------------- MODULE MCSched -------------------------------
(* Sched on one CPU with two real-time threads and one of the class Third. *)
EXTENDS Sched

CONSTANTS t1, t2, t3, Third

MCClass == [t \in Threads |-> IF t = t3 THEN Third ELSE "rt"]
=============================================================================
