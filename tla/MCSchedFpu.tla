----------------------------- MODULE MCSchedFpu -----------------------------
(* SchedFpu with two threads of one class, so that they preempt each other. *)
EXTENDS SchedFpu

CONSTANTS t1, t2

MCClass == [t \in Threads |-> "rt"]
=============================================================================
