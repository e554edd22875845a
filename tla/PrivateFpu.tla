----------------------------- MODULE PrivateFpu -----------------------------
(***************************************************************************)
(* What lazy FPU switching promises the threads: each of them has an FPU   *)
(* of its own.  An instruction reads and writes the registers of the       *)
(* thread that runs, and a switch of threads changes no register.          *)
(***************************************************************************)
CONSTANTS
  Users,   (* The threads.                                                 *)
  Nobody,  (* No thread runs yet.                                          *)
  Values,  (* Contents of the register bank.                               *)
  Zero     (* The contents a thread starts with.                           *)

VARIABLES
  running,  (* The thread on the CPU.                                      *)
  regs,     (* The registers of every thread.                              *)
  seen      (* The thread and the contents the last read returned.         *)

pvars == <<running, regs, seen>>

PInit ==
  /\ running = Nobody
  /\ regs = [t \in Users |-> Zero]
  /\ seen = <<Nobody, Zero>>

PSwitch(t) == running' = t /\ UNCHANGED <<regs, seen>>

PWrite(v) ==
  /\ running # Nobody
  /\ regs' = [regs EXCEPT ![running] = v]
  /\ UNCHANGED <<running, seen>>

PRead ==
  /\ running # Nobody
  /\ seen' = <<running, regs[running]>>
  /\ UNCHANGED <<running, regs>>

PNext ==
  \/ \E t \in Users : PSwitch(t)
  \/ \E v \in Values : PWrite(v)
  \/ PRead

PSpec == PInit /\ [][PNext]_pvars
=============================================================================
