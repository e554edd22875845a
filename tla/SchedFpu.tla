------------------------------ MODULE SchedFpu ------------------------------
(***************************************************************************)
(* The scheduler together with lazy FPU switching: the end of a handler    *)
(* disables the FPU when it switches threads (arch/irq.s), and the first   *)
(* FPU instruction after that is undefined and exchanges the registers     *)
(* (arch/fault.c, arch/fpu.s).  rq.lazy_fpu is the thread whose registers  *)
(* are in the bank.                                                        *)
(*                                                                         *)
(* Kernel handlers and main use no floating point, so that only threads    *)
(* execute FPU instructions.                                               *)
(***************************************************************************)
EXTENDS Sched

CONSTANTS
  Values,  (* Contents of the bank s0 - s31.                               *)
  Zero     (* All registers zero: what init_thread_struct stores.          *)

ASSUME FpuAssumption == Zero \in Values

VARIABLES
  enabled,   (* FPEXC.EN                                                   *)
  lazy,      (* rq.lazy_fpu                                                *)
  bank,      (* The registers s0 - s31.                                    *)
  fpuStack,  (* thread->fpu_stack                                          *)
  seen       (* The thread and the contents its last FPU read returned.    *)

fpuVars == <<enabled, lazy, bank, fpuStack, seen>>
allVars == <<vars, fpuVars>>

InitFpu ==
  /\ Init
  /\ enabled = FALSE
  /\ lazy = NULL
  /\ bank \in Values
  /\ fpuStack = [t \in AllThreads |-> Zero]
  /\ seen = <<NULL, Zero>>

(* create_kthread and the like: init_thread_struct clears the registers of *)
(* the new thread.                                                         *)
CreateFpu(t) ==
  /\ CreateThread(t)
  /\ fpuStack' = [fpuStack EXCEPT ![t] = Zero]
  /\ UNCHANGED <<enabled, lazy, bank, seen>>

(* Variant: the FPU stays enabled over a context switch. *)
SwitchKeepsFpu ==
  /\ ContextCore
  /\ UNCHANGED fpuVars

(* context_core: a switch of threads disables the FPU, returning to the    *)
(* same thread does not.                                                   *)
SwitchFpu ==
  /\ ContextCore
  /\ enabled' = (enabled /\ next = NULL)
  /\ UNCHANGED <<lazy, bank, fpuStack, seen>>

(* The steps of the scheduler that do not touch the FPU. *)
SchedOnly ==
  /\ \/ \E elapsed \in {0, SCHED_SLICE} : SchedStart(elapsed)
     \/ CpuTick
     \/ LateTick
     \/ \E ms \in SleepArgs, elapsed \in 0 .. SCHED_SLICE - 1 :
          ThreadSleep(ms, elapsed)
     \/ WakeOne
     \/ WakeDone
     \/ PickNext
     \/ StartFirst
  /\ UNCHANGED fpuVars

(* Variant: the registers of the previous user are not saved. *)
UndefNoSave ==
  /\ pc = "thread"
  /\ ~enabled
  /\ enabled' = TRUE
  /\ bank' = IF lazy = curr THEN bank ELSE fpuStack[curr]
  /\ lazy' = curr
  /\ UNCHANGED <<fpuStack, seen>>
  /\ UNCHANGED vars

(* undef_exception and fpu_context_switch, taken when a thread executes an *)
(* FPU instruction with the FPU disabled; interrupts are masked.  The      *)
(* status register FPSCR, which is neither saved nor loaded, is not in the *)
(* model.                                                                  *)
UndefException ==
  /\ pc = "thread"
  /\ ~enabled
  /\ enabled' = TRUE
  /\ IF lazy = curr
       THEN UNCHANGED <<lazy, bank, fpuStack>>
       ELSE /\ fpuStack' = IF lazy = NULL THEN fpuStack
                           ELSE [fpuStack EXCEPT ![lazy] = bank]
            /\ bank' = fpuStack[curr]
            /\ lazy' = curr
  /\ UNCHANGED <<seen>>
  /\ UNCHANGED vars

(* FPU instructions of the running thread: they write or read registers.   *)
FpuWrite(v) ==
  /\ pc = "thread" /\ enabled
  /\ bank' = v
  /\ UNCHANGED <<enabled, lazy, fpuStack, seen>>
  /\ UNCHANGED vars

FpuRead ==
  /\ pc = "thread" /\ enabled
  /\ seen' = <<curr, bank>>
  /\ UNCHANGED <<enabled, lazy, bank, fpuStack>>
  /\ UNCHANGED vars

NextFpu ==
  \/ \E t \in Threads : CreateFpu(t)
  \/ SwitchFpu
  \/ SchedOnly
  \/ UndefException
  \/ \E v \in Values : FpuWrite(v)
  \/ FpuRead

SpecFpu == InitFpu /\ [][NextFpu]_allVars

-----------------------------------------------------------------------------
(* Type invariant. *)
TypeFpu ==
  /\ enabled \in BOOLEAN
  /\ lazy \in AllThreads \union {NULL}
  /\ bank \in Values
  /\ fpuStack \in [AllThreads -> Values]
  /\ seen \in (AllThreads \union {NULL}) \X Values

(* While the FPU is enabled its registers are those of the running thread. *)
EnabledOwner == enabled => curr # NULL /\ lazy = curr

(* Where the registers of a thread are: in the bank if it is the lazy      *)
(* user, and on its FPU stack otherwise.                                   *)
RegsOf(t) == IF t = lazy THEN bank ELSE fpuStack[t]

Private == INSTANCE PrivateFpu
  WITH Users   <- AllThreads,
       Nobody  <- NULL,
       running <- curr,
       regs    <- [t \in AllThreads |-> RegsOf(t)]

(* Lazy switching gives every thread registers of its own (arch/fpu.s and  *)
(* arch/fault.c implement PrivateFpu).                                     *)
PrivateRegisters == Private!PSpec
=============================================================================
