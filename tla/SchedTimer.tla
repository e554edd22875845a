----------------------------- MODULE SchedTimer -----------------------------
(***************************************************************************)
(* The scheduler together with the hardware it measures time with: channel *)
(* 0 of timer 1 (drivers/cpu_timer.c), which counts to RC, starts again    *)
(* from zero and raises interrupt 36, and the pending bit of that          *)
(* interrupt in the APIC.  In Sched the time between two passes is any     *)
(* value; here it is what the counter holds.  `now' is the real time, in   *)
(* counts of the timer.                                                    *)
(***************************************************************************)
EXTENDS Sched

CONSTANTS
  RC,      (* The compare value: counts in one slice (10375 in the code).  *)
  MaxNow   (* Bound on the real time.                                      *)

ASSUME TimerAssumption == RC \in Nat \ {0} /\ MaxNow \in Nat

VARIABLES
  CV,       (* The counter register.                                       *)
  pending,  (* Interrupt 36 waits in the APIC.                             *)
  now,      (* History: counts since cpu_timer_start.                      *)
  sleptAt,  (* History: the real time of a thread's last sleep call.       *)
  asked     (* History: the microseconds of a thread's last sleep call.    *)

timerVars == <<CV, pending, now, sleptAt, asked>>

InitTimed ==
  /\ Init
  /\ CV = 0
  /\ pending = FALSE
  /\ now = 0
  /\ sleptAt = [t \in AllThreads |-> 0]
  /\ asked = [t \in AllThreads |-> 0]

(* One count of the timer, which runs from sched_start on.  An interrupt   *)
(* that comes while the previous one is still pending is lost.             *)
TimerCount ==
  /\ pc # "boot"
  /\ now < MaxNow
  /\ now' = now + 1
  /\ CV' = (CV + 1) % RC
  /\ pending' = (pending \/ CV' = 0)
  /\ UNCHANGED <<sleptAt, asked>>
  /\ UNCHANGED vars

(* The APIC delivers interrupt 36. *)
TimerInterrupt ==
  /\ pending
  /\ pending' = FALSE
  /\ CpuTick
  /\ UNCHANGED <<CV, now, sleptAt, asked>>

(* cpu_timer_get_value_us *)
ValueUs == (CV * SCHED_SLICE) \div RC

(* Variant: the counter goes on, so that the next interrupt charges again   *)
(* the part of the slice that the call has charged.                        *)
TimedSleepNoReset(ms) ==
  /\ ThreadSleep(ms, ValueUs)
  /\ sleptAt' = [sleptAt EXCEPT ![curr] = now]
  /\ asked' = [asked EXCEPT ![curr] = Delay(ms)]
  /\ UNCHANGED <<CV, pending, now>>

(* The sleep system call reads the counter and resets it; the pending bit  *)
(* stays.  The interrupt may be pending: the timer can reach RC after the  *)
(* SVC has masked interrupts and before the counter is read.               *)
TimedSleep(ms) ==
  /\ ThreadSleep(ms, ValueUs)
  /\ CV' = 0
  /\ sleptAt' = [sleptAt EXCEPT ![curr] = now]
  /\ asked' = [asked EXCEPT ![curr] = Delay(ms)]
  /\ UNCHANGED <<pending, now>>

(* Steps that do not touch the timer; sched_start has just started it, so  *)
(* that it reads zero unless the garbage argument charges a whole slice.   *)
Untimed ==
  /\ \/ \E t \in Threads : CreateThread(t)
     \/ \E elapsed \in {0, SCHED_SLICE} : SchedStart(elapsed)
     \/ Handler
  /\ UNCHANGED timerVars

NextTimed ==
  \/ TimerCount
  \/ TimerInterrupt
  \/ \E ms \in SleepArgs : TimedSleep(ms)
  \/ Untimed

SpecTimed == InitTimed /\ [][NextTimed]_<<vars, timerVars>>

-----------------------------------------------------------------------------
(* The kernel tick is never ahead of real time by more than the slice that *)
(* sched_start may charge for nothing, with what the counter and a pending *)
(* interrupt hold still to be added: no pass counts time twice.            *)
TickNotAhead ==
  LET unaccounted == CV + (IF pending THEN RC ELSE 0)
  IN  tick * RC + unaccounted * SCHED_SLICE <= (now + RC) * SCHED_SLICE

(* Left the sleep list in this step. *)
Woken(t) ==
  /\ t \in Range(list["sleep"])
  /\ t \notin Range(list'["sleep"])

(* The tick that a sleep is measured from lags behind: by the counter and  *)
(* by an interrupt that is pending.  So a thread may be made runnable      *)
(* early, but by less than two slices.                                     *)
EarlyByTwoSlicesAtMost ==
  [][\A t \in Threads :
       Woken(t) => (now - sleptAt[t] + 2 * RC - 1) * SCHED_SLICE
                     >= asked[t] * RC]_<<vars, timerVars>>
=============================================================================
