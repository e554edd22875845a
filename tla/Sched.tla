------------------------------- MODULE Sched -------------------------------
(***************************************************************************)
(* The core scheduler of the kernel: kernel/sched.c with its scheduling    *)
(* classes (rt.c, fair.c, back.c, idle.c), the sleep system call and the   *)
(* context switch at the end of every IRQ and SVC (arch/irq.s).            *)
(*                                                                         *)
(* There is one CPU.  The handlers run with the thread stopped: an SVC has *)
(* IRQs masked, and all APIC sources have the same priority, so that no    *)
(* handler interrupts another.  `pc' says how far the running handler is;  *)
(* "thread" means that no handler runs and thread `curr' executes.         *)
(***************************************************************************)
EXTENDS Naturals, SequencesExt

CONSTANTS
  Threads,     (* Thread control blocks, Idle excluded.                    *)
  Idle,        (* The thread add_idle creates, in the idle class.          *)
  NULL,
  Class,       (* thread->class of every thread of Threads.                *)
  SCHED_SLICE, (* Microseconds between two timer interrupts.               *)
  SleepArgs,   (* The arguments given to syscall_thread_sleep.             *)
  UsPerMs,     (* The factor 1000 of sched_thread_sleep.                   *)
  U32,         (* 2^32: ms * 1000 is a 32-bit product.                     *)
  Horizon      (* Bound on the tick: no slice is counted from here on.     *)

Queues   == {"rt", "fair", "back"}   \* the classes that have a list
Lists    == Queues \union {"sleep"}  \* all lists that use thread->node
PCs      == {"boot", "thread", "wake", "pick", "start", "context"}
AllThreads == Threads \union {Idle}

ASSUME ThreadAssumption ==
  /\ Idle \notin Threads
  /\ NULL \notin AllThreads
  /\ Class \in [Threads -> Queues]

ASSUME TimeAssumption ==
  /\ SCHED_SLICE \in Nat \ {0}
  /\ SleepArgs \subseteq Nat
  /\ UsPerMs \in Nat
  /\ U32 \in Nat \ {0}
  /\ Horizon \in Nat

VARIABLES
  next,        (* rq.next: the thread to switch to, NULL if none.          *)
  curr,        (* rq.curr: the thread on the CPU, NULL before the first.   *)
  list,        (* The run queues and the sleep list, heads first.          *)
  tick,        (* rq.time.tick                                             *)
  tickToWake,  (* rq.time.tick_to_wake, 0 standing for "nobody sleeps".    *)
  wakeTick,    (* thread->tick_to_wake                                     *)
  state,       (* thread->state                                            *)
  runtime,     (* thread->runtime                                          *)
  created,     (* rq.thread_list                                           *)
  pc           (* What the CPU executes.                                   *)

vars == <<next, curr, list, tick, tickToWake, wakeTick, state, runtime,
          created, pc>>

-----------------------------------------------------------------------------
(* State after sched_init: empty lists, and the idle thread created. *)
Init ==
  /\ next = NULL
  /\ curr = NULL
  /\ list = [l \in Lists |-> <<>>]
  /\ tick = 0
  /\ tickToWake = 0
  /\ wakeTick = [t \in AllThreads |-> 0]
  /\ state = [t \in AllThreads |-> "THREAD_RUNNING"]
  /\ runtime = [t \in AllThreads |-> 0]
  /\ created = {Idle}
  /\ pc = "boot"

(* The position of thread t in list s. *)
Position(s, t) == CHOOSE i \in DOMAIN s : s[i] = t

(* Variant: the node is not unlinked from its queue. *)
KeepInQueue(s, t) == s

(* list_delete_node *)
Delete(s, t) == RemoveAt(s, Position(s, t))

(* The microseconds sched_thread_sleep adds to the tick: the product is    *)
(* computed in 32 bits and widened afterwards.                             *)
Delay(ms) == (ms * UsPerMs) % U32

(* Where add_sleep_list puts a thread that wakes at tick w: before the     *)
(* first sleeper that does not wake earlier, last if there is none.        *)
SleepPosition(s, w) ==
  CHOOSE i \in 1 .. Len(s) + 1 :
    /\ \A j \in 1 .. i - 1 : wakeTick[s[j]] < w
    /\ i <= Len(s) => wakeTick[s[i]] >= w

(* Variant: nothing is added when no later sleeper is found. *)
InsertBeforeOnly(s, t, w) ==
  IF SleepPosition(s, w) > Len(s) THEN s ELSE InsertAt(s, SleepPosition(s, w), t)

(* list_add_before / list_add_last *)
InsertSleeper(s, t, w) == InsertAt(s, SleepPosition(s, w), t)

(* Variant: the tick is compared before the slice has been added. *)
CoreSchedOldTick(elapsed, ttw) ==
  /\ tick' = tick + elapsed
  /\ runtime' = IF curr = NULL THEN runtime
                ELSE [runtime EXCEPT ![curr] = @ + elapsed]
  /\ pc' = IF tick > ttw /\ ttw # 0 THEN "wake" ELSE "pick"

(* The first half of core_sched: account the time that has passed and      *)
(* decide whether expired sleepers are to be enqueued; ttw is the value    *)
(* of rq.time.tick_to_wake at that point.                                  *)
CoreSched(elapsed, ttw) ==
  /\ tick' = tick + elapsed
  /\ runtime' = IF curr = NULL THEN runtime
                ELSE [runtime EXCEPT ![curr] = @ + elapsed]
  /\ pc' = IF tick' > ttw /\ ttw # 0 THEN "wake" ELSE "pick"

-----------------------------------------------------------------------------
(* create_kthread, create_thread and create_process: the new thread goes   *)
(* on the global list and last in the queue of its class.  They are called *)
(* by main before the scheduler runs, by interrupt handlers (the SD card   *)
(* insertion, the application loader) and by a system call; from an        *)
(* exception the context switch code follows.                              *)
CreateThread(t) ==
  /\ pc \in {"boot", "thread"}
  /\ t \notin created
  /\ created' = created \union {t}
  /\ state' = [state EXCEPT ![t] = "THREAD_RUNNING"]
  /\ list' = [list EXCEPT ![Class[t]] = Append(@, t)]
  /\ pc' = IF pc = "boot" THEN "boot" ELSE "context"
  /\ UNCHANGED <<next, curr, tick, tickToWake, wakeTick, runtime>>

(* sched_start calls core_sched without setting its second argument: the   *)
(* register holds garbage.  A non-zero value reads the timer that was just *)
(* started, zero charges a whole slice.                                    *)
SchedStart(elapsed) ==
  /\ pc = "boot"
  /\ elapsed \in {0, SCHED_SLICE}
  /\ CoreSched(elapsed, tickToWake)
  /\ UNCHANGED <<next, curr, list, tickToWake, wakeTick, state, created>>

(* cpu_tick_handler *)
CpuTick ==
  /\ pc = "thread"
  /\ tick < Horizon
  /\ CoreSched(SCHED_SLICE, tickToWake)
  /\ UNCHANGED <<next, curr, list, tickToWake, wakeTick, state, created>>

(* A slice beyond the horizon: the handler runs and its time is not        *)
(* counted, so that fairness can be studied over infinite behaviours.      *)
LateTick ==
  /\ pc = "thread"
  /\ tick >= Horizon
  /\ CoreSched(0, tickToWake)
  /\ UNCHANGED <<next, curr, list, tickToWake, wakeTick, state, created>>

(* sched_thread_sleep, with add_sleep_list: `elapsed' is what              *)
(* cpu_timer_get_value_us returns.  The idle class has no dequeue; the     *)
(* idle thread never sleeps.                                               *)
ThreadSleep(ms, elapsed) ==
  LET w   == tick + Delay(ms)
      ttw == IF w < tickToWake \/ tickToWake = 0 THEN w ELSE tickToWake
  IN  /\ pc = "thread"
      /\ curr \in Threads
      /\ elapsed \in 0 .. SCHED_SLICE - 1
      /\ tick + Delay(ms) < Horizon
      /\ wakeTick' = [wakeTick EXCEPT ![curr] = w]
      /\ state' = [state EXCEPT ![curr] = "THREAD_SLEEP"]
      /\ tickToWake' = ttw
      /\ list' = [list EXCEPT ![Class[curr]] = Delete(@, curr),
                              !["sleep"] = InsertSleeper(@, curr, w)]
      /\ CoreSched(elapsed, ttw)
      /\ UNCHANGED <<next, curr, created>>

(* Variant: a pass wakes every sleeper, expired or not. *)
WakeAnyone ==
  LET t == Head(list["sleep"])
  IN  /\ pc = "wake"
      /\ list["sleep"] # <<>>
      /\ list' = [list EXCEPT !["sleep"] = Tail(@), ![Class[t]] = Append(@, t)]
      /\ UNCHANGED <<next, curr, tick, tickToWake, wakeTick, state, runtime,
                     created, pc>>

(* One iteration of enqueue_sleeping_threads: the first sleeper has        *)
(* expired and goes last in the queue of its class; its state field is     *)
(* left as it is.                                                          *)
WakeOne ==
  LET t == Head(list["sleep"])
  IN  /\ pc = "wake"
      /\ list["sleep"] # <<>>
      /\ wakeTick[t] <= tick
      /\ list' = [list EXCEPT !["sleep"] = Tail(@), ![Class[t]] = Append(@, t)]
      /\ UNCHANGED <<next, curr, tick, tickToWake, wakeTick, state, runtime,
                     created, pc>>

(* Variant: the tick to wake is not moved on to the next sleeper. *)
WakeDoneForgets ==
  /\ pc = "wake"
  /\ list["sleep"] # <<>> => wakeTick[Head(list["sleep"])] > tick
  /\ tickToWake' = 0
  /\ pc' = "pick"
  /\ UNCHANGED <<next, curr, list, tick, wakeTick, state, runtime, created>>

(* The end of enqueue_sleeping_threads: the next tick to wake. *)
WakeDone ==
  /\ pc = "wake"
  /\ \/ /\ list["sleep"] = <<>>
        /\ tickToWake' = 0
     \/ /\ list["sleep"] # <<>>
        /\ wakeTick[Head(list["sleep"])] > tick
        /\ tickToWake' = wakeTick[Head(list["sleep"])]
  /\ pc' = "pick"
  /\ UNCHANGED <<next, curr, list, tick, wakeTick, state, runtime, created>>

(* Variant: the picked thread stays first. *)
PickWithoutRotation(q) ==
  /\ list[q] # <<>>
  /\ next' = IF Head(list[q]) # curr THEN Head(list[q]) ELSE next
  /\ UNCHANGED list

(* Variant: a queue of one thread is taken to be the running thread's. *)
PickSingleSkipped(q) ==
  /\ list[q] # <<>>
  /\ list' = [list EXCEPT ![q] = Append(Tail(@), Head(@))]
  /\ next' = IF Len(list[q]) > 1 /\ Head(list[q]) # curr THEN Head(list[q])
             ELSE IF curr = NULL THEN Head(list[q]) ELSE next

(* pick_next of a class with a queue: its first thread, moved last. *)
PickQueue(q) ==
  /\ list[q] # <<>>
  /\ list' = [list EXCEPT ![q] = Append(Tail(@), Head(@))]
  /\ next' = IF Head(list[q]) # curr THEN Head(list[q]) ELSE next

(* Variant: the classes are asked in the wrong order. *)
PickNextBackFirst ==
  /\ pc = "pick"
  /\ \/ PickQueue("back")
     \/ list["back"] = <<>> /\ PickQueue("fair")
     \/ list["back"] = <<>> /\ list["fair"] = <<>> /\ PickQueue("rt")
     \/ /\ \A q \in Queues : list[q] = <<>>
        /\ next' = IF Idle # curr THEN Idle ELSE next
        /\ UNCHANGED list
  /\ pc' = IF curr = NULL THEN "start" ELSE "context"
  /\ UNCHANGED <<curr, tick, tickToWake, wakeTick, state, runtime, created>>

(* core_pick_next goes through the classes in order, the idle class last,  *)
(* and core_sched asks for a context switch if the thread is another one.  *)
PickNext ==
  /\ pc = "pick"
  /\ \/ PickQueue("rt")
     \/ list["rt"] = <<>> /\ PickQueue("fair")
     \/ list["rt"] = <<>> /\ list["fair"] = <<>> /\ PickQueue("back")
     \/ /\ \A q \in Queues : list[q] = <<>>
        /\ next' = IF Idle # curr THEN Idle ELSE next
        /\ UNCHANGED list
  /\ pc' = IF curr = NULL THEN "start" ELSE "context"
  /\ UNCHANGED <<curr, tick, tickToWake, wakeTick, state, runtime, created>>

(* The second half of sched_start: enter the first thread. *)
StartFirst ==
  /\ pc = "start"
  /\ next # NULL
  /\ curr' = next
  /\ next' = NULL
  /\ pc' = "thread"
  /\ UNCHANGED <<list, tick, tickToWake, wakeTick, state, runtime, created>>

(* context_core: the end of every IRQ and SVC. *)
ContextCore ==
  /\ pc = "context"
  /\ \/ next # NULL /\ curr' = next /\ next' = NULL
     \/ next = NULL /\ UNCHANGED <<curr, next>>
  /\ pc' = "thread"
  /\ UNCHANGED <<list, tick, tickToWake, wakeTick, state, runtime, created>>

-----------------------------------------------------------------------------
Handler == WakeOne \/ WakeDone \/ PickNext \/ StartFirst \/ ContextCore

Next ==
  \/ \E t \in Threads : CreateThread(t)
  \/ \E elapsed \in {0, SCHED_SLICE} : SchedStart(elapsed)
  \/ CpuTick
  \/ LateTick
  \/ \E ms \in SleepArgs, elapsed \in 0 .. SCHED_SLICE - 1 :
       ThreadSleep(ms, elapsed)
  \/ Handler

Spec == Init /\ [][Next]_vars

(* main calls sched_start; a handler runs to its end; the timer keeps      *)
(* interrupting.  Nothing says that a thread calls the kernel.             *)
Fairness ==
  /\ WF_vars(\E elapsed \in {0, SCHED_SLICE} : SchedStart(elapsed))
  /\ WF_vars(CpuTick \/ LateTick)
  /\ WF_vars(Handler)

FairSpec == Spec /\ Fairness

-----------------------------------------------------------------------------
(* Type invariant. *)
TypeOK ==
  /\ next \in AllThreads \union {NULL}
  /\ curr \in AllThreads \union {NULL}
  /\ list \in [Lists -> Seq(Threads)]
  /\ tick \in Nat
  /\ tickToWake \in Nat
  /\ wakeTick \in [AllThreads -> Nat]
  /\ state \in [AllThreads -> {"THREAD_RUNNING", "THREAD_SLEEP"}]
  /\ runtime \in [AllThreads -> Nat]
  /\ created \in SUBSET AllThreads
  /\ pc \in PCs

(* A thread is linked through the single field thread->node, so it may be  *)
(* in one list only, and there once: add_sleep_list asks for it ("the      *)
(* thread must NOT exist in any list at this point").                      *)
LinkedOnce ==
  /\ \A l \in Lists : IsInjective(list[l])
  /\ \A l, m \in Lists : l # m => Range(list[l]) \intersect Range(list[m]) = {}

(* No thread is lost: whatever was created and is not the idle thread is   *)
(* in the run queue of its own class or in the sleep list, and nothing     *)
(* that was not created is in a list.                                      *)
NoThreadLost ==
  /\ \A t \in created \ {Idle} :
       t \in Range(list[Class[t]]) \union Range(list["sleep"])
  /\ \A l \in Lists : Range(list[l]) \subseteq created
  /\ \A q \in Queues : \A t \in Range(list[q]) : Class[t] = q

(* The sleep list is sorted by the tick to wake ("the thread with the      *)
(* shortest time left to sleep will be placed in front of the queue").     *)
SleepSorted ==
  LET s == list["sleep"]
  IN  \A i, j \in 1 .. Len(s) : i < j => wakeTick[s[i]] <= wakeTick[s[j]]

(* rq.next is NULL whenever no scheduling pass is under way: "if this      *)
(* field is non-zero any interrupt will trigger a context switch".         *)
NextOnlyInHandler == pc \in {"boot", "thread", "wake", "pick"} => next = NULL

(* A thread that can be given the CPU: it is in its run queue, or it is    *)
(* the idle thread.                                                        *)
Runnable(t) == t = Idle \/ (t \in Threads /\ t \in Range(list[Class[t]]))

(* The CPU is only given to a runnable thread: a thread that sleeps never  *)
(* executes, and sched_thread_sleep finds its caller in its class queue.   *)
CurrRunnable ==
  /\ pc = "thread" => Runnable(curr)
  /\ pc = "context" => Runnable(IF next = NULL THEN curr ELSE next)
  /\ pc = "start" => Runnable(next)

(* Tick 0 stands for "nobody sleeps" in rq.time.tick_to_wake, and a thread *)
(* that asks for no time during the first slice has it as its tick to wake.*)
ZeroSleeper == \E t \in Range(list["sleep"]) : wakeTick[t] = 0

(* rq.time.tick_to_wake is "the next tick to wake - if any".               *)
TickToWakeIsNext ==
  pc # "wake" /\ ~ZeroSleeper =>
    tickToWake = IF list["sleep"] = <<>> THEN 0
                 ELSE wakeTick[Head(list["sleep"])]

(* Whenever a thread executes, no sleeper is overdue: the quick test of    *)
(* rq.time.tick_to_wake misses nobody.                                     *)
NoOverdueSleeper ==
  pc = "thread" /\ ~ZeroSleeper =>
    \A t \in Range(list["sleep"]) : wakeTick[t] >= tick

(* The rank of a thread in the order of the classes. *)
Rank(t) == IF t = Idle THEN 4
           ELSE CASE Class[t] = "rt" -> 1 [] Class[t] = "fair" -> 2
                  [] OTHER -> 3

(* A scheduling pass leaves the CPU to a thread of the most urgent class   *)
(* that has a runnable thread, the ones the pass itself woke included.     *)
PassChoosesMostUrgent ==
  [][pc = "pick" =>
       LET new == IF next' = NULL THEN curr' ELSE next'
       IN  \A q \in Queues : \A t \in Range(list'[q]) :
             Rank(new) <= Rank(t)]_vars

(* Every sleeper is made runnable, whatever the order in which sleeps and  *)
(* wake-ups move rq.time.tick_to_wake, unless somebody has tick 0 as the   *)
(* tick to wake.                                                           *)
EverySleeperWakes ==
  []~ZeroSleeper =>
    \A t \in Threads :
      t \in Range(list["sleep"]) ~> t \in Range(list[Class[t]])

(* Round robin in the real-time class: a runnable thread gets the CPU. *)
RealTimeProgress ==
  \A t \in {u \in Threads : Class[u] = "rt"} :
    t \in Range(list["rt"]) ~> curr = t
=============================================================================
