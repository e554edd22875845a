----------------------------- MODULE SchedProofs -----------------------------
(***************************************************************************)
(* Proofs about Sched and the hardware beside it.  Sched: its type         *)
(* invariant and its safety invariants hold for every set of threads,      *)
(* every slice, every sleep argument and every horizon.  SchedFpu: lazy    *)
(* switching gives every thread registers of its own, however the          *)
(* scheduler switches.  SchedTimer: for every compare value and slice, no  *)
(* time is counted twice and no sleeper wakes two slices early.            *)
(***************************************************************************)
EXTENDS SchedFpu, SchedTimer, ListLemmas

-----------------------------------------------------------------------------
(* Lemmas about the list operations of the scheduler. *)

(* list_delete_node on a list that holds the thread. *)
LEMMA DeleteFacts ==
  ASSUME NEW S, NEW s \in Seq(S), NEW t \in Range(s), IsInjective(s)
  PROVE  /\ Delete(s, t) \in Seq(S)
         /\ Range(Delete(s, t)) = Range(s) \ {t}
         /\ IsInjective(Delete(s, t))
<1>1. \E i \in DOMAIN s : s[i] = t
  BY DEF Range
<1>2. Position(s, t) \in 1 .. Len(s) /\ s[Position(s, t)] = t
  BY <1>1, LenProperties DEF Position
<1> QED
  BY <1>2, RemoveFacts DEF Delete

(* The place where a sleeper is inserted exists: the first that does not   *)
(* wake earlier, or the end of the list.                                   *)
LEMMA SleepPositionFacts ==
  ASSUME NEW S, NEW s \in Seq(S), NEW w \in Nat,
         \A i \in 1 .. Len(s) : wakeTick[s[i]] \in Nat
  PROVE  /\ SleepPosition(s, w) \in 1 .. Len(s) + 1
         /\ \A j \in 1 .. SleepPosition(s, w) - 1 : wakeTick[s[j]] < w
         /\ SleepPosition(s, w) <= Len(s) =>
              wakeTick[s[SleepPosition(s, w)]] >= w
<1> DEFINE Late == {i \in 1 .. Len(s) : wakeTick[s[i]] >= w}
           Good(i) == /\ \A j \in 1 .. i - 1 : wakeTick[s[j]] < w
                      /\ i <= Len(s) => wakeTick[s[i]] >= w
<1>1. \E i \in 1 .. Len(s) + 1 : Good(i)
  <2>1. CASE Late = {}
    <3>1. Good(Len(s) + 1)
      BY <2>1
    <3> QED
      BY <3>1
  <2>2. CASE Late # {}
    <3>1. PICK x \in Late : \A y \in Late : x <= y
      <4>1. Late \in SUBSET Nat
        OBVIOUS
      <4> HIDE DEF Late
      <4> QED
        BY <2>2, <4>1, LeastElement
    <3>2. \A j \in 1 .. x - 1 : wakeTick[s[j]] < w
      BY <3>1
    <3>3. Good(x)
      BY <3>1, <3>2
    <3> QED
      BY <3>1, <3>3
  <2> QED
    BY <2>1, <2>2
<1>2. SleepPosition(s, w) = CHOOSE i \in 1 .. Len(s) + 1 : Good(i)
  BY DEF SleepPosition
<1>3. SleepPosition(s, w) \in 1 .. Len(s) + 1 /\ Good(SleepPosition(s, w))
  BY <1>1, <1>2
<1> QED
  BY <1>3

(* The delay of a sleep is a natural number. *)
LEMMA DelayType ==
  ASSUME NEW ms \in SleepArgs
  PROVE  Delay(ms) \in Nat
<1>1. ms \in Nat /\ UsPerMs \in Nat /\ U32 \in Nat \ {0}
  BY TimeAssumption
<1>2. ms * UsPerMs \in Nat
  BY <1>1
<1> QED
  BY <1>1, <1>2 DEF Delay

(* The queue of a thread is one of the three run queues. *)
LEMMA ClassIsQueue ==
  ASSUME NEW t \in Threads
  PROVE  Class[t] \in Queues /\ Class[t] \in Lists /\ Class[t] # "sleep"
BY ThreadAssumption DEF Queues, Lists

-----------------------------------------------------------------------------
(* The inductive invariant: the types, the two list invariants, and what   *)
(* the handlers hand over to one another.  Type correctness needs the rest:*)
(* Delete gives a list of threads only when the thread is in the list.     *)
SchedInv ==
  /\ TypeOK
  /\ LinkedOnce
  /\ NoThreadLost
  /\ NextOnlyInHandler
  /\ CurrRunnable

(* At boot nothing is linked and nobody runs. *)
LEMMA InitSchedInv == Init => SchedInv
<1> SUFFICES ASSUME Init PROVE SchedInv
  OBVIOUS
<1>1. TypeOK
  BY ThreadAssumption DEF Init, TypeOK, AllThreads, PCs, Lists
<1>2. \A l \in Lists : list[l] = <<>>
  BY DEF Init
<1>3. \A l \in Lists : Range(list[l]) = {} /\ IsInjective(list[l])
  BY <1>2 DEF Range, IsInjective
<1>4. LinkedOnce /\ NoThreadLost
  BY <1>3 DEF LinkedOnce, NoThreadLost, Init, Queues, Lists
<1>5. NextOnlyInHandler /\ CurrRunnable
  BY DEF NextOnlyInHandler, CurrRunnable, Init
<1> QED
  BY <1>1, <1>4, <1>5 DEF SchedInv

(* The first half of core_sched keeps the types of what it assigns. *)
LEMMA CoreSchedType ==
  ASSUME TypeOK, NEW elapsed \in Nat, NEW ttw, CoreSched(elapsed, ttw)
  PROVE  /\ tick' \in Nat
         /\ runtime' \in [AllThreads -> Nat]
         /\ pc' \in {"wake", "pick"}
         /\ tick' = tick + elapsed
BY DEF TypeOK, CoreSched

(* A thread that is created is linked at the end of its run queue. *)
LEMMA CreateThreadStep ==
  ASSUME SchedInv, NEW t \in Threads, CreateThread(t)
  PROVE  SchedInv'
<1> DEFINE c == Class[t]
<1>1. c \in Queues /\ c \in Lists /\ c # "sleep"
  BY ClassIsQueue
<1>2. TypeOK
  BY DEF SchedInv
<1>3. list[c] \in Seq(Threads) /\ list["sleep"] \in Seq(Threads)
  BY <1>1, <1>2 DEF TypeOK, Lists
<1>4. t \notin created /\ \A l \in Lists : t \notin Range(list[l])
  BY DEF CreateThread, SchedInv, NoThreadLost
<1>5. /\ list'[c] = Append(list[c], t)
      /\ \A l \in Lists \ {c} : list'[l] = list[l]
      /\ list' \in [Lists -> Seq(Threads)]
  <2>1. Append(list[c], t) \in Seq(Threads)
    BY <1>3, AppendFacts
  <2> QED
    BY <1>1, <1>2, <2>1 DEF CreateThread, TypeOK
<1>6. /\ Range(list'[c]) = Range(list[c]) \union {t}
      /\ IsInjective(list'[c])
  <2>1. IsInjective(list[c])
    BY <1>1 DEF SchedInv, LinkedOnce
  <2> QED
    BY <1>1, <1>3, <1>4, <1>5, <2>1, AppendFacts
<1> HIDE DEF c
<1>7. TypeOK'
  <2>1. created' \in SUBSET AllThreads /\ pc' \in PCs
    BY <1>2 DEF TypeOK, CreateThread, AllThreads, PCs
  <2>2. state' \in [AllThreads -> {"THREAD_RUNNING", "THREAD_SLEEP"}]
    BY <1>2 DEF TypeOK, CreateThread, AllThreads
  <2> QED
    BY <1>2, <1>5, <2>1, <2>2 DEF TypeOK, CreateThread
<1>8. LinkedOnce'
  <2>1. ASSUME NEW l \in Lists PROVE IsInjective(list'[l])
    BY <1>1, <1>5, <1>6 DEF SchedInv, LinkedOnce
  <2>2. ASSUME NEW l \in Lists \ {c}
        PROVE  Range(list'[l]) = Range(list[l]) /\ t \notin Range(list[l])
    BY <1>4, <1>5
  <2>3. ASSUME NEW l \in Lists, NEW m \in Lists, l # m
        PROVE  Range(list[l]) \intersect Range(list[m]) = {}
    BY <2>3 DEF SchedInv, LinkedOnce
  <2>4. ASSUME NEW l \in Lists, NEW m \in Lists, l # m
        PROVE  Range(list'[l]) \intersect Range(list'[m]) = {}
    <3>1. CASE l = c
      BY <1>6, <2>2, <2>3, <2>4, <3>1
    <3>2. CASE m = c
      BY <1>6, <2>2, <2>3, <2>4, <3>2
    <3>3. CASE l # c /\ m # c
      BY <2>2, <2>3, <2>4, <3>3
    <3> QED
      BY <3>1, <3>2, <3>3
  <2> QED
    BY <2>1, <2>4 DEF LinkedOnce
<1>9. NoThreadLost'
  <2>1. ASSUME NEW u \in created' \ {Idle}
        PROVE  u \in Range(list'[Class[u]]) \union Range(list'["sleep"])
    <3>1. CASE u = t
      BY <1>6, <3>1 DEF c
    <3>2. CASE u # t
      <4>1. u \in created \ {Idle} /\ u \in Threads
        BY <1>2, <3>2 DEF CreateThread, TypeOK, AllThreads
      <4>2. u \in Range(list[Class[u]]) \union Range(list["sleep"])
        BY <4>1 DEF SchedInv, NoThreadLost
      <4> QED
        BY <1>1, <1>5, <1>6, <4>1, <4>2, ClassIsQueue DEF Lists
    <3> QED
      BY <3>1, <3>2
  <2>2. ASSUME NEW l \in Lists PROVE Range(list'[l]) \subseteq created'
    BY <1>5, <1>6 DEF CreateThread, SchedInv, NoThreadLost
  <2>3. ASSUME NEW q \in Queues, NEW u \in Range(list'[q])
        PROVE  Class[u] = q
    BY <1>1, <1>5, <1>6 DEF SchedInv, NoThreadLost, Lists, c
  <2> QED
    BY <2>1, <2>2, <2>3 DEF NoThreadLost
<1>10. NextOnlyInHandler'
  BY DEF NextOnlyInHandler, CreateThread, SchedInv
<1>11. CurrRunnable'
  <2>1. ASSUME NEW u, Runnable(u) PROVE Runnable(u)'
    BY <1>1, <1>5, <1>6, <2>1, ClassIsQueue DEF Runnable
  <2>2. pc = "thread" => Runnable(curr) /\ next = NULL
    BY DEF SchedInv, CurrRunnable, NextOnlyInHandler
  <2> QED
    BY <2>1, <2>2 DEF CurrRunnable, CreateThread
<1> QED
  BY <1>7, <1>8, <1>9, <1>10, <1>11 DEF SchedInv

(* A step that moves one thread between its run queue and the sleep list.  *)
LEMMA MoveThread ==
  ASSUME SchedInv, NEW t \in Threads, NEW c \in Lists, NEW d \in Lists,
         c # d, {c, d} = {Class[t], "sleep"}, t \in Range(list[c]),
         Range(list'[c]) = Range(list[c]) \ {t}, IsInjective(list'[c]),
         Range(list'[d]) = Range(list[d]) \union {t}, IsInjective(list'[d]),
         \A l \in Lists \ {c, d} : list'[l] = list[l],
         created' = created
  PROVE  LinkedOnce' /\ NoThreadLost'
<1>1. \A l \in Lists : IsInjective(list[l])
  BY DEF SchedInv, LinkedOnce
<1>2. ASSUME NEW l \in Lists, NEW m \in Lists, l # m
      PROVE  Range(list[l]) \intersect Range(list[m]) = {}
  BY <1>2 DEF SchedInv, LinkedOnce
<1>3. ASSUME NEW l \in Lists PROVE IsInjective(list'[l])
  BY <1>1
<1>4. ASSUME NEW l \in Lists
      PROVE  Range(list'[l]) \subseteq Range(list[l]) \union {t}
  BY <1>1
<1>5. ASSUME NEW l \in Lists \ {d} PROVE t \notin Range(list'[l])
  BY <1>2
<1>6. ASSUME NEW l \in Lists, NEW m \in Lists, l # m
      PROVE  Range(list'[l]) \intersect Range(list'[m]) = {}
  <2>1. Range(list[l]) \intersect Range(list[m]) = {}
    BY <1>2, <1>6
  <2>2. l \in Lists \ {d} \/ m \in Lists \ {d}
    BY <1>6
  <2>3. t \notin Range(list'[l]) \/ t \notin Range(list'[m])
    BY <1>5, <2>2
  <2>4. /\ Range(list'[l]) \subseteq Range(list[l]) \union {t}
        /\ Range(list'[m]) \subseteq Range(list[m]) \union {t}
    BY <1>4
  <2> QED
    BY <2>1, <2>3, <2>4
<1>7. LinkedOnce'
  BY <1>3, <1>6 DEF LinkedOnce
<1>8. ASSUME NEW u \in created' \ {Idle}
      PROVE  u \in Range(list'[Class[u]]) \union Range(list'["sleep"])
  <2>1. u \in Threads
    BY DEF SchedInv, TypeOK, AllThreads
  <2>2. Class[u] \in Lists /\ "sleep" \in Lists
    BY <2>1, ClassIsQueue DEF Lists
  <2>3. u \in Range(list[Class[u]]) \union Range(list["sleep"])
    BY DEF SchedInv, NoThreadLost
  <2>4. ASSUME NEW l \in Lists, u # t, u \in Range(list[l])
        PROVE  u \in Range(list'[l])
    BY <2>4
  <2>5. CASE u = t
    BY <2>5
  <2>6. CASE u # t
    BY <2>2, <2>3, <2>4, <2>6
  <2> QED
    BY <2>5, <2>6
<1>9. t \in created /\ \A l \in Lists : Range(list[l]) \subseteq created
  BY DEF SchedInv, NoThreadLost
<1>10. ASSUME NEW l \in Lists PROVE Range(list'[l]) \subseteq created'
  BY <1>4, <1>9
<1>11. ASSUME NEW q \in Queues, NEW u \in Range(list'[q])
       PROVE  Class[u] = q
  <2>1. q \in Lists /\ q # "sleep"
    BY DEF Queues, Lists
  <2>2. CASE u \in Range(list[q])
    BY <2>2 DEF SchedInv, NoThreadLost
  <2>3. CASE u \notin Range(list[q])
    <3>1. u = t /\ q = d
      BY <1>4, <1>5, <2>1, <2>3
    <3> QED
      BY <2>1, <3>1
  <2> QED
    BY <2>2, <2>3
<1>12. NoThreadLost'
  BY <1>8, <1>10, <1>11 DEF NoThreadLost
<1> QED
  BY <1>7, <1>12

(* A step that reorders lists at most. *)
LEMMA SameThreads ==
  ASSUME SchedInv, created' = created,
         \A l \in Lists : /\ Range(list'[l]) = Range(list[l])
                          /\ IsInjective(list'[l])
  PROVE  /\ LinkedOnce' /\ NoThreadLost'
         /\ \A u : Runnable(u)' <=> Runnable(u)
<1>1. LinkedOnce'
  BY DEF SchedInv, LinkedOnce
<1>2. ASSUME NEW u \in created \ {Idle}
      PROVE  u \in Range(list'[Class[u]]) \union Range(list'["sleep"])
  <2>1. u \in Threads
    BY DEF SchedInv, TypeOK, AllThreads
  <2>2. Class[u] \in Lists /\ "sleep" \in Lists
    BY <2>1, ClassIsQueue DEF Lists
  <2>3. u \in Range(list[Class[u]]) \union Range(list["sleep"])
    BY DEF SchedInv, NoThreadLost
  <2> QED
    BY <2>2, <2>3
<1>3. \A q \in Queues : q \in Lists
  BY DEF Queues, Lists
<1>4. NoThreadLost'
  BY <1>2, <1>3 DEF SchedInv, NoThreadLost
<1>5. ASSUME NEW u PROVE Runnable(u)' <=> Runnable(u)
  BY ClassIsQueue DEF Runnable
<1> QED
  BY <1>1, <1>4, <1>5

(* The handlers that only account time and decide what to do next. *)
LEMMA TickStep ==
  ASSUME SchedInv, pc \in {"boot", "thread"}, NEW elapsed \in Nat,
         CoreSched(elapsed, tickToWake),
         UNCHANGED <<next, curr, list, tickToWake, wakeTick, state, created>>
  PROVE  SchedInv'
<1>1. TypeOK'
  <2>1. /\ tick' \in Nat
        /\ runtime' \in [AllThreads -> Nat]
        /\ pc' \in {"wake", "pick"}
    BY CoreSchedType DEF SchedInv
  <2> QED
    BY <2>1 DEF SchedInv, TypeOK, PCs
<1>2. LinkedOnce' /\ NoThreadLost'
  BY SameThreads DEF SchedInv, LinkedOnce
<1>3. pc' \in {"wake", "pick"} /\ next' = NULL
  BY DEF SchedInv, NextOnlyInHandler, CoreSched
<1> QED
  BY <1>1, <1>2, <1>3 DEF SchedInv, NextOnlyInHandler, CurrRunnable

(* The handlers that leave the lists alone and the time. *)
LEMMA WakeDoneStep == ASSUME SchedInv, WakeDone PROVE SchedInv'
<1>1. tickToWake' \in Nat
  <2>1. CASE list["sleep"] = <<>>
    BY <2>1 DEF WakeDone
  <2>2. CASE list["sleep"] # <<>>
    <3>1. Head(list["sleep"]) \in AllThreads
      BY <2>2, TailFacts DEF SchedInv, TypeOK, LinkedOnce, Lists, AllThreads
    <3> QED
      BY <2>2, <3>1 DEF WakeDone, SchedInv, TypeOK
  <2> QED
    BY <2>1, <2>2
<1>2. TypeOK'
  BY <1>1 DEF SchedInv, TypeOK, WakeDone, PCs
<1>3. LinkedOnce' /\ NoThreadLost'
  BY SameThreads DEF SchedInv, LinkedOnce, WakeDone
<1> QED
  BY <1>2, <1>3 DEF SchedInv, NextOnlyInHandler, CurrRunnable, WakeDone

(* sched_start hands the CPU to the first thread it has picked. *)
LEMMA StartFirstStep == ASSUME SchedInv, StartFirst PROVE SchedInv'
<1>1. TypeOK'
  BY DEF SchedInv, TypeOK, StartFirst, PCs
<1>2. LinkedOnce' /\ NoThreadLost' /\ \A u : Runnable(u)' <=> Runnable(u)
  BY SameThreads DEF SchedInv, LinkedOnce, StartFirst
<1>3. Runnable(curr')
  BY DEF SchedInv, CurrRunnable, StartFirst
<1>4. CurrRunnable'
  BY <1>2, <1>3 DEF CurrRunnable, StartFirst
<1> QED
  BY <1>1, <1>2, <1>4 DEF SchedInv, NextOnlyInHandler, StartFirst

(* The switch hands the CPU to rq.next, and clears rq.next. *)
LEMMA ContextCoreStep == ASSUME SchedInv, ContextCore PROVE SchedInv'
<1>1. TypeOK'
  BY ThreadAssumption DEF SchedInv, TypeOK, ContextCore, PCs
<1>2. LinkedOnce' /\ NoThreadLost' /\ \A u : Runnable(u)' <=> Runnable(u)
  BY SameThreads DEF SchedInv, LinkedOnce, ContextCore
<1>3. Runnable(curr') /\ next' = NULL
  BY DEF SchedInv, CurrRunnable, ContextCore
<1>4. CurrRunnable'
  BY <1>2, <1>3 DEF CurrRunnable, ContextCore
<1> QED
  BY <1>1, <1>2, <1>3, <1>4 DEF SchedInv, NextOnlyInHandler, ContextCore

(* The head of the sleep list goes back to its run queue. *)
LEMMA WakeOneStep == ASSUME SchedInv, WakeOne PROVE SchedInv'
<1> DEFINE t == Head(list["sleep"])
           c == Class[t]
<1>1. list \in [Lists -> Seq(Threads)] /\ "sleep" \in Lists
  BY DEF SchedInv, TypeOK, Lists
<1>2. list["sleep"] # <<>> /\ IsInjective(list["sleep"])
  BY <1>1 DEF WakeOne, SchedInv, LinkedOnce
<1>3. /\ t \in Threads /\ t \in Range(list["sleep"])
      /\ Tail(list["sleep"]) \in Seq(Threads)
      /\ Range(Tail(list["sleep"])) = Range(list["sleep"]) \ {t}
      /\ IsInjective(Tail(list["sleep"]))
  BY <1>1, <1>2, TailFacts
<1>4. list' = [list EXCEPT !["sleep"] = Tail(@), ![c] = Append(@, t)]
  BY DEF WakeOne
<1> HIDE DEF t
<1>5. c \in Lists /\ c # "sleep"
  BY <1>3, ClassIsQueue
<1>6. /\ Append(list[c], t) \in Seq(Threads)
      /\ Range(Append(list[c], t)) = Range(list[c]) \union {t}
      /\ IsInjective(Append(list[c], t))
  <2>1. IsInjective(list[c]) /\ t \notin Range(list[c])
    BY <1>1, <1>3, <1>5 DEF SchedInv, LinkedOnce
  <2> QED
    BY <1>1, <1>3, <1>5, <2>1, AppendFacts
<1> HIDE DEF c
<1>7. /\ list'["sleep"] = Tail(list["sleep"])
      /\ list'[c] = Append(list[c], t)
      /\ \A l \in Lists \ {"sleep", c} : list'[l] = list[l]
      /\ list' \in [Lists -> Seq(Threads)]
  BY <1>1, <1>3, <1>4, <1>5, <1>6
<1>8. TypeOK'
  BY <1>7 DEF SchedInv, TypeOK, WakeOne
<1>9. LinkedOnce' /\ NoThreadLost'
  <2>1. created' = created /\ {"sleep", c} = {Class[t], "sleep"}
    BY DEF WakeOne, c
  <2>2. /\ Range(list'["sleep"]) = Range(list["sleep"]) \ {t}
        /\ IsInjective(list'["sleep"])
        /\ Range(list'[c]) = Range(list[c]) \union {t}
        /\ IsInjective(list'[c])
    BY <1>3, <1>6, <1>7
  <2>3. t \in Threads /\ t \in Range(list["sleep"]) /\ "sleep" \in Lists
    BY <1>1, <1>3
  <2>4. \A l \in Lists \ {"sleep", c} : list'[l] = list[l]
    BY <1>7
  <2> QED
    BY <1>5, <2>1, <2>2, <2>3, <2>4, MoveThread
<1> QED
  BY <1>8, <1>9 DEF SchedInv, NextOnlyInHandler, CurrRunnable, WakeOne

(* The sleeping thread goes from its run queue to the sleep list. *)
LEMMA ThreadSleepStep ==
  ASSUME SchedInv, NEW ms \in SleepArgs, NEW elapsed \in 0 .. SCHED_SLICE - 1,
         ThreadSleep(ms, elapsed)
  PROVE  SchedInv'
<1> DEFINE w   == tick + Delay(ms)
           ttw == IF w < tickToWake \/ tickToWake = 0 THEN w ELSE tickToWake
           c   == Class[curr]
           del == Delete(list[c], curr)
           ins == InsertSleeper(list["sleep"], curr, w)
<1>1. /\ TypeOK /\ pc = "thread" /\ curr \in Threads /\ created' = created
      /\ list' = [list EXCEPT ![c] = del, !["sleep"] = ins]
      /\ wakeTick' = [wakeTick EXCEPT ![curr] = w]
      /\ state' = [state EXCEPT ![curr] = "THREAD_SLEEP"]
      /\ tickToWake' = ttw
      /\ CoreSched(elapsed, ttw)
      /\ UNCHANGED <<next, curr>>
  <2>1. c # "sleep"
    BY ClassIsQueue DEF ThreadSleep
  <2> QED
    BY <2>1 DEF ThreadSleep, SchedInv
<1>2. w \in Nat /\ ttw \in Nat
  <2>1. Delay(ms) \in Nat /\ tick \in Nat /\ tickToWake \in Nat
    BY <1>1, DelayType DEF TypeOK
  <2> QED
    BY <2>1
<1>3. c \in Lists /\ c # "sleep" /\ "sleep" \in Lists
  BY <1>1, ClassIsQueue DEF Lists
<1> HIDE DEF w, ttw
<1>4. /\ list \in [Lists -> Seq(Threads)]
      /\ curr \in Range(list[c])
      /\ curr \notin Range(list["sleep"])
      /\ \A l \in Lists : IsInjective(list[l])
  <2>1. curr \in Range(list[c])
    BY <1>1, ThreadAssumption DEF SchedInv, CurrRunnable, Runnable
  <2> QED
    BY <1>1, <1>3, <2>1 DEF SchedInv, LinkedOnce, TypeOK
<1> HIDE DEF c
<1>5. /\ del \in Seq(Threads)
      /\ Range(del) = Range(list[c]) \ {curr}
      /\ IsInjective(del)
  BY <1>3, <1>4, DeleteFacts
<1>6. /\ ins \in Seq(Threads)
      /\ Range(ins) = Range(list["sleep"]) \union {curr}
      /\ IsInjective(ins)
  <2> DEFINE s == list["sleep"]
             p == SleepPosition(s, w)
  <2>1. s \in Seq(Threads) /\ IsInjective(s)
    BY <1>3, <1>4
  <2>2. \A i \in 1 .. Len(s) : wakeTick[s[i]] \in Nat
    BY <1>1, <2>1 DEF TypeOK, AllThreads
  <2>3. p \in 1 .. Len(s) + 1
    BY <1>2, <2>1, <2>2, SleepPositionFacts
  <2>4. ins = InsertAt(s, p, curr)
    BY DEF InsertSleeper
  <2> HIDE DEF p, s
  <2>5. curr \notin Range(s)
    BY <1>4 DEF s
  <2>6. InsertAt(s, p, curr) \in Seq(Threads)
    BY <1>1, <2>1, <2>3, InsertFacts
  <2>7. /\ Range(InsertAt(s, p, curr)) = Range(s) \union {curr}
        /\ IsInjective(InsertAt(s, p, curr))
    BY <1>1, <2>1, <2>3, <2>5, InsertRange
  <2> QED
    BY <2>4, <2>6, <2>7 DEF s
<1> HIDE DEF del, ins
<1>7. /\ list'[c] = del /\ list'["sleep"] = ins
      /\ \A l \in Lists \ {c, "sleep"} : list'[l] = list[l]
      /\ list' \in [Lists -> Seq(Threads)]
  BY <1>1, <1>3, <1>4, <1>5, <1>6
<1>8. TypeOK'
  <2>1. elapsed \in Nat
    BY TimeAssumption
  <2>2. /\ tick' \in Nat /\ runtime' \in [AllThreads -> Nat]
        /\ pc' \in {"wake", "pick"}
    BY <1>1, <2>1, CoreSchedType
  <2>3. /\ wakeTick' \in [AllThreads -> Nat]
        /\ state' \in [AllThreads -> {"THREAD_RUNNING", "THREAD_SLEEP"}]
    BY <1>1, <1>2 DEF TypeOK
  <2> QED
    BY <1>1, <1>2, <1>7, <2>2, <2>3 DEF TypeOK, PCs
<1>9. LinkedOnce' /\ NoThreadLost'
  <2>1. {c, "sleep"} = {Class[curr], "sleep"}
    BY DEF c
  <2> QED
    BY <1>1, <1>3, <1>4, <1>5, <1>6, <1>7, <2>1, MoveThread
<1>10. pc' \in {"wake", "pick"} /\ next' = NULL
  BY <1>1 DEF CoreSched, SchedInv, NextOnlyInHandler
<1> QED
  BY <1>8, <1>9, <1>10 DEF SchedInv, NextOnlyInHandler, CurrRunnable

(* What is picked is runnable; its queue is only rotated. *)
LEMMA PickNextStep == ASSUME SchedInv, PickNext PROVE SchedInv'
<1>1. /\ TypeOK /\ pc = "pick" /\ next = NULL /\ created' = created
      /\ curr' = curr /\ pc' \in {"start", "context"}
      /\ pc' = "start" => curr = NULL
  BY DEF SchedInv, NextOnlyInHandler, PickNext
<1> DEFINE
     Chosen == /\ \A l \in Lists : /\ Range(list'[l]) = Range(list[l])
                                    /\ IsInjective(list'[l])
               /\ list' \in [Lists -> Seq(Threads)]
               /\ \E t \in AllThreads :
                    Runnable(t) /\ next' = IF t # curr THEN t ELSE next
<1>2. Chosen
  <2>1. ASSUME NEW q \in Queues, PickQueue(q)
        PROVE  Chosen
    <3> DEFINE h == Head(list[q])
               r == Append(Tail(list[q]), h)
    <3>1. q \in Lists /\ list[q] \in Seq(Threads) /\ IsInjective(list[q])
      BY <1>1 DEF Queues, Lists, TypeOK, SchedInv, LinkedOnce
    <3>2. /\ h \in Threads /\ h \in Range(list[q])
          /\ r \in Seq(Threads) /\ Range(r) = Range(list[q])
          /\ IsInjective(r)
      BY <2>1, <3>1, RotateFacts DEF PickQueue
    <3>3. /\ list' = [list EXCEPT ![q] = r]
          /\ next' = IF h # curr THEN h ELSE next
      BY <2>1 DEF PickQueue
    <3> HIDE DEF h, r
    <3>4. \A l \in Lists : IsInjective(list[l])
      BY DEF SchedInv, LinkedOnce
    <3>5. Runnable(h) /\ h \in AllThreads
      BY <3>2 DEF Runnable, AllThreads, SchedInv, NoThreadLost
    <3> QED
      BY <1>1, <3>1, <3>2, <3>3, <3>4, <3>5 DEF TypeOK
  <2>2. CASE UNCHANGED list /\ next' = IF Idle # curr THEN Idle ELSE next
    <3>1. Runnable(Idle) /\ Idle \in AllThreads
      BY DEF Runnable, AllThreads
    <3> QED
      BY <1>1, <2>2, <3>1 DEF SchedInv, LinkedOnce, TypeOK
  <2> QED
    BY <2>1, <2>2 DEF PickNext, Queues
<1>3. TypeOK'
  BY <1>1, <1>2 DEF TypeOK, PickNext, PCs
<1>4. LinkedOnce' /\ NoThreadLost' /\ \A u : Runnable(u)' <=> Runnable(u)
  BY <1>1, <1>2, SameThreads
<1>5. CurrRunnable'
  <2>1. PICK t \in AllThreads : /\ Runnable(t)
                               /\ next' = IF t # curr THEN t ELSE next
    BY <1>2
  <2>2. t # NULL
    BY ThreadAssumption
  <2>3. CASE t = curr
    BY <1>1, <1>4, <2>1, <2>2, <2>3 DEF CurrRunnable
  <2>4. CASE t # curr
    BY <1>1, <1>4, <2>1, <2>2, <2>4 DEF CurrRunnable
  <2> QED
    BY <2>3, <2>4
<1> QED
  BY <1>1, <1>3, <1>4, <1>5 DEF SchedInv, NextOnlyInHandler

-----------------------------------------------------------------------------
(* Every step of the scheduler keeps the invariant. *)
LEMMA NextSchedInv == SchedInv /\ [Next]_vars => SchedInv'
<1> SUFFICES ASSUME SchedInv, [Next]_vars PROVE SchedInv'
  OBVIOUS
<1> USE DEF Handler
<1>1. ASSUME NEW t \in Threads, CreateThread(t) PROVE SchedInv'
  BY <1>1, CreateThreadStep
<1>2. ASSUME NEW elapsed \in {0, SCHED_SLICE}, SchedStart(elapsed)
      PROVE  SchedInv'
  <2>1. elapsed \in Nat
    BY TimeAssumption
  <2> QED
    BY <1>2, <2>1, TickStep DEF SchedStart
<1>3. CASE CpuTick
  BY <1>3, TickStep, TimeAssumption DEF CpuTick
<1>4. CASE LateTick
  BY <1>4, TickStep DEF LateTick
<1>5. ASSUME NEW ms \in SleepArgs, NEW elapsed \in 0 .. SCHED_SLICE - 1,
             ThreadSleep(ms, elapsed)
      PROVE  SchedInv'
  BY <1>5, ThreadSleepStep
<1>6. CASE Handler
  BY <1>6, WakeOneStep, WakeDoneStep, PickNextStep, StartFirstStep,
     ContextCoreStep
<1>7. CASE UNCHANGED vars
  BY <1>7 DEF vars, SchedInv, TypeOK, LinkedOnce, NoThreadLost,
     NextOnlyInHandler, CurrRunnable, Runnable
<1> QED
  BY <1>1, <1>2, <1>3, <1>4, <1>5, <1>6, <1>7 DEF Next

(* The scheduler's lists and pointers agree in every reachable state. *)
THEOREM SchedInvariant == Spec => []SchedInv
<1>1. Init => SchedInv
  BY InitSchedInv
<1>2. SchedInv /\ [Next]_vars => SchedInv'
  BY NextSchedInv
<1> QED
  BY <1>1, <1>2, PTL DEF Spec

(* The scheduler's variables keep their types, whatever the threads do. *)
THEOREM TypeCorrect == Spec => []TypeOK
BY SchedInvariant, PTL DEF SchedInv

(* No thread is in two lists, and none is in a list twice. *)
THEOREM ThreadsLinkedOnce == Spec => []LinkedOnce
BY SchedInvariant, PTL DEF SchedInv

(* Every created thread is in its own run queue or in the sleep list. *)
THEOREM ThreadsKept == Spec => []NoThreadLost
BY SchedInvariant, PTL DEF SchedInv

(* The CPU is only given to a runnable thread. *)
THEOREM OnlyRunnableRuns == Spec => []CurrRunnable
BY SchedInvariant, PTL DEF SchedInv

(* Outside of a scheduling pass rq.next is NULL. *)
THEOREM NextClear == Spec => []NextOnlyInHandler
BY SchedInvariant, PTL DEF SchedInv

-----------------------------------------------------------------------------
(* The invariant of the sleep list: it is sorted, tickToWake is that of    *)
(* its head, and nobody in it is overdue once a pass has looked at it.     *)
(* It is inductive only together with SchedInv, which keeps the sleepers   *)
(* apart from the thread that runs.                                        *)
NoneOverdue ==
  pc \in {"thread", "pick", "start", "context"} /\ ~ZeroSleeper =>
    \A t \in Range(list["sleep"]) : wakeTick[t] >= tick

SleepInv == SleepSorted /\ TickToWakeIsNext /\ NoneOverdue

(* The head of a sorted list of sleepers wakes first. *)
LEMMA FirstSleeper ==
  ASSUME NEW s \in Seq(Threads), s # <<>>, NEW f \in [AllThreads -> Nat],
         \A i, j \in 1 .. Len(s) : i < j => f[s[i]] <= f[s[j]]
  PROVE  /\ Head(s) \in Range(s)
         /\ Head(s) \in AllThreads
         /\ \A t \in Range(s) : f[Head(s)] <= f[t]
<1>1. Len(s) \in Nat \ {0} /\ Head(s) = s[1]
  BY EmptySeq, LenProperties
<1>2. \A x : x \in Range(s) <=> \E i \in 1 .. Len(s) : s[i] = x
  BY RangeFacts
<1>3. \A i \in 1 .. Len(s) : s[i] \in AllThreads /\ f[s[i]] \in Nat
  BY DEF AllThreads
<1>4. 1 \in 1 .. Len(s)
  BY <1>1
<1>5. ASSUME NEW i \in 1 .. Len(s) PROVE f[s[1]] <= f[s[i]]
  <2>1. CASE i = 1
    BY <1>3, <1>4, <2>1
  <2>2. CASE i # 1
    BY <1>1, <1>4, <2>2
  <2> QED
    BY <2>1, <2>2
<1> QED
  BY <1>1, <1>2, <1>3, <1>4, <1>5

(* A step that changes no sleeper and is no first half of core_sched. *)
LEMMA SleepFrame ==
  ASSUME TypeOK, SleepInv, list'["sleep"] = list["sleep"], wakeTick' = wakeTick,
         tick' = tick, tickToWake' = tickToWake,
         pc' = "wake" => pc = "wake",
         pc = "wake" => pc' = "wake",
         pc = "boot" => pc' = "boot"
  PROVE  SleepInv'
<1>1. ZeroSleeper' <=> ZeroSleeper
  BY DEF ZeroSleeper
<1>2. SleepSorted'
  BY DEF SleepInv, SleepSorted
<1>3. TickToWakeIsNext'
  BY <1>1 DEF SleepInv, TickToWakeIsNext
<1>4. NoneOverdue'
  <2>1. pc' \in {"thread", "pick", "start", "context"} =>
          pc \in {"thread", "pick", "start", "context"}
    BY DEF TypeOK, PCs
  <2> QED
    BY <1>1, <2>1 DEF SleepInv, NoneOverdue
<1> QED
  BY <1>2, <1>3, <1>4 DEF SleepInv

(* The decision of core_sched: no sleeper is overdue when it finds nobody  *)
(* to wake.                                                                *)
LEMMA PassDecision ==
  ASSUME TypeOK', SleepSorted', TickToWakeIsNext',
         NEW elapsed, CoreSched(elapsed, tickToWake')
  PROVE  NoneOverdue'
<1> DEFINE s == list'["sleep"]
<1>1. pc' \in {"wake", "pick"}
  BY DEF CoreSched
<1>2. CASE pc' = "wake"
  BY <1>2 DEF NoneOverdue
<1>3. CASE pc' = "pick" /\ ~ZeroSleeper'
  <2>1. tickToWake' = IF s = <<>> THEN 0 ELSE wakeTick'[Head(s)]
    BY <1>3 DEF TickToWakeIsNext
  <2>2. ~ (tick' > tickToWake' /\ tickToWake' # 0)
    BY <1>3 DEF CoreSched
  <2>3. /\ s \in Seq(Threads) /\ wakeTick' \in [AllThreads -> Nat]
        /\ tick' \in Nat /\ tickToWake' \in Nat
    BY DEF TypeOK, Lists
  <2>4. \A i, j \in 1 .. Len(s) : i < j => wakeTick'[s[i]] <= wakeTick'[s[j]]
    BY DEF SleepSorted
  <2>5. \A t \in Range(s) : wakeTick'[t] # 0
    BY <1>3 DEF ZeroSleeper
  <2> HIDE DEF s
  <2>6. CASE s = <<>>
    <3>1. Range(s) = {}
      BY <2>6 DEF Range
    <3> QED
      BY <3>1 DEF NoneOverdue, s
  <2>7. CASE s # <<>>
    <3>1. /\ Head(s) \in Range(s) /\ Head(s) \in AllThreads
          /\ \A t \in Range(s) : wakeTick'[Head(s)] <= wakeTick'[t]
      BY <2>3, <2>4, <2>7, FirstSleeper
    <3>2. tickToWake' = wakeTick'[Head(s)] /\ tickToWake' # 0
      BY <2>1, <2>5, <2>7, <3>1
    <3>3. tick' <= wakeTick'[Head(s)]
      BY <2>2, <2>3, <3>2
    <3>4. ASSUME NEW t \in Range(s) PROVE wakeTick'[t] >= tick'
      <4>1. t \in AllThreads
        BY <2>3, RangeFacts DEF AllThreads
      <4>2. wakeTick'[t] \in Nat /\ wakeTick'[Head(s)] \in Nat
        BY <2>3, <3>1, <4>1
      <4> QED
        BY <2>3, <3>1, <3>3, <4>2
    <3> QED
      BY <3>4 DEF NoneOverdue, s
  <2> QED
    BY <2>6, <2>7
<1>4. CASE ZeroSleeper'
  BY <1>4 DEF NoneOverdue
<1> QED
  BY <1>1, <1>2, <1>3, <1>4

(* The first half of core_sched, entered from a tick or at the start. *)
LEMMA TickSleep ==
  ASSUME TypeOK', SleepInv, pc \in {"boot", "thread"}, NEW elapsed,
         CoreSched(elapsed, tickToWake),
         UNCHANGED <<next, curr, list, tickToWake, wakeTick, state, created>>
  PROVE  SleepInv'
<1>1. ZeroSleeper' <=> ZeroSleeper
  BY DEF ZeroSleeper
<1>2. SleepSorted'
  BY DEF SleepInv, SleepSorted
<1>3. TickToWakeIsNext'
  BY <1>1 DEF SleepInv, TickToWakeIsNext
<1> QED
  BY <1>2, <1>3, PassDecision DEF SleepInv

(* The walk stops at a sleeper that is not due, so that no other is. *)
LEMMA WakeDoneSleep ==
  ASSUME TypeOK, SleepInv, WakeDone
  PROVE  SleepInv'
<1> DEFINE s == list["sleep"]
<1>1. ZeroSleeper' <=> ZeroSleeper
  BY DEF ZeroSleeper, WakeDone
<1>2. SleepSorted'
  BY DEF SleepInv, SleepSorted, WakeDone
<1>3. TickToWakeIsNext'
  BY DEF TickToWakeIsNext, WakeDone
<1>4. /\ s \in Seq(Threads) /\ wakeTick \in [AllThreads -> Nat] /\ tick \in Nat
      /\ \A i, j \in 1 .. Len(s) : i < j => wakeTick[s[i]] <= wakeTick[s[j]]
  BY DEF TypeOK, Lists, SleepInv, SleepSorted
<1>5. tick' = tick /\ wakeTick' = wakeTick /\ list' = list
  BY DEF WakeDone
<1>6. s # <<>> => wakeTick[Head(s)] > tick
  BY DEF WakeDone
<1> HIDE DEF s
<1>7. ASSUME NEW t \in Range(s) PROVE wakeTick[t] >= tick
  <2>1. s # <<>>
    BY DEF Range
  <2>2. Head(s) \in AllThreads /\ wakeTick[Head(s)] <= wakeTick[t]
    BY <1>4, <2>1, FirstSleeper
  <2>3. t \in AllThreads
    BY <1>4, RangeFacts DEF AllThreads
  <2>4. wakeTick[t] \in Nat /\ wakeTick[Head(s)] \in Nat
    BY <1>4, <2>2, <2>3
  <2> QED
    BY <1>4, <1>6, <2>1, <2>2, <2>4
<1>8. NoneOverdue'
  BY <1>5, <1>7 DEF NoneOverdue, s
<1> QED
  BY <1>2, <1>3, <1>8 DEF SleepInv

(* Taking the head of the sleep list leaves it sorted. *)
LEMMA WakeOneSleep ==
  ASSUME TypeOK, SleepInv, WakeOne
  PROVE  SleepInv'
<1> DEFINE s == list["sleep"]
           r == Tail(s)
<1>1. /\ s \in Seq(Threads) /\ s # <<>> /\ Head(s) \in Threads
      /\ pc' = "wake" /\ wakeTick' = wakeTick
  BY HeadTailProperties DEF TypeOK, Lists, WakeOne
<1>2. list'["sleep"] = r
  <2>1. Class[Head(s)] # "sleep" /\ "sleep" \in Lists
    BY <1>1, ClassIsQueue DEF Lists
  <2> QED
    BY <2>1 DEF WakeOne, TypeOK
<1>3. /\ Len(s) \in Nat \ {0} /\ r \in Seq(Threads) /\ Len(r) = Len(s) - 1
      /\ \A i \in 1 .. Len(s) - 1 : r[i] = s[i + 1]
  BY <1>1, HeadTailProperties, EmptySeq
<1>4. \A i, j \in 1 .. Len(s) : i < j => wakeTick[s[i]] <= wakeTick[s[j]]
  BY DEF SleepInv, SleepSorted
<1> HIDE DEF s, r
<1>5. ASSUME NEW i \in 1 .. Len(r), NEW j \in 1 .. Len(r), i < j
      PROVE  wakeTick[r[i]] <= wakeTick[r[j]]
  <2>1. i + 1 \in 1 .. Len(s) /\ j + 1 \in 1 .. Len(s) /\ i + 1 < j + 1
    BY <1>3, <1>5
  <2>2. r[i] = s[i + 1] /\ r[j] = s[j + 1]
    BY <1>3
  <2> QED
    BY <1>4, <2>1, <2>2
<1>6. SleepSorted'
  BY <1>1, <1>2, <1>5 DEF SleepSorted
<1> QED
  BY <1>1, <1>6 DEF SleepInv, TickToWakeIsNext, NoneOverdue

(* A sleep call inserts at the sorted place and updates tick_to_wake. *)
LEMMA ThreadSleepSleep ==
  ASSUME SchedInv, TypeOK', SleepInv, NEW ms \in SleepArgs,
         NEW elapsed \in 0 .. SCHED_SLICE - 1, ThreadSleep(ms, elapsed)
  PROVE  SleepInv'
<1> DEFINE w   == tick + Delay(ms)
           ttw == IF w < tickToWake \/ tickToWake = 0 THEN w ELSE tickToWake
           s   == list["sleep"]
           p   == SleepPosition(s, w)
           r   == InsertAt(s, p, curr)
<1>1. /\ TypeOK /\ pc = "thread" /\ curr \in Threads
      /\ wakeTick' = [wakeTick EXCEPT ![curr] = w]
      /\ tickToWake' = ttw /\ CoreSched(elapsed, ttw)
  BY DEF ThreadSleep, SchedInv
<1>2. list'["sleep"] = r
  <2>1. Class[curr] # "sleep" /\ "sleep" \in Lists
    BY <1>1, ClassIsQueue DEF Lists
  <2> QED
    BY <1>1, <2>1 DEF ThreadSleep, TypeOK, InsertSleeper
<1>3. w \in Nat /\ tickToWake \in Nat
  <2>1. Delay(ms) \in Nat /\ tick \in Nat /\ tickToWake \in Nat
    BY <1>1, DelayType DEF TypeOK
  <2> QED
    BY <2>1
<1> HIDE DEF w
<1>4. /\ s \in Seq(Threads) /\ Len(s) \in Nat
      /\ \A i \in 1 .. Len(s) : s[i] \in Threads /\ wakeTick[s[i]] \in Nat
  <2>1. list["sleep"] \in Seq(Threads) /\ wakeTick \in [AllThreads -> Nat]
    BY <1>1 DEF TypeOK, Lists
  <2>2. Len(s) \in Nat /\ \A i \in 1 .. Len(s) : s[i] \in Threads
    BY <2>1, LenProperties
  <2>3. \A i \in 1 .. Len(s) : wakeTick[s[i]] \in Nat
    BY <2>1, <2>2 DEF AllThreads
  <2> QED
    BY <2>1, <2>2, <2>3
<1>5. \A i, j \in 1 .. Len(s) : i < j => wakeTick[s[i]] <= wakeTick[s[j]]
  BY DEF SleepInv, SleepSorted
<1>6. /\ p \in 1 .. Len(s) + 1
      /\ \A j \in 1 .. p - 1 : wakeTick[s[j]] < w
      /\ p <= Len(s) => wakeTick[s[p]] >= w
  BY <1>3, <1>4, SleepPositionFacts
<1>7. curr \notin Range(s)
  <2>1. curr \in Range(list[Class[curr]])
    BY <1>1, ThreadAssumption DEF SchedInv, CurrRunnable, Runnable
  <2>2. Class[curr] \in Lists /\ Class[curr] # "sleep" /\ "sleep" \in Lists
    BY <1>1, ClassIsQueue DEF Lists
  <2> QED
    BY <2>1, <2>2 DEF SchedInv, LinkedOnce
<1>8. wakeTick'[curr] = w
  BY <1>1 DEF TypeOK, AllThreads
<1>9. \A i \in 1 .. Len(s) : wakeTick'[s[i]] = wakeTick[s[i]]
  <2>1. \A i \in 1 .. Len(s) : s[i] # curr
    BY <1>4, <1>7, RangeFacts
  <2> QED
    BY <1>1, <1>4, <2>1 DEF TypeOK, AllThreads
<1> HIDE DEF p
<1>10. /\ Len(r) = Len(s) + 1
       /\ \A i \in 1 .. Len(s) + 1 :
            r[i] = IF i < p THEN s[i] ELSE IF i = p THEN curr ELSE s[i - 1]
       /\ r \in Seq(Threads)
  <2>1. s \in Seq(Threads) /\ curr \in Threads /\ p \in 1 .. Len(s) + 1
    BY <1>1, <1>4, <1>6
  <2> HIDE DEF s
  <2>2. /\ InsertAt(s, p, curr) \in Seq(Threads)
        /\ Len(InsertAt(s, p, curr)) = Len(s) + 1
        /\ \A i \in 1 .. Len(s) + 1 :
             InsertAt(s, p, curr)[i] =
               IF i < p THEN s[i] ELSE IF i = p THEN curr ELSE s[i - 1]
    BY <2>1, InsertFacts
  <2> QED
    BY <2>2
<1> HIDE DEF r, s
<1>11. SleepSorted'
  <2>1. ASSUME NEW i \in 1 .. Len(s) + 1, NEW j \in 1 .. Len(s) + 1, i < j
        PROVE  wakeTick'[r[i]] <= wakeTick'[r[j]]
    <3>1. CASE j < p
      <4>1. i \in 1 .. Len(s) /\ j \in 1 .. Len(s) /\ i < p
        BY <1>4, <1>6, <2>1, <3>1
      <4>2. r[i] = s[i] /\ r[j] = s[j]
        BY <1>10, <2>1, <3>1, <4>1
      <4> QED
        BY <1>5, <1>9, <2>1, <4>1, <4>2
    <3>2. CASE j = p
      <4>1. r[i] = s[i] /\ r[j] = curr /\ i \in 1 .. p - 1 /\ i \in 1 .. Len(s)
        BY <1>4, <1>6, <1>10, <2>1, <3>2
      <4>2. wakeTick[s[i]] < w /\ wakeTick[s[i]] \in Nat
        BY <1>4, <1>6, <4>1
      <4> QED
        BY <1>3, <1>8, <1>9, <4>1, <4>2
    <3>3. CASE j > p
      <4>1. j - 1 \in 1 .. Len(s) /\ r[j] = s[j - 1]
        BY <1>4, <1>6, <1>10, <2>1, <3>3
      <4>2. CASE i < p
        <5>1. r[i] = s[i] /\ i \in 1 .. Len(s) /\ i < j - 1
          BY <1>4, <1>6, <1>10, <2>1, <3>3, <4>2
        <5> QED
          BY <1>5, <1>9, <4>1, <5>1
      <4>3. CASE i = p
        <5>1. r[i] = curr /\ p \in 1 .. Len(s) /\ wakeTick[s[p]] >= w
          BY <1>4, <1>6, <1>10, <2>1, <3>3, <4>1, <4>3
        <5>2. p = j - 1 \/ p < j - 1
          BY <1>6, <2>1, <3>3
        <5>3. wakeTick[s[p]] <= wakeTick[s[j - 1]]
          <6>1. CASE p = j - 1
            BY <1>4, <4>1, <5>1, <6>1
          <6>2. CASE p < j - 1
            BY <1>5, <4>1, <5>1, <6>2
          <6> QED
            BY <5>2, <6>1, <6>2
        <5>4. /\ wakeTick[s[p]] \in Nat /\ wakeTick[s[j - 1]] \in Nat
              /\ wakeTick'[s[j - 1]] = wakeTick[s[j - 1]]
          BY <1>4, <1>9, <4>1, <5>1
        <5> QED
          BY <1>3, <1>8, <4>1, <5>1, <5>3, <5>4
      <4>4. CASE i > p
        <5>1. r[i] = s[i - 1] /\ i - 1 \in 1 .. Len(s) /\ i - 1 < j - 1
          BY <1>4, <1>6, <1>10, <2>1, <4>4
        <5> QED
          BY <1>5, <1>9, <4>1, <5>1
      <4> QED
        BY <1>6, <4>2, <4>3, <4>4
    <3> QED
      BY <1>6, <3>1, <3>2, <3>3
  <2> QED
    BY <1>2, <1>10, <2>1 DEF SleepSorted
<1>12. ASSUME ~ZeroSleeper'
       PROVE  tickToWake' = wakeTick'[r[1]]
  <2>1. /\ \A x : x \in Range(r) <=> \E i \in 1 .. Len(r) : r[i] = x
        /\ \A x : x \in Range(s) <=> \E i \in 1 .. Len(s) : s[i] = x
    BY <1>4, <1>10, RangeFacts
  <2>2. \A t \in Range(r) : wakeTick'[t] # 0
    BY <1>2, <1>12 DEF ZeroSleeper
  <2>3. w # 0
    <3>1. r[p] = curr /\ p \in 1 .. Len(r)
      BY <1>4, <1>6, <1>10
    <3> QED
      BY <1>8, <2>1, <2>2, <3>1
  <2>4. \A i \in 1 .. Len(s) : wakeTick[s[i]] # 0
    <3>1. ASSUME NEW i \in 1 .. Len(s) PROVE s[i] \in Range(r)
      <4>1. CASE i < p
        <5>1. r[i] = s[i] /\ i \in 1 .. Len(r)
          BY <1>4, <1>6, <1>10, <4>1
        <5> QED
          BY <2>1, <5>1
      <4>2. CASE i >= p
        <5>1. r[i + 1] = s[i] /\ i + 1 \in 1 .. Len(r)
          BY <1>4, <1>6, <1>10, <4>2
        <5> QED
          BY <2>1, <5>1
      <4> QED
        BY <1>6, <4>1, <4>2
    <3> QED
      BY <1>9, <2>2, <3>1
  <2>5. ~ZeroSleeper
    BY <2>1, <2>4 DEF ZeroSleeper, s
  <2>6. tickToWake = IF s = <<>> THEN 0 ELSE wakeTick[Head(s)]
    BY <1>1, <2>5 DEF SleepInv, TickToWakeIsNext, s
  <2>7. 1 \in 1 .. Len(s) + 1
    BY <1>4
  <2>8. CASE p = 1
    <3>1. r[1] = curr
      BY <1>10, <2>7, <2>8
    <3>2. CASE s = <<>>
      BY <1>1, <1>8, <2>6, <3>1, <3>2
    <3>3. CASE s # <<>>
      <4>1. Len(s) >= 1 /\ 1 \in 1 .. Len(s) /\ Head(s) = s[1]
        BY <1>4, <3>3, EmptySeq, LenProperties
      <4>2. tickToWake = wakeTick[s[1]] /\ wakeTick[s[1]] >= w
        BY <1>6, <2>6, <2>8, <3>3, <4>1
      <4>3. ttw = w
        BY <1>3, <4>2
      <4> QED
        BY <1>1, <1>8, <3>1, <4>3
    <3> QED
      BY <3>2, <3>3
  <2>9. CASE p # 1
    <3>1. r[1] = s[1] /\ 1 \in 1 .. p - 1 /\ 1 \in 1 .. Len(s) /\ s # <<>>
      BY <1>4, <1>6, <1>10, <2>7, <2>9, EmptySeq
    <3>2. Head(s) = s[1]
      BY <1>4, <3>1, LenProperties
    <3>3. wakeTick[s[1]] < w /\ tickToWake = wakeTick[s[1]] /\ tickToWake # 0
      BY <1>6, <2>4, <2>6, <3>1, <3>2
    <3>4. ttw = tickToWake
      BY <1>3, <3>3
    <3> QED
      BY <1>1, <1>9, <3>1, <3>3, <3>4
  <2> QED
    BY <2>8, <2>9
<1>13. TickToWakeIsNext'
  <2>1. r # <<>> /\ Head(r) = r[1]
    BY <1>4, <1>10, EmptySeq, LenProperties
  <2> QED
    BY <1>2, <1>12, <2>1 DEF TickToWakeIsNext
<1> QED
  BY <1>1, <1>11, <1>13, PassDecision DEF SleepInv

(* Every step of the scheduler keeps the sleep list's invariant. *)
LEMMA NextSleepInv ==
  SchedInv /\ SchedInv' /\ SleepInv /\ [Next]_vars => SleepInv'
<1> SUFFICES ASSUME SchedInv, SchedInv', SleepInv, [Next]_vars PROVE SleepInv'
  OBVIOUS
<1>1. TypeOK /\ TypeOK' /\ LinkedOnce
  BY DEF SchedInv
<1>2. ASSUME NEW t \in Threads, CreateThread(t) PROVE SleepInv'
  <2>1. list'["sleep"] = list["sleep"]
    BY <1>1, <1>2, ClassIsQueue DEF CreateThread, TypeOK, Lists
  <2> QED
    BY <1>1, <1>2, <2>1, SleepFrame DEF CreateThread
<1>3. ASSUME NEW elapsed \in {0, SCHED_SLICE}, SchedStart(elapsed)
      PROVE  SleepInv'
  BY <1>1, <1>3, TickSleep DEF SchedStart
<1>4. CASE CpuTick
  BY <1>1, <1>4, TickSleep DEF CpuTick
<1>5. CASE LateTick
  BY <1>1, <1>5, TickSleep DEF LateTick
<1>6. ASSUME NEW ms \in SleepArgs, NEW elapsed \in 0 .. SCHED_SLICE - 1,
             ThreadSleep(ms, elapsed)
      PROVE  SleepInv'
  BY <1>1, <1>6, ThreadSleepSleep
<1>7. CASE WakeOne
  BY <1>1, <1>7, WakeOneSleep
<1>8. CASE WakeDone
  BY <1>1, <1>8, WakeDoneSleep
<1>9. CASE PickNext
  <2>1. list'["sleep"] = list["sleep"]
    BY <1>1, <1>9 DEF PickNext, PickQueue, TypeOK, Lists, Queues
  <2> QED
    BY <1>1, <1>9, <2>1, SleepFrame DEF PickNext
<1>10. CASE StartFirst
  BY <1>1, <1>10, SleepFrame DEF StartFirst
<1>11. CASE ContextCore
  BY <1>1, <1>11, SleepFrame DEF ContextCore
<1>12. CASE UNCHANGED vars
  BY <1>1, <1>12, SleepFrame DEF vars
<1> QED
  BY <1>2, <1>3, <1>4, <1>5, <1>6, <1>7, <1>8, <1>9, <1>10, <1>11, <1>12
     DEF Next, Handler

(* Nobody sleeps at boot. *)
LEMMA InitSleepInv == Init => SleepInv
<1> SUFFICES ASSUME Init PROVE SleepInv
  OBVIOUS
<1>1. list["sleep"] = <<>> /\ tickToWake = 0 /\ pc = "boot"
  BY DEF Init, Lists
<1>2. Len(list["sleep"]) = 0
  BY <1>1
<1> QED
  BY <1>1, <1>2 DEF SleepInv, SleepSorted, TickToWakeIsNext, NoneOverdue

(* The sleep list and tick_to_wake agree in every reachable state. *)
THEOREM SleepInvariant == Spec => []SleepInv
<1>1. Init => SleepInv
  BY InitSleepInv
<1>2. SchedInv /\ SchedInv' /\ SleepInv /\ [Next]_vars => SleepInv'
  BY NextSleepInv
<1> QED
  BY <1>1, <1>2, SchedInvariant, PTL DEF Spec

(* The sleep list stays sorted by the tick to wake. *)
THEOREM SleepersSorted == Spec => []SleepSorted
BY SleepInvariant, PTL DEF SleepInv

(* The cached tick to wake is that of the first sleeper. *)
THEOREM TickToWakeCorrect == Spec => []TickToWakeIsNext
BY SleepInvariant, PTL DEF SleepInv

(* No thread executes while a sleeper is overdue, except for a sleeper     *)
(* whose tick to wake is the tick 0 that stands for nobody.                *)
THEOREM NobodyOverdue == Spec => []NoOverdueSleeper
<1>1. SleepInv => NoOverdueSleeper
  BY DEF SleepInv, NoneOverdue, NoOverdueSleeper
<1> QED
  BY <1>1, SleepInvariant, PTL

-----------------------------------------------------------------------------
(* The thread a pass leaves the CPU to, when it picks h. *)
LEMMA Chosen ==
  ASSUME SchedInv, PickNext, NEW h \in AllThreads,
         next' = IF h # curr THEN h ELSE next
  PROVE  (IF next' = NULL THEN curr' ELSE next') = h
<1>1. next = NULL /\ curr' = curr /\ h # NULL
  BY ThreadAssumption DEF SchedInv, NextOnlyInHandler, PickNext
<1> QED
  BY <1>1

(* The rank of a thread is that of the queue of its class. *)
LEMMA RankOfQueue ==
  ASSUME NEW t \in Threads
  PROVE  Rank(t) = IF Class[t] = "rt" THEN 1
                   ELSE IF Class[t] = "fair" THEN 2 ELSE 3
BY ThreadAssumption DEF Rank

(* rt is asked before fair and fair before back. *)
LEMMA PickNextRank ==
  ASSUME SchedInv, PickNext, NEW q \in Queues, NEW t \in Range(list'[q])
  PROVE  Rank(IF next' = NULL THEN curr' ELSE next') <= Rank(t)
<1>1. TypeOK /\ \A x \in Queues : x \in Lists
  BY DEF SchedInv, Queues, Lists
<1>2. ASSUME NEW x \in Queues, PickQueue(x)
      PROVE  /\ \A y \in Queues : Range(list'[y]) = Range(list[y])
             /\ Head(list[x]) \in Threads /\ Class[Head(list[x])] = x
             /\ (IF next' = NULL THEN curr' ELSE next') = Head(list[x])
  <2>1. list[x] \in Seq(Threads) /\ IsInjective(list[x]) /\ list[x] # <<>>
    BY <1>1, <1>2 DEF TypeOK, SchedInv, LinkedOnce, PickQueue
  <2>2. /\ Head(list[x]) \in Threads /\ Head(list[x]) \in Range(list[x])
        /\ Range(Append(Tail(list[x]), Head(list[x]))) = Range(list[x])
    BY <2>1, RotateFacts
  <2>3. /\ list'[x] = Append(Tail(list[x]), Head(list[x]))
        /\ \A y \in Queues \ {x} : list'[y] = list[y]
        /\ next' = IF Head(list[x]) # curr THEN Head(list[x]) ELSE next
    BY <1>1, <1>2 DEF PickQueue, TypeOK
  <2>4. (IF next' = NULL THEN curr' ELSE next') = Head(list[x])
    BY <2>2, <2>3, Chosen DEF AllThreads
  <2>5. \A y \in Queues : Range(list'[y]) = Range(list[y])
    BY <2>2, <2>3
  <2>6. Class[Head(list[x])] = x
    BY <2>2 DEF SchedInv, NoThreadLost
  <2> QED
    BY <2>2, <2>4, <2>5, <2>6
<1>3. \A y \in Queues : list[y] = <<>> => Range(list[y]) = {}
  BY DEF Range
<1>4. ASSUME \A y \in Queues : Range(list'[y]) = Range(list[y])
      PROVE  t \in Range(list[q]) /\ t \in Threads /\ Class[t] = q
  <2>1. t \in Range(list[q]) /\ list[q] \in Seq(Threads)
    BY <1>1, <1>4 DEF TypeOK
  <2> QED
    BY <2>1, RangeFacts DEF SchedInv, NoThreadLost
<1>5. CASE PickQueue("rt")
  BY <1>2, <1>4, <1>5, RankOfQueue DEF Queues
<1>6. CASE list["rt"] = <<>> /\ PickQueue("fair")
  BY <1>2, <1>3, <1>4, <1>6, RankOfQueue DEF Queues
<1>7. CASE list["rt"] = <<>> /\ list["fair"] = <<>> /\ PickQueue("back")
  BY <1>2, <1>3, <1>4, <1>7, RankOfQueue DEF Queues
<1>8. CASE (\A x \in Queues : list[x] = <<>>) /\ UNCHANGED list
  BY <1>3, <1>8
<1> QED
  BY <1>5, <1>6, <1>7, <1>8 DEF PickNext

(* Every scheduling pass leaves the CPU to a thread of the most urgent     *)
(* class that has a runnable thread.                                       *)
THEOREM MostUrgentChosen == Spec => PassChoosesMostUrgent
<1>1. ASSUME SchedInv, [Next]_vars
      PROVE  [pc = "pick" =>
                LET new == IF next' = NULL THEN curr' ELSE next'
                IN  \A q \in Queues : \A t \in Range(list'[q]) :
                      Rank(new) <= Rank(t)]_vars
  <2>1. pc = "pick" => PickNext \/ UNCHANGED vars
    BY <1>1 DEF Next, Handler, CreateThread, SchedStart, CpuTick, LateTick,
       ThreadSleep, WakeOne, WakeDone, StartFirst, ContextCore
  <2> QED
    BY <1>1, <2>1, PickNextRank
<1> QED
  BY <1>1, SchedInvariant, PTL DEF Spec, PassChoosesMostUrgent
-----------------------------------------------------------------------------
(* The lazy FPU. *)

(* The scheduler is the one of Sched: the FPU only watches it. *)
LEMMA NextFpuIsNext == [NextFpu]_allVars => [Next]_vars
<1> SUFFICES ASSUME [NextFpu]_allVars PROVE [Next]_vars
  OBVIOUS
<1>1. CASE \E t \in Threads : CreateFpu(t)
  BY <1>1 DEF CreateFpu, Next
<1>2. CASE SwitchFpu
  BY <1>2 DEF SwitchFpu, Next, Handler
<1>3. CASE SchedOnly
  BY <1>3 DEF SchedOnly, Next, Handler
<1>4. CASE UndefException
  BY <1>4 DEF UndefException
<1>5. CASE (\E v \in Values : FpuWrite(v)) \/ FpuRead
  BY <1>5 DEF FpuWrite, FpuRead
<1>6. CASE UNCHANGED allVars
  BY <1>6 DEF allVars
<1> QED
  BY <1>1, <1>2, <1>3, <1>4, <1>5, <1>6 DEF NextFpu

(* Everything proved of the scheduler holds with the FPU beside it. *)
THEOREM FpuKeepsScheduler == SpecFpu => Spec
BY NextFpuIsNext, PTL DEF SpecFpu, InitFpu, Spec

-----------------------------------------------------------------------------
(* A thread that does not exist yet has cleared registers.                 *)
FreshThreads == \A t \in Threads \ created : lazy # t /\ fpuStack[t] = Zero

(* The inductive invariant.  sched_start does not disable the FPU, which   *)
(* is harmless only because nothing ran before: the third conjunct.        *)
FpuInv ==
  /\ TypeFpu
  /\ EnabledOwner
  /\ pc = "start" => curr = NULL
  /\ FreshThreads

(* The thread that executes exists: it is idle, or it was created. *)
LEMMA RunningThread ==
  ASSUME SchedInv, pc = "thread"
  PROVE  curr \in AllThreads /\ curr # NULL /\ curr \notin Threads \ created
<1>1. Runnable(curr)
  BY DEF SchedInv, CurrRunnable
<1>2. curr \in AllThreads /\ curr # NULL
  BY <1>1, ThreadAssumption DEF Runnable, AllThreads
<1>3. CASE curr = Idle
  BY <1>2, <1>3, ThreadAssumption
<1>4. CASE curr \in Threads /\ curr \in Range(list[Class[curr]])
  <2>1. curr \in created
    BY <1>4, ClassIsQueue DEF SchedInv, NoThreadLost
  <2> QED
    BY <1>2, <2>1
<1> QED
  BY <1>1, <1>3, <1>4 DEF Runnable

(* At boot nobody owns the register bank and the FPU is off. *)
LEMMA InitFpuInv == InitFpu => FpuInv
<1> SUFFICES ASSUME InitFpu PROVE FpuInv
  OBVIOUS
<1>1. TypeFpu
  <2>1. seen \in (AllThreads \union {NULL}) \X Values
    BY FpuAssumption DEF InitFpu
  <2> QED
    BY <2>1, FpuAssumption DEF InitFpu, TypeFpu
<1>2. FreshThreads
  BY ThreadAssumption DEF InitFpu, FreshThreads, AllThreads
<1> QED
  BY <1>1, <1>2 DEF InitFpu, Init, FpuInv, EnabledOwner

(* The exchange makes the running thread the owner of the bank. *)
LEMMA UndefFpuInv ==
  ASSUME SchedInv, FpuInv, UndefException
  PROVE  FpuInv'
<1>1. /\ curr \in AllThreads /\ curr # NULL /\ pc = "thread"
      /\ curr \notin Threads \ created
  BY RunningThread DEF UndefException
<1>2. /\ lazy' = curr /\ enabled' = TRUE /\ bank' \in Values
      /\ fpuStack' \in [AllThreads -> Values]
      /\ \A t \in AllThreads : t # lazy => fpuStack'[t] = fpuStack[t]
  <2>1. CASE lazy = curr
    BY <2>1 DEF UndefException, FpuInv, TypeFpu
  <2>2. CASE lazy # curr
    <3>1. bank' = fpuStack[curr] /\ lazy' = curr
      BY <2>2 DEF UndefException
    <3>2. fpuStack' = IF lazy = NULL THEN fpuStack
                      ELSE [fpuStack EXCEPT ![lazy] = bank]
      BY <2>2 DEF UndefException
    <3> QED
      BY <1>1, <3>1, <3>2 DEF FpuInv, TypeFpu, UndefException
  <2> QED
    BY <2>1, <2>2
<1>3. FreshThreads'
  BY <1>1, <1>2 DEF FpuInv, FreshThreads, UndefException, vars, AllThreads
<1>4. TypeFpu' /\ EnabledOwner'
  BY <1>1, <1>2 DEF UndefException, FpuInv, TypeFpu, EnabledOwner, vars
<1> QED
  BY <1>1, <1>3, <1>4 DEF FpuInv, UndefException, vars

(* Every step keeps the invariant of the register bank. *)
LEMMA NextFpuInv ==
  SchedInv /\ FpuInv /\ [NextFpu]_allVars => FpuInv'
<1> SUFFICES ASSUME SchedInv, FpuInv, [NextFpu]_allVars PROVE FpuInv'
  OBVIOUS
<1>1. ASSUME NEW t \in Threads, CreateFpu(t) PROVE FpuInv'
  <2>1. TypeFpu' /\ FreshThreads'
    BY <1>1, FpuAssumption
       DEF CreateFpu, CreateThread, FpuInv, TypeFpu, FreshThreads, AllThreads
  <2>2. EnabledOwner' /\ pc' # "start"
    BY <1>1 DEF CreateFpu, CreateThread, FpuInv, EnabledOwner
  <2> QED
    BY <2>1, <2>2 DEF FpuInv
<1>2. CASE SwitchFpu
  BY <1>2 DEF SwitchFpu, ContextCore, FpuInv, TypeFpu, EnabledOwner, FreshThreads
<1>3. CASE SchedOnly
  <2>1. UNCHANGED fpuVars
    BY <1>3 DEF SchedOnly
  <2>2. CASE StartFirst
    BY <2>1, <2>2 DEF StartFirst, fpuVars, FpuInv, TypeFpu, EnabledOwner, FreshThreads
  <2>3. CASE PickNext
    BY <2>1, <2>3 DEF PickNext, fpuVars, FpuInv, TypeFpu, EnabledOwner, FreshThreads
  <2>4. CASE WakeOne \/ WakeDone
    BY <2>1, <2>4
       DEF WakeOne, WakeDone, fpuVars, FpuInv, TypeFpu, EnabledOwner, FreshThreads
  <2>5. CASE CpuTick \/ LateTick
    BY <2>1, <2>5 DEF CpuTick, LateTick, CoreSched, fpuVars, FpuInv, TypeFpu,
       EnabledOwner, FreshThreads
  <2>6. ASSUME NEW elapsed, SchedStart(elapsed) PROVE FpuInv'
    BY <2>1, <2>6 DEF SchedStart, CoreSched, fpuVars, FpuInv, TypeFpu,
       EnabledOwner, FreshThreads
  <2>7. ASSUME NEW ms, NEW elapsed, ThreadSleep(ms, elapsed) PROVE FpuInv'
    BY <2>1, <2>7 DEF ThreadSleep, CoreSched, fpuVars, FpuInv, TypeFpu,
       EnabledOwner, FreshThreads
  <2> QED
    BY <1>3, <2>2, <2>3, <2>4, <2>5, <2>6, <2>7 DEF SchedOnly
<1>4. CASE UndefException
  BY <1>4, UndefFpuInv
<1>5. ASSUME NEW v \in Values, FpuWrite(v) PROVE FpuInv'
  BY <1>5 DEF FpuWrite, vars, FpuInv, TypeFpu, EnabledOwner, FreshThreads
<1>6. CASE FpuRead
  BY <1>6, RunningThread DEF FpuRead, vars, FpuInv, TypeFpu, EnabledOwner, FreshThreads
<1>7. CASE UNCHANGED allVars
  BY <1>7 DEF allVars, vars, fpuVars, FpuInv, TypeFpu, EnabledOwner, FreshThreads
<1> QED
  BY <1>1, <1>2, <1>3, <1>4, <1>5, <1>6, <1>7 DEF NextFpu

(* The owner of the bank and the enable bit agree in every state. *)
THEOREM FpuInvariant == SpecFpu => []FpuInv
<1>1. SpecFpu => []SchedInv
  BY FpuKeepsScheduler, SchedInvariant, PTL
<1> QED
  BY <1>1, InitFpuInv, NextFpuInv, PTL DEF SpecFpu

(* The FPU is enabled only while the running thread's registers are in it. *)
THEOREM FpuEnabledForOwner == SpecFpu => []EnabledOwner
BY FpuInvariant, PTL DEF FpuInv

-----------------------------------------------------------------------------
(* A step that changes no register and does not read either is, for the    *)
(* threads, a switch or nothing.                                           *)
LEMMA SwitchStep ==
  ASSUME SchedInv, SchedInv', UNCHANGED <<lazy, bank, fpuStack, seen>>,
         curr' = curr \/ curr' \in AllThreads
  PROVE  [Private!PNext]_Private!pvars
<1>1. [t \in AllThreads |-> RegsOf(t)]' = [t \in AllThreads |-> RegsOf(t)]
  BY DEF RegsOf
<1> QED
  BY <1>1 DEF Private!PNext, Private!pvars, Private!PSwitch

(* Every step is one of a machine with an FPU for each thread, or none. *)
LEMMA NextPrivate ==
  ASSUME SchedInv, SchedInv', FpuInv, FpuInv', [NextFpu]_allVars
  PROVE  [Private!PNext]_Private!pvars
<1> DEFINE regs == [t \in AllThreads |-> RegsOf(t)]
<1>1. curr' = curr \/ curr' \in AllThreads
  <2>1. curr' # curr => curr' \in AllThreads
    <3>1. pc' = "thread" => curr' \in AllThreads
      BY ThreadAssumption
         DEF SchedInv, CurrRunnable, Runnable, AllThreads
    <3>2. [Next]_vars
      BY NextFpuIsNext
    <3>3. curr' = curr \/ pc' = "thread"
      BY <3>2 DEF Next, Handler, CreateThread, SchedStart, CpuTick, LateTick,
         ThreadSleep, WakeOne, WakeDone, PickNext, StartFirst, ContextCore, vars
    <3> QED
      BY <3>1, <3>3
  <2> QED
    BY <2>1
<1>2. ASSUME NEW t \in Threads, CreateFpu(t)
      PROVE  [Private!PNext]_Private!pvars
  <2>1. t \notin created /\ t \in AllThreads
    BY <1>2 DEF CreateFpu, CreateThread, AllThreads
  <2>2. fpuStack' = fpuStack
    BY <1>2, <2>1 DEF CreateFpu, FpuInv, TypeFpu, FreshThreads
  <2> QED
    BY <1>1, <1>2, <2>2, SwitchStep DEF CreateFpu
<1>3. CASE SwitchFpu
  BY <1>1, <1>3, SwitchStep DEF SwitchFpu
<1>4. CASE SchedOnly
  BY <1>1, <1>4, SwitchStep DEF SchedOnly, fpuVars
<1>5. CASE UndefException
  <2>1. curr \in AllThreads /\ curr # NULL
    BY <1>5, RunningThread DEF UndefException
  <2>2. regs' = regs
    <3>1. ASSUME NEW t \in AllThreads PROVE RegsOf(t)' = RegsOf(t)
      <4>1. CASE lazy = curr
        BY <1>5, <4>1 DEF UndefException, RegsOf
      <4>2. CASE lazy # curr
        <5>1. bank' = fpuStack[curr] /\ lazy' = curr
          BY <1>5, <4>2 DEF UndefException
        <5>2. fpuStack' = IF lazy = NULL THEN fpuStack
                          ELSE [fpuStack EXCEPT ![lazy] = bank]
          BY <1>5, <4>2 DEF UndefException
        <5>3. fpuStack \in [AllThreads -> Values]
          BY DEF FpuInv, TypeFpu
        <5>4. lazy = NULL => t # lazy
          BY ThreadAssumption
        <5>5. CASE t = curr
          BY <4>2, <5>1, <5>5 DEF RegsOf
        <5>6. CASE t = lazy
          BY <4>2, <5>1, <5>2, <5>3, <5>4, <5>6 DEF RegsOf
        <5>7. CASE t # curr /\ t # lazy
          BY <5>1, <5>2, <5>3, <5>7 DEF RegsOf
        <5> QED
          BY <5>5, <5>6, <5>7
      <4> QED
        BY <4>1, <4>2
    <3> QED
      BY <3>1
  <2>3. curr' = curr /\ seen' = seen
    BY <1>5 DEF UndefException, vars
  <2> QED
    BY <2>2, <2>3 DEF Private!pvars
<1>6. ASSUME NEW v \in Values, FpuWrite(v)
      PROVE  [Private!PNext]_Private!pvars
  <2>1. curr # NULL /\ lazy = curr
    BY <1>6 DEF FpuWrite, FpuInv, EnabledOwner
  <2>2. curr' = curr /\ lazy' = lazy /\ fpuStack' = fpuStack /\ bank' = v
        /\ seen' = seen
    BY <1>6 DEF FpuWrite, vars
  <2>3. ASSUME NEW t \in AllThreads
        PROVE  RegsOf(t)' = IF t = curr THEN v ELSE RegsOf(t)
    BY <2>1, <2>2 DEF RegsOf
  <2>4. regs' = [regs EXCEPT ![curr] = v]
    BY <2>3
  <2>5. Private!PWrite(v)
    BY <2>1, <2>2, <2>4 DEF Private!PWrite
  <2> QED
    BY <2>5 DEF Private!PNext
<1>7. CASE FpuRead
  <2>1. curr # NULL /\ lazy = curr /\ curr \in AllThreads
    BY <1>7, RunningThread DEF FpuRead, FpuInv, EnabledOwner
  <2>2. regs[curr] = bank
    BY <2>1 DEF RegsOf
  <2>3. regs' = regs
    BY <1>7 DEF FpuRead, RegsOf
  <2>4. curr' = curr /\ seen' = <<curr, bank>>
    BY <1>7 DEF FpuRead, vars
  <2>5. Private!PRead
    BY <2>1, <2>2, <2>3, <2>4 DEF Private!PRead
  <2> QED
    BY <2>5 DEF Private!PNext
<1>8. CASE UNCHANGED allVars
  BY <1>1, <1>8, SwitchStep DEF allVars, fpuVars
<1> QED
  BY <1>2, <1>3, <1>4, <1>5, <1>6, <1>7, <1>8 DEF NextFpu

(* All registers are clear at boot. *)
LEMMA InitPrivate == InitFpu => Private!PInit
BY ThreadAssumption DEF InitFpu, Init, Private!PInit, RegsOf

(* Lazy switching refines FPUs of the threads' own: what a thread reads is *)
(* what it wrote last, however often it has been preempted in between.     *)
THEOREM LazyIsPrivate == SpecFpu => PrivateRegisters
<1>1. SpecFpu => []SchedInv
  BY FpuKeepsScheduler, SchedInvariant, PTL
<1>2. SchedInv /\ SchedInv' /\ FpuInv /\ FpuInv' /\ [NextFpu]_allVars
        => [Private!PNext]_Private!pvars
  BY NextPrivate
<1> QED
  BY <1>1, <1>2, InitPrivate, FpuInvariant, PTL
     DEF SpecFpu, PrivateRegisters, Private!PSpec

-----------------------------------------------------------------------------
(* The timer. *)

(* What cpu_timer_get_value_us returns is less than a slice. *)
LEMMA ValueUsFacts ==
  ASSUME CV \in 0 .. RC - 1
  PROVE  /\ ValueUs \in Nat
         /\ ValueUs * RC <= CV * SCHED_SLICE
<1> DEFINE p == CV * SCHED_SLICE
<1>1. CV \in Nat /\ SCHED_SLICE \in Nat /\ RC \in Nat \ {0} /\ p \in Nat
  BY TimerAssumption, TimeAssumption
<1> HIDE DEF p
<1>2. /\ p \div RC \in Nat
      /\ (p \div RC) * RC <= p
  BY <1>1
<1> QED
  BY <1>2 DEF ValueUs, p

(* The steps of the composition that are steps of the scheduler. *)
LEMMA NextTimedIsNext ==
  [NextTimed]_<<vars, timerVars>> => [Next]_vars
<1> SUFFICES ASSUME [NextTimed]_<<vars, timerVars>> PROVE [Next]_vars
  OBVIOUS
<1>1. CASE TimerCount
  BY <1>1 DEF TimerCount
<1>2. CASE TimerInterrupt
  BY <1>2 DEF TimerInterrupt, Next
<1>3. ASSUME NEW ms \in SleepArgs, TimedSleep(ms) PROVE Next
  <2>1. ThreadSleep(ms, ValueUs) /\ ValueUs \in 0 .. SCHED_SLICE - 1
    BY <1>3 DEF TimedSleep, ThreadSleep
  <2> QED
    BY <2>1 DEF Next
<1>4. CASE Untimed
  BY <1>4 DEF Untimed, Next
<1>5. CASE UNCHANGED <<vars, timerVars>>
  BY <1>5
<1> QED
  BY <1>1, <1>2, <1>3, <1>4, <1>5 DEF NextTimed

(* Everything proved of the scheduler holds with the timer beside it. *)
THEOREM TimerKeepsScheduler == SpecTimed => Spec
BY NextTimedIsNext, PTL DEF SpecTimed, InitTimed, Spec

-----------------------------------------------------------------------------
(* How the sleep list changes. *)

(* A sleep call adds its caller to the sleep list and to nothing else. *)
LEMMA SleepCallList ==
  ASSUME SchedInv, NEW ms \in SleepArgs, NEW elapsed, ThreadSleep(ms, elapsed)
  PROVE  /\ curr \in Threads
         /\ Range(list'["sleep"]) = Range(list["sleep"]) \union {curr}
         /\ curr \notin Range(list["sleep"])
<1> DEFINE w == tick + Delay(ms)
           s == list["sleep"]
           p == SleepPosition(s, w)
<1>1. TypeOK /\ pc = "thread" /\ curr \in Threads
  BY DEF SchedInv, ThreadSleep
<1>2. Class[curr] \in Lists /\ Class[curr] # "sleep" /\ "sleep" \in Lists
  BY <1>1, ClassIsQueue DEF Lists
<1>3. list'["sleep"] = InsertAt(s, p, curr)
  BY <1>1, <1>2 DEF ThreadSleep, TypeOK, InsertSleeper
<1>4. w \in Nat /\ s \in Seq(Threads) /\ wakeTick \in [AllThreads -> Nat]
  <2>1. Delay(ms) \in Nat /\ tick \in Nat
    BY <1>1, DelayType DEF TypeOK
  <2> QED
    BY <1>1, <1>2, <2>1 DEF TypeOK
<1>5. curr \notin Range(s)
  <2>1. curr \in Range(list[Class[curr]])
    BY <1>1, ThreadAssumption DEF SchedInv, CurrRunnable, Runnable
  <2> QED
    BY <1>2, <2>1 DEF SchedInv, LinkedOnce
<1> HIDE DEF w, s
<1>6. p \in 1 .. Len(s) + 1
  <2>1. \A i \in 1 .. Len(s) : wakeTick[s[i]] \in Nat
    BY <1>4 DEF AllThreads
  <2> QED
    BY <1>4, <2>1, SleepPositionFacts
<1> HIDE DEF p
<1>7. Range(InsertAt(s, p, curr)) = Range(s) \union {curr}
  BY <1>1, <1>4, <1>6, InsertRange
<1> QED
  BY <1>1, <1>3, <1>5, <1>7 DEF s

(* A wake-up takes the head off the sleep list. *)
LEMMA WakeOneList ==
  ASSUME SchedInv, WakeOne
  PROVE  /\ Head(list["sleep"]) \in Range(list["sleep"])
         /\ Range(list'["sleep"]) = Range(list["sleep"]) \ {Head(list["sleep"])}
         /\ wakeTick[Head(list["sleep"])] <= tick
<1> DEFINE s == list["sleep"]
<1>1. /\ s \in Seq(Threads) /\ s # <<>> /\ IsInjective(s) /\ "sleep" \in Lists
      /\ list \in [Lists -> Seq(Threads)]
  BY DEF SchedInv, TypeOK, LinkedOnce, WakeOne, Lists
<1>2. Head(s) \in Threads /\ Head(s) \in Range(s) /\ Range(Tail(s)) = Range(s) \ {Head(s)}
  BY <1>1, TailFacts
<1>3. Class[Head(s)] # "sleep"
  BY <1>2, ClassIsQueue
<1>4. list'["sleep"] = Tail(s)
  BY <1>1, <1>3 DEF WakeOne
<1> QED
  BY <1>2, <1>4 DEF WakeOne

(* All the other steps of the scheduler leave the sleep list alone. *)
LEMMA OtherLists ==
  ASSUME SchedInv,
         \/ \E t \in Threads : CreateThread(t)
         \/ \E elapsed \in {0, SCHED_SLICE} : SchedStart(elapsed)
         \/ CpuTick \/ WakeDone \/ PickNext \/ StartFirst \/ ContextCore
  PROVE  list'["sleep"] = list["sleep"] /\ wakeTick' = wakeTick
<1>1. list \in [Lists -> Seq(Threads)] /\ "sleep" \in Lists
  BY DEF SchedInv, TypeOK, Lists
<1>2. ASSUME NEW t \in Threads, CreateThread(t)
      PROVE  list'["sleep"] = list["sleep"]
  BY <1>1, <1>2, ClassIsQueue DEF CreateThread
<1>3. CASE PickNext
  BY <1>1, <1>3 DEF PickNext, PickQueue
<1> QED
  BY <1>2, <1>3 DEF CreateThread, SchedStart, CpuTick, WakeDone, PickNext,
       StartFirst, ContextCore

-----------------------------------------------------------------------------
(* What the counter and a pending interrupt hold that no pass has seen.    *)
Unaccounted == CV + IF pending THEN RC ELSE 0

TypeTimed ==
  /\ CV \in 0 .. RC - 1
  /\ pending \in BOOLEAN
  /\ now \in Nat
  /\ sleptAt \in [AllThreads -> Nat]
  /\ asked \in [AllThreads -> Nat]

(* Until sched_start no time has passed and nobody sleeps. *)
NoTimeAtBoot ==
  pc = "boot" => /\ tick = 0 /\ now = 0 /\ CV = 0 /\ pending = FALSE
                 /\ Range(list["sleep"]) = {}

(* What is known of a sleeper: from its call on, the tick has advanced by  *)
(* no more than the real time and what was unaccounted at the call, which  *)
(* is less than two slices.                                                *)
SleeperInTime ==
  \A t \in Range(list["sleep"]) :
    (tick + asked[t]) * RC + Unaccounted * SCHED_SLICE
      <= wakeTick[t] * RC + (now - sleptAt[t] + 2 * RC - 1) * SCHED_SLICE

(* The inductive invariant of the timer, beside that of the scheduler. *)
TimerInv ==
  /\ TypeTimed
  /\ NoTimeAtBoot
  /\ TickNotAhead
  /\ SleeperInTime

-----------------------------------------------------------------------------
(* The arithmetic of one account: T ticks so far and U counts unaccounted  *)
(* against a limit in ticks and counts of real time.                       *)
LEMMA AccountArith ==
  ASSUME NEW R \in Nat \ {0}, NEW S \in Nat \ {0}, NEW T \in Nat, NEW U \in Nat,
         NEW T2 \in Nat, NEW U2 \in Nat, NEW k \in Nat,
         NEW w \in Int, NEW x \in Int,
         T * R + U * S <= w * R + x * S,
         \/ T2 = T /\ U2 <= U + 1 /\ k = 1
         \/ T2 = T + S /\ U = U2 + R /\ k = 0
         \/ /\ k = 0 /\ U2 <= U
            /\ \E V \in Nat : T2 = T + V /\ V * R <= (U - U2) * S
  PROVE  T2 * R + U2 * S <= w * R + (x + k) * S
<1>1. T * R \in Nat /\ U * S \in Nat /\ w * R \in Int /\ x * S \in Int
  OBVIOUS
<1>2. CASE T2 = T /\ U2 <= U + 1 /\ k = 1
  <2>1. U2 * S <= (U + 1) * S
    BY <1>2
  <2>2. (U + 1) * S = U * S + S /\ (x + 1) * S = x * S + S
    OBVIOUS
  <2> QED
    BY <1>1, <1>2, <2>1, <2>2
<1>3. CASE T2 = T + S /\ U = U2 + R /\ k = 0
  <2>1. T2 * R = T * R + S * R /\ U * S = U2 * S + R * S /\ S * R = R * S
    BY <1>3
  <2>2. U2 * S \in Nat /\ R * S \in Nat
    OBVIOUS
  <2> QED
    BY <1>1, <1>3, <2>1, <2>2
<1>4. ASSUME k = 0, U2 <= U, NEW V \in Nat, T2 = T + V, V * R <= (U - U2) * S
      PROVE  T2 * R + U2 * S <= w * R + (x + k) * S
  <2>1. T2 * R = T * R + V * R /\ (U - U2) * S = U * S - U2 * S
    BY <1>4
  <2>2. U2 * S \in Nat /\ V * R \in Nat
    OBVIOUS
  <2> QED
    BY <1>1, <1>4, <2>1, <2>2
<1> QED
  BY <1>2, <1>3, <1>4

(* The value of the two together. *)
LEMMA PendingValue ==
  ASSUME NEW c \in 0 .. RC - 1, NEW p \in BOOLEAN, NEW u, u = c + IF p THEN RC ELSE 0
  PROVE  u \in Nat /\ (p => u = c + RC) /\ (~p => u = c)
<1>1. RC \in Nat
  BY TimerAssumption
<1>2. CASE p
  BY <1>1, <1>2
<1>3. CASE ~p
  BY <1>1, <1>3
<1> QED
  BY <1>2, <1>3

(* A step of the timer, an interrupt or a sleep call keeps the account of  *)
(* the tick, and of every thread that slept before.                        *)
LEMMA AccountsKept ==
  ASSUME TypeOK, TypeOK', TypeTimed, TypeTimed', TickNotAhead, SleeperInTime,
         \/ tick' = tick /\ Unaccounted' <= Unaccounted + 1 /\ now' = now + 1
         \/ tick' = tick + SCHED_SLICE /\ Unaccounted = Unaccounted' + RC /\ now' = now
         \/ /\ now' = now /\ Unaccounted' <= Unaccounted
            /\ \E V \in Nat : /\ tick' = tick + V
                              /\ V * RC <= (Unaccounted - Unaccounted') * SCHED_SLICE
  PROVE  /\ TickNotAhead'
         /\ \A t \in Range(list["sleep"]) :
              asked'[t] = asked[t] /\ wakeTick'[t] = wakeTick[t] /\ sleptAt'[t] = sleptAt[t] =>
                (tick' + asked'[t]) * RC + Unaccounted' * SCHED_SLICE
                  <= wakeTick'[t] * RC + (now' - sleptAt'[t] + 2 * RC - 1) * SCHED_SLICE
<1> DEFINE U == Unaccounted
           U2 == Unaccounted'
           k == now' - now
<1>1. /\ RC \in Nat \ {0} /\ SCHED_SLICE \in Nat \ {0}
      /\ tick \in Nat /\ tick' \in Nat /\ now \in Nat
  BY TimerAssumption, TimeAssumption DEF TypeOK, TypeTimed
<1>2. U \in Nat /\ U2 \in Nat
  <2>1. U = CV + IF pending THEN RC ELSE 0
    BY DEF Unaccounted
  <2>2. U2 = CV' + IF pending' THEN RC ELSE 0
    BY DEF Unaccounted
  <2>3. CV \in 0 .. RC - 1 /\ CV' \in 0 .. RC - 1
    BY DEF TypeTimed
  <2>4. pending \in BOOLEAN /\ pending' \in BOOLEAN
    BY DEF TypeTimed
  <2> HIDE DEF U, U2
  <2>5. U \in Nat
    BY <2>1, <2>3, <2>4, PendingValue
  <2>6. U2 \in Nat
    BY <2>2, <2>3, <2>4, PendingValue
  <2> QED
    BY <2>5, <2>6
<1>3. k \in Nat /\ now' = now + k
  BY <1>1
<1>4. \/ tick' = tick /\ U2 <= U + 1 /\ k = 1
      \/ tick' = tick + SCHED_SLICE /\ U = U2 + RC /\ k = 0
      \/ /\ k = 0 /\ U2 <= U
         /\ \E V \in Nat : tick' = tick + V /\ V * RC <= (U - U2) * SCHED_SLICE
  BY <1>1
<1> HIDE DEF U, U2, k
<1>5. TickNotAhead'
  <2> DEFINE w == 0
             x == now + RC
  <2>1. tick * RC + U * SCHED_SLICE <= w * RC + x * SCHED_SLICE
    BY <1>1 DEF TickNotAhead, U, Unaccounted
  <2>2. w \in Int /\ x \in Int /\ w * RC = 0 /\ x + k = now' + RC
    BY <1>1, <1>3
  <2> HIDE DEF w, x
  <2>3. tick' * RC + U2 * SCHED_SLICE <= w * RC + (x + k) * SCHED_SLICE
    BY <1>1, <1>2, <1>3, <1>4, <2>1, <2>2, AccountArith
  <2>4. (now' + RC) * SCHED_SLICE \in Nat
    BY <1>1, <1>3
  <2>5. tick' * RC + U2 * SCHED_SLICE <= (now' + RC) * SCHED_SLICE
    BY <2>2, <2>3, <2>4
  <2> QED
    BY <2>5 DEF TickNotAhead, U2, Unaccounted
<1>6. ASSUME NEW t \in Range(list["sleep"]),
             asked'[t] = asked[t] /\ wakeTick'[t] = wakeTick[t] /\ sleptAt'[t] = sleptAt[t]
      PROVE  (tick' + asked'[t]) * RC + U2 * SCHED_SLICE
               <= wakeTick'[t] * RC + (now' - sleptAt'[t] + 2 * RC - 1) * SCHED_SLICE
  <2>1. t \in AllThreads
    <3>1. list["sleep"] \in Seq(Threads)
      BY DEF TypeOK, Lists
    <3> QED
      BY <3>1, RangeFacts DEF AllThreads
  <2> DEFINE a == asked[t]
             w == wakeTick[t] - a
             x == now - sleptAt[t] + 2 * RC - 1
  <2>2. a \in Nat /\ wakeTick[t] \in Nat /\ sleptAt[t] \in Nat
    BY <2>1 DEF TypeOK, TypeTimed
  <2>3. w \in Int /\ x \in Int
    BY <1>1, <2>2
  <2>4. (tick + a) * RC + U * SCHED_SLICE <= wakeTick[t] * RC + x * SCHED_SLICE
    BY DEF SleeperInTime, U
  <2>5. x + k = now' - sleptAt'[t] + 2 * RC - 1
    BY <1>1, <1>3, <1>6, <2>2
  <2> HIDE DEF x
  <2>6. tick * RC + U * SCHED_SLICE <= w * RC + x * SCHED_SLICE
    <3>1. /\ (tick + a) * RC = tick * RC + a * RC
          /\ w * RC = wakeTick[t] * RC - a * RC
      BY <1>1, <2>2
    <3>2. /\ tick * RC \in Nat /\ a * RC \in Nat /\ wakeTick[t] * RC \in Nat
          /\ U * SCHED_SLICE \in Nat /\ x * SCHED_SLICE \in Int
      BY <1>1, <1>2, <2>2, <2>3
    <3> HIDE DEF a, w
    <3> QED
      BY <2>4, <3>1, <3>2
  <2> HIDE DEF w
  <2>7. tick' * RC + U2 * SCHED_SLICE <= w * RC + (x + k) * SCHED_SLICE
    BY <1>1, <1>2, <1>3, <1>4, <2>3, <2>6, AccountArith
  <2>8. (tick' + a) * RC + U2 * SCHED_SLICE
          <= wakeTick[t] * RC + (x + k) * SCHED_SLICE
    <3>1. /\ (tick' + a) * RC = tick' * RC + a * RC
          /\ w * RC = wakeTick[t] * RC - a * RC
      BY <1>1, <2>2 DEF w
    <3>2. /\ tick' * RC \in Nat /\ a * RC \in Nat /\ wakeTick[t] * RC \in Nat
          /\ U2 * SCHED_SLICE \in Nat /\ (x + k) * SCHED_SLICE \in Int
      BY <1>1, <1>2, <1>3, <2>2, <2>3
    <3> HIDE DEF a
    <3> QED
      BY <2>7, <3>1, <3>2
  <2> QED
    BY <1>6, <2>5, <2>8
<1> QED
  BY <1>5, <1>6 DEF U2

(* One count of the timer. *)
LEMMA CountStep ==
  ASSUME SchedInv, SchedInv', TimerInv, TimerCount
  PROVE  TimerInv'
<1>1. /\ RC \in Nat \ {0} /\ CV \in 0 .. RC - 1 /\ now \in Nat /\ pending \in BOOLEAN
      /\ UNCHANGED vars
  BY TimerAssumption DEF TimerInv, TypeTimed, TimerCount
<1>2. CV' \in 0 .. RC - 1 /\ (CV' = CV + 1 \/ (CV' = 0 /\ CV + 1 = RC))
  BY <1>1 DEF TimerCount
<1>3. TypeTimed'
  BY <1>1, <1>2 DEF TimerInv, TypeTimed, TimerCount
<1>4. Unaccounted' <= Unaccounted + 1
  <2>1. Unaccounted' = CV' + IF pending' THEN RC ELSE 0
    BY DEF Unaccounted
  <2>2. Unaccounted = CV + IF pending THEN RC ELSE 0
    BY DEF Unaccounted
  <2> DEFINE U == Unaccounted
             U2 == Unaccounted'
  <2> HIDE DEF U, U2
  <2>3. U \in Nat /\ (pending => U = CV + RC) /\ (~pending => U = CV)
    BY <1>1, <2>2, PendingValue DEF U
  <2>4. U2 \in Nat /\ (pending' => U2 = CV' + RC) /\ (~pending' => U2 = CV')
    <3>1. pending' \in BOOLEAN
      BY <1>3 DEF TypeTimed
    <3> QED
      BY <1>2, <2>1, <3>1, PendingValue DEF U2
  <2>5. pending' <=> (pending \/ CV' = 0)
    BY <1>1 DEF TimerCount
  <2>6. CASE CV' = CV + 1
    <3>1. CV' # 0
      BY <1>1, <2>6
    <3> QED
      BY <1>1, <2>3, <2>4, <2>5, <2>6, <3>1 DEF U, U2
  <2>7. CASE CV' = 0 /\ CV + 1 = RC
    BY <1>1, <2>3, <2>4, <2>5, <2>7 DEF U, U2
  <2> QED
    BY <1>2, <2>6, <2>7
<1>5. /\ tick' = tick /\ now' = now + 1 /\ asked' = asked /\ sleptAt' = sleptAt
      /\ wakeTick' = wakeTick /\ list' = list /\ pc' = pc /\ pc # "boot"
  BY <1>1 DEF TimerCount, vars
<1>6. TickNotAhead' /\ SleeperInTime'
  BY <1>3, <1>4, <1>5, AccountsKept DEF SchedInv, TimerInv, SleeperInTime
<1> QED
  BY <1>3, <1>5, <1>6 DEF TimerInv, NoTimeAtBoot

(* The interrupt: the slice moves from the pending bit to the tick. *)
LEMMA InterruptStep ==
  ASSUME SchedInv, SchedInv', TimerInv, TimerInterrupt
  PROVE  TimerInv'
<1>1. /\ tick' = tick + SCHED_SLICE /\ list' = list /\ wakeTick' = wakeTick
      /\ pc' \in {"wake", "pick"}
      /\ now' = now /\ asked' = asked /\ sleptAt' = sleptAt /\ CV' = CV
      /\ pending = TRUE /\ pending' = FALSE
  BY DEF TimerInterrupt, CpuTick, CoreSched, TimerInv, TypeTimed
<1>2. TypeTimed'
  BY <1>1 DEF TimerInv, TypeTimed
<1>3. Unaccounted = Unaccounted' + RC
  BY <1>1, TimerAssumption DEF TimerInv, TypeTimed, Unaccounted
<1>4. TickNotAhead' /\ SleeperInTime'
  BY <1>1, <1>2, <1>3, AccountsKept DEF SchedInv, TimerInv, SleeperInTime
<1> QED
  BY <1>1, <1>2, <1>4 DEF TimerInv, NoTimeAtBoot

(* A sleep call: what the counter holds moves to the tick, and the account *)
(* of the new sleeper begins with less than two slices.                    *)
LEMMA TimedSleepStep ==
  ASSUME SchedInv, SchedInv', TimerInv, NEW ms \in SleepArgs, TimedSleep(ms)
  PROVE  TimerInv'
<1>1. /\ ThreadSleep(ms, ValueUs) /\ CV' = 0 /\ pending' = pending /\ now' = now
      /\ sleptAt' = [sleptAt EXCEPT ![curr] = now]
      /\ asked' = [asked EXCEPT ![curr] = Delay(ms)]
      /\ wakeTick' = [wakeTick EXCEPT ![curr] = tick + Delay(ms)]
      /\ tick' = tick + ValueUs
      /\ pc' \in {"wake", "pick"}
  BY DEF TimedSleep, ThreadSleep, CoreSched
<1>2. /\ curr \in Threads /\ curr \in AllThreads
      /\ Range(list'["sleep"]) = Range(list["sleep"]) \union {curr}
      /\ curr \notin Range(list["sleep"])
  BY <1>1, SleepCallList DEF AllThreads
<1>3. Delay(ms) \in Nat
  BY DelayType
<1>4. /\ RC \in Nat \ {0} /\ SCHED_SLICE \in Nat \ {0} /\ now \in Nat /\ tick \in Nat
      /\ CV \in 0 .. RC - 1 /\ CV \in Nat /\ pending \in BOOLEAN
  BY TimerAssumption, TimeAssumption DEF TimerInv, TypeTimed, SchedInv, TypeOK
<1>5. TypeTimed'
  BY <1>1, <1>2, <1>3, <1>4 DEF TimerInv, TypeTimed
<1>6. ValueUs \in Nat /\ ValueUs * RC <= CV * SCHED_SLICE
  BY <1>4, ValueUsFacts
<1>7. /\ Unaccounted \in Nat /\ Unaccounted' = Unaccounted - CV
      /\ Unaccounted' <= RC /\ Unaccounted' \in Nat
  <2>1. CASE pending
    BY <1>1, <1>4, <2>1 DEF Unaccounted
  <2>2. CASE ~pending
    BY <1>1, <1>4, <2>2 DEF Unaccounted
  <2> QED
    BY <2>1, <2>2
<1>8. ASSUME NEW t \in Range(list["sleep"])
      PROVE  asked'[t] = asked[t] /\ wakeTick'[t] = wakeTick[t] /\ sleptAt'[t] = sleptAt[t]
  BY <1>1, <1>2, <1>8 DEF TimerInv, TypeTimed, SchedInv, TypeOK
<1>9. /\ TickNotAhead'
      /\ \A t \in Range(list["sleep"]) :
           (tick' + asked'[t]) * RC + Unaccounted' * SCHED_SLICE
             <= wakeTick'[t] * RC + (now' - sleptAt'[t] + 2 * RC - 1) * SCHED_SLICE
  <2>1. /\ Unaccounted' <= Unaccounted /\ Unaccounted - Unaccounted' = CV
    BY <1>4, <1>7
  <2> QED
    BY <1>1, <1>5, <1>6, <1>8, <2>1, AccountsKept DEF SchedInv, TimerInv
<1>10. (tick' + asked'[curr]) * RC + Unaccounted' * SCHED_SLICE
         <= wakeTick'[curr] * RC + (now' - sleptAt'[curr] + 2 * RC - 1) * SCHED_SLICE
  <2> DEFINE V == ValueUs
             D == Delay(ms)
             U2 == Unaccounted'
  <2>1. asked'[curr] = D /\ wakeTick'[curr] = tick + D /\ sleptAt'[curr] = now
    BY <1>1, <1>2 DEF TimerInv, TypeTimed, SchedInv, TypeOK
  <2>2. V \in Nat /\ D \in Nat /\ U2 \in Nat /\ U2 <= RC /\ V * RC <= CV * SCHED_SLICE
    BY <1>3, <1>6, <1>7
  <2>3. tick' = tick + V
    BY <1>1
  <2> HIDE DEF V, D, U2
  <2>4. (tick + V + D) * RC = (tick + D) * RC + V * RC
    BY <1>4, <2>2
  <2>5. /\ CV * SCHED_SLICE <= (RC - 1) * SCHED_SLICE
        /\ U2 * SCHED_SLICE <= RC * SCHED_SLICE
    BY <1>4, <2>2
  <2>6. (now - now + 2 * RC - 1) * SCHED_SLICE = (RC - 1) * SCHED_SLICE + RC * SCHED_SLICE
    BY <1>4
  <2>7. /\ (tick + D) * RC \in Nat /\ V * RC \in Nat /\ U2 * SCHED_SLICE \in Nat
        /\ CV * SCHED_SLICE \in Nat /\ RC * SCHED_SLICE \in Nat
        /\ (RC - 1) * SCHED_SLICE \in Nat
    BY <1>4, <2>2
  <2>8. (tick + V + D) * RC + U2 * SCHED_SLICE
          <= (tick + D) * RC + (now - now + 2 * RC - 1) * SCHED_SLICE
    BY <2>2, <2>4, <2>5, <2>6, <2>7
  <2> QED
    BY <1>1, <2>1, <2>3, <2>8 DEF U2
<1>11. SleeperInTime'
  BY <1>2, <1>9, <1>10 DEF SleeperInTime
<1> QED
  BY <1>1, <1>5, <1>9, <1>11 DEF TimerInv, NoTimeAtBoot

(* A pass of the scheduler that neither takes the interrupt nor sleeps.    *)
LEMMA UntimedStep ==
  ASSUME SchedInv, SchedInv', TimerInv, Untimed
  PROVE  TimerInv'
<1>1. UNCHANGED timerVars
  BY DEF Untimed
<1>2. TypeTimed' /\ Unaccounted' = Unaccounted
  BY <1>1 DEF timerVars, TimerInv, TypeTimed, Unaccounted
<1>3. ASSUME NEW elapsed \in {0, SCHED_SLICE}, SchedStart(elapsed)
      PROVE  TimerInv'
  <2>1. /\ tick = 0 /\ now = 0 /\ Unaccounted = 0 /\ Range(list["sleep"]) = {}
        /\ list' = list /\ tick' = elapsed /\ pc' # "boot"
    BY <1>3, TimeAssumption
       DEF SchedStart, CoreSched, TimerInv, NoTimeAtBoot, Unaccounted, SchedInv, TypeOK
  <2>2. /\ tick' * RC + Unaccounted' * SCHED_SLICE <= (now' + RC) * SCHED_SLICE
    <3>1. /\ RC \in Nat /\ SCHED_SLICE \in Nat /\ tick' \in {0, SCHED_SLICE}
          /\ now' = 0 /\ Unaccounted' = 0
      BY <1>1, <1>2, <2>1, TimerAssumption, TimeAssumption DEF timerVars
    <3>2. SCHED_SLICE * RC = RC * SCHED_SLICE /\ RC * SCHED_SLICE \in Nat
      BY <3>1
    <3>3. tick' * RC <= RC * SCHED_SLICE
      <4>1. CASE tick' = 0
        BY <3>1, <3>2, <4>1
      <4>2. CASE tick' = SCHED_SLICE
        BY <3>1, <3>2, <4>2
      <4> QED
        BY <3>1, <4>1, <4>2
    <3>4. tick' * RC \in Nat
      <4>1. CASE tick' = 0
        BY <3>1, <4>1
      <4>2. CASE tick' = SCHED_SLICE
        BY <3>2, <4>2
      <4> QED
        BY <3>1, <4>1, <4>2
    <3>5. Unaccounted' * SCHED_SLICE = 0 /\ (now' + RC) * SCHED_SLICE = RC * SCHED_SLICE
      BY <3>1
    <3> QED
      BY <3>2, <3>3, <3>4, <3>5
  <2> QED
    BY <1>2, <2>1, <2>2 DEF TimerInv, NoTimeAtBoot, TickNotAhead, SleeperInTime,
         Unaccounted
<1>4. ASSUME tick' = tick, wakeTick' = wakeTick,
             Range(list'["sleep"]) \subseteq Range(list["sleep"]),
             pc' = "boot" => pc = "boot"
      PROVE  TimerInv'
  <2>1. now' = now /\ asked' = asked /\ sleptAt' = sleptAt /\ CV' = CV /\ pending' = pending
    BY <1>1 DEF timerVars
  <2>2. TickNotAhead' /\ SleeperInTime'
    BY <1>2, <1>4, <2>1 DEF TimerInv, TickNotAhead, SleeperInTime
  <2>3. NoTimeAtBoot'
    BY <1>4, <2>1 DEF TimerInv, NoTimeAtBoot
  <2> QED
    BY <1>2, <2>2, <2>3 DEF TimerInv
<1>5. ASSUME NEW t \in Threads, CreateThread(t) PROVE TimerInv'
  BY <1>4, <1>5, OtherLists DEF CreateThread
<1>6. CASE WakeOne
  BY <1>4, <1>6, WakeOneList DEF WakeOne
<1>7. CASE WakeDone \/ PickNext \/ StartFirst \/ ContextCore
  BY <1>4, <1>7, OtherLists DEF WakeDone, PickNext, StartFirst, ContextCore
<1> QED
  BY <1>3, <1>5, <1>6, <1>7 DEF Untimed, Handler

(* When the system starts nobody sleeps and no time has passed. *)
LEMMA InitTimerInv == InitTimed => TimerInv
<1> SUFFICES ASSUME InitTimed PROVE TimerInv
  OBVIOUS
<1>1. Range(list["sleep"]) = {} /\ tick = 0 /\ now = 0 /\ Unaccounted = 0
  BY DEF InitTimed, Init, Lists, Range, Unaccounted
<1>2. RC \in Nat \ {0} /\ SCHED_SLICE \in Nat
  BY TimerAssumption, TimeAssumption
<1>3. (0 + RC) * SCHED_SLICE \in Nat /\ 0 * RC = 0 /\ 0 * SCHED_SLICE = 0
  BY <1>2
<1>4. TickNotAhead
  BY <1>1, <1>2, <1>3 DEF TickNotAhead, Unaccounted
<1>5. TypeTimed
  <2>1. CV \in 0 .. RC - 1 /\ now \in Nat
    BY <1>2 DEF InitTimed
  <2>2. /\ sleptAt \in [AllThreads -> Nat] /\ asked \in [AllThreads -> Nat]
        /\ pending \in BOOLEAN
    BY DEF InitTimed
  <2> QED
    BY <2>1, <2>2 DEF TypeTimed
<1> QED
  BY <1>1, <1>4, <1>5 DEF InitTimed, TimerInv, NoTimeAtBoot, SleeperInTime

LEMMA NextTimerInv ==
  SchedInv /\ SchedInv' /\ TimerInv /\ [NextTimed]_<<vars, timerVars>> => TimerInv'
<1> SUFFICES ASSUME SchedInv, SchedInv', TimerInv, [NextTimed]_<<vars, timerVars>>
             PROVE  TimerInv'
  OBVIOUS
<1>1. CASE UNCHANGED <<vars, timerVars>>
  BY <1>1 DEF vars, timerVars, TimerInv, TypeTimed, NoTimeAtBoot, TickNotAhead,
       SleeperInTime, Unaccounted
<1> QED
  BY <1>1, CountStep, InterruptStep, TimedSleepStep, UntimedStep DEF NextTimed

(* The account of the tick and of every sleeper is kept for ever. *)
THEOREM TimerInvariant == SpecTimed => [](SchedInv /\ TimerInv)
<1>1. InitTimed => TimerInv
  BY InitTimerInv
<1>2. SpecTimed => []SchedInv
  BY TimerKeepsScheduler, SchedInvariant
<1>3. SchedInv /\ SchedInv' /\ TimerInv /\ [NextTimed]_<<vars, timerVars>> => TimerInv'
  BY NextTimerInv
<1> QED
  BY <1>1, <1>2, <1>3, PTL DEF SpecTimed

-----------------------------------------------------------------------------
(* The kernel tick, with what the counter and a pending interrupt hold, is *)
(* never ahead of real time by more than the slice that sched_start may    *)
(* charge for nothing (cpu_timer_get_value_us, cpu_timer_reset).           *)
THEOREM TickIsNotAhead == SpecTimed => []TickNotAhead
BY TimerInvariant, PTL DEF TimerInv

(* A thread is woken early by less than two slices, whatever interrupts    *)
(* are pending or lost when it calls sleep.                                *)
THEOREM WokenInTime == SpecTimed => EarlyByTwoSlicesAtMost
<1> DEFINE InTime(t) == (now - sleptAt[t] + 2 * RC - 1) * SCHED_SLICE >= asked[t] * RC
<1>1. ASSUME SchedInv, TimerInv, [NextTimed]_<<vars, timerVars>>,
             NEW t \in Threads, Woken(t)
      PROVE  InTime(t)
  <2>1. WakeOne
    <3>1. CASE TimerCount
      BY <1>1, <3>1 DEF TimerCount, vars, Woken
    <3>2. CASE TimerInterrupt
      BY <1>1, <3>2 DEF TimerInterrupt, CpuTick, Woken
    <3>3. ASSUME NEW ms \in SleepArgs, TimedSleep(ms) PROVE FALSE
      BY <1>1, <3>3, SleepCallList DEF TimedSleep, Woken
    <3>4. CASE Untimed
      BY <1>1, <3>4, OtherLists DEF Untimed, Handler, Woken
    <3>5. CASE UNCHANGED <<vars, timerVars>>
      BY <1>1, <3>5 DEF vars, Woken
    <3> QED
      BY <1>1, <3>1, <3>2, <3>3, <3>4, <3>5 DEF NextTimed
  <2>2. t \in Range(list["sleep"]) /\ wakeTick[t] <= tick
    BY <1>1, <2>1, WakeOneList DEF Woken
  <2>3. (tick + asked[t]) * RC + Unaccounted * SCHED_SLICE
          <= wakeTick[t] * RC + (now - sleptAt[t] + 2 * RC - 1) * SCHED_SLICE
    BY <1>1, <2>2 DEF TimerInv, SleeperInTime
  <2> DEFINE x == now - sleptAt[t] + 2 * RC - 1
             a == asked[t]
             w == wakeTick[t]
             U == Unaccounted
  <2>4. /\ a \in Nat /\ w \in Nat /\ x \in Int /\ tick \in Nat
        /\ RC \in Nat /\ SCHED_SLICE \in Nat
    BY <1>1, TimerAssumption, TimeAssumption
       DEF TimerInv, TypeTimed, SchedInv, TypeOK, AllThreads
  <2>5. U \in Nat
    <3>1. CV \in 0 .. RC - 1 /\ pending \in BOOLEAN
      BY <1>1 DEF TimerInv, TypeTimed
    <3> QED
      BY <3>1, PendingValue DEF Unaccounted
  <2>6. w <= tick
    BY <2>2
  <2> HIDE DEF x, a, w, U
  <2>7. w * RC <= tick * RC /\ (tick + a) * RC = tick * RC + a * RC
    BY <2>4, <2>6
  <2>8. /\ w * RC \in Nat /\ tick * RC \in Nat /\ a * RC \in Nat
        /\ U * SCHED_SLICE \in Nat /\ x * SCHED_SLICE \in Int
    BY <2>4, <2>5
  <2>9. (tick + a) * RC + U * SCHED_SLICE <= w * RC + x * SCHED_SLICE
    BY <2>3 DEF x, a, w, U
  <2>10. x * SCHED_SLICE >= a * RC
    BY <2>7, <2>8, <2>9
  <2> QED
    BY <2>10 DEF x, a
<1>2. SchedInv /\ TimerInv /\ [NextTimed]_<<vars, timerVars>>
        => [\A t \in Threads : Woken(t) => InTime(t)]_<<vars, timerVars>>
  BY <1>1
<1> QED
  BY <1>2, TimerInvariant, PTL DEF SpecTimed, EarlyByTwoSlicesAtMost
=============================================================================
