CONSTANTS
  t1 = t1
  t2 = t2
  t3 = t3
  Idle = idle
  NULL = null
  Threads = {t1, t2, t3}
  Third = "back"
  Class <- MCClass
  SCHED_SLICE = 2
  SleepArgs = {0, 2, 5}
  UsPerMs = 2
  U32 = 8
  Horizon = 6
SPECIFICATION FairSpec
INVARIANTS
  LinkedOnce
  NoThreadLost
  CurrRunnable
  NoOverdueSleeper
  TickToWakeIsNext
PROPERTIES
  PassChoosesMostUrgent
  EverySleeperWakes
  RealTimeProgress
