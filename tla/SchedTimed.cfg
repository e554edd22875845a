CONSTANTS
  t1 = t1
  t2 = t2
  Idle = idle
  NULL = null
  Threads = {t1, t2}
  Class <- MCClass
  SCHED_SLICE = 2
  SleepArgs = {1, 2}
  UsPerMs = 2
  U32 = 8
  Horizon = 20
  RC = 3
  MaxNow = 12
SPECIFICATION SpecTimed
CHECK_DEADLOCK FALSE
INVARIANTS
  TickNotAhead
PROPERTIES
  EarlyByTwoSlicesAtMost
