CONSTANTS
  t1 = t1
  t2 = t2
  Idle = idle
  NULL = null
  Threads = {t1, t2}
  Class <- MCClass
  SCHED_SLICE = 1
  SleepArgs = {1}
  UsPerMs = 1
  U32 = 8
  Horizon = 3
  Values = {v0, v1, v2}
  Zero = v0
SPECIFICATION SpecFpu
INVARIANT EnabledOwner
PROPERTIES
  PrivateRegisters
