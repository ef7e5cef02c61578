SPECIFICATION Spec
CONSTANTS
  t1 = t1
  t2 = t2
  Threads = {t1, t2}
  Idle = Idle
  NULL = NULL
  PRITY_MAX = 2
  td_priority <- SamePriority
  TDRUN_TICK = 0
  UINT = 8
  SemCap = 1
  MaxFrames = 3
INVARIANTS NoSchedWaitErr
