CONSTANTS
  Thread = {t1, t2, t3}
  k1 = k1
  k2 = k2
  k3 = k3
  Task = {k1, k2, k3}
  priority <- MCPriority
  None = None
  Throwing = {k2}
  MaySignal = TRUE
  MayStopSuspended = FALSE
SPECIFICATION FairSpec
INVARIANTS Accounting PopFindsTask SuspendQuiescent ResumeBalanced RunsOnce
PROPERTIES NoTaskLost NoTaskStarts CallsReturn TaskRuns
CHECK_DEADLOCK FALSE
