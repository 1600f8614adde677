CONSTANTS
  Thread = {t1, t2}
  k1 = k1
  k2 = k2
  k3 = k3
  Task = {k1}
  priority <- MCPriority
  None = None
  Throwing = {}
  MaySignal = FALSE
  MayStopSuspended = TRUE
SPECIFICATION FairSpec
PROPERTIES StopReturns
CHECK_DEADLOCK FALSE
