CONSTANTS
  x1 = x1
  x2 = x2
  x3 = x3
  Item <- MCItem
  Rank <- MCRank
  Producer = {p1}
  Consumer = {c1, c2}
  None = None
  MaxInterrupt = 1
  CallBack = {cb1, cb2, cb3}
  Caller = {t1, t2, t3}
  Nobody = Nobody
  MaxThrow = 1
  Thread = {t1, t2}
  NoThread = NoThread
  DataLen = 2
  SockBuf = 2
  MaxReq = 2
  MayShutdown = TRUE
  MaySignal = TRUE
  NumSlaves = 2
  MaxBoot = 2
  MaxLate = 1
  Worker = {w1, w2}
  Sector = {s1}
  Word = {1, 2}
  Value = {v1, v2}
  Zero = Zero
  MaxCrash = 1
SPECIFICATION PartSpec
INVARIANTS TokenPerItem SubscribersExact NoDeadUse OneInstance SeenIsBuilt
INVARIANTS RequestsIntact RepliesFramed MissedNeedsStray ReadRegular
PROPERTIES IsPriorityQueue ItemsPopped AllNotified AllAnswered LoopChecks
CHECK_DEADLOCK FALSE
