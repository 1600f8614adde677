CONSTANTS
  Byte = {0, 1, 2}
  SecLen = 1
  Sector = {s1}
  Magic = Magic
  Handle = {h1, h2}
  Op = {"READ", "WRITE", "FLUSH"}
  Data <- MCData
  DataBytes = {1}
  MaxReq = 2
  MayQuit = TRUE
  MaxLoss = 0
  MaxDup = 0
  Worker = {w1, w2}
  None = None
  UninitStatus = {0}
  MayFail = FALSE
  MaxCrash = 0
  InitStorage <- MCInitStorage
SPECIFICATION FairSpec
PROPERTIES RequestsAnswered MasterEnds
CHECK_DEADLOCK FALSE
