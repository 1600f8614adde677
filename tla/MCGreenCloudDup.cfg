CONSTANTS
  Byte = {0, 1, 2}
  SecLen = 1
  Sector = {s1}
  Magic = Magic
  Handle = {h1, h2}
  Op = {"READ", "WRITE"}
  Data <- MCData
  DataBytes = {1}
  MaxReq = 3
  MayQuit = FALSE
  MaxLoss = 0
  MaxDup = 1
  Worker = {w1, w2}
  None = None
  UninitStatus = {0}
  MayFail = FALSE
  MaxCrash = 0
  InitStorage <- MCInitStorage
SPECIFICATION Spec
SYMMETRY Symmetry
INVARIANTS OneReplyOwed NumbersMatch
CHECK_DEADLOCK FALSE
