CONSTANTS
  Byte = {0, 1, 2}
  SecLen = 2
  Sector = {s1}
  Magic = Magic
  Handle = {h1, h2}
  Op = {"READ", "WRITE"}
  Data <- MCData
  DataBytes = {0, 1}
  MaxReq = 2
  MayQuit = FALSE
  MaxLoss = 0
  MaxDup = 0
  Worker = {w1}
  None = None
  UninitStatus = {0}
  MayFail = FALSE
  MaxCrash = 0
  InitStorage <- MCInitStorage
SPECIFICATION Spec
PROPERTIES IsDisk
CHECK_DEADLOCK FALSE
