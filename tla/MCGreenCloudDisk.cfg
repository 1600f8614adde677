CONSTANTS
  Byte = {0, 1, 2}
  SecLen = 1
  Sector = {s1}
  Magic = Magic
  Handle = {h1, h2, h3}
  Op = {"READ", "WRITE"}
  Data <- MCData
  DataBytes = {1, 2}
  MaxReq = 4
  MayQuit = FALSE
  MaxLoss = 1
  MaxDup = 0
  Worker = {w1, w2}
  None = None
  UninitStatus = {0}
  MayFail = FALSE
  MaxCrash = 0
  InitStorage <- MCInitStorage
SPECIFICATION Spec
SYMMETRY Symmetry
PROPERTIES IsDisk
CHECK_DEADLOCK FALSE
