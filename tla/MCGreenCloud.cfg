CONSTANTS
  Byte = {0, 1, 2}
  SecLen = 1
  Sector = {s1}
  Magic = Magic
  Handle = {h1, h2}
  Op = {"READ", "WRITE", "FLUSH"}
  Data <- MCData
  DataBytes = {1, 2}
  MaxReq = 2
  MayQuit = TRUE
  MaxLoss = 1
  MaxDup = 0
  Worker = {w1, w2}
  None = None
  UninitStatus = {0, 1}
  MayFail = TRUE
  MaxCrash = 1
  InitStorage <- MCInitStorage
SPECIFICATION Spec
SYMMETRY Symmetry
INVARIANTS TypeOK RunsOnOpenDriver UnknownIdMeansFault
PROPERTIES IsDisk
CHECK_DEADLOCK FALSE
