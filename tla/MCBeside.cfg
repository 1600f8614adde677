CONSTANTS
  File = {f1, f2}
  Request = {r1, r2}
  NumThreads = 2
  Null = Null
  MayFailWatch = TRUE
  master = master
  slave = slave
  t1 = t1
  t2 = t2
  t3 = t3
  greencloud1 = greencloud1
  Process = {master, slave}
  Thread = {t1, t2, t3}
  ProcOf <- MCProcOf
  Names = {greencloud1}
  file_name <- MCFileName
  overwrite_file = TRUE
  LogLvl = 1
  Level = {0, 2}
  SrcFile <- MCSrcFile
  SizeT = 65536
  BufLen = 2
  MaxLine = 1
  MaxRun = 2
  None = None
SPECIFICATION BesideSpec
INVARIANTS NoUseOutsideLife CreatorMapped LinesWhole LineFits
PROPERTIES EngineEnds FirstPluginLoads ClosedComplete
CHECK_DEADLOCK FALSE
