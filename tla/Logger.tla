------------------------------- MODULE Logger -------------------------------
(***************************************************************************)
(* Logger (src/logger.cpp, include/logger.hpp) in the processes that load  *)
(* libgreencloud.so, the master and the slave.  LOG_PATH is relative and   *)
(* the number behind it is 1, so that processes that run in one directory  *)
(* share their file.  Each process makes its Logger when it is loaded; its *)
(* threads call Write(); the Logger is destroyed when main() returns or a  *)
(* thread calls exit(), but not when the process is terminated.            *)
(*                                                                         *)
(* A line is written in three pieces, which collect in the stream's buffer *)
(* and reach the file, at the process's own offset, when the buffer is     *)
(* full or the stream is closed.  A file is a sequence of pieces.          *)
(***************************************************************************)
EXTENDS Integers, Sequences

CONSTANTS
  Process, Thread,
  ProcOf,     \* the process of a thread
  Names,      \* names of log files
  file_name,  \* per process its log file, LOG_PATH and the number 1 in its directory
  overwrite_file,  \* the option of that name, which nothing reads: GetInstance() always
                   \* leaves the constructor's argument of that name at true
  LogLvl,     \* LOG_LVL
  Level,      \* the levels that are written
  SrcFile,    \* values of __FILE__, each as the lengths of the path's components
  SizeT,      \* modulus of size_t
  BufLen,     \* pieces the stream's buffer holds
  MaxLine,    \* bound: lines a thread writes
  MaxRun,     \* bound: how often a process is started
  None

ASSUME LoggerAssumption ==
  /\ ProcOf \in [Thread -> Process] /\ \A p \in Process : \E t \in Thread : ProcOf[t] = p
  /\ file_name \in [Process -> Names] /\ overwrite_file \in BOOLEAN
  /\ {BufLen, SizeT} \subseteq Nat \ {0} /\ {MaxLine, MaxRun, LogLvl} \subseteq Nat
  /\ SrcFile \subseteq Seq(Nat) \ {<<>>}
  /\ None \notin Thread

VARIABLES
  content,   \* the log files: contents by name, None if there is no file
  at,        \* per process where its Logger is
  pos,       \* per process the offset in the file
  buf,       \* per process the stream's buffer
  runs,      \* per process how often it was started
  m_mutex,   \* per process the holder of m_mutex
  pc,        \* per thread where it is in Write()
  cur,       \* per thread the line it writes: number, level and source file
  done,      \* per process the lines of this run whose Write() has returned
  width,     \* per thread the characters EditLine() has written into its full_line
  mixed      \* history: the files that were opened while another process had them open

logger  == <<at, pos, buf, runs>>
callers == <<m_mutex, pc, cur, done, width>>
logVars == <<content, logger, callers, mixed>>

Stage == {"off", "open", "header", "run", "closed", "crashed"}
Place == {"out", "lock", "head", "id", "msg", "unlock"}
Line  == Thread \X (1..MaxLine)
Headline == <<None, "header">>
Hole     == <<None, "hole">>
Piece == (Line \X {"head", "id", "msg"}) \cup {Headline, Hole}

ASSUME NoFileAssumption == None \notin Seq(Piece)

\* A thread that has begun n lines and is not in Write().
NoLine(n) == [n |-> n, lvl |-> 0, src |-> <<>>]

LogInit ==
  /\ content = [f \in Names |-> None] /\ mixed = {}
  /\ at = [p \in Process |-> "off"]
  /\ pos = [p \in Process |-> 0] /\ buf = [p \in Process |-> <<>>]
  /\ runs = [p \in Process |-> 0]
  /\ m_mutex = [p \in Process |-> None] /\ pc = [t \in Thread |-> "out"]
  /\ cur = [t \in Thread |-> NoLine(0)]
  /\ done = [p \in Process |-> {}] /\ width = [t \in Thread |-> 0]

Exists(f)  == content[f] # None
Mine(p)    == {t \in Thread : ProcOf[t] = p}
Idle(t)    == pc[t] = "out"

\* write(): the pieces s at offset o; a gap before them reads as zeros.
WriteAt(f, o, s) ==
  [i \in 1..(IF o + Len(s) > Len(f) THEN o + Len(s) ELSE Len(f)) |->
     IF i > o /\ i <= o + Len(s) THEN s[i - o] ELSE IF i <= Len(f) THEN f[i] ELSE Hole]

\* The threads of a process that is gone.
Gone(p) ==
  /\ pc' = [t \in Thread |-> IF t \in Mine(p) THEN "out" ELSE pc[t]]
  /\ m_mutex' = [m_mutex EXCEPT ![p] = None]
  /\ cur' = [t \in Thread |-> IF t \in Mine(p) THEN NoLine(cur[t].n) ELSE cur[t]]
  /\ width' = [t \in Thread |-> IF t \in Mine(p) THEN 0 ELSE width[t]]
  /\ UNCHANGED <<done, mixed>>

-----------------------------------------------------------------------------
(* The constructor.                                                        *)

\* The library is loaded, which initialises s_log.
Start(p) ==
  /\ at[p] \in {"off", "closed", "crashed"} /\ runs[p] < MaxRun
  /\ at' = [at EXCEPT ![p] = "open"]
  /\ runs' = [runs EXCEPT ![p] = @ + 1]
  /\ pos' = [pos EXCEPT ![p] = 0] /\ buf' = [buf EXCEPT ![p] = <<>>]
  /\ done' = [done EXCEPT ![p] = {}]
  /\ UNCHANGED <<content, mixed, m_mutex, pc, cur, width>>

\* The other processes that have the file f open.
Sharing(p, f) == {q \in Process \ {p} : at[q] \in {"header", "run"} /\ file_name[q] = f}

\* m_file.open() truncates the file.
Open(p) ==
  /\ at[p] = "open" /\ at' = [at EXCEPT ![p] = "header"]
  /\ content' = [content EXCEPT ![file_name[p]] = <<>>]
  /\ mixed' = IF Sharing(p, file_name[p]) = {} THEN mixed \ {file_name[p]} ELSE mixed \cup {file_name[p]}
  /\ UNCHANGED <<pos, buf, runs, callers>>

\* The headline ends in std::endl, which flushes it.
Header(p) ==
  /\ at[p] = "header" /\ at' = [at EXCEPT ![p] = "run"]
  /\ content' = [content EXCEPT ![file_name[p]] = WriteAt(@, pos[p], <<Headline>>)]
  /\ pos' = [pos EXCEPT ![p] = @ + 1]
  /\ UNCHANGED <<buf, runs, callers, mixed>>

-----------------------------------------------------------------------------
(* The line.                                                               *)

\* The length of the path's components s[i], s[i + 1], ... with the '/' between them.
LenFrom(s, i) ==
  LET Sum[j \in i..Len(s)] == IF j = Len(s) THEN s[j] ELSE s[j] + 1 + Sum[j + 1] IN Sum[i]

\* What follows the first '/'; the whole name if there is none.
GetFileNameFromFullName(src) == LenFrom(src, IF Len(src) > 1 THEN 2 ELSE 1)

DATE_LEN       == 27
ID_LEN         == 8
FILENAME_LEN   == 29
LINE_LEN       == 6
TYPE_LEN       == 7
BASIC_LINE_LEN == DATE_LEN + ID_LEN + FILENAME_LEN + LINE_LEN + TYPE_LEN + 1

\* Mutant: the padding loop goes on to i = max.
AddStrOffByOne(len, max) == IF len > max THEN len ELSE max + 1

\* The characters AddStr() writes: the string, its padding, and what FillSpace() makes
\* of max - i, which is unsigned.
AddStr(len, max) ==
  LET i == IF len < max THEN max ELSE len IN i + ((max - i) % SizeT)

\* ctime() gives 24 characters, getpid() and the line number at most 7 and 5.
EditLine(src) ==
  AddStr(24, DATE_LEN) + AddStr(7, ID_LEN) + AddStr(GetFileNameFromFullName(src), FILENAME_LEN)
    + AddStr(5, LINE_LEN) + AddStr(5, TYPE_LEN)

\* m_file << piece.  A full buffer goes to the file first.
Put(p, piece) ==
  \/ /\ Len(buf[p]) < BufLen
     /\ buf' = [buf EXCEPT ![p] = Append(@, piece)]
     /\ UNCHANGED <<content, pos>>
  \/ /\ Len(buf[p]) = BufLen
     /\ content' = [content EXCEPT ![file_name[p]] = WriteAt(@, pos[p], buf[p])]
     /\ pos' = [pos EXCEPT ![p] = @ + BufLen]
     /\ buf' = [buf EXCEPT ![p] = <<piece>>]

-----------------------------------------------------------------------------
(* Write().                                                                *)

Write(t, lvl, src) ==
  /\ at[ProcOf[t]] = "run" /\ Idle(t) /\ cur[t].n < MaxLine
  /\ pc' = [pc EXCEPT ![t] = "lock"]
  /\ cur' = [cur EXCEPT ![t] = [n |-> @.n + 1, lvl |-> lvl, src |-> src]]
  /\ UNCHANGED <<content, logger, m_mutex, done, width, mixed>>

\* Mutant: Write() without lock_guard.
LockNot(t) ==
  /\ pc[t] = "lock"
  /\ pc' = [pc EXCEPT ![t] = IF cur[t].lvl <= LogLvl THEN "head" ELSE "unlock"]
  /\ UNCHANGED <<content, logger, m_mutex, cur, done, width, mixed>>

\* lock_guard, and the test of the level.
Lock(t) ==
  /\ pc[t] = "lock" /\ m_mutex[ProcOf[t]] = None
  /\ m_mutex' = [m_mutex EXCEPT ![ProcOf[t]] = t]
  /\ pc' = [pc EXCEPT ![t] = IF cur[t].lvl <= LogLvl THEN "head" ELSE "unlock"]
  /\ UNCHANGED <<content, logger, cur, done, width, mixed>>

\* EditLine() and its result, then the thread's id, then the message.
PutPiece(t, piece, next) ==
  /\ pc[t] = piece /\ pc' = [pc EXCEPT ![t] = next]
  /\ width' = [width EXCEPT ![t] = IF piece = "head" THEN EditLine(cur[t].src) ELSE @]
  /\ Put(ProcOf[t], <<<<t, cur[t].n>>, piece>>)
  /\ UNCHANGED <<at, runs, m_mutex, cur, done, mixed>>

Unlock(t) ==
  /\ pc[t] = "unlock" /\ pc' = [pc EXCEPT ![t] = "out"]
  /\ m_mutex' = [m_mutex EXCEPT ![ProcOf[t]] = None]
  /\ done' = [done EXCEPT ![ProcOf[t]] =
                IF cur[t].lvl <= LogLvl THEN @ \cup {<<t, cur[t].n>>} ELSE @]
  /\ cur' = [cur EXCEPT ![t] = NoLine(@.n)] /\ width' = [width EXCEPT ![t] = 0]
  /\ UNCHANGED <<content, logger, mixed>>

\* A thread outside of Write(), the one of main() or another, may end the process.
MayExit(p) == at[p] = "run" /\ \E t \in Mine(p) : Idle(t)

\* Mutant: the process ends without the destructor.
CloseLogNot(p) ==
  /\ MayExit(p) /\ at' = [at EXCEPT ![p] = "closed"]
  /\ buf' = [buf EXCEPT ![p] = <<>>] /\ Gone(p)
  /\ UNCHANGED <<content, pos, runs>>

\* main() returns, or a thread calls exit(), wherever the others are: ~Logger().
CloseLog(p) ==
  /\ MayExit(p) /\ at' = [at EXCEPT ![p] = "closed"]
  /\ content' = [content EXCEPT ![file_name[p]] = IF buf[p] = <<>> THEN @ ELSE WriteAt(@, pos[p], buf[p])]
  /\ buf' = [buf EXCEPT ![p] = <<>>] /\ Gone(p)
  /\ UNCHANGED <<pos, runs>>

\* LoggerBadOpen, which leaves the initialisation of s_log, another std::terminate() or a
\* signal: the buffer is lost.
Crash(p) ==
  /\ at[p] \in {"open", "header", "run"} /\ at' = [at EXCEPT ![p] = "crashed"]
  /\ buf' = [buf EXCEPT ![p] = <<>>] /\ Gone(p)
  /\ UNCHANGED <<content, pos, runs>>

LogNext ==
  \/ \E p \in Process :
       Start(p) \/ Open(p) \/ Header(p) \/ CloseLog(p) \/ Crash(p)
  \/ \E t \in Thread :
       \/ \E lvl \in Level, src \in SrcFile : Write(t, lvl, src)
       \/ Lock(t) \/ Unlock(t)
       \/ PutPiece(t, "head", "id") \/ PutPiece(t, "id", "msg") \/ PutPiece(t, "msg", "unlock")

LogSpec == LogInit /\ [][LogNext]_logVars

-----------------------------------------------------------------------------
(* Properties.                                                             *)

LogTypeOK ==
  /\ \A f \in Names : content[f] # None => content[f] \in Seq(Piece)
  /\ at \in [Process -> Stage] /\ pos \in [Process -> Nat]
  /\ \A p \in Process : /\ buf[p] \in Seq(Piece) /\ Len(buf[p]) <= BufLen
                        /\ m_mutex[p] \in Mine(p) \cup {None}
                        /\ at[p] \in {"header", "run"} /\ file_name[p] \notin mixed =>
                             Exists(file_name[p]) /\ pos[p] <= Len(content[file_name[p]])
  /\ pc \in [Thread -> Place]

\* The pieces in s come line by line.
Whole(s) ==
  \A i \in 2..Len(s) :
    \/ s[i][2] = "head" /\ s[i - 1][2] \in {"header", "msg"}
    \/ s[i][2] = "id"   /\ s[i - 1] = <<s[i][1], "head">>
    \/ s[i][2] = "msg"  /\ s[i - 1] = <<s[i][1], "id">>

\* However the threads interleave, and also after a crash, a file that no two processes
\* had open at once holds one line behind the other, each in one piece, and the buffer
\* holds what follows.
LinesWhole ==
  /\ \A f \in Names \ mixed : Exists(f) => Whole(content[f])
  /\ \A p \in Process : at[p] = "run" /\ file_name[p] \notin mixed => Whole(content[file_name[p]] \o buf[p])

Holds(f, line) ==
  Exists(f) /\ \A k \in {"head", "id", "msg"} : \E i \in DOMAIN content[f] : content[f][i] = <<line, k>>

\* Every line that Write() accepted is in the file when the Logger is destroyed, if no
\* other process opened it.
ClosedComplete ==
  [][\A p \in Process :
       at[p] = "run" /\ at'[p] = "closed" /\ file_name[p] \notin mixed
         => \A line \in done[p] : Holds(file_name[p], line)']_logVars

\* "overwrite_file ... if false, will create new file for every run" (json_comment.txt:22-24):
\* a line that has reached a file stays there, whichever process is started when.
LogKept ==
  [][~overwrite_file =>
       \A f \in Names, line \in Line : Holds(f, line) => Holds(f, line)']_logVars

\* EditLine() never writes beyond the end of full_line, if the file's name, behind the
\* first '/' of its path, is not longer than its column.
LineFits ==
  \A t \in Thread :
    pc[t] \in {"id", "msg"} /\ GetFileNameFromFullName(cur[t].src) <= FILENAME_LEN
      => width[t] < BASIC_LINE_LEN
=============================================================================
