---------------------------- MODULE LoggerProofs ----------------------------
(***************************************************************************)
(* Logger for any numbers of processes, threads, runs and lines: a file    *)
(* that one process has to itself holds whole lines, nothing that was      *)
(* accepted is missing when the Logger is destroyed, and a line fits its   *)
(* buffer.  The inductive invariant says which processes have a file to    *)
(* themselves, that they write at its end, and what of the line under way  *)
(* is in the file and the buffer.                                          *)
(***************************************************************************)
EXTENDS Logger, WellFoundedInduction, TLAPS

Opened  == {"header", "run"}
Inside  == {"head", "id", "msg", "unlock"}

\* Process p has its file open and no other process has, or had, it open with p.
Alone(p) == at[p] \in Opened /\ file_name[p] \notin mixed

\* What process p has written to its file: what is there, and what follows from the buffer.
Written(p) == content[file_name[p]] \o buf[p]

LogTypes ==
  /\ \A f \in Names : content[f] = None \/ content[f] \in Seq(Piece)
  /\ DOMAIN content = Names
  /\ at \in [Process -> Stage]
  /\ pos \in [Process -> Nat] /\ buf \in [Process -> Seq(Piece)]
  /\ runs \in [Process -> 0..MaxRun]
  /\ m_mutex \in [Process -> Thread \cup {None}]
  /\ pc \in [Thread -> Place]
  /\ cur \in [Thread -> [n : 0..MaxLine, lvl : Level \cup {0}, src : SrcFile \cup {<<>>}]]
  /\ DOMAIN width = Thread /\ DOMAIN done = Process

\* m_mutex is held from lock_guard to the end of Write(), which runs while the Logger does.
Guarded ==
  /\ \A t \in Thread : pc[t] \in Inside <=> m_mutex[ProcOf[t]] = t
  /\ \A t \in Thread : pc[t] # "out" => at[ProcOf[t]] = "run" /\ cur[t].n > 0
  /\ \A p \in Process : m_mutex[p] # None => ProcOf[m_mutex[p]] = p
  /\ \A p \in Process : at[p] # "run" => buf[p] = <<>>

\* A process that is alone with its file writes at the file's end.
AtEnd ==
  /\ \A p \in Process : at[p] \in Opened => file_name[p] \in Names /\ content[file_name[p]] \in Seq(Piece)
  /\ \A p, q \in Process :
       p # q /\ at[p] \in Opened /\ at[q] \in Opened /\ file_name[p] = file_name[q] => file_name[p] \in mixed
  /\ \A p \in Process : Alone(p) =>
       /\ pos[p] = Len(content[file_name[p]])
       /\ at[p] = "header" => pos[p] = 0
       /\ at[p] = "run" => pos[p] > 0
  /\ \A p \in Process : at[p] \in {"open"} => pos[p] = 0

\* The pieces of thread t's line that are written when it is at a place of Write().
LastPiece(p) ==
  LET s == Written(p)
  IN  /\ \A t \in Mine(p) : pc[t] = "id" => s[Len(s)] = <<<<t, cur[t].n>>, "head">>
      /\ \A t \in Mine(p) : pc[t] = "msg" => s[Len(s)] = <<<<t, cur[t].n>>, "id">>
      /\ (\A t \in Mine(p) : pc[t] \notin {"id", "msg"}) => s[Len(s)][2] \in {"header", "msg"}

WholeInv ==
  /\ \A f \in Names \ mixed : content[f] # None => Whole(content[f])
  /\ \A p \in Process : Alone(p) /\ at[p] = "run" => Whole(Written(p)) /\ LastPiece(p)

\* The piece k of a line is among the pieces s.
Has(s, line, k) == \E j \in DOMAIN s : s[j] = <<line, k>>

\* The pieces that thread t has put, of a line whose level is written.
Due(t) ==
  IF pc[t] = "id" THEN {"head"}
  ELSE IF pc[t] = "msg" THEN {"head", "id"}
  ELSE IF pc[t] = "unlock" /\ cur[t].lvl <= LogLvl THEN {"head", "id", "msg"}
  ELSE {}

\* Process p has written the lines that it accepted, and what is due of the lines under way.
KeptBy(p) ==
  /\ \A line \in done[p], k \in {"head", "id", "msg"} : Has(Written(p), line, k)
  /\ \A t \in Mine(p) : \A k \in Due(t) : Has(Written(p), <<t, cur[t].n>>, k)

Kept ==
  /\ \A p \in Process : Alone(p) /\ at[p] = "run" => KeptBy(p)
  /\ \A p \in Process : at[p] \in {"open", "header"} => done[p] = {}

\* What EditLine() has written for a thread's line.
Edited ==
  \A t \in Thread : /\ pc[t] # "out" => cur[t].src \in SrcFile
                    /\ pc[t] \in {"id", "msg"} => width[t] = EditLine(cur[t].src)

LogInv == LogTypes /\ Guarded /\ AtEnd /\ WholeInv

-----------------------------------------------------------------------------
(* Pieces.                                                                 *)

LEMMA WrittenPieces ==
  ASSUME NEW f \in Seq(Piece), NEW o \in Nat, NEW s \in Seq(Piece)
  PROVE  /\ WriteAt(f, o, s) \in Seq(Piece)
         /\ Len(WriteAt(f, o, s)) = IF o + Len(s) > Len(f) THEN o + Len(s) ELSE Len(f)
<1> DEFINE m == IF o + Len(s) > Len(f) THEN o + Len(s) ELSE Len(f)
<1>1. m \in Nat /\ Hole \in Piece
  BY DEF Piece
<1>2. WriteAt(f, o, s) = [j \in 1..m |-> IF j > o /\ j <= o + Len(s) THEN s[j - o] ELSE IF j <= Len(f) THEN f[j] ELSE Hole]
  BY DEF WriteAt
<1>3. ASSUME NEW j \in 1..m, j > o, j <= o + Len(s) PROVE s[j - o] \in Piece
  <2>1. j - o \in 1..Len(s)
    BY <1>3
  <2> QED
    BY <2>1
<1>4. ASSUME NEW j \in 1..m, j <= Len(f) PROVE f[j] \in Piece
  BY <1>4
<1>5. WriteAt(f, o, s) \in [1..m -> Piece]
  BY <1>1, <1>2, <1>3, <1>4
<1> QED
  BY SMTT(40), <1>1, <1>5

LEMMA SamePieces ==
  ASSUME NEW S, NEW s \in Seq(S), NEW r \in Seq(S), Len(s) = Len(r), \A j \in 1..Len(s) : s[j] = r[j]
  PROVE  s = r
OBVIOUS

\* What is written at the end of a file comes behind what is there.
LEMMA WrittenAtEnd ==
  ASSUME NEW f \in Seq(Piece), NEW s \in Seq(Piece)
  PROVE  WriteAt(f, Len(f), s) = f \o s
<1> PICK l : l = Len(f)
  OBVIOUS
<1> PICK k : k = Len(s)
  OBVIOUS
<1> PICK w : w = WriteAt(f, l, s)
  OBVIOUS
<1> PICK c : c = f \o s
  OBVIOUS
<1>1. l \in Nat /\ k \in Nat
  OBVIOUS
<1>2. w \in Seq(Piece) /\ Len(w) = l + k
  <2>1. w \in Seq(Piece) /\ Len(w) = IF l + k > l THEN l + k ELSE l
    BY <1>1, WrittenPieces
  <2> QED
    BY ONLY <1>1, <2>1
<1>3. \A j \in 1..(l + k) : w[j] = IF j > l THEN s[j - l] ELSE f[j]
  <2>1. \A j \in 1..(IF l + k > l THEN l + k ELSE l) :
          w[j] = IF j > l /\ j <= l + k THEN s[j - l] ELSE IF j <= l THEN f[j] ELSE Hole
    BY <1>1 DEF WriteAt
  <2>2. (IF l + k > l THEN l + k ELSE l) = l + k
    BY ONLY <1>1
  <2> QED
    BY ONLY <1>1, <2>1, <2>2
<1>4. c \in Seq(Piece) /\ Len(c) = l + k /\ (\A j \in 1..l : c[j] = f[j]) /\ \A j \in 1..k : c[l + j] = s[j]
  OBVIOUS
<1>5. ASSUME NEW j \in 1..(l + k) PROVE w[j] = c[j]
  <2>1. CASE j \in 1..l
    BY ONLY <1>1, <1>3, <1>4, <2>1
  <2>2. CASE j - l \in 1..k
    <3>1. c[l + (j - l)] = s[j - l] /\ l + (j - l) = j /\ j > l
      BY ONLY <1>1, <1>4, <2>2
    <3> QED
      BY ONLY <1>3, <3>1, <2>2
  <2>3. j \in 1..l \/ j - l \in 1..k
    BY ONLY <1>1
  <2> QED
    BY <2>1, <2>2, <2>3
<1> QED
  BY <1>2, <1>4, <1>5, SamePieces

LEMMA AppendWritten ==
  ASSUME NEW S, NEW f \in Seq(S), NEW b \in Seq(S), NEW x \in S
  PROVE  /\ f \o Append(b, x) = Append(f \o b, x)
         /\ (f \o b) \o <<x>> = Append(f \o b, x)
         /\ Len(f \o b) = Len(f) + Len(b)
<1>1. f \o Append(b, x) = Append(f \o b, x)
  OBVIOUS
<1>2. (f \o b) \o <<x>> = Append(f \o b, x)
  <2> PICK s : s = f \o b
    OBVIOUS
  <2>1. s \in Seq(S)
    OBVIOUS
  <2>2. s \o <<x>> = Append(s, x)
    BY ONLY <2>1, x \in S
  <2> QED
    BY <2>2
<1>3. Len(f \o b) = Len(f) + Len(b)
  OBVIOUS
<1> QED
  BY <1>1, <1>2, <1>3

\* A piece behind whole lines.
LEMMA WholeAppend ==
  ASSUME NEW s \in Seq(Piece), Whole(s), NEW x \in Piece, Len(s) > 0,
         \/ x[2] = "head" /\ s[Len(s)][2] \in {"header", "msg"}
         \/ x[2] = "id"   /\ s[Len(s)] = <<x[1], "head">>
         \/ x[2] = "msg"  /\ s[Len(s)] = <<x[1], "id">>
  PROVE  Whole(Append(s, x))
<1> PICK l : l = Len(s)
  OBVIOUS
<1> PICK r : r = Append(s, x)
  OBVIOUS
<1>1. l \in Nat /\ l > 0 /\ Len(r) = l + 1 /\ r[l + 1] = x /\ \A j \in 1..l : r[j] = s[j]
  OBVIOUS
<1>2. ASSUME NEW j \in 2..(l + 1)
      PROVE  \/ r[j][2] = "head" /\ r[j - 1][2] \in {"header", "msg"}
             \/ r[j][2] = "id"   /\ r[j - 1] = <<r[j][1], "head">>
             \/ r[j][2] = "msg"  /\ r[j - 1] = <<r[j][1], "id">>
  <2>1. CASE j = l + 1
    <3>1. l + 1 - 1 = l /\ l \in 1..l
      BY ONLY <1>1
    <3> QED
      BY <1>1, <2>1, <3>1
  <2>2. CASE j \in 2..l
    <3>1. j \in 1..l /\ j - 1 \in 1..l
      BY ONLY <1>1, <2>2
    <3> QED
      BY <1>1, <2>2, <3>1 DEF Whole
  <2> QED
    BY ONLY <1>1, <2>1, <2>2
<1> QED
  BY <1>1, <1>2 DEF Whole

\* The first part of whole lines.
LEMMA WholePrefix ==
  ASSUME NEW f \in Seq(Piece), NEW b \in Seq(Piece), Whole(f \o b)
  PROVE  Whole(f)
<1> PICK l : l = Len(f)
  OBVIOUS
<1> PICK r : r = f \o b
  OBVIOUS
<1>1. l \in Nat /\ Len(r) \in Nat /\ l <= Len(r) /\ \A j \in 1..l : r[j] = f[j]
  OBVIOUS
<1>2. ASSUME NEW j \in 2..l PROVE j \in 2..Len(r) /\ j \in 1..l /\ j - 1 \in 1..l
  BY ONLY <1>1
<1> QED
  BY <1>1, <1>2 DEF Whole

-----------------------------------------------------------------------------
(* Types.                                                                  *)

LogFileTypes ==
  /\ \A f \in Names : content[f] = None \/ content[f] \in Seq(Piece)
  /\ DOMAIN content = Names /\ pos \in [Process -> Nat] /\ buf \in [Process -> Seq(Piece)]

LEMMA PutTypes ==
  ASSUME LogTypes, AtEnd, NEW p \in Process, at[p] = "run", NEW piece \in Piece, Put(p, piece)
  PROVE  LogFileTypes'
<1>1. file_name[p] \in Names /\ content[file_name[p]] \in Seq(Piece) /\ pos[p] \in Nat /\ buf[p] \in Seq(Piece) /\ BufLen \in Nat
  BY LoggerAssumption DEF AtEnd, LogTypes, Opened
<1>2. CASE /\ buf' = [buf EXCEPT ![p] = Append(@, piece)] /\ UNCHANGED <<content, pos>>
  <2>1. Append(buf[p], piece) \in Seq(Piece)
    BY <1>1
  <2> QED
    BY <1>2, <2>1 DEF LogTypes, LogFileTypes
<1>3. CASE /\ content' = [content EXCEPT ![file_name[p]] = WriteAt(@, pos[p], buf[p])]
           /\ pos' = [pos EXCEPT ![p] = @ + BufLen]
           /\ buf' = [buf EXCEPT ![p] = <<piece>>]
  <2> PICK w : w = WriteAt(content[file_name[p]], pos[p], buf[p])
    OBVIOUS
  <2>1. w \in Seq(Piece) /\ <<piece>> \in Seq(Piece) /\ pos[p] + BufLen \in Nat
    <3>1. w \in Seq(Piece)
      BY ONLY <1>1, w = WriteAt(content[file_name[p]], pos[p], buf[p]), WrittenPieces
    <3> QED
      BY ONLY <1>1, <3>1, piece \in Piece
  <2>2. content' = [content EXCEPT ![file_name[p]] = w]
    BY <1>3
  <2> QED
    BY ONLY <1>1, <1>3, <2>1, <2>2, LogTypes DEF LogTypes, LogFileTypes
<1> QED
  BY <1>2, <1>3 DEF Put

LEMMA TypesStep ==
  ASSUME LogTypes, Guarded, AtEnd, LogNext
  PROVE  LogTypes'
<1> USE DEF LogTypes
<1>0. ProcOf \in [Thread -> Process] /\ {BufLen, MaxRun, MaxLine} \subseteq Nat
  BY LoggerAssumption
<1>1. ASSUME NEW p \in Process, Start(p) PROVE LogTypes'
  <2>1. runs[p] + 1 \in 0..MaxRun /\ <<>> \in Seq(Piece)
    BY <1>0, <1>1 DEF Start
  <2> QED
    BY <1>1, <2>1 DEF Start, Stage
<1>3. ASSUME NEW p \in Process, Open(p) PROVE LogTypes'
  BY <1>3 DEF Open, Stage, callers
<1>5. ASSUME NEW p \in Process, Header(p) PROVE LogTypes'
  <2>1. file_name[p] \in Names /\ content[file_name[p]] \in Seq(Piece) /\ pos[p] \in Nat /\ <<Headline>> \in Seq(Piece)
    BY <1>5 DEF Header, AtEnd, Opened, Piece
  <2> PICK w : w = WriteAt(content[file_name[p]], pos[p], <<Headline>>)
    OBVIOUS
  <2>2. w \in Seq(Piece)
    BY <2>1, WrittenPieces
  <2>3. content' = [content EXCEPT ![file_name[p]] = w]
    BY <1>5 DEF Header
  <2> QED
    BY <1>5, <2>1, <2>2, <2>3 DEF Header, Stage, callers
<1>6. ASSUME NEW p \in Process, CloseLog(p) PROVE LogTypes'
  <2>1. file_name[p] \in Names /\ content[file_name[p]] \in Seq(Piece) /\ pos[p] \in Nat /\ buf[p] \in Seq(Piece)
    BY <1>6 DEF CloseLog, MayExit, AtEnd, Opened
  <2> PICK w : w = IF buf[p] = <<>> THEN content[file_name[p]] ELSE WriteAt(content[file_name[p]], pos[p], buf[p])
    OBVIOUS
  <2>2. w \in Seq(Piece)
    BY <2>1, WrittenPieces
  <2>3. content' = [content EXCEPT ![file_name[p]] = w]
    BY <1>6 DEF CloseLog
  <2>4. cur' \in [Thread -> [n : 0..MaxLine, lvl : Level \cup {0}, src : SrcFile \cup {<<>>}]]
    BY <1>6 DEF CloseLog, Gone, NoLine
  <2> QED
    BY <1>6, <2>1, <2>2, <2>3, <2>4 DEF CloseLog, Gone, Stage, Place
<1>7. ASSUME NEW p \in Process, Crash(p) PROVE LogTypes'
  <2>1. cur' \in [Thread -> [n : 0..MaxLine, lvl : Level \cup {0}, src : SrcFile \cup {<<>>}]]
    BY <1>7 DEF Crash, Gone, NoLine
  <2> QED
    BY <1>7, <2>1 DEF Crash, Gone, Stage, Place, callers
<1>8. ASSUME NEW t \in Thread, NEW lvl \in Level, NEW src \in SrcFile, Write(t, lvl, src) PROVE LogTypes'
  <2>1. cur[t].n + 1 \in 0..MaxLine
    BY <1>0, <1>8 DEF Write
  <2> QED
    BY <1>8, <2>1 DEF Write, Place, logger
<1>9. ASSUME NEW t \in Thread, Lock(t) PROVE LogTypes'
  BY <1>0, <1>9 DEF Lock, Place, logger
<1>10. ASSUME NEW t \in Thread, Unlock(t) PROVE LogTypes'
  BY <1>0, <1>10 DEF Unlock, Place, NoLine, logger
<1>11. ASSUME NEW t \in Thread, NEW k \in {"head", "id", "msg"}, NEW n \in Place, PutPiece(t, k, n)
       PROVE  LogTypes'
  <2>1. ProcOf[t] \in Process /\ at[ProcOf[t]] = "run" /\ cur[t].n > 0
    BY <1>0, <1>11 DEF PutPiece, Guarded
  <2>2. <<<<t, cur[t].n>>, k>> \in Piece
    <3>1. cur[t].n \in 1..MaxLine
      BY <1>0, <2>1
    <3> QED
      BY <3>1 DEF Piece, Line
  <2>3. LogFileTypes'
    BY <1>11, <2>1, <2>2, PutTypes DEF PutPiece
  <2> QED
    BY <1>11, <2>3 DEF PutPiece, LogFileTypes
<1> QED
  BY <1>1, <1>3, <1>5, <1>6, <1>7, <1>8, <1>9, <1>10, <1>11 DEF LogNext, Place

-----------------------------------------------------------------------------
(* The lock.                                                               *)

LEMMA PutBuffers ==
  ASSUME LogTypes, NEW p \in Process, NEW piece, Put(p, piece), NEW q \in Process, q # p
  PROVE  buf'[q] = buf[q] /\ pos'[q] = pos[q]
BY DEF Put, LogTypes

LEMMA GuardedStep ==
  ASSUME LogTypes, Guarded, LogNext
  PROVE  Guarded'
<1> USE DEF LogTypes, Guarded
<1>0. ProcOf \in [Thread -> Process] /\ None \notin Thread
  BY LoggerAssumption
<1>1. ASSUME NEW p \in Process, Start(p) PROVE Guarded'
  BY <1>0, <1>1 DEF Start, Inside
<1>3. ASSUME NEW p \in Process, Open(p) PROVE Guarded'
  BY <1>0, <1>3 DEF Open, callers
<1>5. ASSUME NEW p \in Process, Header(p) PROVE Guarded'
  BY <1>0, <1>5 DEF Header, callers
<1>7. ASSUME NEW p \in Process, CloseLog(p) \/ Crash(p) PROVE Guarded'
  <2>1. \A t \in Thread : /\ pc'[t] = IF ProcOf[t] = p THEN "out" ELSE pc[t]
                          /\ cur'[t].n = cur[t].n
    BY <1>7 DEF CloseLog, Crash, Gone, Mine, NoLine
  <2>2. \A q \in Process : /\ m_mutex'[q] = IF q = p THEN None ELSE m_mutex[q]
                           /\ q # p => at'[q] = at[q]
                           /\ buf'[q] = IF q = p THEN <<>> ELSE buf[q]
    BY <1>7 DEF CloseLog, Crash, Gone
  <2>3. ASSUME NEW t \in Thread PROVE pc'[t] \in Inside <=> m_mutex'[ProcOf[t]] = t
    <3>1. CASE ProcOf[t] = p
      <4>1. pc'[t] = "out" /\ m_mutex'[ProcOf[t]] = None
        BY ONLY <2>1, <2>2, <3>1
      <4> QED
        BY ONLY <1>0, <4>1, t \in Thread DEF Inside
    <3>2. CASE ProcOf[t] # p
      <4>1. pc'[t] = pc[t] /\ m_mutex'[ProcOf[t]] = m_mutex[ProcOf[t]]
        BY ONLY <1>0, <2>1, <2>2, <3>2, t \in Thread
      <4> QED
        BY <4>1
    <3> QED
      BY <3>1, <3>2
  <2>4. \A t \in Thread : pc'[t] # "out" => at'[ProcOf[t]] = "run" /\ cur'[t].n > 0
    BY <1>0, <2>1, <2>2
  <2>5. \A q \in Process : /\ m_mutex'[q] # None => ProcOf[m_mutex'[q]] = q
                           /\ at'[q] # "run" => buf'[q] = <<>>
    BY <2>2
  <2> QED
    BY ONLY <2>3, <2>4, <2>5 DEF Guarded, Inside
<1>8. ASSUME NEW t \in Thread, NEW lvl \in Level, NEW src \in SrcFile, Write(t, lvl, src) PROVE Guarded'
  <2>1. \A u \in Thread : /\ pc'[u] = IF u = t THEN "lock" ELSE pc[u]
                          /\ cur'[u].n = IF u = t THEN cur[u].n + 1 ELSE cur[u].n
    BY <1>8 DEF Write
  <2>2. cur[t].n + 1 > 0 /\ pc[t] = "out"
    BY LoggerAssumption, <1>8 DEF Write, Idle
  <2> QED
    BY <1>0, <1>8, <2>1, <2>2 DEF Write, logger, Inside
<1>9. ASSUME NEW t \in Thread, Lock(t) PROVE Guarded'
  BY <1>0, <1>9 DEF Lock, logger, Inside
<1>10. ASSUME NEW t \in Thread, Unlock(t) PROVE Guarded'
  <2>1. \A u \in Thread : cur'[u].n = cur[u].n
    BY <1>10 DEF Unlock, NoLine
  <2>2. /\ pc[t] \in Inside /\ pc' = [pc EXCEPT ![t] = "out"]
        /\ m_mutex' = [m_mutex EXCEPT ![ProcOf[t]] = None]
        /\ UNCHANGED <<at, buf>>
    BY <1>10 DEF Unlock, Inside, logger
  <2> QED
    BY <1>0, <2>1, <2>2 DEF Inside
<1>11. ASSUME NEW t \in Thread, NEW k \in {"head", "id", "msg"}, NEW n \in {"id", "msg", "unlock"},
              PutPiece(t, k, n)
       PROVE  Guarded'
  <2>1. ProcOf[t] \in Process /\ at[ProcOf[t]] = "run"
    BY <1>0, <1>11 DEF PutPiece
  <2>2. \A q \in Process : q # ProcOf[t] => buf'[q] = buf[q]
    BY <1>11, <2>1, PutBuffers DEF PutPiece
  <2> QED
    BY <1>0, <1>11, <2>1, <2>2 DEF PutPiece, Inside
<1> QED
  BY <1>1, <1>3, <1>5, <1>7, <1>8, <1>9, <1>10, <1>11 DEF LogNext

-----------------------------------------------------------------------------
(* The end of the file.                                                    *)

LEMMA AloneApart ==
  ASSUME AtEnd, NEW p \in Process, NEW q \in Process, p # q, Alone(q), at[p] \in Opened
  PROVE  file_name[p] # file_name[q]
BY DEF AtEnd, Alone

\* What a process that is alone puts goes behind what it has written.
LEMMA PutWritten ==
  ASSUME LogTypes, AtEnd, NEW p \in Process, at[p] = "run", Alone(p), NEW piece \in Piece, Put(p, piece)
  PROVE  /\ pos'[p] = Len(content'[file_name[p]]) /\ pos'[p] > 0
         /\ content'[file_name[p]] \o buf'[p] = Append(Written(p), piece)
         /\ content'[file_name[p]] = content[file_name[p]] \/ content'[file_name[p]] = Written(p)
<1> PICK f : f = content[file_name[p]]
  OBVIOUS
<1> PICK b : b = buf[p]
  OBVIOUS
<1> PICK l : l = pos[p]
  OBVIOUS
<1>1. file_name[p] \in Names /\ f \in Seq(Piece) /\ l \in Nat /\ b \in Seq(Piece) /\ BufLen \in Nat /\ l = Len(f) /\ l > 0
  BY LoggerAssumption DEF AtEnd, LogTypes, Opened, Alone
<1>2. CASE Len(buf[p]) < BufLen /\ buf' = [buf EXCEPT ![p] = Append(@, piece)] /\ UNCHANGED <<content, pos>>
  <2>1. content'[file_name[p]] = f /\ buf'[p] = Append(b, piece) /\ pos'[p] = l
    BY <1>1, <1>2 DEF LogTypes
  <2>2. f \o Append(b, piece) = Append(f \o b, piece)
    BY ONLY <1>1, piece \in Piece, AppendWritten
  <2> QED
    BY ONLY <1>1, <2>1, <2>2, f = content[file_name[p]], b = buf[p] DEF Written
<1>3. CASE /\ Len(buf[p]) = BufLen
           /\ content' = [content EXCEPT ![file_name[p]] = WriteAt(@, pos[p], buf[p])]
           /\ pos' = [pos EXCEPT ![p] = @ + BufLen]
           /\ buf' = [buf EXCEPT ![p] = <<piece>>]
  <2>1. content'[file_name[p]] = WriteAt(f, l, b) /\ pos'[p] = l + BufLen /\ buf'[p] = <<piece>> /\ Len(b) = BufLen
    BY <1>1, <1>3 DEF LogTypes
  <2>2. WriteAt(f, l, b) = f \o b
    BY <1>1, WrittenAtEnd
  <2>3. (f \o b) \o <<piece>> = Append(f \o b, piece) /\ Len(f \o b) = Len(f) + Len(b)
    BY ONLY <1>1, piece \in Piece, AppendWritten
  <2>4. l + BufLen > 0
    BY ONLY <1>1
  <2> QED
    BY ONLY <1>1, <2>1, <2>2, <2>3, <2>4, f = content[file_name[p]], b = buf[p] DEF Written
<1> QED
  BY <1>2, <1>3 DEF Put

\* A step in which p, alone or not, writes to its file.
LEMMA OneWrites ==
  ASSUME LogTypes, AtEnd, NEW p \in Process, at[p] \in Opened, UNCHANGED mixed,
         content'[file_name[p]] \in Seq(Piece),
         \A f \in Names : f # file_name[p] => content'[f] = content[f],
         \A q \in Process : q # p => at'[q] = at[q] /\ pos'[q] = pos[q],
         at'[p] \notin {"open"},
         Alone(p) /\ at'[p] \in Opened =>
           pos'[p] = Len(content'[file_name[p]]) /\ at'[p] = "run" /\ pos'[p] > 0
  PROVE  AtEnd'
<1>1. \A q \in Process : at'[q] \in Opened => file_name[q] \in Names /\ content'[file_name[q]] \in Seq(Piece)
  BY DEF AtEnd
<1>2. \A q, r \in Process :
        q # r /\ at'[q] \in Opened /\ at'[r] \in Opened /\ file_name[q] = file_name[r] => file_name[q] \in mixed
  BY DEF AtEnd
<1>3. ASSUME NEW q \in Process, at'[q] \in Opened, file_name[q] \notin mixed
      PROVE  /\ pos'[q] = Len(content'[file_name[q]])
             /\ at'[q] = "header" => pos'[q] = 0
             /\ at'[q] = "run" => pos'[q] > 0
  <2>1. CASE q = p
    BY <1>3, <2>1 DEF Alone, Opened
  <2>2. CASE q # p
    <3>1. Alone(q) /\ file_name[q] # file_name[p] /\ file_name[q] \in Names
      BY <1>3, <2>2, AloneApart DEF Alone, AtEnd
    <3> QED
      BY <1>3, <2>2, <3>1 DEF AtEnd
  <2> QED
    BY <2>1, <2>2
<1>4. \A q \in Process : at'[q] \in {"open"} => pos'[q] = 0
  BY DEF AtEnd
<1> QED
  BY <1>1, <1>2, <1>3, <1>4 DEF AtEnd, Alone

\* A step that leaves the files alone, and in which no process opens one.
LEMMA NobodyWrites ==
  ASSUME AtEnd, UNCHANGED <<content, mixed>>,
         \A q \in Process : at'[q] \in Opened => at'[q] = at[q] /\ pos'[q] = pos[q],
         \A q \in Process : at'[q] \in {"open"} => pos'[q] = 0
  PROVE  AtEnd'
BY DEF AtEnd, Alone

LEMMA OpenAtEnd ==
  ASSUME LogTypes, AtEnd, NEW p \in Process, Open(p)
  PROVE  AtEnd'
<1> PICK n : n = file_name[p]
  OBVIOUS
<1>1. n \in Names /\ at[p] = "open"
  BY LoggerAssumption DEF Open
<1>2. /\ \A q \in Process : at'[q] = IF q = p THEN "header" ELSE at[q]
      /\ \A f \in Names : content'[f] = IF f = n THEN <<>> ELSE content[f]
      /\ UNCHANGED <<pos>>
  BY <1>1 DEF Open, LogTypes
<1>3. ASSUME NEW q \in Process, q # p, at[q] \in Opened, file_name[q] = n PROVE n \in mixed'
  <2>1. q \in Sharing(p, n)
    BY <1>3 DEF Sharing, Opened
  <2> QED
    BY <2>1 DEF Open
<1>4. \A f : f # n => (f \in mixed' <=> f \in mixed)
  BY DEF Open
<1>5. <<>> \in Seq(Piece) /\ Len(<<>>) = 0
  OBVIOUS
<1>6. \A q \in Process : at'[q] \in Opened => file_name[q] \in Names /\ content'[file_name[q]] \in Seq(Piece)
  BY <1>1, <1>2, <1>5 DEF AtEnd
<1>7. ASSUME NEW q \in Process, NEW r \in Process, q # r, at'[q] \in Opened, at'[r] \in Opened, file_name[q] = file_name[r]
      PROVE  file_name[q] \in mixed'
  <2>1. CASE file_name[q] = n
    <3>1. CASE q # p
      BY <1>2, <1>3, <1>7, <2>1, <3>1
    <3>2. CASE r # p
      BY <1>2, <1>3, <1>7, <2>1, <3>2
    <3> QED
      BY <1>7, <3>1, <3>2
  <2>2. CASE file_name[q] # n
    BY <1>2, <1>4, <1>7, <2>2 DEF AtEnd
  <2> QED
    BY <2>1, <2>2
<1>8. ASSUME NEW q \in Process, at'[q] \in Opened, file_name[q] \notin mixed'
      PROVE  /\ pos[q] = Len(content'[file_name[q]])
             /\ at'[q] = "header" => pos[q] = 0
             /\ at'[q] = "run" => pos[q] > 0
  <2>1. CASE q = p
    BY <1>1, <1>2, <1>5, <2>1 DEF AtEnd
  <2>2. CASE q # p
    <3>1. file_name[q] # n /\ at'[q] = at[q] /\ at[q] \in Opened
      BY <1>2, <1>3, <1>8, <2>2
    <3>2. Alone(q) /\ file_name[q] \in Names
      BY <1>4, <1>8, <3>1 DEF Alone, AtEnd
    <3>3. content'[file_name[q]] = content[file_name[q]]
      BY <1>2, <3>1, <3>2
    <3> QED
      BY <3>1, <3>2, <3>3 DEF AtEnd
  <2> QED
    BY <2>1, <2>2
<1>9. \A q \in Process : at'[q] \in {"open"} => pos'[q] = 0
  BY <1>2 DEF AtEnd
<1> QED
  BY <1>2, <1>6, <1>7, <1>8, <1>9 DEF AtEnd, Alone

LEMMA HeaderWritten ==
  ASSUME LogTypes, AtEnd, NEW p \in Process, Header(p)
  PROVE  /\ content'[file_name[p]] \in Seq(Piece)
         /\ \A f \in Names : f # file_name[p] => content'[f] = content[f]
         /\ pos'[p] > 0
         /\ Alone(p) => content'[file_name[p]] = <<Headline>> /\ pos'[p] = 1
<1> PICK f : f = content[file_name[p]]
  OBVIOUS
<1> PICK l : l = pos[p]
  OBVIOUS
<1>1. file_name[p] \in Names /\ f \in Seq(Piece) /\ l \in Nat /\ <<Headline>> \in Seq(Piece) /\ at[p] = "header"
  BY DEF Header, AtEnd, LogTypes, Opened, Piece
<1>2. content'[file_name[p]] = WriteAt(f, l, <<Headline>>) /\ pos'[p] = l + 1
      /\ \A g \in Names : g # file_name[p] => content'[g] = content[g]
  BY <1>1 DEF Header, LogTypes
<1>3. WriteAt(f, l, <<Headline>>) \in Seq(Piece)
  BY <1>1, WrittenPieces
<1>4. ASSUME Alone(p) PROVE content'[file_name[p]] = <<Headline>> /\ l = 0
  <2>1. l = 0 /\ l = Len(f)
    BY <1>1, <1>4 DEF AtEnd
  <2>2. WriteAt(f, l, <<Headline>>) = f \o <<Headline>>
    BY <1>1, <2>1, WrittenAtEnd
  <2>3. f = <<>>
    BY ONLY <1>1, <2>1
  <2>4. <<>> \o <<Headline>> = <<Headline>>
    OBVIOUS
  <2> QED
    BY <1>2, <2>1, <2>2, <2>3, <2>4
<1>5. l + 1 > 0 /\ (l = 0 => l + 1 = 1)
  BY ONLY <1>1
<1> QED
  BY <1>2, <1>3, <1>4, <1>5

LEMMA CloseWritten ==
  ASSUME LogTypes, AtEnd, NEW p \in Process, CloseLog(p)
  PROVE  /\ content'[file_name[p]] \in Seq(Piece)
         /\ \A f \in Names : f # file_name[p] => content'[f] = content[f]
         /\ Alone(p) => content'[file_name[p]] = Written(p)
<1> PICK f : f = content[file_name[p]]
  OBVIOUS
<1> PICK l : l = pos[p]
  OBVIOUS
<1> PICK b : b = buf[p]
  OBVIOUS
<1>1. file_name[p] \in Names /\ f \in Seq(Piece) /\ l \in Nat /\ b \in Seq(Piece) /\ at[p] = "run"
  BY DEF CloseLog, MayExit, AtEnd, LogTypes, Opened
<1>2. content'[file_name[p]] = IF b = <<>> THEN f ELSE WriteAt(f, l, b)
  BY <1>1 DEF CloseLog, LogTypes
<1>3. \A g \in Names : g # file_name[p] => content'[g] = content[g]
  BY <1>1 DEF CloseLog, LogTypes
<1>4. WriteAt(f, l, b) \in Seq(Piece)
  BY <1>1, WrittenPieces
<1>5. ASSUME Alone(p) PROVE content'[file_name[p]] = f \o b
  <2>1. l = Len(f)
    BY <1>1, <1>5 DEF AtEnd
  <2>2. WriteAt(f, l, b) = f \o b
    BY <1>1, <2>1, WrittenAtEnd
  <2>3. b = <<>> => f \o b = f
    BY ONLY <1>1
  <2> QED
    BY <1>2, <2>2, <2>3
<1>6. content'[file_name[p]] \in Seq(Piece)
  BY ONLY <1>1, <1>2, <1>4
<1> QED
  BY <1>3, <1>5, <1>6 DEF Written

\* The piece of a line, and the process that writes it.
LEMMA PieceOfLine ==
  ASSUME LogTypes, Guarded, NEW t \in Thread, pc[t] # "out", NEW k \in {"head", "id", "msg"}
  PROVE  /\ ProcOf[t] \in Process /\ at[ProcOf[t]] = "run"
         /\ <<t, cur[t].n>> \in Line /\ <<<<t, cur[t].n>>, k>> \in Piece
<1>1. ProcOf[t] \in Process /\ at[ProcOf[t]] = "run" /\ cur[t].n > 0
  BY LoggerAssumption DEF Guarded
<1>2. cur[t].n \in 1..MaxLine
  BY LoggerAssumption, <1>1 DEF LogTypes
<1> QED
  BY <1>1, <1>2 DEF Piece, Line

LEMMA PutOthers ==
  ASSUME LogTypes, AtEnd, NEW p \in Process, at[p] = "run", NEW piece \in Piece, Put(p, piece)
  PROVE  /\ content'[file_name[p]] \in Seq(Piece)
         /\ \A f \in Names : f # file_name[p] => content'[f] = content[f]
         /\ \A q \in Process : q # p => pos'[q] = pos[q] /\ buf'[q] = buf[q]
<1>1. file_name[p] \in Names /\ content[file_name[p]] \in Seq(Piece)
  BY DEF AtEnd, Opened
<1>2. \A f \in Names : f # file_name[p] => content'[f] = content[f]
  BY <1>1 DEF Put, LogTypes
<1>3. content'[file_name[p]] # None
  <2>1. WriteAt(content[file_name[p]], pos[p], buf[p]) \in Seq(Piece)
    BY <1>1, WrittenPieces DEF LogTypes
  <2>2. content'[file_name[p]] = content[file_name[p]] \/ content'[file_name[p]] = WriteAt(content[file_name[p]], pos[p], buf[p])
    BY <1>1 DEF Put, LogTypes
  <2> QED
    BY <1>1, <2>1, <2>2, NoFileAssumption
<1>4. content'[file_name[p]] \in Seq(Piece)
  <2>1. LogFileTypes'
    BY PutTypes
  <2> QED
    BY <1>1, <1>3, <2>1 DEF LogFileTypes
<1> QED
  BY <1>2, <1>4, PutBuffers

LEMMA AtEndStep ==
  ASSUME LogTypes, Guarded, AtEnd, LogNext
  PROVE  AtEnd'
<1>1. ASSUME NEW p \in Process, Start(p) \/ Crash(p) PROVE AtEnd'
  <2>1. UNCHANGED <<content, mixed>>
    BY <1>1 DEF Start, Crash, Gone
  <2>2. \A q \in Process : at'[q] \in Opened => at'[q] = at[q] /\ pos'[q] = pos[q]
    BY <1>1 DEF Start, Crash, LogTypes, Opened
  <2>3. \A q \in Process : at'[q] \in {"open"} => pos'[q] = 0
    BY <1>1 DEF Start, Crash, LogTypes, AtEnd
  <2> QED
    BY <2>1, <2>2, <2>3, NobodyWrites
<1>2. ASSUME NEW p \in Process, Header(p) PROVE AtEnd'
  <2>1. /\ UNCHANGED mixed /\ at[p] = "header" /\ at'[p] = "run"
        /\ \A q \in Process : q # p => at'[q] = at[q] /\ pos'[q] = pos[q]
    BY <1>2 DEF Header, LogTypes
  <2>2. Alone(p) => pos'[p] = Len(content'[file_name[p]])
    <3>1. Len(<<Headline>>) = 1
      OBVIOUS
    <3> QED
      BY <1>2, <3>1, HeaderWritten
  <2> QED
    BY <1>2, <2>1, <2>2, HeaderWritten, OneWrites DEF Opened
<1>3. ASSUME NEW p \in Process, CloseLog(p) PROVE AtEnd'
  <2>1. /\ UNCHANGED mixed /\ at[p] = "run" /\ at'[p] = "closed"
        /\ \A q \in Process : q # p => at'[q] = at[q] /\ pos'[q] = pos[q]
    BY <1>3 DEF CloseLog, MayExit, Gone, LogTypes
  <2> QED
    BY <1>3, <2>1, CloseWritten, OneWrites DEF Opened
<1>4. ASSUME NEW t \in Thread, NEW k \in {"head", "id", "msg"}, NEW n \in {"id", "msg", "unlock"},
             PutPiece(t, k, n)
      PROVE  AtEnd'
  <2> DEFINE p == ProcOf[t]
             piece == <<<<t, cur[t].n>>, k>>
  <2>1. p \in Process /\ at[p] = "run" /\ piece \in Piece /\ Put(p, piece) /\ UNCHANGED <<mixed, at>>
    BY <1>4, PieceOfLine DEF PutPiece
  <2>2. Alone(p) => pos'[p] = Len(content'[file_name[p]]) /\ pos'[p] > 0
    BY <2>1, PutWritten
  <2> HIDE DEF p, piece
  <2> QED
    BY <2>1, <2>2, PutOthers, OneWrites DEF Opened
<1>5. ASSUME NEW t \in Thread, \/ \E lvl \in Level, src \in SrcFile : Write(t, lvl, src)
                               \/ Lock(t) \/ Unlock(t)
      PROVE  AtEnd'
  <2>1. UNCHANGED <<content, mixed, at, pos>>
    BY <1>5 DEF Write, Lock, Unlock, logger
  <2> QED
    BY <2>1, NobodyWrites DEF AtEnd
<1> QED
  BY <1>1, <1>2, <1>3, <1>4, <1>5, OpenAtEnd DEF LogNext

-----------------------------------------------------------------------------
(* Whole lines.                                                            *)

\* What one process has written does not depend on the others.
LEMMA WholeOf ==
  ASSUME NEW q \in Process, Whole(Written(q)) /\ LastPiece(q), UNCHANGED <<buf[q], content[file_name[q]]>>,
         \A t \in Mine(q) : \/ pc'[t] = pc[t] /\ cur'[t].n = cur[t].n
                            \/ pc[t] \notin {"id", "msg"} /\ pc'[t] \notin {"id", "msg"}
  PROVE  (Whole(Written(q)) /\ LastPiece(q))'
<1> PICK s : s = Written(q)
  OBVIOUS
<1>1. s' = s /\ Written(q)' = s
  BY DEF Written
<1>2. \A t \in Mine(q) : pc'[t] = "id" => s[Len(s)] = <<<<t, cur'[t].n>>, "head">>
  BY DEF LastPiece
<1>3. \A t \in Mine(q) : pc'[t] = "msg" => s[Len(s)] = <<<<t, cur'[t].n>>, "id">>
  BY DEF LastPiece
<1>4. (\A t \in Mine(q) : pc'[t] \notin {"id", "msg"}) => s[Len(s)][2] \in {"header", "msg"}
  BY DEF LastPiece
<1>5. LastPiece(q)'
  BY <1>1, <1>2, <1>3, <1>4 DEF LastPiece
<1> QED
  BY <1>1, <1>5

LEMMA OwnLast ==
  ASSUME LogTypes, Guarded, WholeInv, NEW t \in Thread, NEW k \in {"head", "id", "msg"}, pc[t] = k,
         Alone(ProcOf[t])
  PROVE  LET s == Written(ProcOf[t])
         IN  /\ k = "head" => s[Len(s)][2] \in {"header", "msg"}
             /\ k = "id"   => s[Len(s)] = <<<<t, cur[t].n>>, "head">>
             /\ k = "msg"  => s[Len(s)] = <<<<t, cur[t].n>>, "id">>
<1>1. ProcOf[t] \in Process /\ at[ProcOf[t]] = "run" /\ t \in Mine(ProcOf[t])
  BY LoggerAssumption DEF Guarded, Mine
<1>2. LastPiece(ProcOf[t])
  BY <1>1 DEF WholeInv
<1>3. ASSUME k = "head" PROVE \A u \in Mine(ProcOf[t]) : pc[u] \notin {"id", "msg"}
  <2> SUFFICES ASSUME NEW u \in Mine(ProcOf[t]), pc[u] \in {"id", "msg"} PROVE FALSE
    OBVIOUS
  <2>1. u \in Thread /\ ProcOf[u] = ProcOf[t]
    BY DEF Mine
  <2>2. m_mutex[ProcOf[t]] = u /\ m_mutex[ProcOf[t]] = t
    BY <1>3, <2>1 DEF Guarded, Inside
  <2> QED
    BY <1>3, <2>2
<1> QED
  BY <1>1, <1>2, <1>3 DEF LastPiece

\* The next piece of a line, put behind the last one.
LEMMA PutWhole ==
  ASSUME LogTypes, Guarded, AtEnd, WholeInv,
         NEW t \in Thread, NEW k \in {"head", "id", "msg"}, Alone(ProcOf[t]),
         PutPiece(t, k, IF k = "head" THEN "id" ELSE IF k = "id" THEN "msg" ELSE "unlock")
  PROVE  /\ (Whole(Written(ProcOf[t])) /\ LastPiece(ProcOf[t]))'
         /\ Whole(content'[file_name[ProcOf[t]]])
<1> PICK p : p = ProcOf[t]
  OBVIOUS
<1> PICK x : x = <<<<t, cur[t].n>>, k>>
  OBVIOUS
<1> PICK s : s = Written(p)
  OBVIOUS
<1> PICK c : c = cur[t].n
  OBVIOUS
<1>1. p \in Process /\ at[p] = "run" /\ x \in Piece /\ Put(p, x) /\ Alone(p) /\ pc[t] = k
  BY PieceOfLine DEF PutPiece
<1>2. Whole(s) /\ file_name[p] \in Names /\ content[file_name[p]] \in Seq(Piece) /\ buf[p] \in Seq(Piece)
  BY <1>1 DEF WholeInv, AtEnd, Opened, LogTypes
<1>3. s \in Seq(Piece) /\ Len(s) > 0
  <2>1. Len(content[file_name[p]]) > 0
    BY <1>1 DEF AtEnd
  <2>2. s \in Seq(Piece) /\ Len(s) = Len(content[file_name[p]]) + Len(buf[p])
    BY <1>2 DEF Written
  <2>3. Len(content[file_name[p]]) \in Nat /\ Len(buf[p]) \in Nat
    BY <1>2
  <2>4. \A l, m, n : l \in Nat /\ m \in Nat /\ l > 0 /\ n = l + m => n > 0
    OBVIOUS
  <2>5. Len(s) > 0
    BY ONLY <2>1, <2>2, <2>3, <2>4
  <2> QED
    BY ONLY <2>2, <2>5
<1>4. /\ k = "head" => s[Len(s)][2] \in {"header", "msg"}
      /\ k = "id"   => s[Len(s)] = <<<<t, c>>, "head">>
      /\ k = "msg"  => s[Len(s)] = <<<<t, c>>, "id">>
  BY <1>1, OwnLast
<1>5. x[1] = <<t, c>> /\ x[2] = k
  OBVIOUS
<1> PICK r : r = Append(s, x)
  OBVIOUS
<1>6. Whole(r)
  BY <1>1, <1>2, <1>3, <1>4, <1>5, WholeAppend
<1>7. Len(r) = Len(s) + 1 /\ r[Len(r)] = x
  BY <1>1, <1>3
<1>8. cur' = cur /\ Written(p)' = r
  <2>1. cur' = cur
    BY DEF PutPiece
  <2>2. content'[file_name[p]] \o buf'[p] = r
    BY <1>1, PutWritten
  <2> QED
    BY <2>1, <2>2 DEF Written
<1>9. \A u \in Mine(p) : u # t => pc'[u] = pc[u] /\ pc[u] \notin {"id", "msg"}
  <2> SUFFICES ASSUME NEW u \in Mine(p), u # t PROVE pc'[u] = pc[u] /\ pc[u] \notin {"id", "msg"}
    OBVIOUS
  <2>1. u \in Thread /\ ProcOf[u] = p
    BY DEF Mine
  <2>2. m_mutex[p] = t
    BY <1>1 DEF Guarded, Inside
  <2>3. pc[u] \notin Inside
    BY <2>1, <2>2 DEF Guarded
  <2> QED
    BY <2>1, <2>3 DEF PutPiece, LogTypes, Inside
<1>10. pc'[t] = (IF k = "head" THEN "id" ELSE IF k = "id" THEN "msg" ELSE "unlock") /\ t \in Mine(p)
  BY DEF PutPiece, LogTypes, Mine
<1>11. LastPiece(p)'
  <2>1. \A u \in Mine(p) : pc'[u] = "id" => r[Len(r)] = <<<<u, cur[u].n>>, "head">>
    BY <1>7, <1>9, <1>10
  <2>2. \A u \in Mine(p) : pc'[u] = "msg" => r[Len(r)] = <<<<u, cur[u].n>>, "id">>
    BY <1>7, <1>9, <1>10
  <2>3. (\A u \in Mine(p) : pc'[u] \notin {"id", "msg"}) => r[Len(r)][2] \in {"header", "msg"}
    BY <1>5, <1>7, <1>10
  <2> QED
    BY <1>8, <2>1, <2>2, <2>3 DEF LastPiece
<1>12. Whole(content'[file_name[p]])
  <2>1. Whole(content[file_name[p]])
    BY <1>2, WholePrefix DEF Written
  <2>2. content'[file_name[p]] = content[file_name[p]] \/ content'[file_name[p]] = s
    BY <1>1, PutWritten
  <2> QED
    BY <1>2, <2>1, <2>2
<1> QED
  BY <1>6, <1>8, <1>11, <1>12

\* A step in which at most p writes to its file.
LEMMA OneWhole ==
  ASSUME LogTypes, AtEnd, WholeInv, NEW p \in Process, at[p] \in Opened, UNCHANGED mixed,
         \A f \in Names : f # file_name[p] => content'[f] = content[f],
         \A q \in Process : q # p => at'[q] = at[q] /\ buf'[q] = buf[q],
         \A t \in Thread : ProcOf[t] # p => pc'[t] = pc[t] /\ cur'[t].n = cur[t].n,
         Alone(p) => Whole(content'[file_name[p]]),
         Alone(p) /\ at'[p] = "run" => (Whole(Written(p)) /\ LastPiece(p))'
  PROVE  WholeInv'
<1>1. ASSUME NEW f \in Names \ mixed, content'[f] # None PROVE Whole(content'[f])
  BY <1>1 DEF WholeInv, Alone
<1>2. ASSUME NEW q \in Process, at'[q] = "run", file_name[q] \notin mixed
      PROVE  (Whole(Written(q)) /\ LastPiece(q))'
  <2>1. CASE q = p
    BY <1>2, <2>1 DEF Alone
  <2>2. CASE q # p
    <3>1. Alone(q) /\ at[q] = "run" /\ file_name[q] # file_name[p] /\ file_name[q] \in Names
      BY <1>2, <2>2, AloneApart DEF Alone, AtEnd, Opened
    <3>2. UNCHANGED <<buf[q], content[file_name[q]]>>
      BY <2>2, <3>1
    <3>3. \A t \in Mine(q) : pc'[t] = pc[t] /\ cur'[t].n = cur[t].n
      BY <2>2 DEF Mine
    <3>4. Whole(Written(q)) /\ LastPiece(q)
      BY <3>1 DEF WholeInv
    <3> QED
      BY <3>2, <3>3, <3>4, WholeOf
  <2> QED
    BY <2>1, <2>2
<1> QED
  BY <1>1, <1>2 DEF WholeInv, Alone

\* A step that leaves the files and the buffers of those that run alone.
LEMMA NoneWhole ==
  ASSUME WholeInv, UNCHANGED <<content, mixed>>,
         \A q \in Process : at'[q] = "run" => at[q] = "run" /\ UNCHANGED <<buf[q]>>,
         \A q \in Process : at'[q] = "run" =>
           \A t \in Mine(q) : \/ pc'[t] = pc[t] /\ cur'[t].n = cur[t].n
                              \/ pc[t] \notin {"id", "msg"} /\ pc'[t] \notin {"id", "msg"}
  PROVE  WholeInv'
<1>1. \A f \in Names \ mixed' : content'[f] # None => Whole(content'[f])
  BY DEF WholeInv
<1>2. ASSUME NEW q \in Process, at'[q] = "run", file_name[q] \notin mixed'
      PROVE  (Whole(Written(q)) /\ LastPiece(q))'
  <2>1. Whole(Written(q)) /\ LastPiece(q)
    BY <1>2 DEF WholeInv, Alone, Opened
  <2>2. UNCHANGED <<buf[q], content[file_name[q]]>>
    BY <1>2
  <2>3. \A t \in Mine(q) : \/ pc'[t] = pc[t] /\ cur'[t].n = cur[t].n
                           \/ pc[t] \notin {"id", "msg"} /\ pc'[t] \notin {"id", "msg"}
    BY <1>2
  <2> QED
    BY ONLY q \in Process, <2>1, <2>2, <2>3, WholeOf
<1> QED
  BY <1>1, <1>2 DEF WholeInv, Alone

LEMMA OpenWhole ==
  ASSUME LogTypes, AtEnd, WholeInv, NEW p \in Process, Open(p)
  PROVE  WholeInv'
<1> PICK n : n = file_name[p]
  OBVIOUS
<1>1. n \in Names /\ at[p] = "open"
  BY LoggerAssumption DEF Open
<1>2. /\ \A q \in Process : at'[q] = IF q = p THEN "header" ELSE at[q]
      /\ \A f \in Names : content'[f] = IF f = n THEN <<>> ELSE content[f]
      /\ UNCHANGED <<buf, pc, cur>>
  BY <1>1 DEF Open, LogTypes, callers
<1>3. ASSUME NEW q \in Process, at'[q] = "run", file_name[q] = n PROVE n \in mixed'
  <2>1. q \in Sharing(p, n)
    BY <1>2, <1>3 DEF Sharing
  <2> QED
    BY <2>1 DEF Open
<1>4. \A f : f # n => (f \in mixed' <=> f \in mixed)
  BY DEF Open
<1>5. Whole(<<>>)
  BY DEF Whole
<1>6. \A f \in Names \ mixed' : content'[f] # None => Whole(content'[f])
  BY <1>2, <1>4, <1>5 DEF WholeInv
<1>7. ASSUME NEW q \in Process, at'[q] = "run", file_name[q] \notin mixed'
      PROVE  (Whole(Written(q)) /\ LastPiece(q))'
  <2>1. file_name[q] # n /\ at[q] = "run"
    BY <1>2, <1>3, <1>7
  <2>2. Alone(q) /\ file_name[q] \in Names
    BY <1>4, <1>7, <2>1 DEF Alone, Opened, AtEnd
  <2>3. Whole(Written(q)) /\ LastPiece(q)
    BY <2>1, <2>2 DEF WholeInv
  <2>4. UNCHANGED <<buf[q], content[file_name[q]]>>
    BY <1>2, <2>1, <2>2
  <2>5. \A t \in Mine(q) : pc'[t] = pc[t] /\ cur'[t].n = cur[t].n
    BY <1>2
  <2> QED
    BY ONLY q \in Process, <2>3, <2>4, <2>5, WholeOf
<1> QED
  BY <1>2, <1>6, <1>7 DEF WholeInv, Alone

LEMMA HeaderWhole ==
  ASSUME LogTypes, Guarded, AtEnd, WholeInv, NEW p \in Process, Header(p)
  PROVE  WholeInv'
<1>1. /\ UNCHANGED <<mixed, buf, pc, cur>> /\ at[p] = "header" /\ at'[p] = "run"
      /\ \A q \in Process : q # p => at'[q] = at[q]
  BY DEF Header, LogTypes, callers
<1>2. ASSUME Alone(p) PROVE Whole(content'[file_name[p]]) /\ (Whole(Written(p)) /\ LastPiece(p))'
  <2>1. buf[p] = <<>> /\ \A t \in Mine(p) : pc[t] = "out"
    BY <1>1 DEF Guarded, Mine
  <2> PICK s : s = <<Headline>>
    OBVIOUS
  <2>2. content'[file_name[p]] = s
    BY <1>2, HeaderWritten
  <2>3. Len(s) = 1 /\ s[1] = Headline /\ s \o <<>> = s
    OBVIOUS
  <2>4. Written(p)' = s
    BY <1>1, <2>1, <2>2, <2>3 DEF Written
  <2>5. Whole(s)
    BY <2>3 DEF Whole
  <2>6. s[Len(s)][2] = "header"
    BY <2>3 DEF Headline
  <2>7. LastPiece(p)'
    BY <1>1, <2>1, <2>4, <2>6 DEF LastPiece
  <2> QED
    BY <2>2, <2>4, <2>5, <2>7
<1>3. \A f \in Names : f # file_name[p] => content'[f] = content[f]
  BY HeaderWritten
<1> QED
  BY <1>1, <1>2, <1>3, OneWhole DEF Opened

LEMMA CloseWhole ==
  ASSUME LogTypes, AtEnd, WholeInv, NEW p \in Process, CloseLog(p)
  PROVE  WholeInv'
<1>1. /\ UNCHANGED mixed /\ at[p] = "run" /\ at'[p] = "closed"
      /\ \A q \in Process : q # p => at'[q] = at[q] /\ buf'[q] = buf[q]
      /\ \A t \in Thread : ProcOf[t] # p => pc'[t] = pc[t] /\ cur'[t].n = cur[t].n
  BY DEF CloseLog, MayExit, Gone, LogTypes, Mine
<1>2. \A f \in Names : f # file_name[p] => content'[f] = content[f]
  BY CloseWritten
<1>3. Alone(p) => Whole(content'[file_name[p]])
  BY <1>1, CloseWritten DEF WholeInv
<1> QED
  BY <1>1, <1>2, <1>3, OneWhole DEF Opened

LEMMA WholeStep ==
  ASSUME LogTypes, Guarded, AtEnd, WholeInv, LogNext
  PROVE  WholeInv'
<1>1. ASSUME NEW p \in Process, Start(p) \/ Crash(p) PROVE WholeInv'
  <2>1. UNCHANGED <<content, mixed>>
    BY <1>1 DEF Start, Crash, Gone
  <2>2. \A q \in Process : at'[q] = "run" => q # p /\ at[q] = "run" /\ UNCHANGED <<buf[q]>>
    BY <1>1 DEF Start, Crash, LogTypes
  <2>3. \A t \in Thread : ProcOf[t] # p => pc'[t] = pc[t] /\ cur'[t] = cur[t]
    BY <1>1 DEF Start, Crash, Gone, LogTypes, callers, Mine
  <2>4. \A q \in Process : at'[q] = "run" => \A t \in Mine(q) : pc'[t] = pc[t] /\ cur'[t].n = cur[t].n
    BY <2>2, <2>3 DEF Mine
  <2> QED
    BY <2>1, <2>2, <2>4, NoneWhole
<1>2. ASSUME NEW t \in Thread, NEW k \in {"head", "id", "msg"},
             PutPiece(t, k, IF k = "head" THEN "id" ELSE IF k = "id" THEN "msg" ELSE "unlock")
      PROVE  WholeInv'
  <2> PICK p : p = ProcOf[t]
    OBVIOUS
  <2> PICK x : x = <<<<t, cur[t].n>>, k>>
    OBVIOUS
  <2>1. p \in Process /\ at[p] = "run" /\ x \in Piece /\ Put(p, x) /\ UNCHANGED <<at, mixed, cur>>
    BY <1>2, PieceOfLine DEF PutPiece
  <2>2. /\ \A f \in Names : f # file_name[p] => content'[f] = content[f]
        /\ \A q \in Process : q # p => buf'[q] = buf[q]
    BY <2>1, PutOthers
  <2>3. \A u \in Thread : ProcOf[u] # p => pc'[u] = pc[u]
    BY <1>2 DEF PutPiece, LogTypes
  <2>4. Alone(p) => Whole(content'[file_name[p]]) /\ (Whole(Written(p)) /\ LastPiece(p))'
    BY <1>2, PutWhole
  <2> QED
    BY <2>1, <2>2, <2>3, <2>4, OneWhole DEF Opened
<1>3. ASSUME NEW t \in Thread, \/ \E lvl \in Level, src \in SrcFile : Write(t, lvl, src)
                               \/ Lock(t) \/ Unlock(t)
      PROVE  WholeInv'
  <2>1. UNCHANGED <<content, mixed, at, buf>>
    BY <1>3 DEF Write, Lock, Unlock, logger
  <2>2. \A u \in Thread : \/ pc'[u] = pc[u] /\ cur'[u].n = cur[u].n
                          \/ pc[u] \notin {"id", "msg"} /\ pc'[u] \notin {"id", "msg"}
    BY <1>3 DEF Write, Lock, Unlock, LogTypes, Idle
  <2> QED
    BY <2>1, <2>2, NoneWhole DEF Mine
<1> QED
  BY <1>1, <1>2, <1>3, OpenWhole, HeaderWhole, CloseWhole DEF LogNext

-----------------------------------------------------------------------------
(* The invariant.                                                          *)

LEMMA LogInitInv == LogInit => LogInv
<1> SUFFICES ASSUME LogInit PROVE LogInv
  OBVIOUS
<1> USE DEF LogInit
<1>0. ProcOf \in [Thread -> Process] /\ None \notin Thread /\ {MaxRun, MaxLine} \subseteq Nat
  BY LoggerAssumption
<1>1. LogTypes
  BY <1>0 DEF LogTypes, Stage, Place, NoLine
<1>2. Guarded
  BY <1>0 DEF Guarded, Inside
<1>3. AtEnd
  BY DEF AtEnd, Alone, Opened
<1>4. WholeInv
  BY DEF WholeInv, Alone, Opened
<1> QED
  BY <1>1, <1>2, <1>3, <1>4 DEF LogInv

LEMMA LogStutter == LogInv /\ UNCHANGED logVars => LogInv'
<1> SUFFICES ASSUME LogInv, UNCHANGED logVars PROVE LogInv'
  OBVIOUS
<1>1. UNCHANGED <<content, at, pos, buf, runs, m_mutex, pc, cur, done, width, mixed>>
  BY DEF logVars, logger, callers
<1>2. LogTypes' /\ Guarded'
  BY <1>1 DEF LogInv, LogTypes, Guarded
<1>3. AtEnd' /\ WholeInv'
  BY <1>1 DEF LogInv, AtEnd, WholeInv, Alone, Written, LastPiece
<1> QED
  BY <1>2, <1>3 DEF LogInv

LEMMA LogInductive == LogSpec => []LogInv
<1>1. LogInv /\ [LogNext]_logVars => LogInv'
  BY TypesStep, GuardedStep, AtEndStep, WholeStep, LogStutter DEF LogInv
<1> QED
  BY <1>1, LogInitInv, PTL DEF LogSpec

\* However the threads of a process interleave, and after a crash, a file that no two
\* processes had open at once, and what follows from the buffer, is made of whole lines:
\* lock_guard in Write() keeps a line's three pieces together.
THEOREM LinesWholeCorrect == LogSpec => []LinesWhole
<1>1. LogInv => LinesWhole
  BY DEF LogInv, LinesWhole, WholeInv, Alone, Opened, Written, Exists
<1> QED
  BY <1>1, LogInductive, PTL

-----------------------------------------------------------------------------
(* Lines that stay.                                                        *)

\* A piece stays among the pieces when others come behind.
LEMMA HasMore ==
  ASSUME NEW f \in Seq(Piece), NEW b \in Seq(Piece), NEW line, NEW k, Has(f, line, k)
  PROVE  Has(f \o b, line, k)
<1> PICK j \in DOMAIN f : f[j] = <<line, k>>
  BY DEF Has
<1>1. j \in DOMAIN (f \o b) /\ (f \o b)[j] = f[j]
  OBVIOUS
<1> QED
  BY <1>1 DEF Has

LEMMA HasAppended ==
  ASSUME NEW s \in Seq(Piece), NEW x \in Piece
  PROVE  /\ \A line, k : Has(s, line, k) => Has(Append(s, x), line, k)
         /\ \A line, k : x = <<line, k>> => Has(Append(s, x), line, k)
<1> PICK r : r = Append(s, x)
  OBVIOUS
<1>1. DOMAIN s = 1..Len(s) /\ DOMAIN r = 1..(Len(s) + 1) /\ Len(s) \in Nat
  OBVIOUS
<1>2. r[Len(s) + 1] = x /\ \A j \in 1..Len(s) : r[j] = s[j]
  OBVIOUS
<1>3. Len(s) + 1 \in DOMAIN r /\ \A j \in DOMAIN s : j \in DOMAIN r /\ r[j] = s[j]
  BY ONLY <1>1, <1>2
<1> QED
  BY <1>2, <1>3 DEF Has

LEMMA KeptOf ==
  ASSUME NEW q \in Process, KeptBy(q), UNCHANGED <<buf[q], content[file_name[q]], done[q]>>,
         \A t \in Mine(q) : UNCHANGED <<pc[t], cur[t]>>
  PROVE  KeptBy(q)'
<1> PICK s : s = Written(q)
  OBVIOUS
<1>1. Written(q)' = s
  BY DEF Written
<1>2. \A t \in Mine(q) : Due(t)' = Due(t) /\ cur'[t].n = cur[t].n
  BY DEF Due
<1> QED
  BY <1>1, <1>2 DEF KeptBy

\* A step of process p alone, which leaves the files that the others have to themselves.
LEMMA OneKept ==
  ASSUME AtEnd, Kept, NEW p \in Process,
         \A q \in Process : q # p => UNCHANGED <<at[q], buf[q], done[q]>>,
         \A q \in Process : q # p /\ Alone(q)' =>
           Alone(q) /\ (at[q] = "run" => UNCHANGED content[file_name[q]]),
         \A t \in Thread : ProcOf[t] # p => UNCHANGED <<pc[t], cur[t]>>,
         Alone(p)' /\ at'[p] = "run" => KeptBy(p)',
         at'[p] \in {"open", "header"} => done'[p] = {}
  PROVE  Kept'
<1>1. ASSUME NEW q \in Process, Alone(q)', at'[q] = "run" PROVE KeptBy(q)'
  <2>1. CASE q = p
    BY <1>1, <2>1
  <2>2. CASE q # p
    <3>1. Alone(q) /\ at[q] = "run" /\ UNCHANGED <<buf[q], content[file_name[q]], done[q]>>
      BY <1>1, <2>2
    <3>2. KeptBy(q)
      BY <3>1 DEF Kept
    <3>3. \A t \in Mine(q) : UNCHANGED <<pc[t], cur[t]>>
      BY <2>2 DEF Mine
    <3> QED
      BY ONLY q \in Process, <3>1, <3>2, <3>3, KeptOf
  <2> QED
    BY <2>1, <2>2
<1>2. \A q \in Process : at'[q] \in {"open", "header"} => done'[q] = {}
  BY DEF Kept
<1> QED
  BY <1>1, <1>2 DEF Kept

LEMMA PutKept ==
  ASSUME LogTypes, Guarded, AtEnd, Kept,
         NEW t \in Thread, NEW k \in {"head", "id", "msg"}, Alone(ProcOf[t]),
         PutPiece(t, k, IF k = "head" THEN "id" ELSE IF k = "id" THEN "msg" ELSE "unlock")
  PROVE  KeptBy(ProcOf[t])'
<1> PICK p : p = ProcOf[t]
  OBVIOUS
<1> PICK x : x = <<<<t, cur[t].n>>, k>>
  OBVIOUS
<1> PICK s : s = Written(p)
  OBVIOUS
<1>1. p \in Process /\ at[p] = "run" /\ x \in Piece /\ Put(p, x) /\ Alone(p) /\ pc[t] = k
  BY PieceOfLine DEF PutPiece
<1>2. s \in Seq(Piece)
  <2>1. content[file_name[p]] \in Seq(Piece) /\ buf[p] \in Seq(Piece)
    BY <1>1 DEF AtEnd, Opened, LogTypes
  <2> QED
    BY <2>1 DEF Written
<1> PICK r : r = Append(s, x)
  OBVIOUS
<1>3. UNCHANGED <<cur, done>> /\ Written(p)' = r
  <2>1. UNCHANGED <<cur, done>>
    BY DEF PutPiece
  <2>2. content'[file_name[p]] \o buf'[p] = r
    BY <1>1, PutWritten
  <2> QED
    BY <2>1, <2>2 DEF Written
<1>4. /\ \A line, j : Has(s, line, j) => Has(r, line, j)
      /\ Has(r, <<t, cur[t].n>>, k)
  BY <1>1, <1>2, HasAppended
<1>5. KeptBy(p)
  BY <1>1 DEF Kept
<1>6. \A u \in Mine(p) : u # t => Due(u)' = Due(u)
  BY <1>3 DEF PutPiece, Due, LogTypes, Mine
<1>7. t \in Mine(p) /\ Due(t)' \subseteq Due(t) \cup {k}
  <2>1. t \in Mine(p)
    BY DEF Mine
  <2>2. pc'[t] = IF k = "head" THEN "id" ELSE IF k = "id" THEN "msg" ELSE "unlock"
    BY DEF PutPiece, LogTypes
  <2>3. CASE k = "head"
    BY <1>1, <2>1, <2>2, <2>3 DEF Due
  <2>4. CASE k = "id"
    BY <1>1, <2>1, <2>2, <2>4 DEF Due
  <2>5. CASE k = "msg"
    BY <1>1, <1>3, <2>1, <2>2, <2>5 DEF Due
  <2> QED
    BY <2>3, <2>4, <2>5
<1>8. \A u \in Mine(p) : \A j \in Due(u)' : Has(r, <<u, cur[u].n>>, j)
  <2> SUFFICES ASSUME NEW u \in Mine(p), NEW j \in Due(u)' PROVE Has(r, <<u, cur[u].n>>, j)
    OBVIOUS
  <2>1. CASE j \in Due(u)
    BY <1>4, <1>5, <2>1 DEF KeptBy
  <2>2. CASE j \notin Due(u)
    BY <1>4, <1>6, <1>7, <2>2
  <2> QED
    BY <2>1, <2>2
<1>9. \A line \in done[p], j \in {"head", "id", "msg"} : Has(r, line, j)
  BY <1>4, <1>5 DEF KeptBy
<1> QED
  BY <1>3, <1>8, <1>9 DEF KeptBy

LEMMA HeaderKept ==
  ASSUME LogTypes, Guarded, Kept, NEW p \in Process, Header(p)
  PROVE  KeptBy(p)'
<1>1. done'[p] = {} /\ \A t \in Mine(p) : pc'[t] = "out"
  BY DEF Header, Kept, Guarded, Mine, callers
<1>2. \A t \in Mine(p) : Due(t)' = {}
  BY <1>1 DEF Due
<1> QED
  BY <1>1, <1>2 DEF KeptBy

\* What Write() does besides putting pieces.
LEMMA WriteKept ==
  ASSUME LogTypes, Guarded, Kept, NEW t \in Thread, Alone(ProcOf[t]),
         \/ \E lvl \in Level, src \in SrcFile : Write(t, lvl, src)
         \/ Lock(t) \/ Unlock(t)
  PROVE  KeptBy(ProcOf[t])'
<1> PICK p : p = ProcOf[t]
  OBVIOUS
<1> PICK s : s = Written(p)
  OBVIOUS
<1>1. p \in Process /\ at[p] = "run"
  BY LoggerAssumption DEF Guarded, Write, Lock, Unlock
<1>2. KeptBy(p)
  BY <1>1 DEF Kept
<1>3. UNCHANGED <<at, content, buf>>
  BY DEF Write, Lock, Unlock, logger
<1>4. Written(p)' = s
  BY <1>3 DEF Written
<1>5. \A u \in Mine(p) : u # t => Due(u)' = Due(u) /\ cur'[u].n = cur[u].n
  BY DEF Write, Lock, Unlock, Due, LogTypes, Mine
<1>6. Due(t)' = {}
  <2>1. CASE \E lvl \in Level, src \in SrcFile : Write(t, lvl, src)
    <3>1. pc'[t] = "lock"
      BY <2>1 DEF Write, LogTypes
    <3> QED
      BY <3>1 DEF Due
  <2>2. CASE Lock(t)
    <3>1. cur' = cur /\ pc'[t] = IF cur[t].lvl <= LogLvl THEN "head" ELSE "unlock"
      BY <2>2 DEF Lock, LogTypes
    <3>2. CASE cur[t].lvl <= LogLvl
      BY <3>1, <3>2 DEF Due
    <3>3. CASE ~(cur[t].lvl <= LogLvl)
      BY <3>1, <3>3 DEF Due
    <3> QED
      BY <3>2, <3>3
  <2>3. CASE Unlock(t)
    <3>1. pc'[t] = "out"
      BY <2>3 DEF Unlock, LogTypes
    <3> QED
      BY <3>1 DEF Due
  <2> QED
    BY <2>1, <2>2, <2>3
<1>7. ASSUME NEW line \in done'[p], NEW k \in {"head", "id", "msg"} PROVE Has(s, line, k)
  <2>1. CASE line \in done[p]
    BY <1>2, <2>1 DEF KeptBy
  <2>2. CASE line \notin done[p]
    <3>1. Unlock(t) /\ cur[t].lvl <= LogLvl /\ line = <<t, cur[t].n>>
      BY <1>1, <1>7, <2>2 DEF Write, Lock, Unlock, LogTypes
    <3>2. k \in Due(t) /\ t \in Mine(p)
      BY <3>1 DEF Unlock, Due, Mine
    <3> QED
      BY <1>2, <3>1, <3>2 DEF KeptBy
  <2> QED
    BY <2>1, <2>2
<1>8. \A u \in Mine(p) : \A k \in Due(u)' : Has(s, <<u, cur'[u].n>>, k)
  BY <1>2, <1>5, <1>6 DEF KeptBy
<1> QED
  BY <1>4, <1>7, <1>8 DEF KeptBy

LEMMA KeptStep ==
  ASSUME LogTypes, Guarded, AtEnd, Kept, LogNext
  PROVE  Kept'
<1>0. ProcOf \in [Thread -> Process]
  BY LoggerAssumption
<1>1. ASSUME NEW p \in Process, Start(p) \/ Crash(p) PROVE Kept'
  <2>1. UNCHANGED <<content, mixed>>
    BY <1>1 DEF Start, Crash, Gone
  <2>2. \A q \in Process : q # p => UNCHANGED <<at[q], buf[q], done[q]>>
    BY <1>1 DEF Start, Crash, Gone, LogTypes, callers
  <2>3. \A t \in Thread : ProcOf[t] # p => UNCHANGED <<pc[t], cur[t]>>
    BY <1>1 DEF Start, Crash, Gone, LogTypes, callers, Mine
  <2>4. at'[p] # "run"
    BY <1>1 DEF Start, Crash, LogTypes
  <2>5. at'[p] \in {"open", "header"} => done'[p] = {}
    BY <1>1 DEF Start, Crash, Kept, LogTypes, callers
  <2>6. \A q \in Process : q # p /\ Alone(q)' => Alone(q) /\ (at[q] = "run" => UNCHANGED content[file_name[q]])
    BY <2>1, <2>2 DEF Alone
  <2> QED
    BY <2>2, <2>3, <2>4, <2>5, <2>6, OneKept
<1>2. ASSUME NEW p \in Process, Open(p) PROVE Kept'
  <2>1. file_name[p] \in Names /\ at[p] = "open"
    BY <1>2, LoggerAssumption DEF Open
  <2>2. \A q \in Process : q # p => UNCHANGED <<at[q], buf[q], done[q]>>
    BY <1>2 DEF Open, LogTypes, callers
  <2>3. \A t \in Thread : UNCHANGED <<pc[t], cur[t]>>
    BY <1>2 DEF Open, callers
  <2>4. at'[p] = "header" /\ done'[p] = {}
    BY <1>2, <2>1 DEF Open, Kept, LogTypes, callers
  <2>5. ASSUME NEW q \in Process, q # p, Alone(q)'
        PROVE  Alone(q) /\ (at[q] = "run" => UNCHANGED content[file_name[q]])
    <3>1. at[q] \in Opened /\ file_name[q] \notin mixed'
      BY <2>2, <2>5 DEF Alone
    <3>2. file_name[q] # file_name[p]
      <4> SUFFICES ASSUME file_name[q] = file_name[p] PROVE FALSE
        OBVIOUS
      <4>1. q \in Sharing(p, file_name[p])
        BY <2>5, <3>1 DEF Sharing, Opened
      <4> QED
        BY <1>2, <3>1, <4>1 DEF Open
    <3>3. file_name[q] \notin mixed
      BY <1>2, <3>1, <3>2 DEF Open
    <3>4. content'[file_name[q]] = content[file_name[q]]
      BY <1>2, <2>1, <3>1, <3>2 DEF Open, AtEnd, LogTypes
    <3> QED
      BY <3>1, <3>3, <3>4 DEF Alone
  <2> QED
    BY <2>2, <2>3, <2>4, <2>5, OneKept
<1>3. ASSUME NEW p \in Process, at[p] \in Opened, UNCHANGED mixed,
             \A f \in Names : f # file_name[p] => content'[f] = content[f],
             \A q \in Process : q # p => UNCHANGED <<at[q], buf[q], done[q]>>,
             \A t \in Thread : ProcOf[t] # p => UNCHANGED <<pc[t], cur[t]>>,
             Alone(p)' /\ at'[p] = "run" => KeptBy(p)', at'[p] \in {"run", "closed"}
      PROVE  Kept'
  <2>1. ASSUME NEW q \in Process, q # p, Alone(q)'
        PROVE  Alone(q) /\ (at[q] = "run" => UNCHANGED content[file_name[q]])
    <3>1. Alone(q)
      BY <1>3, <2>1 DEF Alone
    <3>2. file_name[q] # file_name[p] /\ file_name[q] \in Names
      BY <1>3, <2>1, <3>1, AloneApart DEF Alone, AtEnd
    <3> QED
      BY <1>3, <3>1, <3>2
  <2>2. \A q \in Process : q # p => UNCHANGED <<at[q], buf[q], done[q]>>
    BY <1>3
  <2> QED
    BY <1>3, <2>1, <2>2, OneKept
<1>4. ASSUME NEW p \in Process, Header(p) PROVE Kept'
  <2>1. /\ UNCHANGED <<mixed, pc, cur, done, buf>> /\ at[p] = "header" /\ at'[p] = "run"
        /\ \A q \in Process : q # p => at'[q] = at[q]
    BY <1>4 DEF Header, LogTypes, callers
  <2>2. \A f \in Names : f # file_name[p] => content'[f] = content[f]
    BY <1>4, HeaderWritten
  <2>3. KeptBy(p)'
    BY <1>4, HeaderKept
  <2> QED
    BY <1>3, <2>1, <2>2, <2>3 DEF Opened
<1>5. ASSUME NEW p \in Process, CloseLog(p) PROVE Kept'
  <2>1. /\ UNCHANGED <<mixed, done>> /\ at[p] = "run" /\ at'[p] = "closed"
        /\ \A q \in Process : q # p => at'[q] = at[q] /\ buf'[q] = buf[q]
        /\ \A t \in Thread : ProcOf[t] # p => UNCHANGED <<pc[t], cur[t]>>
    BY <1>5 DEF CloseLog, MayExit, Gone, LogTypes, Mine
  <2>2. \A f \in Names : f # file_name[p] => content'[f] = content[f]
    BY <1>5, CloseWritten
  <2> QED
    BY <1>3, <2>1, <2>2 DEF Opened
<1>6. ASSUME NEW t \in Thread, NEW k \in {"head", "id", "msg"},
             PutPiece(t, k, IF k = "head" THEN "id" ELSE IF k = "id" THEN "msg" ELSE "unlock")
      PROVE  Kept'
  <2> PICK p : p = ProcOf[t]
    OBVIOUS
  <2> PICK x : x = <<<<t, cur[t].n>>, k>>
    OBVIOUS
  <2>1. p \in Process /\ at[p] = "run" /\ x \in Piece /\ Put(p, x) /\ UNCHANGED <<at, mixed, cur, done>>
    BY <1>6, PieceOfLine DEF PutPiece
  <2>2. /\ \A f \in Names : f # file_name[p] => content'[f] = content[f]
        /\ \A q \in Process : q # p => buf'[q] = buf[q]
    BY <2>1, PutOthers
  <2>3. \A u \in Thread : ProcOf[u] # p => pc'[u] = pc[u]
    BY <1>6 DEF PutPiece, LogTypes
  <2>4. Alone(p)' => KeptBy(p)'
    BY <1>6, <2>1, PutKept DEF Alone
  <2> QED
    BY <1>3, <2>1, <2>2, <2>3, <2>4 DEF Opened
<1>7. ASSUME NEW t \in Thread, \/ \E lvl \in Level, src \in SrcFile : Write(t, lvl, src)
                               \/ Lock(t) \/ Unlock(t)
      PROVE  Kept'
  <2> PICK p : p = ProcOf[t]
    OBVIOUS
  <2>1. p \in Process /\ at[p] = "run"
    BY <1>0, <1>7 DEF Guarded, Write, Lock, Unlock
  <2>2. UNCHANGED <<content, mixed, at, buf>>
    BY <1>7 DEF Write, Lock, Unlock, logger
  <2>3. \A q \in Process : q # p => done'[q] = done[q]
    BY <1>7 DEF Write, Lock, Unlock, LogTypes
  <2>4. \A u \in Thread : ProcOf[u] # p => UNCHANGED <<pc[u], cur[u]>>
    BY <1>7 DEF Write, Lock, Unlock, LogTypes
  <2>5. Alone(p)' => KeptBy(p)'
    BY <1>7, <2>2, WriteKept DEF Alone
  <2> QED
    BY <1>3, <2>1, <2>2, <2>3, <2>4, <2>5 DEF Opened
<1> QED
  BY <1>1, <1>2, <1>4, <1>5, <1>6, <1>7 DEF LogNext

\* Every line that Write() accepted is in the file when ~Logger() has flushed the buffer,
\* if no other process has the file open.
THEOREM ClosedCompleteCorrect == LogSpec => ClosedComplete
<1>1. LogInit => Kept
  BY DEF LogInit, Kept, KeptBy, Alone, Opened
<1>2. LogInv /\ Kept /\ [LogNext]_logVars => Kept'
  <2>1. ASSUME LogInv, Kept, UNCHANGED logVars PROVE Kept'
    BY <2>1 DEF logVars, logger, callers, Kept, KeptBy, Due, Written, Alone
  <2> QED
    BY <2>1, KeptStep DEF LogInv
<1> DEFINE Complete ==
      \A p \in Process :
        at[p] = "run" /\ at'[p] = "closed" /\ file_name[p] \notin mixed
          => \A line \in done[p] : Holds(file_name[p], line)'
<1>3. LogInv /\ Kept /\ [LogNext]_logVars => [Complete]_logVars
  <2> SUFFICES ASSUME LogInv, Kept, LogNext, NEW p \in Process,
                      at[p] = "run", at'[p] = "closed", file_name[p] \notin mixed, NEW line \in done[p]
               PROVE  Holds(file_name[p], line)'
    OBVIOUS
  <2>1. CloseLog(p)
    BY ZenonT(40) DEF LogNext, Start, Open, Header, CloseLog, Crash, Write, Lock, Unlock, PutPiece,
           logger, LogInv, LogTypes
  <2>2. file_name[p] = file_name[p] /\ content'[file_name[p]] = Written(p)
    BY <2>1, CloseWritten DEF CloseLog, LogInv, Alone, Opened
  <2>3. \A k \in {"head", "id", "msg"} : Has(content'[file_name[p]], line, k)
    BY <2>2 DEF Kept, KeptBy, Alone, Opened
  <2>4. content'[file_name[p]] # None
    BY <2>1, CloseWritten, NoFileAssumption DEF LogInv
  <2> QED
    BY <2>2, <2>3, <2>4 DEF Holds, Exists, Has
<1>4. LogSpec => [](LogInv /\ Kept)
  BY <1>1, <1>2, LogInductive, PTL DEF LogSpec
<1>5. LogSpec => [][Complete]_logVars
  BY <1>3, <1>4, PTL DEF LogSpec
<1> QED
  BY <1>5 DEF ClosedComplete

-----------------------------------------------------------------------------
(* The length of a line.                                                   *)

\* A set of natural numbers has a least one.
LEMMA Least ==
  ASSUME NEW S \in SUBSET Nat, S # {}
  PROVE  \E n \in S : \A m \in S : n <= m
<1> PICK R : R = OpToRel(<, Nat)
  OBVIOUS
<1>1. PICK n \in S : \A m \in S : ~(<<m, n>> \in R)
  BY NatLessThanWellFounded, WFMin
<1>2. \A m \in S : ~(m < n)
  BY <1>1 DEF OpToRel
<1>3. n \in Nat /\ \A m \in S : m \in Nat
  OBVIOUS
<1>4. \A m \in S : n <= m
  BY ONLY <1>2, <1>3
<1> QED
  BY <1>4

\* The recursion in LenFrom() has a solution, which gives numbers.
LEMMA LenFromNat ==
  ASSUME NEW s \in Seq(Nat), NEW k \in 1..Len(s)
  PROVE  LenFrom(s, k) \in Nat
<1> PICK l : l = Len(s)
  OBVIOUS
<1> DEFINE Solves(g, first) == \A j \in first..l : g[j] = IF j = l THEN s[j] ELSE s[j] + 1 + g[j + 1]
           Solved(first) == \E g \in [first..l -> Nat] : Solves(g, first)
           F(g) == [j \in k..Len(s) |-> IF j = Len(s) THEN s[j] ELSE s[j] + 1 + g[j + 1]]
           h == CHOOSE g : g = F(g)
<1>1. l \in Nat /\ k \in 1..l /\ \A j \in 1..l : s[j] \in Nat
  OBVIOUS
<1>2. LenFrom(s, k) = h[k]
  BY DEF LenFrom
<1>3. Solved(k)
  <2> DEFINE Bad == {n \in 0..(l - k) : ~Solved(l - n)}
  <2>1. Bad = {}
    <3> SUFFICES ASSUME Bad # {} PROVE FALSE
      OBVIOUS
    <3>1. Bad \in SUBSET Nat
      BY <1>1
    <3>2. PICK n \in Bad : \A m \in Bad : n <= m
      <4> HIDE DEF Bad
      <4> QED
        BY <3>1, Least
    <3>3. n \in 0..(l - k) /\ n \in Nat
      BY <1>1
    <3>4. CASE n = 0
      <4> PICK g : g = [j \in l..l |-> s[l]]
        OBVIOUS
      <4>1. l - n = l /\ l \in 1..l
        BY ONLY <1>1, <3>4
      <4>2. \A j \in l..l : j = l
        BY ONLY <1>1
      <4>3. g \in [l..l -> Nat] /\ Solves(g, l)
        BY <1>1, <4>1, <4>2
      <4>4. Solved(l)
        BY <4>3
      <4> HIDE DEF Solved
      <4> QED
        BY <3>2, <4>1, <4>4
    <3>5. CASE n > 0
      <4> PICK d : d = l - n
        OBVIOUS
      <4>1. n - 1 \in 0..(l - k) /\ l - (n - 1) = d + 1 /\ d \in 1..l /\ d < l
        BY ONLY <1>1, <3>3, <3>5, d = l - n
      <4>2. n - 1 \notin Bad
        BY ONLY <3>2, <3>3, <4>1
      <4>3. Solved(d + 1)
        <5> HIDE DEF Solved
        <5> QED
          BY <4>1, <4>2
      <4>4. PICK g \in [(d + 1)..l -> Nat] : Solves(g, d + 1)
        BY <4>3
      <4> PICK e : e = [j \in d..l |-> IF j = d THEN s[d] + 1 + g[d + 1] ELSE g[j]]
        OBVIOUS
      <4>5. d + 1 \in (d + 1)..l /\ \A j \in d..l : j = d \/ j \in (d + 1)..l
        BY ONLY <1>1, <4>1
      <4>6. e \in [d..l -> Nat]
        <5>1. s[d] \in Nat /\ g[d + 1] \in Nat /\ \A j \in (d + 1)..l : g[j] \in Nat
          BY <1>1, <4>1, <4>5
        <5>2. s[d] + 1 + g[d + 1] \in Nat
          BY ONLY SMTT(40), <5>1
        <5> QED
          BY <4>5, <5>1, <5>2
      <4>7. ASSUME NEW j \in d..l PROVE e[j] = IF j = l THEN s[j] ELSE s[j] + 1 + e[j + 1]
        <5>1. CASE j = d
          <6>1. d + 1 \in d..l /\ d + 1 # d /\ j # l
            BY ONLY <1>1, <4>1, <5>1
          <6> QED
            BY <5>1, <6>1
        <5>2. CASE j \in (d + 1)..l
          <6>1. j # d /\ (j # l => j + 1 \in d..l /\ j + 1 # d)
            BY ONLY <1>1, <4>1, <5>2
          <6>2. e[j] = g[j] /\ (j # l => e[j + 1] = g[j + 1])
            BY <6>1
          <6> QED
            BY <4>4, <5>2, <6>2
        <5> QED
          BY <4>5, <5>1, <5>2
      <4>8. Solved(d)
        BY <4>6, <4>7
      <4> HIDE DEF Solved
      <4> QED
        BY <3>2, <4>8
    <3> QED
      BY ONLY <3>3, <3>4, <3>5
  <2>2. l - k \in 0..(l - k) /\ l - (l - k) = k
    BY ONLY <1>1
  <2> HIDE DEF Solved
  <2> QED
    BY <2>1, <2>2
<1>4. h = F(h)
  <2> PICK g \in [k..l -> Nat] : Solves(g, k)
    BY <1>3
  <2>1. g = F(g)
    OBVIOUS
  <2> HIDE DEF F
  <2> QED
    BY <2>1
<1> PICK r : r = h
  OBVIOUS
<1>5. Solves(r, k)
  BY <1>4
<1>6. r[k] \in Nat
  <2> DEFINE Bad == {n \in 0..(l - k) : r[l - n] \notin Nat}
  <2>1. Bad = {}
    <3> SUFFICES ASSUME Bad # {} PROVE FALSE
      OBVIOUS
    <3>1. Bad \in SUBSET Nat
      BY <1>1
    <3>2. PICK n \in Bad : \A m \in Bad : n <= m
      <4> HIDE DEF Bad
      <4> QED
        BY <3>1, Least
    <3>3. n \in 0..(l - k) /\ n \in Nat /\ l - n \in k..l /\ l - n \in 1..l
      BY <1>1
    <3>4. CASE n = 0
      <4>1. l - n = l
        BY ONLY <1>1, <3>4
      <4> QED
        BY <1>1, <1>5, <3>2, <3>3, <4>1
    <3>5. CASE n > 0
      <4>1. n - 1 \in 0..(l - k) /\ l - (n - 1) = (l - n) + 1 /\ l - n # l
        BY ONLY <1>1, <3>3, <3>5
      <4>2. n - 1 \notin Bad
        BY ONLY <3>2, <3>3, <4>1
      <4>3. r[(l - n) + 1] \in Nat
        BY <4>1, <4>2
      <4>4. r[l - n] = s[l - n] + 1 + r[(l - n) + 1] /\ s[l - n] \in Nat
        BY <1>1, <1>5, <3>3, <4>1
      <4>5. r[l - n] \in Nat
        BY ONLY <4>3, <4>4
      <4> QED
        BY <3>2, <4>5
    <3> QED
      BY ONLY <3>3, <3>4, <3>5
  <2>2. l - k \in 0..(l - k) /\ l - (l - k) = k
    BY ONLY <1>1
  <2> QED
    BY <2>1, <2>2
<1> QED
  BY <1>2, <1>6

\* AddStr() fills a column; a string that is not longer is not cut, and FillSpace() has
\* nothing to add.
LEMMA ColumnFilled ==
  ASSUME NEW len \in Nat, NEW max \in Nat, len <= max
  PROVE  AddStr(len, max) = max
<1> PICK c : c = IF len < max THEN max ELSE len
  OBVIOUS
<1>1. c = max /\ max - c = 0
  OBVIOUS
<1>2. 0 % SizeT = 0
  <2>1. SizeT \in Nat \ {0}
    BY LoggerAssumption
  <2> QED
    BY ONLY <2>1
<1>3. max + 0 = max
  OBVIOUS
<1> QED
  BY <1>1, <1>2, <1>3 DEF AddStr

LEMMA LineFilled ==
  ASSUME NEW src \in SrcFile, GetFileNameFromFullName(src) <= FILENAME_LEN
  PROVE  EditLine(src) < BASIC_LINE_LEN
<1> USE DEF DATE_LEN, ID_LEN, FILENAME_LEN, LINE_LEN, TYPE_LEN
<1>1. src \in Seq(Nat) /\ Len(src) > 0 /\ Len(src) \in Nat
  <2>1. src \in Seq(Nat) \ {<<>>}
    BY LoggerAssumption
  <2> QED
    BY ONLY <2>1
<1> PICK n : n = GetFileNameFromFullName(src)
  OBVIOUS
<1>2. n \in Nat
  <2>1. 1 \in 1..Len(src) /\ (Len(src) > 1 => 2 \in 1..Len(src))
    BY ONLY <1>1
  <2>2. CASE Len(src) > 1
    BY <1>1, <2>1, <2>2, LenFromNat DEF GetFileNameFromFullName
  <2>3. CASE ~(Len(src) > 1)
    BY <1>1, <2>1, <2>3, LenFromNat DEF GetFileNameFromFullName
  <2> QED
    BY <2>2, <2>3
<1>3. AddStr(24, 27) = 27 /\ AddStr(7, 8) = 8 /\ AddStr(5, 6) = 6 /\ AddStr(5, 7) = 7
  BY ColumnFilled
<1>4. AddStr(n, 29) = 29
  BY <1>2, ColumnFilled
<1>5. EditLine(src) = 77
  BY <1>3, <1>4 DEF EditLine
<1> QED
  BY <1>5 DEF BASIC_LINE_LEN

LEMMA EditedStep ==
  ASSUME LogTypes, Edited, LogNext
  PROVE  Edited'
<1> USE DEF LogTypes, Edited
<1>1. ASSUME NEW p \in Process, Start(p) \/ Open(p) \/ Header(p) PROVE Edited'
  <2>1. UNCHANGED <<pc, cur, width>>
    BY <1>1 DEF Start, Open, Header, callers
  <2> QED
    BY <2>1
<1>2. ASSUME NEW p \in Process, CloseLog(p) \/ Crash(p) PROVE Edited'
  <2>1. \A t \in Thread : \/ pc'[t] = "out"
                          \/ pc'[t] = pc[t] /\ cur'[t] = cur[t] /\ width'[t] = width[t]
    BY <1>2 DEF CloseLog, Crash, Gone
  <2> QED
    BY <2>1
<1>3. ASSUME NEW t \in Thread, NEW lvl \in Level, NEW src \in SrcFile, Write(t, lvl, src) PROVE Edited'
  <2>1. \A u \in Thread : /\ pc'[u] = IF u = t THEN "lock" ELSE pc[u]
                          /\ u # t => cur'[u] = cur[u]
    BY <1>3 DEF Write
  <2>2. cur'[t].src = src /\ width' = width
    BY <1>3 DEF Write
  <2> QED
    BY <2>1, <2>2
<1>4. ASSUME NEW t \in Thread, Lock(t) PROVE Edited'
  BY <1>4 DEF Lock
<1>5. ASSUME NEW t \in Thread, Unlock(t) PROVE Edited'
  BY <1>5 DEF Unlock
<1>6. ASSUME NEW t \in Thread,
             PutPiece(t, "head", "id") \/ PutPiece(t, "id", "msg") \/ PutPiece(t, "msg", "unlock")
      PROVE  Edited'
  BY <1>6 DEF PutPiece
<1> QED
  BY <1>1, <1>2, <1>3, <1>4, <1>5, <1>6 DEF LogNext

\* EditLine() stays within full_line, which has BASIC_LINE_LEN characters, if the name behind
\* the first '/' of __FILE__ is not longer than its column.
THEOREM LineFitsCorrect == LogSpec => []LineFits
<1>1. LogInit => Edited
  BY DEF LogInit, Edited
<1>2. LogInv /\ Edited /\ [LogNext]_logVars => Edited'
  <2>1. ASSUME Edited, UNCHANGED logVars PROVE Edited'
    BY <2>1 DEF logVars, callers, Edited
  <2> QED
    BY <2>1, EditedStep DEF LogInv
<1>3. Edited => LineFits
  BY LineFilled DEF Edited, LineFits
<1> QED
  BY <1>1, <1>2, <1>3, LogInductive, PTL DEF LogSpec

=============================================================================
