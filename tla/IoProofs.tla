------------------------------ MODULE IoProofs ------------------------------
(***************************************************************************)
(* What lies below the requests and replies, for every value of the        *)
(* constants: the handshake with the slaves (Handshake), the mapping the   *)
(* blocks are stored in (MmapStorage) and the byte streams of the socket   *)
(* pair (NbdStream).  Each part has an inductive invariant of its own.     *)
(***************************************************************************)
EXTENDS NbdStream, Handshake, MmapStorage, TLAPS

-----------------------------------------------------------------------------
(* The handshake.  runner is at the start of buff until the first datagram *)
(* has come, and a first datagram that left the constructor waiting was no *)
(* hello.                                                                  *)

Datagram == {"hello", "reply"}

ShakeTypes ==
  /\ i \in Slaves
  /\ sock \in [Slaves -> Seq(Datagram)]
  /\ first \in [Slaves -> Datagram \cup {"none"}]
  /\ runner \in {"start", "behind"}

FirstSeen ==
  /\ \A s \in Slaves : s > i => first[s] = "none"
  /\ stage = "bind" => first[i] = "none"
  /\ stage = "recv" => first[i] = IF runner = "start" THEN "none" ELSE "reply"

ShakeInv == ShakeTypes /\ FirstSeen

LEMMA InitShake == HandshakeInit => ShakeInv
<1>1. ASSUME HandshakeInit PROVE i \in Slaves
  BY <1>1, HandshakeAssumption DEF HandshakeInit, Slaves
<1>2. ASSUME HandshakeInit PROVE sock \in [Slaves -> Seq(Datagram)]
  BY <1>2 DEF HandshakeInit
<1> QED
  BY <1>1, <1>2 DEF HandshakeInit, ShakeInv, ShakeTypes, FirstSeen

\* A datagram of a slave waits in the socket, or is lost.
LEMMA SendShake ==
  ASSUME ShakeInv, NEW s \in Slaves, NEW m \in Datagram, Send(s, m), UNCHANGED ctor
  PROVE  ShakeInv'
<1>1. sock[s] \in Seq(Datagram)
  BY DEF ShakeInv, ShakeTypes
<1>2. Append(sock[s], m) \in Seq(Datagram)
  BY <1>1
<1>3. sock' \in [Slaves -> Seq(Datagram)]
  BY <1>2 DEF Send, ShakeInv, ShakeTypes
<1> QED
  BY <1>3 DEF ShakeInv, ShakeTypes, FirstSeen, ctor

LEMMA RecvShake == ASSUME ShakeInv, Recv PROVE ShakeInv'
<1> DEFINE m == Head(sock[i])
<1>1. m \in Datagram
  BY DEF ShakeInv, ShakeTypes, Recv
<1>2. sock' \in [Slaves -> Seq(Datagram)]
  <2>1. sock[i] \in Seq(Datagram) /\ sock[i] # <<>>
    BY DEF ShakeInv, ShakeTypes, Recv
  <2>2. Tail(sock[i]) \in Seq(Datagram)
    BY <2>1
  <2> QED
    BY <2>2 DEF ShakeInv, ShakeTypes, Recv
<1>3. \A s \in Slaves : first'[s] = IF s = i /\ first[s] = "none" THEN m ELSE first[s]
  BY DEF ShakeInv, ShakeTypes, Recv
<1>4. first' \in [Slaves -> Datagram \cup {"none"}]
  BY <1>1 DEF ShakeInv, ShakeTypes, Recv
<1>5. CASE runner = "start" /\ m = "hello"
  <2>1. i' \in Slaves /\ (stage' = "bind" => i' = i + 1) /\ i' \in {i, i + 1} /\ stage' \in {"fds", "bind"}
    BY <1>5, HandshakeAssumption DEF ShakeInv, ShakeTypes, Recv, Slaves
  <2>2. runner' = "behind"
    BY DEF Recv
  <2>3. \A s \in Slaves : s > i => first'[s] = "none"
    BY <1>3 DEF ShakeInv, ShakeTypes, FirstSeen, Slaves
  <2> QED
    BY <1>2, <1>4, <2>1, <2>2, <2>3 DEF ShakeInv, ShakeTypes, FirstSeen, Slaves
<1>6. CASE ~(runner = "start" /\ m = "hello")
  <2>1. UNCHANGED <<stage, i>> /\ runner' = "behind" /\ stage = "recv"
    BY <1>6 DEF Recv
  <2>2. first'[i] = "reply"
    BY <1>1, <1>3, <1>6 DEF ShakeInv, ShakeTypes, FirstSeen, Datagram, Recv
  <2> QED
    BY <1>2, <1>3, <1>4, <2>1, <2>2 DEF ShakeInv, ShakeTypes, FirstSeen, Slaves
<1> QED
  BY <1>5, <1>6

LEMMA NextShake == ASSUME ShakeInv, [HandshakeNext]_handshakeVars PROVE ShakeInv'
<1>1. CASE Bind
  BY <1>1 DEF Bind, ShakeInv, ShakeTypes, FirstSeen
<1>2. CASE BindFails
  BY <1>2 DEF BindFails, ShakeInv, ShakeTypes, FirstSeen
<1>3. CASE Recv
  BY <1>3, RecvShake
<1>4. CASE GetAllFds
  BY <1>4 DEF GetAllFds, ShakeInv, ShakeTypes, FirstSeen
<1>5. ASSUME NEW s \in Slaves, Boot(s) PROVE ShakeInv'
  BY <1>5, SendShake DEF Boot, Datagram
<1>6. ASSUME NEW s \in Slaves, LateReply(s) PROVE ShakeInv'
  BY <1>6, SendShake DEF LateReply, Datagram
<1>7. CASE UNCHANGED handshakeVars
  BY <1>7 DEF handshakeVars, ctor, ShakeInv, ShakeTypes, FirstSeen
<1> QED
  BY <1>1, <1>2, <1>3, <1>4, <1>5, <1>6, <1>7 DEF HandshakeNext, Master

\* A hello that the constructor did not recognise was preceded by another datagram, for any
\* number of slaves, starts, losses and late replies.
THEOREM MissedNeedsStrayCorrect == HandshakeSpec => []MissedNeedsStray
<1>1. ShakeInv => MissedNeedsStray
  BY DEF ShakeInv, ShakeTypes, FirstSeen, MissedNeedsStray
<1> QED
  BY <1>1, InitShake, NextShake, PTL DEF HandshakeSpec

-----------------------------------------------------------------------------
(* The mapping.  What a block holds comes from a write that ended or from  *)
(* one that is under way; whoever works on a block knows the values of all *)
(* writers it overlaps with, and a writer has left its own value, or one   *)
(* of theirs, in every word it has copied.                                 *)

WriteTask == [op : {"WRITE"}, block : Sector, value : Value]
ReadTask  == [op : {"READ"}, block : Sector]

StoreTypes ==
  /\ \A t \in Worker : task[t] \in {Idle} \cup WriteTask \cup ReadTask
  /\ DOMAIN task = Worker /\ DOMAIN left = Worker /\ DOMAIN m_buff = Worker /\ DOMAIN may = Worker
  /\ DOMAIN m_mmap = Sector /\ DOMAIN after = Sector
  /\ \A t \in Worker : left[t] \subseteq Word /\ DOMAIN m_buff[t] = Word
  /\ \A b \in Sector : DOMAIN m_mmap[b] = Word

Writing(t) == task[t].op = "WRITE"
Reading(t) == task[t].op = "READ"

\* A word comes from a write that ended last, overlapped with that one, or is under way.
Held == \A b \in Sector, w \in Word : m_mmap[b][w] \in after[b] \cup Writes(b)

\* Who works on a block has the values of the other writers on it.
Mixed ==
  \A t \in Worker, s \in Worker :
    /\ t # s /\ task[t] # Idle /\ task[s] # Idle /\ Writing(s) /\ task[t].block = task[s].block
    => task[s].value \in may[t]

\* A writer's buffer is its value, and so is what it copied, unless another writer came over it.
Copied ==
  \A t \in Worker : Writing(t) =>
    \A w \in Word : /\ m_buff[t][w] = task[t].value
                    /\ w \notin left[t] => m_mmap[task[t].block][w] \in {task[t].value} \cup may[t]

\* What a reader finds and has found.
Found ==
  \A t \in Worker : Reading(t) =>
    \A w \in Word : /\ m_mmap[task[t].block][w] \in may[t]
                    /\ w \notin left[t] => m_buff[t][w] \in may[t]

StoreInv == StoreTypes /\ Held /\ Mixed /\ Copied /\ Found

\* The three kinds of task are told apart by op.
LEMMA TaskKinds ==
  ASSUME StoreTypes, NEW t \in Worker
  PROVE  /\ task[t] = Idle <=> task[t].op = "IDLE"
         /\ Writing(t) <=> task[t] \in WriteTask
         /\ Reading(t) <=> task[t] \in ReadTask
         /\ task[t] # Idle <=> Writing(t) \/ Reading(t)
         /\ task[t] # Idle => task[t].block \in Sector
BY DEF StoreTypes, Writing, Reading, WriteTask, ReadTask, Idle

\* The writers' values in a block, one by one.
LEMMA WritesAre ==
  ASSUME StoreTypes, NEW b \in Sector, NEW v
  PROVE  v \in Writes(b) <=> \E s \in Worker : Writing(s) /\ task[s].block = b /\ task[s].value = v
<1>1. v \in Writes(b) <=> \E s \in Worker : task[s] # Idle /\ task[s].block = b /\ Writing(s) /\ v = task[s].value
  BY DEF Writes, Busy, Writing
<1> QED
  BY <1>1, TaskKinds

LEMMA InitStore == StorageInit => StoreInv
<1> SUFFICES ASSUME StorageInit PROVE StoreInv
  OBVIOUS
<1>1. StoreTypes
  BY DEF StorageInit, StoreTypes
<1>2. \A t \in Worker : task[t] = Idle /\ task[t].op = "IDLE"
  BY DEF StorageInit, Idle
<1>3. Held
  BY DEF StorageInit, Held
<1> QED
  BY <1>1, <1>2, <1>3 DEF StoreInv, Mixed, Copied, Found, Writing, Reading

LEMMA WriteStore ==
  ASSUME StoreInv, NEW t \in Worker, NEW b \in Sector, NEW v \in Value, Write(t, b, v)
  PROVE  StoreInv'
<1>1. \A s \in Worker : task'[s] = IF s = t THEN [op |-> "WRITE", block |-> b, value |-> v] ELSE task[s]
  BY DEF Write, StoreInv, StoreTypes
<1>2. \A s \in Worker : /\ left'[s] = IF s = t THEN Word ELSE left[s]
                        /\ m_buff'[s] = IF s = t THEN [w \in Word |-> v] ELSE m_buff[s]
  BY DEF Write, StoreInv, StoreTypes
<1>3. [op |-> "WRITE", block |-> b, value |-> v] \in WriteTask
  BY DEF WriteTask
<1>4. UNCHANGED <<m_mmap, after>> /\ task[t] = Idle
  BY DEF Write
<1>5. StoreTypes'
  BY <1>1, <1>2, <1>3, <1>4 DEF Write, StoreInv, StoreTypes
<1>6. StoreTypes
  BY DEF StoreInv
<1>7. ~Writing(t) /\ ~Reading(t)
  BY <1>4, <1>6, TaskKinds
<1>8. \A s \in Worker : s # t => (Writing(s)' <=> Writing(s)) /\ (Reading(s)' <=> Reading(s))
  BY <1>1 DEF Writing, Reading
<1>9. Writing(t)' /\ ~Reading(t)' /\ task'[t].block = b /\ task'[t].value = v
  BY <1>1 DEF Writing, Reading
<1>10. \A s \in Worker : Writing(s) \/ Reading(s) => s # t /\ may[s] \subseteq may'[s]
  BY <1>7 DEF Write
<1>11. Held'
  <2> SUFFICES ASSUME NEW c \in Sector, NEW w \in Word, m_mmap[c][w] \in Writes(c) PROVE m_mmap[c][w] \in Writes(c)'
    BY <1>4 DEF StoreInv, Held
  <2>1. PICK s \in Worker : Writing(s) /\ task[s].block = c /\ task[s].value = m_mmap[c][w]
    BY <1>6, WritesAre
  <2>2. s # t /\ task'[s] = task[s] /\ Writing(s)'
    BY <2>1, <1>1, <1>7, <1>8
  <2>3. task'[s] # Idle
    BY <2>1, <2>2, <1>6, TaskKinds
  <2> QED
    BY <2>1, <2>2, <2>3 DEF Writes, Busy, Writing
<1>12. Mixed'
  <2> SUFFICES ASSUME NEW u \in Worker, NEW s \in Worker, u # s, task'[u] # Idle, task'[s] # Idle, Writing(s)',
                      task'[u].block = task'[s].block
               PROVE  task'[s].value \in may'[u]
    BY DEF Mixed
  <2>1. CASE u = t
    <3>1. s # t /\ task'[s] = task[s] /\ Writing(s) /\ task[s].block = b
      BY <2>1, <1>1, <1>8, <1>9
    <3>2. task[s].value \in Writes(b)
      BY <3>1, <1>6, WritesAre
    <3> QED
      BY <2>1, <3>1, <3>2 DEF Write
  <2>2. CASE u # t /\ s = t
    <3>1. task[u] # Idle /\ task[u].block = b
      BY <2>2, <1>1, <1>9
    <3> QED
      BY <2>2, <3>1, <1>9 DEF Write, Busy
  <2>3. CASE u # t /\ s # t
    <3>1. task[s].value \in may[u] /\ (Writing(u) \/ Reading(u))
      BY <2>3, <1>1, <1>6, <1>8, TaskKinds DEF StoreInv, Mixed
    <3> QED
      BY <2>3, <3>1, <1>1, <1>10
  <2> QED
    BY <2>1, <2>2, <2>3
<1>13. Copied'
  BY <1>1, <1>2, <1>4, <1>8, <1>9, <1>10 DEF StoreInv, Copied
<1>14. Found'
  BY <1>1, <1>2, <1>4, <1>8, <1>9, <1>10 DEF StoreInv, Found
<1> QED
  BY <1>5, <1>11, <1>12, <1>13, <1>14 DEF StoreInv

LEMMA ReadStore ==
  ASSUME StoreInv, NEW t \in Worker, NEW b \in Sector, Read(t, b)
  PROVE  StoreInv'
<1>1. \A s \in Worker : /\ task'[s] = IF s = t THEN [op |-> "READ", block |-> b] ELSE task[s]
                        /\ left'[s] = IF s = t THEN Word ELSE left[s]
                        /\ may'[s] = IF s = t THEN after[b] \cup Writes(b) ELSE may[s]
  BY DEF Read, StoreInv, StoreTypes
<1>2. UNCHANGED <<m_mmap, m_buff, after>> /\ task[t] = Idle
  BY DEF Read
<1>3. [op |-> "READ", block |-> b] \in ReadTask
  BY DEF ReadTask
<1>4. StoreTypes'
  BY <1>1, <1>2, <1>3 DEF Read, StoreInv, StoreTypes
<1>5. StoreTypes
  BY DEF StoreInv
<1>6. ~Writing(t) /\ ~Reading(t)
  BY <1>2, <1>5, TaskKinds
<1>7. Reading(t)' /\ ~Writing(t)' /\ task'[t].block = b
  BY <1>1 DEF Writing, Reading
<1>8. \A s \in Worker : s # t => (Writing(s)' <=> Writing(s)) /\ (Reading(s)' <=> Reading(s))
  BY <1>1 DEF Writing, Reading
<1>9. Held'
  <2> SUFFICES ASSUME NEW c \in Sector, NEW w \in Word, m_mmap[c][w] \in Writes(c) PROVE m_mmap[c][w] \in Writes(c)'
    BY <1>2 DEF StoreInv, Held
  <2>1. PICK s \in Worker : Writing(s) /\ task[s].block = c /\ task[s].value = m_mmap[c][w]
    BY <1>5, WritesAre
  <2>2. s # t /\ task'[s] = task[s] /\ Writing(s)'
    BY <2>1, <1>1, <1>6, <1>8
  <2>3. task'[s] # Idle
    BY <2>1, <2>2, <1>5, TaskKinds
  <2> QED
    BY <2>1, <2>2, <2>3 DEF Writes, Busy, Writing
<1>10. Mixed'
  <2> SUFFICES ASSUME NEW u \in Worker, NEW s \in Worker, u # s, task'[u] # Idle, task'[s] # Idle, Writing(s)',
                      task'[u].block = task'[s].block
               PROVE  task'[s].value \in may'[u]
    BY DEF Mixed
  <2>1. s # t /\ task'[s] = task[s] /\ Writing(s)
    BY <1>1, <1>7, <1>8
  <2>2. CASE u = t
    <3>1. task[s].value \in Writes(b)
      BY <2>1, <2>2, <1>5, <1>7, WritesAre
    <3> QED
      BY <2>1, <2>2, <3>1, <1>1
  <2>3. CASE u # t
    BY <2>1, <2>3, <1>1 DEF StoreInv, Mixed
  <2> QED
    BY <2>2, <2>3
<1>11. Copied'
  BY <1>1, <1>2, <1>7, <1>8 DEF StoreInv, Copied
<1>12. Found'
  <2> SUFFICES ASSUME NEW s \in Worker, Reading(s)', NEW w \in Word
               PROVE  /\ m_mmap[task'[s].block][w] \in may'[s]
                      /\ w \notin left'[s] => m_buff[s][w] \in may'[s]
    BY <1>2 DEF Found
  <2>1. CASE s = t
    BY <2>1, <1>1, <1>7 DEF StoreInv, Held
  <2>2. CASE s # t
    BY <2>2, <1>1, <1>8 DEF StoreInv, Found
  <2> QED
    BY <2>1, <2>2
<1> QED
  BY <1>4, <1>9, <1>10, <1>11, <1>12 DEF StoreInv

\* A word is copied.  A writer's value is in the may of all others on the block.
LEMMA MemcpyStore ==
  ASSUME StoreInv, NEW t \in Worker, NEW w \in Word, Memcpy(t, w)
  PROVE  StoreInv'
<1> PICK b : b = task[t].block
  OBVIOUS
<1>1. StoreTypes /\ b \in Sector /\ (Writing(t) \/ Reading(t))
  BY TaskKinds DEF StoreInv, Memcpy
<1>2. UNCHANGED <<task, after, may>> /\ w \in left[t]
  BY DEF Memcpy
<1>3. \A s \in Worker : left'[s] = IF s = t THEN left[t] \ {w} ELSE left[s]
  BY <1>1 DEF Memcpy, StoreTypes
<1>4. /\ \A s \in Worker : (Writing(s)' <=> Writing(s)) /\ (Reading(s)' <=> Reading(s))
      /\ \A c \in Sector : Writes(c)' = Writes(c)
  BY <1>2 DEF Writing, Reading, Writes, Busy
<1>5. Mixed'
  BY <1>2, <1>4 DEF StoreInv, Mixed
<1>6. CASE Writing(t)
  <2>1. ~Reading(t) /\ UNCHANGED m_buff
    BY <1>6 DEF Memcpy, Writing, Reading
  <2>2. \A c \in Sector, x \in Word : m_mmap'[c][x] = IF c = b /\ x = w THEN m_buff[t][w] ELSE m_mmap[c][x]
    BY <1>1, <1>6 DEF Memcpy, Writing, StoreTypes
  <2>3. m_buff[t][w] = task[t].value
    BY <1>6 DEF StoreInv, Copied
  <2>4. StoreTypes'
    BY <1>1, <1>2, <1>3, <1>6, <2>1 DEF StoreTypes, Memcpy, Writing
  <2>5. \A s \in Worker : s # t /\ (Writing(s) \/ Reading(s)) /\ task[s].block = b => task[t].value \in may[s]
    BY <1>1, <1>6, TaskKinds DEF StoreInv, Mixed
  <2>6. task[t].value \in Writes(b)
    BY <1>1, <1>6, WritesAre
  <2>7. Held'
    BY <1>2, <1>4, <2>2, <2>3, <2>6 DEF StoreInv, Held
  <2>8. Copied'
    <3> SUFFICES ASSUME NEW s \in Worker, Writing(s), NEW x \in Word
                 PROVE  /\ m_buff[s][x] = task[s].value
                        /\ x \notin left'[s] => m_mmap'[task[s].block][x] \in {task[s].value} \cup may[s]
      BY <1>2, <1>4, <2>1 DEF Copied
    <3>1. task[s].block \in Sector
      BY <1>1, TaskKinds
    <3>2. m_buff[s][x] = task[s].value
      BY DEF StoreInv, Copied
    <3>3. CASE task[s].block = b /\ x = w
      BY <3>2, <3>3, <1>1, <2>2, <2>3, <2>5
    <3>4. CASE ~(task[s].block = b /\ x = w)
      <4>1. m_mmap'[task[s].block][x] = m_mmap[task[s].block][x]
        BY <3>1, <3>4, <2>2
      <4>2. x \notin left'[s] => x \notin left[s]
        BY <1>3, <3>4
      <4> QED
        BY <3>2, <4>1, <4>2 DEF StoreInv, Copied
    <3> QED
      BY <3>3, <3>4
  <2>9. Found'
    <3> SUFFICES ASSUME NEW s \in Worker, Reading(s), NEW x \in Word
                 PROVE  /\ m_mmap'[task[s].block][x] \in may[s]
                        /\ x \notin left'[s] => m_buff[s][x] \in may[s]
      BY <1>2, <1>4, <2>1 DEF Found
    <3>1. task[s].block \in Sector /\ s # t
      BY <1>1, <2>1, TaskKinds
    <3> QED
      BY <3>1, <1>3, <2>2, <2>3, <2>5 DEF StoreInv, Found
  <2> QED
    BY <1>5, <2>4, <2>7, <2>8, <2>9 DEF StoreInv
<1>7. CASE Reading(t)
  <2>1. ~Writing(t) /\ UNCHANGED m_mmap
    BY <1>7 DEF Memcpy, Writing, Reading
  <2>2. \A s \in Worker, x \in Word : m_buff'[s][x] = IF s = t /\ x = w THEN m_mmap[b][w] ELSE m_buff[s][x]
    BY <1>1, <1>7 DEF Memcpy, Reading, StoreTypes
  <2>3. StoreTypes'
    BY <1>1, <1>2, <1>3, <1>7, <2>1 DEF StoreTypes, Memcpy, Reading
  <2>4. Held'
    BY <1>2, <1>4, <2>1 DEF StoreInv, Held
  <2>5. Copied'
    BY <1>2, <1>3, <1>4, <2>1, <2>2 DEF StoreInv, Copied
  <2>6. Found'
    BY <1>2, <1>3, <1>4, <1>7, <2>1, <2>2 DEF StoreInv, Found
  <2> QED
    BY <1>5, <2>3, <2>4, <2>5, <2>6 DEF StoreInv
<1> QED
  BY <1>1, <1>6, <1>7

\* A request ends: what its block can hold then is its value, or that of a writer it met.
LEMMA ReturnStore ==
  ASSUME StoreInv, NEW t \in Worker, Finish(t)
  PROVE  StoreInv'
<1> PICK b : b = task[t].block
  OBVIOUS
<1>1. StoreTypes /\ b \in Sector /\ (Writing(t) \/ Reading(t)) /\ left[t] = {}
  BY TaskKinds DEF StoreInv, Finish
<1>2. UNCHANGED <<m_mmap, left>>
  BY DEF Finish
<1>3. \A s \in Worker : /\ task'[s] = IF s = t THEN Idle ELSE task[s]
                        /\ may'[s] = IF s = t THEN {} ELSE may[s]
                        /\ m_buff'[s] = IF s = t THEN [w \in Word |-> Zero] ELSE m_buff[s]
  BY <1>1 DEF Finish, StoreTypes
<1>4. StoreTypes'
  BY <1>1, <1>2, <1>3 DEF Finish, StoreTypes
<1>5. ~Writing(t)' /\ ~Reading(t)'
  BY <1>3 DEF Writing, Reading, Idle
<1>6. \A s \in Worker : s # t => (Writing(s)' <=> Writing(s)) /\ (Reading(s)' <=> Reading(s))
  BY <1>3 DEF Writing, Reading
<1>7. \A c \in Sector : after'[c] = IF Writing(t) /\ c = b THEN {task[t].value} \cup may[t] ELSE after[c]
  BY <1>1 DEF Finish, Writing, StoreTypes
<1>8. Held'
  <2> SUFFICES ASSUME NEW c \in Sector, NEW w \in Word PROVE m_mmap[c][w] \in after'[c] \cup Writes(c)'
    BY <1>2 DEF Held
  <2>1. CASE Writing(t) /\ c = b
    BY <2>1, <1>1, <1>7 DEF StoreInv, Copied
  <2>2. CASE ~(Writing(t) /\ c = b)
    <3>1. CASE m_mmap[c][w] \in after[c]
      BY <3>1, <2>2, <1>7
    <3>2. CASE m_mmap[c][w] \in Writes(c)
      <4>1. PICK s \in Worker : Writing(s) /\ task[s].block = c /\ task[s].value = m_mmap[c][w]
        BY <3>2, <1>1, WritesAre
      <4>2. s # t /\ task'[s] = task[s] /\ Writing(s)' /\ task[s] # Idle
        BY <4>1, <2>2, <1>1, <1>3, <1>6, TaskKinds
      <4> QED
        BY <4>1, <4>2 DEF Writes, Busy, Writing
    <3> QED
      BY <3>1, <3>2 DEF StoreInv, Held
  <2> QED
    BY <2>1, <2>2
<1>9. Mixed'
  <2> SUFFICES ASSUME NEW u \in Worker, NEW s \in Worker, u # s, task'[u] # Idle, task'[s] # Idle, Writing(s)',
                      task'[u].block = task'[s].block
               PROVE  task'[s].value \in may'[u]
    BY DEF Mixed
  <2>1. s # t /\ u # t
    BY <1>3
  <2> QED
    BY <2>1, <1>3, <1>6 DEF StoreInv, Mixed
<1>10. Copied'
  BY <1>2, <1>3, <1>5, <1>6 DEF StoreInv, Copied
<1>11. Found'
  BY <1>2, <1>3, <1>5, <1>6 DEF StoreInv, Found
<1> QED
  BY <1>4, <1>8, <1>9, <1>10, <1>11 DEF StoreInv

\* The slave is killed: what its writes left in a block may be found there from now on.
LEMMA CrashStore == ASSUME StoreInv, Crash PROVE StoreInv'
<1>1. \A s \in Worker : task'[s] = Idle /\ ~Writing(s)' /\ ~Reading(s)'
  BY DEF Crash, Writing, Reading, Idle
<1>2. StoreTypes'
  BY <1>1 DEF Crash, StoreInv, StoreTypes
<1>3. Held'
  BY DEF Crash, StoreInv, Held
<1>4. Mixed' /\ Copied' /\ Found'
  BY <1>1 DEF Mixed, Copied, Found
<1> QED
  BY <1>2, <1>3, <1>4 DEF StoreInv

LEMMA NextStore == ASSUME StoreInv, [StorageNext]_storageVars PROVE StoreInv'
<1>1. CASE UNCHANGED storageVars
  BY <1>1 DEF storageVars, store, StoreInv, StoreTypes, Held, Mixed, Copied, Found, Writing, Reading, Writes, Busy
<1>2. CASE StorageNext
  BY <1>2, ReadStore, WriteStore, MemcpyStore, ReturnStore, CrashStore DEF StorageNext
<1> QED
  BY <1>1, <1>2

\* Without any lock, and over crashes: a READ finds in a word what the last write that ended
\* before it left there, or a value of a write that overlaps, for any threads and blocks.
THEOREM ReadRegularCorrect == StorageSpec => []ReadRegular
<1>1. StoreInv => ReadRegular
  BY DEF StoreInv, Found, ReadRegular, Reading
<1> QED
  BY <1>1, InitStore, NextStore, PTL DEF StorageSpec

-----------------------------------------------------------------------------
(* The requests in the socket pair.  Behind every header, and behind what  *)
(* the main thread has read of a request, stands what is missing of its    *)
(* data, then a header; the last request may still be on its way.          *)

Ops == {"READ", "WRITE"}

\* The units of data that come with request n.
Need(n) == IF sent[n] = "WRITE" THEN DataLen ELSE 0

ReqTypes ==
  /\ sent \in Seq(Ops)
  /\ unsent \in 0..DataLen
  /\ toDriver \in Seq(Nat \X Nat)
  /\ main \in [at : Step, n : Nat, count : 0..DataLen, buff : Seq(Nat \X Nat)]

\* Behind the first p of the l units in d stand c units of request n, then a header.  If
\* they are the last ones, they are of request m, the last, of which u units are unsent.
PieceOf(d, l, u, m, p, n, c) ==
  /\ \A j \in 1..c : p + j <= l => d[p + j] = <<n, DataLen - c + j>>
  /\ p + c < l => d[p + c + 1][2] = 0
  /\ p + c = l => u = 0
  /\ p + c > l => n = m /\ u = p + c - l

Piece(p, n, c) == PieceOf(toDriver, Len(toDriver), unsent, Len(sent), p, n, c)

Stream ==
  /\ Piece(0, main.n, main.count)
  /\ \A p \in 1..Len(toDriver) :
       toDriver[p][2] = 0 => toDriver[p][1] \in 1..Len(sent) /\ Piece(p, toDriver[p][1], Need(toDriver[p][1]))

\* What the main thread does and has.
MainReads ==
  /\ main.at \in {"poll", "header", "add"} => main.count = 0
  /\ main.at = "header" => toDriver # <<>> \/ down
  /\ main.at = "bad_magic" => down
  /\ main.at \in {"readall", "add"} =>
       main.n \in 1..Len(sent) /\ main.count <= Need(main.n) /\ main.buff = Data(main.n, Need(main.n) - main.count)
  /\ main.at = "readall" => sent[main.n] = "WRITE"

Taken == \A r \in todo : r.n \in 1..Len(sent) /\ r.buff = Data(r.n, Need(r.n))

RequestInv == ReqTypes /\ Stream /\ MainReads /\ Taken

-----------------------------------------------------------------------------
(* The replies in the socket pair.  m_mutex is held by the thread whose    *)
(* reply is the last one, from before its header until all of it is there. *)

Sent2Kernel == replies \o toKernel

\* Of the requests sn, unit p is the end of a reply.
EndsReply(sn, p) == p[2] = DataLen \/ sn[p[1]] = "WRITE"

\* The first l units of s are whole replies to the first m of the requests sn, one behind
\* the other, but for the last.
FramedOf(sn, m, s, l) ==
  /\ \A k \in 1..l : s[k][1] \in 1..m
  /\ l > 0 => s[1][2] = 0
  /\ \A k \in 1..l : k < l =>
       IF s[k + 1][2] = 0 THEN EndsReply(sn, s[k]) ELSE s[k] = <<s[k + 1][1], s[k + 1][2] - 1>>

Framed == FramedOf(sent, Len(sent), Sent2Kernel, Len(Sent2Kernel))

\* The last reply is whole, or its sender is in WriteAll() of the data.
LastReply ==
  LET l == Sent2Kernel[Len(Sent2Kernel)]
  IN  IF \E t \in Thread : pool[t].at = "data"
        THEN \A t \in Thread : pool[t].at = "data" =>
               Len(Sent2Kernel) > 0 /\ l = <<pool[t].n, DataLen - pool[t].count>>
        ELSE Len(Sent2Kernel) > 0 => EndsReply(sent, l)

Senders ==
  /\ mutex \in Thread \cup {NoThread}
  /\ pool \in [Thread -> [at : {"idle", "header", "data"}, n : Nat, count : 0..DataLen]]
  /\ \A t \in Thread :
       /\ pool[t].at # "idle" =>
            mutex = t /\ pool[t].n \in 1..Len(sent) /\ pool[t].count \in 1..DataLen
       /\ pool[t].at = "header" => pool[t].count = DataLen
       /\ pool[t].at = "data" => sent[pool[t].n] = "READ"

ReplyTypes ==
  /\ sent \in Seq(Ops)
  /\ replies \in Seq(Nat \X Nat) /\ toKernel \in Seq(Nat \X Nat)

ReplyInv == ReplyTypes /\ Framed /\ LastReply /\ Senders

-----------------------------------------------------------------------------
(* Sequences, unit by unit.                                                *)

LEMMA AppendUnits ==
  ASSUME NEW S, NEW s \in Seq(S), NEW x \in S
  PROVE  /\ Append(s, x) \in Seq(S) /\ Len(Append(s, x)) = Len(s) + 1
         /\ \A k \in 1..Len(s) : Append(s, x)[k] = s[k]
         /\ Append(s, x)[Len(s) + 1] = x
OBVIOUS

LEMMA SubUnits ==
  ASSUME NEW S, NEW s \in Seq(S), NEW k \in 0..Len(s), NEW l \in k..Len(s)
  PROVE  /\ SubSeq(s, k + 1, l) \in Seq(S) /\ Len(SubSeq(s, k + 1, l)) = l - k
         /\ \A j \in 1..(l - k) : SubSeq(s, k + 1, l)[j] = s[k + j]
OBVIOUS

LEMMA TailUnits ==
  ASSUME NEW S, NEW s \in Seq(S), s # <<>>
  PROVE  /\ Tail(s) \in Seq(S) /\ Len(Tail(s)) = Len(s) - 1 /\ Len(s) > 0
         /\ \A j \in 1..(Len(s) - 1) : Tail(s)[j] = s[j + 1]
         /\ Head(s) = s[1]
OBVIOUS

LEMMA CatUnits ==
  ASSUME NEW S, NEW s \in Seq(S), NEW r \in Seq(S)
  PROVE  /\ s \o r \in Seq(S) /\ Len(s \o r) = Len(s) + Len(r)
         /\ \A j \in 1..Len(s) : (s \o r)[j] = s[j]
         /\ \A j \in 1..Len(r) : (s \o r)[Len(s) + j] = r[j]
OBVIOUS

LEMMA DataUnits ==
  ASSUME NEW n \in Nat, NEW c \in Nat
  PROVE  /\ Data(n, c) \in Seq(Nat \X Nat) /\ Len(Data(n, c)) = c
         /\ \A j \in 1..c : Data(n, c)[j] = <<n, j>>
<1>1. \A j \in 1..c : <<n, j>> \in Nat \X Nat
  OBVIOUS
<1>2. Data(n, c) \in [1..c -> Nat \X Nat]
  BY <1>1 DEF Data
<1> QED
  BY <1>2 DEF Data

-----------------------------------------------------------------------------
(* The requests: the inductive step.                                       *)

LEMMA Needs ==
  ASSUME ReqTypes, NEW n
  PROVE  Need(n) \in 0..DataLen
BY StreamAssumption DEF Need

LEMMA InitRequest == StreamInit => RequestInv
<1> SUFFICES ASSUME StreamInit PROVE RequestInv
  OBVIOUS
<1>1. ReqTypes
  BY StreamAssumption DEF StreamInit, ReqTypes, Step
<1>2. Stream
  BY StreamAssumption DEF StreamInit, Stream, Piece, PieceOf
<1> QED
  BY <1>1, <1>2 DEF StreamInit, RequestInv, MainReads, Taken

\* A header behind a request that is sent in full.
LEMMA HeaderPiece ==
  ASSUME DataLen \in Nat, NEW d, NEW e, NEW l \in Nat, NEW m, NEW m2, NEW u2,
         \A k \in 1..l : e[k] = d[k], e[l + 1][2] = 0,
         NEW p \in Nat, NEW n, NEW c \in Nat, PieceOf(d, l, 0, m, p, n, c)
  PROVE  PieceOf(e, l + 1, u2, m2, p, n, c)
<1>1. p + c <= l
  BY DEF PieceOf
<1>2. \A j \in 1..c : e[p + j] = d[p + j]
  BY <1>1
<1>3. p + c < l => e[p + c + 1] = d[p + c + 1]
  OBVIOUS
<1> QED
  BY <1>1, <1>2, <1>3 DEF PieceOf

\* A unit of data of the last request.
LEMMA DataPiece ==
  ASSUME DataLen \in Nat, NEW d, NEW e, NEW l \in Nat, NEW m, NEW u \in Nat, u > 0,
         \A k \in 1..l : e[k] = d[k], e[l + 1] = <<m, DataLen - u + 1>>,
         NEW p \in 0..l, NEW n, NEW c \in Nat, PieceOf(d, l, u, m, p, n, c)
  PROVE  PieceOf(e, l + 1, u - 1, m, p, n, c)
<1>1. CASE p + c < l
  <2>1. \A j \in 1..c : e[p + j] = d[p + j]
    BY <1>1
  <2>2. e[p + c + 1] = d[p + c + 1]
    BY <1>1
  <2> QED
    BY <1>1, <2>1, <2>2 DEF PieceOf
<1>2. CASE p + c > l
  <2>1. n = m /\ u = p + c - l
    BY <1>2 DEF PieceOf
  <2>2. ASSUME NEW j \in 1..c, p + j <= l + 1 PROVE e[p + j] = <<n, DataLen - c + j>>
    <3>1. CASE p + j <= l
      BY <3>1 DEF PieceOf
    <3>2. CASE p + j = l + 1
      <4>1. DataLen - u + 1 = DataLen - c + j
        BY <3>2, <2>1
      <4> QED
        BY <3>2, <4>1, <2>1
    <3> QED
      BY <3>1, <3>2, <2>2
  <2>3. p + c = l + 1 => u - 1 = 0
    BY <2>1
  <2>4. p + c > l + 1 => u - 1 = p + c - (l + 1)
    BY <2>1
  <2> QED
    BY <1>2, <2>1, <2>2, <2>3, <2>4 DEF PieceOf
<1> QED
  BY <1>1, <1>2 DEF PieceOf

\* The first k units are read.
LEMMA ReadPiece ==
  ASSUME DataLen \in Nat, NEW d, NEW e, NEW l \in Nat, NEW k \in 0..l, NEW m, NEW u,
         \A j \in 1..(l - k) : e[j] = d[k + j],
         NEW p \in Nat, NEW n, NEW c \in Nat, PieceOf(d, l, u, m, k + p, n, c)
  PROVE  PieceOf(e, l - k, u, m, p, n, c)
<1>1. ASSUME NEW j \in 1..c, p + j <= l - k PROVE e[p + j] = <<n, DataLen - c + j>>
  <2>1. e[p + j] = d[k + (p + j)] /\ k + (p + j) = (k + p) + j /\ (k + p) + j <= l
    BY <1>1
  <2> QED
    BY <2>1 DEF PieceOf
<1>2. ASSUME p + c < l - k PROVE e[p + c + 1][2] = 0
  <2>1. e[p + c + 1] = d[k + (p + c + 1)] /\ k + (p + c + 1) = (k + p) + c + 1 /\ (k + p) + c < l
    BY <1>2
  <2> QED
    BY <2>1 DEF PieceOf
<1>3. p + c = l - k => u = 0
  BY DEF PieceOf
<1>4. p + c > l - k => n = m /\ u = p + c - (l - k)
  BY DEF PieceOf
<1> QED
  BY <1>1, <1>2, <1>3, <1>4 DEF PieceOf

\* The first k units are read, of the c that are missing of request n.
LEMMA TakePiece ==
  ASSUME DataLen \in Nat, NEW d, NEW e, NEW l \in Nat, NEW k \in 0..l, NEW m, NEW u,
         \A j \in 1..(l - k) : e[j] = d[k + j],
         NEW n, NEW c \in Nat, k <= c, PieceOf(d, l, u, m, 0, n, c)
  PROVE  PieceOf(e, l - k, u, m, 0, n, c - k)
<1>1. ASSUME NEW j \in 1..(c - k), 0 + j <= l - k PROVE e[0 + j] = <<n, DataLen - (c - k) + j>>
  <2>1. e[0 + j] = d[k + j] /\ k + j \in 1..c /\ 0 + (k + j) <= l
    BY <1>1
  <2>2. d[0 + (k + j)] = <<n, DataLen - c + (k + j)>>
    BY <2>1 DEF PieceOf
  <2>3. 0 + (k + j) = k + j /\ DataLen - c + (k + j) = DataLen - (c - k) + j
    OBVIOUS
  <2> QED
    BY <2>1, <2>2, <2>3
<1>2. ASSUME 0 + (c - k) < l - k PROVE e[0 + (c - k) + 1][2] = 0
  <2>1. e[0 + (c - k) + 1] = d[0 + c + 1] /\ 0 + c < l
    <3>1. 0 + (c - k) + 1 \in 1..(l - k) /\ k + (0 + (c - k) + 1) = 0 + c + 1 /\ 0 + c < l
      BY <1>2
    <3> QED
      BY <3>1
  <2> QED
    BY <2>1 DEF PieceOf
<1>3. 0 + (c - k) = l - k => u = 0
  BY DEF PieceOf
<1>4. 0 + (c - k) > l - k => n = m /\ u = 0 + (c - k) - (l - k)
  BY DEF PieceOf
<1> QED
  BY <1>1, <1>2, <1>3, <1>4 DEF PieceOf

\* The requests and their data are as before when the kernel sends a header.
LEMMA SentGrows ==
  ASSUME sent \in Seq(Ops), NEW op \in Ops, sent' = Append(sent, op)
  PROVE  /\ sent' \in Seq(Ops) /\ Len(sent') = Len(sent) + 1 /\ Len(sent) \in Nat
         /\ sent'[Len(sent) + 1] = op
         /\ \A n \in 1..Len(sent) : sent'[n] = sent[n] /\ Need(n)' = Need(n) /\ n \in 1..Len(sent')
<1>1. /\ sent' \in Seq(Ops) /\ Len(sent') = Len(sent) + 1 /\ Len(sent) \in Nat
      /\ sent'[Len(sent) + 1] = op
      /\ \A n \in 1..Len(sent) : sent'[n] = sent[n]
  BY AppendUnits
<1> QED
  BY <1>1 DEF Need

LEMMA KernelSendRequest ==
  ASSUME RequestInv, NEW op \in Ops, KernelSend(op)
  PROVE  RequestInv'
<1>1. ReqTypes /\ DataLen \in Nat \ {0} /\ Len(toDriver) \in Nat /\ unsent = 0
  BY StreamAssumption DEF RequestInv, ReqTypes, KernelSend
<1>2. /\ sent' \in Seq(Ops) /\ Len(sent') = Len(sent) + 1 /\ Len(sent) \in Nat
      /\ sent'[Len(sent) + 1] = op
      /\ \A n \in 1..Len(sent) : sent'[n] = sent[n] /\ Need(n)' = Need(n) /\ n \in 1..Len(sent')
  BY <1>1, SentGrows DEF KernelSend, ReqTypes
<1> PICK x : x = <<Len(sent) + 1, 0>>
  OBVIOUS
<1>3. x \in Nat \X Nat /\ x[1] = Len(sent) + 1 /\ x[2] = 0
  BY <1>2
<1> PICK e : e = toDriver'
  OBVIOUS
<1> PICK l : l = Len(toDriver)
  OBVIOUS
<1>4. e \in Seq(Nat \X Nat) /\ Len(e) = l + 1 /\ (\A k \in 1..l : e[k] = toDriver[k]) /\ e[l + 1] = x /\ l \in Nat
  BY <1>1, <1>3, AppendUnits DEF KernelSend, ReqTypes
<1>5. unsent' = (IF op = "WRITE" THEN DataLen ELSE 0) /\ UNCHANGED <<main, todo, down>>
  BY DEF KernelSend
<1>6. ReqTypes'
  BY <1>1, <1>2, <1>4, <1>5 DEF ReqTypes
<1>7. ASSUME NEW p \in 0..l, NEW n, NEW c \in 0..DataLen, Piece(p, n, c)
      PROVE  PieceOf(e, l + 1, unsent', Len(sent'), p, n, c)
  <2>1. PieceOf(toDriver, l, 0, Len(sent), p, n, c) /\ p \in Nat /\ c \in Nat
    BY <1>1, <1>7 DEF Piece
  <2> QED
    BY <2>1, <1>1, <1>3, <1>4, HeaderPiece
<1>8. Piece(0, main.n, main.count)'
  <2>1. Piece(0, main.n, main.count) /\ main.count \in 0..DataLen /\ 0 \in 0..l
    BY <1>4 DEF RequestInv, Stream, ReqTypes
  <2> QED
    BY <2>1, <1>4, <1>5, <1>7 DEF Piece
<1>9. ASSUME NEW p \in 1..(l + 1), e[p][2] = 0, NEW n, n = e[p][1]
      PROVE  n \in 1..Len(sent') /\ PieceOf(e, l + 1, unsent', Len(sent'), p, n, Need(n)')
  <2>1. CASE p \in 1..l
    <3>1. n \in 1..Len(sent) /\ Piece(p, n, Need(n))
      BY <2>1, <1>4, <1>9 DEF RequestInv, Stream
    <3> QED
      BY <2>1, <3>1, <1>1, <1>2, <1>7, Needs
  <2>2. CASE p = l + 1
    <3>1. n = Len(sent') /\ Need(n)' = unsent'
      BY <2>2, <1>2, <1>3, <1>4, <1>5, <1>9 DEF Need
    <3>2. unsent' \in Nat
      BY <1>1, <1>5
    <3>3. PieceOf(e, l + 1, unsent', Len(sent'), p, n, unsent')
      <4> PICK u : u = unsent'
        OBVIOUS
      <4>1. u \in Nat /\ p \in Nat /\ p = l + 1 /\ l \in Nat
        BY <2>2, <3>2, <1>4
      <4>2. PieceOf(e, l + 1, u, Len(sent'), p, n, u)
        BY <4>1, <3>1 DEF PieceOf
      <4> QED
        BY <4>2
    <3> QED
      BY <1>2, <3>1, <3>3
  <2> QED
    BY <2>1, <2>2, <1>4
<1>10. Stream'
  BY <1>4, <1>8, <1>9 DEF Stream, Piece
<1>11. MainReads'
  <2>1. main.at = "header" => toDriver' # <<>> \/ down
    BY <1>4
  <2> QED
    BY <2>1, <1>2, <1>5 DEF RequestInv, MainReads
<1>12. Taken'
  BY <1>2, <1>5 DEF RequestInv, Taken
<1> QED
  BY <1>6, <1>10, <1>11, <1>12 DEF RequestInv

LEMMA KernelSendDataRequest ==
  ASSUME RequestInv, KernelSendData
  PROVE  RequestInv'
<1>1. ReqTypes /\ DataLen \in Nat /\ unsent \in Nat /\ unsent > 0 /\ unsent <= DataLen /\ Len(sent) \in Nat
  BY StreamAssumption DEF RequestInv, ReqTypes, KernelSendData
<1> PICK x : x = <<Len(sent), DataLen - unsent + 1>>
  OBVIOUS
<1>2. x \in Nat \X Nat /\ x[1] = Len(sent) /\ x[2] # 0
  BY <1>1
<1> PICK e : e = toDriver'
  OBVIOUS
<1> PICK l : l = Len(toDriver)
  OBVIOUS
<1>3. e \in Seq(Nat \X Nat) /\ Len(e) = l + 1 /\ (\A k \in 1..l : e[k] = toDriver[k]) /\ e[l + 1] = x /\ l \in Nat
  BY <1>1, <1>2, AppendUnits DEF KernelSendData, ReqTypes
<1>4. unsent' = unsent - 1 /\ UNCHANGED <<sent, main, todo, down>>
  BY DEF KernelSendData
<1>5. ReqTypes'
  BY <1>1, <1>3, <1>4 DEF ReqTypes
<1>6. ASSUME NEW p \in 0..l, NEW n, NEW c \in 0..DataLen, Piece(p, n, c)
      PROVE  PieceOf(e, l + 1, unsent - 1, Len(sent), p, n, c)
  <2>1. PieceOf(toDriver, l, unsent, Len(sent), p, n, c) /\ c \in Nat
    BY <1>1, <1>6 DEF Piece
  <2> QED
    BY <2>1, <1>1, <1>3, DataPiece
<1>7. Piece(0, main.n, main.count)'
  <2>1. Piece(0, main.n, main.count) /\ main.count \in 0..DataLen /\ 0 \in 0..l
    BY <1>3 DEF RequestInv, Stream, ReqTypes
  <2> QED
    BY <2>1, <1>3, <1>4, <1>6 DEF Piece
<1>8. ASSUME NEW p \in 1..(l + 1), e[p][2] = 0, NEW n, n = e[p][1]
      PROVE  n \in 1..Len(sent) /\ PieceOf(e, l + 1, unsent - 1, Len(sent), p, n, Need(n))
  <2>1. p \in 1..l
    BY <1>2, <1>3, <1>8
  <2>2. n \in 1..Len(sent) /\ Piece(p, n, Need(n))
    BY <2>1, <1>3, <1>8 DEF RequestInv, Stream
  <2> QED
    BY <2>1, <2>2, <1>1, <1>6, Needs
<1>9. Stream'
  BY <1>3, <1>4, <1>7, <1>8 DEF Stream, Piece, Need
<1>10. MainReads'
  <2>1. main.at = "header" => toDriver' # <<>> \/ down
    BY <1>3
  <2> QED
    BY <2>1, <1>4 DEF RequestInv, MainReads, Need
<1>11. Taken'
  BY <1>4 DEF RequestInv, Taken, Need
<1> QED
  BY <1>5, <1>9, <1>10, <1>11 DEF RequestInv

\* The main thread has taken k units out of toDriver: the headers behind them.
LEMMA RestOfStream ==
  ASSUME RequestInv, NEW k \in 0..Len(toDriver), NEW e, Len(e) = Len(toDriver) - k,
         \A j \in 1..(Len(toDriver) - k) : e[j] = toDriver[k + j]
  PROVE  \A p \in 1..Len(e) : e[p][2] = 0 =>
           e[p][1] \in 1..Len(sent) /\ PieceOf(e, Len(e), unsent, Len(sent), p, e[p][1], Need(e[p][1]))
<1> PICK l : l = Len(toDriver)
  OBVIOUS
<1>1. l \in Nat /\ k \in 0..l /\ DataLen \in Nat /\ ReqTypes /\ Len(e) = l - k
  BY StreamAssumption DEF RequestInv, ReqTypes
<1> SUFFICES ASSUME NEW p \in 1..(l - k), e[p][2] = 0, NEW n, n = e[p][1]
             PROVE  n \in 1..Len(sent) /\ PieceOf(e, l - k, unsent, Len(sent), p, n, Need(n))
  BY <1>1
<1>2. k + p \in 1..l /\ e[p] = toDriver[k + p] /\ p \in Nat
  BY <1>1
<1>3. n \in 1..Len(sent) /\ PieceOf(toDriver, l, unsent, Len(sent), k + p, n, Need(n))
  BY <1>2 DEF RequestInv, Stream, Piece
<1>4. Need(n) \in Nat
  BY <1>1, Needs
<1> QED
  BY <1>1, <1>2, <1>3, <1>4, ReadPiece

LEMMA ReadHeaderRequest ==
  ASSUME RequestInv, ReadHeader
  PROVE  RequestInv'
<1> PICK u : u = Head(toDriver)
  OBVIOUS
<1> PICK e : e = toDriver'
  OBVIOUS
<1> PICK l : l = Len(toDriver)
  OBVIOUS
<1>1. ReqTypes /\ DataLen \in Nat /\ main.at = "header" /\ main.count = 0 /\ UNCHANGED <<sent, unsent, down, todo>>
  BY StreamAssumption DEF RequestInv, MainReads, ReadHeader, kernel
<1>2. l \in Nat /\ l > 0 /\ e \in Seq(Nat \X Nat) /\ Len(e) = l - 1 /\ (\A j \in 1..(l - 1) : e[j] = toDriver[1 + j])
      /\ u = toDriver[1]
  <2>1. toDriver \in Seq(Nat \X Nat) /\ toDriver # <<>> /\ e = Tail(toDriver)
    BY <1>1 DEF ReadHeader, ReqTypes
  <2>2. \A j \in 1..(l - 1) : e[j] = toDriver[j + 1] /\ j + 1 = 1 + j
    BY <2>1, TailUnits
  <2>3. e \in Seq(Nat \X Nat) /\ Len(e) = l - 1 /\ l > 0 /\ u = toDriver[1]
    BY <2>1, TailUnits
  <2> QED
    BY <2>1, <2>2, <2>3
<1>3. u[2] = 0
  BY <1>1, <1>2 DEF RequestInv, Stream, Piece, PieceOf
<1> PICK n : n = u[1]
  OBVIOUS
<1>4. n \in 1..Len(sent) /\ PieceOf(toDriver, l, unsent, Len(sent), 1, n, Need(n))
  BY <1>2, <1>3 DEF RequestInv, Stream, Piece
<1>5. main' = [at |-> IF sent[n] = "WRITE" THEN "readall" ELSE "add", n |-> n, count |-> Need(n), buff |-> <<>>]
  BY <1>3 DEF ReadHeader, Need
<1>6. Need(n) \in 0..DataLen /\ Len(sent) \in Nat
  BY <1>1, Needs DEF ReqTypes
<1>7. ReqTypes'
  BY <1>1, <1>2, <1>4, <1>5, <1>6 DEF ReqTypes, Step
<1>8. PieceOf(e, l - 1, unsent, Len(sent), 0, n, Need(n))
  <2>1. 1 + 0 = 1 /\ Need(n) \in Nat /\ 1 \in 0..l /\ 0 \in Nat /\ DataLen \in Nat /\ l \in Nat
    BY <1>1, <1>2, <1>6
  <2>2. PieceOf(toDriver, l, unsent, Len(sent), 1 + 0, n, Need(n))
    BY <1>4, <2>1
  <2>3. \A j \in 1..(l - 1) : e[j] = toDriver[1 + j]
    BY <1>2
  <2> QED
    BY ONLY <2>1, <2>2, <2>3, ReadPiece
<1>9. Stream'
  <2>1. \A p \in 1..Len(e) : e[p][2] = 0 =>
          e[p][1] \in 1..Len(sent) /\ PieceOf(e, Len(e), unsent, Len(sent), p, e[p][1], Need(e[p][1]))
    <3>1. 1 \in 0..Len(toDriver) /\ Len(e) = Len(toDriver) - 1
          /\ \A j \in 1..(Len(toDriver) - 1) : e[j] = toDriver[1 + j]
      BY <1>2
    <3> QED
      BY <3>1, RestOfStream
  <2>2. main'.n = n /\ main'.count = Need(n)
    BY <1>5
  <2>3. Len(e) = l - 1
    BY <1>2
  <2> QED
    BY <2>1, <2>2, <2>3, <1>1, <1>8 DEF Stream, Piece, Need
<1>10. MainReads'
  <2>1. Data(n, 0) = <<>>
    BY DEF Data
  <2>2. main'.at = (IF sent[n] = "WRITE" THEN "readall" ELSE "add") /\ main'.n = n /\ main'.count = Need(n)
        /\ main'.buff = <<>>
    BY <1>5
  <2>3. Need(n) - Need(n) = 0 /\ Need(n)' = Need(n)
    BY <1>1, <1>6 DEF Need
  <2> QED
    BY <2>1, <2>2, <2>3, <1>1, <1>4, <1>6 DEF MainReads, Need
<1>11. Taken'
  BY <1>1 DEF RequestInv, Taken, Need
<1> QED
  BY <1>7, <1>9, <1>10, <1>11 DEF RequestInv

LEMMA SameUnits ==
  ASSUME NEW S, NEW s \in Seq(S), NEW r \in Seq(S), Len(s) = Len(r), \A j \in 1..Len(s) : s[j] = r[j]
  PROVE  s = r
OBVIOUS

\* What ReadAll() has read of a request, and the k units it reads next, are its first units.
LEMMA DataGrows ==
  ASSUME NEW n \in Nat, NEW c \in Nat, NEW k \in Nat, NEW s \in Seq(Nat \X Nat), Len(s) = k,
         \A j \in 1..k : s[j] = <<n, c + j>>
  PROVE  Data(n, c) \o s = Data(n, c + k)
<1> PICK a : a = Data(n, c)
  OBVIOUS
<1> PICK b : b = Data(n, c + k)
  OBVIOUS
<1>1. a \in Seq(Nat \X Nat) /\ Len(a) = c /\ \A j \in 1..c : a[j] = <<n, j>>
  BY DataUnits
<1>2. c + k \in Nat
  OBVIOUS
<1>3. b \in Seq(Nat \X Nat) /\ Len(b) = c + k /\ \A j \in 1..(c + k) : b[j] = <<n, j>>
  BY <1>2, DataUnits
<1> PICK t : t = a \o s
  OBVIOUS
<1>4. t \in Seq(Nat \X Nat) /\ Len(t) = c + k
  BY <1>1, CatUnits
<1>5. \A j \in 1..c : t[j] = a[j]
  BY <1>1, CatUnits
<1>6. \A j \in 1..k : t[c + j] = s[j]
  BY SMTT(40), <1>1, CatUnits
<1>7. ASSUME NEW j \in 1..(c + k) PROVE t[j] = b[j]
  <2>1. j \in 1..c \/ j - c \in 1..k
    OBVIOUS
  <2>2. CASE j \in 1..c
    BY <2>2, <1>1, <1>3, <1>5
  <2>3. CASE j - c \in 1..k
    <3>1. c + (j - c) = j
      OBVIOUS
    <3>2. t[c + (j - c)] = s[j - c] /\ s[j - c] = <<n, c + (j - c)>>
      BY <2>3, <1>6
    <3> QED
      BY <3>1, <3>2, <1>3
  <2> QED
    BY <2>1, <2>2, <2>3
<1> QED
  BY <1>3, <1>4, <1>7, SameUnits

LEMMA ReadAllRequest ==
  ASSUME RequestInv, NEW k \in 1..DataLen, ReadAll(k)
  PROVE  RequestInv'
<1> PICK e : e = toDriver'
  OBVIOUS
<1> PICK l : l = Len(toDriver)
  OBVIOUS
<1> PICK n : n = main.n
  OBVIOUS
<1> PICK c : c = main.count
  OBVIOUS
<1>1. /\ ReqTypes /\ DataLen \in Nat /\ main.at = "readall" /\ UNCHANGED <<sent, unsent, down, todo>>
      /\ n \in 1..Len(sent) /\ c \in Nat /\ c <= DataLen /\ Need(n) = DataLen /\ main.buff = Data(n, DataLen - c)
  BY StreamAssumption DEF RequestInv, ReqTypes, MainReads, ReadAll, kernel, Need
<1>2. l \in Nat /\ k \in 1..l /\ k <= c /\ toDriver \in Seq(Nat \X Nat)
  BY <1>1 DEF ReqTypes, ReadAll
<1>3. e \in Seq(Nat \X Nat) /\ Len(e) = l - k /\ \A j \in 1..(l - k) : e[j] = toDriver[k + j]
  <2>1. e = SubSeq(toDriver, k + 1, l) /\ k \in 0..l /\ l \in k..l
    BY <1>2 DEF ReadAll
  <2> QED
    BY <2>1, <1>2, SubUnits
<1>4. PieceOf(toDriver, l, unsent, Len(sent), 0, n, c)
  BY DEF RequestInv, Stream, Piece
<1> PICK s : s = SubSeq(toDriver, 1, k)
  OBVIOUS
<1>5. s \in Seq(Nat \X Nat) /\ Len(s) = k /\ \A j \in 1..k : s[j] = <<n, DataLen - c + j>>
  <2>1. 0 \in 0..l /\ k \in 0..l /\ 0 + 1 = 1 /\ k - 0 = k
    BY <1>2
  <2>2. s \in Seq(Nat \X Nat) /\ Len(s) = k /\ \A j \in 1..k : s[j] = toDriver[0 + j] /\ 0 + j = j
    BY <2>1, <1>2, SubUnits
  <2>3. \A j \in 1..k : j \in 1..c /\ 0 + j <= l
    BY SMTT(40), <1>1, <1>2
  <2> QED
    BY <2>2, <2>3, <1>4 DEF PieceOf
<1> PICK D : D = DataLen
  OBVIOUS
<1>6. n \in Nat /\ D - c \in Nat /\ D - (c - k) \in Nat /\ k \in 0..l /\ c - k \in 0..D /\ D - c + k = D - (c - k)
  <2>1. D \in Nat /\ c \in Nat /\ c <= D /\ k \in Nat /\ k <= c /\ l \in Nat /\ k <= l /\ n \in Nat
    BY <1>1, <1>2 DEF ReqTypes
  <2> QED
    BY ONLY <2>1
<1>7. Data(n, D - c) \o s = Data(n, D - (c - k))
  <2> PICK q : q = D - c
    OBVIOUS
  <2>1. q \in Nat /\ k \in Nat /\ n \in Nat /\ \A j \in 1..k : s[j] = <<n, q + j>>
    BY SMTT(40), <1>2, <1>5, <1>6
  <2>2. Data(n, q) \o s = Data(n, q + k)
    BY ONLY ZenonT(40), <2>1, <1>5, DataGrows
  <2> QED
    BY <2>2, <1>6
<1>8. main' = [main EXCEPT !.count = c - k, !.buff = Data(n, DataLen - (c - k))]
  BY <1>1, <1>7 DEF ReadAll
<1>9. Data(n, DataLen - (c - k)) \in Seq(Nat \X Nat)
  BY ONLY <1>6, D = DataLen, DataUnits
<1>10. /\ main'.at = "readall" /\ main'.n = n /\ main'.count = c - k /\ main'.buff = Data(n, DataLen - (c - k))
       /\ main' \in [at : Step, n : Nat, count : 0..DataLen, buff : Seq(Nat \X Nat)]
  BY <1>1, <1>6, <1>8, <1>9 DEF ReqTypes
<1>11. ReqTypes'
  BY <1>1, <1>3, <1>10 DEF ReqTypes
<1>12. PieceOf(e, l - k, unsent, Len(sent), 0, n, c - k)
  BY ONLY <1>1, <1>2, <1>3, <1>4, <1>6, TakePiece
<1>13. Stream'
  <2>1. \A p \in 1..Len(e) : e[p][2] = 0 =>
          e[p][1] \in 1..Len(sent) /\ PieceOf(e, Len(e), unsent, Len(sent), p, e[p][1], Need(e[p][1]))
    <3>1. k \in 0..Len(toDriver) /\ Len(e) = Len(toDriver) - k
          /\ \A j \in 1..(Len(toDriver) - k) : e[j] = toDriver[k + j]
      BY <1>3, <1>6
    <3> QED
      BY ONLY <3>1, RequestInv, RestOfStream
  <2> QED
    BY <2>1, <1>1, <1>3, <1>10, <1>12 DEF Stream, Piece, Need
<1>14. MainReads'
  BY SMTT(40), <1>1, <1>6, <1>10 DEF RequestInv, MainReads, Need
<1>15. Taken'
  BY <1>1 DEF RequestInv, Taken, Need
<1> QED
  BY <1>11, <1>13, <1>14, <1>15 DEF RequestInv

\* Steps that leave toDriver and the request the main thread reads alone.
LEMMA OtherRequest ==
  ASSUME RequestInv, UNCHANGED <<sent, unsent, toDriver>>, main'.n = main.n, main'.count = main.count,
         main' \in [at : Step, n : Nat, count : 0..DataLen, buff : Seq(Nat \X Nat)],
         MainReads', Taken'
  PROVE  RequestInv'
BY DEF RequestInv, ReqTypes, Stream, Piece, Need

\* The main thread goes on, with the request it has.
LEMMA MoveMain ==
  ASSUME ReqTypes, NEW x \in Step, main' = [main EXCEPT !.at = x]
  PROVE  /\ main'.at = x /\ main'.n = main.n /\ main'.count = main.count /\ main'.buff = main.buff
         /\ main' \in [at : Step, n : Nat, count : 0..DataLen, buff : Seq(Nat \X Nat)]
BY DEF ReqTypes

LEMMA MainRequest ==
  ASSUME RequestInv, WaitTimeOut \/ ReadHeaderEof \/ ReadAllDone
  PROVE  RequestInv'
<1>1. ReqTypes /\ UNCHANGED <<sent, unsent, toDriver, todo, down>>
  BY DEF RequestInv, WaitTimeOut, ReadHeaderEof, ReadAllDone, kernel
<1>2. PICK y \in {"header", "bad_magic", "add"} : main' = [main EXCEPT !.at = y]
  BY DEF WaitTimeOut, ReadHeaderEof, ReadAllDone
<1>3. y \in Step
  BY DEF Step, Ended
<1>4. /\ main'.at = y /\ main'.n = main.n /\ main'.count = main.count /\ main'.buff = main.buff
      /\ main' \in [at : Step, n : Nat, count : 0..DataLen, buff : Seq(Nat \X Nat)]
  BY <1>1, <1>2, <1>3, MoveMain
<1>5. Taken'
  BY <1>1 DEF RequestInv, Taken, Need
<1>6. MainReads'
  <2>1. CASE WaitTimeOut
    <3>1. y = "header" /\ main.at = "poll" /\ (toDriver # <<>> \/ down)
      BY <2>1, <1>1, <1>4 DEF WaitTimeOut, ReqTypes
    <3> QED
      BY <3>1, <1>1, <1>4 DEF RequestInv, MainReads
  <2>2. CASE ReadHeaderEof
    <3>1. y = "bad_magic" /\ main.at = "header" /\ toDriver = <<>>
      BY <2>2, <1>1, <1>4 DEF ReadHeaderEof, ReqTypes
    <3> QED
      BY <3>1, <1>1, <1>4 DEF RequestInv, MainReads
  <2>3. CASE ReadAllDone
    <3>1. y = "add" /\ main.at = "readall" /\ main.count = 0
      BY <2>3, <1>1, <1>4 DEF ReadAllDone, ReqTypes
    <3> QED
      BY <3>1, <1>1, <1>4 DEF RequestInv, MainReads, Need
  <2> QED
    BY <2>1, <2>2, <2>3
<1> QED
  BY <1>1, <1>4, <1>5, <1>6, OtherRequest

\* The process ends, or a signal does nothing.
LEMMA EndRequest ==
  ASSUME RequestInv, ExitLoop \/ \E t \in Thread : WriteAllThrows(t)
  PROVE  RequestInv'
<1>1. ReqTypes /\ UNCHANGED <<sent, unsent, toDriver, todo, down>>
  BY DEF RequestInv, ExitLoop, WriteAllThrows, kernel
<1>2. \/ main' = [main EXCEPT !.at = main.at]
      \/ \E y \in {"signalled", "exception"} : main' = [main EXCEPT !.at = y]
  BY DEF ExitLoop, WriteAllThrows
<1>3. Taken'
  BY <1>1 DEF RequestInv, Taken, Need
<1>4. CASE main' = [main EXCEPT !.at = main.at]
  <2>1. main' = main
    BY <1>1, <1>4 DEF ReqTypes
  <2>2. MainReads'
    BY <2>1, <1>1 DEF RequestInv, MainReads, Need
  <2> QED
    BY <2>1, <2>2, <1>1, <1>3, OtherRequest DEF ReqTypes
<1>5. ASSUME NEW y \in {"signalled", "exception"}, main' = [main EXCEPT !.at = y] PROVE RequestInv'
  <2>1. y \in Step
    BY <1>5 DEF Step, Ended
  <2>2. /\ main'.at = y /\ main'.n = main.n /\ main'.count = main.count
        /\ main' \in [at : Step, n : Nat, count : 0..DataLen, buff : Seq(Nat \X Nat)]
    BY <2>1, <1>1, <1>5, MoveMain
  <2>3. MainReads'
    BY <2>2, <1>5 DEF MainReads
  <2> QED
    BY <2>2, <2>3, <1>1, <1>3, OtherRequest
<1> QED
  BY <1>2, <1>4, <1>5

LEMMA AddTaskRequest == ASSUME RequestInv, AddTask PROVE RequestInv'
<1>1. ReqTypes /\ DataLen \in Nat /\ UNCHANGED <<sent, unsent, toDriver, down>> /\ main.at = "add"
  BY StreamAssumption DEF RequestInv, AddTask, kernel
<1>2. /\ main' \in [at : Step, n : Nat, count : 0..DataLen, buff : Seq(Nat \X Nat)]
      /\ main'.at = "poll" /\ main'.count = 0
  BY <1>1 DEF AddTask, Step
<1>3. main.count = 0 /\ main.n \in 1..Len(sent) /\ main.buff = Data(main.n, Need(main.n)) /\ Need(main.n) \in 0..DataLen
  <2>1. Need(main.n) \in 0..DataLen /\ Need(main.n) - 0 = Need(main.n)
    BY <1>1, Needs
  <2> QED
    BY <2>1, <1>1 DEF RequestInv, MainReads
<1>4. ReqTypes'
  BY <1>1, <1>2 DEF ReqTypes
<1>5. Stream'
  <2>1. PieceOf(toDriver, Len(toDriver), unsent, Len(sent), 0, main.n, 0)
    BY <1>3 DEF RequestInv, Stream, Piece
  <2> PICK l : l = Len(toDriver)
    OBVIOUS
  <2> PICK m : m = Len(sent)
    OBVIOUS
  <2>2. l \in Nat
    BY <1>1 DEF ReqTypes
  <2>3. PieceOf(toDriver, l, unsent, m, 0, main'.n, 0)
    BY <2>1, <2>2 DEF PieceOf
  <2> QED
    BY <2>3, <1>1, <1>2 DEF RequestInv, Stream, Piece, Need
<1>6. MainReads'
  BY <1>2 DEF MainReads
<1>7. Taken'
  BY <1>1, <1>3 DEF RequestInv, Taken, AddTask, Need
<1> QED
  BY <1>4, <1>5, <1>6, <1>7 DEF RequestInv

LEMMA NextRequest == ASSUME RequestInv, [StreamNext]_streamVars PROVE RequestInv'
<1>1. ASSUME UNCHANGED <<sent, unsent, main, toDriver>>, todo' \subseteq todo, down => down' PROVE RequestInv'
  <2>1. MainReads' /\ Taken'
    BY <1>1 DEF RequestInv, MainReads, Taken, Need
  <2> QED
    BY <2>1, <1>1, OtherRequest DEF RequestInv, ReqTypes
<1>2. CASE KernelRead \/ KernelShutdown \/ SendSignal \/ UNCHANGED streamVars
  BY <1>1, <1>2 DEF KernelRead, KernelShutdown, SendSignal, streamVars, kernel
<1>3. ASSUME NEW t \in Thread, \/ \E r \in todo : SendReply(t, r)
                               \/ WriteHeader(t) \/ \E k \in 1..DataLen : WriteAll(t, k)
      PROVE  RequestInv'
  BY <1>1, <1>3 DEF SendReply, WriteHeader, WriteAll, kernel
<1>4. CASE MainThread
  BY <1>4, MainRequest, ReadHeaderRequest, ReadAllRequest, AddTaskRequest DEF MainThread
<1>5. CASE ExitLoop \/ \E t \in Thread : WriteAllThrows(t)
  BY <1>5, EndRequest
<1>6. CASE KernelSendData
  BY <1>6, KernelSendDataRequest
<1>7. CASE \E op \in {"READ", "WRITE"} : KernelSend(op)
  BY <1>7, KernelSendRequest DEF Ops
<1> QED
  BY <1>2, <1>3, <1>4, <1>5, <1>6, <1>7 DEF StreamNext, Kernel, PoolThread

\* However the reads cut the stream: a request that is taken up has the data the kernel sent
\* with it, and no header is looked for inside data, for any sizes of request and socket.
THEOREM RequestsIntactCorrect == StreamSpec => []RequestsIntact
<1>1. RequestInv => RequestsIntact
  BY DEF RequestInv, MainReads, Taken, Need, RequestsIntact
<1> QED
  BY <1>1, InitRequest, NextRequest, PTL DEF StreamSpec

-----------------------------------------------------------------------------
(* The replies: the inductive step.                                        *)

\* A header behind a whole reply.
LEMMA FrameHeader ==
  ASSUME NEW sn, NEW m \in Nat, NEW s, NEW t, NEW l \in Nat, FramedOf(sn, m, s, l),
         \A k \in 1..l : t[k] = s[k], t[l + 1][1] \in 1..m, t[l + 1][2] = 0,
         l > 0 => EndsReply(sn, s[l])
  PROVE  FramedOf(sn, m, t, l + 1)
<1>1. \A k \in 1..(l + 1) : t[k][1] \in 1..m
  <2> SUFFICES ASSUME NEW k \in 1..(l + 1) PROVE t[k][1] \in 1..m
    OBVIOUS
  <2>1. k \in 1..l \/ k = l + 1
    OBVIOUS
  <2> QED
    BY <2>1 DEF FramedOf
<1>2. t[1][2] = 0
  <2>1. l = 0 \/ 1 \in 1..l
    OBVIOUS
  <2> QED
    BY <2>1 DEF FramedOf
<1>3. ASSUME NEW k \in 1..(l + 1), k < l + 1
      PROVE  IF t[k + 1][2] = 0 THEN EndsReply(sn, t[k]) ELSE t[k] = <<t[k + 1][1], t[k + 1][2] - 1>>
  <2>1. k \in 1..l /\ t[k] = s[k]
    BY <1>3
  <2>2. CASE k < l
    <3>1. k + 1 \in 1..l
      BY <2>2
    <3>2. t[k + 1] = s[k + 1]
      BY <3>1
    <3> QED
      BY <2>1, <2>2, <3>2 DEF FramedOf
  <2>3. CASE k = l
    BY <2>1, <2>3
  <2> QED
    BY <2>1, <2>2, <2>3
<1> QED
  BY <1>1, <1>2, <1>3 DEF FramedOf

\* Units of data behind the first d of their reply.
LEMMA FrameData ==
  ASSUME NEW sn, NEW m \in Nat, NEW s, NEW t, NEW l \in Nat, l > 0, FramedOf(sn, m, s, l),
         \A j \in 1..l : t[j] = s[j], NEW n, NEW d \in Nat, s[l] = <<n, d>>,
         NEW k \in Nat, \A j \in 1..k : t[l + j] = <<n, d + j>>
  PROVE  FramedOf(sn, m, t, l + k)
<1>1. n \in 1..m
  <2>1. s[l][1] \in 1..m
    BY DEF FramedOf
  <2> QED
    BY <2>1
<1>2. ASSUME NEW q \in l..(l + k) PROVE t[q] = <<n, d + (q - l)>>
  <2>1. CASE q = l
    <3>1. d + (q - l) = d
      BY <2>1
    <3> QED
      BY <2>1, <3>1
  <2>2. CASE q - l \in 1..k
    <3>1. l + (q - l) = q
      OBVIOUS
    <3>2. t[l + (q - l)] = <<n, d + (q - l)>>
      BY <2>2
    <3> QED
      BY <3>1, <3>2
  <2>3. q = l \/ q - l \in 1..k
    OBVIOUS
  <2> QED
    BY <2>1, <2>2, <2>3
<1>3. ASSUME NEW q \in 1..(l + k) PROVE t[q][1] \in 1..m
  <2>1. q \in 1..l \/ q \in l..(l + k)
    OBVIOUS
  <2>2. CASE q \in 1..l
    BY <2>2 DEF FramedOf
  <2>3. CASE q \in l..(l + k)
    <3>1. t[q] = <<n, d + (q - l)>>
      BY <2>3, <1>2
    <3> QED
      BY <3>1, <1>1
  <2> QED
    BY <2>1, <2>2, <2>3
<1>4. t[1][2] = 0
  <2>1. 1 \in 1..l
    OBVIOUS
  <2> QED
    BY <2>1 DEF FramedOf
<1>5. ASSUME NEW q \in 1..(l + k), q < l + k
      PROVE  IF t[q + 1][2] = 0 THEN EndsReply(sn, t[q]) ELSE t[q] = <<t[q + 1][1], t[q + 1][2] - 1>>
  <2>1. CASE q < l
    <3>1. q \in 1..l /\ q + 1 \in 1..l
      BY <2>1
    <3>2. t[q] = s[q] /\ t[q + 1] = s[q + 1]
      BY <3>1
    <3> QED
      BY <2>1, <3>1, <3>2 DEF FramedOf
  <2>2. CASE q >= l
    <3>1. q \in l..(l + k) /\ q + 1 \in l..(l + k)
      BY <2>2, <1>5
    <3>2. t[q] = <<n, d + (q - l)>> /\ t[q + 1] = <<n, d + (q + 1 - l)>>
      BY <3>1, <1>2
    <3>3. d + (q + 1 - l) # 0 /\ d + (q + 1 - l) - 1 = d + (q - l)
      BY <2>2
    <3>4. t[q + 1][1] = n /\ t[q + 1][2] = d + (q + 1 - l)
      BY <3>2
    <3> QED
      BY <3>2, <3>3, <3>4
  <2> QED
    BY <2>1, <2>2
<1> QED
  BY <1>3, <1>4, <1>5 DEF FramedOf

\* More requests are sent.
LEMMA FrameSent ==
  ASSUME NEW sn, NEW tn, NEW m \in Nat, NEW s, NEW l \in Nat,
         \A n \in 1..m : tn[n] = sn[n], FramedOf(sn, m, s, l)
  PROVE  FramedOf(tn, m + 1, s, l)
<1>1. \A k \in 1..l : s[k][1] \in 1..m /\ s[k][1] \in 1..(m + 1)
  BY DEF FramedOf
<1>2. \A k \in 1..l : EndsReply(sn, s[k]) => EndsReply(tn, s[k])
  BY <1>1 DEF EndsReply
<1> QED
  BY <1>1, <1>2 DEF FramedOf

\* What the kernel has read and what it has still to read.
LEMMA ReadKeeps ==
  ASSUME NEW S, NEW a \in Seq(S), NEW b \in Seq(S), b # <<>>
  PROVE  Append(a, Head(b)) \o Tail(b) = a \o b
OBVIOUS

LEMMA InitReply == StreamInit => ReplyInv
<1> SUFFICES ASSUME StreamInit PROVE ReplyInv
  OBVIOUS
<1>1. ReplyTypes /\ Sent2Kernel = <<>> /\ Len(Sent2Kernel) = 0
  BY DEF StreamInit, ReplyTypes, Sent2Kernel
<1>2. \A t \in Thread : pool[t] = NoWork /\ pool[t].at = "idle"
  BY DEF StreamInit, NoWork
<1>3. NoWork \in [at : {"idle", "header", "data"}, n : Nat, count : 0..DataLen]
  BY StreamAssumption DEF NoWork
<1>4. pool \in [Thread -> [at : {"idle", "header", "data"}, n : Nat, count : 0..DataLen]]
  BY <1>3 DEF StreamInit
<1>5. Framed
  <2> PICK l : l = Len(Sent2Kernel)
    OBVIOUS
  <2>1. FramedOf(sent, Len(sent), Sent2Kernel, 0)
    BY DEF FramedOf
  <2> QED
    BY <1>1, <2>1 DEF Framed
<1>6. LastReply
  BY <1>1, <1>2 DEF LastReply
<1>7. Senders
  BY <1>2, <1>4 DEF Senders, StreamInit
<1> QED
  BY <1>1, <1>5, <1>6, <1>7 DEF ReplyInv

\* One thread at most is in SendReply().
LEMMA OneSender ==
  ASSUME Senders
  PROVE  /\ mutex = NoThread => \A t \in Thread : pool[t].at = "idle"
         /\ \A t \in Thread, u \in Thread : pool[t].at # "idle" /\ u # t => pool[u].at = "idle"
BY StreamAssumption DEF Senders

LEMMA SendReplyStep ==
  ASSUME RequestInv, ReplyInv, NEW t \in Thread, NEW r \in todo, SendReply(t, r)
  PROVE  ReplyInv'
<1>1. UNCHANGED <<sent, replies, toKernel>>
  BY DEF SendReply, kernel
<1>2. mutex = NoThread /\ Senders /\ r.n \in 1..Len(sent) /\ DataLen \in Nat \ {0} /\ Len(sent) \in Nat
  BY StreamAssumption DEF SendReply, ReplyInv, ReplyTypes, RequestInv, Taken
<1>3. \A u \in Thread : pool[u].at = "idle"
  BY <1>2, OneSender
<1>4. [at |-> "header", n |-> r.n, count |-> DataLen] \in [at : {"idle", "header", "data"}, n : Nat, count : 0..DataLen]
  BY <1>2
<1>5. \A u \in Thread : pool'[u] = IF u = t THEN [at |-> "header", n |-> r.n, count |-> DataLen] ELSE pool[u]
  BY <1>2 DEF SendReply, Senders
<1>6. pool' \in [Thread -> [at : {"idle", "header", "data"}, n : Nat, count : 0..DataLen]]
  BY <1>2, <1>4 DEF SendReply, Senders
<1>7. \A u \in Thread : pool'[u].at = IF u = t THEN "header" ELSE "idle"
  BY <1>3, <1>5
<1>8. pool'[t].n = r.n /\ pool'[t].count = DataLen /\ mutex' = t
  BY <1>5 DEF SendReply
<1>9. Senders'
  BY <1>1, <1>2, <1>6, <1>7, <1>8 DEF Senders
<1>10. Sent2Kernel' = Sent2Kernel
  BY <1>1 DEF Sent2Kernel
<1>11. LastReply'
  BY <1>1, <1>3, <1>7, <1>10 DEF ReplyInv, LastReply
<1>12. ReplyTypes' /\ Framed'
  BY <1>1, <1>10 DEF ReplyInv, ReplyTypes, Framed
<1> QED
  BY <1>9, <1>11, <1>12 DEF ReplyInv

\* toKernel grows by k units: what the kernel has and will read, before and after.
LEMMA ToKernelGrows ==
  ASSUME ReplyTypes, UNCHANGED replies, NEW k \in Nat, NEW x \in Seq(Nat \X Nat), Len(x) = k,
         toKernel' = toKernel \o x \/ (k = 1 /\ toKernel' = Append(toKernel, x[1]))
  PROVE  /\ toKernel' \in Seq(Nat \X Nat) /\ Len(Sent2Kernel) \in Nat /\ Len(Sent2Kernel') = Len(Sent2Kernel) + k
         /\ \A j \in 1..Len(Sent2Kernel) : Sent2Kernel'[j] = Sent2Kernel[j]
         /\ \A j \in 1..k : Sent2Kernel'[Len(Sent2Kernel) + j] = x[j]
<1> PICK b : b = toKernel
  OBVIOUS
<1> PICK c : c = toKernel'
  OBVIOUS
<1> PICK a : a = replies
  OBVIOUS
<1>1. a \in Seq(Nat \X Nat) /\ b \in Seq(Nat \X Nat) /\ Len(b) \in Nat
  BY DEF ReplyTypes
<1>2. c \in Seq(Nat \X Nat) /\ Len(c) = Len(b) + k /\ (\A j \in 1..Len(b) : c[j] = b[j])
      /\ \A j \in 1..k : c[Len(b) + j] = x[j]
  <2>1. CASE c = b \o x
    <3>1. x \in Seq(Nat \X Nat) /\ Len(x) = k
      OBVIOUS
    <3>2. c \in Seq(Nat \X Nat) /\ Len(c) = Len(b) + Len(x)
      BY ONLY <2>1, <3>1, <1>1, CatUnits
    <3>3. (\A j \in 1..Len(b) : c[j] = b[j]) /\ \A j \in 1..Len(x) : c[Len(b) + j] = x[j]
      BY ONLY <2>1, <3>1, <1>1, CatUnits
    <3> QED
      BY ONLY <3>1, <3>2, <3>3
  <2>2. CASE k = 1 /\ c = Append(b, x[1])
    <3>1. x[1] \in Nat \X Nat
      BY SMTT(40), <2>2
    <3> QED
      BY <2>2, <3>1, <1>1, AppendUnits
  <2> QED
    BY <2>1, <2>2
<1> PICK s : s = a \o b
  OBVIOUS
<1> PICK t : t = a \o c
  OBVIOUS
<1> PICK la : la = Len(a)
  OBVIOUS
<1> PICK lb : lb = Len(b)
  OBVIOUS
<1>3. la \in Nat /\ lb \in Nat /\ Len(s) = la + lb
  BY <1>1, CatUnits
<1>4. a \in Seq(Nat \X Nat) /\ c \in Seq(Nat \X Nat) /\ t = a \o c
  BY ONLY <1>1, <1>2, t = a \o c
<1>5. (\A j \in 1..la : s[j] = a[j]) /\ \A j \in 1..lb : s[la + j] = b[j]
  BY <1>1, CatUnits
<1>6. /\ Len(t) = la + (lb + k)
      /\ \A j \in 1..la : t[j] = a[j]
      /\ \A j \in 1..(lb + k) : t[la + j] = c[j]
  <2>1. /\ Len(t) = Len(a) + Len(c)
        /\ \A j \in 1..Len(a) : t[j] = a[j]
        /\ \A j \in 1..Len(c) : t[Len(a) + j] = c[j]
    BY ONLY <1>4
  <2> QED
    BY ONLY <2>1, <1>2, la = Len(a), lb = Len(b)
<1>7. (\A j \in 1..lb : c[j] = b[j]) /\ \A j \in 1..k : c[lb + j] = x[j]
  BY <1>2
<1>8. ASSUME NEW j \in 1..(la + lb) PROVE t[j] = s[j]
  <2>1. j \in 1..la \/ (j - la \in 1..lb /\ j - la \in 1..(lb + k) /\ la + (j - la) = j)
    BY ONLY <1>3, <1>8
  <2>2. CASE j \in 1..la
    BY ONLY <2>2, <1>5, <1>6
  <2>3. CASE j - la \in 1..lb /\ j - la \in 1..(lb + k) /\ la + (j - la) = j
    <3>1. t[la + (j - la)] = c[j - la] /\ s[la + (j - la)] = b[j - la] /\ c[j - la] = b[j - la]
      BY ONLY <2>3, <1>5, <1>6, <1>7
    <3> QED
      BY ONLY <2>3, <3>1
  <2> QED
    BY <2>1, <2>2, <2>3
<1>9. ASSUME NEW j \in 1..k PROVE t[la + lb + j] = x[j]
  <2>1. lb + j \in 1..(lb + k) /\ la + lb + j = la + (lb + j)
    BY ONLY <1>3
  <2>2. t[la + (lb + j)] = c[lb + j]
    BY ONLY <2>1, <1>6
  <2> QED
    BY ONLY <2>1, <2>2, <1>7
<1>10. la + (lb + k) = (la + lb) + k /\ la + lb \in Nat
  BY ONLY <1>3
<1>11. s = Sent2Kernel /\ t = Sent2Kernel' /\ c = toKernel'
  BY DEF Sent2Kernel
<1> QED
  BY ONLY <1>2, <1>3, <1>6, <1>8, <1>9, <1>10, <1>11

LEMMA WriteHeaderStep ==
  ASSUME ReplyInv, NEW t \in Thread, WriteHeader(t)
  PROVE  ReplyInv'
<1> PICK n : n = pool[t].n
  OBVIOUS
<1> PICK s : s = Sent2Kernel
  OBVIOUS
<1> PICK e : e = Sent2Kernel'
  OBVIOUS
<1> PICK l : l = Len(Sent2Kernel)
  OBVIOUS
<1>1. UNCHANGED <<sent, replies>> /\ ReplyTypes /\ Senders /\ Len(sent) \in Nat /\ DataLen \in Nat \ {0}
  BY StreamAssumption DEF WriteHeader, kernel, ReplyInv, ReplyTypes
<1>2. pool[t].at = "header" /\ mutex = t /\ n \in 1..Len(sent) /\ n \in Nat /\ pool[t].count = DataLen
  BY <1>1 DEF WriteHeader, Senders
<1>3. \A u \in Thread : u # t => pool[u].at = "idle"
  BY <1>1, <1>2, OneSender
<1>4. /\ toKernel' \in Seq(Nat \X Nat) /\ l \in Nat /\ Len(e) = l + 1
      /\ \A j \in 1..l : e[j] = s[j]
      /\ e[l + 1] = <<n, 0>>
  <2> PICK x : x = <<<<n, 0>>>>
    OBVIOUS
  <2>1. x \in Seq(Nat \X Nat) /\ Len(x) = 1 /\ x[1] = <<n, 0>>
    BY <1>2
  <2>2. toKernel' = Append(toKernel, x[1])
    BY <2>1 DEF WriteHeader
  <2>3. UNCHANGED replies /\ 1 \in Nat /\ 1 \in 1..1
    BY <1>1
  <2> QED
    BY ONLY <2>1, <2>2, <2>3, <1>1, ToKernelGrows, e = Sent2Kernel', s = Sent2Kernel, l = Len(Sent2Kernel)
<1>5. l > 0 => EndsReply(sent, s[l])
  BY <1>2, <1>3 DEF ReplyInv, LastReply
<1>6. FramedOf(sent, Len(sent), s, l)
  BY DEF ReplyInv, Framed
<1>7. e[l + 1][1] \in 1..Len(sent) /\ e[l + 1][2] = 0
  BY <1>2, <1>4
<1>8. FramedOf(sent, Len(sent), e, l + 1)
  BY ONLY <1>1, <1>4, <1>5, <1>6, <1>7, FrameHeader
<1>9. Framed' /\ ReplyTypes'
  BY <1>1, <1>4, <1>8 DEF Framed, ReplyTypes
<1>10. CASE sent[n] = "READ" /\ pool' = [pool EXCEPT ![t].at = "data"] /\ UNCHANGED mutex
  <2>1. \A u \in Thread : /\ pool'[u].at = IF u = t THEN "data" ELSE pool[u].at
                          /\ pool'[u].n = pool[u].n /\ pool'[u].count = pool[u].count
    BY <1>1, <1>10 DEF Senders
  <2>2. pool' \in [Thread -> [at : {"idle", "header", "data"}, n : Nat, count : 0..DataLen]]
    BY <1>1, <1>10 DEF Senders
  <2>3. Senders'
    BY <1>1, <1>2, <1>3, <1>10, <2>1, <2>2 DEF Senders
  <2>4. LastReply'
    <3>1. e[l + 1] = <<pool'[t].n, DataLen - pool'[t].count>> /\ l + 1 > 0
      BY <1>1, <1>2, <1>4, <2>1
    <3>2. \A u \in Thread : pool'[u].at = "data" <=> u = t
      BY <1>3, <2>1
    <3> QED
      BY <1>4, <3>1, <3>2 DEF LastReply
  <2> QED
    BY <1>9, <2>3, <2>4 DEF ReplyInv
<1>11. CASE sent[n] = "WRITE" /\ pool' = [pool EXCEPT ![t] = NoWork] /\ mutex' = NoThread
  <2>1. \A u \in Thread : pool'[u] = IF u = t THEN NoWork ELSE pool[u]
    BY <1>1, <1>11 DEF Senders
  <2>2. \A u \in Thread : pool'[u].at = "idle"
    BY <1>3, <2>1 DEF NoWork
  <2>3. pool' \in [Thread -> [at : {"idle", "header", "data"}, n : Nat, count : 0..DataLen]]
    BY <1>1, <1>11 DEF Senders, NoWork
  <2>4. Senders'
    BY <1>11, <2>2, <2>3 DEF Senders
  <2>5. EndsReply(sent, e[l + 1])
    BY <1>4, <1>11 DEF EndsReply
  <2>6. LastReply'
    BY <1>1, <1>4, <2>2, <2>5 DEF LastReply
  <2> QED
    BY <1>9, <2>4, <2>6 DEF ReplyInv
<1> QED
  BY <1>10, <1>11 DEF WriteHeader

LEMMA WriteAllStep ==
  ASSUME ReplyInv, NEW t \in Thread, NEW k \in 1..DataLen, WriteAll(t, k)
  PROVE  ReplyInv'
<1> PICK D : D = DataLen
  OBVIOUS
<1> PICK n : n = pool[t].n
  OBVIOUS
<1> PICK c : c = pool[t].count
  OBVIOUS
<1> PICK d : d = DataLen - c
  OBVIOUS
<1> PICK s : s = Sent2Kernel
  OBVIOUS
<1> PICK e : e = Sent2Kernel'
  OBVIOUS
<1> PICK l : l = Len(Sent2Kernel)
  OBVIOUS
<1>1. UNCHANGED <<sent, replies>> /\ ReplyTypes /\ Senders /\ Len(sent) \in Nat /\ DataLen \in Nat \ {0}
  BY StreamAssumption DEF WriteAll, kernel, ReplyInv, ReplyTypes
<1>2. /\ pool[t].at = "data" /\ mutex = t /\ n \in 1..Len(sent) /\ n \in Nat /\ c \in 1..D /\ k \in 1..c
      /\ sent[n] = "READ" /\ D \in Nat \ {0} /\ k \in Nat /\ c \in Nat
  <2>1. pool[t].at = "data" /\ k <= c
    BY DEF WriteAll
  <2>2. mutex = t /\ n \in 1..Len(sent) /\ c \in 1..DataLen /\ sent[n] = "READ"
    BY <1>1, <2>1 DEF Senders
  <2>3. n \in Nat
    BY ONLY <1>1, <2>2
  <2>4. k \in 1..c /\ k \in Nat /\ c \in Nat
    BY ONLY <1>1, <2>1, <2>2
  <2> QED
    BY <1>1, <2>1, <2>2, <2>3, <2>4
<1>3. \A u \in Thread : u # t => pool[u].at = "idle"
  BY <1>1, <1>2, OneSender
<1>4. /\ d \in Nat /\ d + k \in Nat /\ d + k \in d..D /\ d + k - d = k /\ D - (c - k) = d + k /\ d \in 0..D
      /\ \A j \in 1..k : d + j \in 1..D
  BY ONLY <1>2, d = D - c
<1> PICK y : y = Data(n, DataLen)
  OBVIOUS
<1> PICK x : x = SubSeq(y, d + 1, d + k)
  OBVIOUS
<1>5. y \in Seq(Nat \X Nat) /\ Len(y) = D /\ \A j \in 1..D : y[j] = <<n, j>>
  BY ONLY <1>2, y = Data(n, D), DataUnits
<1>6. x \in Seq(Nat \X Nat) /\ Len(x) = k /\ \A j \in 1..k : x[j] = <<n, d + j>>
  <2> PICK m : m = d + k
    OBVIOUS
  <2>1. d \in 0..Len(y) /\ m \in d..Len(y) /\ x = SubSeq(y, d + 1, m) /\ m - d = k
    BY ONLY <1>4, <1>5, m = d + k, x = SubSeq(y, d + 1, d + k)
  <2>2. x \in Seq(Nat \X Nat) /\ Len(x) = m - d /\ \A j \in 1..(m - d) : x[j] = y[d + j]
    BY ONLY <1>5, <2>1, SubUnits
  <2> QED
    BY ONLY <1>4, <1>5, <2>1, <2>2
<1>7. /\ toKernel' \in Seq(Nat \X Nat) /\ l \in Nat /\ Len(e) = l + k
      /\ \A j \in 1..l : e[j] = s[j]
      /\ \A j \in 1..k : e[l + j] = <<n, d + j>>
  <2>1. toKernel' = toKernel \o x
    BY DEF WriteAll
  <2>2. UNCHANGED replies /\ k \in Nat
    BY <1>1, <1>2
  <2> QED
    BY ONLY <2>1, <2>2, <1>1, <1>6, ToKernelGrows, e = Sent2Kernel', s = Sent2Kernel, l = Len(Sent2Kernel)
<1>8. l > 0 /\ s[l] = <<n, d>>
  BY <1>2 DEF ReplyInv, LastReply
<1>9. FramedOf(sent, Len(sent), s, l)
  BY DEF ReplyInv, Framed
<1>10. FramedOf(sent, Len(sent), e, l + k)
  <2> PICK m : m = Len(sent)
    OBVIOUS
  <2>1. m \in Nat /\ l \in Nat /\ l > 0 /\ d \in Nat /\ k \in Nat /\ s[l] = <<n, d>> /\ FramedOf(sent, m, s, l)
    BY <1>1, <1>2, <1>4, <1>7, <1>8, <1>9
  <2>2. (\A j \in 1..l : e[j] = s[j]) /\ \A j \in 1..k : e[l + j] = <<n, d + j>>
    BY <1>7
  <2>3. FramedOf(sent, m, e, l + k)
    BY ONLY <2>1, <2>2, FrameData
  <2> QED
    BY <2>3
<1>11. Framed' /\ ReplyTypes'
  BY <1>1, <1>7, <1>10 DEF Framed, ReplyTypes
<1>12. e[Len(e)] = <<n, d + k>> /\ Len(e) > 0
  <2>1. k \in 1..k /\ l + k > 0
    BY ONLY <1>2, <1>7
  <2> QED
    BY ONLY <1>7, <2>1
<1>13. CASE k < c /\ pool' = [pool EXCEPT ![t].count = @ - k] /\ UNCHANGED mutex
  <2>1. c - k \in 1..DataLen
    BY SMTT(40), <1>1, <1>2, <1>13
  <2>2. pool' = [pool EXCEPT ![t].count = c - k]
    BY <1>1, <1>13
  <2>3. \A u \in Thread : /\ pool'[u].count = IF u = t THEN c - k ELSE pool[u].count
                          /\ pool'[u].n = pool[u].n /\ pool'[u].at = pool[u].at
    BY <1>1, <2>2 DEF Senders
  <2>4. pool' \in [Thread -> [at : {"idle", "header", "data"}, n : Nat, count : 0..DataLen]]
    <3>1. c - k \in 0..DataLen
      BY <1>1, <2>1
    <3> QED
      BY ONLY <1>1, <2>2, <3>1 DEF Senders
  <2>5. Senders'
    BY <1>1, <1>2, <1>13, <2>1, <2>3, <2>4 DEF Senders
  <2>6. LastReply'
    <3>1. e[Len(e)] = <<pool'[t].n, DataLen - pool'[t].count>>
      BY <1>4, <1>12, <2>3
    <3>2. \A u \in Thread : pool'[u].at = "data" <=> u = t
      BY <1>2, <1>3, <2>3
    <3> QED
      BY <1>12, <3>1, <3>2 DEF LastReply
  <2> QED
    BY <1>11, <2>5, <2>6 DEF ReplyInv
<1>14. CASE k = c /\ pool' = [pool EXCEPT ![t] = NoWork] /\ mutex' = NoThread
  <2>1. \A u \in Thread : pool'[u] = IF u = t THEN NoWork ELSE pool[u]
    BY <1>1, <1>14 DEF Senders
  <2>2. \A u \in Thread : pool'[u].at = "idle"
    BY <1>3, <2>1 DEF NoWork
  <2>3. pool' \in [Thread -> [at : {"idle", "header", "data"}, n : Nat, count : 0..DataLen]]
    BY <1>1, <1>14 DEF Senders, NoWork
  <2>4. Senders'
    BY <1>14, <2>2, <2>3 DEF Senders
  <2>5. EndsReply(sent, e[Len(e)])
    BY <1>1, <1>2, <1>12, <1>14 DEF EndsReply
  <2>6. LastReply'
    BY <1>1, <2>2, <2>5 DEF LastReply
  <2> QED
    BY <1>11, <2>4, <2>6 DEF ReplyInv
<1> QED
  BY <1>13, <1>14 DEF WriteAll

LEMMA KernelSendStep ==
  ASSUME ReplyInv, NEW op \in Ops, KernelSend(op)
  PROVE  ReplyInv'
<1>1. UNCHANGED <<replies, toKernel, pool, mutex>> /\ ReplyTypes /\ sent' = Append(sent, op)
  BY DEF KernelSend, ReplyInv
<1>2. /\ sent' \in Seq(Ops) /\ Len(sent') = Len(sent) + 1 /\ Len(sent) \in Nat
      /\ \A n \in 1..Len(sent) : sent'[n] = sent[n] /\ n \in 1..Len(sent')
  BY <1>1, SentGrows DEF ReplyTypes
<1>3. Sent2Kernel' = Sent2Kernel /\ Len(Sent2Kernel) \in Nat
  <2>1. replies \o toKernel \in Seq(Nat \X Nat)
    BY <1>1, CatUnits DEF ReplyTypes
  <2> QED
    BY <1>1, <2>1 DEF Sent2Kernel
<1>4. Framed'
  BY <1>2, <1>3, FrameSent DEF ReplyInv, Framed
<1>5. Senders'
  BY <1>1, <1>2 DEF ReplyInv, Senders
<1>6. LastReply'
  <2>1. Len(Sent2Kernel) > 0 => Sent2Kernel[Len(Sent2Kernel)][1] \in 1..Len(sent)
    BY <1>3 DEF ReplyInv, Framed, FramedOf
  <2> QED
    BY <1>1, <1>2, <1>3, <2>1 DEF ReplyInv, LastReply, EndsReply
<1> QED
  BY <1>1, <1>2, <1>4, <1>5, <1>6 DEF ReplyInv, ReplyTypes

LEMMA NextReply ==
  ASSUME RequestInv, ReplyInv, [StreamNext]_streamVars
  PROVE  ReplyInv'
<1>1. ASSUME UNCHANGED <<sent, pool, mutex, Sent2Kernel>>, replies' \in Seq(Nat \X Nat), toKernel' \in Seq(Nat \X Nat)
      PROVE  ReplyInv'
  BY <1>1 DEF ReplyInv, ReplyTypes, Framed, LastReply, Senders
<1>2. ASSUME UNCHANGED <<sent, pool, mutex, replies, toKernel>> PROVE ReplyInv'
  BY <1>1, <1>2 DEF ReplyInv, ReplyTypes, Sent2Kernel
<1>3. CASE KernelRead
  <2>1. replies \in Seq(Nat \X Nat) /\ toKernel \in Seq(Nat \X Nat) /\ toKernel # <<>>
        /\ replies' = Append(replies, Head(toKernel)) /\ toKernel' = Tail(toKernel)
    BY <1>3 DEF KernelRead, ReplyInv, ReplyTypes
  <2>2. Head(toKernel) \in Nat \X Nat /\ toKernel' \in Seq(Nat \X Nat)
    BY <2>1
  <2>3. replies' \in Seq(Nat \X Nat)
    BY <2>1, <2>2
  <2>4. Sent2Kernel' = Sent2Kernel
    BY <2>1, ReadKeeps DEF Sent2Kernel
  <2> QED
    BY <1>1, <1>3, <2>2, <2>3, <2>4 DEF KernelRead
<1>4. CASE KernelSendData \/ KernelShutdown \/ SendSignal \/ ExitLoop \/ MainThread \/ UNCHANGED streamVars
  BY <1>2, <1>4 DEF KernelSendData, KernelShutdown, SendSignal, ExitLoop, MainThread, WaitTimeOut, ReadHeader,
                    ReadHeaderEof, ReadAll, ReadAllDone, AddTask, kernel, streamVars
<1>5. CASE \E op \in {"READ", "WRITE"} : KernelSend(op)
  BY <1>5, KernelSendStep DEF Ops
<1>6. CASE \E t \in Thread : PoolThread(t)
  <2> SUFFICES ASSUME NEW t \in Thread, PoolThread(t) PROVE ReplyInv'
    BY <1>6
  <2>1. CASE WriteAllThrows(t)
    BY <1>2, <2>1 DEF WriteAllThrows, kernel
  <2> QED
    BY <2>1, SendReplyStep, WriteHeaderStep, WriteAllStep DEF PoolThread
<1> QED
  BY <1>3, <1>4, <1>5, <1>6 DEF StreamNext, Kernel

\* However short the writes and however many threads answer, the kernel finds one whole reply
\* behind the other, for any numbers of requests and any sizes of reply and socket.
THEOREM RepliesFramedCorrect == StreamSpec => []RepliesFramed
<1>1. ASSUME ReplyInv PROVE RepliesFramed
  <2> PICK s : s = replies \o toKernel
    OBVIOUS
  <2> PICK l : l = Len(s)
    OBVIOUS
  <2>1. s \in Seq(Nat \X Nat) /\ l \in Nat /\ DOMAIN s = 1..l
    BY <1>1, CatUnits DEF ReplyInv, ReplyTypes
  <2>2. FramedOf(sent, Len(sent), s, l)
    BY <1>1 DEF ReplyInv, Framed, Sent2Kernel
  <2>3. ASSUME NEW k \in 1..l
        PROVE  \/ s[k][2] = 0 /\ (k = 1 \/ s[k - 1][2] = DataLen \/ sent[s[k - 1][1]] = "WRITE")
               \/ s[k][2] > 0 /\ k > 1 /\ s[k - 1] = <<s[k][1], s[k][2] - 1>>
    <3>1. s[k] \in Nat \X Nat
      BY <2>1
    <3>2. CASE k = 1
      BY <3>2, <2>2 DEF FramedOf
    <3>3. CASE k > 1
      <4>1. k - 1 \in 1..l /\ k - 1 < l /\ (k - 1) + 1 = k
        BY <2>1, <3>3
      <4>2. IF s[k][2] = 0 THEN EndsReply(sent, s[k - 1]) ELSE s[k - 1] = <<s[k][1], s[k][2] - 1>>
        BY <4>1, <2>2 DEF FramedOf
      <4> QED
        BY <3>1, <3>3, <4>2 DEF EndsReply
    <3>4. k = 1 \/ k > 1
      BY ONLY <2>1
    <3> QED
      BY <3>2, <3>3, <3>4
  <2> QED
    BY <2>1, <2>3 DEF RepliesFramed
<1>2. StreamInit => RequestInv /\ ReplyInv
  BY InitRequest, InitReply
<1>3. RequestInv /\ ReplyInv /\ [StreamNext]_streamVars => RequestInv' /\ ReplyInv'
  BY NextRequest, NextReply
<1> QED
  BY <1>1, <1>2, <1>3, PTL DEF StreamSpec

=============================================================================
