----------------------------- MODULE MmapStorage ----------------------------
(***************************************************************************)
(* MmapStorage (src/mmap_storage.cpp) under a slave's pool with any number *)
(* of threads ("num_of_threads" in slave_config.json).  Read() and Write() *)
(* take no lock, and memcpy() copies word by word, in any order.  The      *)
(* mapping is shared: what is in it survives the slave.                    *)
(***************************************************************************)
EXTENDS Naturals

CONSTANTS
  Worker,      \* the threads of the slave's pool
  Sector,      \* the blocks requests are about
  Word,        \* the words of a block that memcpy() copies one at a time
  Value,       \* what may be written
  Zero,        \* what the file holds at first
  MaxCrash     \* bound: how often the slave is killed

ASSUME StorageAssumption == MaxCrash \in Nat

VARIABLES
  m_mmap,   \* per block and word what the mapping holds
  task,     \* per thread the request it executes
  m_buff,   \* per thread DriverData::m_buff
  left,     \* per thread the words memcpy() has still to copy
  after,    \* per block the values that the writes that ended can have left in it
  may,      \* per thread the values a READ may find, or a WRITE is mixed with
  crashes

store       == <<task, m_buff, left>>
storageVars == <<m_mmap, store, after, may, crashes>>

Idle      == [op |-> "IDLE"]
Busy(b)   == {t \in Worker : task[t] # Idle /\ task[t].block = b}
Writes(b) == {task[t].value : t \in {s \in Busy(b) : task[s].op = "WRITE"}}

StorageInit ==
  /\ m_mmap = [b \in Sector |-> [w \in Word |-> Zero]]
  /\ task = [t \in Worker |-> Idle]
  /\ m_buff = [t \in Worker |-> [w \in Word |-> Zero]]
  /\ left = [t \in Worker |-> {}]
  /\ after = [b \in Sector |-> {Zero}] /\ may = [t \in Worker |-> {}]
  /\ crashes = 0

\* SlaveWrite::Execute() calls Write(); the requests it overlaps with are mixed with it.
Write(t, b, v) ==
  /\ task[t] = Idle
  /\ task' = [task EXCEPT ![t] = [op |-> "WRITE", block |-> b, value |-> v]]
  /\ m_buff' = [m_buff EXCEPT ![t] = [w \in Word |-> v]]
  /\ left' = [left EXCEPT ![t] = Word]
  /\ may' = [s \in Worker |-> IF s = t THEN Writes(b) ELSE IF s \in Busy(b) THEN may[s] \cup {v} ELSE may[s]]
  /\ UNCHANGED <<m_mmap, after, crashes>>

\* SlaveRead::Execute() calls Read().
Read(t, b) ==
  /\ task[t] = Idle
  /\ task' = [task EXCEPT ![t] = [op |-> "READ", block |-> b]]
  /\ left' = [left EXCEPT ![t] = Word]
  /\ may' = [may EXCEPT ![t] = after[b] \cup Writes(b)]
  /\ UNCHANGED <<m_mmap, m_buff, after, crashes>>

\* memcpy() copies a word.
Memcpy(t, w) ==
  /\ task[t] # Idle /\ w \in left[t] /\ left' = [left EXCEPT ![t] = @ \ {w}]
  /\ LET b == task[t].block
     IN \/ /\ task[t].op = "WRITE" /\ m_mmap' = [m_mmap EXCEPT ![b][w] = m_buff[t][w]]
           /\ UNCHANGED m_buff
        \/ /\ task[t].op = "READ" /\ m_buff' = [m_buff EXCEPT ![t][w] = m_mmap[b][w]]
           /\ UNCHANGED m_mmap
  /\ UNCHANGED <<task, after, may, crashes>>

\* Mutant: memcpy() of one word less than m_len.
FinishEarly(t) ==
  /\ task[t] # Idle /\ left[t] # Word
  /\ task' = [task EXCEPT ![t] = Idle] /\ left' = [left EXCEPT ![t] = {}]
  /\ after' = IF task[t].op = "WRITE" THEN [after EXCEPT ![task[t].block] = {task[t].value} \cup may[t]] ELSE after
  /\ m_buff' = [m_buff EXCEPT ![t] = [w \in Word |-> Zero]] /\ may' = [may EXCEPT ![t] = {}]
  /\ UNCHANGED <<m_mmap, crashes>>

\* Read() or Write() returns; SendReply() takes the DriverData.
Finish(t) ==
  /\ task[t] # Idle /\ left[t] = {}
  /\ task' = [task EXCEPT ![t] = Idle]
  /\ after' = IF task[t].op = "WRITE" THEN [after EXCEPT ![task[t].block] = {task[t].value} \cup may[t]] ELSE after
  /\ m_buff' = [m_buff EXCEPT ![t] = [w \in Word |-> Zero]] /\ may' = [may EXCEPT ![t] = {}]
  /\ UNCHANGED <<m_mmap, left, crashes>>

\* The slave is killed, and started again.
Crash ==
  /\ crashes < MaxCrash /\ crashes' = crashes + 1
  /\ task' = [t \in Worker |-> Idle] /\ left' = [t \in Worker |-> {}]
  /\ after' = [b \in Sector |-> after[b] \cup Writes(b)]
  /\ m_buff' = [t \in Worker |-> [w \in Word |-> Zero]] /\ may' = [t \in Worker |-> {}]
  /\ UNCHANGED m_mmap

StorageNext ==
  \/ \E t \in Worker :
       \/ \E b \in Sector : Read(t, b) \/ \E v \in Value : Write(t, b, v)
       \/ \E w \in Word : Memcpy(t, w)
       \/ Finish(t)
  \/ Crash

StorageSpec == StorageInit /\ [][StorageNext]_storageVars

-----------------------------------------------------------------------------
(* Properties.                                                             *)

\* Without any lock, whatever requests overlap, and over restarts of the slave: a word that
\* a READ returns comes from the last write that ended before it, from a write that
\* overlapped with that one, or from one that overlaps with the READ or was cut off.
ReadRegular ==
  \A t \in Worker : task[t] # Idle /\ task[t].op = "READ" =>
    \A w \in Word \ left[t] : m_buff[t][w] \in may[t]
=============================================================================
