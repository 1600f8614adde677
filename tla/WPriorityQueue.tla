--------------------------- MODULE WPriorityQueue ---------------------------
(***************************************************************************)
(* WPriorityQueue<T> (include/wpriorityqueue.hpp) over Semaphore           *)
(* (src/semaphore.cpp): Push(), Pop() and Pop() with a timeout in any      *)
(* number of threads, one step per access to the semaphore, the mutex or   *)
(* the queue.  A signal may interrupt a wait.                              *)
(***************************************************************************)
EXTENDS Naturals, FiniteSets

CONSTANTS
  Item,          \* the values that are pushed, each of them once
  Rank,          \* what Compare makes of an item
  Producer,      \* the threads that push
  Consumer,      \* the threads that pop
  None,          \* no thread, no item
  MaxInterrupt   \* bound: how often a signal interrupts a wait

QueueThread == Producer \cup Consumer

ASSUME WQueueAssumption ==
  /\ Rank \in [Item -> Nat] /\ None \notin Item \cup QueueThread
  /\ Producer \cap Consumer = {} /\ MaxInterrupt \in Nat

VARIABLES
  m_sem,     \* value of the semaphore
  m_mutex,   \* holder of the mutex
  m_pq,      \* the priority_queue
  pc,        \* per thread where it is in Push() or Pop()
  val,       \* per thread new_val or ret_val
  pushed,    \* items pushed so far
  got,       \* per consumer the items its calls have returned
  signals    \* how often a wait was interrupted

members   == <<m_sem, m_mutex, m_pq>>
queueVars == <<members, pc, val, pushed, got, signals>>

WaitPlace == {"wait", "asleep", "timed", "timed_asleep"}
Locked    == {"push", "post", "pushed", "top", "popped"}
Place     == {"out", "lock_push", "lock"} \cup WaitPlace \cup Locked

QueueInit ==
  /\ m_sem = 0 /\ m_mutex = None /\ m_pq = {}
  /\ pc = [t \in QueueThread |-> "out"] /\ val = [t \in QueueThread |-> None]
  /\ pushed = {} /\ got = [c \in Consumer |-> {}] /\ signals = 0

Goto(t, from, to) == pc[t] = from /\ pc' = [pc EXCEPT ![t] = to]

-----------------------------------------------------------------------------
(* Push(): the lock is held until the semaphore was posted.                *)

Push(p, x) ==
  /\ Goto(p, "out", "lock_push")
  /\ x \notin pushed /\ \A q \in Producer : val[q] # x
  /\ val' = [val EXCEPT ![p] = x]
  /\ UNCHANGED <<members, pushed, got, signals>>

PushLock(p) ==
  /\ Goto(p, "lock_push", "push")
  /\ m_mutex = None /\ m_mutex' = p
  /\ UNCHANGED <<m_sem, m_pq, val, pushed, got, signals>>

PushItem(p) ==
  /\ Goto(p, "push", "post")
  /\ m_pq' = m_pq \cup {val[p]} /\ pushed' = pushed \cup {val[p]}
  /\ UNCHANGED <<m_sem, m_mutex, val, got, signals>>

\* Mutant: sem_post() only when the queue was empty.
PushPostOnEmpty(p) ==
  /\ Goto(p, "post", "pushed")
  /\ m_sem' = IF m_pq = {val[p]} THEN m_sem + 1 ELSE m_sem
  /\ UNCHANGED <<m_mutex, m_pq, val, pushed, got, signals>>

PushPost(p) ==
  /\ Goto(p, "post", "pushed")
  /\ m_sem' = m_sem + 1
  /\ UNCHANGED <<m_mutex, m_pq, val, pushed, got, signals>>

PushUnlock(p) ==
  /\ Goto(p, "pushed", "out")
  /\ m_mutex' = None /\ val' = [val EXCEPT ![p] = None]
  /\ UNCHANGED <<m_sem, m_pq, pushed, got, signals>>

-----------------------------------------------------------------------------
(* Pop() and Pop() with a timeout.                                         *)

Pop(c) ==
  /\ Goto(c, "out", "wait")
  /\ UNCHANGED <<members, val, pushed, got, signals>>

PopTimed(c) ==
  /\ Goto(c, "out", "timed")
  /\ UNCHANGED <<members, val, pushed, got, signals>>

\* sem_wait() or sem_timedwait() takes a token.
Wait(c) ==
  /\ pc[c] \in WaitPlace /\ pc' = [pc EXCEPT ![c] = "lock"]
  /\ m_sem > 0 /\ m_sem' = m_sem - 1
  /\ UNCHANGED <<m_mutex, m_pq, val, pushed, got, signals>>

\* No token: the thread blocks.
Block(c) ==
  /\ pc[c] \in {"wait", "timed"} /\ m_sem = 0
  /\ pc' = [pc EXCEPT ![c] = IF pc[c] = "wait" THEN "asleep" ELSE "timed_asleep"]
  /\ UNCHANGED <<members, val, pushed, got, signals>>

\* Mutant: a Pop() that times out when a token has come takes it along.
TimeOutTakesToken(c) ==
  /\ Goto(c, "timed_asleep", "out")
  /\ m_sem' = IF m_sem > 0 THEN m_sem - 1 ELSE 0
  /\ UNCHANGED <<m_mutex, m_pq, val, pushed, got, signals>>

\* SemTimeOut: Pop() returns false.  A token may have come in the meantime.
TimeOut(c) ==
  /\ Goto(c, "timed_asleep", "out")
  /\ UNCHANGED <<members, val, pushed, got, signals>>

\* A signal: errno is EINTR and SemError leaves Pop(), with or without timeout.
Interrupt(c) ==
  /\ pc[c] \in {"asleep", "timed_asleep"} /\ pc' = [pc EXCEPT ![c] = "out"]
  /\ signals < MaxInterrupt /\ signals' = signals + 1
  /\ UNCHANGED <<members, val, pushed, got>>

PopLock(c) ==
  /\ Goto(c, "lock", "top")
  /\ m_mutex = None /\ m_mutex' = c
  /\ UNCHANGED <<m_sem, m_pq, val, pushed, got, signals>>

Tops(q) == {x \in q : \A y \in q : Rank[y] <= Rank[x]}

\* Mutant: the container's last element instead of its greatest.
LockAndPopAny(c) ==
  /\ Goto(c, "top", "popped")
  /\ \E x \in m_pq : m_pq' = m_pq \ {x} /\ val' = [val EXCEPT ![c] = x]
                     /\ got' = [got EXCEPT ![c] = @ \cup {x}]
  /\ UNCHANGED <<m_sem, m_mutex, pushed, signals>>

\* LockAndPop(): one of the greatest items is moved out and popped.
LockAndPop(c) ==
  /\ Goto(c, "top", "popped")
  /\ \E x \in Tops(m_pq) :
       /\ m_pq' = m_pq \ {x}
       /\ val' = [val EXCEPT ![c] = x]
       /\ got' = [got EXCEPT ![c] = @ \cup {x}]
  /\ UNCHANGED <<m_sem, m_mutex, pushed, signals>>

PopUnlock(c) ==
  /\ Goto(c, "popped", "out")
  /\ m_mutex' = None /\ val' = [val EXCEPT ![c] = None]
  /\ UNCHANGED <<m_sem, m_pq, pushed, got, signals>>

ProducerStep(p) ==
  PushLock(p) \/ PushItem(p) \/ PushPost(p) \/ PushUnlock(p)

PopStep(c) == Wait(c) \/ PopLock(c) \/ LockAndPop(c) \/ PopUnlock(c)

QueueNext ==
  \/ \E p \in Producer : ProducerStep(p) \/ \E x \in Item : Push(p, x)
  \/ \E c \in Consumer :
       PopStep(c) \/ Pop(c) \/ PopTimed(c) \/ Block(c) \/ TimeOut(c) \/ Interrupt(c)

QueueSpec == QueueInit /\ [][QueueNext]_queueVars

\* A thread inside a call runs, and gets the mutex and a token in its turn; a consumer
\* calls Pop() again, as the threads of the pool do.
FairQueueSpec ==
  /\ QueueSpec
  /\ \A p \in Producer : SF_queueVars(ProducerStep(p))
  /\ \A c \in Consumer : WF_queueVars(Pop(c) \/ PopTimed(c) \/ Block(c)) /\ SF_queueVars(PopStep(c))

-----------------------------------------------------------------------------
(* Properties.                                                             *)

QueueTypeOK ==
  /\ m_sem \in Nat /\ m_mutex \in QueueThread \cup {None} /\ m_pq \subseteq Item
  /\ pc \in [QueueThread -> Place] /\ val \in [QueueThread -> Item \cup {None}]
  /\ pushed \subseteq Item /\ got \in [Consumer -> SUBSET Item] /\ signals \in Nat

Holders == {c \in Consumer : pc[c] \in {"lock", "top"}}
Posting == {p \in Producer : pc[p] = "post"}

\* Every item in the queue has its token: in the semaphore, with a consumer on its way
\* to LockAndPop(), or with a producer between m_pq.push() and Post(), whatever timeouts
\* and signals end waits in between.
TokenPerItem ==
  m_sem + Cardinality(Holders) + Cardinality(Posting) = Cardinality(m_pq)

\* LockAndPop() never calls top() and pop() on an empty queue, which is undefined.
PopFindsItem == \A c \in Consumer : pc[c] = "top" => m_pq # {}

\* No two threads are between lock and unlock, so none sees a half-built heap.
HeapExclusive ==
  \A s, t \in QueueThread : pc[s] \in Locked /\ pc[t] \in Locked => s = t

\* No item is lost and none is returned twice, also when the Pop() that was to get it
\* timed out or was interrupted.
EachItemOnce ==
  /\ pushed = m_pq \cup UNION {got[c] : c \in Consumer}
  /\ \A c, d \in Consumer : (c # d => got[c] \cap got[d] = {}) /\ got[c] \cap m_pq = {}

Abstract == INSTANCE PriorityQueue WITH queue <- m_pq

\* Push() and Pop() take effect in one step each, in the order of the lock, and Pop()
\* returns one of the greatest items of that moment.
IsPriorityQueue == Abstract!AbsSpec

\* An item that is pushed is popped in the end: no timeout or signal swallows its token.
ItemsPopped == \A x \in Item : x \in m_pq ~> x \notin m_pq
=============================================================================
