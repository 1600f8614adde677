--------------------------- MODULE LibraryProofs ----------------------------
(***************************************************************************)
(* The classes that the rest of the program is built from, for every number *)
(* of threads, items, callbacks and exceptions: WPriorityQueue, Dispatcher *)
(* and Handleton.  They share nothing, and neither do their proofs.        *)
(***************************************************************************)
EXTENDS WPriorityQueue, Dispatcher, Handleton, FiniteSetTheorems, TLAPS

(***************************************************************************)
(* WPriorityQueue: no token is ever lost or left over, LockAndPop() always *)
(* finds an item, and the class implements PriorityQueue.  The inductive   *)
(* invariant adds to TokenPerItem and EachItemOnce who holds the mutex, that *)
(* the items under way to m_pq are new and different from each other, and  *)
(* that what Cardinality() counts is finite.                               *)
(***************************************************************************)

\* The holder of the mutex, and no other thread, is between lock and unlock.
MutexHeld == \A t \in QueueThread : pc[t] \in Locked <=> m_mutex = t

\* An item on its way into the queue was not pushed before and is in one hand only.
NewItems ==
  /\ \A p \in Producer :
       pc[p] \in {"lock_push", "push"} => val[p] \in Item /\ val[p] \notin pushed
  /\ \A p, q \in Producer : val[p] = val[q] /\ val[p] # None => p = q

\* What TokenPerItem counts can be counted.
Countable == IsFiniteSet(m_pq) /\ IsFiniteSet(Holders) /\ IsFiniteSet(Posting)

QueueInv ==
  QueueTypeOK /\ MutexHeld /\ NewItems /\ EachItemOnce /\ Countable /\ TokenPerItem

-----------------------------------------------------------------------------
\* A new queue satisfies the invariant.
LEMMA QueueInitInv == QueueInit => QueueInv
<1> SUFFICES ASSUME QueueInit PROVE QueueInv
  OBVIOUS
<1>1. QueueTypeOK
  BY DEF QueueInit, QueueTypeOK, Place
<1>2. MutexHeld
  BY WQueueAssumption DEF QueueInit, MutexHeld, Locked
<1>3. NewItems
  BY DEF QueueInit, NewItems, QueueThread
<1>4. EachItemOnce
  BY DEF QueueInit, EachItemOnce
<1>5. m_pq = {} /\ Holders = {} /\ Posting = {} /\ m_sem = 0
  BY DEF QueueInit, Holders, Posting, QueueThread
<1>6. Countable /\ TokenPerItem
  BY <1>5, FS_EmptySet DEF Countable, TokenPerItem
<1> QED
  BY <1>1, <1>2, <1>3, <1>4, <1>6 DEF QueueInv

-----------------------------------------------------------------------------
(* How the step of one thread changes what TokenPerItem counts.            *)

\* A step from and to other places than these leaves both sets as they are.
LEMMA QuietStep ==
  ASSUME QueueTypeOK, NEW t \in QueueThread, NEW l \in Place,
         pc' = [pc EXCEPT ![t] = l],
         pc[t] \notin {"lock", "top", "post"}, l \notin {"lock", "top", "post"}
  PROVE  Holders' = Holders /\ Posting' = Posting
BY DEF QueueTypeOK, Holders, Posting, QueueThread

\* With the sets and the semaphore unchanged nothing needs to be counted again.
LEMMA SameCounts ==
  ASSUME QueueInv, Holders' = Holders, Posting' = Posting, UNCHANGED <<m_sem, m_pq>>
  PROVE  Countable' /\ TokenPerItem'
BY DEF QueueInv, Countable, TokenPerItem

\* The three sets have a natural number of elements.
LEMMA CountsAreNat ==
  ASSUME Countable
  PROVE  Cardinality(m_pq) \in Nat /\ Cardinality(Holders) \in Nat /\ Cardinality(Posting) \in Nat
BY FS_CardinalityType DEF Countable

-----------------------------------------------------------------------------
(* The steps of Push().                                                    *)

LEMMA PushInv ==
  ASSUME QueueInv, NEW p \in Producer, NEW x \in Item, Push(p, x)
  PROVE  QueueInv'
<1> USE DEF Push, Goto, members
<1>1. QueueTypeOK'
  BY DEF QueueInv, QueueTypeOK, Place, QueueThread
<1>2. MutexHeld'
  BY DEF QueueInv, QueueTypeOK, MutexHeld, Locked, QueueThread
<1>3. NewItems'
  BY DEF QueueInv, QueueTypeOK, NewItems, QueueThread
<1>4. EachItemOnce'
  BY DEF QueueInv, EachItemOnce
<1>5. Holders' = Holders /\ Posting' = Posting
  BY QuietStep DEF QueueInv, Place, QueueThread
<1> QED
  BY <1>1, <1>2, <1>3, <1>4, <1>5, SameCounts DEF QueueInv

LEMMA PushLockInv ==
  ASSUME QueueInv, NEW p \in Producer, PushLock(p)
  PROVE  QueueInv'
<1> USE DEF PushLock, Goto
<1>1. QueueTypeOK'
  BY DEF QueueInv, QueueTypeOK, Place, Locked, QueueThread
<1>2. MutexHeld'
  BY WQueueAssumption DEF QueueInv, QueueTypeOK, MutexHeld, Locked, QueueThread
<1>3. NewItems'
  BY DEF QueueInv, QueueTypeOK, NewItems, QueueThread
<1>4. EachItemOnce'
  BY DEF QueueInv, EachItemOnce
<1>5. Holders' = Holders /\ Posting' = Posting
  BY QuietStep DEF QueueInv, Place, Locked, QueueThread
<1> QED
  BY <1>1, <1>2, <1>3, <1>4, <1>5, SameCounts DEF QueueInv

LEMMA PushItemInv ==
  ASSUME QueueInv, NEW p \in Producer, PushItem(p)
  PROVE  QueueInv'
<1> USE DEF PushItem, Goto
<1>0. val[p] \in Item /\ val[p] \notin pushed /\ val[p] \notin m_pq
  BY DEF QueueInv, NewItems, EachItemOnce
<1>1. QueueTypeOK'
  BY <1>0 DEF QueueInv, QueueTypeOK, Place, Locked, QueueThread
<1>2. MutexHeld'
  BY DEF QueueInv, QueueTypeOK, MutexHeld, Locked, QueueThread
<1>3. NewItems'
  BY <1>0, WQueueAssumption DEF QueueInv, QueueTypeOK, NewItems, QueueThread
<1>4. EachItemOnce'
  BY <1>0 DEF QueueInv, EachItemOnce
<1>5. Holders' = Holders /\ Posting' = Posting \cup {p} /\ p \notin Posting
  BY WQueueAssumption DEF QueueInv, QueueTypeOK, Holders, Posting, QueueThread
<1>6. Countable'
  BY <1>5, FS_AddElement DEF QueueInv, Countable
<1>7. Cardinality(Posting') = Cardinality(Posting) + 1 /\ Cardinality(m_pq') = Cardinality(m_pq) + 1
  BY <1>0, <1>5, FS_AddElement DEF QueueInv, Countable
<1>8. TokenPerItem'
  BY <1>5, <1>7, CountsAreNat DEF QueueInv, QueueTypeOK, TokenPerItem
<1> QED
  BY <1>1, <1>2, <1>3, <1>4, <1>6, <1>8 DEF QueueInv

LEMMA PushPostInv ==
  ASSUME QueueInv, NEW p \in Producer, PushPost(p)
  PROVE  QueueInv'
<1> USE DEF PushPost, Goto
<1>1. QueueTypeOK'
  BY DEF QueueInv, QueueTypeOK, Place, Locked, QueueThread
<1>2. MutexHeld'
  BY DEF QueueInv, QueueTypeOK, MutexHeld, Locked, QueueThread
<1>3. NewItems'
  BY DEF QueueInv, QueueTypeOK, NewItems, QueueThread
<1>4. EachItemOnce'
  BY DEF QueueInv, EachItemOnce
<1>5. Holders' = Holders /\ Posting' = Posting \ {p} /\ p \in Posting
  BY WQueueAssumption DEF QueueInv, QueueTypeOK, Holders, Posting, QueueThread
<1>6. Countable'
  BY <1>5, FS_RemoveElement DEF QueueInv, Countable
<1>7. Cardinality(Posting') = Cardinality(Posting) - 1
  BY <1>5, FS_RemoveElement DEF QueueInv, Countable
<1>8. TokenPerItem'
  BY <1>5, <1>7, CountsAreNat DEF QueueInv, QueueTypeOK, TokenPerItem
<1> QED
  BY <1>1, <1>2, <1>3, <1>4, <1>6, <1>8 DEF QueueInv

LEMMA PushUnlockInv ==
  ASSUME QueueInv, NEW p \in Producer, PushUnlock(p)
  PROVE  QueueInv'
<1> USE DEF PushUnlock, Goto
<1>1. QueueTypeOK'
  BY DEF QueueInv, QueueTypeOK, Place, QueueThread
<1>2. MutexHeld'
  BY WQueueAssumption DEF QueueInv, QueueTypeOK, MutexHeld, Locked, QueueThread
<1>3. NewItems'
  BY DEF QueueInv, QueueTypeOK, NewItems, QueueThread
<1>4. EachItemOnce'
  BY DEF QueueInv, EachItemOnce
<1>5. Holders' = Holders /\ Posting' = Posting
  BY QuietStep DEF QueueInv, Place, QueueThread
<1> QED
  BY <1>1, <1>2, <1>3, <1>4, <1>5, SameCounts DEF QueueInv

-----------------------------------------------------------------------------
(* The steps of Pop().                                                     *)

\* Pop(), Block(), TimeOut() and Interrupt() move a consumer between places at which it
\* has neither a token nor the mutex.
LEMMA WaitingInv ==
  ASSUME QueueInv, NEW c \in Consumer,
         NEW l \in WaitPlace \cup {"out"}, pc[c] \in WaitPlace \cup {"out"},
         pc' = [pc EXCEPT ![c] = l], signals' \in Nat,
         UNCHANGED <<members, val, pushed, got>>
  PROVE  QueueInv'
<1> USE DEF members, WaitPlace
<1>1. QueueTypeOK'
  BY DEF QueueInv, QueueTypeOK, Place, QueueThread
<1>2. MutexHeld'
  BY DEF QueueInv, QueueTypeOK, MutexHeld, Locked, QueueThread
<1>3. NewItems'
  BY DEF QueueInv, QueueTypeOK, NewItems, QueueThread
<1>4. EachItemOnce'
  BY DEF QueueInv, EachItemOnce
<1>5. Holders' = Holders /\ Posting' = Posting
  BY QuietStep DEF QueueInv, Place, QueueThread
<1> QED
  BY <1>1, <1>2, <1>3, <1>4, <1>5, SameCounts DEF QueueInv

LEMMA WaitInv ==
  ASSUME QueueInv, NEW c \in Consumer, Wait(c)
  PROVE  QueueInv'
<1> USE DEF Wait
<1>1. QueueTypeOK'
  BY DEF QueueInv, QueueTypeOK, Place, QueueThread
<1>2. MutexHeld'
  BY DEF QueueInv, QueueTypeOK, MutexHeld, Locked, WaitPlace, QueueThread
<1>3. NewItems'
  BY DEF QueueInv, QueueTypeOK, NewItems, QueueThread
<1>4. EachItemOnce'
  BY DEF QueueInv, EachItemOnce
<1>5. Posting' = Posting /\ Holders' = Holders \cup {c} /\ c \notin Holders
  BY WQueueAssumption DEF QueueInv, QueueTypeOK, Holders, Posting, WaitPlace, QueueThread
<1>6. Countable'
  BY <1>5, FS_AddElement DEF QueueInv, Countable
<1>7. Cardinality(Holders') = Cardinality(Holders) + 1
  BY <1>5, FS_AddElement DEF QueueInv, Countable
<1>8. TokenPerItem'
  BY <1>5, <1>7, CountsAreNat DEF QueueInv, QueueTypeOK, TokenPerItem
<1> QED
  BY <1>1, <1>2, <1>3, <1>4, <1>6, <1>8 DEF QueueInv

LEMMA PopLockInv ==
  ASSUME QueueInv, NEW c \in Consumer, PopLock(c)
  PROVE  QueueInv'
<1> USE DEF PopLock, Goto
<1>1. QueueTypeOK'
  BY DEF QueueInv, QueueTypeOK, Place, Locked, QueueThread
<1>2. MutexHeld'
  BY WQueueAssumption DEF QueueInv, QueueTypeOK, MutexHeld, Locked, QueueThread
<1>3. NewItems'
  BY DEF QueueInv, QueueTypeOK, NewItems, QueueThread
<1>4. EachItemOnce'
  BY DEF QueueInv, EachItemOnce
<1>5. Holders' = Holders /\ Posting' = Posting
  BY WQueueAssumption DEF QueueInv, QueueTypeOK, Holders, Posting, QueueThread
<1> QED
  BY <1>1, <1>2, <1>3, <1>4, <1>5, SameCounts DEF QueueInv

LEMMA LockAndPopInv ==
  ASSUME QueueInv, NEW c \in Consumer, LockAndPop(c)
  PROVE  QueueInv'
<1> USE DEF Goto
<1>0. PICK x \in Tops(m_pq) :
        /\ m_pq' = m_pq \ {x}
        /\ val' = [val EXCEPT ![c] = x]
        /\ got' = [got EXCEPT ![c] = @ \cup {x}]
  BY DEF LockAndPop
<1>a. /\ pc[c] = "top" /\ pc' = [pc EXCEPT ![c] = "popped"]
      /\ UNCHANGED <<m_sem, m_mutex, pushed, signals>>
  BY DEF LockAndPop
<1>b. x \in m_pq /\ x \in Item /\ c \in QueueThread /\ c \notin Producer
  BY WQueueAssumption DEF Tops, QueueInv, QueueTypeOK, QueueThread
<1>1. QueueTypeOK'
  BY <1>0, <1>a, <1>b DEF QueueInv, QueueTypeOK, Place, Locked
<1>2. MutexHeld'
  BY <1>a, <1>b DEF QueueInv, QueueTypeOK, MutexHeld, Locked
<1>3. NewItems'
  BY <1>0, <1>a, <1>b DEF QueueInv, QueueTypeOK, NewItems, QueueThread
<1>4. EachItemOnce'
  <2>1. \A d \in Consumer : got'[d] = IF d = c THEN got[d] \cup {x} ELSE got[d]
    BY <1>0 DEF QueueInv, QueueTypeOK
  <2>2. \A d \in Consumer : x \notin got[d]
    BY <1>b DEF QueueInv, EachItemOnce
  <2>3. \A y : (\E d \in Consumer : y \in got'[d]) <=> (\E d \in Consumer : y \in got[d]) \/ y = x
    BY <2>1
  <2>4. pushed' = m_pq' \cup UNION {got'[d] : d \in Consumer}
    <3>1. \A y : y \in pushed <=> y \in m_pq \/ \E d \in Consumer : y \in got[d]
      BY DEF QueueInv, EachItemOnce
    <3>2. \A y : y \in pushed' <=> y \in m_pq' \/ \E d \in Consumer : y \in got'[d]
      BY <1>0, <1>a, <1>b, <2>3, <3>1
    <3>3. \A y : y \in UNION {got'[d] : d \in Consumer} <=> \E d \in Consumer : y \in got'[d]
      OBVIOUS
    <3>4. \A y : y \in pushed' <=> y \in m_pq' \cup UNION {got'[d] : d \in Consumer}
      BY <3>2, <3>3
    <3> QED
      BY <3>4
  <2>5. \A d, e \in Consumer : d # e => got'[d] \cap got'[e] = {}
    BY ZenonT(40), <2>1, <2>2 DEF QueueInv, EachItemOnce
  <2>6. \A d \in Consumer : got'[d] \cap m_pq' = {}
    BY <1>0, <2>1 DEF QueueInv, EachItemOnce
  <2> QED
    BY <2>4, <2>5, <2>6 DEF EachItemOnce
<1>5. Posting' = Posting /\ Holders' = Holders \ {c} /\ c \in Holders
  BY <1>a, <1>b DEF QueueInv, QueueTypeOK, Holders, Posting, QueueThread
<1>6. Countable'
  BY <1>0, <1>5, FS_RemoveElement DEF QueueInv, Countable
<1>7. Cardinality(Holders') = Cardinality(Holders) - 1 /\ Cardinality(m_pq') = Cardinality(m_pq) - 1
  BY <1>0, <1>b, <1>5, FS_RemoveElement DEF QueueInv, Countable
<1>8. TokenPerItem'
  BY <1>a, <1>5, <1>7, CountsAreNat DEF QueueInv, QueueTypeOK, TokenPerItem
<1> QED
  BY <1>1, <1>2, <1>3, <1>4, <1>6, <1>8 DEF QueueInv

LEMMA PopUnlockInv ==
  ASSUME QueueInv, NEW c \in Consumer, PopUnlock(c)
  PROVE  QueueInv'
<1> USE DEF PopUnlock, Goto
<1>1. QueueTypeOK'
  BY DEF QueueInv, QueueTypeOK, Place, QueueThread
<1>2. MutexHeld'
  BY WQueueAssumption DEF QueueInv, QueueTypeOK, MutexHeld, Locked, QueueThread
<1>3. NewItems'
  BY WQueueAssumption DEF QueueInv, QueueTypeOK, NewItems, QueueThread
<1>4. EachItemOnce'
  BY DEF QueueInv, EachItemOnce
<1>5. Holders' = Holders /\ Posting' = Posting
  BY QuietStep DEF QueueInv, Place, QueueThread
<1> QED
  BY <1>1, <1>2, <1>3, <1>4, <1>5, SameCounts DEF QueueInv

-----------------------------------------------------------------------------
LEMMA QueueNextInv == QueueInv /\ QueueNext => QueueInv'
<1> SUFFICES ASSUME QueueInv, QueueNext PROVE QueueInv'
  OBVIOUS
<1>1. CASE \E p \in Producer : ProducerStep(p) \/ \E x \in Item : Push(p, x)
  BY <1>1, PushInv, PushLockInv, PushItemInv, PushPostInv, PushUnlockInv DEF ProducerStep
<1>2. ASSUME NEW c \in Consumer, PopStep(c) PROVE QueueInv'
  BY <1>2, WaitInv, PopLockInv, LockAndPopInv, PopUnlockInv DEF PopStep
<1>3. ASSUME NEW c \in Consumer, Pop(c) \/ PopTimed(c) \/ TimeOut(c) PROVE QueueInv'
  <2>1. signals' \in Nat
    BY <1>3 DEF Pop, PopTimed, TimeOut, QueueInv, QueueTypeOK
  <2> QED
    BY <1>3, <2>1, WaitingInv DEF Pop, PopTimed, TimeOut, Goto, WaitPlace
<1>4. ASSUME NEW c \in Consumer, Block(c) PROVE QueueInv'
  <2>1. signals' \in Nat
    BY <1>4 DEF Block, QueueInv, QueueTypeOK
  <2>2. PICK l \in {"asleep", "timed_asleep"} : pc' = [pc EXCEPT ![c] = l]
    BY <1>4 DEF Block
  <2> QED
    BY <1>4, <2>1, <2>2, WaitingInv DEF Block, WaitPlace
<1>5. ASSUME NEW c \in Consumer, Interrupt(c) PROVE QueueInv'
  <2>1. signals' \in Nat
    BY <1>5 DEF Interrupt, QueueInv, QueueTypeOK
  <2> QED
    BY <1>5, <2>1, WaitingInv DEF Interrupt, WaitPlace
<1> QED
  BY <1>1, <1>2, <1>3, <1>4, <1>5 DEF QueueNext

\* The invariant holds in every state of every queue.
LEMMA QueueInvariant == QueueSpec => []QueueInv
<1>1. QueueInv /\ UNCHANGED queueVars => QueueInv'
  BY DEF queueVars, members, QueueInv, QueueTypeOK, MutexHeld, NewItems, EachItemOnce,
         Countable, TokenPerItem, Holders, Posting
<1> QED
  BY QueueInitInv, QueueNextInv, <1>1, PTL DEF QueueSpec

-----------------------------------------------------------------------------
\* The semaphore, the consumers between Wait() and LockAndPop() and the producers between
\* push() and Post() together hold one token per item, whatever times out or is
\* interrupted, for every number of threads.
THEOREM TokenPerItemCorrect == QueueSpec => []TokenPerItem
BY QueueInvariant, PTL DEF QueueInv

\* LockAndPop() calls top() and pop() on a queue that is not empty.
THEOREM PopFindsItemCorrect == QueueSpec => []PopFindsItem
<1>1. QueueInv => PopFindsItem
  <2> SUFFICES ASSUME QueueInv, NEW c \in Consumer, pc[c] = "top", m_pq = {} PROVE FALSE
    BY DEF PopFindsItem
  <2>1. c \in Holders
    BY DEF Holders
  <2>2. Cardinality(Holders) # 0
    BY <2>1, FS_EmptySet DEF QueueInv, Countable
  <2>3. Cardinality(m_pq) = 0
    BY FS_EmptySet
  <2> QED
    BY <2>2, <2>3, CountsAreNat DEF QueueInv, QueueTypeOK, TokenPerItem
<1> QED
  BY QueueInvariant, <1>1, PTL

\* push(), top() and pop() of the heap are never interleaved.
THEOREM HeapExclusiveCorrect == QueueSpec => []HeapExclusive
<1>1. QueueInv => HeapExclusive
  BY DEF QueueInv, MutexHeld, HeapExclusive
<1> QED
  BY QueueInvariant, <1>1, PTL

\* Every item that was pushed is in the queue or was returned by exactly one Pop().
THEOREM EachItemOnceCorrect == QueueSpec => []EachItemOnce
BY QueueInvariant, PTL DEF QueueInv

-----------------------------------------------------------------------------
\* A step of WPriorityQueue is a Push() or a Pop() of PriorityQueue, or changes nothing
\* that PriorityQueue knows of.
LEMMA QueueRefines ==
  ASSUME QueueInv, [QueueNext]_queueVars
  PROVE  [Abstract!AbsNext]_Abstract!absVars
<1>1. ASSUME NEW p \in Producer, PushItem(p) PROVE Abstract!AbsNext
  <2>1. val[p] \in Item /\ val[p] \notin pushed
    BY <1>1 DEF PushItem, Goto, QueueInv, NewItems
  <2>2. Abstract!AbsPush(val[p])
    BY <1>1, <2>1 DEF PushItem, Abstract!AbsPush
  <2> QED
    BY <2>1, <2>2 DEF Abstract!AbsNext
<1>2. ASSUME NEW c \in Consumer, LockAndPop(c) PROVE Abstract!AbsNext
  <2>1. Abstract!AbsPop(c)
    BY <1>2 DEF LockAndPop, Tops, Abstract!AbsPop, Abstract!Tops
  <2> QED
    BY <2>1 DEF Abstract!AbsNext
<1>3. ASSUME NEW p \in Producer,
             PushLock(p) \/ PushPost(p) \/ PushUnlock(p) \/ \E x \in Item : Push(p, x)
      PROVE  UNCHANGED Abstract!absVars
  BY <1>3 DEF PushLock, PushPost, PushUnlock, Push, members, Abstract!absVars
<1>4. ASSUME NEW c \in Consumer,
             \/ Wait(c) \/ PopLock(c) \/ PopUnlock(c) \/ Pop(c)
             \/ PopTimed(c) \/ Block(c) \/ TimeOut(c) \/ Interrupt(c)
      PROVE  UNCHANGED Abstract!absVars
  BY <1>4 DEF Wait, PopLock, PopUnlock, Pop, PopTimed, Block, TimeOut, Interrupt, members,
              Abstract!absVars
<1>5. CASE UNCHANGED queueVars
  BY <1>5 DEF queueVars, members, Abstract!absVars
<1> QED
  BY <1>1, <1>2, <1>3, <1>4, <1>5 DEF QueueNext, ProducerStep, PopStep

\* Whatever the threads do, Push() and Pop() behave as if each happened in one step, and
\* Pop() returns a greatest item: the locked heap with its semaphore implements the
\* priority queue.
THEOREM IsPriorityQueueCorrect == QueueSpec => IsPriorityQueue
<1>1. QueueInit => Abstract!AbsInit
  BY DEF QueueInit, Abstract!AbsInit
<1>2. QueueInv /\ [QueueNext]_queueVars => [Abstract!AbsNext]_Abstract!absVars
  BY QueueRefines
<1> QED
  BY QueueInvariant, <1>1, <1>2, PTL DEF QueueSpec, IsPriorityQueue, Abstract!AbsSpec

-----------------------------------------------------------------------------
(***************************************************************************)
(* Dispatcher: for callbacks made and deleted in any order the vector and  *)
(* the callbacks agree on who is subscribed, no dead object is used, and a *)
(* notification reaches everyone, unless a method breaks the loop that     *)
(* called it.  The inductive invariant has a part for each phase of the    *)
(* dispatcher's life: alive, in NotifyAll(), in its destructor, and dead.  *)
(***************************************************************************)

\* No callback is in the vector twice.
Distinct == \A i, j \in 1..size : m_callbacks[i] = m_callbacks[j] => i = j

\* The callbacks in a part of the vector.
Between(lo, hi) == {m_callbacks[i] : i \in lo..hi}

\* As long as NotifyAll()'s loop meets the callbacks it began with, it has notified those
\* behind the iterator once and those before it not at all.
LoopExact ==
  dispatcher = "alive" /\ ~fault /\ ~disturbed /\ Looping =>
    /\ last <= size
    /\ \A i \in 1..last : notified[m_callbacks[i]] = IF i < iter THEN 1 ELSE 0
    /\ throughout \subseteq Between(1, last)

\* As long as no stop method disturbs it, ~Dispatcher() has cut off those behind its
\* iterator; the others are still subscribed.
DyingExact ==
  dispatcher = "dying" /\ ~disturbed =>
    /\ ~fault /\ ~moved /\ Distinct /\ last = size /\ iter <= last + 1
    /\ bound = Between(iter, last) /\ bound \subseteq alive

\* A dispatcher whose destructor ran undisturbed leaves no callback behind that thinks it
\* is subscribed.
DeadExact == dispatcher = "dead" => ~Looping /\ (~disturbed => ~fault /\ bound = {})

DispatcherInv ==
  DispatcherTypeOK /\ SubscribersExact /\ LoopExact /\ DyingExact /\ DeadExact /\ NoDeadUse

-----------------------------------------------------------------------------
(* The vector.                                                             *)

\* Add() and Remove() leave a vector of callbacks, also one that has a callback twice.
LEMMA AddTypes ==
  ASSUME DispatcherTypeOK, NEW c \in CallBack, Add(c)
  PROVE  /\ size' = size + 1 /\ size' \in Nat /\ capacity' \in Nat /\ moved' \in BOOLEAN
         /\ m_callbacks' \in [1..size' -> CallBack]
         /\ \A i \in 1..size : m_callbacks'[i] = m_callbacks[i]
         /\ m_callbacks'[size'] = c
<1> USE DEF DispatcherTypeOK
<1>1. size' = size + 1 /\ size' \in Nat /\ capacity' \in Nat /\ moved' \in BOOLEAN
  BY DEF Add
<1>2. m_callbacks' = [i \in 1..(size + 1) |-> IF i = size + 1 THEN c ELSE m_callbacks[i]]
  BY DEF Add
<1> QED
  BY <1>1, <1>2

LEMMA RemoveTypes ==
  ASSUME DispatcherTypeOK, NEW c \in CallBack, Remove(c)
  PROVE  size' \in Nat /\ m_callbacks' \in [1..size' -> CallBack]
<1> USE DEF DispatcherTypeOK
<1>1. CASE \A i \in 1..size : m_callbacks[i] # c
  <2>1. UNCHANGED <<size, m_callbacks>>
    BY <1>1 DEF Remove
  <2> QED
    BY <2>1
<1>2. CASE \E i \in 1..size : m_callbacks[i] = c
  <2>1. PICK i \in 1..size :
          /\ size' = size - 1
          /\ m_callbacks' = [j \in 1..(size - 1) |-> IF j = i THEN m_callbacks[size] ELSE m_callbacks[j]]
    BY <1>2 DEF Remove
  <2>2. size' \in Nat /\ size \in 1..size /\ \A j \in 1..(size - 1) : j \in 1..size
    BY <2>1
  <2> QED
    BY <2>1, <2>2
<1> QED
  BY <1>1, <1>2

\* push_back() appends a callback that is not in the vector.
LEMMA AddAppends ==
  ASSUME DispatcherTypeOK, Distinct, NEW c \in CallBack, Add(c), c \notin Between(1, size)
  PROVE  /\ size' = size + 1 /\ size' \in Nat /\ capacity' \in Nat /\ moved' \in BOOLEAN
         /\ m_callbacks' \in [1..size' -> CallBack]
         /\ \A i \in 1..size : m_callbacks'[i] = m_callbacks[i]
         /\ m_callbacks'[size'] = c
         /\ Distinct' /\ Between(1, size)' = Between(1, size) \cup {c}
<1> USE DEF DispatcherTypeOK
<1>1. size' = size + 1 /\ size' \in Nat /\ capacity' \in Nat /\ moved' \in BOOLEAN
  BY AddTypes
<1>3. /\ m_callbacks' \in [1..size' -> CallBack]
      /\ \A i \in 1..size : m_callbacks'[i] = m_callbacks[i]
      /\ m_callbacks'[size'] = c
  BY AddTypes
<1>4. Distinct'
  <2> SUFFICES ASSUME NEW i \in 1..size', NEW j \in 1..size', m_callbacks'[i] = m_callbacks'[j]
               PROVE  i = j
    BY DEF Distinct
  <2>1. \A k \in 1..size : m_callbacks[k] # c
    BY DEF Between
  <2>2. \A k \in 1..size' : k = size' \/ k \in 1..size
    BY <1>1
  <2> QED
    BY <1>3, <2>1, <2>2 DEF Distinct
<1>5. Between(1, size)' = Between(1, size) \cup {c}
  <2>1. \A x : (\E i \in 1..size' : x = m_callbacks'[i]) <=> (\E i \in 1..size : x = m_callbacks[i]) \/ x = c
    BY <1>1, <1>3
  <2>2. \A x : x \in Between(1, size)' <=> x \in Between(1, size) \/ x = c
    BY ZenonT(40), <2>1 DEF Between
  <2> QED
    BY <2>2
<1> QED
  BY <1>1, <1>3, <1>4, <1>5

\* The swap with the last callback removes exactly one.
LEMMA RemoveDeletes ==
  ASSUME DispatcherTypeOK, Distinct, NEW c \in CallBack, Remove(c), c \in Between(1, size)
  PROVE  /\ size' = size - 1 /\ size' \in Nat
         /\ m_callbacks' \in [1..size' -> CallBack]
         /\ Distinct' /\ Between(1, size)' = Between(1, size) \ {c}
<1> USE DEF DispatcherTypeOK
<1>1. PICK i \in 1..size :
        /\ m_callbacks[i] = c
        /\ size' = size - 1
        /\ m_callbacks' = [j \in 1..(size - 1) |-> IF j = i THEN m_callbacks[size] ELSE m_callbacks[j]]
  BY DEF Remove, Between
<1>2. size' = size - 1 /\ size' \in Nat /\ size \in 1..size
  BY <1>1
<1>3. m_callbacks' \in [1..size' -> CallBack]
  BY <1>1, <1>2
<1>4. \A j \in 1..size' : j \in 1..size /\ j # size
  BY <1>2
<1>5. \A j \in 1..size' : m_callbacks'[j] = IF j = i THEN m_callbacks[size] ELSE m_callbacks[j]
  BY <1>1, <1>2
<1>6. Distinct'
  <2> SUFFICES ASSUME NEW j \in 1..size', NEW k \in 1..size', m_callbacks'[j] = m_callbacks'[k]
               PROVE  j = k
    BY DEF Distinct
  <2> QED
    BY <1>2, <1>4, <1>5 DEF Distinct
<1>7. \A x : (\E j \in 1..size' : x = m_callbacks'[j]) <=> (\E j \in 1..size : x = m_callbacks[j]) /\ x # c
  <2> SUFFICES ASSUME NEW x
               PROVE  (\E j \in 1..size' : x = m_callbacks'[j])
                        <=> (\E j \in 1..size : x = m_callbacks[j]) /\ x # c
    OBVIOUS
  <2>1. ASSUME NEW j \in 1..size', x = m_callbacks'[j]
        PROVE  (\E k \in 1..size : x = m_callbacks[k]) /\ x # c
    BY <1>1, <1>2, <1>4, <1>5, <2>1 DEF Distinct
  <2>2. ASSUME NEW j \in 1..size, x = m_callbacks[j], x # c
        PROVE  \E k \in 1..size' : x = m_callbacks'[k]
    <3>1. CASE j = size
      <4>1. i \in 1..size'
        BY <1>1, <1>2, <2>2, <3>1
      <4> QED
        BY <1>5, <2>2, <3>1, <4>1
    <3>2. CASE j # size
      <4>1. j \in 1..size' /\ j # i
        BY <1>1, <1>2, <2>2, <3>2
      <4> QED
        BY <1>5, <2>2, <4>1
    <3> QED
      BY <3>1, <3>2
  <2> QED
    BY <2>1, <2>2
<1>8. Between(1, size)' = Between(1, size) \ {c}
  BY <1>7 DEF Between
<1> QED
  BY <1>2, <1>3, <1>6, <1>8

-----------------------------------------------------------------------------
\* A new dispatcher has no callbacks.
LEMMA DispatcherInitInv == DispatcherInit => DispatcherInv
<1> SUFFICES ASSUME DispatcherInit PROVE DispatcherInv
  OBVIOUS
<1>1. DispatcherTypeOK
  <2>1. m_callbacks \in [1..size -> CallBack] /\ size \in Nat /\ capacity \in Nat
    BY DEF DispatcherInit
  <2>2. /\ iter \in Nat \ {0} /\ last \in Nat
        /\ notified \in [CallBack -> Nat] /\ throughout \subseteq CallBack
    BY DEF DispatcherInit
  <2>3. moved \in BOOLEAN /\ disturbed \in BOOLEAN /\ fault \in BOOLEAN
    BY DEF DispatcherInit
  <2> QED
    BY <2>1, <2>2, <2>3 DEF DispatcherInit, DispatcherTypeOK
<1>2. SubscribersExact /\ LoopExact /\ DyingExact /\ DeadExact /\ NoDeadUse
  BY DEF DispatcherInit, SubscribersExact, LoopExact, DyingExact, DeadExact, NoDeadUse, Looping
<1> QED
  BY <1>1, <1>2 DEF DispatcherInv

LEMMA ConnectInv ==
  ASSUME DispatcherInv, NEW c \in CallBack, Connect(c)
  PROVE  DispatcherInv'
<1>1. /\ ~fault /\ dispatcher # "dead" /\ c \notin alive /\ Add(c)
      /\ alive' = alive \cup {c} /\ bound' = bound \cup {c}
      /\ disturbed' = (disturbed \/ dispatcher = "dying")
      /\ UNCHANGED <<dispatcher, iter, last, notified, throughout, fault>>
  BY DEF Connect, MayCall
<1>2. DispatcherTypeOK
  BY DEF DispatcherInv
<1>3. /\ size' = size + 1 /\ size' \in Nat /\ capacity' \in Nat /\ moved' \in BOOLEAN
      /\ m_callbacks' \in [1..size' -> CallBack]
      /\ \A i \in 1..size : m_callbacks'[i] = m_callbacks[i]
  BY <1>1, <1>2, AddTypes
<1>4. DispatcherTypeOK'
  <2>1. disturbed' \in BOOLEAN
    BY <1>1
  <2> QED
    BY <1>1, <1>2, <1>3, <2>1 DEF DispatcherTypeOK
<1>5. CASE dispatcher = "alive"
  <2>1. Distinct /\ Between(1, size) = bound /\ bound \subseteq alive
    BY <1>1, <1>5 DEF DispatcherInv, SubscribersExact, Distinct, Between
  <2>2. Distinct' /\ Between(1, size)' = Between(1, size) \cup {c}
    BY <1>1, <1>2, <2>1, AddAppends
  <2>3. SubscribersExact'
    BY <1>1, <2>1, <2>2 DEF SubscribersExact, Distinct, Between
  <2>4. LoopExact'
    <3> SUFFICES ASSUME ~disturbed, Looping
                 PROVE  /\ last <= size'
                        /\ \A i \in 1..last : notified[m_callbacks'[i]] = IF i < iter THEN 1 ELSE 0
                        /\ throughout \subseteq Between(1, last)'
      BY <1>1 DEF LoopExact, Looping
    <3>1. /\ last <= size
          /\ \A i \in 1..last : notified[m_callbacks[i]] = IF i < iter THEN 1 ELSE 0
          /\ throughout \subseteq Between(1, last)
      BY <1>1, <1>5 DEF DispatcherInv, LoopExact
    <3>2. \A i \in 1..last : m_callbacks'[i] = m_callbacks[i]
      BY <1>2, <1>3, <3>1 DEF DispatcherTypeOK
    <3>3. Between(1, last)' = Between(1, last)
      BY <1>1, <3>2 DEF Between
    <3> QED
      BY <1>2, <1>3, <3>1, <3>2, <3>3 DEF DispatcherTypeOK
  <2>5. DyingExact' /\ DeadExact' /\ NoDeadUse'
    BY <1>1, <1>5 DEF DyingExact, DeadExact, NoDeadUse
  <2> QED
    BY <1>4, <2>3, <2>4, <2>5 DEF DispatcherInv
<1>6. CASE dispatcher = "dying"
  BY <1>1, <1>4, <1>6
     DEF DispatcherInv, SubscribersExact, LoopExact, DyingExact, DeadExact, NoDeadUse
<1> QED
  BY <1>1, <1>2, <1>5, <1>6 DEF DispatcherTypeOK

LEMMA ConnectNullInv ==
  ASSUME DispatcherInv, NEW c \in CallBack, ConnectNull(c)
  PROVE  DispatcherInv'
<1> USE DEF ConnectNull, MayCall, vector, loop
<1>1. DispatcherTypeOK'
  BY DEF DispatcherInv, DispatcherTypeOK
<1>2. SubscribersExact' /\ NoDeadUse'
  BY DEF DispatcherInv, SubscribersExact, NoDeadUse
<1>3. LoopExact' /\ DeadExact'
  BY DEF DispatcherInv, LoopExact, DeadExact, Looping, Between
<1>4. DyingExact'
  BY DEF DispatcherInv, DyingExact, Distinct, Between
<1> QED
  BY <1>1, <1>2, <1>3, <1>4 DEF DispatcherInv

LEMMA DisconnectInv ==
  ASSUME DispatcherInv, NEW c \in CallBack, Disconnect(c)
  PROVE  DispatcherInv'
<1>1. /\ ~fault /\ c \in alive
      /\ alive' = alive \ {c} /\ bound' = bound \ {c} /\ throughout' = throughout \ {c}
      /\ disturbed' = (disturbed \/ (Looping /\ c \in bound))
      /\ UNCHANGED <<capacity, dispatcher, iter, last, moved, notified>>
  BY DEF Disconnect, MayCall
<1>2. DispatcherTypeOK
  BY DEF DispatcherInv
<1>3. DispatcherTypeOK'
  <2>1. size' \in Nat /\ m_callbacks' \in [1..size' -> CallBack]
    <3>1. CASE Remove(c)
      BY <1>2, <3>1, RemoveTypes
    <3>2. CASE UNCHANGED <<size, m_callbacks>>
      BY <1>2, <3>2 DEF DispatcherTypeOK
    <3> QED
      BY <3>1, <3>2 DEF Disconnect
  <2>2. disturbed' \in BOOLEAN
    BY <1>1
  <2>3. fault' \in BOOLEAN
    BY <1>2 DEF Disconnect, DispatcherTypeOK
  <2> QED
    BY <1>1, <1>2, <2>1, <2>2, <2>3 DEF DispatcherTypeOK
<1>4. CASE c \notin bound
  <2>1. UNCHANGED <<size, m_callbacks, fault>> /\ bound' = bound /\ disturbed' = disturbed
    BY <1>1, <1>2, <1>4 DEF Disconnect, DispatcherTypeOK
  <2>2. SubscribersExact' /\ NoDeadUse'
    BY <1>1, <1>4, <2>1 DEF DispatcherInv, SubscribersExact, NoDeadUse
  <2>3. LoopExact' /\ DeadExact'
    BY <1>1, <2>1 DEF DispatcherInv, LoopExact, DeadExact, Looping, Between
  <2>4. DyingExact'
    BY <1>1, <1>4, <2>1 DEF DispatcherInv, DyingExact, Distinct, Between
  <2> QED
    BY <1>3, <2>2, <2>3, <2>4 DEF DispatcherInv
<1>5. CASE c \in bound /\ dispatcher = "alive"
  <2>1. Distinct /\ Between(1, size) = bound /\ bound \subseteq alive
    BY <1>1, <1>5 DEF DispatcherInv, SubscribersExact, Distinct, Between
  <2>2. Remove(c) /\ fault' = fault
    BY <1>5 DEF Disconnect
  <2>3. Distinct' /\ Between(1, size)' = bound \ {c}
    BY <1>2, <1>5, <2>1, <2>2, RemoveDeletes
  <2>4. SubscribersExact'
    BY <1>1, <2>1, <2>3 DEF SubscribersExact, Distinct, Between
  <2>5. LoopExact' /\ DyingExact' /\ DeadExact' /\ NoDeadUse'
    BY <1>1, <1>5, <2>2 DEF LoopExact, DyingExact, DeadExact, NoDeadUse, Looping
  <2> QED
    BY <1>3, <2>4, <2>5 DEF DispatcherInv
<1>6. CASE c \in bound /\ dispatcher = "dying"
  <2>1. disturbed'
    <3>1. CASE ~disturbed
      <4>1. bound = Between(iter, last) /\ iter \in Nat /\ last \in Nat
        BY <1>6, <3>1 DEF DispatcherInv, DispatcherTypeOK, DyingExact
      <4>2. iter <= last
        BY <1>6, <4>1 DEF Between
      <4> QED
        BY <1>1, <1>6, <4>2 DEF Looping
    <3> QED
      BY <1>1, <3>1
  <2> QED
    BY <1>1, <1>3, <1>6, <2>1
       DEF DispatcherInv, SubscribersExact, LoopExact, DyingExact, DeadExact, NoDeadUse
<1>7. CASE c \in bound /\ dispatcher = "dead"
  <2>1. disturbed /\ ~Looping
    BY <1>7 DEF DispatcherInv, DeadExact
  <2> QED
    BY <1>1, <1>3, <1>7, <2>1
       DEF DispatcherInv, SubscribersExact, LoopExact, DyingExact, DeadExact, NoDeadUse, Looping
<1> QED
  BY <1>2, <1>4, <1>5, <1>6, <1>7 DEF DispatcherTypeOK

LEMMA NotifyAllInv ==
  ASSUME DispatcherInv, NotifyAll
  PROVE  DispatcherInv'
<1> USE DEF NotifyAll, vector
<1>1. DispatcherTypeOK'
  <2>1. moved' \in BOOLEAN /\ disturbed' \in BOOLEAN /\ fault' \in BOOLEAN
    BY DEF DispatcherInv, DispatcherTypeOK
  <2>2. iter' \in Nat \ {0} /\ last' \in Nat /\ notified' \in [CallBack -> Nat]
    BY DEF DispatcherInv, DispatcherTypeOK
  <2> QED
    BY <2>1, <2>2 DEF DispatcherInv, DispatcherTypeOK
<1>2. SubscribersExact' /\ DyingExact' /\ DeadExact' /\ NoDeadUse'
  BY DEF DispatcherInv, SubscribersExact, DyingExact, DeadExact, NoDeadUse
<1>3. LoopExact'
  <2>1. bound = Between(1, size)
    BY DEF DispatcherInv, SubscribersExact, Between
  <2>2. size \in Nat /\ \A i \in 1..size : m_callbacks[i] \in CallBack
    BY DEF DispatcherInv, DispatcherTypeOK
  <2>3. Between(1, last)' = Between(1, size)
    BY DEF Between
  <2> QED
    BY <2>1, <2>2, <2>3 DEF LoopExact
<1> QED
  BY <1>1, <1>2, <1>3 DEF DispatcherInv

\* While no action method has deleted a subscribed callback or made the vector grow, NotifyAll()'s
\* iterator points at a callback that exists.
LEMMA IterIsValid ==
  ASSUME DispatcherInv, ~fault, dispatcher = "alive", Looping, ~disturbed, ~moved
  PROVE  IterValid
<1>1. iter \in 1..size
  BY DEF DispatcherInv, DispatcherTypeOK, LoopExact, Looping
<1> QED
  BY <1>1 DEF IterValid, DispatcherInv, DispatcherTypeOK, SubscribersExact

LEMMA NotifyInv ==
  ASSUME DispatcherInv, Notify
  PROVE  DispatcherInv'
<1>1. /\ ~fault /\ dispatcher = "alive" /\ Looping
      /\ UNCHANGED <<vector, alive, bound, dispatcher, last, moved, disturbed, throughout>>
  BY DEF Notify
<1>2. CASE ~IterValid
  <2>1. fault' = TRUE /\ UNCHANGED <<notified, iter>>
    BY <1>2 DEF Notify
  <2>2. disturbed \/ moved
    BY <1>1, <1>2, IterIsValid
  <2>3. DispatcherTypeOK'
    BY <1>1, <2>1 DEF DispatcherInv, DispatcherTypeOK, vector
  <2>4. SubscribersExact' /\ LoopExact' /\ DyingExact' /\ DeadExact' /\ NoDeadUse'
    BY <1>1, <2>1, <2>2 DEF SubscribersExact, LoopExact, DyingExact, DeadExact, NoDeadUse
  <2> QED
    BY <2>3, <2>4 DEF DispatcherInv
<1>3. CASE IterValid
  <2>1. /\ notified' = [notified EXCEPT ![m_callbacks[iter]] = @ + 1]
        /\ iter' = iter + 1 /\ fault' = fault
    BY <1>3 DEF Notify
  <2>2. iter \in 1..size /\ m_callbacks[iter] \in CallBack
    BY <1>3 DEF IterValid, DispatcherInv, DispatcherTypeOK
  <2>3. DispatcherTypeOK'
    BY <1>1, <2>1, <2>2 DEF DispatcherInv, DispatcherTypeOK, vector
  <2>4. SubscribersExact' /\ DyingExact' /\ DeadExact' /\ NoDeadUse'
    BY <1>1, <2>1 DEF DispatcherInv, SubscribersExact, DyingExact, DeadExact, NoDeadUse, vector
  <2>5. LoopExact'
    <3> SUFFICES ASSUME ~disturbed
                 PROVE  /\ last <= size
                        /\ \A i \in 1..last :
                             notified'[m_callbacks[i]] = IF i < iter + 1 THEN 1 ELSE 0
                        /\ throughout \subseteq Between(1, last)
      BY <1>1, <2>1 DEF LoopExact, Looping, Between, vector
    <3>1. /\ last <= size
          /\ \A i \in 1..last : notified[m_callbacks[i]] = IF i < iter THEN 1 ELSE 0
          /\ throughout \subseteq Between(1, last)
      BY <1>1 DEF DispatcherInv, LoopExact
    <3>2. \A i, j \in 1..size : m_callbacks[i] = m_callbacks[j] => i = j
      BY <1>1 DEF DispatcherInv, SubscribersExact
    <3>3. \A i \in 1..last : m_callbacks[i] \in CallBack /\ i \in 1..size
      BY <3>1 DEF DispatcherInv, DispatcherTypeOK
    <3>4. ASSUME NEW i \in 1..last
          PROVE  notified'[m_callbacks[i]] = IF i < iter + 1 THEN 1 ELSE 0
      <4>1. CASE i = iter
        BY <2>1, <2>2, <3>1, <4>1 DEF DispatcherInv, DispatcherTypeOK
      <4>2. CASE i # iter
        <5>1. notified'[m_callbacks[i]] = notified[m_callbacks[i]]
          BY <2>1, <2>2, <3>2, <3>3, <4>2 DEF DispatcherInv, DispatcherTypeOK
        <5> QED
          BY <2>2, <3>1, <4>2, <5>1 DEF DispatcherInv, DispatcherTypeOK
      <4> QED
        BY <4>1, <4>2
    <3> QED
      BY <3>1, <3>4
  <2> QED
    BY <2>3, <2>4, <2>5 DEF DispatcherInv
<1> QED
  BY <1>2, <1>3

LEMMA DestroyInv ==
  ASSUME DispatcherInv, Destroy
  PROVE  DispatcherInv'
<1> USE DEF Destroy, vector
<1>1. DispatcherTypeOK'
  <2>1. moved' \in BOOLEAN /\ disturbed' \in BOOLEAN /\ fault' \in BOOLEAN
    BY DEF DispatcherInv, DispatcherTypeOK
  <2>2. iter' \in Nat \ {0} /\ last' \in Nat
    BY DEF DispatcherInv, DispatcherTypeOK
  <2> QED
    BY <2>1, <2>2 DEF DispatcherInv, DispatcherTypeOK
<1>2. SubscribersExact' /\ LoopExact' /\ DeadExact' /\ NoDeadUse'
  BY DEF SubscribersExact, LoopExact, DeadExact, NoDeadUse
<1>3. DyingExact'
  BY DEF DispatcherInv, DispatcherTypeOK, SubscribersExact, DyingExact, Distinct, Between
<1> QED
  BY <1>1, <1>2, <1>3 DEF DispatcherInv

\* While no stop method has disturbed it, so does ~Dispatcher()'s.
LEMMA DyingIterIsValid ==
  ASSUME DispatcherInv, dispatcher = "dying", Looping, ~disturbed
  PROVE  IterValid
<1>1. /\ ~moved /\ last = size /\ bound = Between(iter, last) /\ bound \subseteq alive
      /\ iter \in 1..size
  BY DEF DispatcherInv, DispatcherTypeOK, DyingExact, Looping
<1>2. m_callbacks[iter] \in Between(iter, last)
  BY <1>1 DEF Between, DispatcherInv, DispatcherTypeOK
<1> QED
  BY <1>1, <1>2 DEF IterValid

LEMMA OutOfServiceInv ==
  ASSUME DispatcherInv, OutOfService
  PROVE  DispatcherInv'
<1>1. /\ dispatcher = "dying" /\ Looping
      /\ UNCHANGED <<vector, alive, dispatcher, last, moved, disturbed, notified, throughout>>
  BY DEF OutOfService
<1>2. CASE ~IterValid
  <2>1. fault' = TRUE /\ UNCHANGED <<bound, iter>>
    BY <1>2 DEF OutOfService
  <2>2. disturbed
    BY <1>1, <1>2, DyingIterIsValid
  <2>3. DispatcherTypeOK'
    BY <1>1, <2>1 DEF DispatcherInv, DispatcherTypeOK, vector
  <2>4. SubscribersExact' /\ LoopExact' /\ DyingExact' /\ DeadExact' /\ NoDeadUse'
    BY <1>1, <2>1, <2>2 DEF SubscribersExact, LoopExact, DyingExact, DeadExact, NoDeadUse
  <2> QED
    BY <2>3, <2>4 DEF DispatcherInv
<1>3. CASE IterValid
  <2>1. bound' = bound \ {m_callbacks[iter]} /\ iter' = iter + 1 /\ fault' = fault
    BY <1>3 DEF OutOfService
  <2>2. DispatcherTypeOK'
    BY <1>1, <2>1 DEF DispatcherInv, DispatcherTypeOK, vector
  <2>3. SubscribersExact' /\ LoopExact' /\ DeadExact' /\ NoDeadUse'
    BY <1>1, <2>1 DEF DispatcherInv, SubscribersExact, LoopExact, DeadExact, NoDeadUse
  <2>4. DyingExact'
    <3> SUFFICES ASSUME ~disturbed
                 PROVE  /\ ~fault /\ ~moved /\ Distinct /\ last = size /\ iter + 1 <= last + 1
                        /\ bound' = Between(iter + 1, last) /\ bound' \subseteq alive
      BY <1>1, <2>1 DEF DyingExact, Distinct, Between, vector
    <3>1. /\ ~fault /\ ~moved /\ Distinct /\ last = size
          /\ bound = Between(iter, last) /\ bound \subseteq alive
          /\ iter \in 1..size /\ size \in Nat
      BY <1>1 DEF DispatcherInv, DispatcherTypeOK, DyingExact, Looping
    <3>2. \A x : (\E i \in (iter + 1)..last : x = m_callbacks[i])
                   <=> (\E i \in iter..last : x = m_callbacks[i]) /\ x # m_callbacks[iter]
      BY <3>1 DEF Distinct
    <3>3. bound' = Between(iter + 1, last)
      BY <2>1, <3>1, <3>2 DEF Between
    <3> QED
      BY <2>1, <3>1, <3>3
  <2> QED
    BY <2>2, <2>3, <2>4 DEF DispatcherInv
<1> QED
  BY <1>2, <1>3

LEMMA DestroyedInv ==
  ASSUME DispatcherInv, Destroyed
  PROVE  DispatcherInv'
<1> USE DEF Destroyed, loop
<1>1. DispatcherTypeOK'
  BY DEF DispatcherInv, DispatcherTypeOK
<1>2. SubscribersExact' /\ LoopExact' /\ DyingExact' /\ NoDeadUse'
  BY DEF SubscribersExact, LoopExact, DyingExact, NoDeadUse
<1>3. ~disturbed => bound = {}
  <2> SUFFICES ASSUME ~disturbed PROVE bound = {}
    OBVIOUS
  <2>1. bound = Between(iter, last) /\ iter \in Nat /\ last \in Nat /\ ~(iter <= last)
    BY DEF DispatcherInv, DispatcherTypeOK, DyingExact, Looping
  <2> QED
    BY <2>1 DEF Between
<1>4. DeadExact'
  BY <1>3 DEF DeadExact, Looping
<1> QED
  BY <1>1, <1>2, <1>4 DEF DispatcherInv

\* The invariant holds in every state, whoever makes and deletes callbacks when.
LEMMA DispatcherInvariant == DispatcherSpec => []DispatcherInv
<1>1. DispatcherInv /\ DispatcherNext => DispatcherInv'
  BY ConnectInv, ConnectNullInv, DisconnectInv, NotifyAllInv, NotifyInv, DestroyInv,
     OutOfServiceInv, DestroyedInv DEF DispatcherNext
<1>2. DispatcherInv /\ UNCHANGED dispatcherVars => DispatcherInv'
  BY DEF dispatcherVars, vector, loop, DispatcherInv, DispatcherTypeOK, SubscribersExact,
         LoopExact, DyingExact, DeadExact, NoDeadUse, Looping, Distinct, Between
<1> QED
  BY DispatcherInitInv, <1>1, <1>2, PTL DEF DispatcherSpec

-----------------------------------------------------------------------------
\* Remove()'s swaps keep the vector and the callbacks' own view of who is subscribed the
\* same, in every order of constructions, deletions and notifications.
THEOREM SubscribersExactCorrect == DispatcherSpec => []SubscribersExact
BY DispatcherInvariant, PTL DEF DispatcherInv

\* NotifyAll() and ~Dispatcher() call a dead callback, and a callback a dead dispatcher,
\* only when a method that the loop has called broke it: deleted a callback that was still
\* subscribed, or subscribed one to a full vector or to the dying dispatcher.  As long as
\* the action and stop methods delete only callbacks that are cut off already, there is
\* no such use, whoever makes and deletes callbacks outside of the loops.
THEOREM NoDeadUseCorrect == DispatcherSpec => []NoDeadUse
BY DispatcherInvariant, PTL DEF DispatcherInv

\* NotifyAll() reaches every callback that was subscribed all the time, once, unless an
\* action method has deleted a subscribed callback.
THEOREM AllNotifiedCorrect == DispatcherSpec => AllNotified
<1> DEFINE reaches ==
      dispatcher = "alive" /\ iter = last /\ iter' > last /\ ~disturbed
        => \A c \in throughout : notified'[c] = 1
<1>1. DispatcherInv /\ [DispatcherNext]_dispatcherVars => [reaches]_dispatcherVars
  <2> SUFFICES ASSUME DispatcherInv, DispatcherNext, dispatcher = "alive",
                      iter = last, iter' > last, ~disturbed,
                      NEW c \in throughout
               PROVE  notified'[c] = 1
    OBVIOUS
  <2>0. iter \in Nat \ {0} /\ last \in Nat /\ Looping
    BY DEF DispatcherInv, DispatcherTypeOK, Looping
  <2>1. Notify
    BY <2>0 DEF DispatcherNext, Connect, ConnectNull, Disconnect, NotifyAll, Destroy,
                OutOfService, Destroyed, loop
  <2>2. /\ IterValid /\ ~fault
        /\ notified' = [notified EXCEPT ![m_callbacks[iter]] = @ + 1]
    BY <2>0, <2>1 DEF Notify
  <2>3. /\ last <= size
        /\ \A i \in 1..last : notified[m_callbacks[i]] = IF i < iter THEN 1 ELSE 0
        /\ throughout \subseteq Between(1, last)
    BY <2>0, <2>2 DEF DispatcherInv, LoopExact
  <2>4. PICK i \in 1..last : c = m_callbacks[i]
    BY <2>3 DEF Between
  <2>5. m_callbacks[iter] \in CallBack /\ c \in CallBack /\ notified \in [CallBack -> Nat]
    BY <2>0, <2>3 DEF DispatcherInv, DispatcherTypeOK
  <2>6. CASE i = iter
    <3>1. notified[c] = 0
      BY <2>3, <2>4, <2>6
    <3> QED
      BY <2>2, <2>4, <2>5, <2>6, <3>1
  <2>7. CASE i # iter
    <3>1. i < iter /\ m_callbacks[i] # m_callbacks[iter]
      BY <2>0, <2>2, <2>3, <2>7 DEF DispatcherInv, DispatcherTypeOK, SubscribersExact
    <3> QED
      BY <2>2, <2>3, <2>4, <2>5, <3>1
  <2> QED
    BY <2>6, <2>7
<1> QED
  BY DispatcherInvariant, <1>1, PTL DEF DispatcherSpec, AllNotified

-----------------------------------------------------------------------------
(***************************************************************************)
(* Handleton: of the threads in the double-checked locking of              *)
(* GetInstance() one at most constructs an instance, and no thread sees it *)
(* earlier.  The inductive invariant says who is between lock and unlock,  *)
(* and what has been constructed by then.                                  *)
(***************************************************************************)

\* Where a thread is between lock_guard's constructor and its destructor.
Critical == {"second", "construct", "reset", "store", "unlock"}

\* The holder of s_mutex, and no other thread, is there.
BuilderHolds == \A t \in Caller : at[t] \in Critical <=> s_mutex = t

\* What the holder has done so far: only behind its second load is there no instance that
\* it could have seen, and only behind the constructor is there one it has not yet stored.
Progress ==
  /\ \A t \in Caller : at[t] \in {"construct", "reset", "store"} => s_instance = 0 /\ tmp[t] # 0
  /\ \A t \in Caller : at[t] \in {"reset", "store"} => built = {tmp[t]}
  /\ \A t \in Caller : at[t] \in {"unlock", "return"} => s_instance # 0 /\ tmp[t] = s_instance
  /\ s_instance # 0 => built = {s_instance}
  /\ s_instance = 0 /\ (\A t \in Caller : at[t] \notin {"reset", "store"}) => built = {}

HandletonInv == HandletonTypeOK /\ BuilderHolds /\ Progress

-----------------------------------------------------------------------------
\* Before the first call nothing is locked and nothing is constructed.
LEMMA HandletonInitInv == HandletonInit => HandletonInv
BY HandletonAssumption
   DEF HandletonInit, HandletonInv, HandletonTypeOK, BuilderHolds, Progress, Critical, CallPlace

\* Any two threads between lock and unlock are the same thread.
LEMMA OneInside ==
  ASSUME BuilderHolds, NEW t \in Caller, NEW u \in Caller, at[t] \in Critical, at[u] \in Critical
  PROVE  t = u
BY DEF BuilderHolds

\* A step of GetInstance() in one thread preserves the invariant.
LEMMA GetInstanceInv ==
  ASSUME HandletonInv, NEW t \in Caller, GetInstance(t)
  PROVE  HandletonInv'
<1> USE DEF HandletonInv, HandletonTypeOK, Go, statics, heap
<1>1. CASE FirstLoad(t)
  <2>1. HandletonTypeOK'
    BY <1>1 DEF FirstLoad, CallPlace
  <2>2. BuilderHolds'
    BY <1>1 DEF FirstLoad, BuilderHolds, Critical
  <2>3. Progress'
    BY <1>1 DEF FirstLoad, Progress
  <2> QED
    BY <2>1, <2>2, <2>3
<1>2. CASE Lock(t)
  <2>1. HandletonTypeOK'
    BY <1>2 DEF Lock, CallPlace
  <2>2. BuilderHolds'
    BY <1>2, HandletonAssumption DEF Lock, BuilderHolds, Critical
  <2>3. Progress'
    BY <1>2 DEF Lock, Progress
  <2> QED
    BY <2>1, <2>2, <2>3
<1>3. CASE SecondLoad(t)
  <2>1. HandletonTypeOK'
    BY <1>3 DEF SecondLoad, CallPlace
  <2>2. BuilderHolds'
    BY <1>3 DEF SecondLoad, BuilderHolds, Critical
  <2>3. Progress'
    BY <1>3 DEF SecondLoad, Progress
  <2> QED
    BY <2>1, <2>2, <2>3
<1>4. CASE Construct(t)
  <2>1. HandletonTypeOK'
    BY <1>4 DEF Construct, CallPlace
  <2>2. BuilderHolds'
    BY <1>4 DEF Construct, BuilderHolds, Critical
  <2>3. \A u \in Caller : at[u] \in Critical => u = t
    BY <1>4, OneInside DEF Construct, Critical
  <2>4. built = {}
    BY <1>4, <2>3 DEF Construct, Critical, Progress
  <2>5. Progress'
    BY <1>4, <2>3, <2>4 DEF Construct, Critical, Progress
  <2> QED
    BY <2>1, <2>2, <2>5
<1>5. CASE ConstructThrows(t)
  <2>1. HandletonTypeOK'
    BY <1>5 DEF ConstructThrows, CallPlace
  <2>2. BuilderHolds'
    BY <1>5, HandletonAssumption DEF ConstructThrows, BuilderHolds, Critical
  <2>3. Progress'
    BY <1>5 DEF ConstructThrows, Progress
  <2> QED
    BY <2>1, <2>2, <2>3
<1>6. CASE Reset(t)
  <2>1. HandletonTypeOK'
    BY <1>6 DEF Reset, CallPlace
  <2>2. BuilderHolds'
    BY <1>6 DEF Reset, BuilderHolds, Critical
  <2>3. Progress'
    BY <1>6 DEF Reset, Progress
  <2> QED
    BY <2>1, <2>2, <2>3
<1>7. CASE Store(t)
  <2>1. HandletonTypeOK'
    BY <1>7 DEF Store, CallPlace
  <2>2. BuilderHolds'
    BY <1>7 DEF Store, BuilderHolds, Critical
  <2>3. \A u \in Caller : at[u] \in Critical => u = t
    BY <1>7, OneInside DEF Store, Critical
  <2>4. Progress'
    BY <1>7, <2>3 DEF Store, Critical, Progress
  <2> QED
    BY <2>1, <2>2, <2>4
<1>8. CASE Unlock(t)
  <2>1. HandletonTypeOK'
    BY <1>8 DEF Unlock, CallPlace
  <2>2. BuilderHolds'
    BY <1>8, HandletonAssumption DEF Unlock, BuilderHolds, Critical
  <2>3. Progress'
    BY <1>8 DEF Unlock, Progress
  <2> QED
    BY <2>1, <2>2, <2>3
<1>9. CASE Return(t)
  <2>1. HandletonTypeOK'
    BY <1>9 DEF Return, CallPlace
  <2>2. BuilderHolds'
    BY <1>9 DEF Return, BuilderHolds, Critical
  <2>3. Progress'
    BY <1>9 DEF Return, Progress
  <2> QED
    BY <2>1, <2>2, <2>3
<1> QED
  BY <1>1, <1>2, <1>3, <1>4, <1>5, <1>6, <1>7, <1>8, <1>9 DEF GetInstance

\* ReleaseResources() changes nothing that the invariant is about but s_ptr.
LEMMA ReleaseInv == HandletonInv /\ ReleaseResources => HandletonInv'
BY DEF HandletonInv, ReleaseResources, HandletonTypeOK, BuilderHolds, Progress, statics, heap

\* A step that changes nothing preserves the invariant.
LEMMA HandletonStutterInv == HandletonInv /\ UNCHANGED handletonVars => HandletonInv'
BY DEF HandletonInv, HandletonTypeOK, BuilderHolds, Progress, handletonVars, statics, heap

\* The invariant holds in every state, whatever the threads do.
LEMMA HandletonInvariant == HandletonSpec => []HandletonInv
<1>1. HandletonInv /\ [HandletonNext]_handletonVars => HandletonInv'
  BY GetInstanceInv, ReleaseInv, HandletonStutterInv DEF HandletonNext
<1> QED
  BY HandletonInitInv, <1>1, PTL DEF HandletonSpec

-----------------------------------------------------------------------------
\* "there is only one instance of a class" (handleton.hpp): no interleaving of
\* GetInstance() and ReleaseResources() constructs a second T.
THEOREM OneInstanceCorrect == HandletonSpec => []OneInstance
<1>1. HandletonInv => OneInstance
  <2> SUFFICES ASSUME HandletonInv, NEW x \in built, NEW y \in built PROVE x = y
    BY DEF OneInstance
  <2>1. CASE s_instance # 0
    BY <2>1 DEF HandletonInv, Progress
  <2>2. CASE \E t \in Caller : at[t] \in {"reset", "store"}
    BY <2>2 DEF HandletonInv, Progress
  <2>3. CASE s_instance = 0 /\ \A t \in Caller : at[t] \notin {"reset", "store"}
    BY <2>3 DEF HandletonInv, Progress
  <2> QED
    BY <2>1, <2>2, <2>3
<1> QED
  BY HandletonInvariant, <1>1, PTL

\* The pointer that GetInstance() returns, with or without the lock, and the one that the
\* first load of another thread finds, point at a T whose constructor has ended.
THEOREM SeenIsBuiltCorrect == HandletonSpec => []SeenIsBuilt
<1>1. HandletonInv => SeenIsBuilt
  BY DEF HandletonInv, Progress, SeenIsBuilt
<1> QED
  BY HandletonInvariant, <1>1, PTL
=============================================================================
