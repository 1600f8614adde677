-------------------------- MODULE ThreadPoolProofs --------------------------
(***************************************************************************)
(* Safety of ThreadPool for every number of threads and every set of       *)
(* tasks.  The inductive invariant is TypeOK /\ Accounting /\ RunsOnce: it  *)
(* counts the threads at each point of ThreadFunc(), so a step of a thread *)
(* is reduced to moving one thread from one point to another (PcMove), and *)
(* what is left is arithmetic.                                             *)
(***************************************************************************)
EXTENDS ThreadPool, FiniteSetTheorems, TLAPS

Inv == TypeOK /\ Accounting /\ RunsOnce

-----------------------------------------------------------------------------
(* Counting threads.                                                       *)

\* CheackNum() leaves a pool with at least one thread.
LEMMA NPositive == N \in Nat /\ N > 0
  BY ThreadAssumption, FS_CardinalityType, FS_EmptySet DEF N

\* There are at most N threads at a point of ThreadFunc(), N if all are there.
LEMMA CountBound ==
  ASSUME NEW l \in ThreadPC
  PROVE  /\ At(l) \subseteq Thread /\ IsFiniteSet(At(l))
         /\ count[l] = Cardinality(At(l))
         /\ count[l] \in Nat /\ count[l] <= N
         /\ count[l] = N => At(l) = Thread
         /\ count[l] = 0 <=> At(l) = {}
<1>1. At(l) \subseteq Thread
  BY DEF At
<1>2. IsFiniteSet(At(l))
  BY <1>1, ThreadAssumption, FS_Subset
<1>3. count[l] = Cardinality(At(l))
  BY DEF count, At
<1> QED
  BY <1>1, <1>2, <1>3, ThreadAssumption, FS_Subset, FS_CardinalityType, FS_EmptySet DEF N

\* Threads at three different points are different threads.
LEMMA CountDisjoint ==
  ASSUME NEW a \in ThreadPC, NEW b \in ThreadPC, NEW c \in ThreadPC,
         a # b, a # c, b # c
  PROVE  count[a] + count[b] + count[c] <= N
<1>1. At(a) \cap At(b) = {} /\ (At(a) \cup At(b)) \cap At(c) = {}
  BY DEF At
<1>2. IsFiniteSet(At(a)) /\ IsFiniteSet(At(b)) /\ IsFiniteSet(At(c))
  BY CountBound
<1>3. /\ IsFiniteSet(At(a) \cup At(b))
      /\ Cardinality(At(a) \cup At(b)) = Cardinality(At(a)) + Cardinality(At(b)) - Cardinality({})
  BY <1>1, <1>2, FS_Union
<1>4. Cardinality((At(a) \cup At(b)) \cup At(c))
        = Cardinality(At(a) \cup At(b)) + Cardinality(At(c)) - Cardinality({})
  BY <1>1, <1>2, <1>3, FS_Union
<1>5. (At(a) \cup At(b)) \cup At(c) \subseteq Thread
  BY CountBound
<1>6. Cardinality((At(a) \cup At(b)) \cup At(c)) <= N
  BY <1>5, ThreadAssumption, FS_Subset DEF N
<1>7. /\ count[a] \in Nat /\ count[b] \in Nat /\ count[c] \in Nat
      /\ count[a] = Cardinality(At(a)) /\ count[b] = Cardinality(At(b))
      /\ count[c] = Cardinality(At(c)) /\ Cardinality({}) = 0
  BY CountBound, FS_EmptySet
<1> QED
  BY <1>3, <1>4, <1>6, <1>7, NPositive

\* One thread moves from a to b: the counts at a and b change by one.
LEMMA PcMove ==
  ASSUME pc \in [Thread -> ThreadPC],
         NEW t \in Thread, NEW a \in ThreadPC, NEW b \in ThreadPC,
         pc[t] = a, a # b, pc' = [pc EXCEPT ![t] = b]
  PROVE  count[a] > 0 /\ count' = [count EXCEPT ![a] = @ - 1, ![b] = @ + 1]
<1> DEFINE here(l) == {u \in Thread : pc[u] = l}
           next(l) == {u \in Thread : pc'[u] = l}
<1>1. next(a) = here(a) \ {t} /\ t \in here(a)
  OBVIOUS
<1>2. next(b) = here(b) \cup {t} /\ t \notin here(b)
  OBVIOUS
<1>3. \A l \in ThreadPC : l # a /\ l # b => next(l) = here(l)
  OBVIOUS
<1>4. \A l \in ThreadPC : IsFiniteSet(here(l)) /\ Cardinality(here(l)) \in Nat
  BY ThreadAssumption, FS_Subset, FS_CardinalityType
<1>5. Cardinality(next(a)) = Cardinality(here(a)) - 1
  BY <1>1, <1>4, FS_RemoveElement
<1>6. Cardinality(next(b)) = Cardinality(here(b)) + 1
  BY <1>2, <1>4, FS_AddElement
<1>7. Cardinality(here(a)) # 0
  BY <1>1, <1>4, FS_EmptySet
<1>8. /\ count = [l \in ThreadPC |-> Cardinality(here(l))]
      /\ count' = [l \in ThreadPC |-> Cardinality(next(l))]
  BY DEF count
<1> HIDE DEF here, next
<1> QED
  BY <1>3, <1>4, <1>5, <1>6, <1>7, <1>8

\* No thread moves: no count changes.
LEMMA PcSame ==
  ASSUME pc' = pc
  PROVE  count' = count
BY DEF count

\* What the provers need to know of the counts to do arithmetic with them.
LEMMA CountType == count \in [ThreadPC -> Nat] /\ count["sus_wait"] <= N
<1>1. \A l \in ThreadPC : count[l] \in Nat
  BY CountBound
<1> QED
  BY <1>1, CountBound DEF count, ThreadPC

-----------------------------------------------------------------------------
\* A pool whose threads have just been started satisfies the invariant.
LEMMA InitInv == Init => Inv
<1> SUFFICES ASSUME Init PROVE Inv
  OBVIOUS
<1>0. IsFiniteSet({}) /\ Cardinality({}) = 0
  BY FS_EmptySet
<1>1. TypeOK
  <2>1. terminated \in BOOLEAN
    BY DEF Init
  <2>2. pc \in [Thread -> ThreadPC] /\ \A t \in Thread : pc[t] = "wait"
    BY DEF Init, ThreadPC
  <2>3. task \in [Thread -> Task \cup {None}] /\ \A t \in Thread : task[t] = None
    BY DEF Init
  <2>4. m_pq \in SUBSET Task /\ IsFiniteSet(m_pq) /\ finished \in SUBSET Task
    BY <1>0 DEF Init
  <2>5. main \in MainPC /\ cnt \in 0..N
    BY NPositive DEF Init, MainPC
  <2> QED
    BY <2>1, <2>2, <2>3, <2>4, <2>5 DEF TypeOK, Init
<1>2. \A l \in ThreadPC : l # "wait" => At(l) = {}
  BY DEF Init, At
<1>3. \A l \in ThreadPC : l # "wait" => count[l] = 0
  BY <1>2, CountBound
<1>4. Accounting
  BY <1>0, <1>3, NPositive
     DEF Init, Accounting, QueueAccounting, SuspendAccounting, StopAccounting, ThreadPC
<1>5. RunsOnce
  BY <1>2 DEF Init, RunsOnce, ThreadPC
<1> QED
  BY <1>1, <1>4, <1>5 DEF Inv

-----------------------------------------------------------------------------
(* Each action preserves Inv.                                              *)

\* A step that leaves the user tasks where they are preserves RunsOnce.
LEMMA RunsOnceFrame ==
  ASSUME RunsOnce, m_pq' = m_pq, finished' = finished, task' = task,
         At("exec")' = At("exec")
  PROVE  RunsOnce'
BY DEF RunsOnce

\* The size of the queue is a number.
LEMMA QueueSizeNat == TypeOK => Cardinality(m_pq) \in Nat
BY FS_CardinalityType DEF TypeOK

\* Pop()'s Wait() trades a token of m_sem for a thread before LockAndPop().
LEMMA PopWaitInv ==
  ASSUME Inv, NEW t \in Thread, PopWait(t)
  PROVE  Inv'
<1> USE DEF PopWait, queue, sems
<1>1. TypeOK'
  BY NPositive DEF Inv, TypeOK, ThreadPC
<1>2. count["wait"] > 0 /\ count' = [count EXCEPT !["wait"] = @ - 1, !["pop"] = @ + 1]
  <2>1. /\ t \in Thread /\ pc \in [Thread -> ThreadPC] /\ pc[t] = "wait"
        /\ pc' = [pc EXCEPT ![t] = "pop"] /\ "wait" # "pop"
    BY DEF Inv, TypeOK
  <2> QED
    BY <2>1, PcMove DEF ThreadPC
<1>3. QueueAccounting'
  BY <1>2, CountType, QueueSizeNat DEF Inv, ThreadPC, TypeOK, Accounting, QueueAccounting
<1>4. SuspendAccounting'
  BY <1>2, CountType, NPositive DEF Inv, ThreadPC, TypeOK, Accounting, SuspendAccounting, MainPC
<1>5. StopAccounting'
  BY <1>2, CountType, NPositive DEF Inv, ThreadPC, TypeOK, Accounting, StopAccounting, MainPC
<1>6. At("exec")' = At("exec")
  BY DEF At, Inv, TypeOK
<1>7. RunsOnce'
  BY <1>6, RunsOnceFrame DEF Inv
<1> QED
  BY <1>1, <1>3, <1>4, <1>5, <1>7 DEF Inv, Accounting

\* LockAndPop() of a TPStop turns it into a thread that is done.
LEMMA PopStopInv ==
  ASSUME Inv, NEW t \in Thread, PopStop(t)
  PROVE  Inv'
<1> USE DEF PopStop, queue, sems
<1>1. TypeOK'
  BY NPositive DEF Inv, TypeOK, ThreadPC
<1>2. count["pop"] > 0 /\ count' = [count EXCEPT !["pop"] = @ - 1, !["done"] = @ + 1]
  <2>1. /\ t \in Thread /\ pc \in [Thread -> ThreadPC] /\ pc[t] = "pop"
        /\ pc' = [pc EXCEPT ![t] = "done"] /\ "pop" # "done"
    BY DEF Inv, TypeOK
  <2> QED
    BY <2>1, PcMove DEF ThreadPC
<1>3. QueueAccounting'
  BY <1>2, CountType, QueueSizeNat DEF Inv, ThreadPC, TypeOK, Accounting, QueueAccounting
<1>4. SuspendAccounting'
  BY <1>2, CountType, NPositive DEF Inv, ThreadPC, TypeOK, Accounting, SuspendAccounting, MainPC
<1>5. StopAccounting'
  BY <1>2, CountType, NPositive DEF Inv, ThreadPC, TypeOK, Accounting, StopAccounting, MainPC
<1>6. At("exec")' = At("exec")
  BY DEF At, Inv, TypeOK
<1>7. RunsOnce'
  BY <1>6, RunsOnceFrame DEF Inv
<1> QED
  BY <1>1, <1>3, <1>4, <1>5, <1>7 DEF Inv, Accounting

\* LockAndPop() of a TPSuspend turns it into a thread in the handshake.
LEMMA PopSuspendInv ==
  ASSUME Inv, NEW t \in Thread, PopSuspend(t)
  PROVE  Inv'
<1> USE DEF PopSuspend, queue, sems
<1>1. TypeOK'
  BY NPositive DEF Inv, TypeOK, ThreadPC
<1>2. count["pop"] > 0 /\ count' = [count EXCEPT !["pop"] = @ - 1, !["sus_post"] = @ + 1]
  <2>1. /\ t \in Thread /\ pc \in [Thread -> ThreadPC] /\ pc[t] = "pop"
        /\ pc' = [pc EXCEPT ![t] = "sus_post"] /\ "pop" # "sus_post"
    BY DEF Inv, TypeOK
  <2> QED
    BY <2>1, PcMove DEF ThreadPC
<1>3. QueueAccounting'
  BY <1>2, CountType, QueueSizeNat DEF Inv, ThreadPC, TypeOK, Accounting, QueueAccounting
<1>4. SuspendAccounting'
  BY <1>2, CountType, NPositive DEF Inv, ThreadPC, TypeOK, Accounting, SuspendAccounting, MainPC
<1>5. StopAccounting'
  BY <1>2, CountType, NPositive DEF Inv, ThreadPC, TypeOK, Accounting, StopAccounting, MainPC
<1>6. At("exec")' = At("exec")
  BY DEF At, Inv, TypeOK
<1>7. RunsOnce'
  BY <1>6, RunsOnceFrame DEF Inv
<1> QED
  BY <1>1, <1>3, <1>4, <1>5, <1>7 DEF Inv, Accounting

\* The first Post() of the handshake adds one token and one waiting thread.
LEMMA SuspendPostInv ==
  ASSUME Inv, NEW t \in Thread, SuspendPost(t)
  PROVE  Inv'
<1> USE DEF SuspendPost, queue, sems
<1>1. TypeOK'
  BY NPositive DEF Inv, TypeOK, ThreadPC
<1>2. count["sus_post"] > 0 /\ count' = [count EXCEPT !["sus_post"] = @ - 1, !["sus_wait"] = @ + 1]
  <2>1. /\ t \in Thread /\ pc \in [Thread -> ThreadPC] /\ pc[t] = "sus_post"
        /\ pc' = [pc EXCEPT ![t] = "sus_wait"] /\ "sus_post" # "sus_wait"
    BY DEF Inv, TypeOK
  <2> QED
    BY <2>1, PcMove DEF ThreadPC
<1>3. QueueAccounting'
  BY <1>2, CountType, QueueSizeNat DEF Inv, ThreadPC, TypeOK, Accounting, QueueAccounting
<1>4. SuspendAccounting'
  BY <1>2, CountType, NPositive DEF Inv, ThreadPC, TypeOK, Accounting, SuspendAccounting, MainPC
<1>5. StopAccounting'
  BY <1>2, CountType, NPositive DEF Inv, ThreadPC, TypeOK, Accounting, StopAccounting, MainPC
<1>6. At("exec")' = At("exec")
  BY DEF At, Inv, TypeOK
<1>7. RunsOnce'
  BY <1>6, RunsOnceFrame DEF Inv
<1> QED
  BY <1>1, <1>3, <1>4, <1>5, <1>7 DEF Inv, Accounting

\* A thread woken by Resume() takes one token of m_thread_sem with it.
LEMMA SuspendWaitInv ==
  ASSUME Inv, NEW t \in Thread, SuspendWait(t)
  PROVE  Inv'
<1> USE DEF SuspendWait, queue, sems
<1>1. TypeOK'
  BY NPositive DEF Inv, TypeOK, ThreadPC
<1>2. count["sus_wait"] > 0 /\ count' = [count EXCEPT !["sus_wait"] = @ - 1, !["res_post"] = @ + 1]
  <2>1. /\ t \in Thread /\ pc \in [Thread -> ThreadPC] /\ pc[t] = "sus_wait"
        /\ pc' = [pc EXCEPT ![t] = "res_post"] /\ "sus_wait" # "res_post"
    BY DEF Inv, TypeOK
  <2> QED
    BY <2>1, PcMove DEF ThreadPC
<1>3. QueueAccounting'
  BY <1>2, CountType, QueueSizeNat DEF Inv, ThreadPC, TypeOK, Accounting, QueueAccounting
<1>4. SuspendAccounting'
  BY <1>2, CountType, NPositive DEF Inv, ThreadPC, TypeOK, Accounting, SuspendAccounting, MainPC
<1>5. StopAccounting'
  BY <1>2, CountType, NPositive DEF Inv, ThreadPC, TypeOK, Accounting, StopAccounting, MainPC
<1>6. At("exec")' = At("exec")
  BY DEF At, Inv, TypeOK
<1>7. RunsOnce'
  BY <1>6, RunsOnceFrame DEF Inv
<1> QED
  BY <1>1, <1>3, <1>4, <1>5, <1>7 DEF Inv, Accounting

\* The second Post() of the handshake leaves one token behind for main.
LEMMA ResumePostInv ==
  ASSUME Inv, NEW t \in Thread, ResumePost(t)
  PROVE  Inv'
<1> USE DEF ResumePost, queue, sems
<1>1. TypeOK'
  BY NPositive DEF Inv, TypeOK, ThreadPC
<1>2. count["res_post"] > 0 /\ count' = [count EXCEPT !["res_post"] = @ - 1, !["wait"] = @ + 1]
  <2>1. /\ t \in Thread /\ pc \in [Thread -> ThreadPC] /\ pc[t] = "res_post"
        /\ pc' = [pc EXCEPT ![t] = "wait"] /\ "res_post" # "wait"
    BY DEF Inv, TypeOK
  <2> QED
    BY <2>1, PcMove DEF ThreadPC
<1>3. QueueAccounting'
  BY <1>2, CountType, QueueSizeNat DEF Inv, ThreadPC, TypeOK, Accounting, QueueAccounting
<1>4. SuspendAccounting'
  BY <1>2, CountType, NPositive DEF Inv, ThreadPC, TypeOK, Accounting, SuspendAccounting, MainPC
<1>5. StopAccounting'
  BY <1>2, CountType, NPositive DEF Inv, ThreadPC, TypeOK, Accounting, StopAccounting, MainPC
<1>6. At("exec")' = At("exec")
  BY DEF At, Inv, TypeOK
<1>7. RunsOnce'
  BY <1>6, RunsOnceFrame DEF Inv
<1> QED
  BY <1>1, <1>3, <1>4, <1>5, <1>7 DEF Inv, Accounting

\* An iteration of the first loop of Suspend() queues one TPSuspend.
LEMMA SuspendAddTaskInv ==
  ASSUME Inv, SuspendAddTask
  PROVE  Inv'
<1> USE DEF SuspendAddTask, LoopStep, queue, sems
<1>1. TypeOK'
  BY NPositive DEF Inv, TypeOK, MainPC, Accounting, StopAccounting
<1>2. count' = count
  BY PcSame
<1>3. QueueAccounting'
  BY <1>2, CountType, QueueSizeNat DEF Inv, ThreadPC, TypeOK, Accounting, QueueAccounting
<1>4. SuspendAccounting'
  <2>0. /\ nSuspend + count["sus_post"] + count["sus_wait"] = N - cnt
        /\ count["res_post"] = 0 /\ m_thread_sem = 0 /\ m_main_sem = count["sus_wait"]
    BY DEF Inv, Accounting, SuspendAccounting
  <2>1. CASE cnt = 1
    <3>1. main' = "sus_wait" /\ cnt' = N /\ nSuspend' = nSuspend + 1
      BY <2>1
    <3>2. nSuspend' + count["sus_post"] + count["sus_wait"] = N
      BY <2>0, <2>1, <3>1, CountType, NPositive DEF Inv, ThreadPC, TypeOK
    <3>3. m_main_sem = count["sus_wait"] - (N - N)
      BY <2>0, CountType, NPositive DEF ThreadPC
    <3> QED
      BY <3>1, <3>2, <3>3, <2>0, <1>2 DEF SuspendAccounting
  <2>2. CASE cnt # 1
    BY <2>2, <1>2, CountType, NPositive DEF Inv, ThreadPC, TypeOK, Accounting, SuspendAccounting
  <2> QED
    BY <2>1, <2>2
<1>5. StopAccounting'
  BY <1>2, CountType, NPositive DEF Inv, ThreadPC, TypeOK, Accounting, StopAccounting
<1>6. RunsOnce'
  BY RunsOnceFrame DEF Inv, At
<1> QED
  BY <1>1, <1>3, <1>4, <1>5, <1>6 DEF Inv, Accounting

\* An iteration of the second loop of Suspend() takes one token; the last one
\* finds every thread in the handshake.
LEMMA SuspendMainWaitInv ==
  ASSUME Inv, SuspendMainWait
  PROVE  Inv'
<1> USE DEF SuspendMainWait, LoopStep, queue, sems
<1>1. TypeOK'
  BY NPositive DEF Inv, TypeOK, MainPC, Accounting, StopAccounting
<1>2. count' = count
  BY PcSame
<1>3. QueueAccounting'
  BY <1>2, CountType, QueueSizeNat DEF Inv, ThreadPC, TypeOK, Accounting, QueueAccounting
<1>4. SuspendAccounting'
  <2>1. CASE cnt = 1
    BY <2>1, <1>2, CountType, NPositive DEF Inv, ThreadPC, TypeOK, Accounting, SuspendAccounting
  <2>2. CASE cnt # 1
    BY <2>2, <1>2, CountType, NPositive DEF Inv, ThreadPC, TypeOK, Accounting, SuspendAccounting
  <2> QED
    BY <2>1, <2>2
<1>5. StopAccounting'
  BY <1>2, CountType, NPositive DEF Inv, ThreadPC, TypeOK, Accounting, StopAccounting
<1>6. RunsOnce'
  BY RunsOnceFrame DEF Inv, At
<1> QED
  BY <1>1, <1>3, <1>4, <1>5, <1>6 DEF Inv, Accounting

\* An iteration of the first loop of Resume() leaves one token for a thread.
LEMMA ResumeThreadPostInv ==
  ASSUME Inv, ResumeThreadPost
  PROVE  Inv'
<1> USE DEF ResumeThreadPost, LoopStep, queue, sems
<1>1. TypeOK'
  BY NPositive DEF Inv, TypeOK, MainPC, Accounting, StopAccounting
<1>2. count' = count
  BY PcSame
<1>3. QueueAccounting'
  BY <1>2, CountType, QueueSizeNat DEF Inv, ThreadPC, TypeOK, Accounting, QueueAccounting
<1>4. SuspendAccounting'
  <2>1. CASE cnt = 1
    BY <2>1, <1>2, CountType, NPositive DEF Inv, ThreadPC, TypeOK, Accounting, SuspendAccounting
  <2>2. CASE cnt # 1
    BY <2>2, <1>2, CountType, NPositive DEF Inv, ThreadPC, TypeOK, Accounting, SuspendAccounting
  <2> QED
    BY <2>1, <2>2
<1>5. StopAccounting'
  BY <1>2, CountType, NPositive DEF Inv, ThreadPC, TypeOK, Accounting, StopAccounting
<1>6. RunsOnce'
  BY RunsOnceFrame DEF Inv, At
<1> QED
  BY <1>1, <1>3, <1>4, <1>5, <1>6 DEF Inv, Accounting

\* An iteration of the second loop of Resume() takes one token; the last one
\* finds no thread left in the handshake.
LEMMA ResumeMainWaitInv ==
  ASSUME Inv, ResumeMainWait
  PROVE  Inv'
<1> USE DEF ResumeMainWait, LoopStep, queue, sems
<1>1. TypeOK'
  BY NPositive DEF Inv, TypeOK, MainPC, Accounting, StopAccounting
<1>2. count' = count
  BY PcSame
<1>3. QueueAccounting'
  BY <1>2, CountType, QueueSizeNat DEF Inv, ThreadPC, TypeOK, Accounting, QueueAccounting
<1>4. SuspendAccounting'
  <2>1. CASE cnt = 1
    BY <2>1, <1>2, CountType, NPositive DEF Inv, ThreadPC, TypeOK, Accounting, SuspendAccounting
  <2>2. CASE cnt # 1
    BY <2>2, <1>2, CountType, NPositive DEF Inv, ThreadPC, TypeOK, Accounting, SuspendAccounting
  <2> QED
    BY <2>1, <2>2
<1>5. StopAccounting'
  BY <1>2, CountType, NPositive DEF Inv, ThreadPC, TypeOK, Accounting, StopAccounting
<1>6. RunsOnce'
  BY RunsOnceFrame DEF Inv, At
<1> QED
  BY <1>1, <1>3, <1>4, <1>5, <1>6 DEF Inv, Accounting

\* An iteration of the first loop of Stop() queues one TPStop.
LEMMA StopAddTaskInv ==
  ASSUME Inv, StopAddTask
  PROVE  Inv'
<1> USE DEF StopAddTask, LoopStep, queue, sems
<1>1. TypeOK'
  BY NPositive DEF Inv, TypeOK, MainPC, Accounting, StopAccounting
<1>2. count' = count
  BY PcSame
<1>3. QueueAccounting'
  BY <1>2, CountType, QueueSizeNat DEF Inv, ThreadPC, TypeOK, Accounting, QueueAccounting
<1>4. SuspendAccounting'
  <2>1. CASE cnt = 1
    BY <2>1, <1>2, CountType, NPositive DEF Inv, ThreadPC, TypeOK, Accounting, SuspendAccounting
  <2>2. CASE cnt # 1
    BY <2>2, <1>2, CountType, NPositive DEF Inv, ThreadPC, TypeOK, Accounting, SuspendAccounting
  <2> QED
    BY <2>1, <2>2
<1>5. StopAccounting'
  BY <1>2, CountType, NPositive DEF Inv, ThreadPC, TypeOK, Accounting, StopAccounting
<1>6. RunsOnce'
  BY RunsOnceFrame DEF Inv, At
<1> QED
  BY <1>1, <1>3, <1>4, <1>5, <1>6 DEF Inv, Accounting

\* LockAndPop() moves a task from the queue to a thread that holds none.
LEMMA PopTaskInv ==
  ASSUME Inv, NEW t \in Thread, NEW k \in m_pq, PopTask(t, k)
  PROVE  Inv'
<1> USE DEF PopTask, sems
<1>0. k \in Task /\ k # None
  BY TaskAssumption DEF Inv, TypeOK
<1>1. /\ IsFiniteSet(m_pq') /\ Cardinality(m_pq') = Cardinality(m_pq) - 1
  BY FS_RemoveElement DEF Inv, TypeOK
<1>2. TypeOK'
  BY <1>0, <1>1, NPositive DEF Inv, TypeOK, ThreadPC
<1>3. count["pop"] > 0 /\ count' = [count EXCEPT !["pop"] = @ - 1, !["exec"] = @ + 1]
  <2>1. /\ t \in Thread /\ pc \in [Thread -> ThreadPC] /\ pc[t] = "pop"
        /\ pc' = [pc EXCEPT ![t] = "exec"] /\ "pop" # "exec"
    BY DEF Inv, TypeOK
  <2> QED
    BY <2>1, PcMove DEF ThreadPC
<1>4. QueueAccounting'
  BY <1>1, <1>3, CountType, QueueSizeNat
     DEF Inv, ThreadPC, TypeOK, Accounting, QueueAccounting
<1>5. SuspendAccounting' /\ StopAccounting'
  BY <1>3, CountType DEF Inv, ThreadPC, TypeOK, Accounting, SuspendAccounting, StopAccounting
<1>6. At("exec")' = At("exec") \cup {t} /\ t \notin At("exec")
  BY DEF At, Inv, TypeOK
<1>7. \A u \in At("exec") : task'[u] = task[u] /\ task[u] # k
  BY <1>6 DEF Inv, TypeOK, RunsOnce, At
<1>8. RunsOnce'
  <2>1. task'[t] = k /\ k \notin m_pq' /\ k \notin finished
    BY DEF Inv, TypeOK, RunsOnce
  <2>2. m_pq' \cap finished' = {}
    BY DEF Inv, RunsOnce
  <2>3. \A u \in At("exec")' : task'[u] \notin m_pq' \cup finished'
    BY <1>6, <1>7, <2>1 DEF Inv, RunsOnce
  <2>4. \A u, v \in At("exec")' : task'[u] = task'[v] => u = v
    BY <1>6, <1>7, <2>1 DEF Inv, RunsOnce
  <2> QED
    BY <2>2, <2>3, <2>4 DEF RunsOnce
<1> QED
  BY <1>2, <1>4, <1>5, <1>8 DEF Inv, Accounting

\* Execute() returns: the task goes from the thread that held it to finished.
LEMMA ExecuteInv ==
  ASSUME Inv, NEW t \in Thread, Execute(t)
  PROVE  Inv'
<1> USE DEF Execute, queue, sems
<1>1. task[t] \in Task
  BY DEF Inv, TypeOK
<1>2. TypeOK'
  BY <1>1, TaskAssumption, NPositive DEF Inv, TypeOK, ThreadPC
<1>3. count["exec"] > 0 /\ count' = [count EXCEPT !["exec"] = @ - 1, !["wait"] = @ + 1]
  <2>1. /\ t \in Thread /\ pc \in [Thread -> ThreadPC] /\ pc[t] = "exec"
        /\ pc' = [pc EXCEPT ![t] = "wait"] /\ "wait" # "exec"
    BY DEF Inv, TypeOK
  <2> QED
    BY <2>1, PcMove DEF ThreadPC
<1>4. Accounting'
  BY <1>3, CountType
     DEF Inv, ThreadPC, TypeOK, Accounting, QueueAccounting, SuspendAccounting, StopAccounting
<1>5. At("exec")' = At("exec") \ {t} /\ t \in At("exec")
  BY DEF At, Inv, TypeOK
<1>6. \A u \in At("exec")' : task'[u] = task[u] /\ task[u] # task[t]
  BY <1>5 DEF Inv, TypeOK, RunsOnce, At
<1>7. RunsOnce'
  <2>1. m_pq' \cap finished' = {}
    BY <1>5 DEF Inv, RunsOnce
  <2>2. \A u \in At("exec")' : task'[u] \notin m_pq' \cup finished'
    BY <1>5, <1>6 DEF Inv, RunsOnce
  <2>3. \A u, v \in At("exec")' : task'[u] = task'[v] => u = v
    BY <1>5, <1>6 DEF Inv, RunsOnce
  <2> QED
    BY <2>1, <2>2, <2>3 DEF RunsOnce
<1> QED
  BY <1>2, <1>4, <1>7 DEF Inv

\* An exception that ends the process changes nothing else.
LEMMA TerminateInv ==
  ASSUME Inv, NEW t \in Thread, ExecuteThrows(t) \/ WaitInterrupted(t)
  PROVE  Inv'
<1> USE DEF ExecuteThrows, WaitInterrupted, queue, sems
<1>1. TypeOK'
  BY DEF Inv, TypeOK
<1>2. count' = count
  BY PcSame
<1>3. Accounting'
  BY <1>2 DEF Inv, Accounting, QueueAccounting, SuspendAccounting, StopAccounting
<1>4. RunsOnce'
  BY RunsOnceFrame DEF Inv, At
<1> QED
  BY <1>1, <1>3, <1>4 DEF Inv

\* AddTask() grows the queue and its semaphore together.
LEMMA AddTaskInv ==
  ASSUME Inv, NEW k \in Task, AddTask(k)
  PROVE  Inv'
<1> USE DEF AddTask, sems
<1>1. k \notin m_pq /\ k \notin finished /\ \A u \in At("exec") : task[u] # k
  BY DEF Added
<1>2. IsFiniteSet(m_pq') /\ Cardinality(m_pq') = Cardinality(m_pq) + 1
  BY <1>1, FS_AddElement DEF Inv, TypeOK
<1>3. TypeOK'
  BY <1>2, NPositive DEF Inv, TypeOK
<1>4. count' = count
  BY PcSame
<1>5. QueueAccounting'
  BY <1>2, <1>4, CountType, QueueSizeNat
     DEF Inv, ThreadPC, TypeOK, Accounting, QueueAccounting
<1>6. SuspendAccounting' /\ StopAccounting'
  BY <1>4 DEF Inv, Accounting, SuspendAccounting, StopAccounting
<1>7. At("exec")' = At("exec")
  BY DEF At
<1>8. RunsOnce'
  BY <1>1, <1>7 DEF Inv, RunsOnce
<1> QED
  BY <1>3, <1>5, <1>6, <1>8 DEF Inv, Accounting

\* Entering Suspend(), Resume() or Stop() only starts a loop over the threads.
LEMMA CallInv ==
  ASSUME Inv, Suspend \/ Resume \/ Stop
  PROVE  Inv'
<1>1. /\ cnt' = N
      /\ \/ main = "running" /\ main' = "sus_push"
         \/ main = "suspended" /\ main' = "res_post"
         \/ main \in {"running", "suspended"} /\ main' = "stop_push"
      /\ UNCHANGED <<m_pq, nStop, nSuspend, m_sem, m_thread_sem, m_main_sem,
                     pc, task, finished, terminated>>
  BY DEF Suspend, Resume, Stop, Call, queue, sems
<1>2. TypeOK'
  BY <1>1, NPositive DEF Inv, TypeOK, MainPC
<1>3. count' = count
  BY <1>1, PcSame
<1>4. Accounting'
  BY <1>1, <1>3, CountType, NPositive
     DEF Inv, TypeOK, ThreadPC, Accounting, QueueAccounting, SuspendAccounting, StopAccounting
<1>5. RunsOnce'
  BY <1>1, RunsOnceFrame DEF Inv, At
<1> QED
  BY <1>2, <1>4, <1>5 DEF Inv

\* join() of the last thread changes nothing but the place of main.
LEMMA StopJoinInv ==
  ASSUME Inv, StopJoin
  PROVE  Inv'
<1> USE DEF StopJoin, queue, sems
<1>1. TypeOK'
  BY DEF Inv, TypeOK, MainPC
<1>2. count' = count
  BY PcSame
<1>3. Accounting'
  BY <1>2 DEF Inv, Accounting, QueueAccounting, SuspendAccounting, StopAccounting
<1>4. RunsOnce'
  BY RunsOnceFrame DEF Inv, At
<1> QED
  BY <1>1, <1>3, <1>4 DEF Inv

\* A step that changes no variable preserves the invariant.
LEMMA StutterInv ==
  ASSUME Inv, UNCHANGED vars
  PROVE  Inv'
<1>1. count' = count
  BY PcSame DEF vars
<1> QED
  BY <1>1 DEF Inv, vars, TypeOK, RunsOnce, At,
              Accounting, QueueAccounting, SuspendAccounting, StopAccounting

-----------------------------------------------------------------------------
\* The invariant is inductive: every step of main and of a thread preserves it.
LEMMA NextInv == Inv /\ [Next]_vars => Inv'
<1> SUFFICES ASSUME Inv, [Next]_vars PROVE Inv'
  OBVIOUS
<1>1. ASSUME NEW t \in Thread, ThreadFunc(t) PROVE Inv'
  BY <1>1, PopWaitInv, PopStopInv, PopSuspendInv, PopTaskInv, ExecuteInv,
     SuspendPostInv, SuspendWaitInv, ResumePostInv DEF ThreadFunc
<1>2. ASSUME NEW t \in Thread, ThreadStep(t) PROVE Inv'
  BY <1>1, <1>2, TerminateInv DEF ThreadStep
<1>3. ASSUME MainInCall PROVE Inv'
  BY <1>3, SuspendAddTaskInv, SuspendMainWaitInv, ResumeThreadPostInv,
     ResumeMainWaitInv, StopAddTaskInv, StopJoinInv DEF MainInCall
<1>4. ASSUME MainStep PROVE Inv'
  BY <1>3, <1>4, AddTaskInv, CallInv DEF MainStep
<1> QED
  BY <1>2, <1>4, StutterInv DEF Next, Over

\* Every reachable state of the pool satisfies the inductive invariant.
THEOREM Invariance == Spec => []Inv
BY InitInv, NextInv, PTL DEF Spec

\* The pool's variables keep their types: in particular no semaphore goes
\* below zero and no thread holds a task outside Execute().
THEOREM TypeCorrect == Spec => []TypeOK
<1>1. Inv => TypeOK
  BY DEF Inv
<1> QED
  BY <1>1, Invariance, PTL

\* The values of the three semaphores and the numbers of TPStop and TPSuspend
\* tasks agree with the places of the threads in every phase.
THEOREM AccountingCorrect == Spec => []Accounting
<1>1. Inv => Accounting
  BY DEF Inv
<1> QED
  BY <1>1, Invariance, PTL

\* LockAndPop() never takes top() of an empty queue.
THEOREM PopFindsTaskCorrect == Spec => []PopFindsTask
<1>1. Inv => PopFindsTask
  BY CountType, QueueSizeNat
     DEF Inv, TypeOK, ThreadPC, Accounting, QueueAccounting, PopFindsTask
<1> QED
  BY <1>1, Invariance, PTL

\* When Suspend() has returned every thread is blocked and none is in a task.
THEOREM SuspendQuiescentCorrect == Spec => []SuspendQuiescent
<1>1. Inv => SuspendQuiescent
  <2> SUFFICES ASSUME Inv, main = "suspended"
               PROVE  At("sus_wait") = Thread /\ m_thread_sem = 0 /\ nSuspend = 0
    BY DEF SuspendQuiescent
  <2>1. count["sus_wait"] = N /\ m_thread_sem = 0 /\ nSuspend = 0
    BY DEF Inv, Accounting, SuspendAccounting
  <2> QED
    BY <2>1, CountBound DEF ThreadPC
<1> QED
  BY <1>1, Invariance, PTL

\* When Resume() has returned nothing of the handshake is left over.
THEOREM ResumeBalancedCorrect == Spec => []ResumeBalanced
<1>1. Inv => ResumeBalanced
  <2> SUFFICES ASSUME Inv, main = "running"
               PROVE  /\ m_thread_sem = 0 /\ m_main_sem = 0 /\ nSuspend = 0
                      /\ \A t \in Thread : pc[t] \in {"wait", "pop", "exec"}
    BY DEF ResumeBalanced
  <2>1. /\ m_thread_sem = 0 /\ m_main_sem = 0 /\ nSuspend = 0
        /\ count["sus_post"] = 0 /\ count["sus_wait"] = 0
        /\ count["res_post"] = 0 /\ count["done"] = 0
    BY DEF Inv, Accounting, SuspendAccounting, StopAccounting
  <2>2. /\ At("sus_post") = {} /\ At("sus_wait") = {}
        /\ At("res_post") = {} /\ At("done") = {}
    BY <2>1, CountBound DEF ThreadPC
  <2>3. \A t \in Thread : pc[t] \in {"wait", "pop", "exec"}
    BY <2>2 DEF Inv, TypeOK, ThreadPC, At
  <2> QED
    BY <2>1, <2>3
<1> QED
  BY <1>1, Invariance, PTL

\* A task is executed at most once, by one thread.
THEOREM RunsOnceCorrect == Spec => []RunsOnce
<1>1. Inv => RunsOnce
  BY DEF Inv
<1> QED
  BY <1>1, Invariance, PTL

-----------------------------------------------------------------------------
(* SYSTEM priority.                                                        *)

\* A thread that is about to pop, in a phase where main has already pushed all
\* its TPSuspends or TPStops, implies that one of them is still in the queue.
LEMMA SystemTaskLeft ==
  ASSUME Inv, main \in {"sus_wait", "suspended", "stop_join", "joined"},
         NEW t \in Thread, pc[t] = "pop"
  PROVE  nStop > 0 \/ nSuspend > 0
<1>1. count["pop"] > 0
  <2>1. At("pop") # {}
    BY DEF At
  <2> QED
    BY <2>1, CountBound DEF ThreadPC
<1>2. /\ count["sus_post"] + count["sus_wait"] + count["pop"] <= N
      /\ count["sus_wait"] + count["done"] + count["pop"] <= N
  BY CountDisjoint DEF ThreadPC
<1>3. /\ count["sus_post"] \in Nat /\ count["sus_wait"] \in Nat
      /\ count["pop"] \in Nat /\ count["done"] \in Nat
  BY CountType DEF ThreadPC
<1>4. \/ nSuspend + count["sus_post"] + count["sus_wait"] = N
      \/ nStop + count["done"] = N
  BY <1>3, NPositive DEF Inv, TypeOK, Accounting, SuspendAccounting, StopAccounting
<1> QED
  BY <1>1, <1>2, <1>3, <1>4, NPositive DEF Inv, TypeOK

\* Once Suspend() or Stop() has pushed one system task for each thread, no
\* user task leaves the queue.
THEOREM NoTaskStartsCorrect == Spec => NoTaskStarts
<1> DEFINE P == main \in {"sus_wait", "suspended", "stop_join", "joined"} 
           A == P => (m_pq \subseteq m_pq')
<1>1. Inv /\ [Next]_vars => [A]_vars
  <2> SUFFICES ASSUME Inv, Next, P PROVE m_pq \subseteq m_pq'
    OBVIOUS
  <2>1. ASSUME NEW t \in Thread, NEW k \in m_pq, PopTask(t, k) PROVE FALSE
    BY <2>1, SystemTaskLeft DEF PopTask, IsTop, Inv, TypeOK
  <2>2. ASSUME NEW t \in Thread, ThreadStep(t) PROVE m_pq' = m_pq
    BY <2>1, <2>2 DEF ThreadStep, ThreadFunc, PopWait, PopStop, PopSuspend, Execute,
       SuspendPost, SuspendWait, ResumePost, ExecuteThrows, WaitInterrupted, queue
  <2>3. ASSUME MainStep PROVE m_pq \subseteq m_pq'
    BY <2>3 DEF MainStep, AddTask, Suspend, Resume, Stop, Call, MainInCall, SuspendAddTask,
       SuspendMainWait, ResumeThreadPost, ResumeMainWait, StopAddTask, StopJoin, queue
  <2> QED
    BY <2>2, <2>3 DEF Next, Over, vars
<1> QED
  BY <1>1, Invariance, PTL DEF Spec, NoTaskStarts

-----------------------------------------------------------------------------
(* Tasks are not lost.                                                     *)

\* Tasks held by a thread.
Held == {task[t] : t \in Thread} \ {None}

\* A thread holds a task exactly while it executes one, so the tasks that were
\* added can be told without looking where the threads are.
LEMMA AddedTasks == TypeOK => Added = m_pq \cup Held \cup finished
  BY TaskAssumption DEF TypeOK, Added, At, Held

\* A task that was added stays queued, running or finished, in whatever order
\* the threads pop, execute, suspend and stop.
THEOREM NoTaskLostCorrect == Spec => NoTaskLost
<1>1. Inv /\ Inv' /\ [Next]_vars => [Added \subseteq Added']_vars
  <2> SUFFICES ASSUME Inv, Inv', Next PROVE Added \subseteq Added'
    OBVIOUS
  <2>1. /\ Added = m_pq \cup Held \cup finished
        /\ Added' = m_pq' \cup Held' \cup finished'
    <3>1. TypeOK /\ TypeOK'
      BY DEF Inv
    <3>2. Added = m_pq \cup Held \cup finished
      BY <3>1, AddedTasks
    <3>3. Added' = m_pq' \cup Held' \cup finished'
      BY <3>1, TaskAssumption DEF TypeOK, Added, At, Held
    <3> QED
      BY <3>2, <3>3
  <2>2. task \in [Thread -> Task \cup {None}]
    BY DEF Inv, TypeOK
  <2>3. ASSUME task' = task, m_pq \subseteq m_pq', finished' = finished
        PROVE  Added \subseteq Added'
    BY <2>1, <2>3 DEF Held
  <2>4. ASSUME NEW t \in Thread, NEW k \in m_pq, PopTask(t, k)
        PROVE  Added \subseteq Added'
    <3>1. task[t] = None
      BY <2>4 DEF PopTask, Inv, TypeOK
    <3>2. /\ task' = [task EXCEPT ![t] = k]
          /\ m_pq' = m_pq \ {k} /\ finished' = finished
      BY <2>4 DEF PopTask
    <3>3. k # None
      BY TaskAssumption DEF Inv, TypeOK
    <3>4. Held \cup {k} \subseteq Held'
      BY <2>2, <3>1, <3>2, <3>3 DEF Held
    <3> QED
      BY <2>1, <3>2, <3>4
  <2>5. ASSUME NEW t \in Thread, Execute(t) PROVE Added \subseteq Added'
    <3>1. /\ task' = [task EXCEPT ![t] = None]
          /\ m_pq' = m_pq /\ finished' = finished \cup {task[t]}
      BY <2>5 DEF Execute, queue
    <3>2. Held \subseteq Held' \cup {task[t]}
      BY <2>2, <3>1 DEF Held
    <3> QED
      BY <2>1, <3>1, <3>2
  <2>6. ASSUME NEW t \in Thread, ThreadStep(t) PROVE Added \subseteq Added'
    BY <2>3, <2>4, <2>5, <2>6 DEF ThreadStep, ThreadFunc, PopWait, PopStop, PopSuspend,
       SuspendPost, SuspendWait, ResumePost, ExecuteThrows, WaitInterrupted, queue
  <2>7. ASSUME MainStep PROVE Added \subseteq Added'
    BY <2>3, <2>7 DEF MainStep, AddTask, Suspend, Resume, Stop, Call, MainInCall, SuspendAddTask,
       SuspendMainWait, ResumeThreadPost, ResumeMainWait, StopAddTask, StopJoin, queue
  <2> QED
    BY <2>3, <2>6, <2>7 DEF Next, Over, vars
<1> QED
  BY <1>1, Invariance, PTL DEF Spec, NoTaskLost
=============================================================================
