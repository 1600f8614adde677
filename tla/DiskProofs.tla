----------------------------- MODULE DiskProofs -----------------------------
(***************************************************************************)
(* The system is a disk as long as the network duplicates nothing and no   *)
(* sector has a NUL before its last byte: the invariant that ties what is  *)
(* in flight to the requests and to the storage, and the refinement of     *)
(* BlockDevice, step by step.                                              *)
(***************************************************************************)
EXTENDS RequestProofs

-----------------------------------------------------------------------------
(* NBDDriverProxy::m_mutex.                                                *)

LEMMA NextLock == ASSUME Types, LockInv, [Next]_vars PROVE LockInv'
<1>1. CASE UNCHANGED <<worker, m_mutex>>
  BY <1>1 DEF LockInv
<1>2. ASSUME NEW t \in Worker, PoolStep(t) PROVE LockInv'
  <2>1. worker \in [Worker -> WorkerState] /\ None \notin Worker /\ m_mutex \in Worker \cup {None}
    BY MasterAssumption DEF Types, MasterTypes
  <2>2. ASSUME worker[t].at # "data", UNCHANGED m_mutex, NEW w, worker' = [worker EXCEPT ![t] = w], w.at # "data"
        PROVE  LockInv'
    BY <2>1, <2>2 DEF LockInv
  <2>3. CASE \E k \in DOMAIN mQueue : Pop(t, k)
    BY <2>2, <2>3 DEF Pop
  <2>4. CASE HandlerToId(t)
    <3>1. \A u \in Worker : IF u = t THEN worker'[u].at = "send" ELSE worker'[u] = worker[u]
      BY <2>4, WorkerFacts DEF HandlerToId, Types, MasterTypes
    <3>2. worker[t].at # "data" /\ UNCHANGED m_mutex
      BY <2>4 DEF HandlerToId
    <3> QED
      BY <2>1, <3>1, <3>2 DEF LockInv
  <2>5. CASE StorageSend(t) \/ DriverDisconnect(t)
    BY <2>2, <2>5 DEF StorageSend, DriverDisconnect, BackToPool
  <2>6. CASE StorageDisconnect(t) \/ TakeStop(t)
    <3>1. PICK l \in {"close", "joined"} : Goto(t, l) /\ worker[t].at # "data" /\ UNCHANGED m_mutex
      BY <2>6 DEF StorageDisconnect, TakeStop
    <3> QED
      BY <2>2, <3>1, GotoFacts
  <2>7. CASE SendReply(t)
    <3>1. CASE Goto(t, "data") /\ m_mutex' = t
      <4>1. \A u \in Worker : worker'[u].at = IF u = t THEN "data" ELSE worker[u].at
        BY <2>1, <3>1, GotoFacts
      <4>2. m_mutex = None
        BY <2>7 DEF SendReply
      <4> QED
        BY <2>1, <3>1, <4>1, <4>2 DEF LockInv
    <3>2. CASE BackToPool(t) /\ m_mutex' = m_mutex
      <4>1. \A u \in Worker : worker'[u] = IF u = t THEN [at |-> "idle", task |-> NoTask, id |-> 0] ELSE worker[u]
        BY <2>1, <3>2 DEF BackToPool
      <4>2. worker[t].at = "run"
        BY <2>7 DEF SendReply
      <4> QED
        BY <2>1, <3>2, <4>1, <4>2 DEF LockInv
    <3> QED
      BY <2>7, <3>1, <3>2 DEF SendReply
  <2>8. CASE SendReplyData(t)
    <3>1. m_mutex = t /\ m_mutex' = None
      BY <2>8 DEF SendReplyData, LockInv
    <3>2. \A u \in Worker : worker'[u] = IF u = t THEN [at |-> "idle", task |-> NoTask, id |-> 0] ELSE worker[u]
      BY <2>1, <2>8 DEF SendReplyData, BackToPool
    <3> QED
      BY <2>1, <3>1, <3>2 DEF LockInv
  <2>9. CASE WriteAllThrows(t)
    BY <1>1, <2>9 DEF WriteAllThrows, pool
  <2> QED
    BY <1>2, <2>3, <2>4, <2>5, <2>6, <2>7, <2>8, <2>9 DEF PoolStep, PoolThread
<1>3. CASE MainStep
  BY <1>1, <1>3 DEF MainStep, MainThread, SlaveHello, SlaveRead, NbdRead, NbdReadEof, Return, pool
<1>4. CASE EnvironmentStep
  BY <1>1, <1>4 DEF EnvironmentStep, Environment, StdinRead, Signal, SetNbdFails, SendFails, pool
<1>5. CASE UNCHANGED master
  BY <1>1, <1>5 DEF master
<1> QED
  BY <1>2, <1>3, <1>4, <1>5 DEF Next, KernelStep, vars

LEMMA InitLock == Init => LockInv
BY MasterAssumption DEF Init, MasterInit, LockInv

-----------------------------------------------------------------------------
(* What holds when the steps leave the requests and the storage alone.     *)

LEMMA PayloadEqual ==
  ASSUME NEW p \in Payload, NEW q \in Payload, \A i \in 1..SecLen : q[i] = p[i]
  PROVE  q = p
<1>1. PICK S : S = 1..SecLen
  OBVIOUS
<1>2. p \in [S -> Byte] /\ q \in [S -> Byte] /\ \A i \in S : q[i] = p[i]
  BY <1>1 DEF Payload
<1> QED
  BY <1>2

\* A sector that strcpy() copies to its last byte comes out as it was.
LEMMA CleanFacts ==
  ASSUME NEW p \in Payload, Clean(p)
  PROVE  AddMessage(p) = p /\ Strcpy(p) = {p}
<1>1. AddMessage(p) = p
  <2>1. \A i \in 1..SecLen : AddMessage(p)[i] = p[i]
    BY DEF AddMessage, Clean
  <2>2. AddMessage(p) \in Payload
    BY PayloadFacts
  <2> QED
    BY <2>1, <2>2, PayloadEqual
<1>2. ASSUME NEW q \in Strcpy(p) PROVE q = p
  <2>1. q \in Payload /\ \A i \in 1..SecLen : q[i] = p[i]
    BY <1>2 DEF Strcpy, Clean
  <2> QED
    BY <2>1, PayloadEqual
<1>3. p \in Strcpy(p)
  BY DEF Strcpy
<1> QED
  BY <1>1, <1>2, <1>3

\* The kernel submits and completes nothing, and nothing reaches the storage.
Standing ==
  /\ UNCHANGED seen
  /\ \A h \in Handle : /\ req'[h].op = req[h].op /\ req'[h].sec = req[h].sec /\ req'[h].buf = req[h].buf
                       /\ req'[h].st = "idle" <=> req[h].st = "idle"

LEMMA StandingSame == ASSUME UNCHANGED <<req, seen>> PROVE Standing
BY DEF Standing

LEMMA SeenStep == ASSUME SeenInv, Standing PROVE SeenInv'
BY DEF SeenInv, Standing

LEMMA CleanStep == ASSUME CleanInv, Standing, UNCHANGED storage PROVE CleanInv'
BY DEF CleanInv, Standing

LEMMA UnseenStep ==
  ASSUME Types, UnseenInv, \A h \in Handle : seen'[h].done => seen[h].done,
         \A i \in DOMAIN reqSock' : reqSock'[i].op # "DISCONNECT" => \E j \in DOMAIN reqSock : reqSock'[i] = reqSock[j],
         \A k \in DOMAIN mQueue' : k \in DOMAIN mQueue \/ (k.key \in AllOps => k.h \in Handle /\ ~seen[k.h].done),
         \A t \in Worker : \/ worker'[t] = worker[t] \/ worker'[t].at \notin {"run", "send"}
                           \/ worker'[t].at = "run" /\ worker'[t].task \in DOMAIN mQueue
                           \/ worker[t].at = "run" /\ worker'[t].task = worker[t].task
  PROVE  UnseenInv'
<1>1. ASSUME NEW i \in DOMAIN reqSock', reqSock'[i].op # "DISCONNECT" PROVE ~seen'[reqSock'[i].h].done
  <2>1. PICK j \in DOMAIN reqSock : reqSock'[i] = reqSock[j]
    BY <1>1
  <2>2. reqSock[j].h \in Handle
    BY <1>1, <2>1 DEF Types, KernelTypes, SentRequests
  <2> QED
    BY <1>1, <2>1, <2>2 DEF UnseenInv
<1>2. \A k \in DOMAIN mQueue : k.key \in AllOps => k.h \in Handle /\ ~seen[k.h].done
  BY TaskFacts DEF UnseenInv, Types, MasterTypes
<1>3. \A k \in DOMAIN mQueue' : k.key \in AllOps => ~seen'[k.h].done
  BY <1>2
<1>4. ASSUME NEW t \in Worker, worker[t].at \in {"run", "send"}, worker[t].task.key \in AllOps
      PROVE  worker[t].task.h \in Handle /\ ~seen[worker[t].task.h].done
  <2>1. worker[t].task \in Task
    BY <1>4, WorkerFacts, TaskFacts DEF Task, RequestTask, IoOps, AllOps
  <2> QED
    BY <1>4, <2>1, TaskFacts DEF UnseenInv
<1>5. ASSUME NEW t \in Worker, worker'[t].at \in {"run", "send"}, worker'[t].task.key \in AllOps
      PROVE  ~seen'[worker'[t].task.h].done
  BY <1>2, <1>4, <1>5
<1> QED
  BY <1>1, <1>3, <1>5 DEF UnseenInv

\* The datagrams about the listed requests, and the replies, are those there were.
LEMMA EffectStep ==
  ASSUME Types, EffectInv, Standing,
         \A e \in m_list' : e \in m_list \/ (e.h \in Handle /\ \A m \in Numbered' : m.id # e.id),
         \A m \in DOMAIN toSlave' \cup DOMAIN sQueue' :
            \/ m \in DOMAIN toSlave \cup DOMAIN sQueue
            \/ \A e \in m_list : m.id = e.id => IsCommandOf(m, e),
         \A m \in DOMAIN toMaster' \cup ({sReply'} \ {NoReply}) :
            \/ m \in DOMAIN toMaster \cup ({sReply} \ {NoReply})
            \/ \A e \in m_list : m.id = e.id => IsReplyOf(m, e.h),
         \A k \in DOMAIN mQueue' :
            k \in DOMAIN mQueue \/ (k.key = "REPLAY" => k.h \in Handle /\ IsReplyOf(k, k.h)),
         \A t \in Worker : \/ worker'[t] = worker[t] \/ worker'[t].at # "run"
                           \/ worker'[t].task \in DOMAIN mQueue
  PROVE  EffectInv'
<1>1. ASSUME NEW e, e.h \in Handle, NEW m, IsCommandOf(m, e) PROVE IsCommandOf(m, e)'
  BY <1>1 DEF IsCommandOf, Standing
<1>2. ASSUME NEW h \in Handle, NEW r, IsReplyOf(r, h) PROVE IsReplyOf(r, h)'
  BY <1>2 DEF IsReplyOf, Standing
<1>3. \A e \in m_list : e.h \in Handle
  BY DEF Types, MasterTypes
<1>4. ASSUME NEW e \in m_list'
      PROVE  /\ \A m \in DOMAIN toSlave' \cup DOMAIN sQueue' : m.id = e.id => IsCommandOf(m, e)'
             /\ \A m \in DOMAIN toMaster' \cup ({sReply'} \ {NoReply}) : m.id = e.id => IsReplyOf(m, e.h)'
  <2>1. CASE e \in m_list
    <3>1. \A m \in DOMAIN toSlave' \cup DOMAIN sQueue' : m.id = e.id => IsCommandOf(m, e)
      BY <2>1 DEF EffectInv
    <3>2. \A m \in DOMAIN toMaster' \cup ({sReply'} \ {NoReply}) : m.id = e.id => IsReplyOf(m, e.h)
      BY <2>1 DEF EffectInv
    <3> QED
      BY <1>1, <1>2, <1>3, <2>1, <3>1, <3>2
  <2>2. CASE \A m \in Numbered' : m.id # e.id
    BY <2>2 DEF Numbered
  <2> QED
    BY <2>1, <2>2
<1>5. \A k \in DOMAIN mQueue : k.key = "REPLAY" => k.h \in Handle /\ IsReplyOf(k, k.h)
  BY TaskFacts DEF EffectInv, Types, MasterTypes
<1>6. \A k \in DOMAIN mQueue' : k.key = "REPLAY" => IsReplyOf(k, k.h)'
  BY <1>2, <1>5
<1>7. \A t \in Worker : worker[t].at = "run" /\ worker[t].task.key = "REPLAY" =>
        worker[t].task.h \in Handle /\ IsReplyOf(worker[t].task, worker[t].task.h)
  BY WorkerFacts, TaskFacts DEF EffectInv
<1>8. ASSUME NEW t \in Worker, worker'[t].at = "run", worker'[t].task.key = "REPLAY"
      PROVE  IsReplyOf(worker[t].task, worker[t].task.h)'
  <2>1. PICK k : k = worker'[t].task
    OBVIOUS
  <2>2. k.h \in Handle /\ IsReplyOf(k, k.h)
    BY <1>5, <1>7, <1>8, <2>1
  <2>3. IsReplyOf(k, k.h)'
    BY <1>2, <2>2
  <2> QED
    BY <2>1, <2>3
<1>9. /\ \A e \in m_list' :
           /\ \A m \in DOMAIN toSlave' \cup DOMAIN sQueue' : m.id = e.id => IsCommandOf(m, e)'
           /\ \A m \in DOMAIN toMaster' \cup ({sReply'} \ {NoReply}) : m.id = e.id => IsReplyOf(m, e.h)'
  BY <1>4
<1> QED
  BY <1>6, <1>8, <1>9 DEF EffectInv

\* The replies written so far stay, and the holder of m_mutex goes on with its task.
LEMMA FrameStep ==
  ASSUME Types, FrameInv, Standing, UNCHANGED <<repSock, m_mutex>>,
         \A t \in Worker : m_mutex = t => worker'[t].task = worker[t].task
  PROVE  FrameInv'
<1>1. \A i \in DOMAIN repSock : repSock[i].h \in Handle
  BY DEF Types, KernelTypes, Chunk
<1> QED
  BY <1>1 DEF FrameInv, Standing

Effects == SeenInv /\ UnseenInv /\ EffectInv /\ FrameInv /\ CleanInv

\* A step that moves datagrams, or none.
LEMMA QuietEffects ==
  ASSUME Types, Effects, Standing, UNCHANGED <<reqSock, repSock, mQueue, worker, m_mutex, m_list, storage>>,
         \A m \in DOMAIN toSlave' \cup DOMAIN sQueue' :
            \/ m \in DOMAIN toSlave \cup DOMAIN sQueue
            \/ \A e \in m_list : m.id = e.id => IsCommandOf(m, e),
         \A m \in DOMAIN toMaster' \cup ({sReply'} \ {NoReply}) :
            \/ m \in DOMAIN toMaster \cup ({sReply} \ {NoReply})
            \/ \A e \in m_list : m.id = e.id => IsReplyOf(m, e.h)
  PROVE  Effects'
<1>1. SeenInv' /\ CleanInv'
  BY SeenStep, CleanStep DEF Effects
<1>2. UnseenInv'
  BY UnseenStep DEF Effects, Standing
<1>3. EffectInv'
  BY EffectStep DEF Effects
<1>4. FrameInv'
  BY FrameStep DEF Effects
<1> QED
  BY <1>1, <1>2, <1>3, <1>4 DEF Effects

\* A step of a thread of the master that does not write to the socket.
LEMMA MasterEffects ==
  ASSUME Types, LockInv, Effects, UNCHANGED <<req, seen, repSock, m_mutex, slave, toMaster>>,
         \A i \in DOMAIN reqSock' : reqSock'[i].op # "DISCONNECT" => \E j \in DOMAIN reqSock : reqSock'[i] = reqSock[j],
         \A k \in DOMAIN mQueue' :
            \/ k \in DOMAIN mQueue
            \/ k.key # "REPLAY" /\ (k.key \in AllOps => k.h \in Handle /\ ~seen[k.h].done),
         \A t \in Worker : \/ worker'[t] = worker[t]
                           \/ worker[t].at # "data" /\ worker'[t].at \notin {"run", "send"}
                           \/ worker[t].at # "data" /\ worker'[t].at = "run" /\ worker'[t].task \in DOMAIN mQueue
                           \/ worker[t].at = "run" /\ worker'[t].at = "send" /\ worker'[t].task = worker[t].task,
         \A e \in m_list' : e \in m_list \/ (e.h \in Handle /\ \A m \in Numbered' : m.id # e.id),
         \A m \in DOMAIN toSlave' : m \in DOMAIN toSlave \/ \A e \in m_list : m.id = e.id => IsCommandOf(m, e)
  PROVE  Effects'
<1>1. Standing /\ UNCHANGED <<storage, sQueue, sReply>>
  BY StandingSame DEF slave
<1>2. SeenInv' /\ CleanInv'
  BY <1>1, SeenStep, CleanStep DEF Effects
<1>3. UnseenInv'
  <2>1. \A h \in Handle : seen'[h].done => seen[h].done
    OBVIOUS
  <2>2. \A k \in DOMAIN mQueue' : k \in DOMAIN mQueue \/ (k.key \in AllOps => k.h \in Handle /\ ~seen[k.h].done)
    OBVIOUS
  <2>3. \A t \in Worker : \/ worker'[t] = worker[t] \/ worker'[t].at \notin {"run", "send"}
                          \/ worker'[t].at = "run" /\ worker'[t].task \in DOMAIN mQueue
                          \/ worker[t].at = "run" /\ worker'[t].task = worker[t].task
    OBVIOUS
  <2> QED
    BY <2>1, <2>2, <2>3, UnseenStep DEF Effects
<1>4. EffectInv'
  <2>1. \A m \in DOMAIN toSlave' \cup DOMAIN sQueue' :
            \/ m \in DOMAIN toSlave \cup DOMAIN sQueue
            \/ \A e \in m_list : m.id = e.id => IsCommandOf(m, e)
    BY <1>1
  <2>2. \A m \in DOMAIN toMaster' \cup ({sReply'} \ {NoReply}) : m \in DOMAIN toMaster \cup ({sReply} \ {NoReply})
    BY <1>1
  <2>3. \A k \in DOMAIN mQueue' :
            k \in DOMAIN mQueue \/ (k.key = "REPLAY" => k.h \in Handle /\ IsReplyOf(k, k.h))
    OBVIOUS
  <2>4. \A t \in Worker : \/ worker'[t] = worker[t] \/ worker'[t].at # "run" \/ worker'[t].task \in DOMAIN mQueue
    OBVIOUS
  <2> QED
    BY <1>1, <2>1, <2>2, <2>3, <2>4, EffectStep DEF Effects
<1>5. FrameInv'
  <2>1. \A t \in Worker : m_mutex = t => worker'[t].task = worker[t].task
    BY DEF LockInv
  <2> QED
    BY <1>1, <2>1, FrameStep DEF Effects
<1> QED
  BY <1>2, <1>3, <1>4, <1>5 DEF Effects

LEMMA NbdReadEffects ==
  ASSUME Types, LockInv, Effects, NbdRead, UNCHANGED <<slave, seen>>
  PROVE  Effects'
<1>1. UNCHANGED <<req, repSock, worker, m_mutex, m_list, toMaster, toSlave>>
  BY DEF NbdRead, table, net
<1>2. /\ \A i \in DOMAIN reqSock' : \E j \in DOMAIN reqSock : reqSock'[i] = reqSock[j]
      /\ Head(reqSock) = reqSock[1] /\ 1 \in DOMAIN reqSock /\ reqSock[1] \in SentRequests
  BY DEF NbdRead, Types, KernelTypes
<1>3. PICK k : /\ mQueue' = BagAdd(mQueue, k) /\ k.key # "REPLAY"
               /\ k.key \in AllOps => k.h \in Handle /\ ~seen[k.h].done
  <2>1. PICK r \in SentRequests : r = reqSock[1]
    BY <1>2
  <2>2. CASE r.op = "DISCONNECT"
    <3>1. PICK k : k = [key |-> "DISCONNECT"]
      OBVIOUS
    <3>2. mQueue' = BagAdd(mQueue, k)
      BY <1>2, <2>1, <2>2, <3>1 DEF NbdRead
    <3>3. k.key = "DISCONNECT"
      BY <3>1
    <3> QED
      BY <3>2, <3>3 DEF AllOps
  <2>3. CASE r.op # "DISCONNECT"
    <3>1. PICK k : k = [key |-> r.op, op |-> r.op, h |-> r.h, sec |-> r.sec, buf |-> r.buf, status |-> 0]
      OBVIOUS
    <3>2. mQueue' = BagAdd(mQueue, k)
      BY <1>2, <2>1, <2>3, <3>1 DEF NbdRead
    <3>3. k.key = r.op /\ k.h = r.h
      BY <3>1
    <3>4. r.op \in AllOps /\ r.h \in Handle /\ ~seen[r.h].done
      BY <1>2, <2>1, <2>3 DEF Effects, UnseenInv, SentRequests
    <3> QED
      BY <3>2, <3>3, <3>4 DEF AllOps
  <2> QED
    BY <2>2, <2>3
<1>4. DOMAIN mQueue' = DOMAIN mQueue \cup {k}
  <2>1. DOMAIN BagAdd(mQueue, k) = DOMAIN mQueue \cup {k}
    BY BagAddFacts DEF Types, MasterTypes
  <2> QED
    BY <1>3, <2>1
<1> QED
  BY <1>1, <1>2, <1>3, <1>4, MasterEffects

LEMMA StdinReadEffects ==
  ASSUME Types, LockInv, Effects, StdinRead, UNCHANGED <<slave, seen>>
  PROVE  Effects'
<1>1. UNCHANGED <<req, reqSock, repSock, worker, m_mutex, m_list, toMaster, toSlave>>
  BY DEF StdinRead, table, net, nbd
<1>2. PICK k : k = [key |-> "Q_EXIT"]
  OBVIOUS
<1>3. mQueue' = BagAdd(mQueue, k) /\ k.key = "Q_EXIT"
  BY <1>2 DEF StdinRead
<1>4. DOMAIN mQueue' = DOMAIN mQueue \cup {k}
  <2>1. DOMAIN BagAdd(mQueue, k) = DOMAIN mQueue \cup {k}
    BY BagAddFacts DEF Types, MasterTypes
  <2> QED
    BY <1>3, <2>1
<1>5. k.key # "REPLAY" /\ k.key \notin AllOps
  BY <1>3 DEF AllOps
<1> QED
  BY <1>1, <1>4, <1>5, MasterEffects

LEMMA PopEffects ==
  ASSUME Types, LockInv, Effects, NEW t \in Worker, NEW k \in DOMAIN mQueue, Pop(t, k), UNCHANGED <<slave, seen>>
  PROVE  Effects'
<1>1. UNCHANGED <<req, reqSock, repSock, m_mutex, m_list, toMaster, toSlave>>
  BY DEF Pop, table, net, nbd
<1>2. \A u \in Worker : \/ worker'[u] = worker[u]
                        \/ worker[u].at # "data" /\ worker'[u].at = "run" /\ worker'[u].task \in DOMAIN mQueue
  <2>1. \A u \in Worker : worker'[u] = IF u = t THEN [at |-> "run", task |-> k, id |-> 0] ELSE worker[u]
    BY DEF Pop, Types, MasterTypes
  <2>2. worker[t].at = "idle"
    BY DEF Pop
  <2> QED
    BY <2>1, <2>2
<1>3. DOMAIN mQueue' \subseteq DOMAIN mQueue
  <2>1. DOMAIN BagRemove(mQueue, k) \subseteq DOMAIN mQueue
    BY BagRemoveFacts DEF Types, MasterTypes
  <2> QED
    BY <2>1 DEF Pop
<1> QED
  BY <1>1, <1>2, <1>3, MasterEffects

LEMMA HandlerToIdEffects ==
  ASSUME Types, LockInv, Effects, NEW t \in Worker, HandlerToId(t), UNCHANGED <<slave, seen>>
  PROVE  Effects'
<1>1. PICK e : e = [id |-> m_req_id + 1, h |-> worker[t].task.h]
  OBVIOUS
<1>2. UNCHANGED <<req, reqSock, repSock, mQueue, m_mutex, toMaster, toSlave>> /\ m_list' = m_list \cup {e}
  BY <1>1 DEF HandlerToId, net, nbd
<1>3. \A m \in Numbered' : m.id # e.id
  <2>1. Numbered' = Numbered
    BY <1>2 DEF Numbered, slave
  <2>2. \A m \in Numbered : m.id # m_req_id + 1
    BY NumbersKnown
  <2> QED
    BY <1>1, <2>1, <2>2
<1>4. e.h \in Handle
  BY <1>1, WorkerFacts, TaskFacts DEF HandlerToId, AllOps
<1>5. \A u \in Worker : \/ worker'[u] = worker[u]
                        \/ worker[u].at = "run" /\ worker'[u].at = "send" /\ worker'[u].task = worker[u].task
  BY WorkerFacts DEF HandlerToId, Types, MasterTypes
<1> QED
  BY <1>2, <1>3, <1>4, <1>5, MasterEffects

LEMMA StorageSendEffects ==
  ASSUME Types, LockInv, NumbersInv, Effects, NEW t \in Worker, StorageSend(t), UNCHANGED <<slave, seen>>
  PROVE  Effects'
<1>1. PICK k, n : k = worker[t].task /\ n = worker[t].id
  OBVIOUS
<1>2. /\ worker[t].at = "send" /\ k \in RequestTask(IoOps) /\ IsRequest(k) /\ [id |-> n, h |-> k.h] \in m_list
      /\ ~seen[k.h].done
  <2>1. worker[t].at = "send" /\ k \in RequestTask(IoOps) /\ IsRequest(k)
    BY <1>1, WorkerFacts DEF StorageSend, NumbersInv, TaskInv
  <2>2. k.key \in AllOps
    BY <2>1 DEF RequestTask, IoOps, AllOps
  <2> QED
    BY <1>1, <2>1, <2>2 DEF Effects, UnseenInv, NumbersInv, SendInv
<1>3. PICK m : m = [key |-> k.key, id |-> n, sec |-> k.sec, buf |-> k.buf, dst |-> m_cliaddr]
  OBVIOUS
<1>4. UNCHANGED <<req, reqSock, repSock, mQueue, m_mutex, m_list, toMaster>> /\ toSlave' = BagAdd(toSlave, m)
  BY <1>1, <1>3 DEF StorageSend, SendToSlave, nbd, table
<1>5. DOMAIN toSlave' = DOMAIN toSlave \cup {m}
  <2>1. DOMAIN BagAdd(toSlave, m) = DOMAIN toSlave \cup {m}
    BY BagAddFacts DEF Types, NetTypes
  <2> QED
    BY <1>4, <2>1
<1>6. ASSUME NEW e \in m_list, m.id = e.id PROVE IsCommandOf(m, e)
  <2>1. e.h = k.h
    <3>1. PICK f : f = [id |-> n, h |-> k.h]
      OBVIOUS
    <3>2. f \in m_list /\ f.id = n /\ f.h = k.h /\ m.id = n
      BY <1>2, <1>3, <3>1
    <3>3. e = f
      BY <1>6, <3>2 DEF NumbersInv, ListInv
    <3> QED
      BY <3>2, <3>3
  <2>2. m.sec = k.sec /\ m.buf = k.buf
    BY <1>3
  <2> QED
    BY <1>2, <2>1, <2>2 DEF IsCommandOf, IsRequest
<1>7. \A u \in Worker : worker'[u] = worker[u] \/ (worker[u].at # "data" /\ worker'[u].at \notin {"run", "send"})
  <2>1. \A u \in Worker : worker'[u] = IF u = t THEN [at |-> "idle", task |-> NoTask, id |-> 0] ELSE worker[u]
    BY DEF StorageSend, BackToPool, Types, MasterTypes
  <2> QED
    BY <1>2, <2>1
<1> QED
  BY <1>4, <1>5, <1>6, <1>7, MasterEffects

LEMMA OtherEffects ==
  ASSUME Types, LockInv, Effects, NEW t \in Worker, UNCHANGED <<slave, seen>>,
         StorageDisconnect(t) \/ DriverDisconnect(t) \/ TakeStop(t)
  PROVE  Effects'
<1>1. UNCHANGED <<req, reqSock, repSock, mQueue, m_mutex, m_list, toMaster>> /\ worker[t].at # "data"
  BY DEF StorageDisconnect, DriverDisconnect, TakeStop, SendToSlave, nbd, table, net
<1>2. \A u \in Worker : worker'[u] = worker[u] \/ (worker[u].at # "data" /\ worker'[u].at \notin {"run", "send"})
  <2>1. PICK w : worker' = [worker EXCEPT ![t] = w] /\ w.at \notin {"run", "send"}
    <3>1. BackToPool(t) \/ \E l \in {"data", "close", "joined"} : Goto(t, l)
      BY DEF StorageDisconnect, DriverDisconnect, TakeStop
    <3> QED
      BY <3>1, LeavesRun
  <2> QED
    BY <1>1, <2>1 DEF Types, MasterTypes
<1>3. \A m \in DOMAIN toSlave' : m \in DOMAIN toSlave \/ \A e \in m_list : m.id = e.id => IsCommandOf(m, e)
  <2>1. ASSUME StorageDisconnect(t)
        PROVE  \A m \in DOMAIN toSlave' : m \in DOMAIN toSlave \/ \A e \in m_list : m.id # e.id
    <3>1. PICK m : m = [key |-> "DISCONNECT", id |-> 0, dst |-> m_cliaddr]
      OBVIOUS
    <3>2. toSlave' = BagAdd(toSlave, m) /\ m.id = 0
      BY <2>1, <3>1 DEF StorageDisconnect, SendToSlave
    <3>3. DOMAIN BagAdd(toSlave, m) = DOMAIN toSlave \cup {m}
      BY BagAddFacts DEF Types, NetTypes
    <3>4. \A e \in m_list : e.id # 0
      BY NumbersKnown
    <3> QED
      BY <3>2, <3>3, <3>4
  <2> QED
    BY <2>1 DEF DriverDisconnect, TakeStop, net
<1> QED
  BY <1>1, <1>2, <1>3, MasterEffects

\* The request of a listed number is in flight, or failed, and the master holds nothing else of it.
LEMMA ListedFacts ==
  ASSUME Types, CarrierInv, NEW e \in m_list
  PROVE  /\ e.h \in Handle /\ req[e.h].st # "idle" /\ Listed(e.h) = {e}
         /\ Unread(e.h) = {} /\ Queued(e.h) = {} /\ Executed(e.h) = {} /\ Replied(e.h) = {}
<1>1. PICK h \in Handle : h = e.h
  BY DEF Types, MasterTypes
<1>2. e \in Listed(h) /\ Owed(h)
  BY <1>1 DEF Listed, CarrierInv
<1>3. req[h].st # "idle" /\ Alone(Unread(h), Queued(h), Executed(h), Listed(h), Replied(h))
  BY <1>2 DEF Owed, Nowhere
<1>4. Listed(h) = {e} /\ Unread(h) = {} /\ Queued(h) = {} /\ Executed(h) = {} /\ Replied(h) = {}
  BY <1>2, <1>3, AloneFacts
<1> QED
  BY <1>1, <1>3, <1>4

LEMMA SlaveReadEffects ==
  ASSUME Types, CarrierInv, LockInv, NumbersInv, Effects, NEW m \in DOMAIN toMaster, SlaveRead(m), UNCHANGED <<slave, seen>>
  PROVE  Effects'
<1>1. /\ UNCHANGED <<req, reqSock, repSock, worker, m_mutex, storage, toSlave, sQueue, sReply>>
      /\ DOMAIN toMaster' \subseteq DOMAIN toMaster
  <2>1. DOMAIN BagRemove(toMaster, m) \subseteq DOMAIN toMaster
    BY BagRemoveFacts DEF Types, NetTypes
  <2> QED
    BY <2>1 DEF SlaveRead, RecvFromSlave, slave
<1>2. Standing
  BY <1>1, StandingSame
<1>3. CASE UNCHANGED <<m_list, mQueue>>
  BY <1>1, <1>2, <1>3, QuietEffects
<1>4. ASSUME NEW e \in m_list, e.id = m.id, NEW status \in UninitStatus,
             NEW buf \in IF m.key = "READ" THEN Strcpy(m.buf) ELSE {Zeros},
             m_list' = m_list \ {e}, mQueue' = BagAdd(mQueue, ReplyTo(e.h, m.key, buf, status))
      PROVE  Effects'
  <2>1. PICK k : k = ReplyTo(e.h, m.key, buf, status)
    OBVIOUS
  <2>2. k.h = e.h /\ k.buf = buf /\ k.key = "REPLAY"
    BY <2>1 DEF ReplyTo
  <2>3. e.h \in Handle /\ req[e.h].st # "idle"
    BY ListedFacts
  <2>4. IsReplyOf(m, e.h) /\ m.key = req[e.h].op
    BY <1>4 DEF Effects, EffectInv, NumbersInv, ListInv, Numbered
  <2>5. req[e.h].op = "READ" => Clean(m.buf) /\ m.buf \in Payload
    BY <2>3, <2>4 DEF IsReplyOf, Effects, SeenInv, Types, SlaveTypes
  <2>6. IsReplyOf(k, k.h)
    <3>1. req[e.h].op = "READ" => buf = m.buf
      BY <1>4, <2>4, <2>5, CleanFacts
    <3> QED
      BY <2>2, <2>4, <3>1 DEF IsReplyOf
  <2>7. DOMAIN mQueue' = DOMAIN mQueue \cup {k}
    <3>1. DOMAIN BagAdd(mQueue, k) = DOMAIN mQueue \cup {k}
      BY BagAddFacts DEF Types, MasterTypes
    <3> QED
      BY <1>4, <2>1, <3>1
  <2>8. SeenInv' /\ CleanInv' /\ FrameInv'
    BY <1>1, <1>2, SeenStep, CleanStep, FrameStep DEF Effects
  <2>9. UnseenInv'
    <3>1. k.key \notin AllOps
      BY <2>2 DEF AllOps
    <3> QED
      BY <1>1, <1>2, <2>7, <3>1, UnseenStep DEF Effects, Standing
  <2>10. EffectInv'
    BY <1>1, <1>2, <1>4, <2>2, <2>3, <2>6, <2>7, EffectStep DEF Effects
  <2> QED
    BY <2>8, <2>9, <2>10 DEF Effects
<1> QED
  BY <1>3, <1>4 DEF SlaveRead

\* NBDDriverProxy::SendReply(): what it writes is what the storage gave.
LEMMA SendReplyEffects ==
  ASSUME Types, LockInv, NumbersInv, Effects, NEW t \in Worker, SendReply(t), UNCHANGED <<slave, seen>>
  PROVE  Effects'
<1>1. /\ UNCHANGED <<req, reqSock, mQueue, m_list, net, storage, sQueue, sReply>>
      /\ worker[t].at = "run" /\ m_mutex = None /\ repSock \in Seq(Chunk) /\ None \notin Worker
  BY MasterAssumption DEF SendReply, slave, table, Types, KernelTypes
<1>2. PICK k \in Task : k = worker[t].task
  BY <1>1, WorkerFacts
<1>3. PICK c : c = [kind |-> "header", h |-> k.h, err |-> k.status, buf |-> Zeros]
  OBVIOUS
<1>4. repSock' = Append(repSock, c) /\ c.kind = "header" /\ c.h = k.h
  BY <1>2, <1>3 DEF SendReply
<1>5. /\ k.op = req[k.h].op /\ k.h \in Handle
      /\ seen[k.h].done <=> k.op \in IoOps
      /\ k.op = "READ" => k.buf = seen[k.h].buf
  <2>1. CASE k.key = "REPLAY"
    <3>1. IsReplyOf(k, k.h) /\ k.op = req[k.h].op
      BY <1>1, <1>2, <2>1 DEF Effects, EffectInv, NumbersInv, TaskInv, IsTask
    <3> QED
      BY <2>1, <3>1, TaskFacts DEF IsReplyOf
  <2>2. CASE k.key \in {"FLUSH", "TRIM", "BAD_REQUEST"}
    <3>1. k.key \in AllOps /\ k.key \notin IoOps /\ k.key # "READ"
      BY <2>2 DEF AllOps, IoOps
    <3>2. IsRequest(k) /\ ~seen[k.h].done
      BY <1>1, <1>2, <3>1 DEF Effects, UnseenInv, NumbersInv, TaskInv, IsTask
    <3> QED
      BY <3>1, <3>2, TaskFacts DEF IsRequest
  <2> QED
    BY <1>2, <2>1, <2>2 DEF SendReply
<1>6. \/ k.op = "READ" /\ m_mutex' = t /\ worker' = [worker EXCEPT ![t] = [at |-> "data", task |-> k, id |-> worker[t].id]]
      \/ k.op # "READ" /\ m_mutex' = m_mutex /\ worker' = [worker EXCEPT ![t] = [at |-> "idle", task |-> NoTask, id |-> 0]]
  BY <1>2, GotoFacts DEF SendReply, BackToPool
<1>7. Standing
  BY <1>1, StandingSame
<1>8. SeenInv' /\ CleanInv'
  BY <1>1, <1>7, SeenStep, CleanStep DEF Effects
<1>9. \A u \in Worker : worker'[u] = worker[u] \/ worker'[u].at \notin {"run", "send"}
  BY <1>6 DEF Types, MasterTypes
<1>10. UnseenInv'
  BY <1>1, <1>7, <1>9, UnseenStep DEF Effects, Standing
<1>11. EffectInv'
  BY <1>1, <1>7, <1>9, EffectStep DEF Effects, net
<1>12. FrameInv'
  <2>1. /\ DOMAIN repSock' = DOMAIN repSock \cup {Len(repSock) + 1} /\ Len(repSock) + 1 \notin DOMAIN repSock
        /\ DOMAIN repSock = 1..Len(repSock) /\ Len(repSock) \in Nat /\ Len(repSock') = Len(repSock) + 1
        /\ repSock'[Len(repSock) + 1] = c /\ \A i \in DOMAIN repSock : repSock'[i] = repSock[i]
    BY <1>1, <1>4
  <2>2. k.op = "READ" => m_mutex' = t /\ worker'[t].task = k
    BY <1>6 DEF Types, MasterTypes
  <2> SUFFICES ASSUME NEW i \in DOMAIN repSock', repSock'[i].kind = "header", repSock'[i].err = 0
               PROVE  LET d == repSock'[i]
                      IN  /\ seen[d.h].done <=> req[d.h].op \in IoOps
                          /\ req[d.h].op = "READ" =>
                               /\ i < Len(repSock') => repSock'[i + 1].kind = "data" /\ repSock'[i + 1].buf = seen[d.h].buf
                               /\ i = Len(repSock') => \E u \in Worker : m_mutex' = u /\ worker'[u].task.buf = seen[d.h].buf
    BY <1>1 DEF FrameInv
  <2>3. CASE i = Len(repSock) + 1
    BY <1>4, <1>5, <2>1, <2>2, <2>3
  <2>4. CASE i \in DOMAIN repSock
    <3>1. PICK d : d = repSock[i] /\ d.kind = "header" /\ d.err = 0
      BY <2>1, <2>4
    <3>2. /\ seen[d.h].done <=> req[d.h].op \in IoOps
          /\ req[d.h].op = "READ" =>
               /\ i < Len(repSock) => repSock[i + 1].kind = "data" /\ repSock[i + 1].buf = seen[d.h].buf
               /\ i # Len(repSock)
      BY <1>1, <2>4, <3>1 DEF Effects, FrameInv
    <3>3. i < Len(repSock) => i + 1 \in DOMAIN repSock
      BY <2>1, <2>4
    <3>4. i < Len(repSock) \/ i = Len(repSock)
      BY <2>1, <2>4
    <3> QED
      BY <2>1, <2>4, <3>1, <3>2, <3>3, <3>4
  <2> QED
    BY <2>1, <2>3, <2>4
<1> QED
  BY <1>8, <1>10, <1>11, <1>12 DEF Effects

LEMMA SendReplyDataEffects ==
  ASSUME Types, LockInv, Effects, NEW t \in Worker, SendReplyData(t), UNCHANGED <<slave, seen>>
  PROVE  Effects'
<1>1. /\ UNCHANGED <<req, reqSock, mQueue, m_list, net, storage, sQueue, sReply>>
      /\ m_mutex = t /\ repSock \in Seq(Chunk)
      /\ worker' = [worker EXCEPT ![t] = [at |-> "idle", task |-> NoTask, id |-> 0]]
  BY DEF SendReplyData, BackToPool, slave, table, Types, KernelTypes, LockInv
<1>2. PICK c : /\ c = [kind |-> "data", h |-> worker[t].task.h, err |-> 0, buf |-> worker[t].task.buf]
               /\ repSock' = Append(repSock, c)
  BY DEF SendReplyData
<1>3. c.kind = "data" /\ c.buf = worker[t].task.buf
  BY <1>2
<1>4. Standing
  BY <1>1, StandingSame
<1>5. SeenInv' /\ CleanInv'
  BY <1>1, <1>4, SeenStep, CleanStep DEF Effects
<1>6. \A u \in Worker : worker'[u] = worker[u] \/ worker'[u].at \notin {"run", "send"}
  BY <1>1 DEF Types, MasterTypes
<1>7. UnseenInv'
  BY <1>1, <1>4, <1>6, UnseenStep DEF Effects, Standing
<1>8. EffectInv'
  BY <1>1, <1>4, <1>6, EffectStep DEF Effects, net
<1>9. FrameInv'
  <2>1. /\ DOMAIN repSock' = DOMAIN repSock \cup {Len(repSock) + 1}
        /\ DOMAIN repSock = 1..Len(repSock) /\ Len(repSock) \in Nat /\ Len(repSock') = Len(repSock) + 1
        /\ repSock'[Len(repSock) + 1] = c /\ \A i \in DOMAIN repSock : repSock'[i] = repSock[i]
    BY <1>1, <1>2
  <2> SUFFICES ASSUME NEW i \in DOMAIN repSock', repSock'[i].kind = "header", repSock'[i].err = 0
               PROVE  LET d == repSock'[i]
                      IN  /\ seen[d.h].done <=> req[d.h].op \in IoOps
                          /\ req[d.h].op = "READ" =>
                               /\ i < Len(repSock') => repSock'[i + 1].kind = "data" /\ repSock'[i + 1].buf = seen[d.h].buf
                               /\ i = Len(repSock') => \E u \in Worker : m_mutex' = u /\ worker'[u].task.buf = seen[d.h].buf
    BY <1>1 DEF FrameInv
  <2>2. i \in DOMAIN repSock /\ i # Len(repSock')
    BY <1>3, <2>1
  <2>3. PICK d : d = repSock[i] /\ d.kind = "header" /\ d.err = 0
    BY <2>1, <2>2
  <2>4. /\ seen[d.h].done <=> req[d.h].op \in IoOps
        /\ req[d.h].op = "READ" =>
             /\ i < Len(repSock) => repSock[i + 1].kind = "data" /\ repSock[i + 1].buf = seen[d.h].buf
             /\ i = Len(repSock) => c.buf = seen[d.h].buf
    BY <1>1, <1>3, <2>2, <2>3 DEF Effects, FrameInv
  <2>5. /\ i < Len(repSock) => i + 1 \in DOMAIN repSock
        /\ i < Len(repSock) \/ i = Len(repSock)
    BY <2>1, <2>2
  <2> QED
    BY <1>3, <2>1, <2>2, <2>3, <2>4, <2>5
<1> QED
  BY <1>5, <1>7, <1>8, <1>9 DEF Effects

\* The slave's steps that leave the storage alone.
LEMMA BootEffects ==
  ASSUME Types, Effects, Boot, UNCHANGED <<nbd, master, seen>>
  PROVE  Effects'
<1>1. PICK m : m = [key |-> "READ", id |-> 0, buf |-> Magic, src |-> sPort + 1]
  OBVIOUS
<1>2. /\ toMaster' = BagAdd(toMaster, m) /\ m.id = 0
      /\ UNCHANGED <<req, reqSock, repSock, mQueue, worker, m_mutex, m_list, storage, toSlave, sQueue, sReply>>
  BY <1>1 DEF Boot, SendToMaster, nbd, master
<1>3. DOMAIN toMaster' = DOMAIN toMaster \cup {m}
  <2>1. DOMAIN BagAdd(toMaster, m) = DOMAIN toMaster \cup {m}
    BY BagAddFacts DEF Types, NetTypes
  <2> QED
    BY <1>2, <2>1
<1>4. \A e \in m_list : e.id # 0
  BY NumbersKnown
<1> QED
  BY <1>2, <1>3, <1>4, StandingSame, QuietEffects

LEMMA ReceiveRequestEffects ==
  ASSUME Types, NumbersInv, Effects, NEW m \in DOMAIN toSlave, ReceiveRequest(m), UNCHANGED <<nbd, master, seen>>
  PROVE  Effects'
<1>1. /\ UNCHANGED <<req, reqSock, repSock, mQueue, worker, m_mutex, m_list, storage, toMaster, sReply>>
      /\ DOMAIN toSlave' \subseteq DOMAIN toSlave
  <2>1. DOMAIN BagRemove(toSlave, m) \subseteq DOMAIN toSlave
    BY BagRemoveFacts DEF Types, NetTypes
  <2> QED
    BY <2>1 DEF ReceiveRequest, RecvFromMaster, nbd, master
<1>2. PICK k : sQueue' = BagAdd(sQueue, k) /\ \A e \in m_list : k.id = e.id => IsCommandOf(k, e)
  <2>1. \A e \in m_list : m.id = e.id => IsCommandOf(m, e) /\ m.key = req[e.h].op /\ e.h \in Handle
    BY DEF Effects, EffectInv, NumbersInv, ListInv, Numbered, Types, MasterTypes
  <2>2. ASSUME m.key = "WRITE", NEW buf \in Strcpy(m.buf), sQueue' = BagAdd(sQueue, [m EXCEPT !.buf = buf])
        PROVE  \E k : sQueue' = BagAdd(sQueue, k) /\ \A e \in m_list : k.id = e.id => IsCommandOf(k, e)
    <3>1. m \in Command /\ m.buf \in Payload
      BY <2>2 DEF Types, NetTypes, Order, Command
    <3>2. PICK k : k = [m EXCEPT !.buf = buf]
      OBVIOUS
    <3>3. k.id = m.id /\ k.sec = m.sec /\ k.buf = buf /\ k.key = m.key
      BY <3>1, <3>2 DEF Command
    <3>4. ASSUME NEW e \in m_list, k.id = e.id PROVE IsCommandOf(k, e)
      <4>1. IsCommandOf(m, e) /\ m.buf = req[e.h].buf /\ req[e.h].op = "WRITE" /\ e.h \in Handle
        BY <2>1, <2>2, <3>3, <3>4 DEF IsCommandOf
      <4>2. buf = m.buf
        BY <2>2, <3>1, <4>1, CleanFacts DEF Effects, CleanInv
      <4> QED
        BY <3>3, <4>1, <4>2 DEF IsCommandOf
    <3> QED
      BY <2>2, <3>2, <3>4
  <2> QED
    BY <2>1, <2>2 DEF ReceiveRequest
<1>3. DOMAIN sQueue' = DOMAIN sQueue \cup {k}
  <2>1. DOMAIN BagAdd(sQueue, k) = DOMAIN sQueue \cup {k}
    BY BagAddFacts DEF Types, SlaveTypes
  <2> QED
    BY <1>2, <2>1
<1> QED
  BY <1>1, <1>2, <1>3, StandingSame, QuietEffects

LEMMA SlaveSendReplyEffects ==
  ASSUME Types, Effects, SlaveSendReply, UNCHANGED <<nbd, master, seen>>
  PROVE  Effects'
<1>1. /\ UNCHANGED <<req, reqSock, repSock, mQueue, worker, m_mutex, m_list, storage, sQueue, toSlave>>
      /\ sReply # NoReply /\ sReply' = NoReply
  BY DEF SlaveSendReply, SendToMaster, net, nbd, master
<1>2. DOMAIN toMaster' \subseteq DOMAIN toMaster \cup {sReply}
  <2>1. DOMAIN BagAdd(toMaster, sReply) = DOMAIN toMaster \cup {sReply}
    BY BagAddFacts DEF Types, NetTypes
  <2> QED
    BY <2>1 DEF SlaveSendReply, SendToMaster, net
<1> QED
  BY <1>1, <1>2, StandingSame, QuietEffects

\* Datagrams and tasks of the slave that are gone.
LEMMA GoneEffects ==
  ASSUME Types, Effects, Standing, UNCHANGED <<reqSock, repSock, mQueue, worker, m_mutex, m_list, storage>>,
         DOMAIN toSlave' \subseteq DOMAIN toSlave, DOMAIN sQueue' \subseteq DOMAIN sQueue,
         DOMAIN toMaster' \subseteq DOMAIN toMaster, sReply' \in {sReply, NoReply}
  PROVE  Effects'
BY QuietEffects

LEMMA SlaveGoneEffects ==
  ASSUME Types, Effects, UNCHANGED <<nbd, master, seen>>,
         (\E k \in DOMAIN sQueue : SlaveDisconnect(k)) \/ SlaveStop \/ Crash
  PROVE  Effects'
<1>1. /\ UNCHANGED <<req, reqSock, repSock, mQueue, worker, m_mutex, m_list, storage, toSlave, toMaster>>
      /\ sReply' \in {sReply, NoReply}
  BY DEF SlaveDisconnect, SlaveStop, Crash, net, nbd, master
<1>2. DOMAIN sQueue' \subseteq DOMAIN sQueue
  <2>1. \A k \in DOMAIN sQueue : DOMAIN BagRemove(sQueue, k) \subseteq DOMAIN sQueue
    BY BagRemoveFacts DEF Types, SlaveTypes
  <2> QED
    BY <2>1, EmptyBagFacts DEF SlaveDisconnect, Take, SlaveStop, Crash
<1> QED
  BY <1>1, <1>2, StandingSame, GoneEffects

LEMMA LoseEffects ==
  ASSUME Types, Effects, Lose, UNCHANGED <<nbd, master, slave, seen>>
  PROVE  Effects'
<1>1. /\ UNCHANGED <<req, reqSock, repSock, mQueue, worker, m_mutex, m_list, storage, sQueue, sReply>>
  BY DEF nbd, master, slave
<1>2. \A m \in DOMAIN toSlave : DOMAIN BagRemove(toSlave, m) \subseteq DOMAIN toSlave
  BY BagRemoveFacts DEF Types, NetTypes
<1>3. \A m \in DOMAIN toMaster : DOMAIN BagRemove(toMaster, m) \subseteq DOMAIN toMaster
  BY BagRemoveFacts DEF Types, NetTypes
<1>4. DOMAIN toSlave' \subseteq DOMAIN toSlave /\ DOMAIN toMaster' \subseteq DOMAIN toMaster
  BY <1>2, <1>3 DEF Lose
<1> QED
  BY <1>1, <1>4, StandingSame, GoneEffects

LEMMA SlaveHelloEffects ==
  ASSUME Types, Effects, NEW m \in DOMAIN toMaster, SlaveHello(m), UNCHANGED <<slave, seen>>
  PROVE  Effects'
<1>1. UNCHANGED <<req, reqSock, repSock, mQueue, worker, m_mutex, m_list, storage, toSlave, sQueue, sReply>>
  BY DEF SlaveHello, RecvFromSlave, pool, table, nbd, slave
<1>2. DOMAIN BagRemove(toMaster, m) \subseteq DOMAIN toMaster
  BY BagRemoveFacts DEF Types, NetTypes
<1>3. DOMAIN toMaster' \subseteq DOMAIN toMaster
  BY <1>2 DEF SlaveHello, RecvFromSlave
<1> QED
  BY <1>1, <1>3, StandingSame, GoneEffects

-----------------------------------------------------------------------------
(* The kernel.                                                             *)

\* The kernel orders to disconnect, gives the socket up, or fails what is in flight.
LEMMA SubmitDiscEffects ==
  ASSUME Types, LockInv, Effects, SubmitDisc, UNCHANGED <<master, net, slave, seen>>
  PROVE  Effects'
<1>1. UNCHANGED <<req, repSock, mQueue, worker, m_mutex, m_list, toSlave, toMaster>>
  BY DEF SubmitDisc, master, net
<1>2. \A i \in DOMAIN reqSock' : reqSock'[i].op # "DISCONNECT" => \E j \in DOMAIN reqSock : reqSock'[i] = reqSock[j]
  <2>1. PICK q : q = [op |-> "DISCONNECT"]
    OBVIOUS
  <2>2. reqSock' = Append(reqSock, q) /\ q.op = "DISCONNECT" /\ reqSock \in Seq(SentRequests)
    BY <2>1 DEF SubmitDisc, Types, KernelTypes
  <2>3. /\ DOMAIN reqSock' = DOMAIN reqSock \cup {Len(reqSock) + 1}
        /\ reqSock'[Len(reqSock) + 1] = q /\ \A i \in DOMAIN reqSock : reqSock'[i] = reqSock[i]
    BY <2>2
  <2> QED
    BY <2>2, <2>3
<1> QED
  BY <1>1, <1>2, MasterEffects

LEMMA KernelStands ==
  ASSUME Types, Effects, Standing, UNCHANGED <<reqSock, repSock, pool, m_mutex, m_list, toSlave, toMaster, slave>>
  PROVE  Effects'
BY QuietEffects DEF pool, slave

LEMMA ClearQueueEffects ==
  ASSUME Types, Effects, ClearQueue, UNCHANGED <<master, net, slave, seen>>
  PROVE  Effects'
<1>1. ASSUME NEW h \in Handle
      PROVE  /\ req'[h].op = req[h].op /\ req'[h].sec = req[h].sec /\ req'[h].buf = req[h].buf
             /\ req'[h].st = "idle" <=> req[h].st = "idle"
  <2>1. req[h] \in RequestState /\ req'[h] = IF req[h].st = "sent" THEN [req[h] EXCEPT !.st = "failed"] ELSE req[h]
    BY DEF ClearQueue, Types, KernelTypes
  <2>2. CASE req[h].st = "sent"
    <3>1. PICK r \in Requests : r = req[h]
      BY <2>1, <2>2, StateFacts
    <3>2. req'[h] = [st |-> "failed", op |-> r.op, sec |-> r.sec, buf |-> r.buf]
      BY <2>1, <2>2, <3>1, RequestFacts
    <3> QED
      BY <2>2, <3>1, <3>2
  <2> QED
    BY <2>1, <2>2
<1>2. Standing
  BY <1>1 DEF Standing
<1>3. UNCHANGED <<reqSock, repSock, pool, m_mutex, m_list, toSlave, toMaster, slave>>
  BY DEF ClearQueue, master, net, pool
<1> QED
  BY <1>2, <1>3, KernelStands

\* The kernel submits or completes h, of which the driver, the pool and the list have nothing.
LEMMA FreedEffects ==
  ASSUME Types, NumbersInv, Effects, NEW h \in Handle, HandleFree(h),
         \A g \in Handle : g # h => req'[g] = req[g] /\ seen'[g] = seen[g],
         UNCHANGED <<master, net, slave>>
  PROVE  /\ EffectInv'
         /\ \A k \in DOMAIN mQueue : k.key \in AllOps => ~seen'[k.h].done
         /\ \A t \in Worker : worker[t].at \in {"run", "send"} /\ worker[t].task.key \in AllOps =>
              ~seen'[worker[t].task.h].done
<1>1. /\ \A k \in DOMAIN mQueue : ~OfRequest(k, h)
      /\ \A t \in Worker : worker[t].at = "run" => ~OfRequest(worker[t].task, h)
      /\ \A t \in Worker : worker[t].at = "send" => worker[t].task.h # h
      /\ \A e \in m_list : e.h # h
  BY FreeFacts DEF NumbersInv
<1>2. \A k \in Task : ~OfRequest(k, h) =>
        /\ k.key \in AllOps => k.h \in Handle /\ k.h # h
        /\ k.key = "REPLAY" => k.h \in Handle /\ k.h # h
  BY TaskFacts DEF OfRequest
<1>3. UNCHANGED <<mQueue, worker, m_list, toSlave, toMaster, sQueue, sReply>>
  BY DEF master, net, slave
<1>4. ASSUME NEW g \in Handle, g # h, NEW r, IsReplyOf(r, g) PROVE IsReplyOf(r, g)'
  BY <1>4 DEF IsReplyOf
<1>5. ASSUME NEW e \in m_list, NEW m, IsCommandOf(m, e) PROVE IsCommandOf(m, e)'
  BY <1>1, <1>5 DEF IsCommandOf, Types, MasterTypes
<1>6. \A k \in DOMAIN mQueue : k \in Task
  BY DEF Types, MasterTypes
<1>7. \A t \in Worker : worker[t].at = "run" => worker[t].task \in Task
  BY WorkerFacts
<1>8. EffectInv'
  <2>1. \A e \in m_list : e.h \in Handle /\ e.h # h
    BY <1>1 DEF Types, MasterTypes
  <2>2. \A e \in m_list : \A m \in DOMAIN toSlave \cup DOMAIN sQueue : m.id = e.id => IsCommandOf(m, e)'
    BY <1>5 DEF Effects, EffectInv
  <2>3. \A e \in m_list : \A m \in DOMAIN toMaster \cup ({sReply} \ {NoReply}) : m.id = e.id => IsReplyOf(m, e.h)'
    BY <1>4, <2>1 DEF Effects, EffectInv
  <2>4. \A k \in DOMAIN mQueue : k.key = "REPLAY" => IsReplyOf(k, k.h)'
    BY <1>1, <1>2, <1>4, <1>6 DEF Effects, EffectInv
  <2>5. ASSUME NEW t \in Worker, worker[t].at = "run", worker[t].task.key = "REPLAY"
        PROVE  IsReplyOf(worker[t].task, worker[t].task.h)'
    <3>1. PICK k : k = worker[t].task
      OBVIOUS
    <3>2. k.h \in Handle /\ k.h # h /\ IsReplyOf(k, k.h)
      BY <1>1, <1>2, <1>7, <2>5, <3>1 DEF Effects, EffectInv
    <3>3. IsReplyOf(k, k.h)' /\ k = worker'[t].task
      BY <1>3, <1>4, <3>1, <3>2
    <3> QED
      BY <3>3
  <2> QED
    BY <1>3, <2>2, <2>3, <2>4, <2>5 DEF EffectInv
<1>9. \A k \in DOMAIN mQueue : k.key \in AllOps => ~seen'[k.h].done
  BY <1>1, <1>2, <1>6 DEF Effects, UnseenInv
<1>10. ASSUME NEW t \in Worker, worker[t].at \in {"run", "send"}, worker[t].task.key \in AllOps
       PROVE  ~seen'[worker[t].task.h].done
  <2>1. worker[t].task.h \in Handle /\ worker[t].task.h # h
    BY <1>1, <1>2, <1>7, <1>10, WorkerFacts DEF RequestTask
  <2> QED
    BY <1>10, <2>1 DEF Effects, UnseenInv
<1> QED
  BY <1>8, <1>9, <1>10

LEMMA SubmitEffects ==
  ASSUME CleanData, Types, CarrierInv, NumbersInv, Effects, NEW h \in Handle, NEW r \in Requests, SubmitStep(h, r),
         UNCHANGED <<master, net, slave>>
  PROVE  Effects'
<1>1. PICK q, n : q = [op |-> r.op, h |-> h, sec |-> r.sec, buf |-> r.buf] /\ n = Len(reqSock) + 1
  OBVIOUS
<1>2. /\ req[h].st = "idle" /\ req' = [req EXCEPT ![h] = r] /\ reqSock' = Append(reqSock, q)
      /\ seen' = [seen EXCEPT ![h] = Unseen] /\ UNCHANGED <<repSock, worker, mQueue, m_mutex, storage>>
  BY <1>1 DEF SubmitStep, Submit, master, slave
<1>3. /\ req'[h] = r /\ seen'[h] = Unseen
      /\ \A g \in Handle : g # h => req'[g] = req[g] /\ seen'[g] = seen[g]
  BY <1>2 DEF Types, KernelTypes, SlaveTypes
<1>4. HandleFree(h) /\ Replied(h) = {}
  BY <1>2 DEF HandleFree, CarrierInv, Owed, Nowhere
<1>5. SeenInv'
  BY <1>3 DEF Effects, SeenInv, Unseen
<1>6. CleanInv'
  <2>1. r.op = "WRITE" => Clean(r.buf)
    BY RequestFacts DEF CleanData
  <2> QED
    BY <1>2, <1>3, <2>1 DEF Effects, CleanInv
<1>7. UnseenInv'
  <2>1. /\ DOMAIN reqSock' = DOMAIN reqSock \cup {n} /\ reqSock'[n] = q
        /\ \A i \in DOMAIN reqSock : reqSock'[i] = reqSock[i] /\ reqSock[i] \in SentRequests
    BY <1>1, <1>2 DEF Types, KernelTypes
  <2>2. q.h = h /\ ~seen'[h].done
    BY <1>1, <1>3 DEF Unseen
  <2>3. ASSUME NEW i \in DOMAIN reqSock, reqSock[i].op # "DISCONNECT" PROVE ~seen'[reqSock[i].h].done
    <3>1. reqSock[i].h \in Handle /\ ~seen[reqSock[i].h].done
      BY <2>1, <2>3 DEF Effects, UnseenInv, SentRequests
    <3> QED
      BY <1>3, <2>2, <3>1
  <2>4. \A i \in DOMAIN reqSock' : reqSock'[i].op # "DISCONNECT" => ~seen'[reqSock'[i].h].done
    BY <2>1, <2>2, <2>3
  <2>5. /\ \A k \in DOMAIN mQueue : k.key \in AllOps => ~seen'[k.h].done
        /\ \A t \in Worker : worker[t].at \in {"run", "send"} /\ worker[t].task.key \in AllOps =>
             ~seen'[worker[t].task.h].done
    BY <1>3, <1>4, FreedEffects
  <2> QED
    BY <1>2, <2>4, <2>5 DEF UnseenInv
<1>8. EffectInv'
  BY <1>3, <1>4, FreedEffects
<1>9. FrameInv'
  <2>1. \A i \in DOMAIN repSock : repSock[i].kind = "header" => repSock[i].h \in Handle /\ repSock[i].h # h
    BY <1>4 DEF Replied, Types, KernelTypes, Chunk
  <2>2. \A i \in DOMAIN repSock : repSock[i].kind = "header" =>
          req'[repSock[i].h] = req[repSock[i].h] /\ seen'[repSock[i].h] = seen[repSock[i].h]
    BY <1>3, <2>1
  <2> QED
    BY <1>2, <2>2 DEF Effects, FrameInv
<1> QED
  BY <1>5, <1>6, <1>7, <1>8, <1>9 DEF Effects

\* What is left of a stream of replies when its first reply is read.
LEMMA CompleteFacts ==
  ASSUME Types, CarrierInv, Complete
  PROVE  \E g \in Handle, n \in 1..2 :
           /\ repSock[1].h = g /\ n = IF req[g].op = "READ" /\ repSock[1].err = 0 THEN 2 ELSE 1
           /\ repSock[1].kind = "header" /\ 1 \in DOMAIN repSock /\ req[g].st = "sent" /\ Len(repSock) >= n
           /\ repSock[1].err \in 0..1
           /\ n = 2 => repSock[2].kind = "data" /\ repSock[2].buf \in Payload
           /\ req' = [req EXCEPT ![g] = Idle] /\ repSock' = SubSeq(repSock, n + 1, Len(repSock))
           /\ ret' = [ret EXCEPT ![g] = [err |-> repSock[1].err, buf |-> repSock[n].buf]]
           /\ UNCHANGED reqSock
           /\ HandleFree(g) /\ Replied(g) = {1}
<1>1. Head(repSock) \in Chunk /\ repSock \in Seq(Chunk) /\ 1 \in DOMAIN repSock /\ Head(repSock) = repSock[1]
  BY DEF Complete, Types, KernelTypes
<1>2. PICK g \in Handle, n \in 1..2 :
        /\ repSock[1].h = g /\ n = IF req[g].op = "READ" /\ repSock[1].err = 0 THEN 2 ELSE 1
  BY <1>1 DEF Chunk
<1>3. /\ repSock[1].kind = "header" /\ req[g].st = "sent" /\ Len(repSock) >= n
      /\ n = 2 => repSock[2].kind = "data"
      /\ req' = [req EXCEPT ![g] = Idle] /\ repSock' = SubSeq(repSock, n + 1, Len(repSock))
      /\ ret' = [ret EXCEPT ![g] = [err |-> repSock[1].err, buf |-> repSock[n].buf]]
      /\ UNCHANGED reqSock
  BY <1>1, <1>2 DEF Complete
<1>4. 1 \in Replied(g) /\ Owed(g)
  BY <1>1, <1>2, <1>3 DEF Replied, CarrierInv
<1>5. HandleFree(g) /\ Replied(g) = {1}
  BY <1>4, OwedFacts, AloneFacts DEF HandleFree
<1>6. repSock[1].err \in 0..1 /\ (n = 2 => repSock[2].buf \in Payload)
  <2>1. n = 2 => 2 \in DOMAIN repSock
    BY <1>1, <1>3
  <2> QED
    BY <1>1, <1>3, <2>1 DEF Chunk
<1> QED
  BY <1>1, <1>2, <1>3, <1>5, <1>6

LEMMA CompleteEffects ==
  ASSUME Types, CarrierInv, NumbersInv, Effects, Complete, UNCHANGED <<master, net, slave, seen>>
  PROVE  Effects'
<1>1. PICK g \in Handle, n \in 1..2 :
        /\ req' = [req EXCEPT ![g] = Idle] /\ repSock' = SubSeq(repSock, n + 1, Len(repSock)) /\ Len(repSock) >= n
        /\ UNCHANGED reqSock /\ HandleFree(g) /\ Replied(g) = {1} /\ repSock[1].h = g /\ repSock[1].kind = "header"
  BY CompleteFacts
<1>2. /\ req'[g] = Idle /\ \A h \in Handle : h # g => req'[h] = req[h] /\ seen'[h] = seen[h]
      /\ UNCHANGED <<mQueue, worker, m_mutex, storage>>
  BY <1>1 DEF Types, KernelTypes, master, slave
<1>3. SeenInv' /\ CleanInv'
  <2>1. Idle.st = "idle" /\ Idle.op = "FLUSH"
    BY DEF Idle
  <2> QED
    BY <1>2, <2>1 DEF Effects, SeenInv, CleanInv
<1>4. EffectInv'
  BY <1>1, <1>2, FreedEffects
<1>5. UnseenInv'
  BY <1>1, <1>2 DEF Effects, UnseenInv
<1>6. FrameInv'
  <2>1. /\ repSock \in Seq(Chunk) /\ Len(repSock) \in Nat /\ DOMAIN repSock = 1..Len(repSock)
        /\ DOMAIN repSock' = 1..(Len(repSock) - n) /\ Len(repSock') = Len(repSock) - n
        /\ \A i \in DOMAIN repSock' : i + n \in DOMAIN repSock /\ repSock'[i] = repSock[i + n]
    BY <1>1 DEF Types, KernelTypes
  <2> SUFFICES ASSUME NEW i \in DOMAIN repSock', repSock'[i].kind = "header", repSock'[i].err = 0
               PROVE  LET d == repSock'[i]
                      IN  /\ seen[d.h].done <=> req'[d.h].op \in IoOps
                          /\ req'[d.h].op = "READ" =>
                               /\ i < Len(repSock') => repSock'[i + 1].kind = "data" /\ repSock'[i + 1].buf = seen[d.h].buf
                               /\ i = Len(repSock') => \E u \in Worker : m_mutex = u /\ worker[u].task.buf = seen[d.h].buf
    BY <1>2 DEF FrameInv
  <2>2. PICK d \in Chunk : d = repSock[i + n] /\ d = repSock'[i] /\ d.kind = "header" /\ d.err = 0
    BY <2>1
  <2>3. d.h \in Handle /\ d.h # g
    <3>1. i + n # 1 /\ i + n \in DOMAIN repSock
      BY <2>1
    <3>2. d.h = g => i + n \in Replied(g)
      BY <2>2, <3>1 DEF Replied
    <3> QED
      BY <1>1, <2>2, <3>1, <3>2 DEF Chunk
  <2>4. /\ seen[d.h].done <=> req[d.h].op \in IoOps
        /\ req[d.h].op = "READ" =>
             /\ i + n < Len(repSock) => repSock[i + n + 1].kind = "data" /\ repSock[i + n + 1].buf = seen[d.h].buf
             /\ i + n = Len(repSock) => \E u \in Worker : m_mutex = u /\ worker[u].task.buf = seen[d.h].buf
    BY <2>1, <2>2 DEF Effects, FrameInv
  <2>5. /\ i < Len(repSock') => i + n < Len(repSock) /\ i + 1 \in DOMAIN repSock' /\ (i + 1) + n = i + n + 1
        /\ i = Len(repSock') => i + n = Len(repSock)
    BY <2>1
  <2>6. i < Len(repSock') => repSock'[i + 1] = repSock[i + n + 1]
    BY <2>1, <2>5
  <2> QED
    BY <1>2, <2>2, <2>3, <2>4, <2>5, <2>6
<1> QED
  BY <1>3, <1>4, <1>5, <1>6 DEF Effects

-----------------------------------------------------------------------------
(* The storage.                                                            *)

\* The request that a task of the slave is about reaches the storage.
LEMMA RecordFacts ==
  ASSUME Types, CarrierInv, NumbersInv, NumbersOnce, Effects, NEW k \in DOMAIN sQueue, k.key \in IoOps,
         NEW buf, Record(k.id, buf), UNCHANGED master
  PROVE  \E e \in m_list :
           /\ e.id = k.id /\ e.h \in Handle /\ ~seen[e.h].done /\ req[e.h].st # "idle"
           /\ k.key = req[e.h].op /\ k.sec = req[e.h].sec /\ (k.key = "WRITE" => k.buf = req[e.h].buf)
           /\ k \in Command
           /\ seen' = [seen EXCEPT ![e.h] = [done |-> TRUE, buf |-> buf]]
<1>1. k \in Command
  BY DEF Types, SlaveTypes, Order, IoOps
<1>2. PICK n \in 1..m_req_id : n = k.id
  BY <1>1 DEF Command
<1>3. PICK e \in m_list : e.id = n
  <2>1. k \in Pending(n)
    BY <1>2 DEF Pending
  <2> QED
    BY <2>1, OnceFacts
<1>4. /\ IsCommandOf(k, e) /\ k.key = req[e.h].op
  BY <1>2, <1>3 DEF Effects, EffectInv, NumbersInv, ListInv, Numbered
<1>5. PICK g \in Handle : g = e.h /\ req[g].st # "idle"
  BY ListedFacts
<1>6. \A h \in Handle : [id |-> k.id, h |-> h] \in m_list <=> h = g
  <2>1. e = [id |-> n, h |-> g]
    BY <1>3, <1>5 DEF Types, MasterTypes
  <2>2. ASSUME NEW h \in Handle, [id |-> n, h |-> h] \in m_list PROVE h = g
    <3>1. PICK f \in m_list : f = [id |-> n, h |-> h]
      BY <2>2
    <3>2. f.id = e.id /\ f.h = h
      BY <1>3, <3>1
    <3>3. f = e
      BY <3>2 DEF NumbersInv, ListInv
    <3> QED
      BY <1>5, <3>2, <3>3
  <2> QED
    BY <1>2, <2>1, <2>2
<1>7. ~seen[g].done
  BY <1>4, <1>5 DEF IsCommandOf
<1>8. seen' = [seen EXCEPT ![g] = [done |-> TRUE, buf |-> buf]]
  <2>1. seen' = [h \in Handle |-> IF h = g THEN [done |-> TRUE, buf |-> buf] ELSE seen[h]]
    BY <1>6, <1>7 DEF Record
  <2>2. seen \in [Handle -> [done : BOOLEAN, buf : Payload]]
    BY DEF Types, SlaveTypes
  <2> QED
    BY <2>1, <2>2
<1> QED
  BY <1>1, <1>2, <1>3, <1>4, <1>5, <1>7, <1>8 DEF IsCommandOf

\* What a step of the storage does: the request it is about, what it found and what it answers.
LEMMA StorageFacts ==
  ASSUME Types, CarrierInv, NumbersInv, NumbersOnce, Effects, StorageStep, UNCHANGED <<nbd, master>>
  PROVE  \E k \in DOMAIN sQueue, e \in m_list, buf \in Payload :
           /\ e.id = k.id /\ e.h \in Handle /\ ~seen[e.h].done /\ req[e.h].st # "idle"
           /\ seen' = [seen EXCEPT ![e.h] = [done |-> TRUE, buf |-> buf]]
           /\ \/ req[e.h].op = "WRITE" /\ buf = Zeros /\ storage' = [storage EXCEPT ![req[e.h].sec] = req[e.h].buf]
              \/ req[e.h].op = "READ" /\ buf = storage[req[e.h].sec] /\ UNCHANGED storage /\ Clean(buf)
           /\ req[e.h].sec \in Sector
           /\ sReply'.id = k.id /\ (req[e.h].op = "READ" => sReply'.buf = buf)
           /\ sQueue' = BagRemove(sQueue, k) /\ UNCHANGED net
           /\ Write(k) \/ Read(k)
<1>1. ASSUME NEW k \in DOMAIN sQueue, Write(k), Record(k.id, Zeros)
      PROVE  \E e \in m_list, buf \in Payload :
           /\ e.id = k.id /\ e.h \in Handle /\ ~seen[e.h].done /\ req[e.h].st # "idle"
           /\ seen' = [seen EXCEPT ![e.h] = [done |-> TRUE, buf |-> buf]]
           /\ \/ req[e.h].op = "WRITE" /\ buf = Zeros /\ storage' = [storage EXCEPT ![req[e.h].sec] = req[e.h].buf]
              \/ req[e.h].op = "READ" /\ buf = storage[req[e.h].sec] /\ UNCHANGED storage /\ Clean(buf)
           /\ req[e.h].sec \in Sector
           /\ sReply'.id = k.id /\ (req[e.h].op = "READ" => sReply'.buf = buf)
           /\ sQueue' = BagRemove(sQueue, k) /\ UNCHANGED net
  <2>1. k.key = "WRITE" /\ storage' = [storage EXCEPT ![k.sec] = k.buf] /\ sQueue' = BagRemove(sQueue, k) /\ UNCHANGED net
    BY <1>1 DEF Write, Take
  <2>2. sReply'.id = k.id
    BY <1>1 DEF Write
  <2>3. PICK e \in m_list :
           /\ e.id = k.id /\ e.h \in Handle /\ ~seen[e.h].done /\ req[e.h].st # "idle"
           /\ k.key = req[e.h].op /\ k.sec = req[e.h].sec /\ (k.key = "WRITE" => k.buf = req[e.h].buf)
           /\ k \in Command
           /\ seen' = [seen EXCEPT ![e.h] = [done |-> TRUE, buf |-> Zeros]]
    BY <1>1, <2>1, RecordFacts DEF IoOps
  <2>4. k.sec \in Sector
    BY <2>3 DEF Command
  <2> QED
    BY <2>1, <2>2, <2>3, <2>4, PayloadFacts
<1>2. ASSUME NEW k \in DOMAIN sQueue, Read(k), Record(k.id, storage[k.sec])
      PROVE  \E e \in m_list, buf \in Payload :
           /\ e.id = k.id /\ e.h \in Handle /\ ~seen[e.h].done /\ req[e.h].st # "idle"
           /\ seen' = [seen EXCEPT ![e.h] = [done |-> TRUE, buf |-> buf]]
           /\ \/ req[e.h].op = "WRITE" /\ buf = Zeros /\ storage' = [storage EXCEPT ![req[e.h].sec] = req[e.h].buf]
              \/ req[e.h].op = "READ" /\ buf = storage[req[e.h].sec] /\ UNCHANGED storage /\ Clean(buf)
           /\ req[e.h].sec \in Sector
           /\ sReply'.id = k.id /\ (req[e.h].op = "READ" => sReply'.buf = buf)
           /\ sQueue' = BagRemove(sQueue, k) /\ UNCHANGED net
  <2>1. k.key = "READ" /\ UNCHANGED storage /\ sQueue' = BagRemove(sQueue, k) /\ UNCHANGED net
    BY <1>2 DEF Read, Take
  <2>2. sReply'.id = k.id /\ sReply'.buf = AddMessage(storage[k.sec])
    BY <1>2 DEF Read
  <2>3. PICK e \in m_list :
           /\ e.id = k.id /\ e.h \in Handle /\ ~seen[e.h].done /\ req[e.h].st # "idle"
           /\ k.key = req[e.h].op /\ k.sec = req[e.h].sec /\ (k.key = "WRITE" => k.buf = req[e.h].buf)
           /\ k \in Command
           /\ seen' = [seen EXCEPT ![e.h] = [done |-> TRUE, buf |-> storage[k.sec]]]
    BY <1>2, <2>1, RecordFacts DEF IoOps
  <2>4. k.sec \in Sector
    BY <2>3 DEF Command
  <2>5. storage[k.sec] \in Payload /\ Clean(storage[k.sec])
    BY <2>4 DEF Effects, CleanInv, Types, SlaveTypes
  <2>6. AddMessage(storage[k.sec]) = storage[k.sec]
    BY <2>5, CleanFacts
  <2> QED
    BY <2>1, <2>2, <2>3, <2>4, <2>5, <2>6
<1> QED
  BY <1>1, <1>2 DEF StorageStep

LEMMA StorageEffects ==
  ASSUME Types, CarrierInv, NumbersInv, NumbersOnce, Effects, StorageStep, UNCHANGED <<nbd, master>>
  PROVE  Effects'
<1>1. PICK k \in DOMAIN sQueue, e \in m_list, buf \in Payload :
           /\ e.id = k.id /\ e.h \in Handle /\ ~seen[e.h].done /\ req[e.h].st # "idle"
           /\ seen' = [seen EXCEPT ![e.h] = [done |-> TRUE, buf |-> buf]]
           /\ \/ req[e.h].op = "WRITE" /\ buf = Zeros /\ storage' = [storage EXCEPT ![req[e.h].sec] = req[e.h].buf]
              \/ req[e.h].op = "READ" /\ buf = storage[req[e.h].sec] /\ UNCHANGED storage /\ Clean(buf)
           /\ req[e.h].sec \in Sector
           /\ sReply'.id = k.id /\ (req[e.h].op = "READ" => sReply'.buf = buf)
           /\ sQueue' = BagRemove(sQueue, k) /\ UNCHANGED net
           /\ Write(k) \/ Read(k)
  BY StorageFacts
<1>2. PICK g \in Handle, n \in 1..m_req_id : g = e.h /\ n = e.id
  BY <1>1 DEF Types, MasterTypes
<1>3. /\ UNCHANGED <<req, reqSock, repSock, mQueue, worker, m_mutex, m_list, m_req_id, toSlave, toMaster>>
      /\ seen'[g] = [done |-> TRUE, buf |-> buf]
      /\ \A h \in Handle : h # g => seen'[h] = seen[h]
  BY <1>1, <1>2 DEF nbd, master, net, Types, SlaveTypes
<1>4. /\ Listed(g) = {e} /\ Unread(g) = {} /\ Queued(g) = {} /\ Executed(g) = {} /\ Replied(g) = {}
  BY <1>2, ListedFacts
<1>5. SeenInv'
  BY <1>1, <1>2, <1>3 DEF Effects, SeenInv, IoOps
<1>6. CleanInv'
  <2>1. req[g].op = "WRITE" => Clean(req[g].buf)
    BY DEF Effects, CleanInv
  <2>2. \A s \in Sector : Clean(storage'[s])
    BY <1>1, <1>2, <2>1 DEF Effects, CleanInv, Types, SlaveTypes
  <2> QED
    BY <1>3, <2>2 DEF Effects, CleanInv
<1>7. UnseenInv'
  <2>1. ASSUME NEW i \in DOMAIN reqSock, reqSock[i].op # "DISCONNECT" PROVE ~seen'[reqSock[i].h].done
    <3>1. reqSock[i].h \in Handle /\ reqSock[i].h # g
      BY <1>4, <2>1 DEF Unread, Types, KernelTypes, SentRequests
    <3> QED
      BY <1>3, <2>1, <3>1 DEF Effects, UnseenInv
  <2>2. ASSUME NEW x \in DOMAIN mQueue, x.key \in AllOps PROVE ~seen'[x.h].done
    <3>1. x.h \in Handle /\ x.h # g
      BY <1>4, <2>2, TaskFacts DEF Queued, OfRequest, Types, MasterTypes
    <3> QED
      BY <1>3, <2>2, <3>1 DEF Effects, UnseenInv
  <2>3. ASSUME NEW t \in Worker, worker[t].at \in {"run", "send"}, worker[t].task.key \in AllOps
        PROVE  ~seen'[worker[t].task.h].done
    <3>1. CASE worker[t].at = "run"
      <4>1. worker[t].task.h \in Handle /\ worker[t].task.h # g
        BY <1>4, <2>3, <3>1, WorkerFacts, TaskFacts DEF Executed, OfRequest
      <4> QED
        BY <1>3, <2>3, <4>1 DEF Effects, UnseenInv
    <3>2. CASE worker[t].at = "send"
      <4>1. worker[t].task.h \in Handle
        BY <3>2, WorkerFacts DEF RequestTask
      <4>2. PICK f \in m_list : f.id = worker[t].id /\ f.h = worker[t].task.h
        BY <3>2 DEF NumbersInv, SendInv
      <4>3. f.id # e.id
        BY <1>1, <3>2, <4>2 DEF NumbersInv, SendInv, Numbered
      <4>4. f.h # g
        BY <1>4, <4>3 DEF Listed
      <4> QED
        BY <1>3, <2>3, <4>1, <4>2, <4>4 DEF Effects, UnseenInv
    <3> QED
      BY <2>3, <3>1, <3>2
  <2> QED
    BY <1>3, <2>1, <2>2, <2>3 DEF UnseenInv
<1>8. EffectInv'
  <2>1. ASSUME NEW h \in Handle, NEW r, IsReplyOf(r, h) PROVE IsReplyOf(r, h)'
    <3>1. h # g
      BY <1>1, <1>2, <2>1 DEF IsReplyOf
    <3> QED
      BY <1>3, <2>1, <3>1 DEF IsReplyOf
  <2>2. NumbersOnce'
    BY <1>1, StorageStepOnce
  <2>3. DOMAIN sQueue' \subseteq DOMAIN sQueue /\ sReply' # NoReply
    <3>1. DOMAIN BagRemove(sQueue, k) \subseteq DOMAIN sQueue
      BY BagRemoveFacts DEF Types, SlaveTypes
    <3>2. sReply' # NoReply
      <4>1. sReply'.key \in {"READ", "WRITE"}
        BY <1>1 DEF Write, Read
      <4> QED
        BY <4>1 DEF NoReply
    <3> QED
      BY <1>1, <3>1, <3>2
  <2>4. Sent(n)' = {} /\ Pending(n)' = {} /\ Answered(n)' = {}
    <3>1. sReply' \in Done(n)'
      BY <1>1, <1>2, <2>3 DEF Done
    <3>2. InOnePlace(n)'
      BY <1>3, <2>2 DEF NumbersOnce
    <3> QED
      BY <3>1, <3>2 DEF InOnePlace, Alone, Nowhere
  <2>5. ASSUME NEW f \in m_list
        PROVE  /\ \A m \in DOMAIN toSlave' \cup DOMAIN sQueue' : m.id = f.id => IsCommandOf(m, f)'
               /\ \A m \in DOMAIN toMaster' \cup {sReply'} : m.id = f.id => IsReplyOf(m, f.h)'
    <3>1. CASE f = e
      <4>1. \A m \in DOMAIN toSlave' \cup DOMAIN sQueue' \cup DOMAIN toMaster' : m.id # f.id
        BY <1>2, <2>4, <3>1 DEF Sent, Pending, Answered
      <4>2. PICK r : r = sReply'
        OBVIOUS
      <4>3. IsReplyOf(r, f.h)'
        BY <1>1, <1>2, <1>3, <3>1, <4>2 DEF IsReplyOf
      <4> QED
        BY <4>1, <4>2, <4>3
    <3>2. CASE f # e
      <4>1. f.h \in Handle /\ f.h # g /\ f.id # e.id
        BY <1>2, <1>4, <3>2 DEF Listed, NumbersInv, ListInv, Types, MasterTypes
      <4>2. \A m \in DOMAIN toSlave \cup DOMAIN sQueue : m.id = f.id => IsCommandOf(m, f)'
        BY <1>3, <4>1 DEF Effects, EffectInv, IsCommandOf
      <4>3. \A m \in DOMAIN toMaster : m.id = f.id => IsReplyOf(m, f.h)'
        BY <2>1, <4>1 DEF Effects, EffectInv
      <4> QED
        BY <1>1, <1>3, <2>3, <4>1, <4>2, <4>3
    <3> QED
      BY <3>1, <3>2
  <2>6. \A x \in DOMAIN mQueue : x.key = "REPLAY" => IsReplyOf(x, x.h)'
    BY <2>1, TaskFacts DEF Effects, EffectInv, Types, MasterTypes
  <2>7. ASSUME NEW t \in Worker, worker[t].at = "run", worker[t].task.key = "REPLAY"
        PROVE  IsReplyOf(worker[t].task, worker[t].task.h)'
    <3>1. PICK x : x = worker[t].task
      OBVIOUS
    <3>2. x.h \in Handle /\ IsReplyOf(x, x.h)
      BY <2>7, <3>1, WorkerFacts, TaskFacts DEF Effects, EffectInv
    <3>3. IsReplyOf(x, x.h)' /\ x = worker'[t].task
      BY <1>3, <2>1, <3>1, <3>2
    <3> QED
      BY <3>3
  <2> QED
    BY <1>3, <2>5, <2>6, <2>7 DEF EffectInv
<1>9. FrameInv'
  <2>1. \A i \in DOMAIN repSock : repSock[i].kind = "header" => repSock[i].h \in Handle /\ repSock[i].h # g
    BY <1>4 DEF Replied, Types, KernelTypes, Chunk
  <2> QED
    BY <1>3, <2>1 DEF Effects, FrameInv
<1> QED
  BY <1>5, <1>6, <1>7, <1>8, <1>9 DEF Effects

-----------------------------------------------------------------------------
(* Every step, as long as nothing is duplicated.                           *)

LEMMA MainStepEffects ==
  ASSUME Types, CarrierInv, LockInv, NumbersInv, Effects, MainStep
  PROVE  Effects'
<1>1. UNCHANGED <<slave, seen>>
  BY DEF MainStep
<1>2. ASSUME NEW m \in DOMAIN toMaster, SlaveHello(m) \/ SlaveRead(m) PROVE Effects'
  BY <1>1, <1>2, SlaveHelloEffects, SlaveReadEffects
<1>3. CASE NbdRead
  BY <1>1, <1>3, NbdReadEffects
<1>4. CASE NbdReadEof \/ Return
  <2>1. UNCHANGED <<req, reqSock, repSock, pool, m_mutex, m_list, toSlave, toMaster>>
    BY <1>4 DEF NbdReadEof, Return, table, net
  <2> QED
    BY <1>1, <2>1, StandingSame, KernelStands
<1> QED
  BY <1>2, <1>3, <1>4 DEF MainStep, MainThread

LEMMA PoolStepEffects ==
  ASSUME Types, CarrierInv, LockInv, NumbersInv, Effects, NEW t \in Worker, PoolStep(t)
  PROVE  Effects'
<1>1. UNCHANGED <<slave, seen>>
  BY DEF PoolStep
<1>2. CASE WriteAllThrows(t)
  <2>1. UNCHANGED <<req, reqSock, repSock, pool, m_mutex, m_list, toSlave, toMaster>>
    BY <1>2 DEF WriteAllThrows, table, net
  <2> QED
    BY <1>1, <2>1, StandingSame, KernelStands
<1>3. ASSUME NEW k \in DOMAIN mQueue, Pop(t, k) PROVE Effects'
  BY <1>1, <1>3, PopEffects
<1> QED
  BY <1>1, <1>2, <1>3, HandlerToIdEffects, StorageSendEffects, OtherEffects, SendReplyEffects,
     SendReplyDataEffects DEF PoolStep, PoolThread

LEMMA EnvironmentEffects ==
  ASSUME Types, CarrierInv, LockInv, NumbersInv, Effects, EnvironmentStep
  PROVE  Effects'
<1>1. UNCHANGED <<slave, seen>>
  BY DEF EnvironmentStep
<1>2. CASE StdinRead
  BY <1>1, <1>2, StdinReadEffects
<1>3. ASSUME Signal \/ SetNbdFails \/ \E t \in Worker : SendFails(t) PROVE Effects'
  <2>1. UNCHANGED <<req, reqSock, repSock, pool, m_mutex, m_list, toSlave, toMaster>>
    BY <1>3 DEF Signal, SetNbdFails, SendFails, table, net
  <2> QED
    BY <1>1, <2>1, StandingSame, KernelStands
<1> QED
  BY <1>2, <1>3 DEF EnvironmentStep, Environment

LEMMA KernelStepEffects ==
  ASSUME Types, CarrierInv, LockInv, NumbersInv, Effects, KernelStep
  PROVE  Effects'
<1>1. UNCHANGED <<master, net, slave, seen>>
  BY DEF KernelStep
<1>2. CASE BadReply
  <2>1. UNCHANGED <<req, reqSock, repSock, pool, m_mutex, m_list, toSlave, toMaster>>
    BY <1>1, <1>2 DEF BadReply, master, table, pool, net
  <2> QED
    BY <1>1, <2>1, StandingSame, KernelStands
<1> QED
  BY <1>1, <1>2, SubmitDiscEffects, CompleteEffects, ClearQueueEffects DEF KernelStep, Kernel, KernelReads

LEMMA SlaveStepEffects ==
  ASSUME Types, CarrierInv, LockInv, NumbersInv, NumbersOnce, Effects, SlaveStep, UNCHANGED <<nbd, master>>
  PROVE  Effects'
<1>1. ASSUME NEW m \in DOMAIN toSlave, ReceiveRequest(m), UNCHANGED seen PROVE Effects'
  BY <1>1, ReceiveRequestEffects
<1> QED
  BY <1>1, BootEffects, StorageEffects, SlaveSendReplyEffects, SlaveGoneEffects DEF SlaveStep

LEMMA NextEffects ==
  ASSUME CleanData, Types, CarrierInv, LockInv, NumbersInv, NumbersOnce, Effects, [Next]_vars, ~Duplicate
  PROVE  Effects'
<1>1. ASSUME NEW h \in Handle, NEW r \in Requests, SubmitStep(h, r), UNCHANGED <<master, net, slave>>
      PROVE  Effects'
  BY <1>1, SubmitEffects
<1>2. ASSUME CrashStep, UNCHANGED <<nbd, master>> PROVE Effects'
  BY <1>2, SlaveGoneEffects DEF CrashStep
<1>3. ASSUME Fault, UNCHANGED <<nbd, master, slave, seen>> PROVE Effects'
  BY <1>3, LoseEffects DEF Fault
<1>4. ASSUME UNCHANGED vars PROVE Effects'
  <2>1. UNCHANGED <<req, reqSock, repSock, pool, m_mutex, m_list, toSlave, toMaster, slave, seen>>
    BY <1>4 DEF vars, nbd, master, table, pool, net
  <2> QED
    BY <2>1, StandingSame, KernelStands
<1>5. ASSUME NEW t \in Worker, PoolStep(t) PROVE Effects'
  BY <1>5, PoolStepEffects
<1> QED
  BY <1>1, <1>2, <1>3, <1>4, <1>5, KernelStepEffects, MainStepEffects, EnvironmentEffects, SlaveStepEffects
     DEF Next

LEMMA InitEffects == ASSUME CleanData, Init PROVE Effects
<1>1. /\ req = [h \in Handle |-> Idle] /\ reqSock = <<>> /\ repSock = <<>>
      /\ DOMAIN mQueue = {} /\ m_list = {} /\ storage = InitStorage
      /\ seen = [h \in Handle |-> Unseen]
      /\ \A t \in Worker : worker[t].at = "idle"
  BY EmptyBagFacts DEF Init, NbdInit, MasterInit, SlaveInit
<1>2. SeenInv
  BY <1>1 DEF SeenInv, Unseen
<1>3. UnseenInv
  BY <1>1 DEF UnseenInv
<1>4. EffectInv
  BY <1>1 DEF EffectInv
<1>5. FrameInv
  BY <1>1 DEF FrameInv
<1>6. CleanInv
  BY <1>1 DEF CleanInv, CleanData, Idle
<1> QED
  BY <1>2, <1>3, <1>4, <1>5, <1>6 DEF Effects

LEMMA NextDisk ==
  ASSUME CleanData, Types, CarrierInv, LockInv, NumbersInv, NumberInv, DiskInv, [Next]_vars
  PROVE  DiskInv'
<1>1. ASSUME dups' = 0 PROVE Effects'
  <2>1. dups = 0 /\ ~Duplicate
    BY <1>1, DupsGrow DEF Types, NetTypes, Duplicate
  <2>2. NumbersOnce /\ Effects
    BY <2>1 DEF NumberInv, DiskInv, Effects
  <2> QED
    BY <2>1, <2>2, NextEffects
<1> QED
  BY <1>1 DEF DiskInv, Effects

-----------------------------------------------------------------------------
(* The refinement of BlockDevice.                                          *)

\* The steps that the disk does not see.
LEMMA Invisible ==
  ASSUME UNCHANGED <<req, ret, storage, seen>>
  PROVE  UNCHANGED Disk!bvars
BY DEF Disk!bvars

LEMMA SubmitRefines ==
  ASSUME Types, NEW h \in Handle, NEW r \in Requests, SubmitStep(h, r), UNCHANGED <<master, net, slave>>
  PROVE  Disk!Submit(h)
<1>1. /\ req[h].st = "idle" /\ req' = [req EXCEPT ![h] = r] /\ r.st = "sent"
      /\ seen' = [seen EXCEPT ![h] = Unseen] /\ UNCHANGED <<ret, storage>>
      /\ req \in [Handle -> RequestState]
  BY DEF SubmitStep, Submit, Requests, slave, Types, KernelTypes
<1>2. [g \in Handle |-> req'[g].st] = [[g \in Handle |-> req[g].st] EXCEPT ![h] = "sent"]
  BY <1>1
<1>3. \A g \in Handle \ {h} : req'[g] = req[g]
  BY <1>1
<1> QED
  BY <1>1, <1>2, <1>3 DEF Disk!Submit, Disk!NoEffect, Unseen

LEMMA CompleteRefines ==
  ASSUME Types, CarrierInv, Effects, Complete, UNCHANGED <<master, net, slave, seen>>
  PROVE  \E g \in Handle : Disk!Complete(g)
<1>1. PICK g \in Handle, n \in 1..2 :
        /\ repSock[1].h = g /\ n = IF req[g].op = "READ" /\ repSock[1].err = 0 THEN 2 ELSE 1
        /\ repSock[1].kind = "header" /\ 1 \in DOMAIN repSock /\ req[g].st = "sent" /\ Len(repSock) >= n
        /\ repSock[1].err \in 0..1
        /\ n = 2 => repSock[2].kind = "data" /\ repSock[2].buf \in Payload
        /\ req' = [req EXCEPT ![g] = Idle]
        /\ ret' = [ret EXCEPT ![g] = [err |-> repSock[1].err, buf |-> repSock[n].buf]]
  BY CompleteFacts
<1>2. /\ repSock[1] \in Chunk /\ repSock \in Seq(Chunk) /\ req \in [Handle -> RequestState]
      /\ UNCHANGED <<storage, seen>>
  BY <1>1 DEF Types, KernelTypes, slave
<1>3. repSock[1].buf = Zeros
  BY <1>1, <1>2 DEF Chunk
<1>4. [h \in Handle |-> req'[h].st] = [[h \in Handle |-> req[h].st] EXCEPT ![g] = "idle"]
  BY <1>1, <1>2 DEF Idle
<1>5. \A h \in Handle \ {g} : req'[h] = req[h]
  BY <1>1, <1>2
<1>6. CASE repSock[1].err = 0
  <2>1. seen[g].done <=> req[g].op \in IoOps
    BY <1>1, <1>6 DEF Effects, FrameInv
  <2>2. repSock[n].buf = seen[g].buf
    <3>1. CASE req[g].op = "READ"
      <4>1. n = 2 /\ 1 < Len(repSock)
        BY <1>1, <1>2, <1>6, <3>1
      <4> QED
        BY <1>1, <1>6, <3>1, <4>1 DEF Effects, FrameInv
    <3>2. CASE req[g].op # "READ"
      <4>1. n = 1 /\ seen[g].buf = Zeros
        BY <1>1, <2>1, <3>2 DEF Effects, SeenInv, IoOps
      <4> QED
        BY <1>3, <4>1
    <3> QED
      BY <3>1, <3>2
  <2> QED
    BY <1>1, <1>2, <1>4, <1>5, <1>6, <2>1, <2>2 DEF Disk!Complete, IoOps
<1>7. CASE repSock[1].err = 1
  <2>1. n = 1
    BY <1>1, <1>7
  <2> QED
    BY <1>1, <1>2, <1>3, <1>4, <1>5, <1>7, <2>1 DEF Disk!Complete
<1> QED
  BY <1>1, <1>6, <1>7

LEMMA ClearQueueRefines ==
  ASSUME Types, ClearQueue, UNCHANGED <<master, net, slave, seen>>
  PROVE  Disk!Fail
<1>1. /\ req' = [h \in Handle |-> IF req[h].st = "sent" THEN [req[h] EXCEPT !.st = "failed"] ELSE req[h]]
      /\ UNCHANGED <<ret, storage, seen>>
  BY DEF ClearQueue, slave
<1>2. ASSUME NEW h \in Handle
      PROVE  /\ req'[h].st = IF req[h].st = "sent" THEN "failed" ELSE req[h].st
             /\ req'[h].op = req[h].op /\ req'[h].sec = req[h].sec /\ req'[h].buf = req[h].buf
  <2>1. req[h] \in RequestState /\ req'[h] = IF req[h].st = "sent" THEN [req[h] EXCEPT !.st = "failed"] ELSE req[h]
    BY <1>1 DEF Types, KernelTypes
  <2> QED
    BY ZenonT(40), <2>1, StateFacts, WithState
<1> QED
  BY <1>1, <1>2 DEF Disk!Fail

LEMMA StorageRefines ==
  ASSUME Types, CarrierInv, NumbersInv, NumbersOnce, Effects, StorageStep, UNCHANGED <<nbd, master>>
  PROVE  \E h \in Handle : Disk!Apply(h)
<1>1. PICK e \in m_list, buf \in Payload :
           /\ e.h \in Handle /\ ~seen[e.h].done /\ req[e.h].st # "idle"
           /\ seen' = [seen EXCEPT ![e.h] = [done |-> TRUE, buf |-> buf]]
           /\ \/ req[e.h].op = "WRITE" /\ buf = Zeros /\ storage' = [storage EXCEPT ![req[e.h].sec] = req[e.h].buf]
              \/ req[e.h].op = "READ" /\ buf = storage[req[e.h].sec] /\ UNCHANGED storage /\ Clean(buf)
  BY StorageFacts
<1>2. PICK h \in Handle : h = e.h
  BY <1>1
<1>3. req[h].st \in {"sent", "failed"}
  BY <1>1, <1>2, StateFacts DEF Types, KernelTypes
<1>4. UNCHANGED <<req, ret>>
  BY DEF nbd
<1>5. Disk!Apply(h)
  BY <1>1, <1>2, <1>3, <1>4 DEF Disk!Apply
<1> QED
  BY <1>5

LEMMA MasterInvisible ==
  ASSUME MainStep \/ EnvironmentStep \/ \E t \in Worker : PoolStep(t)
  PROVE  UNCHANGED Disk!bvars
<1>1. UNCHANGED <<storage, seen>>
  BY DEF MainStep, EnvironmentStep, PoolStep, slave
<1>2. CASE MainStep
  BY <1>1, <1>2, Invisible DEF MainStep, MainThread, SlaveHello, SlaveRead, NbdRead, NbdReadEof, Return, nbd
<1>3. CASE EnvironmentStep
  BY <1>1, <1>3, Invisible DEF EnvironmentStep, Environment, StdinRead, Signal, SetNbdFails, SendFails, nbd
<1>4. ASSUME NEW t \in Worker, PoolStep(t) PROVE UNCHANGED Disk!bvars
  BY <1>1, <1>4, Invisible
     DEF PoolStep, PoolThread, Pop, HandlerToId, StorageSend, StorageDisconnect, DriverDisconnect,
         SendReply, SendReplyData, WriteAllThrows, TakeStop, nbd
<1> QED
  BY <1>2, <1>3, <1>4

LEMMA SlaveRefines ==
  ASSUME Types, CarrierInv, NumbersInv, NumbersOnce, Effects, SlaveStep, UNCHANGED <<nbd, master>>
  PROVE  [Disk!BNext]_Disk!bvars
<1>1. CASE StorageStep
  BY <1>1, StorageRefines DEF Disk!BNext
<1>2. CASE ~StorageStep
  <2>1. UNCHANGED <<req, ret, storage, seen>>
    BY <1>2 DEF SlaveStep, Boot, ReceiveRequest, SlaveSendReply, SlaveDisconnect, SlaveStop, nbd
  <2> QED
    BY <2>1, Invisible
<1> QED
  BY <1>1, <1>2

LEMMA DiskStep ==
  ASSUME Types, CarrierInv, NumbersInv, NumberInv, DiskInv, dups = 0, [Next]_vars
  PROVE  [Disk!BNext]_Disk!bvars
<1>1. NumbersOnce /\ Effects
  BY DEF NumberInv, DiskInv, Effects
<1>2. ASSUME NEW h \in Handle, NEW r \in Requests, SubmitStep(h, r), UNCHANGED <<master, net, slave>>
      PROVE  Disk!BNext
  BY <1>2, SubmitRefines DEF Disk!BNext
<1>3. ASSUME KernelStep PROVE [Disk!BNext]_Disk!bvars
  <2>1. UNCHANGED <<master, net, slave, seen>>
    BY <1>3 DEF KernelStep
  <2>2. CASE Complete
    BY <1>1, <2>1, <2>2, CompleteRefines DEF Disk!BNext
  <2>3. CASE ClearQueue
    BY <2>1, <2>3, ClearQueueRefines DEF Disk!BNext
  <2>4. CASE SubmitDisc \/ BadReply
    BY <2>1, <2>4, Invisible DEF SubmitDisc, BadReply, slave
  <2> QED
    BY <1>3, <2>2, <2>3, <2>4 DEF KernelStep, Kernel, KernelReads
<1>4. ASSUME SlaveStep, UNCHANGED <<nbd, master>> PROVE [Disk!BNext]_Disk!bvars
  BY <1>1, <1>4, SlaveRefines
<1>5. ASSUME CrashStep, UNCHANGED <<nbd, master>> PROVE UNCHANGED Disk!bvars
  BY <1>5, Invisible DEF CrashStep, Crash, nbd
<1>6. ASSUME Fault, UNCHANGED <<nbd, master, slave, seen>> PROVE UNCHANGED Disk!bvars
  BY <1>6, Invisible DEF slave, nbd
<1>7. ASSUME UNCHANGED vars PROVE UNCHANGED Disk!bvars
  BY <1>7, Invisible DEF vars, slave, nbd
<1> QED
  BY <1>2, <1>3, <1>4, <1>5, <1>6, <1>7, MasterInvisible DEF Next

LEMMA DiskStart == ASSUME Init PROVE Disk!BInit
BY DEF Init, NbdInit, SlaveInit, Unseen, Idle, Disk!BInit, Disk!NoEffect

\* What ties the datagrams, the tasks and the replies to the disk, in every state.
DiskInvariant == Types /\ CarrierInv /\ LockInv /\ NumbersInv /\ NumberInv /\ DiskInv

\* greencloud is a disk: as long as the network duplicates no datagram, and neither the kernel
\* nor the file has a sector with a NUL before its last byte, every READ and WRITE takes effect
\* on the storage once, between its submission and its completion, and a READ returns what its
\* sector held at that moment; and that whatever is lost or reordered, whichever process ends,
\* and however many times the slave is killed.
THEOREM DiskImplemented ==
  ASSUME CleanData
  PROVE  Spec /\ [](dups = 0) => IsDisk
<1>1. Init => DiskInvariant
  BY InitTypes, InitCarrier, InitLock, InitNumbers, InitOnce, InitEffects DEF DiskInvariant, DiskInv, Effects
<1>2. DiskInvariant /\ [Next]_vars => DiskInvariant'
  BY NextTypes, NextCarrier, NextLock, NextNumbers, NextOnce, NextDisk DEF DiskInvariant
<1>3. Init => Disk!BInit
  BY DiskStart
<1>4. DiskInvariant /\ dups = 0 /\ [Next]_vars => [Disk!BNext]_Disk!bvars
  BY DiskStep DEF DiskInvariant
<1> QED
  BY <1>1, <1>2, <1>3, <1>4, PTL DEF Spec, IsDisk, Disk!BSpec

LEMMA DupsBounded ==
  /\ Init => Types /\ dups <= MaxDup
  /\ Types /\ dups <= MaxDup /\ [Next]_vars => (Types /\ dups <= MaxDup)'
<1>1. ASSUME Types, dups <= MaxDup, [Next]_vars PROVE (Types /\ dups <= MaxDup)'
  <2>1. Types'
    BY <1>1, NextTypes
  <2>2. dups' <= MaxDup
    BY <1>1, DupsGrow, NetworkAssumption DEF Types, NetTypes, Duplicate
  <2> QED
    BY <2>1, <2>2
<1> QED
  BY <1>1, InitTypes, NetworkAssumption DEF Init, NetInit

\* The same for a network that duplicates nothing, as the run disk checks it.
THEOREM DiskWithoutDuplicates ==
  ASSUME CleanData, MaxDup = 0
  PROVE  Spec => IsDisk
<1>1. Types /\ dups <= MaxDup => dups = 0
  BY DEF Types, NetTypes
<1>2. Spec => [](dups = 0)
  BY <1>1, DupsBounded, PTL DEF Spec
<1> QED
  BY <1>2, DiskImplemented, PTL
=============================================================================
