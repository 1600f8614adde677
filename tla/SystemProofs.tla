---------------------------- MODULE SystemProofs ----------------------------
(***************************************************************************)
(* The invariant of GreenCloudInv is inductive, for every number of        *)
(* handles, sectors, pool threads, requests, losses, duplicates and        *)
(* crashes.                                                                *)
(***************************************************************************)
EXTENDS GreenCloudInv, TLAPS

-----------------------------------------------------------------------------
(* Bags.                                                                   *)

\* BagAdd() adds one copy of x and leaves the other elements alone.
LEMMA BagAddFacts ==
  ASSUME NEW B, IsABag(B), NEW x
  PROVE  /\ IsABag(BagAdd(B, x))
         /\ DOMAIN BagAdd(B, x) = DOMAIN B \cup {x}
         /\ \A y \in DOMAIN B : y # x => BagAdd(B, x)[y] = B[y]
         /\ x \notin DOMAIN B => BagAdd(B, x)[x] = 1
BY DEF BagAdd, IsABag

\* BagRemove() takes one copy of x and leaves the other elements alone.
LEMMA BagRemoveFacts ==
  ASSUME NEW B, IsABag(B), NEW x \in DOMAIN B
  PROVE  /\ IsABag(BagRemove(B, x))
         /\ DOMAIN BagRemove(B, x) \subseteq DOMAIN B
         /\ DOMAIN B \subseteq DOMAIN BagRemove(B, x) \cup {x}
         /\ \A y \in DOMAIN BagRemove(B, x) : y # x => BagRemove(B, x)[y] = B[y]
         /\ B[x] = 1 => DOMAIN BagRemove(B, x) = DOMAIN B \ {x}
BY DEF BagRemove, IsABag

LEMMA EmptyBagFacts == IsABag(EmptyBag) /\ DOMAIN EmptyBag = {}
BY DEF EmptyBag, SetToBag, IsABag

-----------------------------------------------------------------------------
(* Types.                                                                  *)

\* A sector of zeros is a payload, and so is what the two copies make of one.
LEMMA PayloadFacts ==
  /\ Zeros \in Payload
  /\ \A p \in Payload : AddMessage(p) \in Payload
  /\ \A p : Strcpy(p) \subseteq Payload
BY WireAssumption DEF Zeros, Payload, AddMessage, Strcpy, NUL

\* A request has a sector and a payload.
LEMMA RequestFacts ==
  ASSUME NEW r \in Requests
  PROVE  /\ r.st = "sent" /\ r.op \in Op /\ r.op \in AllOps /\ r.sec \in Sector /\ r.buf \in Payload
         /\ r = [st |-> r.st, op |-> r.op, sec |-> r.sec, buf |-> r.buf]
         /\ [r EXCEPT !.st = "failed"] = [st |-> "failed", op |-> r.op, sec |-> r.sec, buf |-> r.buf]
         /\ r.op # "WRITE" => r.buf = Zeros
         /\ r.op = "WRITE" => r.buf \in Data
BY NbdAssumption, PayloadFacts DEF Requests

\* A request that failed was this request before.
LEMMA WithState ==
  ASSUME NEW r \in Requests
  PROVE  [r EXCEPT !.st = "sent"] = r /\ [[r EXCEPT !.st = "failed"] EXCEPT !.st = "sent"] = r
<1>1. r.st = "sent" /\ r = [st |-> r.st, op |-> r.op, sec |-> r.sec, buf |-> r.buf]
  BY RequestFacts
<1>2. [st |-> r.st, op |-> r.op, sec |-> r.sec, buf |-> r.buf] = [st |-> "sent", op |-> r.op, sec |-> r.sec, buf |-> r.buf]
  BY <1>1
<1> QED
  BY <1>1, <1>2

\* What is known of a handle's request.
LEMMA StateFacts ==
  ASSUME NEW r \in RequestState
  PROVE  /\ r.st \in {"idle", "sent", "failed"} /\ r.op \in AllOps
         /\ r.st = "idle" <=> r = Idle
         /\ r.st = "sent" <=> r \in Requests
         /\ r.st # "idle" => r.sec \in Sector /\ r.buf \in Payload
         /\ r.st # "idle" => r = [st |-> r.st, op |-> r.op, sec |-> r.sec, buf |-> r.buf]
         /\ r.st = "sent" => [r EXCEPT !.st = "failed"] \in RequestState
<1>1. CASE r = Idle
  BY <1>1, RequestFacts DEF Idle, AllOps
<1>2. CASE r \in Requests
  BY <1>2, RequestFacts DEF Idle, RequestState
<1>3. CASE \E q \in Requests : r = [q EXCEPT !.st = "failed"]
  <2>1. PICK q \in Requests : r = [q EXCEPT !.st = "failed"]
    BY <1>3
  <2>2. r = [st |-> "failed", op |-> q.op, sec |-> q.sec, buf |-> q.buf] /\ q.op \in AllOps
        /\ q.sec \in Sector /\ q.buf \in Payload
    BY <2>1, RequestFacts
  <2>3. r # Idle /\ r \notin Requests
    BY <2>2, RequestFacts DEF Idle
  <2> QED
    BY <2>2, <2>3
<1> QED
  BY <1>1, <1>2, <1>3 DEF RequestState

\* The types that depend on how many numbers and addresses there are only grow.
LEMMA TypesGrow ==
  ASSUME Types, m_req_id' \in Nat, m_req_id' >= m_req_id, sPort' \in Nat, sPort' >= sPort
  PROVE  /\ WorkerState \subseteq WorkerState' /\ Command \subseteq Command'
         /\ Answer \subseteq Answer' /\ Hello \subseteq Hello'
<1>1. 1..m_req_id \subseteq 1..m_req_id' /\ 1..sPort \subseteq 1..sPort'
  BY DEF Types, MasterTypes, SlaveTypes
<1>2. Command \subseteq Command' /\ Answer \subseteq Answer' /\ Hello \subseteq Hello'
  BY <1>1 DEF Command, Answer, Hello
<1>3. WorkerState \subseteq WorkerState'
  BY <1>1 DEF WorkerState
<1> QED
  BY <1>2, <1>3

\* A step that touches neither the number of requests nor of addresses leaves these types alone.
LEMMA SameMaster ==
  ASSUME Types, UNCHANGED master, sPort' \in Nat, sPort' >= sPort
  PROVE  MasterTypes'
BY DEF Types, MasterTypes, SlaveTypes, master, WorkerState

LEMMA SameNet ==
  ASSUME Types, UNCHANGED net, m_req_id' \in Nat, m_req_id' >= m_req_id,
         sPort' \in Nat, sPort' >= sPort
  PROVE  NetTypes'
BY TypesGrow DEF Types, NetTypes, net, Order

LEMMA SameSlave ==
  ASSUME Types, UNCHANGED <<slave, seen>>, m_req_id' \in Nat, m_req_id' >= m_req_id
  PROVE  SlaveTypes'
<1>1. sPort' \in Nat /\ sPort' >= sPort
  BY DEF Types, SlaveTypes, slave
<1> QED
  BY <1>1, TypesGrow DEF Types, SlaveTypes, slave, Order

LEMMA SameKernel ==
  ASSUME Types, UNCHANGED nbd
  PROVE  KernelTypes'
BY DEF Types, KernelTypes, nbd

\* A pool thread gets a state of the right type.
LEMMA WorkerType ==
  ASSUME Types, NEW t \in Worker, NEW w \in WorkerState', worker' = [worker EXCEPT ![t] = w],
         m_req_id' \in Nat, m_req_id' >= m_req_id, UNCHANGED sPort
  PROVE  worker' \in [Worker -> WorkerState']
<1>1. WorkerState \subseteq WorkerState'
  BY TypesGrow DEF Types, SlaveTypes
<1> QED
  BY <1>1 DEF Types, MasterTypes

\* The states of the pool threads do not change with anything but the number of requests.
LEMMA SameWorkerState ==
  ASSUME UNCHANGED m_req_id
  PROVE  WorkerState' = WorkerState
BY DEF WorkerState

LEMMA InitTypes == Init => Types
<1> SUFFICES ASSUME Init PROVE Types
  OBVIOUS
<1>1. KernelTypes
  BY PayloadFacts DEF Init, NbdInit, KernelTypes, RequestState
<1>2. MasterTypes
  BY EmptyBagFacts DEF Init, MasterInit, SlaveInit, MasterTypes, MainStatus, WorkerState, NoTask
<1>3. NetTypes
  BY EmptyBagFacts DEF Init, NetInit, NetTypes
<1>4. SlaveTypes
  BY EmptyBagFacts, SlaveAssumption, PayloadFacts DEF Init, SlaveInit, SlaveTypes, Unseen
<1> QED
  BY <1>1, <1>2, <1>3, <1>4 DEF Types

\* The kernel: what it writes is a request, and what it takes from a reply a payload.
LEMMA SubmitTypes ==
  ASSUME Types, NEW h \in Handle, NEW r \in Requests, SubmitStep(h, r), UNCHANGED <<master, net, slave>>
  PROVE  Types'
<1>1. KernelTypes'
  <2>1. [op |-> r.op, h |-> h, sec |-> r.sec, buf |-> r.buf] \in SentRequests
    BY RequestFacts DEF SentRequests
  <2> QED
    BY <2>1 DEF SubmitStep, Submit, Types, KernelTypes, RequestState
<1>2. SlaveTypes'
  BY PayloadFacts, TypesGrow DEF SubmitStep, Types, SlaveTypes, MasterTypes, slave, master, Unseen, Answer, Command, Order
<1>3. MasterTypes' /\ NetTypes'
  BY SameMaster, SameNet DEF Types, SlaveTypes, MasterTypes, slave, master
<1> QED
  BY <1>1, <1>2, <1>3 DEF Types

LEMMA KernelTypesStep ==
  ASSUME Types, KernelStep
  PROVE  Types'
<1>1. KernelTypes'
  <2>1. CASE SubmitDisc
    <3>1. [op |-> "DISCONNECT"] \in SentRequests
      BY DEF SentRequests
    <3> QED
      BY <2>1, <3>1 DEF SubmitDisc, Types, KernelTypes
  <2>2. CASE Complete
    <3> DEFINE r == Head(repSock)
               n == IF req[r.h].op = "READ" /\ r.err = 0 THEN 2 ELSE 1
    <3>1. /\ r \in Chunk /\ repSock \in Seq(Chunk) /\ Len(repSock) >= n /\ n \in 1..2
          /\ r.h \in Handle /\ r.err \in 0..1
      BY <2>2 DEF Complete, Types, KernelTypes, Chunk
    <3>2. repSock[n] \in Chunk /\ repSock[n].buf \in Payload
      BY <3>1, PayloadFacts DEF Chunk
    <3>3. repSock' \in Seq(Chunk)
      BY <2>2, <3>1 DEF Complete
    <3>4. req' = [req EXCEPT ![r.h] = Idle]
          /\ ret' = [ret EXCEPT ![r.h] = [err |-> r.err, buf |-> repSock[n].buf]]
      BY <2>2 DEF Complete
    <3> QED
      BY SMTT(40), <2>2, <3>1, <3>2, <3>3, <3>4 DEF Complete, Types, KernelTypes, RequestState
  <2>3. CASE BadReply
    BY <2>3 DEF BadReply, Types, KernelTypes
  <2>4. CASE ClearQueue
    <3>1. \A h \in Handle : req'[h] \in RequestState
      BY <2>4, StateFacts DEF ClearQueue, Types, KernelTypes
    <3> QED
      BY <2>4, <3>1 DEF ClearQueue, Types, KernelTypes
  <2> QED
    BY <2>1, <2>2, <2>3, <2>4 DEF KernelStep, Kernel, KernelReads
<1>2. MasterTypes' /\ NetTypes' /\ SlaveTypes'
  BY SameMaster, SameNet, SameSlave DEF KernelStep, Types, SlaveTypes, MasterTypes, slave, master
<1> QED
  BY <1>1, <1>2 DEF Types

\* A queued task is of the right type.
LEMMA QueueType ==
  ASSUME Types, NEW k \in Task, mQueue' = BagAdd(mQueue, k)
  PROVE  IsABag(mQueue') /\ DOMAIN mQueue' \subseteq Task
<1>1. IsABag(mQueue) /\ DOMAIN mQueue \subseteq Task
  BY DEF Types, MasterTypes
<1>2. IsABag(BagAdd(mQueue, k)) /\ DOMAIN BagAdd(mQueue, k) = DOMAIN mQueue \cup {k}
  BY <1>1, BagAddFacts
<1> QED
  BY <1>1, <1>2

\* A datagram that is received leaves the others.
LEMMA RecvFromSlaveTypes ==
  ASSUME Types, NEW m \in DOMAIN toMaster, RecvFromSlave(m), UNCHANGED <<m_req_id, sPort>>
  PROVE  NetTypes'
BY BagRemoveFacts DEF RecvFromSlave, Types, NetTypes, Command, Order, Answer, Hello

\* The main thread of the master.
LEMMA SlaveHelloTypes ==
  ASSUME Types, NEW m \in DOMAIN toMaster, SlaveHello(m), UNCHANGED <<slave, seen>>
  PROVE  Types'
<1>1. KernelTypes' /\ SlaveTypes'
  BY SameKernel, SameSlave DEF SlaveHello, table, Types, MasterTypes
<1>2. MasterTypes'
  <2>1. m.src \in 0..sPort
    BY DEF Types, NetTypes, Answer, Hello
  <2> QED
    BY <2>1 DEF SlaveHello, Types, MasterTypes, MainStatus, WorkerState, pool, table, slave
<1>3. NetTypes'
  BY RecvFromSlaveTypes DEF SlaveHello, table, slave
<1> QED
  BY <1>1, <1>2, <1>3 DEF Types

LEMMA NbdReadTypes ==
  ASSUME Types, NbdRead, UNCHANGED <<slave, seen>>
  PROVE  Types'
<1> DEFINE r == Head(reqSock)
           k == [key |-> r.op, op |-> r.op, h |-> r.h, sec |-> r.sec, buf |-> r.buf, status |-> 0]
<1>1. r \in SentRequests /\ reqSock' \in Seq(SentRequests)
  BY DEF NbdRead, Types, KernelTypes
<1>2. IsABag(mQueue') /\ DOMAIN mQueue' \subseteq Task
  <2>1. CASE r.op = "DISCONNECT"
    <3>1. [key |-> "DISCONNECT"] \in Task /\ mQueue' = BagAdd(mQueue, [key |-> "DISCONNECT"])
      BY <2>1 DEF NbdRead, Task, CloseTask
    <3> QED
      BY <3>1, QueueType
  <2>2. CASE r.op # "DISCONNECT"
    <3>1. k \in Task
      BY <1>1, <2>2 DEF SentRequests, Task, RequestTask
    <3>2. mQueue' = BagAdd(mQueue, k)
      BY <2>2 DEF NbdRead
    <3> HIDE DEF k
    <3> QED
      BY <3>1, <3>2, QueueType
  <2> QED
    BY <2>1, <2>2
<1>3. mStt' \in MainStatus
  BY DEF NbdRead, MainStatus
<1>4. KernelTypes'
  BY <1>1 DEF NbdRead, Types, KernelTypes
<1>5. MasterTypes'
  BY <1>2, <1>3 DEF NbdRead, Types, MasterTypes, WorkerState, table, slave
<1>6. NetTypes' /\ SlaveTypes'
  BY SameNet, SameSlave DEF NbdRead, Types, MasterTypes, SlaveTypes, table, slave
<1> QED
  BY <1>4, <1>5, <1>6 DEF Types

LEMMA SlaveReadTypes ==
  ASSUME Types, NEW m \in DOMAIN toMaster, SlaveRead(m), UNCHANGED <<slave, seen>>
  PROVE  Types'
<1>1. UNCHANGED <<worker, m_mutex, m_req_id, m_cliaddr, req, ret, reqSock, repSock, sPort>>
  BY DEF SlaveRead, slave
<1>2. ASSUME End("unknown_id"), UNCHANGED <<m_list, mQueue>>
      PROVE  MasterTypes' /\ KernelTypes'
  <2>1. mStt' \in MainStatus /\ conn' = "closed"
    BY <1>2 DEF End, MainStatus, Ended
  <2> QED
    BY <1>1, <1>2, <2>1, SameWorkerState DEF Types, MasterTypes, KernelTypes
<1>3. ASSUME \E e \in {f \in m_list : f.id = m.id}, status \in UninitStatus :
               \E buf \in IF m.key = "READ" THEN Strcpy(m.buf) ELSE {Zeros} :
                 /\ m_list' = m_list \ {e}
                 /\ mQueue' = BagAdd(mQueue, ReplyTo(e.h, m.key, buf, status))
                 /\ UNCHANGED <<mStt, conn>>
      PROVE  MasterTypes' /\ KernelTypes'
  <2>1. PICK e \in {f \in m_list : f.id = m.id}, status \in UninitStatus,
             buf \in IF m.key = "READ" THEN Strcpy(m.buf) ELSE {Zeros} :
               /\ m_list' = m_list \ {e}
               /\ mQueue' = BagAdd(mQueue, ReplyTo(e.h, m.key, buf, status))
               /\ UNCHANGED <<mStt, conn>>
    BY <1>3
  <2>2. buf \in Payload /\ m.key \in IoOps /\ e.h \in Handle /\ status \in 0..1
    BY PayloadFacts, MasterAssumption DEF Types, NetTypes, MasterTypes, Answer, Hello, IoOps
  <2>3. ReplyTo(e.h, m.key, buf, status) \in Task
    BY <2>2 DEF ReplyTo, Task, ReplyTask
  <2>4. IsABag(mQueue') /\ DOMAIN mQueue' \subseteq Task
    BY <2>1, <2>3, QueueType
  <2> QED
    <3>1. m_list' \subseteq [id : 1..m_req_id, h : Handle]
      BY <2>1 DEF Types, MasterTypes
    <3>2. KernelTypes'
      BY <1>1, <2>1 DEF Types, KernelTypes
    <3>3. MasterTypes'
      BY <1>1, <2>1, <2>4, <3>1, SameWorkerState DEF Types, MasterTypes
    <3> QED
      BY <3>2, <3>3
<1>4. MasterTypes' /\ KernelTypes'
  BY <1>2, <1>3 DEF SlaveRead, Types
<1>5. NetTypes' /\ SlaveTypes'
  BY <1>1, RecvFromSlaveTypes, SameSlave DEF SlaveRead, Types, MasterTypes
<1> QED
  BY <1>4, <1>5 DEF Types

\* The ends of the process, and what the user and signals do.
LEMMA EndTypes ==
  ASSUME Types, NEW how \in Ended \cup {"STOP"}, mStt' = how, conn' = "closed",
         UNCHANGED <<pool, m_mutex, table, m_cliaddr, net, req, ret, reqSock, repSock, slave, seen>>
  PROVE  Types'
<1>1. KernelTypes' /\ MasterTypes'
  BY DEF Types, MasterTypes, KernelTypes, MainStatus, WorkerState, pool, table, slave
<1>2. NetTypes' /\ SlaveTypes'
  BY SameNet, SameSlave DEF Types, MasterTypes, SlaveTypes, table, slave
<1> QED
  BY <1>1, <1>2 DEF Types

LEMMA StdinReadTypes ==
  ASSUME Types, StdinRead, UNCHANGED <<slave, seen>>
  PROVE  Types'
<1>1. [key |-> "Q_EXIT"] \in Task
  BY DEF Task, CloseTask
<1>2. IsABag(mQueue') /\ DOMAIN mQueue' \subseteq Task
  BY <1>1, QueueType DEF StdinRead
<1>3. MasterTypes'
  BY <1>2 DEF StdinRead, Types, MasterTypes, WorkerState, table, slave, MainStatus
<1>4. KernelTypes' /\ NetTypes' /\ SlaveTypes'
  BY SameKernel, SameNet, SameSlave DEF StdinRead, Types, MasterTypes, SlaveTypes, table, slave
<1> QED
  BY <1>3, <1>4 DEF Types

\* A pool thread has a task exactly when it executes one.
LEMMA WorkerFacts ==
  ASSUME Types, NEW t \in Worker
  PROVE  LET w == worker[t]
         IN  /\ w \in WorkerState /\ w.at \in Stage
             /\ w = [at |-> w.at, task |-> w.task, id |-> w.id]
             /\ w.at \in {"idle", "joined"} => w.task = NoTask /\ w.id = 0
             /\ w.at = "run" => w.task \in Task /\ w.id = 0
             /\ w.at = "send" => w.task \in RequestTask(IoOps) /\ w.id \in 1..m_req_id
             /\ w.at = "data" => w.task \in ReplyTask({"READ"}) /\ w.id = 0
             /\ w.at = "close" => w.task \in CloseTask /\ w.id = 0
BY DEF Types, MasterTypes, WorkerState, Stage

\* The keys tell the tasks apart.
LEMMA TaskFacts ==
  ASSUME NEW k \in Task
  PROVE  /\ k.key \in AllOps \cup {"REPLAY", "DISCONNECT", "Q_EXIT"}
         /\ k.key \in AllOps <=> k \in RequestTask(AllOps)
         /\ k.key \in IoOps <=> k \in RequestTask(IoOps)
         /\ k.key = "REPLAY" <=> k \in ReplyTask(IoOps)
         /\ k.key \in {"DISCONNECT", "Q_EXIT"} <=> k \in CloseTask
         /\ k.key \in AllOps => k.h \in Handle /\ k.op = k.key /\ k.sec \in Sector /\ k.buf \in Payload /\ k.status = 0
         /\ k.key = "REPLAY" => k.h \in Handle /\ k.op \in IoOps /\ k.buf \in Payload /\ k.status \in 0..1
         /\ k.key = "REPLAY" /\ k.op = "READ" => k \in ReplyTask({"READ"})
<1>1. CASE k \in RequestTask(AllOps)
  BY <1>1 DEF RequestTask, AllOps, IoOps, ReplyTask, CloseTask
<1>2. CASE k \in ReplyTask(IoOps)
  BY <1>2 DEF RequestTask, AllOps, IoOps, ReplyTask, CloseTask
<1>3. CASE k \in CloseTask
  BY <1>3 DEF RequestTask, AllOps, IoOps, ReplyTask, CloseTask
<1> QED
  BY <1>1, <1>2, <1>3 DEF Task

\* A step that changes only the state of one pool thread, and perhaps the mutex and the socket.
LEMMA MoveTypes ==
  ASSUME Types, NEW t \in Worker, NEW w \in WorkerState, worker' = [worker EXCEPT ![t] = w],
         UNCHANGED <<mStt, mQueue, table, m_cliaddr, slave, seen>>,
         m_mutex' \in Worker \cup {None}, KernelTypes', NetTypes'
  PROVE  Types'
<1>1. WorkerState' = WorkerState
  BY SameWorkerState DEF table
<1>2. worker' \in [Worker -> WorkerState']
  BY <1>1, WorkerType DEF Types, MasterTypes, table, slave
<1>3. MasterTypes'
  BY <1>2 DEF Types, MasterTypes, table, slave
<1>4. SlaveTypes'
  BY SameSlave DEF Types, MasterTypes, table
<1> QED
  BY <1>3, <1>4 DEF Types

\* A thread that goes on in its task keeps the task.
LEMMA GotoFacts ==
  ASSUME Types, NEW t \in Worker, NEW l, Goto(t, l)
  PROVE  worker' = [worker EXCEPT ![t] = [at |-> l, task |-> worker[t].task, id |-> worker[t].id]]
<1>1. worker[t] = [at |-> worker[t].at, task |-> worker[t].task, id |-> worker[t].id]
  BY WorkerFacts
<1>2. [worker[t] EXCEPT !.at = l] = [at |-> l, task |-> worker[t].task, id |-> worker[t].id]
  BY <1>1
<1> QED
  BY <1>2 DEF Goto, Types, MasterTypes

LEMMA IdleState == [at |-> "idle", task |-> NoTask, id |-> 0] \in WorkerState
BY DEF WorkerState

LEMMA PopTypes ==
  ASSUME Types, NEW t \in Worker, NEW k \in DOMAIN mQueue, Pop(t, k), UNCHANGED <<slave, seen>>
  PROVE  Types'
<1> DEFINE w == [at |-> "run", task |-> k, id |-> 0]
<1>1. IsABag(mQueue') /\ DOMAIN mQueue' \subseteq Task
  BY BagRemoveFacts DEF Pop, Types, MasterTypes
<1>2. w \in WorkerState'
  BY DEF Types, MasterTypes, WorkerState
<1>3. worker' = [worker EXCEPT ![t] = w] /\ UNCHANGED <<m_req_id, sPort>> /\ m_req_id \in Nat
  BY DEF Pop, table, slave, Types, MasterTypes
<1> HIDE DEF w
<1>4. worker' \in [Worker -> WorkerState']
  <2>1. WorkerState' = WorkerState /\ worker \in [Worker -> WorkerState]
    BY <1>3, SameWorkerState DEF Types, MasterTypes
  <2> QED
    BY <1>2, <1>3, <2>1
<1>5. MasterTypes'
  BY <1>1, <1>4 DEF Pop, Types, MasterTypes, table, slave
<1>6. KernelTypes' /\ NetTypes' /\ SlaveTypes'
  BY SameKernel, SameNet, SameSlave DEF Pop, Types, MasterTypes, SlaveTypes, table, slave
<1> QED
  BY <1>5, <1>6 DEF Types

LEMMA HandlerToIdTypes ==
  ASSUME Types, NEW t \in Worker, HandlerToId(t), UNCHANGED <<slave, seen>>
  PROVE  Types'
<1> DEFINE k == worker[t].task
           w == [at |-> "send", task |-> k, id |-> m_req_id + 1]
<1>1. k \in RequestTask(IoOps) /\ k.h \in Handle
  BY WorkerFacts, TaskFacts DEF HandlerToId, IoOps, AllOps
<1>2. m_req_id' = m_req_id + 1 /\ m_req_id \in Nat /\ m_req_id' \in Nat /\ sPort' = sPort /\ sPort \in Nat
  BY DEF HandlerToId, Types, MasterTypes, SlaveTypes, slave
<1>3. w \in WorkerState'
  BY <1>1, <1>2 DEF WorkerState
<1>4. worker' = [worker EXCEPT ![t] = w]
  BY WorkerFacts DEF HandlerToId, Types, MasterTypes
<1>5. m_list' \subseteq [id : 1..m_req_id', h : Handle]
  <2>1. m_list' = m_list \cup {[id |-> m_req_id + 1, h |-> k.h]}
    BY DEF HandlerToId
  <2>2. [id |-> m_req_id + 1, h |-> k.h] \in [id : 1..m_req_id', h : Handle]
    BY <1>1, <1>2
  <2>3. [id : 1..m_req_id, h : Handle] \subseteq [id : 1..m_req_id', h : Handle]
    BY <1>2
  <2> QED
    BY <2>1, <2>2, <2>3 DEF Types, MasterTypes
<1> HIDE DEF w
<1>6. worker' \in [Worker -> WorkerState']
  <2>1. m_req_id' >= m_req_id /\ sPort' >= sPort
    BY <1>2
  <2>2. WorkerState \subseteq WorkerState' /\ worker \in [Worker -> WorkerState]
    BY <1>2, <2>1, TypesGrow DEF Types, MasterTypes
  <2> QED
    BY <1>3, <1>4, <2>2
<1>7. MasterTypes'
  BY <1>2, <1>5, <1>6 DEF HandlerToId, Types, MasterTypes
<1>8. KernelTypes' /\ NetTypes' /\ SlaveTypes'
  BY <1>2, SameKernel, SameNet, SameSlave DEF HandlerToId, slave
<1> QED
  BY <1>7, <1>8 DEF Types

\* A datagram of the right type joins those on their way.
LEMMA SendToSlaveTypes ==
  ASSUME Types, NEW m \in Command \cup Order, SendToSlave(m), UNCHANGED <<m_req_id, sPort>>
  PROVE  NetTypes'
<1>1. IsABag(toSlave') /\ DOMAIN toSlave' = DOMAIN toSlave \cup {m}
  BY BagAddFacts DEF SendToSlave, Types, NetTypes
<1>2. Command' = Command /\ Order' = Order /\ Answer' = Answer /\ Hello' = Hello
  BY DEF Command, Order, Answer, Hello
<1> QED
  BY <1>1, <1>2 DEF SendToSlave, Types, NetTypes

LEMMA StorageSendTypes ==
  ASSUME Types, NEW t \in Worker, StorageSend(t), UNCHANGED <<slave, seen>>
  PROVE  Types'
<1> DEFINE k == worker[t].task
           m == [key |-> k.key, id |-> worker[t].id, sec |-> k.sec, buf |-> k.buf, dst |-> m_cliaddr]
<1>1. m \in Command
  <2>1. k \in RequestTask(IoOps) /\ worker[t].id \in 1..m_req_id
    BY WorkerFacts DEF StorageSend
  <2>2. m_cliaddr \in Nat
    BY DEF Types, MasterTypes, SlaveTypes
  <2> QED
    BY <2>1, <2>2 DEF RequestTask, Command
<1>2. SendToSlave(m)
  BY DEF StorageSend
<1> HIDE DEF m
<1>3. NetTypes'
  BY <1>1, <1>2, SendToSlaveTypes DEF StorageSend, table, slave
<1>4. KernelTypes'
  BY SameKernel DEF StorageSend
<1>5. worker' = [worker EXCEPT ![t] = [at |-> "idle", task |-> NoTask, id |-> 0]]
      /\ m_mutex' \in Worker \cup {None} /\ UNCHANGED <<mStt, mQueue, table, m_cliaddr>>
  BY DEF StorageSend, BackToPool, Types, MasterTypes
<1> QED
  BY <1>3, <1>4, <1>5, IdleState, MoveTypes

LEMMA StorageDisconnectTypes ==
  ASSUME Types, NEW t \in Worker, StorageDisconnect(t), UNCHANGED <<slave, seen>>
  PROVE  Types'
<1> DEFINE m == [key |-> "DISCONNECT", id |-> 0, dst |-> m_cliaddr]
           w == [at |-> "close", task |-> worker[t].task, id |-> 0]
<1>1. m \in Order
  BY DEF Types, MasterTypes, SlaveTypes, Order
<1>2. SendToSlave(m)
  BY DEF StorageDisconnect
<1> HIDE DEF m
<1>3. NetTypes'
  BY <1>1, <1>2, SendToSlaveTypes DEF StorageDisconnect, table, slave
<1>4. KernelTypes'
  BY SameKernel DEF StorageDisconnect
<1>5. worker[t].task \in CloseTask
  BY WorkerFacts, TaskFacts DEF StorageDisconnect
<1>6. worker' = [worker EXCEPT ![t] = w]
  <2>1. worker[t].id = 0 /\ Goto(t, "close")
    BY WorkerFacts DEF StorageDisconnect
  <2> QED
    BY <2>1, GotoFacts
<1>7. w \in WorkerState
  BY <1>5 DEF WorkerState
<1>8. m_mutex' \in Worker \cup {None} /\ UNCHANGED <<mStt, mQueue, table, m_cliaddr>>
  BY DEF StorageDisconnect, Types, MasterTypes
<1> HIDE DEF w
<1> QED
  BY <1>3, <1>4, <1>6, <1>7, <1>8, MoveTypes

\* The socket changes only in how it is open, and the pool thread returns.
LEMMA DriverDisconnectTypes ==
  ASSUME Types, NEW t \in Worker, DriverDisconnect(t), UNCHANGED <<slave, seen>>
  PROVE  Types'
<1>1. KernelTypes'
  BY DEF DriverDisconnect, Types, KernelTypes
<1>2. NetTypes'
  BY SameNet DEF DriverDisconnect, Types, MasterTypes, SlaveTypes, table, slave
<1>3. worker' = [worker EXCEPT ![t] = [at |-> "idle", task |-> NoTask, id |-> 0]]
      /\ m_mutex' \in Worker \cup {None} /\ UNCHANGED <<mStt, mQueue, table, m_cliaddr>>
  BY DEF DriverDisconnect, BackToPool, Types, MasterTypes
<1> QED
  BY <1>1, <1>2, <1>3, IdleState, MoveTypes

\* A header and the data behind it.
LEMMA AppendChunk ==
  ASSUME Types, NEW c \in Chunk, repSock' = Append(repSock, c), UNCHANGED <<req, ret, reqSock, conn>>
  PROVE  KernelTypes'
BY DEF Types, KernelTypes

LEMMA SendReplyTypes ==
  ASSUME Types, NEW t \in Worker, SendReply(t), UNCHANGED <<slave, seen>>
  PROVE  Types'
<1> DEFINE k == worker[t].task
           c == [kind |-> "header", h |-> k.h, err |-> k.status, buf |-> Zeros]
           w == [at |-> "data", task |-> k, id |-> 0]
<1>1. k \in Task /\ worker[t].id = 0
  BY WorkerFacts DEF SendReply
<1>2. k.h \in Handle /\ k.status \in 0..1
  BY <1>1, TaskFacts DEF SendReply, AllOps
<1>3. KernelTypes'
  <2>1. c \in Chunk
    BY <1>2 DEF Chunk
  <2>2. repSock' = Append(repSock, c) /\ UNCHANGED <<req, ret, reqSock, conn>>
    BY DEF SendReply
  <2> HIDE DEF c
  <2> QED
    BY <2>1, <2>2, AppendChunk
<1>4. NetTypes' /\ UNCHANGED <<mStt, mQueue, table, m_cliaddr>>
  BY SameNet DEF SendReply, Types, MasterTypes, SlaveTypes, table, slave
<1>5. CASE k.op = "READ" /\ Goto(t, "data") /\ m_mutex' = t
  <2>1. k.key = "REPLAY"
    BY <1>1, <1>5, TaskFacts DEF SendReply, AllOps
  <2>2. w \in WorkerState
    BY <1>1, <1>5, <2>1, TaskFacts DEF WorkerState
  <2>3. worker' = [worker EXCEPT ![t] = w]
    BY <1>1, <1>5, GotoFacts
  <2> HIDE DEF w
  <2> QED
    BY <1>3, <1>4, <1>5, <2>2, <2>3, MoveTypes
<1>6. CASE k.op # "READ" /\ BackToPool(t) /\ m_mutex' = m_mutex
  <2>1. m_mutex' \in Worker \cup {None}
    BY <1>6 DEF Types, MasterTypes
  <2>2. worker' = [worker EXCEPT ![t] = [at |-> "idle", task |-> NoTask, id |-> 0]]
    BY <1>6 DEF BackToPool
  <2> QED
    BY <1>3, <1>4, <2>1, <2>2, IdleState, MoveTypes
<1> QED
  BY <1>5, <1>6 DEF SendReply

LEMMA SendReplyDataTypes ==
  ASSUME Types, NEW t \in Worker, SendReplyData(t), UNCHANGED <<slave, seen>>
  PROVE  Types'
<1> DEFINE k == worker[t].task
           c == [kind |-> "data", h |-> k.h, err |-> 0, buf |-> k.buf]
<1>1. c \in Chunk
  BY WorkerFacts DEF SendReplyData, ReplyTask, Chunk
<1>2. repSock' = Append(repSock, c) /\ UNCHANGED <<req, ret, reqSock, conn>>
  BY DEF SendReplyData
<1> HIDE DEF c
<1>3. KernelTypes'
  BY <1>1, <1>2, AppendChunk
<1>4. NetTypes'
  BY SameNet DEF SendReplyData, Types, MasterTypes, SlaveTypes, table, slave
<1>5. worker' = [worker EXCEPT ![t] = [at |-> "idle", task |-> NoTask, id |-> 0]]
      /\ m_mutex' \in Worker \cup {None} /\ UNCHANGED <<mStt, mQueue, table, m_cliaddr>>
  BY DEF SendReplyData, BackToPool
<1> QED
  BY <1>3, <1>4, <1>5, IdleState, MoveTypes

LEMMA TakeStopTypes ==
  ASSUME Types, NEW t \in Worker, TakeStop(t), UNCHANGED <<slave, seen>>
  PROVE  Types'
<1> DEFINE w == [at |-> "joined", task |-> NoTask, id |-> 0]
<1>1. w \in WorkerState
  BY DEF WorkerState
<1>2. worker' = [worker EXCEPT ![t] = w]
  <2>1. worker[t].task = NoTask /\ worker[t].id = 0 /\ Goto(t, "joined")
    BY WorkerFacts DEF TakeStop
  <2> QED
    BY <2>1, GotoFacts
<1> HIDE DEF w
<1>3. KernelTypes' /\ NetTypes' /\ UNCHANGED <<mStt, mQueue, table, m_cliaddr>> /\ m_mutex' \in Worker \cup {None}
  BY SameKernel, SameNet DEF TakeStop, Types, MasterTypes, SlaveTypes, table, slave
<1> QED
  BY <1>1, <1>2, <1>3, MoveTypes

\* The whole of the main thread, of a pool thread and of the environment.
LEMMA MainStepTypes == ASSUME Types, MainStep PROVE Types'
<1>1. CASE \E m \in DOMAIN toMaster : SlaveHello(m) \/ SlaveRead(m)
  BY <1>1, SlaveHelloTypes, SlaveReadTypes DEF MainStep
<1>2. CASE NbdRead
  BY <1>2, NbdReadTypes DEF MainStep
<1>3. CASE NbdReadEof
  BY <1>3, EndTypes DEF MainStep, NbdReadEof, End, Ended
<1>4. CASE Return
  BY <1>4, EndTypes DEF MainStep, Return, End, Ended
<1> QED
  BY <1>1, <1>2, <1>3, <1>4 DEF MainStep, MainThread

LEMMA PoolStepTypes == ASSUME Types, NEW t \in Worker, PoolStep(t) PROVE Types'
<1>1. UNCHANGED <<slave, seen>>
  BY DEF PoolStep
<1>2. CASE WriteAllThrows(t)
  BY <1>1, <1>2, EndTypes DEF WriteAllThrows, End, Ended
<1> QED
  BY <1>1, <1>2, PopTypes, HandlerToIdTypes, StorageSendTypes, StorageDisconnectTypes,
     DriverDisconnectTypes, SendReplyTypes, SendReplyDataTypes, TakeStopTypes DEF PoolStep, PoolThread

LEMMA EnvironmentStepTypes == ASSUME Types, EnvironmentStep PROVE Types'
<1>1. UNCHANGED <<slave, seen>>
  BY DEF EnvironmentStep
<1>2. CASE StdinRead
  BY <1>1, <1>2, StdinReadTypes
<1>3. CASE Signal
  BY <1>1, <1>3, EndTypes DEF Signal
<1>4. CASE \E t \in Worker : SendFails(t)
  BY <1>1, <1>4, EndTypes DEF SendFails, End, Ended
<1>5. CASE SetNbdFails
  BY <1>1, <1>5, EndTypes DEF SetNbdFails, End, Ended
<1> QED
  BY <1>2, <1>3, <1>4, <1>5 DEF EnvironmentStep, Environment

\* The slave and the network.
LEMMA BootTypes ==
  ASSUME Types, Boot, UNCHANGED <<seen, nbd, master>>
  PROVE  Types'
<1> DEFINE m == [key |-> "READ", id |-> 0, buf |-> Magic, src |-> sPort + 1]
<1>1. sPort \in Nat /\ sPort' = sPort + 1 /\ sPort' \in Nat /\ sPort' >= sPort
      /\ m_req_id' = m_req_id /\ m_req_id' \in Nat /\ m_req_id' >= m_req_id
  BY DEF Boot, Types, SlaveTypes, MasterTypes, master
<1>2. Command \subseteq Command' /\ Answer \subseteq Answer' /\ Hello \subseteq Hello' /\ Order' = Order
  BY <1>1, TypesGrow DEF Order
<1>3. m \in Hello'
  BY <1>1 DEF Hello
<1>4. toMaster' = BagAdd(toMaster, m) /\ UNCHANGED <<toSlave, losses, dups>>
  BY DEF Boot, SendToMaster
<1> HIDE DEF m
<1>5. NetTypes'
  <2>1. IsABag(toMaster') /\ DOMAIN toMaster' = DOMAIN toMaster \cup {m}
    BY <1>4, BagAddFacts DEF Types, NetTypes
  <2>2. DOMAIN toMaster' \subseteq Answer' \cup Hello' /\ DOMAIN toSlave \subseteq Command' \cup Order'
    BY <1>2, <1>3, <2>1 DEF Types, NetTypes
  <2> QED
    BY <1>4, <2>1, <2>2 DEF Types, NetTypes
<1>6. SlaveTypes'
  BY <1>1, <1>2 DEF Boot, Types, SlaveTypes
<1>7. KernelTypes' /\ MasterTypes'
  BY <1>1, SameKernel, SameMaster
<1> QED
  BY <1>5, <1>6, <1>7 DEF Types

\* A step of a slave that runs under one address.
LEMMA SlaveMoveTypes ==
  ASSUME Types, UNCHANGED <<nbd, master, sPort>>, NetTypes',
         sStt' \in {"DOWN", "RUN", "STOP", "EXIT"}, sStt' # "DOWN" => sStt # "DOWN", sOpen' \in BOOLEAN,
         IsABag(sQueue'), DOMAIN sQueue' \subseteq Command \cup Order,
         sReply' \in Answer \cup {NoReply},
         storage' \in [Sector -> Payload],
         seen' \in [Handle -> [done : BOOLEAN, buf : Payload]]
  PROVE  Types'
<1>1. KernelTypes' /\ MasterTypes'
  BY SameKernel, SameMaster DEF Types, SlaveTypes
<1>2. SlaveTypes'
  BY DEF Types, SlaveTypes, master, Command, Order, Answer
<1> QED
  BY <1>1, <1>2 DEF Types

\* The master sees none of it in its types.
LEMMA NetStays ==
  ASSUME Types, UNCHANGED <<master, sPort, net>>
  PROVE  NetTypes'
BY SameNet DEF Types, MasterTypes, SlaveTypes, master

LEMMA ReceiveRequestTypes ==
  ASSUME Types, NEW m \in DOMAIN toSlave, ReceiveRequest(m), UNCHANGED <<seen, nbd, master>>
  PROVE  Types'
<1>1. m \in Command \cup Order
  BY DEF Types, NetTypes
<1>2. IsABag(toSlave') /\ DOMAIN toSlave' \subseteq DOMAIN toSlave /\ UNCHANGED <<toMaster, losses, dups>>
  BY BagRemoveFacts DEF ReceiveRequest, RecvFromMaster, Types, NetTypes
<1>3. NetTypes'
  BY <1>2 DEF ReceiveRequest, Types, NetTypes, Command, Order, Answer, Hello, master
<1>4. \E k \in Command \cup Order : sQueue' = BagAdd(sQueue, k)
  <2>1. CASE m.key = "WRITE"
    <3>1. PICK buf \in Strcpy(m.buf) : sQueue' = BagAdd(sQueue, [m EXCEPT !.buf = buf])
      BY <2>1 DEF ReceiveRequest
    <3>2. m \in Command /\ buf \in Payload
      BY <1>1, <2>1, <3>1, PayloadFacts DEF Order
    <3>3. [m EXCEPT !.buf = buf] \in Command
      BY <3>2 DEF Command
    <3> QED
      BY <3>1, <3>3
  <2>2. CASE m.key # "WRITE"
    BY <1>1, <2>2 DEF ReceiveRequest
  <2> QED
    BY <2>1, <2>2
<1>5. IsABag(sQueue') /\ DOMAIN sQueue' \subseteq Command \cup Order
  <2>1. PICK k \in Command \cup Order : sQueue' = BagAdd(sQueue, k)
    BY <1>4
  <2>2. IsABag(sQueue) /\ DOMAIN sQueue \subseteq Command \cup Order
    BY DEF Types, SlaveTypes
  <2>3. IsABag(BagAdd(sQueue, k)) /\ DOMAIN BagAdd(sQueue, k) = DOMAIN sQueue \cup {k}
    BY <2>2, BagAddFacts
  <2> QED
    BY <2>1, <2>2, <2>3
<1>6. UNCHANGED <<sPort, sOpen, sReply, storage, seen>> /\ sStt = "RUN" /\ sStt' \in {"RUN", "STOP"}
  BY DEF ReceiveRequest, Types, SlaveTypes
<1> QED
  BY <1>3, <1>5, <1>6, SlaveMoveTypes DEF Types, SlaveTypes

\* A task that is taken leaves the others.
LEMMA TakeTypes ==
  ASSUME Types, NEW k \in DOMAIN sQueue, Take(k)
  PROVE  k \in Command \cup Order /\ IsABag(sQueue') /\ DOMAIN sQueue' \subseteq Command \cup Order
BY BagRemoveFacts DEF Take, Types, SlaveTypes

LEMMA StorageStepTypes ==
  ASSUME Types, StorageStep, UNCHANGED <<nbd, master>>
  PROVE  Types'
<1>1. PICK k \in DOMAIN sQueue :
        \/ Write(k) /\ Record(k.id, Zeros)
        \/ Read(k) /\ Record(k.id, storage[k.sec])
  BY DEF StorageStep
<1>2. k \in Command /\ IsABag(sQueue') /\ DOMAIN sQueue' \subseteq Command \cup Order
  BY <1>1, TakeTypes DEF Write, Read, Order
<1>3. k.id \in 1..m_req_id /\ k.sec \in Sector /\ k.buf \in Payload /\ storage[k.sec] \in Payload
  BY <1>2 DEF Command, Types, SlaveTypes
<1>4. sPort \in 1..sPort
  BY <1>1 DEF Write, Read, Take, Types, SlaveTypes
<1>5. NetTypes'
  BY <1>1, NetStays DEF Write, Read
<1>6. sReply' \in Answer
  <2>1. CASE Write(k)
    BY <1>3, <1>4, <2>1, PayloadFacts DEF Write, Answer, IoOps
  <2>2. CASE Read(k)
    BY <1>3, <1>4, <2>2, PayloadFacts DEF Read, Answer, IoOps
  <2> QED
    BY <1>1, <2>1, <2>2
<1>7. storage' \in [Sector -> Payload]
  BY <1>1, <1>3 DEF Write, Read, Types, SlaveTypes
<1>8. seen' \in [Handle -> [done : BOOLEAN, buf : Payload]]
  <2>1. PICK buf \in Payload : Record(k.id, buf)
    BY <1>1, <1>3, PayloadFacts
  <2> QED
    BY <2>1 DEF Record, Types, SlaveTypes
<1>9. UNCHANGED <<sStt, sPort, sOpen>>
  BY <1>1 DEF Write, Read
<1> QED
  BY <1>2, <1>5, <1>6, <1>7, <1>8, <1>9, SlaveMoveTypes DEF Types, SlaveTypes

LEMMA StutterTypes == ASSUME Types, UNCHANGED vars PROVE Types'
BY SameKernel, SameMaster, SameNet, SameSlave DEF vars, Types, MasterTypes, SlaveTypes, master, slave

LEMMA SlaveSendReplyTypes ==
  ASSUME Types, SlaveSendReply, UNCHANGED <<seen, nbd, master>>
  PROVE  Types'
<1>1. sReply \in Answer
  BY DEF SlaveSendReply, Types, SlaveTypes
<1>2. NetTypes'
  <2>1. CASE SendToMaster(sReply)
    <3>1. IsABag(toMaster') /\ DOMAIN toMaster' = DOMAIN toMaster \cup {sReply} /\ UNCHANGED <<toSlave, losses, dups>>
      BY <2>1, BagAddFacts DEF SendToMaster, Types, NetTypes
    <3>2. Command' = Command /\ Order' = Order /\ Answer' = Answer /\ Hello' = Hello
      BY DEF SlaveSendReply, master, Command, Order, Answer, Hello
    <3> QED
      BY <1>1, <3>1, <3>2 DEF Types, NetTypes
  <2>2. CASE UNCHANGED net
    BY <2>2, NetStays DEF SlaveSendReply
  <2> QED
    BY <2>1, <2>2 DEF SlaveSendReply
<1>3. sReply' = NoReply /\ UNCHANGED <<sStt, sPort, sOpen, sQueue, storage>>
  BY DEF SlaveSendReply
<1> QED
  BY <1>2, <1>3, SlaveMoveTypes DEF Types, SlaveTypes

LEMMA SlaveDisconnectTypes ==
  ASSUME Types, NEW k \in DOMAIN sQueue, SlaveDisconnect(k), UNCHANGED <<seen, nbd, master>>
  PROVE  Types'
<1>1. NetTypes'
  BY NetStays DEF SlaveDisconnect
<1>2. IsABag(sQueue') /\ DOMAIN sQueue' \subseteq Command \cup Order
  BY TakeTypes DEF SlaveDisconnect
<1>3. sOpen' \in BOOLEAN /\ UNCHANGED <<sStt, sPort, sReply, storage>>
  BY DEF SlaveDisconnect
<1> QED
  BY <1>1, <1>2, <1>3, SlaveMoveTypes DEF Types, SlaveTypes

LEMMA SlaveStopTypes ==
  ASSUME Types, SlaveStop \/ Crash, UNCHANGED <<seen, nbd, master>>
  PROVE  Types'
<1>1. NetTypes'
  BY NetStays DEF SlaveStop, Crash
<1>2. /\ IsABag(sQueue') /\ DOMAIN sQueue' \subseteq Command \cup Order
      /\ sOpen' \in BOOLEAN /\ sStt # "DOWN" /\ sStt' \in {"DOWN", "EXIT"}
      /\ sReply' \in Answer \cup {NoReply} /\ UNCHANGED <<sPort, storage>>
  BY EmptyBagFacts DEF SlaveStop, Crash, Types, SlaveTypes
<1> QED
  BY <1>1, <1>2, SlaveMoveTypes DEF Types, SlaveTypes

LEMMA FaultTypes ==
  ASSUME Types, Fault, UNCHANGED <<nbd, master, slave, seen>>
  PROVE  Types'
<1>1. KernelTypes' /\ MasterTypes' /\ SlaveTypes'
  BY SameKernel, SameMaster, SameSlave DEF Types, MasterTypes, SlaveTypes, master, slave
<1>2. Command' = Command /\ Order' = Order /\ Answer' = Answer /\ Hello' = Hello
  BY DEF master, slave, Command, Order, Answer, Hello
<1>3. /\ IsABag(toSlave') /\ DOMAIN toSlave' \subseteq DOMAIN toSlave
      /\ IsABag(toMaster') /\ DOMAIN toMaster' \subseteq DOMAIN toMaster
      /\ losses' \in Nat /\ dups' \in Nat
  <2>1. CASE Lose
    <3>1. ASSUME NEW B, IsABag(B), NEW m \in DOMAIN B
          PROVE  IsABag(BagRemove(B, m)) /\ DOMAIN BagRemove(B, m) \subseteq DOMAIN B
      BY <3>1, BagRemoveFacts
    <3>2. IsABag(toSlave) /\ IsABag(toMaster) /\ losses' \in Nat /\ dups' \in Nat
      BY <2>1 DEF Lose, Types, NetTypes
    <3>3. CASE \E m \in DOMAIN toSlave : toSlave' = BagRemove(toSlave, m) /\ UNCHANGED toMaster
      BY <3>1, <3>2, <3>3
    <3>4. CASE \E m \in DOMAIN toMaster : toMaster' = BagRemove(toMaster, m) /\ UNCHANGED toSlave
      BY <3>1, <3>2, <3>4
    <3> QED
      BY <2>1, <3>3, <3>4 DEF Lose
  <2>2. CASE Duplicate
    <3>1. ASSUME NEW B, IsABag(B), NEW m \in DOMAIN B
          PROVE  IsABag(BagAdd(B, m)) /\ DOMAIN BagAdd(B, m) \subseteq DOMAIN B
      BY <3>1, BagAddFacts
    <3>2. IsABag(toSlave) /\ IsABag(toMaster) /\ losses' \in Nat /\ dups' \in Nat
      BY <2>2 DEF Duplicate, Types, NetTypes
    <3>3. CASE \E m \in DOMAIN toSlave : toSlave' = BagAdd(toSlave, m) /\ UNCHANGED toMaster
      BY <3>1, <3>2, <3>3
    <3>4. CASE \E m \in DOMAIN toMaster : toMaster' = BagAdd(toMaster, m) /\ UNCHANGED toSlave
      BY <3>1, <3>2, <3>4
    <3> QED
      BY <2>2, <3>3, <3>4 DEF Duplicate
  <2> QED
    BY <2>1, <2>2 DEF Fault
<1>4. NetTypes'
  BY <1>2, <1>3 DEF Types, NetTypes
<1> QED
  BY <1>1, <1>4 DEF Types

\* Every step keeps the types.
LEMMA NextTypes == ASSUME Types, [Next]_vars PROVE Types'
<1>1. CASE SlaveStep /\ UNCHANGED <<nbd, master>>
  BY <1>1, BootTypes, ReceiveRequestTypes, StorageStepTypes, SlaveSendReplyTypes,
     SlaveDisconnectTypes, SlaveStopTypes DEF SlaveStep
<1>2. CASE CrashStep /\ UNCHANGED <<nbd, master>>
  BY <1>2, SlaveStopTypes DEF CrashStep
<1> QED
  BY <1>1, <1>2, SubmitTypes, KernelTypesStep, MainStepTypes, PoolStepTypes, EnvironmentStepTypes,
     FaultTypes, StutterTypes DEF Next

\* The types say what TypeOK says.
LEMMA TypesImply == Types => TypeOK
<1> SUFFICES ASSUME Types PROVE TypeOK
  OBVIOUS
<1>1. ASSUME NEW h \in Handle
      PROVE  req[h] = Idle \/ [req[h] EXCEPT !.st = "sent"] \in Requests
  <2>1. req[h] \in RequestState
    BY DEF Types, KernelTypes
  <2>2. CASE req[h] \in Requests
    <3>1. [req[h] EXCEPT !.st = "sent"] = req[h]
      BY <2>2, WithState
    <3> QED
      BY <2>2, <3>1
  <2>3. CASE \E q \in Requests : req[h] = [q EXCEPT !.st = "failed"]
    <3>1. PICK q \in Requests : req[h] = [q EXCEPT !.st = "failed"]
      BY <2>3
    <3>2. [req[h] EXCEPT !.st = "sent"] = q
      BY <3>1, WithState
    <3> QED
      BY <3>2
  <2> QED
    BY <2>1, <2>2, <2>3 DEF RequestState
<1>2. \A t \in Worker : worker[t].at \in Stage
  BY WorkerFacts
<1>3. m_list \subseteq [id : 1..m_req_id, h : Handle] /\ m_mutex \in Worker \cup {None}
      /\ mStt \in MainStatus /\ m_cliaddr \in 0..sPort
  BY DEF Types, MasterTypes
<1> QED
  BY <1>1, <1>2, <1>3 DEF Types, KernelTypes, MasterTypes, NetTypes, SlaveTypes, TypeOK

\* The state of every process, of both sockets and of the network is of its type, whatever
\* is lost, duplicated, reordered or killed: no number of m_list is 0 or was not given out by
\* HandlerToId(), and the master talks to a slave that was started.
THEOREM TypesCorrect == Spec => []TypeOK
<1>1. Init => Types
  BY InitTypes
<1>2. Types /\ [Next]_vars => Types'
  BY NextTypes
<1>3. Types => TypeOK
  BY TypesImply
<1> QED
  BY <1>1, <1>2, <1>3, PTL DEF Spec

-----------------------------------------------------------------------------
(***************************************************************************)
(* The engine never waits on a driver that has been disconnected.  The     *)
(* inductive invariant says where the tasks that disconnect it can be:     *)
(* nowhere, until Run() has left its loop.                                 *)
(***************************************************************************)

\* The keys of the tasks that call NBDDriverProxy::Disconnect().
Closers == {"DISCONNECT", "Q_EXIT"}

Running == mStt \in {"HELLO", "RUN"}

\* The fields of a pool thread.
WorkerFields ==
  worker = [t \in Worker |-> [at |-> worker[t].at, task |-> worker[t].task, id |-> worker[t].id]]

\* No task that disconnects is queued or being executed.
NoCloser ==
  /\ conn # "closed"
  /\ \A k \in DOMAIN mQueue : k.key \notin Closers
  /\ \A t \in Worker : worker[t].at # "close" /\ worker[t].task.key \notin Closers

DriverInv == WorkerFields /\ reqSock \in Seq(SentRequests) /\ (Running => NoCloser)

-----------------------------------------------------------------------------
(* Bags.                                                                   *)

\* BagAdd() adds the element to those of the bag.
LEMMA BagAddDomain ==
  ASSUME NEW B, NEW x
  PROVE  DOMAIN BagAdd(B, x) = DOMAIN B \cup {x}
BY DEF BagAdd

\* BagRemove() adds none.
LEMMA BagRemoveDomain ==
  ASSUME NEW B, NEW x
  PROVE  DOMAIN BagRemove(B, x) \subseteq DOMAIN B
BY DEF BagRemove

\* A sector of zeros is a payload.
LEMMA ZerosPayload == Zeros \in Payload
BY WireAssumption DEF Zeros, Payload

-----------------------------------------------------------------------------
\* The master starts with an empty queue and idle threads.
LEMMA DriverInitInv == Init => DriverInv
BY DEF Init, NbdInit, MasterInit, NoTask, DriverInv, WorkerFields, NoCloser, Closers, EmptyBag, SetToBag

\* A step that leaves the master, the requests and the connection as they are.
LEMMA SameInv ==
  ASSUME DriverInv, UNCHANGED <<master, reqSock, conn>>
  PROVE  DriverInv'
BY DEF DriverInv, Running, WorkerFields, NoCloser, master

\* A step of the kernel: only the master closes its end of the socket pair.
LEMMA KernelInv ==
  ASSUME DriverInv, UNCHANGED master,
         Kernel \/ \E h \in Handle, r \in Requests : Submit(h, r)
  PROVE  DriverInv'
<1>1. reqSock' \in Seq(SentRequests)
  <2>1. ASSUME NEW h \in Handle, NEW r \in Requests, Submit(h, r)
        PROVE  reqSock' \in Seq(SentRequests)
    <3>1. r.op \in AllOps /\ r.sec \in Sector /\ r.buf \in Payload
      BY NbdAssumption, ZerosPayload DEF Requests
    <3>2. [op |-> r.op, h |-> h, sec |-> r.sec, buf |-> r.buf] \in SentRequests
      BY <3>1 DEF SentRequests
    <3> QED
      BY <2>1, <3>2 DEF Submit, DriverInv
  <2>2. ASSUME SubmitDisc PROVE reqSock' \in Seq(SentRequests)
    <3>1. [op |-> "DISCONNECT"] \in SentRequests
      BY DEF SentRequests
    <3> QED
      BY <2>2, <3>1 DEF SubmitDisc, DriverInv
  <2>3. ASSUME KernelReads PROVE reqSock' \in Seq(SentRequests)
    BY <2>3 DEF KernelReads, Complete, BadReply, ClearQueue, DriverInv
  <2> QED
    BY <2>1, <2>2, <2>3 DEF Kernel
<1>2. conn' = conn \/ conn' \in {"disc", "broken"}
  BY DEF Kernel, KernelReads, Submit, SubmitDisc, Complete, BadReply, ClearQueue
<1> QED
  BY <1>1, <1>2 DEF DriverInv, Running, WorkerFields, NoCloser, master

\* The end of the process, whatever it is, is behind Run().
LEMMA EndInv ==
  ASSUME DriverInv, NEW how \in Ended, End(how), UNCHANGED <<worker, reqSock>>
  PROVE  DriverInv'
BY DEF DriverInv, Running, WorkerFields, End, Ended

\* The main thread queues a task that disconnects only when it leaves the loop.
LEMMA MainInv ==
  ASSUME DriverInv, MainThread \/ StdinRead \/ Signal \/ SetNbdFails
  PROVE  DriverInv'
<1>1. ASSUME NEW m \in DOMAIN toMaster, SlaveHello(m) PROVE DriverInv'
  BY <1>1 DEF SlaveHello, pool, nbd, DriverInv, Running, WorkerFields, NoCloser
<1>2. ASSUME NEW m \in DOMAIN toMaster, SlaveRead(m) PROVE DriverInv'
  <2>1. UNCHANGED <<worker, reqSock>> /\ mStt = "RUN"
    BY <1>2 DEF SlaveRead
  <2>2. CASE End("unknown_id")
    BY <2>1, <2>2, EndInv DEF Ended
  <2>3. CASE ~End("unknown_id")
    <3>1. PICK e \in m_list, status \in UninitStatus,
               buf \in IF m.key = "READ" THEN Strcpy(m.buf) ELSE {Zeros} :
            mQueue' = BagAdd(mQueue, ReplyTo(e.h, m.key, buf, status)) /\ UNCHANGED <<mStt, conn>>
      BY <1>2, <2>3 DEF SlaveRead
    <3>2. DOMAIN mQueue' = DOMAIN mQueue \cup {ReplyTo(e.h, m.key, buf, status)}
      BY <3>1, BagAddDomain
    <3>3. ReplyTo(e.h, m.key, buf, status).key \notin Closers
      BY DEF ReplyTo, Closers
    <3> QED
      BY <2>1, <3>1, <3>2, <3>3 DEF DriverInv, Running, WorkerFields, NoCloser
  <2> QED
    BY <2>2, <2>3
<1>3. ASSUME NbdRead PROVE DriverInv'
  <2>1. /\ Head(reqSock) \in SentRequests /\ reqSock' \in Seq(SentRequests)
        /\ UNCHANGED <<worker, conn>> /\ mStt = "RUN"
    BY <1>3 DEF NbdRead, DriverInv
  <2>2. CASE Head(reqSock).op = "DISCONNECT"
    BY <1>3, <2>1, <2>2 DEF NbdRead, DriverInv, Running, WorkerFields
  <2>3. CASE Head(reqSock).op # "DISCONNECT"
    <3> DEFINE r == Head(reqSock)
               k == [key |-> r.op, op |-> r.op, h |-> r.h, sec |-> r.sec, buf |-> r.buf, status |-> 0]
    <3>1. r.op \in AllOps
      BY <2>1, <2>3 DEF SentRequests
    <3>2. k.key \notin Closers
      BY <3>1 DEF AllOps, Closers
    <3>3. mQueue' = BagAdd(mQueue, k) /\ mStt' = mStt
      BY <1>3, <2>3 DEF NbdRead
    <3>4. DOMAIN mQueue' = DOMAIN mQueue \cup {k}
      BY <3>3, BagAddDomain
    <3> HIDE DEF k
    <3> QED
      BY <2>1, <3>2, <3>3, <3>4 DEF DriverInv, Running, WorkerFields, NoCloser
  <2> QED
    BY <2>2, <2>3
<1>4. ASSUME NbdReadEof PROVE DriverInv'
  BY <1>4, EndInv DEF NbdReadEof, pool, Ended
<1>5. ASSUME Return PROVE DriverInv'
  BY <1>5, EndInv DEF Return, pool, Ended
<1>6. ASSUME StdinRead \/ Signal PROVE DriverInv'
  BY <1>6 DEF StdinRead, Signal, pool, nbd, DriverInv, Running, WorkerFields
<1>7. ASSUME SetNbdFails PROVE DriverInv'
  BY <1>7, EndInv DEF SetNbdFails, pool, Ended
<1> QED
  BY <1>1, <1>2, <1>3, <1>4, <1>5, <1>6, <1>7 DEF MainThread

\* A pool thread that moves on with its task, or is done with it, while the driver
\* stays connected.
LEMMA WorkerInv ==
  ASSUME DriverInv, NEW t \in Worker, NEW w,
         UNCHANGED <<mStt, mQueue, reqSock, conn>>,
         worker' = [worker EXCEPT ![t] = w],
         w = [at |-> w.at, task |-> w.task, id |-> w.id],
         Running => w.at # "close" /\ w.task.key \notin Closers
  PROVE  DriverInv'
BY DEF DriverInv, Running, WorkerFields, NoCloser

\* A pool thread disconnects the driver only with a task that is queued behind Run().
LEMMA PoolThreadInv ==
  ASSUME DriverInv, NEW t \in Worker, PoolThread(t) \/ SendFails(t)
  PROVE  DriverInv'
<1> DEFINE w == worker[t]
<1>0. /\ w = [at |-> w.at, task |-> w.task, id |-> w.id]
      /\ Running => w.at # "close" /\ w.task.key \notin Closers
  BY DEF DriverInv, WorkerFields, NoCloser
<1>a. ASSUME BackToPool(t), UNCHANGED <<mStt, mQueue, reqSock, conn>> PROVE DriverInv'
  <2> DEFINE v == [at |-> "idle", task |-> NoTask, id |-> 0]
  <2>1. v.at # "close" /\ v.task.key \notin Closers /\ v = [at |-> v.at, task |-> v.task, id |-> v.id]
    BY DEF NoTask, Closers
  <2> QED
    BY <1>a, <2>1, WorkerInv DEF BackToPool
<1>b. ASSUME NEW l, l # "close" \/ ~Running, Goto(t, l), UNCHANGED <<mStt, mQueue, reqSock, conn>>
      PROVE  DriverInv'
  <2> DEFINE v == [w EXCEPT !.at = l]
  <2>1. /\ v = [at |-> l, task |-> w.task, id |-> w.id]
        /\ v = [at |-> v.at, task |-> v.task, id |-> v.id]
    BY <1>0
  <2>2. worker' = [worker EXCEPT ![t] = v]
    BY <1>b DEF Goto
  <2>3. Running => v.at # "close" /\ v.task.key \notin Closers
    BY <1>0, <1>b, <2>1
  <2> HIDE DEF v
  <2> QED
    BY <1>b, <2>1, <2>2, <2>3, WorkerInv
<1>1. ASSUME NEW k \in DOMAIN mQueue, Pop(t, k) PROVE DriverInv'
  <2>1. DOMAIN mQueue' \subseteq DOMAIN mQueue
    BY <1>1, BagRemoveDomain DEF Pop
  <2>2. /\ worker' = [worker EXCEPT ![t] = [at |-> "run", task |-> k, id |-> 0]]
        /\ UNCHANGED <<mStt, reqSock, conn>>
    BY <1>1 DEF Pop, nbd
  <2> QED
    BY <2>1, <2>2 DEF DriverInv, Running, WorkerFields, NoCloser
<1>2. ASSUME HandlerToId(t) PROVE DriverInv'
  <2> DEFINE v == [at |-> "send", task |-> w.task, id |-> m_req_id + 1]
  <2>1. v = [at |-> v.at, task |-> v.task, id |-> v.id]
    OBVIOUS
  <2>2. worker' = [worker EXCEPT ![t] = v] /\ UNCHANGED <<mStt, mQueue, reqSock, conn>>
    <3> DEFINE u == [w EXCEPT !.at = "send"]
    <3>1. u = [at |-> "send", task |-> w.task, id |-> w.id]
      BY <1>0
    <3>2. worker' = [worker EXCEPT ![t] = [u EXCEPT !.id = m_req_id + 1]]
      BY <1>2 DEF HandlerToId, DriverInv, WorkerFields
    <3> HIDE DEF u
    <3>3. [u EXCEPT !.id = m_req_id + 1] = v
      BY <3>1
    <3> QED
      BY <1>2, <3>2, <3>3 DEF HandlerToId, nbd
  <2>3. Running => v.at # "close" /\ v.task.key \notin Closers
    BY <1>0
  <2> HIDE DEF v
  <2> QED
    BY <2>1, <2>2, <2>3, WorkerInv
<1>3. ASSUME StorageSend(t) PROVE DriverInv'
  BY <1>3, <1>a DEF StorageSend, nbd
<1>4. ASSUME StorageDisconnect(t) PROVE DriverInv'
  <2>1. ~Running
    BY <1>0, <1>4 DEF StorageDisconnect, Closers
  <2> QED
    BY <1>4, <1>b, <2>1 DEF StorageDisconnect, nbd
<1>5. ASSUME DriverDisconnect(t) PROVE DriverInv'
  <2>1. ~Running
    BY <1>0, <1>5 DEF DriverDisconnect, Closers
  <2>2. BackToPool(t) /\ UNCHANGED <<mStt, reqSock>>
    BY <1>5 DEF DriverDisconnect
  <2> QED
    BY <2>1, <2>2 DEF DriverInv, Running, WorkerFields, BackToPool
<1>6. ASSUME SendReply(t) PROVE DriverInv'
  <2>1. CASE worker[t].task.op = "READ"
    BY <1>6, <1>b, <2>1 DEF SendReply
  <2>2. CASE worker[t].task.op # "READ"
    BY <1>6, <1>a, <2>2 DEF SendReply
  <2> QED
    BY <2>1, <2>2
<1>7. ASSUME SendReplyData(t) PROVE DriverInv'
  BY <1>7, <1>a DEF SendReplyData
<1>8. ASSUME WriteAllThrows(t) PROVE DriverInv'
  BY <1>8, EndInv DEF WriteAllThrows, pool, Ended
<1>9. ASSUME SendFails(t) PROVE DriverInv'
  BY <1>9, EndInv DEF SendFails, pool, Ended
<1>10. ASSUME TakeStop(t) PROVE DriverInv'
  BY <1>10, <1>b DEF TakeStop, nbd
<1> QED
  BY <1>1, <1>2, <1>3, <1>4, <1>5, <1>6, <1>7, <1>8, <1>9, <1>10 DEF PoolThread

LEMMA DriverNextInv == DriverInv /\ [Next]_vars => DriverInv'
<1> SUFFICES ASSUME DriverInv, [Next]_vars PROVE DriverInv'
  OBVIOUS
<1>1. CASE \E h \in Handle, r \in Requests : SubmitStep(h, r) /\ UNCHANGED <<master, net, slave>>
  BY <1>1, KernelInv DEF SubmitStep
<1>2. CASE KernelStep
  BY <1>2, KernelInv DEF KernelStep
<1>3. CASE MainStep
  BY <1>3, MainInv DEF MainStep
<1>4. CASE \E t \in Worker : PoolStep(t)
  BY <1>4, PoolThreadInv DEF PoolStep
<1>5. CASE EnvironmentStep
  BY <1>5, MainInv, PoolThreadInv DEF EnvironmentStep, Environment
<1>6. CASE \/ SlaveStep /\ UNCHANGED <<nbd, master>>
           \/ CrashStep /\ UNCHANGED <<nbd, master>>
           \/ Fault /\ UNCHANGED <<nbd, master, slave, seen>>
           \/ UNCHANGED vars
  BY <1>6, SameInv DEF nbd, vars
<1> QED
  BY <1>1, <1>2, <1>3, <1>4, <1>5, <1>6 DEF Next

\* RequestEngine::Run() leaves its loop before any task that disconnects the driver can be
\* executed, so it never waits on the descriptor that Disconnect() closed: for every
\* number of handles and pool threads, and whatever the network and the slave do.
THEOREM RunsOnOpenDriverCorrect == Spec => []RunsOnOpenDriver
<1>1. DriverInv => RunsOnOpenDriver
  BY DEF DriverInv, Running, NoCloser, RunsOnOpenDriver
<1> QED
  BY DriverInitInv, DriverNextInv, <1>1, PTL DEF Spec
=============================================================================
