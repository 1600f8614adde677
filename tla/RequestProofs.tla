--------------------------- MODULE RequestProofs ----------------------------
(***************************************************************************)
(* What becomes of a request in the master: it is in one place until its   *)
(* reply is written, its number in m_list stands for it alone, and an      *)
(* answer bears a listed number unless a datagram was duplicated or the    *)
(* slave was started again.                                                *)
(***************************************************************************)
EXTENDS SystemProofs

-----------------------------------------------------------------------------
(* Where the requests are.                                                 *)

\* What a step does to a set of places when the number of its elements stays 0 or 1.
Kept(S, T) == (S = {} => T = {}) /\ ((\E x \in S : S = {x}) => \E x \in T : T = {x})

\* A variable that stays leaves its places alone.
LEMMA SamePlaces ==
  /\ UNCHANGED reqSock => \A h \in Handle : Unread(h)' = Unread(h)
  /\ UNCHANGED mQueue => \A h \in Handle : Queued(h)' = Queued(h)
  /\ UNCHANGED worker => \A h \in Handle : Executed(h)' = Executed(h)
  /\ UNCHANGED m_list => \A h \in Handle : Listed(h)' = Listed(h)
  /\ UNCHANGED repSock => \A h \in Handle : Replied(h)' = Replied(h)
BY DEF Unread, Queued, Executed, Listed, Replied, OfRequest

\* A request whose places are kept is owed what it was owed.
LEMMA OwedKept ==
  ASSUME NEW h \in Handle, Owed(h), (req[h].st = "idle") <=> (req'[h].st = "idle"),
         Kept(Unread(h), Unread(h)'), Kept(Queued(h), Queued(h)'),
         Kept(Executed(h), Executed(h)'), Kept(Listed(h), Listed(h)'), Kept(Replied(h), Replied(h)')
  PROVE  Owed(h)'
BY DEF Owed, Kept, Alone, Nowhere

LEMMA KeptSame == \A S : Kept(S, S)
BY DEF Kept

\* What a request in one place is not in.
LEMMA AloneFacts ==
  ASSUME NEW A, NEW B, NEW C, NEW D, NEW E, Alone(A, B, C, D, E) \/ Nowhere(A, B, C, D, E)
  PROVE  /\ \A x \in A : A = {x} /\ B = {} /\ C = {} /\ D = {} /\ E = {}
         /\ \A x \in B : B = {x} /\ A = {} /\ C = {} /\ D = {} /\ E = {}
         /\ \A x \in C : C = {x} /\ A = {} /\ B = {} /\ D = {} /\ E = {}
         /\ \A x \in D : D = {x} /\ A = {} /\ B = {} /\ C = {} /\ E = {}
         /\ \A x \in E : E = {x} /\ A = {} /\ B = {} /\ C = {} /\ D = {}
BY DEF Alone, Nowhere

LEMMA OwedFacts ==
  ASSUME NEW h \in Handle, Owed(h)
  PROVE  /\ \/ Alone(Unread(h), Queued(h), Executed(h), Listed(h), Replied(h))
            \/ Nowhere(Unread(h), Queued(h), Executed(h), Listed(h), Replied(h))
         /\ (\E x : x \in Unread(h) \cup Queued(h) \cup Executed(h) \cup Listed(h) \cup Replied(h))
              => req[h].st # "idle"
BY DEF Owed, Alone, Nowhere

\* A task that is queued or taken changes the places of its own request only.
LEMMA QueuePlaces ==
  ASSUME Types, CarrierInv, NEW k \in Task, mQueue' = BagAdd(mQueue, k),
         k \notin CloseTask => k \notin DOMAIN mQueue
  PROVE  /\ \A h \in Handle : ~OfRequest(k, h) => Queued(h)' = Queued(h)
         /\ \A h \in Handle : OfRequest(k, h) => Queued(h)' = Queued(h) \cup {k}
         /\ \A j \in DOMAIN mQueue' : j \notin CloseTask => mQueue'[j] = 1
<1>1. /\ DOMAIN mQueue' = DOMAIN mQueue \cup {k}
      /\ \A y \in DOMAIN mQueue : y # k => mQueue'[y] = mQueue[y]
      /\ k \notin DOMAIN mQueue => mQueue'[k] = 1
  <2>1. IsABag(mQueue)
    BY DEF Types, MasterTypes
  <2>2. /\ DOMAIN BagAdd(mQueue, k) = DOMAIN mQueue \cup {k}
        /\ \A y \in DOMAIN mQueue : y # k => BagAdd(mQueue, k)[y] = mQueue[y]
        /\ k \notin DOMAIN mQueue => BagAdd(mQueue, k)[k] = 1
    BY <2>1, BagAddFacts
  <2> QED
    BY <2>2
<1>2. \A h \in Handle : OfRequest(k, h)' = OfRequest(k, h) /\ Queued(h)' = {j \in DOMAIN mQueue' : OfRequest(j, h)}
  BY DEF Queued, OfRequest
<1>3. \A h \in Handle : ~OfRequest(k, h) => Queued(h)' = Queued(h)
  BY <1>1, <1>2 DEF Queued
<1>4. \A h \in Handle : OfRequest(k, h) => Queued(h)' = Queued(h) \cup {k}
  BY <1>1, <1>2 DEF Queued
<1>5. \A j \in DOMAIN mQueue' : j \notin CloseTask => mQueue'[j] = 1
  BY <1>1 DEF CarrierInv
<1> QED
  BY <1>3, <1>4, <1>5

LEMMA CloseTaskFacts ==
  ASSUME NEW k \in CloseTask, NEW h
  PROVE  ~OfRequest(k, h)
BY DEF CloseTask, OfRequest, AllOps

\* A step that touches no place, opens no socket and fails no request.
LEMMA CarrierSame ==
  ASSUME CarrierInv, UNCHANGED <<req, reqSock, repSock, mQueue, m_list>>,
         \A h \in Handle : Executed(h)' = Executed(h), SocketOpen' => SocketOpen
  PROVE  CarrierInv'
<1>1. \A h \in Handle : Owed(h)'
  BY SamePlaces, KeptSame, OwedKept DEF CarrierInv
<1> QED
  BY <1>1 DEF CarrierInv

\* The kernel's steps.
LEMMA SubmitCarrier ==
  ASSUME Types, CarrierInv, NEW h \in Handle, NEW r \in Requests, SubmitStep(h, r),
         UNCHANGED <<master, net, slave>>
  PROVE  CarrierInv'
<1> DEFINE q == [op |-> r.op, h |-> h, sec |-> r.sec, buf |-> r.buf]
           n == Len(reqSock) + 1
<1>1. /\ conn = "up" /\ req[h].st = "idle" /\ req' = [req EXCEPT ![h] = r] /\ reqSock' = Append(reqSock, q)
      /\ UNCHANGED <<repSock, conn, mQueue, worker, m_list>>
  BY DEF SubmitStep, Submit, master
<1>2. r.st = "sent" /\ r.op # "DISCONNECT" /\ reqSock \in Seq(SentRequests)
  BY RequestFacts DEF AllOps, Types, KernelTypes
<1>3. /\ DOMAIN reqSock' = DOMAIN reqSock \cup {n} /\ n \notin DOMAIN reqSock
      /\ reqSock'[n] = q /\ \A i \in DOMAIN reqSock : reqSock'[i] = reqSock[i]
  BY <1>1, <1>2
<1>4. Unread(h)' = Unread(h) \cup {n}
  BY <1>2, <1>3 DEF Unread
<1>5. Owed(h)'
  <2>1. Nowhere(Unread(h), Queued(h), Executed(h), Listed(h), Replied(h))
    BY <1>1 DEF CarrierInv, Owed
  <2>2. req'[h].st = "sent"
    BY <1>1, <1>2 DEF Types, KernelTypes
  <2> QED
    BY <1>1, <1>4, <2>1, <2>2, SamePlaces DEF Owed, Alone, Nowhere
<1>6. ASSUME NEW g \in Handle, g # h PROVE Owed(g)'
  <2>1. Unread(g)' = Unread(g)
    BY <1>3, <1>6 DEF Unread
  <2>2. req'[g] = req[g]
    BY <1>1, <1>6 DEF Types, KernelTypes
  <2> QED
    BY <1>1, <2>1, <2>2, SamePlaces, KeptSame, OwedKept DEF CarrierInv
<1>7. SocketOpen' => \A g \in Handle : req'[g].st # "failed"
  BY <1>1, <1>2 DEF CarrierInv, SocketOpen, Types, KernelTypes
<1> QED
  BY <1>1, <1>5, <1>6, <1>7 DEF CarrierInv

LEMMA SubmitDiscCarrier ==
  ASSUME Types, CarrierInv, SubmitDisc, UNCHANGED <<master, net, slave, seen>>
  PROVE  CarrierInv'
<1> DEFINE q == [op |-> "DISCONNECT"]
           n == Len(reqSock) + 1
<1>1. conn = "up" /\ reqSock' = Append(reqSock, q) /\ UNCHANGED <<req, repSock, mQueue, worker, m_list>>
  BY DEF SubmitDisc, master
<1>2. /\ DOMAIN reqSock' = DOMAIN reqSock \cup {n} /\ n \notin DOMAIN reqSock
      /\ reqSock'[n] = q /\ \A i \in DOMAIN reqSock : reqSock'[i] = reqSock[i]
  BY <1>1 DEF Types, KernelTypes
<1>3. \A h \in Handle : Unread(h)' = Unread(h)
  BY <1>2 DEF Unread
<1>4. \A h \in Handle : Owed(h)'
  BY <1>1, <1>3, SamePlaces, KeptSame, OwedKept DEF CarrierInv
<1> QED
  BY <1>1, <1>4 DEF CarrierInv, SocketOpen

\* A chunk that is taken from the head of the replies moves the others up.
LEMMA ShiftReplies ==
  ASSUME Types, NEW n \in 1..2, Len(repSock) >= n, repSock' = SubSeq(repSock, n + 1, Len(repSock)),
         NEW h \in Handle, \A i \in Replied(h) : i > n
  PROVE  Kept(Replied(h), Replied(h)')
<1>1. /\ repSock \in Seq(Chunk) /\ Len(repSock) \in Nat
      /\ DOMAIN repSock' = 1..(Len(repSock) - n)
      /\ \A i \in DOMAIN repSock' : i + n \in DOMAIN repSock /\ repSock'[i] = repSock[i + n]
      /\ DOMAIN repSock = 1..Len(repSock)
  BY DEF Types, KernelTypes
<1>2. \A i \in Replied(h)' : i + n \in Replied(h) /\ i \in Int
  BY <1>1 DEF Replied
<1>3. \A i \in Replied(h) : i - n \in Replied(h)' /\ i \in Int
  BY SMTT(40), <1>1 DEF Replied
<1>4. \A x : Replied(h) = {x} => Replied(h)' = {x - n}
  BY <1>2, <1>3
<1>5. Replied(h) = {} => Replied(h)' = {}
  BY <1>2
<1> QED
  BY <1>4, <1>5 DEF Kept

LEMMA CompleteCarrier ==
  ASSUME Types, CarrierInv, Complete, UNCHANGED <<master, net, slave, seen>>
  PROVE  CarrierInv'
<1>1. Head(repSock) \in Chunk /\ repSock \in Seq(Chunk) /\ 1 \in DOMAIN repSock /\ Head(repSock) = repSock[1]
  BY DEF Complete, Types, KernelTypes
<1>2. PICK g \in Handle, n \in 1..2 :
        /\ repSock[1].h = g /\ n = IF req[g].op = "READ" /\ repSock[1].err = 0 THEN 2 ELSE 1
  BY <1>1 DEF Chunk
<1>3. /\ repSock[1].kind = "header" /\ req[g].st = "sent" /\ Len(repSock) >= n
      /\ n = 2 => repSock[2].kind = "data"
      /\ req' = [req EXCEPT ![g] = Idle] /\ repSock' = SubSeq(repSock, n + 1, Len(repSock))
      /\ UNCHANGED <<reqSock, conn, mQueue, worker, m_list>> /\ SocketOpen
  BY <1>1, <1>2 DEF Complete, master
<1>4. 1 \in Replied(g) /\ \A h \in Handle : h # g => \A i \in Replied(h) : i > n
  BY <1>1, <1>2, <1>3 DEF Replied
<1>5. Owed(g)'
  <2>1. Owed(g)
    BY DEF CarrierInv
  <2>2. /\ Replied(g) = {1} /\ Unread(g) = {} /\ Queued(g) = {}
        /\ Executed(g) = {} /\ Listed(g) = {}
    BY <1>4, <2>1, OwedFacts, AloneFacts
  <2>3. Replied(g)' = {}
    <3>1. \A i \in DOMAIN repSock' : i + n \in DOMAIN repSock /\ repSock'[i] = repSock[i + n] /\ i + n # 1
      BY <1>1, <1>3
    <3>2. \A i \in Replied(g)' : i + n \in Replied(g) /\ i + n # 1
      BY <3>1 DEF Replied
    <3> QED
      BY <2>2, <3>2
  <2>4. req'[g].st = "idle"
    BY <1>3 DEF Types, KernelTypes, Idle
  <2> QED
    BY <1>3, <2>2, <2>3, <2>4, SamePlaces DEF Owed, Nowhere
<1>6. ASSUME NEW h \in Handle, h # g PROVE Owed(h)'
  <2>1. Kept(Replied(h), Replied(h)')
    BY <1>3, <1>4, <1>6, ShiftReplies
  <2>2. req'[h] = req[h]
    BY <1>3, <1>6 DEF Types, KernelTypes
  <2> QED
    BY <1>3, <2>1, <2>2, SamePlaces, KeptSame, OwedKept DEF CarrierInv
<1>7. \A h \in Handle : req'[h].st # "failed"
  <2>1. \A h \in Handle : req[h].st # "failed"
    BY <1>3 DEF CarrierInv
  <2> QED
    BY <1>3, <2>1 DEF Types, KernelTypes, Idle
<1> QED
  BY <1>3, <1>5, <1>6, <1>7 DEF CarrierInv

LEMMA ClearQueueCarrier ==
  ASSUME Types, CarrierInv, ClearQueue, UNCHANGED <<master, net, slave, seen>>
  PROVE  CarrierInv'
<1>1. ~SocketOpen' /\ UNCHANGED <<reqSock, repSock, mQueue, worker, m_list>>
  BY DEF ClearQueue, SocketOpen, master
<1>2. ASSUME NEW h \in Handle PROVE (req[h].st = "idle") <=> (req'[h].st = "idle")
  <2>1. CASE req[h].st = "sent"
    <3>1. req[h] \in Requests
      BY <2>1, StateFacts DEF Types, KernelTypes
    <3>2. req'[h] = [req[h] EXCEPT !.st = "failed"]
      BY <2>1 DEF ClearQueue
    <3> QED
      BY <2>1, <3>1, <3>2, RequestFacts
  <2>2. CASE req[h].st # "sent"
    BY <2>2 DEF ClearQueue
  <2> QED
    BY <2>1, <2>2
<1>3. \A h \in Handle : Owed(h)'
  BY <1>1, <1>2, SamePlaces, KeptSame, OwedKept DEF CarrierInv
<1> QED
  BY <1>1, <1>3 DEF CarrierInv

\* The main thread.
LEMMA ShiftRequests ==
  ASSUME Types, reqSock # <<>>, reqSock' = Tail(reqSock), NEW h \in Handle, 1 \notin Unread(h)
  PROVE  Kept(Unread(h), Unread(h)')
<1>1. /\ DOMAIN reqSock' = 1..(Len(reqSock) - 1) /\ DOMAIN reqSock = 1..Len(reqSock) /\ Len(reqSock) \in Nat
      /\ \A i \in DOMAIN reqSock' : i + 1 \in DOMAIN reqSock /\ reqSock'[i] = reqSock[i + 1]
  BY DEF Types, KernelTypes
<1>2. \A i \in Unread(h)' : i + 1 \in Unread(h) /\ i \in Int
  BY <1>1 DEF Unread
<1>3. \A i \in Unread(h) : i - 1 \in Unread(h)' /\ i \in Int
  BY <1>1 DEF Unread
<1>4. \A x : Unread(h) = {x} => Unread(h)' = {x - 1}
  BY <1>2, <1>3
<1>5. Unread(h) = {} => Unread(h)' = {}
  BY <1>2
<1> QED
  BY <1>4, <1>5 DEF Kept

LEMMA NbdReadCarrier ==
  ASSUME Types, CarrierInv, NbdRead, UNCHANGED <<slave, seen>>
  PROVE  CarrierInv'
<1>1. /\ reqSock # <<>> /\ reqSock' = Tail(reqSock) /\ UNCHANGED <<req, repSock, conn, worker, m_list>>
      /\ Head(reqSock) = reqSock[1] /\ 1 \in DOMAIN reqSock /\ reqSock[1] \in SentRequests
      /\ SocketOpen' => SocketOpen
  BY DEF NbdRead, Types, KernelTypes, table, SocketOpen
<1>2. CASE reqSock[1].op = "DISCONNECT"
  <2>1. \A h \in Handle : 1 \notin Unread(h)
    BY <1>2 DEF Unread
  <2>2. [key |-> "DISCONNECT"] \in CloseTask /\ [key |-> "DISCONNECT"] \in Task
        /\ mQueue' = BagAdd(mQueue, [key |-> "DISCONNECT"])
    BY <1>1, <1>2 DEF NbdRead, CloseTask, Task
  <2>3. /\ \A h \in Handle : Queued(h)' = Queued(h)
        /\ \A j \in DOMAIN mQueue' : j \notin CloseTask => mQueue'[j] = 1
    BY <2>2, QueuePlaces, CloseTaskFacts
  <2>4. \A h \in Handle : Owed(h)'
    BY <1>1, <2>1, <2>3, ShiftRequests, SamePlaces, KeptSame, OwedKept DEF CarrierInv
  <2> QED
    BY <1>1, <2>3, <2>4 DEF CarrierInv
<1>3. CASE reqSock[1].op # "DISCONNECT"
  <2> DEFINE r == reqSock[1]
  <2>0. PICK g \in Handle : g = r.h
    BY <1>1, <1>3 DEF SentRequests
  <2>1. PICK k :
          /\ g = r.h
          /\ k = [key |-> r.op, op |-> r.op, h |-> r.h, sec |-> r.sec, buf |-> r.buf, status |-> 0]
    BY <2>0
  <2>2. k \in Task /\ k.h = g /\ k.key \in AllOps /\ mQueue' = BagAdd(mQueue, k)
    BY <1>1, <1>3, <2>1 DEF SentRequests, Task, RequestTask, NbdRead
  <2>3. k \notin CloseTask /\ OfRequest(k, g) /\ \A h \in Handle : h # g => ~OfRequest(k, h)
    BY <2>2 DEF CloseTask, OfRequest, AllOps
  <2>4. 1 \in Unread(g) /\ \A h \in Handle : h # g => 1 \notin Unread(h)
    BY <1>1, <1>3, <2>1 DEF Unread
  <2>5. Owed(g)
    BY DEF CarrierInv
  <2>6. /\ Unread(g) = {1} /\ Queued(g) = {} /\ Executed(g) = {} /\ Listed(g) = {} /\ Replied(g) = {}
        /\ req[g].st # "idle"
    BY <2>4, <2>5, OwedFacts, AloneFacts
  <2>7. k \notin DOMAIN mQueue
    BY <2>3, <2>6 DEF Queued
  <2>8. /\ Queued(g)' = {k} /\ \A h \in Handle : h # g => Queued(h)' = Queued(h)
        /\ \A j \in DOMAIN mQueue' : j \notin CloseTask => mQueue'[j] = 1
    BY <2>2, <2>3, <2>6, <2>7, QueuePlaces
  <2>9. Unread(g)' = {}
    <3>1. \A i \in DOMAIN reqSock' : i + 1 \in DOMAIN reqSock /\ reqSock'[i] = reqSock[i + 1] /\ i + 1 # 1
      BY <1>1 DEF Types, KernelTypes
    <3>2. \A i \in Unread(g)' : i + 1 \in Unread(g) /\ i + 1 # 1
      BY <3>1 DEF Unread
    <3> QED
      BY <2>6, <3>2
  <2>10. Owed(g)'
    BY <1>1, <2>6, <2>8, <2>9, SamePlaces DEF Owed, Alone
  <2>11. ASSUME NEW h \in Handle, h # g PROVE Owed(h)'
    BY <1>1, <2>4, <2>8, <2>11, ShiftRequests, SamePlaces, KeptSame, OwedKept DEF CarrierInv
  <2> QED
    BY <1>1, <2>8, <2>10, <2>11 DEF CarrierInv
<1> QED
  BY <1>2, <1>3

LEMMA SlaveReadCarrier ==
  ASSUME Types, CarrierInv, NEW m \in DOMAIN toMaster, SlaveRead(m), UNCHANGED <<slave, seen>>
  PROVE  CarrierInv'
<1>1. UNCHANGED <<req, reqSock, repSock, worker>> /\ m \in Answer \cup Hello
  BY DEF SlaveRead, Types, NetTypes
<1>2. ASSUME End("unknown_id"), UNCHANGED <<m_list, mQueue>>
      PROVE  CarrierInv'
  <2>1. ~SocketOpen'
    BY <1>2 DEF End, SocketOpen
  <2> QED
    BY <1>1, <1>2, <2>1, SamePlaces, CarrierSame
<1>3. ASSUME NEW e \in m_list, NEW k \in ReplyTask(IoOps), k.h = e.h, UNCHANGED conn,
             m_list' = m_list \ {e}, mQueue' = BagAdd(mQueue, k)
      PROVE  CarrierInv'
  <2> DEFINE g == e.h
  <2>1. g \in Handle /\ e \in Listed(g) /\ Owed(g)
    BY DEF Types, MasterTypes, Listed, CarrierInv
  <2>2. /\ Listed(g) = {e} /\ Queued(g) = {} /\ Executed(g) = {} /\ Unread(g) = {} /\ Replied(g) = {}
        /\ req[g].st # "idle"
    BY <2>1, OwedFacts, AloneFacts
  <2>3. k \in Task /\ k \notin CloseTask /\ OfRequest(k, g) /\ \A h \in Handle : h # g => ~OfRequest(k, h)
    BY <1>3 DEF Task, CloseTask, ReplyTask, OfRequest
  <2>4. k \notin DOMAIN mQueue
    BY <2>2, <2>3 DEF Queued
  <2>5. /\ Queued(g)' = {k} /\ \A h \in Handle : h # g => Queued(h)' = Queued(h)
        /\ \A j \in DOMAIN mQueue' : j \notin CloseTask => mQueue'[j] = 1
    BY <1>3, <2>1, <2>2, <2>3, <2>4, QueuePlaces
  <2>6. Listed(g)' = {} /\ \A h \in Handle : h # g => Listed(h)' = Listed(h)
    BY <1>3, <2>2 DEF Listed
  <2>7. Owed(g)'
    BY <1>1, <2>2, <2>1, <2>5, <2>6, SamePlaces DEF Owed, Alone
  <2>8. ASSUME NEW h \in Handle, h # g PROVE Owed(h)'
    BY <1>1, <2>5, <2>6, <2>8, SamePlaces, KeptSame, OwedKept DEF CarrierInv
  <2> QED
    BY <1>1, <1>3, <2>5, <2>7, <2>8 DEF CarrierInv, SocketOpen
<1>4. ASSUME NEW e \in {f \in m_list : f.id = m.id}, NEW status \in UninitStatus,
             NEW buf \in IF m.key = "READ" THEN Strcpy(m.buf) ELSE {Zeros}
      PROVE  ReplyTo(e.h, m.key, buf, status) \in ReplyTask(IoOps) /\ ReplyTo(e.h, m.key, buf, status).h = e.h
  <2>1. buf \in Payload /\ m.key \in IoOps /\ e.h \in Handle /\ status \in 0..1
    BY <1>1, PayloadFacts, MasterAssumption DEF Types, MasterTypes, Answer, Hello, IoOps
  <2> QED
    BY <2>1 DEF ReplyTo, ReplyTask
<1> QED
  BY <1>2, <1>3, <1>4 DEF SlaveRead

\* What remains of the main thread, and of the environment.
LEMMA StdinReadCarrier ==
  ASSUME Types, CarrierInv, StdinRead
  PROVE  CarrierInv'
<1>1. /\ UNCHANGED <<req, reqSock, repSock, conn, worker, m_list>>
      /\ mQueue' = BagAdd(mQueue, [key |-> "Q_EXIT"])
  BY DEF StdinRead, table, nbd
<1>2. [key |-> "Q_EXIT"] \in CloseTask /\ [key |-> "Q_EXIT"] \in Task
  BY DEF CloseTask, Task
<1>3. /\ \A h \in Handle : Queued(h)' = Queued(h)
      /\ \A j \in DOMAIN mQueue' : j \notin CloseTask => mQueue'[j] = 1
  BY <1>1, <1>2, QueuePlaces, CloseTaskFacts
<1>4. \A h \in Handle : Owed(h)'
  BY <1>1, <1>3, SamePlaces, KeptSame, OwedKept DEF CarrierInv
<1> QED
  BY <1>1, <1>3, <1>4 DEF CarrierInv, SocketOpen

\* A step that leaves every place alone and at most closes the socket.
LEMMA CarrierQuiet ==
  ASSUME Types, CarrierInv, UNCHANGED <<req, reqSock, repSock, mQueue, m_list, worker>>,
         conn' \in {conn, "closed", "broken"}
  PROVE  CarrierInv'
BY SamePlaces, CarrierSame DEF SocketOpen

\* The pool threads.
LEMMA PopCarrier ==
  ASSUME Types, CarrierInv, NEW t \in Worker, NEW k \in DOMAIN mQueue, Pop(t, k)
  PROVE  CarrierInv'
<1>1. /\ UNCHANGED <<req, reqSock, repSock, conn, m_list>> /\ worker[t].at = "idle"
      /\ mQueue' = BagRemove(mQueue, k)
      /\ worker' = [worker EXCEPT ![t] = [at |-> "run", task |-> k, id |-> 0]]
  BY DEF Pop, table, nbd
<1>2. k \in Task /\ worker \in [Worker -> WorkerState] /\ IsABag(mQueue)
  BY DEF Types, MasterTypes
<1>3. /\ DOMAIN BagRemove(mQueue, k) \subseteq DOMAIN mQueue
      /\ DOMAIN mQueue \subseteq DOMAIN BagRemove(mQueue, k) \cup {k}
      /\ \A y \in DOMAIN BagRemove(mQueue, k) : y # k => BagRemove(mQueue, k)[y] = mQueue[y]
      /\ mQueue[k] = 1 => DOMAIN BagRemove(mQueue, k) = DOMAIN mQueue \ {k}
  BY <1>2, BagRemoveFacts
<1>4. ASSUME NEW h \in Handle, ~OfRequest(k, h)
      PROVE  Queued(h)' = Queued(h) /\ Executed(h)' = Executed(h)
  <2>1. OfRequest(k, h)' = OfRequest(k, h) /\ Queued(h)' = {j \in DOMAIN mQueue' : OfRequest(j, h)}
        /\ Executed(h)' = {u \in Worker : worker'[u].at = "run" /\ OfRequest(worker'[u].task, h)}
    BY DEF Queued, Executed, OfRequest
  <2>2. Queued(h)' = Queued(h)
    BY <1>1, <1>3, <1>4, <2>1 DEF Queued
  <2>3. Executed(h)' = Executed(h)
    BY <1>1, <1>2, <1>4, <2>1 DEF Executed
  <2> QED
    BY <2>2, <2>3
<1>5. CASE k \in CloseTask
  <2>1. \A h \in Handle : Owed(h)'
    BY <1>1, <1>4, <1>5, CloseTaskFacts, SamePlaces, KeptSame, OwedKept DEF CarrierInv
  <2>2. \A j \in DOMAIN mQueue' : j \notin CloseTask => mQueue'[j] = 1
    BY <1>1, <1>3, <1>5 DEF CarrierInv
  <2> QED
    BY <1>1, <2>1, <2>2 DEF CarrierInv, SocketOpen
<1>6. CASE k \notin CloseTask
  <2> DEFINE g == k.h
  <2>1. g \in Handle /\ OfRequest(k, g) /\ \A h \in Handle : h # g => ~OfRequest(k, h)
    BY <1>2, <1>6, TaskFacts DEF OfRequest
  <2>2. mQueue[k] = 1 /\ Owed(g) /\ k \in Queued(g)
    BY <1>6, <2>1 DEF CarrierInv, Queued
  <2>3. /\ Queued(g) = {k} /\ Unread(g) = {} /\ Executed(g) = {} /\ Listed(g) = {} /\ Replied(g) = {}
        /\ req[g].st # "idle"
    BY <2>1, <2>2, OwedFacts, AloneFacts
  <2>4. DOMAIN mQueue' = DOMAIN mQueue \ {k}
    BY <1>1, <1>3, <2>2
  <2>5. OfRequest(k, g)' = OfRequest(k, g) /\ Queued(g)' = {j \in DOMAIN mQueue' : OfRequest(j, g)}
        /\ Executed(g)' = {u \in Worker : worker'[u].at = "run" /\ OfRequest(worker'[u].task, g)}
    BY DEF Queued, Executed, OfRequest
  <2>6. Queued(g)' = {}
    BY <2>3, <2>4, <2>5 DEF Queued
  <2>7. Executed(g)' = {t}
    BY <1>1, <1>2, <2>1, <2>3, <2>5 DEF Executed
  <2>8. Owed(g)'
    BY <1>1, <2>3, <2>6, <2>7, SamePlaces, <2>1 DEF Owed, Alone
  <2>9. ASSUME NEW h \in Handle, h # g PROVE Owed(h)'
    BY <1>1, <1>4, <2>1, <2>9, SamePlaces, KeptSame, OwedKept DEF CarrierInv
  <2>10. \A j \in DOMAIN mQueue' : j \notin CloseTask => mQueue'[j] = 1
    BY <1>1, <1>3, <2>4 DEF CarrierInv
  <2> QED
    BY <1>1, <2>8, <2>9, <2>10 DEF CarrierInv, SocketOpen
<1> QED
  BY <1>5, <1>6

\* A pool thread that is done with a task, and with it with a request.
LEMMA ExecutedPlaces ==
  ASSUME Types, NEW t \in Worker, NEW w, worker' = [worker EXCEPT ![t] = w],
         w.at # "run", NEW h \in Handle
  PROVE  Executed(h)' = Executed(h) \ {t}
<1>1. Executed(h)' = {u \in Worker : worker'[u].at = "run" /\ OfRequest(worker'[u].task, h)}
  BY DEF Executed, OfRequest
<1> QED
  BY <1>1 DEF Executed, Types, MasterTypes

LEMMA HandlerToIdCarrier ==
  ASSUME Types, CarrierInv, NEW t \in Worker, HandlerToId(t)
  PROVE  CarrierInv'
<1>1. PICK g \in Handle, id \in Nat : g = worker[t].task.h /\ id = m_req_id + 1
  BY WorkerFacts, TaskFacts DEF HandlerToId, AllOps, Types, MasterTypes
<1>2. /\ UNCHANGED <<req, reqSock, repSock, conn, mQueue>>
      /\ worker[t].at = "run" /\ OfRequest(worker[t].task, g)
      /\ m_list' = m_list \cup {[id |-> id, h |-> g]}
  BY <1>1 DEF HandlerToId, nbd, OfRequest, AllOps
<1>3. PICK w : w = [at |-> "send", task |-> worker[t].task, id |-> id]
  OBVIOUS
<1>4. worker' = [worker EXCEPT ![t] = w] /\ w.at # "run"
  BY <1>1, <1>3, WorkerFacts DEF HandlerToId, Types, MasterTypes
<1>5. t \in Executed(g) /\ \A h \in Handle : h # g => t \notin Executed(h)
  BY <1>2 DEF Executed, OfRequest
<1>6. Owed(g)
  BY DEF CarrierInv
<1>7. /\ Executed(g) = {t} /\ Unread(g) = {} /\ Queued(g) = {} /\ Listed(g) = {} /\ Replied(g) = {}
      /\ req[g].st # "idle"
  BY <1>5, <1>6, OwedFacts, AloneFacts
<1>8. Executed(g)' = {} /\ \A h \in Handle : h # g => Executed(h)' = Executed(h)
  <2>1. \A h \in Handle : Executed(h)' = Executed(h) \ {t}
    BY <1>4, ExecutedPlaces
  <2> QED
    BY <1>5, <1>7, <2>1
<1>9. Listed(g)' = {[id |-> id, h |-> g]} /\ \A h \in Handle : h # g => Listed(h)' = Listed(h)
  BY <1>2, <1>7 DEF Listed
<1>10. Owed(g)'
  BY <1>2, <1>7, <1>8, <1>9, SamePlaces DEF Owed, Alone
<1>11. ASSUME NEW h \in Handle, h # g PROVE Owed(h)'
  BY <1>2, <1>8, <1>9, <1>11, SamePlaces, KeptSame, OwedKept DEF CarrierInv
<1> QED
  BY <1>2, <1>10, <1>11 DEF CarrierInv, SocketOpen

\* A pool thread that executes no request, or has passed it on, moves no place.
LEMMA MoveCarrier ==
  ASSUME Types, CarrierInv, NEW t \in Worker, NEW w, worker' = [worker EXCEPT ![t] = w], w.at # "run",
         \A h \in Handle : t \notin Executed(h),
         UNCHANGED <<req, reqSock, mQueue, m_list>>, SocketOpen' => SocketOpen,
         \A h \in Handle : Kept(Replied(h), Replied(h)')
  PROVE  CarrierInv'
<1>1. \A h \in Handle : Executed(h)' = Executed(h)
  <2>1. \A h \in Handle : Executed(h)' = Executed(h) \ {t}
    BY ExecutedPlaces
  <2> QED
    BY <2>1
<1>2. \A h \in Handle : Owed(h)'
  BY <1>1, SamePlaces, KeptSame, OwedKept DEF CarrierInv
<1> QED
  BY <1>2 DEF CarrierInv

\* A pool thread that goes on behind a task, or returns from it.
LEMMA LeavesRun ==
  ASSUME Types, NEW t \in Worker, BackToPool(t) \/ \E l \in {"data", "close", "joined"} : Goto(t, l)
  PROVE  \E w : worker' = [worker EXCEPT ![t] = w] /\ w.at \notin {"run", "send"} /\ (worker[t].at # "send" => w.id = 0)
<1>1. CASE BackToPool(t)
  <2> DEFINE w == [at |-> "idle", task |-> NoTask, id |-> 0]
  <2>1. worker' = [worker EXCEPT ![t] = w] /\ w.at \notin {"run", "send"} /\ (worker[t].at # "send" => w.id = 0)
    BY <1>1 DEF BackToPool
  <2> HIDE DEF w
  <2> QED
    BY <2>1
<1>2. ASSUME NEW l \in {"data", "close", "joined"}, Goto(t, l)
      PROVE  \E w : worker' = [worker EXCEPT ![t] = w] /\ w.at \notin {"run", "send"} /\ (worker[t].at # "send" => w.id = 0)
  <2> DEFINE w == [at |-> l, task |-> worker[t].task, id |-> worker[t].id]
  <2>1. worker' = [worker EXCEPT ![t] = w] /\ w.at \notin {"run", "send"} /\ (worker[t].at # "send" => w.id = 0)
    <3>1. worker[t].at # "send" => worker[t].id = 0
      BY WorkerFacts DEF Stage
    <3> QED
      BY <1>2, <3>1, GotoFacts
  <2> HIDE DEF w
  <2> QED
    BY <2>1
<1> QED
  BY <1>1, <1>2

\* A chunk behind the replies.
LEMMA AppendPlaces ==
  ASSUME Types, NEW c \in Chunk, repSock' = Append(repSock, c), NEW h \in Handle
  PROVE  Replied(h)' = IF c.kind = "header" /\ c.h = h THEN Replied(h) \cup {Len(repSock) + 1} ELSE Replied(h)
<1>1. /\ DOMAIN repSock' = DOMAIN repSock \cup {Len(repSock) + 1} /\ Len(repSock) + 1 \notin DOMAIN repSock
      /\ repSock'[Len(repSock) + 1] = c /\ \A i \in DOMAIN repSock : repSock'[i] = repSock[i]
  BY DEF Types, KernelTypes
<1> QED
  BY <1>1 DEF Replied

LEMMA SendReplyCarrier ==
  ASSUME Types, CarrierInv, NEW t \in Worker, SendReply(t)
  PROVE  CarrierInv'
<1>1. PICK g \in Handle, c \in Chunk :
        /\ g = worker[t].task.h
        /\ c = [kind |-> "header", h |-> g, err |-> worker[t].task.status, buf |-> Zeros]
  <2>1. worker[t].task \in Task
    BY WorkerFacts DEF SendReply
  <2>2. worker[t].task.h \in Handle /\ worker[t].task.status \in 0..1
    BY <2>1, TaskFacts DEF SendReply, AllOps
  <2> QED
    BY <2>2 DEF Chunk
<1>2. /\ UNCHANGED <<req, reqSock, conn, mQueue, m_list>> /\ worker[t].at = "run" /\ OfRequest(worker[t].task, g)
      /\ repSock' = Append(repSock, c) /\ c.kind = "header" /\ c.h = g
  BY <1>1 DEF SendReply, OfRequest, AllOps, table
<1>3. PICK w : worker' = [worker EXCEPT ![t] = w] /\ w.at # "run"
  BY LeavesRun DEF SendReply
<1>4. t \in Executed(g) /\ \A h \in Handle : h # g => t \notin Executed(h)
  BY <1>2 DEF Executed, OfRequest
<1>5. Owed(g)
  BY DEF CarrierInv
<1>6. /\ Executed(g) = {t} /\ Unread(g) = {} /\ Queued(g) = {} /\ Listed(g) = {} /\ Replied(g) = {}
      /\ req[g].st # "idle"
  BY <1>4, <1>5, OwedFacts, AloneFacts
<1>7. Executed(g)' = {} /\ \A h \in Handle : h # g => Executed(h)' = Executed(h)
  <2>1. \A h \in Handle : Executed(h)' = Executed(h) \ {t}
    BY <1>3, ExecutedPlaces
  <2> QED
    BY <1>4, <1>6, <2>1
<1>8. (\E x : Replied(g)' = {x}) /\ \A h \in Handle : h # g => Replied(h)' = Replied(h)
  BY <1>2, <1>6, AppendPlaces
<1>9. Owed(g)'
  BY <1>2, <1>6, <1>7, <1>8, SamePlaces DEF Owed, Alone
<1>10. ASSUME NEW h \in Handle, h # g PROVE Owed(h)'
  BY <1>2, <1>7, <1>8, <1>10, SamePlaces, KeptSame, OwedKept DEF CarrierInv
<1> QED
  BY <1>2, <1>9, <1>10 DEF CarrierInv, SocketOpen

LEMMA SendReplyDataCarrier ==
  ASSUME Types, CarrierInv, NEW t \in Worker, SendReplyData(t)
  PROVE  CarrierInv'
<1>1. PICK c \in Chunk : c.kind = "data" /\ repSock' = Append(repSock, c)
  <2>1. [kind |-> "data", h |-> worker[t].task.h, err |-> 0, buf |-> worker[t].task.buf] \in Chunk
    BY WorkerFacts DEF SendReplyData, ReplyTask, Chunk
  <2> QED
    BY <2>1 DEF SendReplyData
<1>2. \A h \in Handle : Replied(h)' = Replied(h)
  BY <1>1, AppendPlaces
<1>3. \A h \in Handle : t \notin Executed(h)
  BY DEF SendReplyData, Executed
<1>4. PICK w : worker' = [worker EXCEPT ![t] = w] /\ w.at # "run"
  BY LeavesRun DEF SendReplyData
<1>5. UNCHANGED <<req, reqSock, conn, mQueue, m_list>>
  BY DEF SendReplyData, table
<1> QED
  BY <1>2, <1>3, <1>4, <1>5, KeptSame, MoveCarrier DEF SocketOpen

\* The other steps of a pool thread, which are about no request.
LEMMA OtherCarrier ==
  ASSUME Types, CarrierInv, NEW t \in Worker,
         StorageSend(t) \/ StorageDisconnect(t) \/ DriverDisconnect(t) \/ TakeStop(t)
  PROVE  CarrierInv'
<1>1. UNCHANGED <<req, reqSock, repSock, mQueue, m_list>> /\ conn' \in {conn, "closed"}
  BY DEF StorageSend, StorageDisconnect, DriverDisconnect, TakeStop, table, nbd
<1>2. \A h \in Handle : t \notin Executed(h)
  BY DEF StorageSend, StorageDisconnect, DriverDisconnect, TakeStop, Executed, OfRequest, AllOps
<1>3. PICK w : worker' = [worker EXCEPT ![t] = w] /\ w.at # "run"
  BY LeavesRun DEF StorageSend, StorageDisconnect, DriverDisconnect, TakeStop
<1> QED
  BY <1>1, <1>2, <1>3, SamePlaces, KeptSame, MoveCarrier DEF SocketOpen

\* Every step keeps one carrier for each request.
LEMMA NextCarrier == ASSUME Types, CarrierInv, [Next]_vars PROVE CarrierInv'
<1>1. ASSUME KernelStep PROVE CarrierInv'
  <2>1. CASE BadReply
    BY <1>1, <2>1, CarrierQuiet DEF KernelStep, BadReply, master
  <2> QED
    BY <1>1, <2>1, SubmitDiscCarrier, CompleteCarrier, ClearQueueCarrier DEF KernelStep, Kernel, KernelReads
<1>2. ASSUME MainStep PROVE CarrierInv'
  <2>1. CASE \E m \in DOMAIN toMaster : SlaveHello(m)
    BY <2>1, CarrierQuiet DEF SlaveHello, pool, table, nbd
  <2>2. CASE NbdReadEof \/ Return
    BY <2>2, CarrierQuiet DEF NbdReadEof, Return, End, pool, table
  <2> QED
    BY <1>2, <2>1, <2>2, NbdReadCarrier, SlaveReadCarrier DEF MainStep, MainThread
<1>3. ASSUME NEW t \in Worker, PoolStep(t) PROVE CarrierInv'
  <2>1. CASE WriteAllThrows(t)
    BY <2>1, CarrierQuiet DEF WriteAllThrows, End, pool, table
  <2> QED
    BY <1>3, <2>1, PopCarrier, HandlerToIdCarrier, SendReplyCarrier, SendReplyDataCarrier, OtherCarrier
       DEF PoolStep, PoolThread
<1>4. ASSUME EnvironmentStep PROVE CarrierInv'
  <2>1. CASE Signal \/ SetNbdFails \/ \E t \in Worker : SendFails(t)
    BY <2>1, CarrierQuiet DEF Signal, SetNbdFails, SendFails, End, pool, table
  <2> QED
    BY <1>4, <2>1, StdinReadCarrier DEF EnvironmentStep, Environment
<1>5. ASSUME UNCHANGED <<nbd, master>> PROVE CarrierInv'
  BY <1>5, CarrierQuiet DEF nbd, master
<1> QED
  BY <1>1, <1>2, <1>3, <1>4, <1>5, SubmitCarrier DEF Next, vars

LEMMA InitCarrier == Init => CarrierInv
<1> SUFFICES ASSUME Init PROVE CarrierInv
  OBVIOUS
<1>1. DOMAIN reqSock = {} /\ DOMAIN repSock = {} /\ DOMAIN mQueue = {} /\ m_list = {}
  BY EmptyBagFacts DEF Init, NbdInit, MasterInit
<1>2. ASSUME NEW h \in Handle PROVE req[h].st = "idle" /\ Executed(h) = {}
  BY DEF Init, NbdInit, MasterInit, Idle, Executed
<1> QED
  BY <1>1, <1>2 DEF CarrierInv, Owed, Nowhere, Unread, Queued, Listed, Replied

\* What Cardinality() counts in a set of at most one element.
LEMMA CardinalityFacts ==
  ASSUME NEW S, NEW x, S \subseteq {x}
  PROVE  Cardinality(S) = IF S = {} THEN 0 ELSE 1
<1> DEFINE Counts(f) == f = [T \in SUBSET S |-> IF T = {} THEN 0 ELSE 1 + f[T \ {CHOOSE y : y \in T}]]
           g == CHOOSE f : Counts(f)
           z == [T \in SUBSET S |-> IF T = {} THEN 0 ELSE 1]
<1>1. Cardinality(S) = g[S]
  BY DEF Cardinality
<1>2. \A T \in SUBSET S : T # {} => T \ {CHOOSE y : y \in T} = {}
  OBVIOUS
<1>3. Counts(z)
  BY <1>2
<1>4. Counts(g)
  BY <1>3
<1>5. g[{}] = 0
  BY <1>4
<1>6. S # {} => g[S] = 1 + g[S \ {CHOOSE y : y \in S}]
  BY <1>4
<1> QED
  BY <1>1, <1>2, <1>5, <1>6

\* One carrier is one reply owed.
LEMMA CarriersCounted ==
  ASSUME Types, CarrierInv, SocketOpen, NEW h \in Handle
  PROVE  Cardinality(Carriers(h)) = IF req[h].st = "sent" THEN 1 ELSE 0
<1>1. Owed(h) /\ req[h].st # "failed" /\ req[h].st \in {"idle", "sent", "failed"}
  BY StateFacts DEF CarrierInv, Types, KernelTypes
<1>2. CASE Nowhere(Unread(h), Queued(h), Executed(h), Listed(h), Replied(h)) /\ req[h].st = "idle"
  <2>1. Carriers(h) = {}
    BY <1>2 DEF Carriers, Nowhere
  <2> QED
    BY <1>2, <2>1, CardinalityFacts
<1>3. CASE Alone(Unread(h), Queued(h), Executed(h), Listed(h), Replied(h)) /\ req[h].st = "sent"
  <2> DEFINE A == Unread(h)
             B == UNION {{k} \X (1..mQueue[k]) : k \in Queued(h)}
             C == Executed(h)
             D == Listed(h)
             E == Replied(h)
  <2>1. (\E x : Queued(h) = {x}) => \E x : B = {x}
    <3> SUFFICES ASSUME NEW k, Queued(h) = {k} PROVE \E x : B = {x}
      OBVIOUS
    <3>1. k \in DOMAIN mQueue /\ k \notin CloseTask
      BY CloseTaskFacts DEF Queued
    <3>2. mQueue[k] = 1
      BY <3>1 DEF CarrierInv
    <3>3. ASSUME NEW z PROVE z \in B <=> z \in {k} \X (1..mQueue[k])
      OBVIOUS
    <3>4. {k} \X (1..1) = {<<k, 1>>}
      OBVIOUS
    <3>5. B = {<<k, 1>>}
      BY <3>2, <3>3, <3>4
    <3> QED
      BY <3>5
  <2>2. Queued(h) = {} => B = {}
    OBVIOUS
  <2>3. Alone(A, B, C, D, E)
    BY <1>3, <2>1, <2>2 DEF Alone
  <2>4. Carriers(h) = ({"unread"} \X A) \cup ({"queued"} \X B) \cup ({"executed"} \X C)
                        \cup ({"listed"} \X D) \cup ({"replied"} \X E)
    BY DEF Carriers
  <2> HIDE DEF A, B, C, D, E
  <2>5. \E x : Carriers(h) = {x}
    <3>1. CASE (\E x \in A : A = {x}) /\ B = {} /\ C = {} /\ D = {} /\ E = {}
      <4>1. PICK x : A = {x}
        BY <3>1
      <4>2. Carriers(h) = {<<"unread", x>>}
        BY <2>4, <3>1, <4>1
      <4> QED
        BY <4>2
    <3>2. CASE (\E x \in B : B = {x}) /\ A = {} /\ C = {} /\ D = {} /\ E = {}
      <4>1. PICK x : B = {x}
        BY <3>2
      <4>2. Carriers(h) = {<<"queued", x>>}
        BY <2>4, <3>2, <4>1
      <4> QED
        BY <4>2
    <3>3. CASE (\E x \in C : C = {x}) /\ A = {} /\ B = {} /\ D = {} /\ E = {}
      <4>1. PICK x : C = {x}
        BY <3>3
      <4>2. Carriers(h) = {<<"executed", x>>}
        BY <2>4, <3>3, <4>1
      <4> QED
        BY <4>2
    <3>4. CASE (\E x \in D : D = {x}) /\ A = {} /\ B = {} /\ C = {} /\ E = {}
      <4>1. PICK x : D = {x}
        BY <3>4
      <4>2. Carriers(h) = {<<"listed", x>>}
        BY <2>4, <3>4, <4>1
      <4> QED
        BY <4>2
    <3>5. CASE (\E x \in E : E = {x}) /\ A = {} /\ B = {} /\ C = {} /\ D = {}
      <4>1. PICK x : E = {x}
        BY <3>5
      <4>2. Carriers(h) = {<<"replied", x>>}
        BY <2>4, <3>5, <4>1
      <4> QED
        BY <4>2
    <3> QED
      BY <2>3, <3>1, <3>2, <3>3, <3>4, <3>5 DEF Alone
  <2>6. Cardinality(Carriers(h)) = 1
    <3>1. PICK x : Carriers(h) = {x}
      BY <2>5
    <3>2. Cardinality({x}) = 1
      BY CardinalityFacts
    <3> QED
      BY <3>1, <3>2
  <2> QED
    BY <1>3, <2>6
<1> QED
  BY <1>1, <1>2, <1>3 DEF Owed

\* As long as NBDDriverProxy's socket is open the master owes one reply to each request the kernel
\* has in flight, and none to a handle that is idle: no request is dropped between ReceiveRequest(),
\* the pool, m_list and SendReply(), and none is answered twice, whatever becomes of the datagrams.
THEOREM RepliesOwed == Spec => []OneReplyOwed
<1>1. Init => Types /\ CarrierInv
  BY InitTypes, InitCarrier
<1>2. Types /\ CarrierInv /\ [Next]_vars => (Types /\ CarrierInv)'
  BY NextTypes, NextCarrier
<1>3. Types /\ CarrierInv => OneReplyOwed
  BY CarriersCounted DEF OneReplyOwed
<1> QED
  BY <1>1, <1>2, <1>3, PTL DEF Spec

-----------------------------------------------------------------------------
(* What the numbers stand for.                                             *)

NumbersInv == TaskInv /\ SendInv /\ ListInv

\* Neither the driver, nor the pool, nor the list has anything about h.
HandleFree(h) == Unread(h) = {} /\ Queued(h) = {} /\ Executed(h) = {} /\ Listed(h) = {}

LEMMA FreeFacts ==
  ASSUME SendInv, NEW h \in Handle, HandleFree(h)
  PROVE  /\ \A i \in DOMAIN reqSock : reqSock[i].op # "DISCONNECT" => reqSock[i].h # h
         /\ \A k \in DOMAIN mQueue : ~OfRequest(k, h)
         /\ \A t \in Worker : worker[t].at = "run" => ~OfRequest(worker[t].task, h)
         /\ \A t \in Worker : worker[t].at = "send" => worker[t].task.h # h
         /\ \A e \in m_list : e.h # h
<1>1. \A t \in Worker : worker[t].at = "send" => \E e \in m_list : e.h = worker[t].task.h
  BY DEF SendInv
<1>2. \A e \in m_list : e.h # h
  BY DEF HandleFree, Listed
<1> QED
  BY <1>1, <1>2 DEF HandleFree, Unread, Queued, Executed

\* The kernel may make h stand for something else as long as the master has nothing about it.
LEMMA NumbersRequest ==
  ASSUME Types, NumbersInv, NEW h \in Handle, HandleFree(h),
         \A g \in Handle : g # h => req'[g] = req[g],
         UNCHANGED <<mQueue, worker, m_list, net, sQueue, sReply>>,
         (\A i \in DOMAIN reqSock : reqSock[i].op # "DISCONNECT" => IsRequest(reqSock[i]))'
  PROVE  NumbersInv'
<1>1. /\ \A k \in DOMAIN mQueue : ~OfRequest(k, h)
      /\ \A t \in Worker : worker[t].at = "run" => ~OfRequest(worker[t].task, h)
      /\ \A t \in Worker : worker[t].at = "send" => worker[t].task.h # h
      /\ \A e \in m_list : e.h # h
  BY FreeFacts DEF NumbersInv
<1>2. ASSUME NEW k \in Task, IsTask(k), ~OfRequest(k, h) PROVE IsTask(k)'
  BY <1>2, TaskFacts DEF IsTask, IsRequest, OfRequest
<1>3. \A k \in DOMAIN mQueue : IsTask(k)'
  BY <1>1, <1>2 DEF NumbersInv, TaskInv, Types, MasterTypes
<1>4. \A t \in Worker : worker'[t].at = "run" => IsTask(worker[t].task)'
  <2>1. \A t \in Worker : worker[t].at = "run" =>
          worker[t].task \in Task /\ IsTask(worker[t].task) /\ ~OfRequest(worker[t].task, h)
    BY <1>1, WorkerFacts DEF NumbersInv, TaskInv
  <2> QED
    BY <2>1, <1>2
<1>5. \A t \in Worker : worker'[t].at = "send" => IsRequest(worker[t].task)'
  <2>1. \A t \in Worker : worker[t].at = "send" =>
          worker[t].task.h \in Handle /\ worker[t].task.h # h /\ IsRequest(worker[t].task)
    BY <1>1, WorkerFacts DEF NumbersInv, TaskInv, RequestTask
  <2> QED
    BY <2>1 DEF IsRequest
<1>6. TaskInv'
  BY <1>3, <1>4, <1>5 DEF TaskInv
<1>7. Numbered' = Numbered
  BY DEF Numbered, net
<1>8. SendInv'
  BY <1>7 DEF NumbersInv, SendInv
<1>9. ListInv'
  BY <1>1, <1>7 DEF NumbersInv, ListInv, Types, MasterTypes
<1> QED
  BY <1>6, <1>8, <1>9 DEF NumbersInv

LEMMA SubmitNumbers ==
  ASSUME Types, CarrierInv, NumbersInv, NEW h \in Handle, NEW r \in Requests, SubmitStep(h, r),
         UNCHANGED <<master, net, slave>>
  PROVE  NumbersInv'
<1> DEFINE q == [op |-> r.op, h |-> h, sec |-> r.sec, buf |-> r.buf]
           n == Len(reqSock) + 1
<1>1. /\ req[h].st = "idle" /\ req' = [req EXCEPT ![h] = r] /\ reqSock' = Append(reqSock, q)
      /\ UNCHANGED <<mQueue, worker, m_list, net, sQueue, sReply>>
  BY DEF SubmitStep, Submit, master, slave
<1>2. HandleFree(h)
  BY <1>1 DEF HandleFree, CarrierInv, Owed, Nowhere
<1>3. /\ DOMAIN reqSock' = DOMAIN reqSock \cup {n} /\ reqSock'[n] = q
      /\ \A i \in DOMAIN reqSock : reqSock'[i] = reqSock[i] /\ reqSock[i] \in SentRequests
  BY <1>1 DEF Types, KernelTypes
<1>4. req'[h] = r /\ \A g \in Handle : g # h => req'[g] = req[g]
  BY <1>1 DEF Types, KernelTypes
<1>5. IsRequest(q)'
  BY <1>4 DEF IsRequest
<1>6. ASSUME NEW p \in SentRequests, p.op # "DISCONNECT", p.h # h, IsRequest(p) PROVE IsRequest(p)'
  BY <1>4, <1>6 DEF IsRequest, SentRequests
<1>7. \A i \in DOMAIN reqSock : reqSock[i].op # "DISCONNECT" => reqSock[i].h # h /\ IsRequest(reqSock[i])
  BY <1>2, FreeFacts DEF NumbersInv, TaskInv
<1>8. (\A i \in DOMAIN reqSock : reqSock[i].op # "DISCONNECT" => IsRequest(reqSock[i]))'
  BY <1>3, <1>5, <1>6, <1>7
<1> QED
  BY <1>1, <1>2, <1>4, <1>8, NumbersRequest

\* A step that neither sends nor lists anything.
LEMMA TaskStep ==
  ASSUME Types, TaskInv, \A h \in Handle : req'[h].op = req[h].op /\ req'[h].sec = req[h].sec /\ req'[h].buf = req[h].buf,
         \A i \in DOMAIN reqSock' : reqSock'[i].op # "DISCONNECT" => \E j \in DOMAIN reqSock : reqSock'[i] = reqSock[j],
         \A k \in DOMAIN mQueue' : k \in DOMAIN mQueue \/ (k \in Task /\ IsTask(k)),
         \A t \in Worker : \/ worker'[t] = worker[t] \/ worker'[t].at \notin {"run", "send"}
                           \/ worker'[t].at = "run" /\ worker'[t].task \in DOMAIN mQueue
                           \/ worker[t].at = "run" /\ worker'[t].task = worker[t].task /\ worker[t].task.key \in IoOps
  PROVE  TaskInv'
<1>1. ASSUME NEW p \in SentRequests, p.op # "DISCONNECT", IsRequest(p) PROVE IsRequest(p)'
  BY <1>1 DEF IsRequest, SentRequests
<1>2. ASSUME NEW k \in Task, IsTask(k) PROVE IsTask(k)'
  BY <1>2, TaskFacts DEF IsTask, IsRequest
<1>3. ASSUME NEW k \in RequestTask(IoOps), IsRequest(k) PROVE IsRequest(k)'
  BY <1>3 DEF IsRequest, RequestTask
<1>4. (\A i \in DOMAIN reqSock : reqSock[i].op # "DISCONNECT" => IsRequest(reqSock[i]))'
  <2>1. \A i \in DOMAIN reqSock : reqSock[i] \in SentRequests /\ (reqSock[i].op # "DISCONNECT" => IsRequest(reqSock[i]))
    BY DEF Types, KernelTypes, TaskInv
  <2> QED
    BY <1>1, <2>1
<1>5. \A k \in DOMAIN mQueue : k \in Task /\ IsTask(k)
  BY DEF Types, MasterTypes, TaskInv
<1>6. \A k \in DOMAIN mQueue' : IsTask(k)'
  BY <1>2, <1>5
<1>7. /\ \A t \in Worker : worker[t].at = "run" => worker[t].task \in Task /\ IsTask(worker[t].task)
      /\ \A t \in Worker : worker[t].at = "send" => worker[t].task \in RequestTask(IoOps) /\ IsRequest(worker[t].task)
  BY WorkerFacts DEF TaskInv
<1>8. \A t \in Worker : worker[t].at = "run" /\ worker[t].task.key \in IoOps =>
        worker[t].task \in RequestTask(IoOps) /\ IsRequest(worker[t].task)
  BY <1>7, TaskFacts DEF IsTask, IoOps, AllOps
<1>9. ASSUME NEW t \in Worker, worker'[t].at = "run" PROVE IsTask(worker[t].task)'
  <2>1. PICK k : k = worker'[t].task
    OBVIOUS
  <2>2. k \in Task /\ IsTask(k)
    BY <1>5, <1>7, <1>8, <1>9, <2>1
  <2> QED
    BY <1>2, <2>1, <2>2
<1>10. ASSUME NEW t \in Worker, worker'[t].at = "send" PROVE IsRequest(worker[t].task)'
  <2>1. PICK k : k = worker'[t].task
    OBVIOUS
  <2>2. k \in RequestTask(IoOps) /\ IsRequest(k)
    BY <1>5, <1>7, <1>8, <1>10, <2>1
  <2> QED
    BY <1>3, <2>1, <2>2
<1> QED
  BY <1>4, <1>6, <1>9, <1>10 DEF TaskInv

\* What is on its way carries the numbers and the keys it carried, or none.
Carried == \A m \in Numbered' : m.id = 0 \/ \E n \in Numbered : n.id = m.id /\ n.key = m.key

LEMMA ListStep ==
  ASSUME Types, ListInv, \A h \in Handle : req'[h].op = req[h].op, m_list' \subseteq m_list, Carried
  PROVE  ListInv'
<1>1. \A e \in m_list : e.id # 0 /\ e.h \in Handle
  BY DEF Types, MasterTypes
<1> SUFFICES ASSUME NEW e \in m_list'
             PROVE  /\ \A f \in m_list' : f.id = e.id => f = e
                    /\ \A m \in Numbered' : m.id = e.id => m.key = req'[e.h].op
                    /\ req'[e.h].op \in IoOps
  BY DEF ListInv
<1>2. /\ e \in m_list /\ req'[e.h].op = req[e.h].op
      /\ \A f \in m_list : f.id = e.id => f = e
      /\ \A m \in Numbered : m.id = e.id => m.key = req[e.h].op
      /\ req[e.h].op \in IoOps
  BY <1>1 DEF ListInv
<1>3. \A m \in Numbered' : m.id = e.id => m.key = req[e.h].op
  BY <1>1, <1>2 DEF Carried
<1> QED
  BY <1>2, <1>3

LEMMA SendStep ==
  ASSUME Types, SendInv, Carried,
         \A e \in m_list : e \in m_list' \/ \E m \in Numbered : m.id = e.id,
         \A t \in Worker : worker'[t] = worker[t] \/ (worker'[t].at # "send" /\ worker'[t].id = 0)
  PROVE  SendInv'
<1>1. \A t \in Worker : worker[t].at = "send" => worker[t].id # 0
  <2>1. \A t \in Worker : worker[t].at = "send" => worker[t].id \in 1..m_req_id
    BY WorkerFacts
  <2> QED
    BY <2>1 DEF Types, MasterTypes
<1> SUFFICES ASSUME NEW t \in Worker, worker'[t].at = "send"
             PROVE  /\ [id |-> worker'[t].id, h |-> worker'[t].task.h] \in m_list'
                    /\ \A m \in Numbered' : m.id # worker'[t].id
                    /\ \A u \in Worker \ {t} : worker'[u].id # worker'[t].id
  BY DEF SendInv
<1>2. worker'[t] = worker[t] /\ worker[t].at = "send"
  OBVIOUS
<1>3. /\ [id |-> worker[t].id, h |-> worker[t].task.h] \in m_list
      /\ \A m \in Numbered : m.id # worker[t].id
      /\ \A u \in Worker \ {t} : worker[u].id # worker[t].id
  BY <1>2 DEF SendInv
<1>4. [id |-> worker[t].id, h |-> worker[t].task.h] \in m_list'
  BY <1>3
<1>5. \A m \in Numbered' : m.id # worker[t].id
  BY <1>1, <1>2, <1>3 DEF Carried
<1>6. \A u \in Worker \ {t} : worker'[u].id # worker[t].id
  BY <1>1, <1>2, <1>3
<1> QED
  BY <1>2, <1>4, <1>5, <1>6

\* A step that changes nothing of it, or only loses, moves and copies datagrams.
LEMMA NumbersQuiet ==
  ASSUME Types, NumbersInv, UNCHANGED <<req, reqSock, mQueue, worker, m_list>>, Carried
  PROVE  NumbersInv'
BY TaskStep, ListStep, SendStep DEF NumbersInv

LEMMA SameCarried ==
  ASSUME UNCHANGED <<toSlave, toMaster, sQueue, sReply>>
  PROVE  Carried
BY DEF Carried, Numbered

LEMMA KernelNumbers ==
  ASSUME Types, CarrierInv, NumbersInv, KernelStep
  PROVE  NumbersInv'
<1>1. UNCHANGED <<mQueue, worker, m_list, net, sQueue, sReply>>
  BY DEF KernelStep, master, slave
<1>2. Carried
  BY <1>1, SameCarried DEF net
<1>3. CASE SubmitDisc
  <2>1. UNCHANGED req
        /\ \A i \in DOMAIN reqSock' : reqSock'[i].op # "DISCONNECT" => \E j \in DOMAIN reqSock : reqSock'[i] = reqSock[j]
    BY <1>3 DEF SubmitDisc, Types, KernelTypes
  <2> QED
    BY <1>1, <1>2, <2>1, TaskStep, ListStep, SendStep DEF NumbersInv
<1>4. CASE Complete
  <2>1. repSock[1] \in Chunk /\ 1 \in DOMAIN repSock /\ Head(repSock) = repSock[1]
    BY <1>4 DEF Complete, Types, KernelTypes
  <2>2. PICK h \in Handle : h = repSock[1].h
    BY <2>1 DEF Chunk
  <2>3. repSock[1].kind = "header" /\ req' = [req EXCEPT ![h] = Idle] /\ UNCHANGED reqSock
    BY <1>4, <2>1, <2>2 DEF Complete
  <2>4. 1 \in Replied(h) /\ Owed(h)
    BY <2>1, <2>2, <2>3 DEF Replied, CarrierInv
  <2>5. HandleFree(h)
    BY <2>4, OwedFacts, AloneFacts DEF HandleFree
  <2>6. \A g \in Handle : g # h => req'[g] = req[g]
    BY <2>3 DEF Types, KernelTypes
  <2>7. ASSUME NEW p \in SentRequests, p.op # "DISCONNECT", p.h # h, IsRequest(p) PROVE IsRequest(p)'
    BY <2>6, <2>7 DEF IsRequest, SentRequests
  <2>8. \A i \in DOMAIN reqSock : reqSock[i] \in SentRequests
          /\ (reqSock[i].op # "DISCONNECT" => reqSock[i].h # h /\ IsRequest(reqSock[i]))
    BY <2>5, FreeFacts DEF NumbersInv, TaskInv, Types, KernelTypes
  <2>9. (\A i \in DOMAIN reqSock : reqSock[i].op # "DISCONNECT" => IsRequest(reqSock[i]))'
    BY <2>3, <2>7, <2>8
  <2> QED
    BY <1>1, <2>5, <2>6, <2>9, NumbersRequest
<1>5. CASE BadReply
  BY <1>1, <1>2, <1>5, NumbersQuiet DEF BadReply
<1>6. CASE ClearQueue
  <2>1. ASSUME NEW h \in Handle PROVE req'[h].op = req[h].op /\ req'[h].sec = req[h].sec /\ req'[h].buf = req[h].buf
    <3>1. req'[h] = IF req[h].st = "sent" THEN [req[h] EXCEPT !.st = "failed"] ELSE req[h]
      BY <1>6 DEF ClearQueue
    <3>2. req[h].st = "sent" => req[h] \in Requests
      BY StateFacts DEF Types, KernelTypes
    <3> QED
      BY <3>1, <3>2, RequestFacts
  <2>2. UNCHANGED reqSock
    BY <1>6 DEF ClearQueue
  <2> QED
    BY <1>1, <1>2, <2>1, <2>2, TaskStep, ListStep, SendStep DEF NumbersInv
<1> QED
  BY <1>3, <1>4, <1>5, <1>6 DEF KernelStep, Kernel, KernelReads

\* The main thread.
LEMMA RecvCarried ==
  ASSUME Types, NEW m \in DOMAIN toMaster, RecvFromSlave(m), UNCHANGED <<sQueue, sReply>>
  PROVE  Carried
<1>1. DOMAIN toMaster' \subseteq DOMAIN toMaster /\ UNCHANGED toSlave
  BY BagRemoveFacts DEF RecvFromSlave, Types, NetTypes
<1> QED
  BY <1>1 DEF Carried, Numbered

LEMMA SlaveReadNumbers ==
  ASSUME Types, NumbersInv, NEW m \in DOMAIN toMaster, SlaveRead(m), UNCHANGED <<slave, seen>>
  PROVE  NumbersInv'
<1>1. UNCHANGED <<req, reqSock, worker>> /\ Carried
  BY RecvCarried DEF SlaveRead, slave
<1>2. CASE UNCHANGED <<m_list, mQueue>>
  BY <1>1, <1>2, NumbersQuiet
<1>3. ASSUME NEW e \in m_list, e.id = m.id, NEW k, k.key = "REPLAY", k.h = e.h, k.op = m.key, k \in Task,
             m_list' = m_list \ {e}, mQueue' = BagAdd(mQueue, k)
      PROVE  NumbersInv'
  <2>1. m \in Numbered /\ m.key = req[e.h].op
    BY <1>3 DEF Numbered, NumbersInv, ListInv
  <2>2. IsTask(k)
    BY <1>3, <2>1 DEF IsTask, AllOps
  <2>3. DOMAIN mQueue' = DOMAIN mQueue \cup {k}
    BY <1>3, BagAddFacts DEF Types, MasterTypes
  <2>4. TaskInv'
    BY <1>1, <1>3, <2>2, <2>3, TaskStep DEF NumbersInv
  <2>5. ListInv' /\ SendInv'
    BY <1>1, <1>3, <2>1, ListStep, SendStep DEF NumbersInv
  <2> QED
    BY <2>4, <2>5 DEF NumbersInv
<1>4. ASSUME NEW e \in {f \in m_list : f.id = m.id}, NEW status \in UninitStatus,
             NEW buf \in IF m.key = "READ" THEN Strcpy(m.buf) ELSE {Zeros}
      PROVE  LET k == ReplyTo(e.h, m.key, buf, status)
             IN  k.key = "REPLAY" /\ k.h = e.h /\ k.op = m.key /\ k \in Task
  <2>1. buf \in Payload /\ m.key \in IoOps /\ e.h \in Handle /\ status \in 0..1
    BY PayloadFacts, MasterAssumption DEF Types, NetTypes, MasterTypes, Answer, Hello, IoOps
  <2> QED
    BY <2>1 DEF ReplyTo, ReplyTask, Task
<1> QED
  BY <1>2, <1>3, <1>4 DEF SlaveRead

LEMMA NbdReadNumbers ==
  ASSUME Types, NumbersInv, NbdRead, UNCHANGED <<slave, seen>>
  PROVE  NumbersInv'
<1>1. UNCHANGED <<req, worker, m_list>> /\ Carried
  BY SameCarried DEF NbdRead, slave, net, table
<1>2. /\ \A i \in DOMAIN reqSock' : \E j \in DOMAIN reqSock : reqSock'[i] = reqSock[j]
      /\ Head(reqSock) = reqSock[1] /\ 1 \in DOMAIN reqSock /\ reqSock[1] \in SentRequests
  BY DEF NbdRead, Types, KernelTypes
<1>3. PICK k : k \in Task /\ IsTask(k) /\ mQueue' = BagAdd(mQueue, k)
  <2>1. CASE reqSock[1].op = "DISCONNECT"
    <3>1. [key |-> "DISCONNECT"] \in Task /\ IsTask([key |-> "DISCONNECT"])
      BY DEF Task, CloseTask, IsTask, AllOps
    <3> QED
      BY <1>2, <2>1, <3>1 DEF NbdRead
  <2>2. CASE reqSock[1].op # "DISCONNECT"
    <3> DEFINE r == reqSock[1]
               k == [key |-> r.op, op |-> r.op, h |-> r.h, sec |-> r.sec, buf |-> r.buf, status |-> 0]
    <3>1. k \in Task /\ mQueue' = BagAdd(mQueue, k)
      BY <1>2, <2>2 DEF NbdRead, SentRequests, Task, RequestTask
    <3>2. r \in [op : AllOps, h : Handle, sec : Sector, buf : Payload] /\ IsRequest(r)
      BY <1>2, <2>2 DEF SentRequests, NumbersInv, TaskInv
    <3>3. IsTask(k)
      BY <3>2 DEF IsTask, IsRequest, AllOps
    <3> HIDE DEF k
    <3> QED
      BY <3>1, <3>3
  <2> QED
    BY <2>1, <2>2
<1>4. DOMAIN mQueue' = DOMAIN mQueue \cup {k}
  BY <1>3, BagAddFacts DEF Types, MasterTypes
<1>5. TaskInv'
  BY <1>1, <1>2, <1>3, <1>4, TaskStep DEF NumbersInv
<1>6. ListInv' /\ SendInv'
  BY <1>1, ListStep, SendStep DEF NumbersInv
<1> QED
  BY <1>5, <1>6 DEF NumbersInv

LEMMA StdinReadNumbers ==
  ASSUME Types, NumbersInv, StdinRead, UNCHANGED <<slave, seen>>
  PROVE  NumbersInv'
<1>1. UNCHANGED <<req, reqSock, worker, m_list>> /\ Carried
  BY SameCarried DEF StdinRead, slave, net, table, nbd
<1>2. [key |-> "Q_EXIT"] \in Task /\ IsTask([key |-> "Q_EXIT"]) /\ mQueue' = BagAdd(mQueue, [key |-> "Q_EXIT"])
  BY DEF StdinRead, Task, CloseTask, IsTask, AllOps
<1>3. DOMAIN mQueue' = DOMAIN mQueue \cup {[key |-> "Q_EXIT"]}
  BY <1>2, BagAddFacts DEF Types, MasterTypes
<1>4. TaskInv'
  BY <1>1, <1>2, <1>3, TaskStep DEF NumbersInv
<1>5. ListInv' /\ SendInv'
  BY <1>1, ListStep, SendStep DEF NumbersInv
<1> QED
  BY <1>4, <1>5 DEF NumbersInv

\* The pool threads.
LEMMA PopNumbers ==
  ASSUME Types, NumbersInv, NEW t \in Worker, NEW k \in DOMAIN mQueue, Pop(t, k), UNCHANGED <<slave, seen>>
  PROVE  NumbersInv'
<1>1. UNCHANGED <<req, reqSock, m_list>> /\ Carried
  BY SameCarried DEF Pop, slave, net, table, nbd
<1>2. worker' = [worker EXCEPT ![t] = [at |-> "run", task |-> k, id |-> 0]]
      /\ \A u \in Worker : worker'[u] = IF u = t THEN [at |-> "run", task |-> k, id |-> 0] ELSE worker[u]
  BY DEF Pop, Types, MasterTypes
<1>3. DOMAIN mQueue' \subseteq DOMAIN mQueue
  BY BagRemoveFacts DEF Pop, Types, MasterTypes
<1>4. TaskInv'
  BY <1>1, <1>2, <1>3, TaskStep DEF NumbersInv
<1>5. ListInv' /\ SendInv'
  BY <1>1, <1>2, ListStep, SendStep DEF NumbersInv
<1> QED
  BY <1>4, <1>5 DEF NumbersInv

\* No number that is given out is known yet.
LEMMA NumbersKnown ==
  ASSUME Types
  PROVE  /\ \A m \in Numbered : m.id \in 0..m_req_id
         /\ \A e \in m_list : e.id \in 1..m_req_id
         /\ \A t \in Worker : worker[t].id \in 0..m_req_id
         /\ m_req_id \in Nat
<1>1. m_req_id \in Nat
  BY DEF Types, MasterTypes
<1>2. \A m \in Command \cup Order \cup Answer \cup Hello : m.id \in 0..m_req_id
  BY <1>1 DEF Command, Order, Answer, Hello
<1>3. Numbered \subseteq Command \cup Order \cup Answer \cup Hello
  BY DEF Numbered, Types, NetTypes, SlaveTypes
<1>4. ASSUME NEW t \in Worker PROVE worker[t].id \in 0..m_req_id
  <2>1. worker[t].id \in 1..m_req_id \/ worker[t].id = 0
    BY WorkerFacts DEF Stage
  <2> QED
    BY <1>1, <2>1
<1> QED
  BY <1>1, <1>2, <1>3, <1>4 DEF Types, MasterTypes

LEMMA HandlerToIdNumbers ==
  ASSUME Types, NumbersInv, NEW t \in Worker, HandlerToId(t), UNCHANGED <<slave, seen>>
  PROVE  NumbersInv'
<1>1. PICK k, n : k = worker[t].task /\ n = m_req_id + 1
  OBVIOUS
<1>2. /\ worker[t].at = "run" /\ k.key \in IoOps /\ k \in Task /\ k.h \in Handle /\ k.op = k.key
      /\ k.op = req[k.h].op
  BY <1>1, WorkerFacts, TaskFacts DEF HandlerToId, IoOps, AllOps, NumbersInv, TaskInv, IsTask, IsRequest
<1>3. /\ UNCHANGED <<req, reqSock, mQueue>> /\ m_list' = m_list \cup {[id |-> n, h |-> k.h]}
      /\ Numbered' = Numbered
  BY <1>1 DEF HandlerToId, slave, net, nbd, Numbered
<1>4. \A u \in Worker : worker'[u] = IF u = t THEN [at |-> "send", task |-> k, id |-> n] ELSE worker[u]
  BY <1>1, WorkerFacts DEF HandlerToId, Types, MasterTypes
<1>5. /\ \A m \in Numbered : m.id # n
      /\ \A e \in m_list : e.id # n
      /\ \A u \in Worker : worker[u].id # n
  BY <1>1, NumbersKnown
<1>6. TaskInv'
  <2>1. \A u \in Worker :
          \/ worker'[u] = worker[u]
          \/ worker[u].at = "run" /\ worker'[u].task = worker[u].task /\ worker[u].task.key \in IoOps
    <3>1. worker[t].at = "run" /\ worker'[t].task = worker[t].task /\ worker[t].task.key \in IoOps
      BY <1>1, <1>2, <1>4
    <3> QED
      BY <1>4, <3>1
  <2> QED
    BY <1>3, <2>1, TaskStep DEF NumbersInv
<1>7. ListInv'
  BY <1>2, <1>3, <1>5 DEF NumbersInv, ListInv
<1>8. SendInv'
  BY <1>3, <1>4, <1>5 DEF NumbersInv, SendInv
<1> QED
  BY <1>6, <1>7, <1>8 DEF NumbersInv

LEMMA StorageSendNumbers ==
  ASSUME Types, NumbersInv, NEW t \in Worker, StorageSend(t), UNCHANGED <<slave, seen>>
  PROVE  NumbersInv'
<1>1. PICK k, n : k = worker[t].task /\ n = worker[t].id
  OBVIOUS
<1>2. /\ worker[t].at = "send" /\ k \in RequestTask(IoOps) /\ k.key = req[k.h].op /\ n \in 1..m_req_id
  <2>1. k \in RequestTask(IoOps) /\ IsRequest(k)
    BY <1>1, WorkerFacts DEF StorageSend, NumbersInv, TaskInv
  <2> QED
    BY <1>1, <2>1, WorkerFacts DEF StorageSend, RequestTask, IsRequest
<1>3. PICK m : m = [key |-> k.key, id |-> n, sec |-> k.sec, buf |-> k.buf, dst |-> m_cliaddr]
  OBVIOUS
<1>4. UNCHANGED <<req, reqSock, mQueue, m_list>> /\ toSlave' = BagAdd(toSlave, m) /\ UNCHANGED <<toMaster, sQueue, sReply>>
  BY <1>1, <1>3 DEF StorageSend, SendToSlave, slave, nbd, table
<1>5. Numbered' = Numbered \cup {m}
  <2>1. DOMAIN toSlave' = DOMAIN toSlave \cup {m}
    BY <1>4, BagAddFacts DEF Types, NetTypes
  <2> QED
    BY <1>4, <2>1 DEF Numbered
<1>6. \A u \in Worker : worker'[u] = IF u = t THEN [at |-> "idle", task |-> NoTask, id |-> 0] ELSE worker[u]
  BY DEF StorageSend, BackToPool, Types, MasterTypes
<1>7. /\ [id |-> n, h |-> k.h] \in m_list
      /\ \A u \in Worker \ {t} : worker[u].id # n
  BY <1>1, <1>2 DEF NumbersInv, SendInv
<1>8. TaskInv'
  BY <1>4, <1>6, TaskStep DEF NumbersInv
<1>9. ListInv'
  <2>1. \A e \in m_list : e.id = n => e = [id |-> n, h |-> k.h]
    BY <1>7 DEF NumbersInv, ListInv
  <2>2. m.id = n /\ m.key = req[k.h].op
    BY <1>2, <1>3
  <2> QED
    BY <1>4, <1>5, <2>1, <2>2 DEF NumbersInv, ListInv
<1>10. SendInv'
  <2>1. m.id = n
    BY <1>3
  <2>2. \A u \in Worker : worker[u].at = "send" => worker[u].id # 0
    <3>1. \A u \in Worker : worker[u].at = "send" => worker[u].id \in 1..m_req_id
      BY WorkerFacts
    <3> QED
      BY <3>1, NumbersKnown
  <2> QED
    BY <1>4, <1>5, <1>6, <1>7, <2>1, <2>2 DEF NumbersInv, SendInv
<1> QED
  BY <1>8, <1>9, <1>10 DEF NumbersInv

LEMMA OtherNumbers ==
  ASSUME Types, NumbersInv, NEW t \in Worker, UNCHANGED <<slave, seen>>,
         StorageDisconnect(t) \/ DriverDisconnect(t) \/ SendReply(t) \/ SendReplyData(t) \/ TakeStop(t)
  PROVE  NumbersInv'
<1>1. UNCHANGED <<req, reqSock, mQueue, m_list>> /\ worker[t].at # "send"
  BY DEF StorageDisconnect, DriverDisconnect, SendReply, SendReplyData, TakeStop, nbd, table
<1>2. PICK w : worker' = [worker EXCEPT ![t] = w] /\ w.at \notin {"run", "send"} /\ w.id = 0
  BY <1>1, LeavesRun DEF StorageDisconnect, DriverDisconnect, SendReply, SendReplyData, TakeStop
<1>3. \A u \in Worker : worker'[u] = worker[u] \/ (worker'[u].at \notin {"run", "send"} /\ worker'[u].id = 0)
  BY <1>2 DEF Types, MasterTypes
<1>4. Carried
  <2>1. CASE StorageDisconnect(t)
    <3>1. PICK m : m.id = 0 /\ toSlave' = BagAdd(toSlave, m) /\ UNCHANGED <<toMaster, sQueue, sReply>>
      BY <2>1 DEF StorageDisconnect, SendToSlave, slave
    <3>2. DOMAIN toSlave' = DOMAIN toSlave \cup {m}
      BY <3>1, BagAddFacts DEF Types, NetTypes
    <3> QED
      BY <3>1, <3>2 DEF Carried, Numbered
  <2>2. CASE UNCHANGED net
    BY <2>2, SameCarried DEF net, slave
  <2> QED
    BY <2>1, <2>2 DEF DriverDisconnect, SendReply, SendReplyData, TakeStop
<1>5. TaskInv'
  BY <1>1, <1>3, TaskStep DEF NumbersInv
<1>6. ListInv' /\ SendInv'
  BY <1>1, <1>3, <1>4, ListStep, SendStep DEF NumbersInv
<1> QED
  BY <1>5, <1>6 DEF NumbersInv

\* The slave passes on the numbers and the keys it received; its hello has none.
LEMMA SlaveCarried ==
  ASSUME Types, SlaveStep, UNCHANGED master
  PROVE  Carried
<1>1. IsABag(toSlave) /\ IsABag(toMaster) /\ IsABag(sQueue)
  BY DEF Types, NetTypes, SlaveTypes
<1>2. CASE Boot
  <2>1. PICK m : m.id = 0 /\ toMaster' = BagAdd(toMaster, m) /\ UNCHANGED <<toSlave, sQueue, sReply>>
    BY <1>2 DEF Boot, SendToMaster
  <2>2. DOMAIN toMaster' = DOMAIN toMaster \cup {m}
    BY <1>1, <2>1, BagAddFacts
  <2> QED
    BY <2>1, <2>2 DEF Carried, Numbered
<1>3. ASSUME NEW m \in DOMAIN toSlave, ReceiveRequest(m) PROVE Carried
  <2>1. \E k : k.id = m.id /\ k.key = m.key /\ sQueue' = BagAdd(sQueue, k)
    <3>1. CASE m.key = "WRITE"
      <4>1. PICK buf \in Strcpy(m.buf) : sQueue' = BagAdd(sQueue, [m EXCEPT !.buf = buf])
        BY <1>3, <3>1 DEF ReceiveRequest
      <4>2. m \in Command
        BY <3>1 DEF Types, NetTypes, Order
      <4>3. [m EXCEPT !.buf = buf].id = m.id /\ [m EXCEPT !.buf = buf].key = m.key
        BY <4>2 DEF Command
      <4> QED
        BY <4>1, <4>3
    <3>2. CASE m.key # "WRITE"
      BY <1>3, <3>2 DEF ReceiveRequest
    <3> QED
      BY <3>1, <3>2
  <2>2. PICK k : k.id = m.id /\ k.key = m.key /\ sQueue' = BagAdd(sQueue, k)
    BY <2>1
  <2>3. DOMAIN sQueue' = DOMAIN sQueue \cup {k}
    BY <1>1, <2>2, BagAddFacts
  <2>4. DOMAIN toSlave' \subseteq DOMAIN toSlave /\ UNCHANGED <<toMaster, sReply>>
    BY <1>1, <1>3, BagRemoveFacts DEF ReceiveRequest, RecvFromMaster
  <2> QED
    BY <2>2, <2>3, <2>4 DEF Carried, Numbered
<1>4. ASSUME NEW k \in DOMAIN sQueue, Write(k) \/ Read(k) \/ SlaveDisconnect(k) PROVE Carried
  <2>1. DOMAIN sQueue' \subseteq DOMAIN sQueue /\ UNCHANGED <<toSlave, toMaster>>
    BY <1>1, <1>4, BagRemoveFacts DEF Write, Read, SlaveDisconnect, Take, net
  <2>2. sReply' = sReply \/ (sReply'.id = k.id /\ sReply'.key = k.key)
    BY <1>4 DEF Write, Read, SlaveDisconnect
  <2> QED
    BY <2>1, <2>2 DEF Carried, Numbered
<1>5. CASE SlaveSendReply
  <2>1. sReply # NoReply /\ sReply' = NoReply /\ UNCHANGED <<toSlave, sQueue>>
        /\ (UNCHANGED toMaster \/ toMaster' = BagAdd(toMaster, sReply))
    BY <1>5 DEF SlaveSendReply, SendToMaster, net
  <2>2. DOMAIN toMaster' \subseteq DOMAIN toMaster \cup {sReply}
    BY <1>1, <2>1, BagAddFacts
  <2> QED
    BY <2>1, <2>2 DEF Carried, Numbered
<1>6. CASE SlaveStop
  BY <1>6, EmptyBagFacts DEF SlaveStop, net, Carried, Numbered
<1> QED
  BY <1>2, <1>3, <1>4, <1>5, <1>6 DEF SlaveStep, StorageStep

LEMMA FaultCarried ==
  ASSUME Types, Fault, UNCHANGED <<slave, master>>
  PROVE  Carried
<1>1. IsABag(toSlave) /\ IsABag(toMaster) /\ UNCHANGED <<sQueue, sReply>>
  BY DEF Types, NetTypes, slave
<1>2. ASSUME NEW B, IsABag(B), NEW m \in DOMAIN B
      PROVE  DOMAIN BagRemove(B, m) \subseteq DOMAIN B /\ DOMAIN BagAdd(B, m) \subseteq DOMAIN B
  <2>1. DOMAIN BagRemove(B, m) \subseteq DOMAIN B
    BY <1>2, BagRemoveFacts
  <2>2. DOMAIN BagAdd(B, m) = DOMAIN B \cup {m}
    BY <1>2, BagAddFacts
  <2> QED
    BY <2>1, <2>2
<1>3. DOMAIN toSlave' \subseteq DOMAIN toSlave /\ DOMAIN toMaster' \subseteq DOMAIN toMaster
  <2>1. \/ \E m \in DOMAIN toSlave :
             toSlave' \in {BagRemove(toSlave, m), BagAdd(toSlave, m)} /\ UNCHANGED toMaster
        \/ \E m \in DOMAIN toMaster :
             toMaster' \in {BagRemove(toMaster, m), BagAdd(toMaster, m)} /\ UNCHANGED toSlave
    BY DEF Fault, Lose, Duplicate
  <2> QED
    BY <1>1, <1>2, <2>1
<1> QED
  BY <1>1, <1>3 DEF Carried, Numbered

LEMMA NextNumbers == ASSUME Types, CarrierInv, NumbersInv, [Next]_vars PROVE NumbersInv'
<1>1. ASSUME UNCHANGED <<nbd, master>>, Carried PROVE NumbersInv'
  BY <1>1, NumbersQuiet DEF nbd, master
<1>2. ASSUME UNCHANGED <<req, reqSock, mQueue, worker, m_list, net, slave>> PROVE NumbersInv'
  BY <1>2, NumbersQuiet, SameCarried DEF net, slave
<1>3. ASSUME MainStep PROVE NumbersInv'
  <2>1. ASSUME NEW m \in DOMAIN toMaster, SlaveHello(m) PROVE NumbersInv'
    BY <1>3, <2>1, NumbersQuiet, RecvCarried DEF MainStep, SlaveHello, pool, table, nbd, slave
  <2>2. CASE NbdReadEof \/ Return
    BY <1>2, <1>3, <2>2 DEF MainStep, NbdReadEof, Return, End, pool, table
  <2> QED
    BY <1>3, <2>1, <2>2, NbdReadNumbers, SlaveReadNumbers DEF MainStep, MainThread
<1>4. ASSUME NEW t \in Worker, PoolStep(t) PROVE NumbersInv'
  <2>1. CASE WriteAllThrows(t)
    BY <1>2, <1>4, <2>1 DEF PoolStep, WriteAllThrows, End, pool, table
  <2> QED
    BY <1>4, <2>1, PopNumbers, HandlerToIdNumbers, StorageSendNumbers, OtherNumbers DEF PoolStep, PoolThread
<1>5. ASSUME EnvironmentStep PROVE NumbersInv'
  <2>1. CASE Signal \/ SetNbdFails \/ \E t \in Worker : SendFails(t)
    BY <1>2, <1>5, <2>1 DEF EnvironmentStep, Signal, SetNbdFails, SendFails, End, pool, table
  <2> QED
    BY <1>5, <2>1, StdinReadNumbers DEF EnvironmentStep, Environment
<1>6. ASSUME SlaveStep, UNCHANGED <<nbd, master>> PROVE NumbersInv'
  BY <1>1, <1>6, SlaveCarried
<1>7. ASSUME CrashStep, UNCHANGED <<nbd, master>> PROVE NumbersInv'
  <2>1. Carried
    BY <1>7, EmptyBagFacts DEF CrashStep, Crash, net, Carried, Numbered
  <2> QED
    BY <1>1, <1>7, <2>1
<1>8. ASSUME Fault, UNCHANGED <<nbd, master, slave, seen>> PROVE NumbersInv'
  BY <1>1, <1>8, FaultCarried
<1>9. CASE UNCHANGED vars
  BY <1>2, <1>9 DEF vars, nbd, master
<1> QED
  BY <1>3, <1>4, <1>5, <1>6, <1>7, <1>8, <1>9, KernelNumbers, SubmitNumbers DEF Next

LEMMA InitNumbers == Init => NumbersInv
<1> SUFFICES ASSUME Init PROVE NumbersInv
  OBVIOUS
<1>1. DOMAIN reqSock = {} /\ DOMAIN mQueue = {} /\ m_list = {} /\ \A t \in Worker : worker[t].at = "idle"
  BY EmptyBagFacts DEF Init, NbdInit, MasterInit
<1> QED
  BY <1>1 DEF NumbersInv, TaskInv, SendInv, ListInv

\* A number of m_list is given to one request, and every datagram with that number is about that
\* request: a late, a duplicated or a reordered answer is never taken for the answer to another
\* request, and neither is the answer of a slave that was started again.
THEOREM NumbersStand == Spec => []NumbersMatch
<1>1. Init => Types /\ CarrierInv /\ NumbersInv
  BY InitTypes, InitCarrier, InitNumbers
<1>2. Types /\ CarrierInv /\ NumbersInv /\ [Next]_vars => (Types /\ CarrierInv /\ NumbersInv)'
  BY NextTypes, NextCarrier, NextNumbers
<1>3. NumbersInv => NumbersMatch
  BY DEF NumbersInv, ListInv, NumbersMatch, Numbered, Datagrams
<1> QED
  BY <1>1, <1>2, <1>3, PTL DEF Spec

(***************************************************************************)
(* The numbers of HandlerToId() in a network that duplicates nothing: each *)
(* is in one place, and only a slave that was started again brings the     *)
(* master a number that m_list does not know.                              *)
(***************************************************************************)

-----------------------------------------------------------------------------
(* Without duplicates a number is in one place.                            *)

\* A bag whose numbered elements are there once loses and gets one of them.
LEMMA OnceRemoved ==
  ASSUME NEW B, IsABag(B), Once(B), NEW m \in DOMAIN B
  PROVE  /\ Once(BagRemove(B, m))
         /\ \A id : id # 0 => {x \in DOMAIN BagRemove(B, m) : x.id = id} = {x \in DOMAIN B : x.id = id} \ {m}
<1>1. /\ DOMAIN BagRemove(B, m) \subseteq DOMAIN B
      /\ DOMAIN B \subseteq DOMAIN BagRemove(B, m) \cup {m}
      /\ \A y \in DOMAIN BagRemove(B, m) : y # m => BagRemove(B, m)[y] = B[y]
      /\ B[m] = 1 => DOMAIN BagRemove(B, m) = DOMAIN B \ {m}
  BY BagRemoveFacts
<1>2. m.id # 0 => DOMAIN BagRemove(B, m) = DOMAIN B \ {m}
  BY <1>1 DEF Once
<1> QED
  BY <1>1, <1>2 DEF Once

LEMMA OnceAdded ==
  ASSUME NEW B, IsABag(B), Once(B), NEW m, m.id # 0 => m \notin DOMAIN B
  PROVE  /\ Once(BagAdd(B, m))
         /\ \A id : id # 0 => {x \in DOMAIN BagAdd(B, m) : x.id = id}
                                = {x \in DOMAIN B : x.id = id} \cup {x \in {m} : x.id = id}
<1>1. /\ DOMAIN BagAdd(B, m) = DOMAIN B \cup {m}
      /\ \A y \in DOMAIN B : y # m => BagAdd(B, m)[y] = B[y]
      /\ m \notin DOMAIN B => BagAdd(B, m)[m] = 1
  BY BagAddFacts
<1> QED
  BY <1>1 DEF Once

\* What stays, and what becomes of a set of at most one place that is left or loses elements.
Reduced(S, T) == (S = {} => T = {}) /\ ((\E x \in S : S = {x}) => T = {} \/ \E x \in T : T = {x})

LEMMA ReducedFacts == \A S, T : T \subseteq S => Reduced(S, T)
BY DEF Reduced

LEMMA InOnePlaceReduced ==
  ASSUME NEW id, InOnePlace(id), UNCHANGED m_list,
         Reduced(Sender(id), Sender(id)'), Reduced(Sent(id), Sent(id)'), Reduced(Pending(id), Pending(id)'),
         Reduced(Done(id), Done(id)'), Reduced(Answered(id), Answered(id)')
  PROVE  InOnePlace(id)'
BY DEF InOnePlace, Reduced, Alone, Nowhere

\* A variable that stays leaves its places alone.
LEMMA SameNumbers ==
  /\ \A id : (\A t \in Worker : worker'[t] = worker[t] \/ (worker[t].at # "send" /\ worker'[t].at # "send"))
       => Sender(id)' = Sender(id)
  /\ UNCHANGED toSlave => (Once(toSlave)' <=> Once(toSlave)) /\ \A id : Sent(id)' = Sent(id)
  /\ UNCHANGED sQueue => (Once(sQueue)' <=> Once(sQueue)) /\ \A id : Pending(id)' = Pending(id)
  /\ UNCHANGED sReply => \A id : Done(id)' = Done(id)
  /\ UNCHANGED toMaster => (Once(toMaster)' <=> Once(toMaster)) /\ \A id : Answered(id)' = Answered(id)
<1>1. ASSUME NEW id, \A t \in Worker : worker'[t] = worker[t] \/ (worker[t].at # "send" /\ worker'[t].at # "send")
      PROVE  Sender(id)' = Sender(id)
  BY <1>1 DEF Sender
<1>2. UNCHANGED toSlave => (Once(toSlave)' <=> Once(toSlave)) /\ \A id : Sent(id)' = Sent(id)
  BY DEF Once, Sent
<1>3. UNCHANGED sQueue => (Once(sQueue)' <=> Once(sQueue)) /\ \A id : Pending(id)' = Pending(id)
  BY DEF Once, Pending
<1>4. UNCHANGED sReply => \A id : Done(id)' = Done(id)
  BY DEF Done
<1>5. UNCHANGED toMaster => (Once(toMaster)' <=> Once(toMaster)) /\ \A id : Answered(id)' = Answered(id)
  BY DEF Once, Answered
<1> QED
  BY <1>1, <1>2, <1>3, <1>4, <1>5

\* A step that only loses of it.
LEMMA OnceReduced ==
  ASSUME NumbersOnce, UNCHANGED <<m_req_id, m_list>>,
         Once(toSlave)', Once(sQueue)', Once(toMaster)',
         \A id \in 1..m_req_id :
           /\ Sender(id)' \subseteq Sender(id) /\ Sent(id)' \subseteq Sent(id) /\ Pending(id)' \subseteq Pending(id)
           /\ Done(id)' \subseteq Done(id) /\ Answered(id)' \subseteq Answered(id)
  PROVE  NumbersOnce'
<1>1. \A id \in 1..m_req_id : InOnePlace(id)'
  BY InOnePlaceReduced, ReducedFacts DEF NumbersOnce
<1> QED
  BY <1>1 DEF NumbersOnce

LEMMA OnceFacts ==
  ASSUME NumbersOnce, NEW id \in 1..m_req_id
  PROVE  /\ \A x \in Sender(id) : Sender(id) = {x} /\ Sent(id) = {} /\ Pending(id) = {} /\ Done(id) = {} /\ Answered(id) = {}
         /\ \A x \in Sent(id) : Sent(id) = {x} /\ Sender(id) = {} /\ Pending(id) = {} /\ Done(id) = {} /\ Answered(id) = {}
         /\ \A x \in Pending(id) : Pending(id) = {x} /\ Sender(id) = {} /\ Sent(id) = {} /\ Done(id) = {} /\ Answered(id) = {}
         /\ \A x \in Done(id) : Done(id) = {x} /\ Sender(id) = {} /\ Sent(id) = {} /\ Pending(id) = {} /\ Answered(id) = {}
         /\ \A x \in Answered(id) : Answered(id) = {x} /\ Sender(id) = {} /\ Sent(id) = {} /\ Pending(id) = {} /\ Done(id) = {}
         /\ (\E x : x \in Sender(id) \cup Sent(id) \cup Pending(id) \cup Done(id) \cup Answered(id))
              => \E e \in m_list : e.id = id
<1>1. InOnePlace(id)
  BY DEF NumbersOnce
<1> QED
  BY <1>1, AloneFacts DEF InOnePlace, Nowhere

\* The master's steps.
LEMMA RecvOnce ==
  ASSUME Types, NumbersOnce, NEW m \in DOMAIN toMaster, RecvFromSlave(m)
  PROVE  Once(toMaster)' /\ UNCHANGED <<toSlave, dups>> /\ \A id \in 1..m_req_id : Answered(id)' = Answered(id) \ {m}
<1>1. IsABag(toMaster) /\ Once(toMaster) /\ toMaster' = BagRemove(toMaster, m) /\ UNCHANGED <<toSlave, dups>>
  BY DEF RecvFromSlave, Types, NetTypes, NumbersOnce
<1>2. /\ Once(BagRemove(toMaster, m))
      /\ \A id : id # 0 => {x \in DOMAIN BagRemove(toMaster, m) : x.id = id} = {x \in DOMAIN toMaster : x.id = id} \ {m}
  BY <1>1, OnceRemoved
<1> QED
  BY <1>1, <1>2 DEF Answered, Once

LEMMA SlaveReadOnce ==
  ASSUME Types, NumbersOnce, NEW m \in DOMAIN toMaster, SlaveRead(m), UNCHANGED <<slave, seen>>
  PROVE  NumbersOnce'
<1>1. UNCHANGED <<m_req_id, worker, sQueue, sReply, toSlave>> /\ Once(toMaster)'
      /\ \A id \in 1..m_req_id : Answered(id)' = Answered(id) \ {m}
  BY RecvOnce DEF SlaveRead, slave
<1>2. /\ Once(toSlave)' /\ Once(sQueue)'
      /\ \A id : /\ Sender(id)' = Sender(id) /\ Sent(id)' = Sent(id)
                 /\ Pending(id)' = Pending(id) /\ Done(id)' = Done(id)
  BY <1>1, SameNumbers DEF NumbersOnce
<1>3. CASE UNCHANGED m_list
  BY <1>1, <1>2, <1>3, OnceReduced
<1>4. ASSUME NEW e \in m_list, e.id = m.id, m_list' = m_list \ {e} PROVE NumbersOnce'
  <2>1. e.id \in 1..m_req_id /\ m \in Answered(e.id)
    BY <1>4 DEF Answered, Types, MasterTypes
  <2>2. PICK n \in 1..m_req_id : n = e.id
    BY <2>1
  <2>3. /\ Sender(n) = {} /\ Sent(n) = {} /\ Pending(n) = {} /\ Done(n) = {} /\ Answered(n) = {m}
    BY <2>1, <2>2, OnceFacts
  <2>4. InOnePlace(n)'
    BY <1>1, <1>2, <2>3 DEF InOnePlace, Nowhere
  <2>5. ASSUME NEW id \in 1..m_req_id, id # e.id PROVE InOnePlace(id)'
    <3>1. InOnePlace(id) /\ m \notin Answered(id)
      BY <1>4, <2>5 DEF NumbersOnce, Answered
    <3>2. /\ Sender(id)' = Sender(id) /\ Sent(id)' = Sent(id) /\ Pending(id)' = Pending(id)
          /\ Done(id)' = Done(id) /\ Answered(id)' = Answered(id)
      BY <1>1, <1>2, <3>1
    <3>3. (\E f \in m_list : f.id = id) => \E f \in m_list' : f.id = id
      BY <1>4, <2>5
    <3> QED
      BY <3>1, <3>2, <3>3 DEF InOnePlace
  <2>6. \A id \in 1..m_req_id : InOnePlace(id)'
    BY <2>4, <2>5, <2>2
  <2> QED
    BY <1>1, <1>2, <2>6 DEF NumbersOnce
<1> QED
  BY <1>3, <1>4 DEF SlaveRead

LEMMA HandlerToIdOnce ==
  ASSUME Types, NumbersOnce, NEW t \in Worker, HandlerToId(t), UNCHANGED <<slave, seen>>
  PROVE  NumbersOnce'
<1>1. PICK n \in Nat : n = m_req_id + 1
  BY NumbersKnown
<1>2. /\ m_req_id' = n /\ UNCHANGED <<toSlave, toMaster, sQueue, sReply>> /\ m_list \subseteq m_list'
      /\ \E e \in m_list' : e.id = n
  <2>1. PICK e : e = [id |-> n, h |-> worker[t].task.h]
    OBVIOUS
  <2>2. m_req_id' = n /\ UNCHANGED <<toSlave, toMaster, sQueue, sReply>> /\ m_list' = m_list \cup {e}
    BY <1>1, <2>1 DEF HandlerToId, slave, net
  <2> QED
    BY <2>1, <2>2
<1>3. \A u \in Worker : IF u = t THEN worker'[u].at = "send" /\ worker'[u].id = n /\ worker[u].at = "run"
                                 ELSE worker'[u] = worker[u]
  BY <1>1, WorkerFacts DEF HandlerToId, Types, MasterTypes
<1>4. /\ \A m \in Numbered : m.id # n
      /\ \A u \in Worker : worker[u].id # n
  BY <1>1, NumbersKnown
<1>5. InOnePlace(n)'
  <2>1. Sender(n)' = {t}
    BY <1>3, <1>4 DEF Sender
  <2>2. Sent(n)' = {} /\ Pending(n)' = {} /\ Done(n)' = {} /\ Answered(n)' = {}
    BY <1>2, <1>4 DEF Sent, Pending, Done, Answered, Numbered
  <2> QED
    BY <1>2, <2>1, <2>2 DEF InOnePlace, Alone
<1>6. ASSUME NEW id \in 1..m_req_id PROVE InOnePlace(id)'
  <2>1. id # n /\ InOnePlace(id)
    BY <1>1, <1>6, NumbersKnown DEF NumbersOnce
  <2>2. Sender(id)' = Sender(id)
    BY <1>3, <2>1 DEF Sender
  <2>3. /\ Sent(id)' = Sent(id) /\ Pending(id)' = Pending(id)
        /\ Done(id)' = Done(id) /\ Answered(id)' = Answered(id)
    BY <1>2, SameNumbers
  <2> QED
    BY <1>2, <2>1, <2>2, <2>3 DEF InOnePlace
<1>7. \A id \in 1..m_req_id' : InOnePlace(id)'
  <2>1. \A id \in 1..m_req_id' : id = n \/ id \in 1..m_req_id
    BY <1>1, <1>2, NumbersKnown
  <2> QED
    BY <1>5, <1>6, <2>1
<1> QED
  BY <1>2, <1>7, SameNumbers DEF NumbersOnce

LEMMA StorageSendOnce ==
  ASSUME Types, NumbersOnce, NEW t \in Worker, StorageSend(t), UNCHANGED <<slave, seen>>
  PROVE  NumbersOnce'
<1>1. PICK n \in 1..m_req_id : n = worker[t].id
  BY WorkerFacts DEF StorageSend
<1>2. PICK m : m = [key |-> worker[t].task.key, id |-> n, sec |-> worker[t].task.sec, buf |-> worker[t].task.buf,
                    dst |-> m_cliaddr]
  OBVIOUS
<1>3. /\ toSlave' = BagAdd(toSlave, m) /\ m.id = n /\ n # 0 /\ worker[t].at = "send"
      /\ UNCHANGED <<toMaster, sQueue, sReply, m_req_id, m_list>>
  BY <1>1, <1>2 DEF StorageSend, SendToSlave, slave, table
<1>4. \A u \in Worker : worker'[u] = IF u = t THEN [at |-> "idle", task |-> NoTask, id |-> 0] ELSE worker[u]
  BY DEF StorageSend, BackToPool, Types, MasterTypes
<1>5. /\ Sender(n) = {t} /\ Sent(n) = {} /\ Pending(n) = {} /\ Done(n) = {} /\ Answered(n) = {}
      /\ \E e \in m_list : e.id = n
  <2>1. t \in Sender(n)
    BY <1>1, <1>3 DEF Sender
  <2> QED
    BY <2>1, OnceFacts
<1>6. /\ Once(BagAdd(toSlave, m))
      /\ \A id : id # 0 => {x \in DOMAIN BagAdd(toSlave, m) : x.id = id}
                             = {x \in DOMAIN toSlave : x.id = id} \cup {x \in {m} : x.id = id}
  <2>1. m \notin DOMAIN toSlave /\ IsABag(toSlave) /\ Once(toSlave)
    BY <1>3, <1>5 DEF Sent, Types, NetTypes, NumbersOnce
  <2> QED
    BY SMTT(40), <2>1, OnceAdded
<1>7. Once(toSlave)' /\ \A id \in 1..m_req_id : Sent(id)' = Sent(id) \cup {x \in {m} : x.id = id}
  BY <1>3, <1>6 DEF Sent, Once
<1>8. \A id \in 1..m_req_id : Sender(id)' = Sender(id) \ {t}
  BY <1>4 DEF Sender
<1>9. InOnePlace(n)'
  <2>1. Sent(n)' = {m} /\ Sender(n)' = {} /\ Pending(n)' = {} /\ Done(n)' = {} /\ Answered(n)' = {}
    BY <1>3, <1>5, <1>7, <1>8, SameNumbers
  <2> QED
    BY <1>3, <1>5, <2>1 DEF InOnePlace, Alone
<1>10. ASSUME NEW id \in 1..m_req_id, id # n PROVE InOnePlace(id)'
  <2>1. Sender(id)' = Sender(id)
    BY <1>1, <1>8, <1>10 DEF Sender
  <2>2. /\ Sent(id)' = Sent(id) /\ Pending(id)' = Pending(id)
        /\ Done(id)' = Done(id) /\ Answered(id)' = Answered(id) /\ InOnePlace(id)
    BY <1>3, <1>7, <1>10, SameNumbers DEF NumbersOnce
  <2> QED
    BY <1>3, <2>1, <2>2 DEF InOnePlace
<1> QED
  BY <1>3, <1>7, <1>9, <1>10, SameNumbers DEF NumbersOnce

\* The slave's steps: what is in it when one of them takes place.
LEMMA SlaveStepOnce ==
  ASSUME NumbersOnce, UNCHANGED <<m_req_id, m_list>>, Once(toSlave)', Once(sQueue)', Once(toMaster)',
         NEW n, n \in 1..m_req_id => InOnePlace(n)',
         \A id \in 1..m_req_id : id # n =>
           /\ Sender(id)' \subseteq Sender(id) /\ Sent(id)' \subseteq Sent(id) /\ Pending(id)' \subseteq Pending(id)
           /\ Done(id)' \subseteq Done(id) /\ Answered(id)' \subseteq Answered(id)
  PROVE  NumbersOnce'
<1>1. \A id \in 1..m_req_id : InOnePlace(id)'
  BY InOnePlaceReduced, ReducedFacts DEF NumbersOnce
<1> QED
  BY <1>1 DEF NumbersOnce

LEMMA BootOnce ==
  ASSUME Types, NumbersOnce, Boot, UNCHANGED <<master, seen>>
  PROVE  NumbersOnce'
<1>1. PICK m : m = [key |-> "READ", id |-> 0, buf |-> Magic, src |-> sPort + 1]
  OBVIOUS
<1>2. /\ m.id = 0 /\ toMaster' = BagAdd(toMaster, m) /\ IsABag(toMaster) /\ Once(toMaster)
      /\ UNCHANGED <<worker, toSlave, sQueue, sReply, m_req_id, m_list>>
  BY <1>1 DEF Boot, SendToMaster, Types, NetTypes, NumbersOnce, master
<1>3. /\ Once(BagAdd(toMaster, m))
      /\ \A id : id # 0 => {x \in DOMAIN BagAdd(toMaster, m) : x.id = id}
                             = {x \in DOMAIN toMaster : x.id = id} \cup {x \in {m} : x.id = id}
  BY <1>2, OnceAdded
<1>4. Once(toMaster)' /\ \A id \in 1..m_req_id : Answered(id)' = Answered(id)
  BY <1>2, <1>3 DEF Answered, Once
<1>5. /\ Once(toSlave)' /\ Once(sQueue)'
      /\ \A id : Sender(id)' = Sender(id) /\ Sent(id)' = Sent(id) /\ Pending(id)' = Pending(id) /\ Done(id)' = Done(id)
  BY <1>2, SameNumbers DEF NumbersOnce
<1> QED
  BY <1>2, <1>4, <1>5, OnceReduced

LEMMA ReceiveRequestOnce ==
  ASSUME Types, NumbersOnce, NEW m \in DOMAIN toSlave, ReceiveRequest(m), UNCHANGED <<master, seen>>
  PROVE  NumbersOnce'
<1>1. /\ toSlave' = BagRemove(toSlave, m) /\ UNCHANGED <<worker, toMaster, sReply, m_req_id, m_list>>
      /\ IsABag(toSlave) /\ IsABag(sQueue) /\ Once(toSlave) /\ Once(sQueue)
  BY DEF ReceiveRequest, RecvFromMaster, Types, NetTypes, SlaveTypes, NumbersOnce, master
<1>2. PICK k : k.id = m.id /\ sQueue' = BagAdd(sQueue, k)
  <2>1. ASSUME NEW buf, m.key = "WRITE", sQueue' = BagAdd(sQueue, [m EXCEPT !.buf = buf])
        PROVE  \E k : k.id = m.id /\ sQueue' = BagAdd(sQueue, k)
    <3>1. m \in Command
      BY <2>1 DEF Types, NetTypes, Order
    <3>2. [m EXCEPT !.buf = buf].id = m.id
      BY <3>1 DEF Command
    <3> QED
      BY <2>1, <3>2
  <2> QED
    BY <2>1 DEF ReceiveRequest
<1>3. m.id \in 0..m_req_id /\ m_req_id \in Nat
  BY NumbersKnown DEF Numbered
<1>4. m.id # 0 => /\ Sent(m.id) = {m} /\ Sender(m.id) = {} /\ Pending(m.id) = {} /\ Done(m.id) = {} /\ Answered(m.id) = {}
                  /\ \E e \in m_list : e.id = m.id
  <2>1. SUFFICES ASSUME NEW n \in 1..m_req_id, n = m.id
                 PROVE  /\ Sent(n) = {m} /\ Sender(n) = {} /\ Pending(n) = {} /\ Done(n) = {} /\ Answered(n) = {}
                        /\ \E e \in m_list : e.id = n
    BY <1>3
  <2>2. m \in Sent(n)
    BY <2>1 DEF Sent
  <2> QED
    BY <2>2, OnceFacts
<1>5. /\ Once(BagRemove(toSlave, m))
      /\ \A id : id # 0 => {x \in DOMAIN BagRemove(toSlave, m) : x.id = id} = {x \in DOMAIN toSlave : x.id = id} \ {m}
  BY <1>1, OnceRemoved
<1>6. /\ Once(BagAdd(sQueue, k))
      /\ \A id : id # 0 => {x \in DOMAIN BagAdd(sQueue, k) : x.id = id}
                             = {x \in DOMAIN sQueue : x.id = id} \cup {x \in {k} : x.id = id}
  <2>1. k.id # 0 => k \notin DOMAIN sQueue
    BY <1>2, <1>4 DEF Pending
  <2> QED
    BY SMTT(40), <1>1, <2>1, OnceAdded
<1>7. /\ Once(toSlave)' /\ \A id : id # 0 => Sent(id)' = Sent(id) \ {m}
      /\ Once(sQueue)' /\ \A id : id # 0 => Pending(id)' = Pending(id) \cup {x \in {k} : x.id = id}
  BY <1>1, <1>2, <1>5, <1>6 DEF Sent, Pending, Once
<1>8. /\ Once(toMaster)'
      /\ \A id : Sender(id)' = Sender(id) /\ Done(id)' = Done(id) /\ Answered(id)' = Answered(id)
  BY <1>1, SameNumbers DEF NumbersOnce
<1>9. PICK n : n = m.id
  OBVIOUS
<1>10. ASSUME n \in 1..m_req_id PROVE InOnePlace(n)'
  <2>1. Pending(n)' = {k} /\ Sent(n)' = {}
    BY <1>2, <1>3, <1>4, <1>7, <1>9, <1>10
  <2>2. Sender(n)' = {} /\ Done(n)' = {} /\ Answered(n)' = {} /\ \E e \in m_list' : e.id = n
    BY <1>1, <1>3, <1>4, <1>8, <1>9, <1>10
  <2> QED
    BY <2>1, <2>2 DEF InOnePlace, Alone
<1>11. \A id \in 1..m_req_id : id # n =>
         /\ Sender(id)' \subseteq Sender(id) /\ Sent(id)' \subseteq Sent(id) /\ Pending(id)' \subseteq Pending(id)
         /\ Done(id)' \subseteq Done(id) /\ Answered(id)' \subseteq Answered(id)
  BY <1>2, <1>7, <1>8, <1>9
<1> QED
  BY <1>1, <1>7, <1>8, <1>10, <1>11, SlaveStepOnce

LEMMA StorageStepOnce ==
  ASSUME Types, NumbersOnce, NEW k \in DOMAIN sQueue, Write(k) \/ Read(k), UNCHANGED master
  PROVE  NumbersOnce'
<1>1. /\ sQueue' = BagRemove(sQueue, k) /\ UNCHANGED <<worker, toSlave, toMaster, m_req_id, m_list>>
      /\ IsABag(sQueue) /\ Once(sQueue) /\ sReply = NoReply
  BY DEF Write, Read, Take, net, Types, SlaveTypes, NumbersOnce, master
<1>2. PICK n \in 1..m_req_id : n = k.id
  <2>1. k \in Command
    BY DEF Write, Read, Types, SlaveTypes, Order
  <2> QED
    BY <2>1 DEF Command
<1>3. PICK r : r.id = n /\ r # NoReply /\ sReply' = r
  <2>1. ASSUME NEW key, NEW buf, sReply' = [key |-> key, id |-> k.id, buf |-> buf, src |-> sPort], key \in IoOps
        PROVE  \E r : r.id = n /\ r # NoReply /\ sReply' = r
    <3> DEFINE r == [key |-> key, id |-> k.id, buf |-> buf, src |-> sPort]
    <3>1. r.id = n /\ r.key # "IGNORE"
      BY <1>2, <2>1 DEF IoOps
    <3>2. r # NoReply
      BY <3>1 DEF NoReply
    <3> QED
      BY <2>1, <3>1, <3>2
  <2> QED
    BY <2>1 DEF Write, Read, IoOps
<1>4. /\ Pending(n) = {k} /\ Sender(n) = {} /\ Sent(n) = {} /\ Done(n) = {} /\ Answered(n) = {}
      /\ \E e \in m_list : e.id = n
  <2>1. k \in Pending(n)
    BY <1>2 DEF Pending
  <2> QED
    BY <2>1, OnceFacts
<1>5. /\ Once(BagRemove(sQueue, k))
      /\ \A id : id # 0 => {x \in DOMAIN BagRemove(sQueue, k) : x.id = id} = {x \in DOMAIN sQueue : x.id = id} \ {k}
  BY <1>1, OnceRemoved
<1>6. /\ Once(sQueue)' /\ \A id : id # 0 => Pending(id)' = Pending(id) \ {k}
      /\ \A id : Done(id)' = {x \in {r} : x.id = id}
  BY <1>1, <1>3, <1>5 DEF Pending, Done, Once
<1>7. /\ Once(toSlave)' /\ Once(toMaster)'
      /\ \A id : Sender(id)' = Sender(id) /\ Sent(id)' = Sent(id) /\ Answered(id)' = Answered(id)
  BY <1>1, SameNumbers DEF NumbersOnce
<1>8. InOnePlace(n)'
  <2>1. Pending(n)' = {} /\ Done(n)' = {r}
    BY <1>2, <1>3, <1>4, <1>6
  <2>2. Sender(n)' = {} /\ Sent(n)' = {} /\ Answered(n)' = {} /\ \E e \in m_list' : e.id = n
    BY <1>1, <1>4, <1>7
  <2> QED
    BY <2>1, <2>2 DEF InOnePlace, Alone
<1>9. \A id \in 1..m_req_id : id # n =>
         /\ Sender(id)' \subseteq Sender(id) /\ Sent(id)' \subseteq Sent(id) /\ Pending(id)' \subseteq Pending(id)
         /\ Done(id)' \subseteq Done(id) /\ Answered(id)' \subseteq Answered(id)
  BY <1>3, <1>6, <1>7
<1> QED
  BY <1>1, <1>6, <1>7, <1>8, <1>9, SlaveStepOnce

LEMMA SlaveSendReplyOnce ==
  ASSUME Types, NumbersOnce, SlaveSendReply, UNCHANGED <<master, seen>>
  PROVE  NumbersOnce'
<1>1. /\ sReply # NoReply /\ sReply' = NoReply /\ UNCHANGED <<worker, sQueue, m_req_id, m_list>>
      /\ IsABag(toMaster) /\ Once(toMaster)
  BY DEF SlaveSendReply, Types, NetTypes, NumbersOnce, master
<1>2. PICK n \in 1..m_req_id : n = sReply.id
  BY <1>1 DEF Types, SlaveTypes, Answer
<1>3. /\ Done(n) = {sReply} /\ Sender(n) = {} /\ Sent(n) = {} /\ Pending(n) = {} /\ Answered(n) = {}
      /\ \E e \in m_list : e.id = n
  <2>1. sReply \in Done(n)
    BY <1>1, <1>2 DEF Done
  <2> QED
    BY <2>1, OnceFacts
<1>4. \A id : Done(id)' = {}
  BY <1>1 DEF Done
<1>5. /\ Once(sQueue)' /\ \A id : Sender(id)' = Sender(id) /\ Pending(id)' = Pending(id)
  BY <1>1, SameNumbers DEF NumbersOnce
<1>6. CASE UNCHANGED net
  <2>1. /\ Once(toSlave)' /\ Once(toMaster)' /\ \A id : Sent(id)' = Sent(id) /\ Answered(id)' = Answered(id)
    BY <1>6, SameNumbers DEF NumbersOnce, net
  <2> QED
    BY <1>1, <1>4, <1>5, <2>1, OnceReduced
<1>7. CASE SendToMaster(sReply)
  <2>1. PICK r : r = sReply
    OBVIOUS
  <2>2. toMaster' = BagAdd(toMaster, r) /\ UNCHANGED toSlave
    BY <1>7, <2>1 DEF SendToMaster
  <2>3. /\ Once(BagAdd(toMaster, r))
        /\ \A id : id # 0 => {x \in DOMAIN BagAdd(toMaster, r) : x.id = id}
                               = {x \in DOMAIN toMaster : x.id = id} \cup {x \in {r} : x.id = id}
    <3>1. r \notin DOMAIN toMaster
      BY <1>2, <1>3, <2>1 DEF Answered
    <3> QED
      BY <1>1, <3>1, OnceAdded
  <2>4. Once(toMaster)' /\ \A id \in 1..m_req_id : Answered(id)' = Answered(id) \cup {x \in {r} : x.id = id}
    BY <2>2, <2>3 DEF Answered, Once
  <2>5. /\ Once(toSlave)' /\ \A id : Sent(id)' = Sent(id)
    BY <2>2, SameNumbers DEF NumbersOnce
  <2>6. InOnePlace(n)'
    <3>1. Answered(n)' = {r} /\ Sender(n)' = {} /\ Sent(n)' = {} /\ Pending(n)' = {} /\ Done(n)' = {}
      BY <1>2, <1>3, <1>4, <1>5, <2>1, <2>4, <2>5
    <3> QED
      BY <1>1, <1>3, <3>1 DEF InOnePlace, Alone
  <2>7. \A id \in 1..m_req_id : id # n =>
           /\ Sender(id)' \subseteq Sender(id) /\ Sent(id)' \subseteq Sent(id) /\ Pending(id)' \subseteq Pending(id)
           /\ Done(id)' \subseteq Done(id) /\ Answered(id)' \subseteq Answered(id)
    BY <1>2, <1>4, <1>5, <2>1, <2>4, <2>5
  <2> QED
    BY <1>1, <1>5, <2>4, <2>5, <2>6, <2>7, SlaveStepOnce
<1> QED
  BY <1>6, <1>7 DEF SlaveSendReply

LEMMA SlaveQueueOnce ==
  ASSUME Types, NumbersOnce, UNCHANGED <<master, net>>, sReply' \in {sReply, NoReply},
         sQueue' = EmptyBag \/ \E k \in DOMAIN sQueue : sQueue' = BagRemove(sQueue, k)
  PROVE  NumbersOnce'
<1>1. /\ Once(sQueue)' /\ \A id \in 1..m_req_id : Pending(id)' \subseteq Pending(id)
  <2>1. CASE sQueue' = EmptyBag
    BY <2>1, EmptyBagFacts DEF Once, Pending
  <2>2. ASSUME NEW k \in DOMAIN sQueue, sQueue' = BagRemove(sQueue, k)
        PROVE  /\ Once(sQueue)' /\ \A id \in 1..m_req_id : Pending(id)' \subseteq Pending(id)
    <3>1. IsABag(sQueue) /\ Once(sQueue)
      BY DEF Types, SlaveTypes, NumbersOnce
    <3>2. /\ Once(BagRemove(sQueue, k))
          /\ \A id : id # 0 => {x \in DOMAIN BagRemove(sQueue, k) : x.id = id} = {x \in DOMAIN sQueue : x.id = id} \ {k}
      BY <3>1, OnceRemoved
    <3> QED
      BY <2>2, <3>2 DEF Once, Pending
  <2> QED
    BY <2>1, <2>2
<1>2. \A id : Done(id)' \subseteq Done(id)
  BY DEF Done
<1>3. /\ Once(toSlave)' /\ Once(toMaster)' /\ UNCHANGED <<m_req_id, m_list>>
      /\ \A id : Sender(id)' = Sender(id) /\ Sent(id)' = Sent(id) /\ Answered(id)' = Answered(id)
  BY SameNumbers DEF NumbersOnce, net, master
<1> QED
  BY <1>1, <1>2, <1>3, OnceReduced

\* The network loses a datagram, or the master receives the hello.
LEMMA LoseOnce ==
  ASSUME Types, NumbersOnce, UNCHANGED <<slave, worker, table>>,
         \/ toSlave' = toSlave
         \/ \E m \in DOMAIN toSlave : toSlave' = BagRemove(toSlave, m),
         \/ toMaster' = toMaster
         \/ \E m \in DOMAIN toMaster : toMaster' = BagRemove(toMaster, m)
  PROVE  NumbersOnce'
<1>1. ASSUME NEW B, IsABag(B), Once(B), NEW m \in DOMAIN B
      PROVE  /\ Once(BagRemove(B, m))
             /\ \A id : id # 0 => {x \in DOMAIN BagRemove(B, m) : x.id = id} \subseteq {x \in DOMAIN B : x.id = id}
  BY <1>1, OnceRemoved
<1>2. /\ IsABag(toSlave) /\ Once(toSlave) /\ IsABag(toMaster) /\ Once(toMaster)
  BY DEF Types, NetTypes, NumbersOnce
<1>3. Once(toSlave)' /\ \A id \in 1..m_req_id : Sent(id)' \subseteq Sent(id)
  <2>1. CASE toSlave' = toSlave
    BY <1>2, <2>1 DEF Once, Sent
  <2>2. ASSUME NEW m \in DOMAIN toSlave, toSlave' = BagRemove(toSlave, m)
        PROVE  Once(toSlave)' /\ \A id \in 1..m_req_id : Sent(id)' \subseteq Sent(id)
    <3>1. /\ Once(BagRemove(toSlave, m))
          /\ \A id : id # 0 => {x \in DOMAIN BagRemove(toSlave, m) : x.id = id} \subseteq {x \in DOMAIN toSlave : x.id = id}
      BY <1>1, <1>2
    <3> QED
      BY <2>2, <3>1 DEF Sent, Once
  <2> QED
    BY <2>1, <2>2
<1>4. Once(toMaster)' /\ \A id \in 1..m_req_id : Answered(id)' \subseteq Answered(id)
  <2>1. CASE toMaster' = toMaster
    BY <1>2, <2>1, SameNumbers
  <2>2. ASSUME NEW m \in DOMAIN toMaster, toMaster' = BagRemove(toMaster, m)
        PROVE  Once(toMaster)' /\ \A id \in 1..m_req_id : Answered(id)' \subseteq Answered(id)
    <3>1. /\ Once(BagRemove(toMaster, m))
          /\ \A id : id # 0 => {x \in DOMAIN BagRemove(toMaster, m) : x.id = id} \subseteq {x \in DOMAIN toMaster : x.id = id}
      BY <1>1, <1>2
    <3> QED
      BY <2>2, <3>1 DEF Answered, Once
  <2> QED
    BY <2>1, <2>2
<1>5. /\ Once(sQueue)' /\ UNCHANGED <<m_req_id, m_list>>
      /\ \A id : Sender(id)' = Sender(id) /\ Pending(id)' = Pending(id) /\ Done(id)' = Done(id)
  BY SameNumbers DEF NumbersOnce, slave, table
<1> QED
  BY <1>3, <1>4, <1>5, OnceReduced

\* A step of the master that moves no number.
LEMMA QuietOnce ==
  ASSUME NumbersOnce, UNCHANGED <<slave, table, toMaster>>,
         \A t \in Worker : worker'[t] = worker[t] \/ (worker[t].at # "send" /\ worker'[t].at # "send"),
         toSlave' = toSlave \/ \E m : m.id = 0 /\ IsABag(toSlave) /\ toSlave' = BagAdd(toSlave, m)
  PROVE  NumbersOnce'
<1>1. Once(toSlave)' /\ \A id \in 1..m_req_id : Sent(id)' \subseteq Sent(id)
  <2>1. ASSUME NEW m, m.id = 0, IsABag(toSlave), toSlave' = BagAdd(toSlave, m)
        PROVE  Once(toSlave)' /\ \A id \in 1..m_req_id : Sent(id)' \subseteq Sent(id)
    <3>1. Once(toSlave)
      BY DEF NumbersOnce
    <3>2. /\ Once(BagAdd(toSlave, m))
          /\ \A id : id # 0 => {x \in DOMAIN BagAdd(toSlave, m) : x.id = id}
                                 = {x \in DOMAIN toSlave : x.id = id} \cup {x \in {m} : x.id = id}
      BY <2>1, <3>1, OnceAdded
    <3> QED
      BY <2>1, <3>2 DEF Once, Sent
  <2>2. CASE toSlave' = toSlave
    BY <2>2, SameNumbers DEF NumbersOnce
  <2> QED
    BY <2>1, <2>2
<1>2. /\ Once(sQueue)' /\ Once(toMaster)' /\ UNCHANGED <<m_req_id, m_list>>
      /\ \A id : Sender(id)' = Sender(id) /\ Pending(id)' = Pending(id) /\ Done(id)' = Done(id) /\ Answered(id)' = Answered(id)
  BY SameNumbers DEF NumbersOnce, slave, table
<1> QED
  BY <1>1, <1>2, OnceReduced

LEMMA OtherOnce ==
  ASSUME Types, NumbersOnce, NEW t \in Worker, UNCHANGED <<slave, seen>>,
         \/ (\E k \in DOMAIN mQueue : Pop(t, k)) \/ StorageDisconnect(t) \/ DriverDisconnect(t)
         \/ SendReply(t) \/ SendReplyData(t) \/ WriteAllThrows(t) \/ TakeStop(t)
  PROVE  NumbersOnce'
<1>1. \A u \in Worker : worker'[u] = worker[u] \/ (worker[u].at # "send" /\ worker'[u].at # "send")
  <2>1. CASE \E k \in DOMAIN mQueue : Pop(t, k)
    BY <2>1 DEF Pop, Types, MasterTypes
  <2>2. CASE WriteAllThrows(t)
    BY <2>2 DEF WriteAllThrows, pool
  <2>3. CASE StorageDisconnect(t) \/ DriverDisconnect(t) \/ SendReply(t) \/ SendReplyData(t) \/ TakeStop(t)
    <3>1. PICK w : worker' = [worker EXCEPT ![t] = w] /\ w.at \notin {"run", "send"}
      <4>1. BackToPool(t) \/ \E l \in {"data", "close", "joined"} : Goto(t, l)
        BY <2>3 DEF StorageDisconnect, DriverDisconnect, SendReply, SendReplyData, TakeStop
      <4> QED
        BY <4>1, LeavesRun
    <3>2. worker[t].at # "send"
      BY <2>3 DEF StorageDisconnect, DriverDisconnect, SendReply, SendReplyData, TakeStop
    <3> QED
      BY <3>1, <3>2 DEF Types, MasterTypes
  <2> QED
    BY <2>1, <2>2, <2>3
<1>2. UNCHANGED <<table, toMaster>>
  BY DEF Pop, StorageDisconnect, DriverDisconnect, SendReply, SendReplyData, WriteAllThrows, TakeStop, SendToSlave, net
<1>3. toSlave' = toSlave \/ \E m : m.id = 0 /\ IsABag(toSlave) /\ toSlave' = BagAdd(toSlave, m)
  <2>1. CASE StorageDisconnect(t)
    <3>1. PICK m : m = [key |-> "DISCONNECT", id |-> 0, dst |-> m_cliaddr]
      OBVIOUS
    <3>2. m.id = 0 /\ toSlave' = BagAdd(toSlave, m) /\ IsABag(toSlave)
      BY <2>1, <3>1 DEF StorageDisconnect, SendToSlave, Types, NetTypes
    <3> QED
      BY <3>2
  <2> QED
    BY <2>1 DEF Pop, DriverDisconnect, SendReply, SendReplyData, WriteAllThrows, TakeStop, net
<1> QED
  BY <1>1, <1>2, <1>3, QuietOnce

\* The number of duplicates only grows.
LEMMA DupsGrow ==
  ASSUME Types, [Next]_vars
  PROVE  dups' = dups \/ (Duplicate /\ dups' = dups + 1)
<1>1. CASE MainStep
  BY <1>1 DEF MainStep, MainThread, SlaveHello, SlaveRead, RecvFromSlave, NbdRead, NbdReadEof, Return, net
<1>2. ASSUME NEW t \in Worker, PoolStep(t) PROVE dups' = dups
  BY <1>2 DEF PoolStep, PoolThread, Pop, HandlerToId, StorageSend, StorageDisconnect, SendToSlave, DriverDisconnect,
              SendReply, SendReplyData, WriteAllThrows, TakeStop, net
<1>3. CASE EnvironmentStep
  BY <1>3 DEF EnvironmentStep, Environment, StdinRead, Signal, SetNbdFails, SendFails, net
<1>4. CASE SlaveStep
  BY <1>4 DEF SlaveStep, Boot, SendToMaster, ReceiveRequest, RecvFromMaster, StorageStep, Write, Read,
              SlaveSendReply, SlaveDisconnect, SlaveStop, net
<1>5. CASE CrashStep \/ KernelStep \/ UNCHANGED vars \/ UNCHANGED net
  BY <1>5 DEF CrashStep, Crash, KernelStep, vars, net
<1>6. CASE Fault
  BY <1>6 DEF Fault, Lose, Duplicate
<1> QED
  BY <1>1, <1>2, <1>3, <1>4, <1>5, <1>6 DEF Next

LEMMA NextOnce ==
  ASSUME Types, NumberInv, [Next]_vars
  PROVE  NumberInv'
<1> SUFFICES ASSUME dups' = 0 PROVE NumbersOnce'
  BY DEF NumberInv
<1>1. dups = 0 /\ dups' = dups /\ ~Duplicate
  BY DupsGrow DEF Types, NetTypes, Duplicate
<1>2. NumbersOnce
  BY <1>1 DEF NumberInv
<1>3. ASSUME MainStep PROVE NumbersOnce'
  <2>1. ASSUME NEW m \in DOMAIN toMaster, SlaveHello(m) PROVE NumbersOnce'
    BY <1>2, <1>3, <2>1, LoseOnce DEF MainStep, SlaveHello, RecvFromSlave, pool
  <2>2. CASE NbdRead \/ NbdReadEof \/ Return
    BY <1>2, <1>3, <2>2, QuietOnce DEF MainStep, NbdRead, NbdReadEof, Return, pool, net
  <2> QED
    BY <1>2, <1>3, <2>1, <2>2, SlaveReadOnce DEF MainStep, MainThread
<1>4. ASSUME NEW t \in Worker, PoolStep(t) PROVE NumbersOnce'
  BY <1>2, <1>4, HandlerToIdOnce, StorageSendOnce, OtherOnce DEF PoolStep, PoolThread
<1>5. ASSUME EnvironmentStep PROVE NumbersOnce'
  BY <1>2, <1>5, QuietOnce DEF EnvironmentStep, Environment, StdinRead, Signal, SetNbdFails, SendFails, pool, net
<1>6. ASSUME SlaveStep, UNCHANGED <<nbd, master>> PROVE NumbersOnce'
  <2>1. ASSUME NEW k \in DOMAIN sQueue, SlaveDisconnect(k) PROVE NumbersOnce'
    BY <1>2, <1>6, <2>1, SlaveQueueOnce DEF SlaveDisconnect, Take
  <2>2. CASE SlaveStop
    BY <1>2, <1>6, <2>2, SlaveQueueOnce DEF SlaveStop
  <2> QED
    BY <1>2, <1>6, <2>1, <2>2, BootOnce, ReceiveRequestOnce, StorageStepOnce, SlaveSendReplyOnce
       DEF SlaveStep, StorageStep
<1>7. ASSUME CrashStep, UNCHANGED <<nbd, master>> PROVE NumbersOnce'
  BY <1>2, <1>7, SlaveQueueOnce DEF CrashStep, Crash
<1>8. ASSUME Fault, UNCHANGED <<nbd, master, slave, seen>> PROVE NumbersOnce'
  BY <1>1, <1>2, <1>8, LoseOnce DEF Fault, Lose, master, table
<1>9. ASSUME UNCHANGED <<master, net, slave>> PROVE NumbersOnce'
  BY <1>2, <1>9, QuietOnce DEF master, net, table
<1> QED
  BY <1>3, <1>4, <1>5, <1>6, <1>7, <1>8, <1>9 DEF Next, KernelStep, vars

LEMMA InitOnce == Init => NumberInv
<1> SUFFICES ASSUME Init PROVE NumbersOnce
  BY DEF NumberInv
<1>1. /\ DOMAIN toSlave = {} /\ DOMAIN sQueue = {} /\ DOMAIN toMaster = {} /\ m_req_id = 0
  BY EmptyBagFacts DEF Init, NetInit, MasterInit, SlaveInit
<1> QED
  BY <1>1 DEF NumbersOnce, Once

-----------------------------------------------------------------------------
(* Before the handshake nothing but hellos is on its way.                  *)

LEMMA HelloKept ==
  ASSUME Types, HelloInv, UNCHANGED sPort, dups' \in Nat, dups' >= dups,
         mStt' \in {mStt, "nbd_failed"} \/ (~Unmet /\ mStt' \notin {"HELLO", "unknown_id"}),
         mStt = "HELLO" => UNCHANGED <<mQueue, worker, table, toSlave, sReply>> /\ DOMAIN sQueue' = {},
         sPort = 0 /\ DOMAIN toMaster = {} => DOMAIN toMaster' = {},
         dups' = 0 => \A m \in DOMAIN toMaster' :
                        m.id = 0 => m \in DOMAIN toMaster /\ (toMaster[m] = 1 => toMaster'[m] = 1)
  PROVE  HelloInv'
<1>1. dups \in Nat /\ sPort \in Nat
  BY DEF Types, NetTypes, SlaveTypes
<1>2. mStt' = "HELLO" => mStt = "HELLO"
  OBVIOUS
<1>3. ASSUME mStt' = "HELLO"
      PROVE  /\ m_list' = {} /\ DOMAIN mQueue' = {} /\ m_req_id' = 0
             /\ \A t \in Worker : worker'[t].at = "idle"
             /\ DOMAIN toSlave' = {} /\ DOMAIN sQueue' = {} /\ sReply' = NoReply
  <2>1. mStt = "HELLO"
    BY <1>2, <1>3
  <2> QED
    BY <2>1 DEF HelloInv, table
<1>4. sPort' = 0 => Unmet' /\ DOMAIN toMaster' = {}
  BY DEF HelloInv, Unmet
<1>5. dups' = 0 /\ sPort' = 1 => \A m \in DOMAIN toMaster' : m.id = 0 => Unmet' /\ toMaster'[m] = 1
  BY <1>1 DEF HelloInv, Unmet
<1>6. mStt' = "unknown_id" => dups' > 0 \/ sPort' > 1
  BY <1>1 DEF HelloInv
<1> QED
  BY <1>3, <1>4, <1>5, <1>6 DEF HelloInv

\* A step of the kernel, of a thread of the master or of the environment but for the
\* main thread's reads from the slave.
LEMMA MasterHello ==
  ASSUME Types, HelloInv, UNCHANGED <<slave, toMaster, dups>>,
         mStt' \in {mStt, "nbd_failed"} \/ (~Unmet /\ mStt' \notin {"HELLO", "unknown_id"}),
         mStt = "HELLO" => UNCHANGED <<mQueue, worker, table, toSlave>>
  PROVE  HelloInv'
<1>1. dups \in Nat /\ UNCHANGED <<sPort, sReply, sQueue>>
  BY DEF Types, NetTypes, slave
<1>2. mStt = "HELLO" => DOMAIN sQueue = {}
  BY DEF HelloInv
<1> QED
  BY <1>1, <1>2, HelloKept

LEMMA HelloFacts ==
  ASSUME Types, HelloInv, mStt = "HELLO"
  PROVE  /\ m_list = {} /\ DOMAIN mQueue = {} /\ m_req_id = 0 /\ \A t \in Worker : worker[t].at = "idle"
         /\ DOMAIN toSlave = {} /\ DOMAIN sQueue = {} /\ sReply = NoReply
         /\ \A m \in DOMAIN toMaster : m \in Hello
BY DEF HelloInv, Types, NetTypes, Answer

LEMMA SlaveHelloHello ==
  ASSUME Types, HelloInv, NEW m \in DOMAIN toMaster, SlaveHello(m), UNCHANGED <<slave, seen>>
  PROVE  HelloInv'
<1>1. /\ mStt = "HELLO" /\ mStt' = "RUN" /\ toMaster' = BagRemove(toMaster, m) /\ IsABag(toMaster)
      /\ UNCHANGED <<sPort, dups>> /\ sPort \in Nat
  BY DEF SlaveHello, RecvFromSlave, Types, NetTypes, SlaveTypes, slave
<1>2. m \in Hello
  BY <1>1, HelloFacts
<1>3. sPort # 0
  BY DEF HelloInv
<1>4. ASSUME dups = 0, sPort = 1 PROVE DOMAIN toMaster' = {}
  <2>1. ASSUME NEW x \in DOMAIN toMaster PROVE x = m
    <3>1. x \in Hello /\ 1..sPort = {1}
      BY <1>1, <1>4, HelloFacts
    <3> QED
      BY <1>2, <3>1 DEF Hello
  <2>2. toMaster[m] = 1
    BY <1>2, <1>4 DEF HelloInv, Hello
  <2>3. DOMAIN BagRemove(toMaster, m) = DOMAIN toMaster \ {m}
    BY <1>1, <2>2, BagRemoveFacts
  <2> QED
    BY <1>1, <2>1, <2>3
<1> QED
  BY <1>1, <1>3, <1>4 DEF HelloInv

\* The number of an answer is in the list, unless there was a duplicate or a restart.
LEMMA SlaveReadHello ==
  ASSUME Types, NumberInv, HelloInv, NEW m \in DOMAIN toMaster, SlaveRead(m), UNCHANGED <<slave, seen>>
  PROVE  HelloInv'
<1>1. /\ mStt = "RUN" /\ mStt' \in {"RUN", "unknown_id"} /\ toMaster' = BagRemove(toMaster, m) /\ IsABag(toMaster)
      /\ UNCHANGED <<sPort, dups>> /\ sPort \in Nat /\ dups \in Nat
  BY DEF SlaveRead, RecvFromSlave, End, Types, NetTypes, SlaveTypes, slave
<1>2. sPort # 0
  BY <1>1 DEF HelloInv, Unmet
<1>3. ASSUME dups = 0, sPort = 1 PROVE mStt' # "unknown_id" /\ \A x \in DOMAIN toMaster' : x.id # 0
  <2>1. \A x \in DOMAIN toMaster : x.id # 0
    BY <1>1, <1>3 DEF HelloInv, Unmet
  <2>2. PICK n \in 1..m_req_id : n = m.id
    <3>1. m \in Answer
      BY <2>1 DEF Types, NetTypes, Hello
    <3> QED
      BY <3>1 DEF Answer
  <2>3. \E e \in m_list : e.id = n
    <3>1. m \in Answered(n) /\ NumbersOnce
      BY <1>3, <2>2 DEF Answered, NumberInv
    <3> QED
      BY <3>1, OnceFacts
  <2>4. mStt' = mStt
    BY <2>2, <2>3 DEF SlaveRead
  <2>5. DOMAIN BagRemove(toMaster, m) \subseteq DOMAIN toMaster
    BY <1>1, BagRemoveFacts
  <2> QED
    BY <1>1, <2>1, <2>4, <2>5
<1> QED
  BY <1>1, <1>2, <1>3 DEF HelloInv

LEMMA BootHello ==
  ASSUME Types, HelloInv, Boot, UNCHANGED master
  PROVE  HelloInv'
<1>1. PICK m : m = [key |-> "READ", id |-> 0, buf |-> Magic, src |-> sPort + 1]
  OBVIOUS
<1>2. /\ toMaster' = BagAdd(toMaster, m) /\ IsABag(toMaster) /\ sPort' = sPort + 1 /\ sPort \in Nat /\ dups \in Nat
      /\ UNCHANGED <<mStt, m_list, mQueue, m_req_id, worker, toSlave, sQueue, sReply, dups>>
  BY <1>1 DEF Boot, SendToMaster, Types, NetTypes, SlaveTypes, master
<1>3. ASSUME sPort = 0
      PROVE  Unmet /\ \A x \in DOMAIN toMaster' : toMaster'[x] = 1
  <2>1. Unmet /\ DOMAIN toMaster = {}
    BY <1>3 DEF HelloInv
  <2>2. DOMAIN BagAdd(toMaster, m) = {m} /\ BagAdd(toMaster, m)[m] = 1
    <3>1. /\ DOMAIN BagAdd(toMaster, m) = DOMAIN toMaster \cup {m}
          /\ m \notin DOMAIN toMaster => BagAdd(toMaster, m)[m] = 1
      BY <1>2, BagAddFacts
    <3> QED
      BY <2>1, <3>1
  <2> QED
    BY <1>2, <2>1, <2>2
<1>4. sPort' # 0 /\ (sPort' = 1 => sPort = 0)
  BY <1>2
<1>5. mStt' = "unknown_id" => dups' > 0 \/ sPort' > 1
  BY <1>2 DEF HelloInv
<1> QED
  BY <1>2, <1>3, <1>4, <1>5 DEF HelloInv, Unmet

LEMMA SlaveStepHello ==
  ASSUME Types, HelloInv, SlaveStep, UNCHANGED <<nbd, master>>
  PROVE  HelloInv'
<1>1. CASE Boot
  BY <1>1, BootHello DEF SlaveStep
<1>2. ASSUME NEW r \in Answer, toMaster' = BagAdd(toMaster, r), mStt # "HELLO", sPort # 0, UNCHANGED <<sPort, dups>>
      PROVE  HelloInv'
  <2>1. /\ IsABag(toMaster) /\ dups \in Nat /\ r.id # 0 /\ UNCHANGED mStt
    BY DEF Types, NetTypes, Answer, master
  <2>2. /\ DOMAIN BagAdd(toMaster, r) = DOMAIN toMaster \cup {r}
        /\ \A y \in DOMAIN toMaster : y # r => BagAdd(toMaster, r)[y] = toMaster[y]
    BY <2>1, BagAddFacts
  <2>3. \A m \in DOMAIN toMaster' : m.id = 0 => m \in DOMAIN toMaster /\ (toMaster[m] = 1 => toMaster'[m] = 1)
    BY <1>2, <2>1, <2>2
  <2> QED
    BY <1>2, <2>1, <2>3, HelloKept
<1>3. ASSUME mStt # "HELLO", UNCHANGED <<toMaster, sPort, dups>> PROVE HelloInv'
  BY <1>3, HelloKept DEF master, Types, NetTypes
<1>4. ASSUME SlaveStop PROVE HelloInv'
  BY <1>4, HelloKept, EmptyBagFacts DEF SlaveStop, net, master, table, Types, NetTypes
<1>5. ASSUME SlaveSendReply PROVE HelloInv'
  <2>1. mStt # "HELLO" /\ sReply \in Answer /\ sPort # 0 /\ UNCHANGED sPort
    BY <1>5 DEF SlaveSendReply, HelloInv, Types, SlaveTypes, Answer
  <2>2. PICK r \in Answer : r = sReply
    BY <2>1
  <2>3. CASE SendToMaster(sReply)
    BY <1>2, <2>1, <2>2, <2>3 DEF SendToMaster
  <2>4. CASE UNCHANGED net
    BY <1>3, <2>1, <2>4 DEF net
  <2> QED
    BY <1>5, <2>3, <2>4 DEF SlaveSendReply
<1>6. ASSUME NEW m \in DOMAIN toSlave, ReceiveRequest(m) PROVE HelloInv'
  BY <1>3, <1>6 DEF ReceiveRequest, RecvFromMaster, HelloInv
<1>7. ASSUME NEW k \in DOMAIN sQueue, Write(k) \/ Read(k) \/ SlaveDisconnect(k) PROVE HelloInv'
  BY <1>3, <1>7 DEF Write, Read, SlaveDisconnect, HelloInv, net
<1> QED
  BY <1>1, <1>4, <1>5, <1>6, <1>7 DEF SlaveStep, StorageStep

LEMMA FaultHello ==
  ASSUME Types, HelloInv, Fault, UNCHANGED <<master, slave, seen>>
  PROVE  HelloInv'
<1>1. /\ IsABag(toMaster) /\ dups \in Nat /\ UNCHANGED <<mStt, mQueue, worker, table, sPort, sQueue, sReply>>
  BY DEF Types, NetTypes, master, slave, table
<1>2. mStt = "HELLO" => DOMAIN toSlave = {} /\ DOMAIN sQueue = {}
  BY DEF HelloInv
<1>3. CASE Duplicate
  <2>1. dups' = dups + 1 /\ (mStt = "HELLO" => UNCHANGED toSlave)
    BY <1>2, <1>3 DEF Duplicate
  <2>2. DOMAIN toMaster = {} => DOMAIN toMaster' = {}
    BY <1>3 DEF Duplicate
  <2>3. dups' \in Nat /\ dups' >= dups /\ dups' # 0
    BY <1>1, <2>1
  <2> QED
    BY <1>1, <1>2, <2>1, <2>2, <2>3, HelloKept
<1>4. CASE Lose
  <2>1. dups' = dups /\ (mStt = "HELLO" => UNCHANGED toSlave)
    BY <1>2, <1>4 DEF Lose
  <2>2. DOMAIN toMaster = {} => DOMAIN toMaster' = {}
    BY <1>4 DEF Lose
  <2>3. \A m \in DOMAIN toMaster' : m \in DOMAIN toMaster /\ (toMaster[m] = 1 => toMaster'[m] = 1)
    <3>1. ASSUME NEW x \in DOMAIN toMaster, toMaster' = BagRemove(toMaster, x), NEW m \in DOMAIN toMaster'
          PROVE  m \in DOMAIN toMaster /\ (toMaster[m] = 1 => toMaster'[m] = 1)
      <4>1. /\ DOMAIN BagRemove(toMaster, x) \subseteq DOMAIN toMaster
            /\ \A y \in DOMAIN BagRemove(toMaster, x) : y # x => BagRemove(toMaster, x)[y] = toMaster[y]
            /\ toMaster[x] = 1 => DOMAIN BagRemove(toMaster, x) = DOMAIN toMaster \ {x}
        BY <1>1, BagRemoveFacts
      <4> QED
        BY <3>1, <4>1
    <3> QED
      BY <1>4, <3>1 DEF Lose
  <2> QED
    BY <1>1, <1>2, <2>1, <2>2, <2>3, HelloKept
<1> QED
  BY <1>3, <1>4 DEF Fault

LEMMA PoolHello ==
  ASSUME Types, HelloInv, NEW t \in Worker, PoolStep(t)
  PROVE  HelloInv'
<1>1. mStt # "HELLO" /\ ~Unmet
  BY DEF HelloInv, Unmet, Alive, Ended, PoolStep, PoolThread, Pop, HandlerToId, StorageSend, StorageDisconnect, DriverDisconnect,
         SendReply, SendReplyData, WriteAllThrows, TakeStop
<1>2. UNCHANGED <<slave, toMaster, dups>> /\ mStt' \in {mStt, "terminate"}
  BY DEF PoolStep, PoolThread, Pop, HandlerToId, StorageSend, StorageDisconnect, DriverDisconnect,
         SendReply, SendReplyData, WriteAllThrows, TakeStop, SendToSlave, End, net
<1> QED
  BY <1>1, <1>2, MasterHello

LEMMA NextHello ==
  ASSUME Types, NumberInv, HelloInv, [Next]_vars
  PROVE  HelloInv'
<1>1. ASSUME MainStep PROVE HelloInv'
  <2>1. CASE NbdRead \/ NbdReadEof \/ Return
    <3>1. /\ mStt # "HELLO" /\ ~Unmet /\ UNCHANGED <<slave, toMaster, dups>>
          /\ mStt' = mStt \/ mStt' \in {"STOP", "bad_magic", "returned"}
      BY <1>1, <2>1 DEF MainStep, NbdRead, NbdReadEof, Return, End, net, Unmet
    <3> QED
      BY <3>1, MasterHello
  <2> QED
    BY <1>1, <2>1, SlaveHelloHello, SlaveReadHello DEF MainStep, MainThread
<1>2. ASSUME EnvironmentStep PROVE HelloInv'
  <2>1. CASE SetNbdFails
    BY <1>2, <2>1, MasterHello DEF EnvironmentStep, SetNbdFails, End, pool, table, net
  <2>2. ASSUME StdinRead \/ Signal \/ \E t \in Worker : SendFails(t) PROVE HelloInv'
    <3>1. mStt # "HELLO" /\ ~Unmet
      BY <2>2 DEF StdinRead, Signal, SendFails, HelloInv, Unmet, Alive, Ended
    <3>2. UNCHANGED <<slave, toMaster, dups>> /\ mStt' \in {"STOP", "send_failed"}
      BY <1>2, <2>2 DEF EnvironmentStep, StdinRead, Signal, SendFails, End, net
    <3> QED
      BY <3>1, <3>2, MasterHello
  <2> QED
    BY <1>2, <2>1, <2>2 DEF EnvironmentStep, Environment
<1>3. ASSUME CrashStep, UNCHANGED <<nbd, master>> PROVE HelloInv'
  <2>1. /\ UNCHANGED <<mStt, mQueue, worker, table, toSlave, toMaster, dups, sPort>>
        /\ sReply' = NoReply /\ DOMAIN sQueue' = {} /\ dups \in Nat
    BY <1>3, EmptyBagFacts DEF CrashStep, Crash, net, master, table, Types, NetTypes
  <2>2. mStt = "HELLO" => sReply = NoReply
    BY DEF HelloInv
  <2> QED
    BY <2>1, <2>2, HelloKept
<1>4. ASSUME UNCHANGED <<master, net, slave>> PROVE HelloInv'
  BY <1>4, MasterHello DEF master, net, table
<1> QED
  BY <1>1, <1>2, <1>3, <1>4, PoolHello, SlaveStepHello, FaultHello DEF Next, KernelStep, vars

LEMMA InitHello == Init => HelloInv
BY EmptyBagFacts DEF Init, NetInit, MasterInit, SlaveInit, HelloInv, Unmet

\* CreateDataFromBuff() ends the process on a number that m_list does not know.  Whatever is
\* lost or reordered, and however many threads give out numbers, it meets one only when the
\* network duplicated a datagram or a slave was started again.
THEOREM UnknownIdNeedsFault == Spec => []UnknownIdMeansFault
<1>1. Init => Types /\ NumberInv /\ HelloInv
  BY InitTypes, InitOnce, InitHello
<1>2. Types /\ NumberInv /\ HelloInv /\ [Next]_vars => (Types /\ NumberInv /\ HelloInv)'
  BY NextTypes, NextOnce, NextHello
<1>3. HelloInv => UnknownIdMeansFault
  BY DEF HelloInv, UnknownIdMeansFault
<1> QED
  BY <1>1, <1>2, <1>3, PTL DEF Spec
=============================================================================
