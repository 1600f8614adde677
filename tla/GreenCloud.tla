----------------------------- MODULE GreenCloud -----------------------------
(***************************************************************************)
(* The running system: kernel, master, network and one slave               *)
(* ("num_of_slaves": 1 in master_config.json).                             *)
(***************************************************************************)
EXTENDS Master, Slave, FiniteSets

VARIABLE seen   \* history: per handle whether its request reached the storage

vars == <<nbd, master, net, slave, seen>>

Unseen == [done |-> FALSE, buf |-> Zeros]

Init ==
  /\ NbdInit /\ MasterInit /\ NetInit /\ SlaveInit
  /\ seen = [h \in Handle |-> Unseen]

\* The request with number id takes effect on the storage; a READ finds buf.
Record(id, buf) ==
  seen' = [h \in Handle |-> IF [id |-> id, h |-> h] \in m_list /\ ~seen[h].done
                            THEN [done |-> TRUE, buf |-> buf] ELSE seen[h]]

SubmitStep(h, r) == Submit(h, r) /\ seen' = [seen EXCEPT ![h] = Unseen]

KernelStep == Kernel /\ UNCHANGED <<master, net, slave, seen>>

MainStep == MainThread /\ UNCHANGED <<slave, seen>>

PoolStep(t) == PoolThread(t) /\ UNCHANGED <<slave, seen>>

EnvironmentStep == Environment /\ UNCHANGED <<slave, seen>>

StorageStep ==
  \E k \in DOMAIN sQueue :
    \/ Write(k) /\ Record(k.id, Zeros)
    \/ Read(k) /\ Record(k.id, storage[k.sec])

SlaveStep ==
  \/ Boot /\ UNCHANGED seen
  \/ \E m \in DOMAIN toSlave : ReceiveRequest(m) /\ UNCHANGED seen
  \/ StorageStep
  \/ SlaveSendReply /\ UNCHANGED seen
  \/ \E k \in DOMAIN sQueue : SlaveDisconnect(k) /\ UNCHANGED seen
  \/ SlaveStop /\ UNCHANGED seen

CrashStep == Crash /\ UNCHANGED seen

Fault == Lose \/ Duplicate

Next ==
  \/ \E h \in Handle, r \in Requests :
       SubmitStep(h, r) /\ UNCHANGED <<master, net, slave>>
  \/ KernelStep
  \/ MainStep
  \/ \E t \in Worker : PoolStep(t)
  \/ EnvironmentStep
  \/ SlaveStep /\ UNCHANGED <<nbd, master>>
  \/ CrashStep /\ UNCHANGED <<nbd, master>>
  \/ Fault /\ UNCHANGED <<nbd, master, slave, seen>>

Spec == Init /\ [][Next]_vars

\* The schedulers of both machines run every thread that can run, and the kernel
\* reads the replies it is sent.  Nothing makes anyone send a request or disconnect the
\* device, or the network lose a datagram.
FairSpec ==
  /\ Spec
  /\ WF_vars(KernelReads /\ UNCHANGED <<master, net, slave, seen>>)
  /\ WF_vars(MainStep)
  /\ \A t \in Worker : WF_vars(PoolStep(t))
  /\ WF_vars(SlaveStep /\ UNCHANGED <<nbd, master>>)

-----------------------------------------------------------------------------
(* Properties.                                                             *)

Datagrams == DOMAIN toSlave \cup DOMAIN toMaster

\* The values the variables take: in particular every number of m_list was given
\* out by HandlerToId(), never 0, and the master talks to a slave that was started.
TypeOK ==
  /\ \A h \in Handle : req[h] = Idle \/ [req[h] EXCEPT !.st = "sent"] \in Requests
  /\ ret \in [Handle -> [err : 0..1, buf : Payload]]
  /\ repSock \in Seq(Chunk)
  /\ conn \in {"up", "disc", "broken", "closed"}
  /\ mStt \in MainStatus
  /\ \A t \in Worker : worker[t].at \in Stage
  /\ m_mutex \in Worker \cup {None}
  /\ m_list \subseteq [id : 1..m_req_id, h : Handle]
  /\ m_cliaddr \in 0..sPort
  /\ IsABag(mQueue) /\ IsABag(sQueue) /\ IsABag(toSlave) /\ IsABag(toMaster)
  /\ storage \in [Sector -> Payload]
  /\ seen \in [Handle -> [done : BOOLEAN, buf : Payload]]

\* A task that is about request h, or about the reply to it.
OfRequest(k, h) == k.key \in AllOps \cup {"REPLAY"} /\ k.h = h

\* Where in the master a request of h, or the reply to it, may be.
Unread(h)   == {i \in DOMAIN reqSock : reqSock[i].op # "DISCONNECT" /\ reqSock[i].h = h}
Queued(h)   == {k \in DOMAIN mQueue : OfRequest(k, h)}
Executed(h) == {t \in Worker : worker[t].at = "run" /\ OfRequest(worker[t].task, h)}
Listed(h)   == {e \in m_list : e.h = h}
Replied(h)  == {i \in DOMAIN repSock : repSock[i].kind = "header" /\ repSock[i].h = h}

\* The places in the master that will each lead to one reply to h.
Carriers(h) ==
  ({"unread"} \X Unread(h))
    \cup ({"queued"} \X UNION {{k} \X (1..mQueue[k]) : k \in Queued(h)})
    \cup ({"executed"} \X Executed(h)) \cup ({"listed"} \X Listed(h)) \cup ({"replied"} \X Replied(h))

\* As long as the socket is open the master owes exactly one reply to each request
\* in flight and none to any other handle, whatever is lost, duplicated,
\* reordered or answered by a slave that was restarted.
OneReplyOwed ==
  SocketOpen =>
    \A h \in Handle : Cardinality(Carriers(h)) = IF req[h].st = "sent" THEN 1 ELSE 0

\* The numbers of HandlerToId() are not reused: a number in the list stands for
\* one request, and every datagram that carries it is about that request.
NumbersMatch ==
  \A e \in m_list :
    /\ \A f \in m_list : f.id = e.id => f = e
    /\ \A m \in Datagrams \cup DOMAIN sQueue :
         m.id = e.id => m.key = req[e.h].op

\* Run() never waits on a descriptor that Disconnect() closed: Stop() comes
\* before the task that disconnects.
RunsOnOpenDriver == mStt = "RUN" => conn # "closed"

\* CreateDataFromBuff() calls exit(1) on a number it does not know.  Only a
\* duplicated datagram or a restarted slave brings it to that.
UnknownIdMeansFault == mStt = "unknown_id" => dups > 0 \/ sPort > 1

\* m_status, "describe expected status", of a reply is what the driver sets for a
\* request it serves: 0.
StatusDescribes == \A h \in Handle : ret[h].err = 0

\* The abstract disk: its state is the kernel's requests and the slave's storage.
Disk == INSTANCE BlockDevice WITH
  Empty  <- Zeros,
  InitDisk <- InitStorage,
  disk   <- storage,
  state  <- [h \in Handle |-> req[h].st],
  op     <- [h \in Handle |-> req[h].op],
  arg    <- [h \in Handle |-> [sec |-> req[h].sec, buf |-> req[h].buf]],
  eff    <- seen,
  result <- ret

\* The system implements the disk.
IsDisk == Disk!BSpec

\* Every request is answered, as long as nothing is lost, unless the master stops.
RequestsAnswered ==
  \A h \in Handle : req[h].st = "sent" ~> req[h].st = "idle" \/ mStt \in {"STOP"} \cup Ended

\* Once Run() has returned the master ends, no thread waiting for m_mutex or
\* for another thread forever.
MasterEnds == mStt = "STOP" ~> mStt \in Ended
=============================================================================
