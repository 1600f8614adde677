------------------------------- MODULE Master -------------------------------
(***************************************************************************)
(* The master process (release/greencloud.0.5.cpp): the main thread in the *)
(* SlaveData handshake and in RequestEngine::Run(), and the pool threads   *)
(* executing the tasks of include/nbd_tasks.hpp and                        *)
(* include/stdin_tasks.hpp on CloudStorage and NBDDriverProxy.             *)
(*                                                                         *)
(* The pool is used as ThreadPool.tla shows it to behave: any queued task  *)
(* may be taken next (all RETasks have one priority), and a pool that is   *)
(* being stopped may leave tasks behind.                                   *)
(***************************************************************************)
EXTENDS Nbd, Network

CONSTANTS
  Worker,        \* the threads of the master's pool
  None,
  UninitStatus,  \* values an uninitialised DriverData::m_status may hold
  MayFail        \* a sendto() to a slave, or an ioctl() of the device, may fail

ASSUME MasterAssumption ==
  /\ None \notin Worker
  /\ UninitStatus \subseteq 0..1 /\ 0 \in UninitStatus
  /\ MayFail \in BOOLEAN

VARIABLES
  mStt,       \* where the main thread is, or how the process ended
  mQueue,     \* bag of RETasks in the thread pool
  worker,     \* per pool thread the task it executes and how far it is
  m_mutex,    \* holder of NBDDriverProxy::m_mutex
  m_req_id,   \* CloudStorage::m_req_id
  m_list,     \* CloudStorage::m_list, as a set of pairs
  m_cliaddr   \* SlaveData::m_cliaddr, the slave the master talks to

master == <<mStt, mQueue, worker, m_mutex, m_req_id, m_list, m_cliaddr>>
pool   == <<mQueue, worker>>
table  == <<m_req_id, m_list>>

Ended == {"returned",      \* main() returned
          "bad_magic",     \* exit(EXCEPTION) on an NBDBadMagic
          "unknown_id",    \* exit(1) in CreateDataFromBuff()
          "send_failed",   \* exit(1) in CloudStorage
          "nbd_failed",    \* exit(-1) in ThreadFuncSetNBD()
          "terminate"}     \* an exception left a pool thread

MainStatus == {"HELLO",    \* in SlaveData()'s recvfrom()
               "RUN",      \* in RequestEngine::Run()
               "STOP"}     \* behind it: the pool is being stopped
              \cup Ended

Stage == {"idle", "run", "send", "data", "close", "joined"}

NoTask == [key |-> "IGNORE"]

ReplyTo(h, op, buf, status) ==
  [key |-> "REPLAY", op |-> op, h |-> h, buf |-> buf, status |-> status]

MasterInit ==
  /\ mStt = "HELLO"
  /\ mQueue = EmptyBag
  /\ worker = [t \in Worker |-> [at |-> "idle", task |-> NoTask, id |-> 0]]
  /\ m_mutex = None
  /\ m_req_id = 0 /\ m_list = {} /\ m_cliaddr = 0

Alive == mStt \notin Ended

\* The process ends, and the kernel closes its sockets.
End(how) == mStt' = how /\ conn' = "closed"

-----------------------------------------------------------------------------
(* The main thread.                                                        *)

\* SlaveData(): the first datagram with MAGIC_STR names the slave.
SlaveHello(m) ==
  /\ mStt = "HELLO" /\ m.buf = Magic
  /\ RecvFromSlave(m)
  /\ m_cliaddr' = m.src
  /\ mStt' = "RUN"
  /\ UNCHANGED <<pool, m_mutex, table, nbd>>

\* Mutant: Read() leaves the engine running on NBD_CMD_DISC.
NbdReadKeepsRunning ==
  /\ mStt = "RUN" /\ reqSock # <<>>
  /\ LET r == Head(reqSock)
     IN mQueue' = BagAdd(mQueue, IF r.op = "DISCONNECT" THEN [key |-> "DISCONNECT"] ELSE
                   [key |-> r.op, op |-> r.op, h |-> r.h, sec |-> r.sec, buf |-> r.buf, status |-> 0])
  /\ reqSock' = Tail(reqSock)
  /\ UNCHANGED <<mStt, worker, m_mutex, table, m_cliaddr, net, req, ret, repSock, conn, submitted>>

\* DriverProxyGateWay::Read() with NBDDriverProxy::ReceiveRequest(), and Run()
\* adding the task the factory makes of it.
NbdRead ==
  /\ mStt = "RUN" /\ reqSock # <<>>
  /\ LET r == Head(reqSock)
     IN \/ /\ r.op = "DISCONNECT"
           /\ mQueue' = BagAdd(mQueue, [key |-> "DISCONNECT"])
           /\ mStt' = "STOP"
        \/ /\ r.op # "DISCONNECT"
           /\ mQueue' = BagAdd(mQueue, [key |-> r.op, op |-> r.op, h |-> r.h,
                                        sec |-> r.sec, buf |-> r.buf, status |-> 0])
           /\ mStt' = mStt
  /\ reqSock' = Tail(reqSock)
  /\ UNCHANGED <<worker, m_mutex, table, m_cliaddr, net, req, ret, repSock, conn, submitted>>

\* read() finds the end of the stream and leaves request.magic zero.
NbdReadEof ==
  /\ mStt = "RUN" /\ reqSock = <<>> /\ conn = "broken"
  /\ End("bad_magic")
  /\ UNCHANGED <<pool, m_mutex, table, m_cliaddr, net, req, ret, reqSock, repSock, submitted>>

\* Mutant: IdToHandler() leaves the entry in the list.
SlaveReadKeepsEntry(m) ==
  /\ mStt = "RUN"
  /\ RecvFromSlave(m)
  /\ \E e \in {f \in m_list : f.id = m.id}, status \in UninitStatus :
       \E buf \in IF m.key = "READ" THEN Strcpy(m.buf) ELSE {Zeros} :
         mQueue' = BagAdd(mQueue, ReplyTo(e.h, m.key, buf, status))
  /\ UNCHANGED <<mStt, conn, worker, m_mutex, m_req_id, m_list, m_cliaddr,
                 req, ret, reqSock, repSock, submitted>>

\* Mutant: IdToHandler() empties the list.
SlaveReadClearsList(m) ==
  /\ mStt = "RUN"
  /\ RecvFromSlave(m)
  /\ \/ \E e \in {f \in m_list : f.id = m.id}, status \in UninitStatus :
          \E buf \in IF m.key = "READ" THEN Strcpy(m.buf) ELSE {Zeros} :
            /\ m_list' = {}
            /\ mQueue' = BagAdd(mQueue, ReplyTo(e.h, m.key, buf, status))
            /\ UNCHANGED <<mStt, conn>>
     \/ /\ \A e \in m_list : e.id # m.id
        /\ End("unknown_id")
        /\ UNCHANGED <<m_list, mQueue>>
  /\ UNCHANGED <<worker, m_mutex, m_req_id, m_cliaddr, req, ret, reqSock, repSock, submitted>>

\* SlaveGateway::Read() with CreateDataFromBuff() and IdToHandler(), and Run()
\* adding an NBDReplay.  m_status of the new DriverData is never assigned.
SlaveRead(m) ==
  /\ mStt = "RUN"
  /\ RecvFromSlave(m)
  /\ \/ \E e \in {f \in m_list : f.id = m.id}, status \in UninitStatus :
          \E buf \in IF m.key = "READ" THEN Strcpy(m.buf) ELSE {Zeros} :
            /\ m_list' = m_list \ {e}
            /\ mQueue' = BagAdd(mQueue, ReplyTo(e.h, m.key, buf, status))
            /\ UNCHANGED <<mStt, conn>>
     \/ /\ \A e \in m_list : e.id # m.id
        /\ End("unknown_id")
        /\ UNCHANGED <<m_list, mQueue>>
  /\ UNCHANGED <<worker, m_mutex, m_req_id, m_cliaddr, req, ret, reqSock, repSock, submitted>>

\* StdinGateWay::Read() of a line that starts with q.
StdinRead ==
  /\ MayQuit /\ mStt = "RUN"
  /\ mQueue' = BagAdd(mQueue, [key |-> "Q_EXIT"])
  /\ mStt' = "STOP"
  /\ UNCHANGED <<worker, m_mutex, table, m_cliaddr, net, nbd>>

\* A signal interrupts epoll_wait(): Run() throws EpollError and main()
\* disconnects the driver; the engine is destroyed after main().
Signal ==
  /\ MayQuit /\ mStt = "RUN"
  /\ mStt' = "STOP"
  /\ conn' = "closed"
  /\ UNCHANGED <<pool, m_mutex, table, m_cliaddr, net, req, ret, reqSock, repSock, submitted>>

\* ThreadPool::Stop() has joined the pool; the destructor of the driver
\* disconnects it if no task did.
Return ==
  /\ mStt = "STOP"
  /\ \A t \in Worker : worker[t].at = "joined"
  /\ End("returned")
  /\ UNCHANGED <<pool, m_mutex, table, m_cliaddr, net, req, ret, reqSock, repSock, submitted>>

MainThread ==
  \/ \E m \in DOMAIN toMaster : SlaveHello(m) \/ SlaveRead(m)
  \/ NbdRead \/ NbdReadEof \/ Return

-----------------------------------------------------------------------------
(* The pool threads.                                                       *)

Goto(t, l) == worker' = [worker EXCEPT ![t].at = l]

BackToPool(t) == worker' = [worker EXCEPT ![t] = [at |-> "idle", task |-> NoTask, id |-> 0]]

Pop(t, k) ==
  /\ Alive /\ worker[t].at = "idle"
  /\ mQueue' = BagRemove(mQueue, k)
  /\ worker' = [worker EXCEPT ![t] = [at |-> "run", task |-> k, id |-> 0]]
  /\ UNCHANGED <<mStt, m_mutex, table, m_cliaddr, net, nbd>>

\* Mutant: the number of the request is taken outside the lock, before it is
\* incremented by another thread.
HandlerToIdStale(t) ==
  /\ Alive /\ worker[t].at = "run" /\ worker[t].task.key \in {"READ", "WRITE"}
  /\ \E id \in {m_req_id, m_req_id + 1} :
       /\ id > 0
       /\ m_req_id' = id
       /\ m_list' = m_list \cup {[id |-> id, h |-> worker[t].task.h]}
       /\ worker' = [worker EXCEPT ![t].at = "send", ![t].id = id]
  /\ UNCHANGED <<mStt, mQueue, m_mutex, m_cliaddr, net, nbd>>

\* Mutant: m_req_id++, so that the first request has the number of a hello.
HandlerToIdPostIncrement(t) ==
  /\ Alive /\ worker[t].at = "run" /\ worker[t].task.key \in {"READ", "WRITE"}
  /\ m_req_id' = m_req_id + 1
  /\ m_list' = m_list \cup {[id |-> m_req_id, h |-> worker[t].task.h]}
  /\ worker' = [worker EXCEPT ![t].at = "send", ![t].id = m_req_id]
  /\ UNCHANGED <<mStt, mQueue, m_mutex, m_cliaddr, net, nbd>>

\* CloudStorage::Read() and Write(): HandlerToId() gives the request a number.
HandlerToId(t) ==
  /\ Alive /\ worker[t].at = "run" /\ worker[t].task.key \in {"READ", "WRITE"}
  /\ m_req_id' = m_req_id + 1
  /\ m_list' = m_list \cup {[id |-> m_req_id + 1, h |-> worker[t].task.h]}
  /\ worker' = [worker EXCEPT ![t].at = "send", ![t].id = m_req_id + 1]
  /\ UNCHANGED <<mStt, mQueue, m_mutex, m_cliaddr, net, nbd>>

\* CloudStorage::Read() and Write(): sendto().  A request is of one sector: the
\* code copies m_len bytes into a buffer of one sector without looking at m_len.
StorageSend(t) ==
  /\ Alive /\ worker[t].at = "send"
  /\ LET k == worker[t].task
     IN SendToSlave([key |-> k.key, id |-> worker[t].id, sec |-> k.sec, buf |-> k.buf,
                     dst |-> m_cliaddr])
  /\ BackToPool(t)
  /\ UNCHANGED <<mStt, mQueue, m_mutex, table, m_cliaddr, nbd>>

\* CloudStorage::Disconnect(), first half of NBDDisconnect::Execute().
StorageDisconnect(t) ==
  /\ Alive /\ worker[t].at = "run" /\ worker[t].task.key = "DISCONNECT"
  /\ SendToSlave([key |-> "DISCONNECT", id |-> 0, dst |-> m_cliaddr])
  /\ Goto(t, "close")
  /\ UNCHANGED <<mStt, mQueue, m_mutex, table, m_cliaddr, nbd>>

\* sendto() fails in CloudStorage: exit(1).
SendFails(t) ==
  /\ MayFail /\ Alive
  /\ \/ worker[t].at = "send"
     \/ worker[t].at = "run" /\ worker[t].task.key = "DISCONNECT"
  /\ End("send_failed")
  /\ UNCHANGED <<pool, m_mutex, table, m_cliaddr, net, req, ret, reqSock, repSock, submitted>>

\* NBDDriverProxy::Disconnect(): second half of NBDDisconnect::Execute(), and
\* STDINExit::Execute().
DriverDisconnect(t) ==
  /\ Alive
  /\ \/ worker[t].at = "close"
     \/ worker[t].at = "run" /\ worker[t].task.key = "Q_EXIT"
  /\ conn' = "closed"
  /\ BackToPool(t)
  /\ UNCHANGED <<mStt, mQueue, m_mutex, table, m_cliaddr, net, req, ret, reqSock, repSock, submitted>>

\* NBDDriverProxy::SendReply() of a reply, a flush, a trim or a bad request:
\* takes m_mutex, writes the header, and releases it unless data follows.
SendReply(t) ==
  /\ Alive /\ SocketOpen /\ worker[t].at = "run"
  /\ worker[t].task.key \in {"REPLAY", "FLUSH", "TRIM", "BAD_REQUEST"}
  /\ m_mutex = None
  /\ LET k == worker[t].task
     IN /\ repSock' = Append(repSock, [kind |-> "header", h |-> k.h, err |-> k.status, buf |-> Zeros])
        /\ \/ k.op = "READ" /\ Goto(t, "data") /\ m_mutex' = t
           \/ k.op # "READ" /\ BackToPool(t) /\ m_mutex' = m_mutex
  /\ UNCHANGED <<mStt, mQueue, table, m_cliaddr, net, req, ret, reqSock, conn, submitted>>

\* Mutant: an early return of SendReply() that leaves m_mutex locked.
SendReplyDataKeepsLock(t) ==
  /\ Alive /\ SocketOpen /\ worker[t].at = "data"
  /\ repSock' = Append(repSock, [kind |-> "data", h |-> worker[t].task.h, err |-> 0,
                                 buf |-> worker[t].task.buf])
  /\ BackToPool(t)
  /\ UNCHANGED <<mStt, mQueue, m_mutex, table, m_cliaddr, net, req, ret, reqSock, conn, submitted>>

\* NBDDriverProxy::SendReply(): the data of a READ, then m_mutex is released.
SendReplyData(t) ==
  /\ Alive /\ SocketOpen /\ worker[t].at = "data"
  /\ repSock' = Append(repSock, [kind |-> "data", h |-> worker[t].task.h, err |-> 0,
                                 buf |-> worker[t].task.buf])
  /\ m_mutex' = None
  /\ BackToPool(t)
  /\ UNCHANGED <<mStt, mQueue, table, m_cliaddr, net, req, ret, reqSock, conn, submitted>>

\* WriteAll() on a socket that was closed or shut down throws a runtime_error,
\* which ThreadFunc() does not catch.
WriteAllThrows(t) ==
  /\ Alive /\ ~SocketOpen
  /\ \/ worker[t].at = "data"
     \/ /\ worker[t].at = "run" /\ m_mutex = None
        /\ worker[t].task.key \in {"REPLAY", "FLUSH", "TRIM", "BAD_REQUEST"}
  /\ End("terminate")
  /\ UNCHANGED <<pool, m_mutex, table, m_cliaddr, net, req, ret, reqSock, repSock, submitted>>

\* The thread takes a TPStop.
TakeStop(t) ==
  /\ mStt = "STOP" /\ worker[t].at = "idle"
  /\ Goto(t, "joined")
  /\ UNCHANGED <<mStt, mQueue, m_mutex, table, m_cliaddr, net, nbd>>

PoolThread(t) ==
  \/ \E k \in DOMAIN mQueue : Pop(t, k)
  \/ HandlerToId(t) \/ StorageSend(t)
  \/ StorageDisconnect(t) \/ DriverDisconnect(t)
  \/ SendReply(t) \/ SendReplyData(t) \/ WriteAllThrows(t)
  \/ TakeStop(t)

\* An ioctl() of ThreadFuncSetNBD() fails, at any time until the thread is
\* joined by the disconnecting of the driver: exit(-1).
SetNbdFails ==
  /\ MayFail /\ Alive /\ conn # "closed"
  /\ End("nbd_failed")
  /\ UNCHANGED <<pool, m_mutex, table, m_cliaddr, net, req, ret, reqSock, repSock, submitted>>

\* What nothing in the process makes happen.
Environment ==
  \/ StdinRead \/ Signal \/ SetNbdFails
  \/ \E t \in Worker : SendFails(t)
=============================================================================
