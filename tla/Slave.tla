-------------------------------- MODULE Slave -------------------------------
(***************************************************************************)
(* A slave process (release/slave.cpp): the main thread in                 *)
(* RequestEngine::Run() on a SlaveDriverProxy, and its one pool thread     *)
(* ("num_of_threads": 1 in slave_config.json) executing the tasks of       *)
(* include/slave_tasks.hpp on MmapStorage.  The slave may be killed and    *)
(* started again up to MaxCrash times; the mapped file survives.           *)
(***************************************************************************)
EXTENDS Wire, Network

CONSTANTS
  MaxCrash,
  InitStorage  \* contents of the storage file when the slave first maps it

ASSUME SlaveAssumption == MaxCrash \in Nat /\ InitStorage \in [Sector -> Payload]

VARIABLES
  sStt,      \* "DOWN", "RUN", "STOP" or "EXIT"
  sPort,     \* address of the running (or last) slave process: 1, 2, ...
  sOpen,     \* m_socket is open
  sQueue,    \* bag of tasks in the pool
  sReply,    \* the reply the pool thread is about to send, or NoReply
  storage    \* what the mapped file holds

slave == <<sStt, sPort, sOpen, sQueue, sReply, storage>>

NoReply == [key |-> "IGNORE"]

SlaveInit ==
  /\ sStt = "DOWN" /\ sPort = 0 /\ sOpen = FALSE
  /\ sQueue = EmptyBag /\ sReply = NoReply
  /\ storage = InitStorage

\* main() and RunSlave() up to Run(): a new socket, and the hello sent as the
\* reply to a READ with number 0.
Boot ==
  /\ sStt = "DOWN" /\ sPort <= MaxCrash
  /\ sStt' = "RUN" /\ sPort' = sPort + 1 /\ sOpen' = TRUE
  /\ SendToMaster([key |-> "READ", id |-> 0, buf |-> Magic, src |-> sPort + 1])
  /\ UNCHANGED <<sQueue, sReply, storage>>

\* DriverProxyGateWay::Read() with SlaveDriverProxy::ReceiveRequest(), and Run()
\* adding the task.
ReceiveRequest(m) ==
  /\ sStt = "RUN" /\ m.dst = sPort
  /\ RecvFromMaster(m)
  /\ \/ /\ m.key = "WRITE"
        /\ \E buf \in Strcpy(m.buf) : sQueue' = BagAdd(sQueue, [m EXCEPT !.buf = buf])
        /\ sStt' = sStt
     \/ /\ m.key = "READ"
        /\ sQueue' = BagAdd(sQueue, m)
        /\ sStt' = sStt
     \/ /\ m.key = "DISCONNECT"
        /\ sQueue' = BagAdd(sQueue, m)
        /\ sStt' = "STOP"
  /\ UNCHANGED <<sPort, sOpen, sReply, storage>>

Take(k) ==
  /\ sStt \in {"RUN", "STOP"} /\ sReply = NoReply
  /\ sQueue' = BagRemove(sQueue, k)

\* Mutant: the reply is made before the write.
WriteForgotten(k) ==
  /\ Take(k) /\ k.key = "WRITE"
  /\ sReply' = [key |-> "WRITE", id |-> k.id, buf |-> Zeros, src |-> sPort]
  /\ UNCHANGED <<sStt, sPort, sOpen, storage, net>>

\* SlaveWrite::Execute(): MmapStorage::Write() as one step, though a kill may come inside
\* memcpy(); MmapStorage.tla has its words.
Write(k) ==
  /\ Take(k) /\ k.key = "WRITE"
  /\ storage' = [storage EXCEPT ![k.sec] = k.buf]
  /\ sReply' = [key |-> "WRITE", id |-> k.id, buf |-> Zeros, src |-> sPort]
  /\ UNCHANGED <<sStt, sPort, sOpen, net>>

\* SlaveRead::Execute(): MmapStorage::Read(), and AddMessage() of SendReply().
Read(k) ==
  /\ Take(k) /\ k.key = "READ"
  /\ sReply' = [key |-> "READ", id |-> k.id, buf |-> AddMessage(storage[k.sec]), src |-> sPort]
  /\ UNCHANGED <<sStt, sPort, sOpen, storage, net>>

\* SlaveRead and SlaveWrite: sendto() of SlaveDriverProxy::SendReply().  On a
\* closed socket it only reports the error.
SlaveSendReply ==
  /\ sReply # NoReply
  /\ \/ sOpen /\ SendToMaster(sReply)
     \/ ~sOpen /\ UNCHANGED net
  /\ sReply' = NoReply
  /\ UNCHANGED <<sStt, sPort, sOpen, sQueue, storage>>

\* SlaveDisconnect::Execute().
SlaveDisconnect(k) ==
  /\ Take(k) /\ k.key = "DISCONNECT"
  /\ sOpen' = FALSE
  /\ UNCHANGED <<sStt, sPort, sReply, storage, net>>

\* The pool thread takes the TPStop pushed at exit: what is queued is dropped.
SlaveStop ==
  /\ sStt = "STOP" /\ sReply = NoReply
  /\ sStt' = "EXIT" /\ sOpen' = FALSE /\ sQueue' = EmptyBag
  /\ UNCHANGED <<sPort, sReply, storage, net>>

\* The process is killed.
Crash ==
  /\ sStt \in {"RUN", "STOP"} /\ sPort <= MaxCrash
  /\ sStt' = "DOWN" /\ sOpen' = FALSE
  /\ sQueue' = EmptyBag /\ sReply' = NoReply
  /\ UNCHANGED <<sPort, storage, net>>
=============================================================================
