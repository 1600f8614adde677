--------------------------- MODULE GreenCloudInv ----------------------------
(***************************************************************************)
(* The inductive invariant of GreenCloud, part by part: the types, where   *)
(* the one carrier of a request is, what the numbers of HandlerToId()      *)
(* stand for, and what the data in flight has to do with the disk.  The    *)
(* parts about a network that duplicates nothing begin with dups = 0.      *)
(***************************************************************************)
EXTENDS GreenCloud

-----------------------------------------------------------------------------
(* Types.                                                                  *)

IoOps == {"READ", "WRITE"}

\* The sets of records below are stated by their fields.
RequestState == {Idle} \cup Requests \cup {[r EXCEPT !.st = "failed"] : r \in Requests}

\* What the kernel writes to the socket.
SentRequests ==
  [op : AllOps, h : Handle, sec : Sector, buf : Payload] \cup [op : {"DISCONNECT"}]

\* The tasks of a request, of a reply, and those that disconnect the driver.
RequestTask(keys) ==
  {k \in [key : keys, op : keys, h : Handle, sec : Sector, buf : Payload, status : {0}] :
     k.op = k.key}

ReplyTask(ops) == [key : {"REPLAY"}, op : ops, h : Handle, buf : Payload, status : 0..1]

CloseTask == [key : {"DISCONNECT", "Q_EXIT"}]

Task == RequestTask(AllOps) \cup ReplyTask(IoOps) \cup CloseTask

WorkerState ==
  [at : {"idle", "joined"}, task : {NoTask}, id : {0}]
    \cup [at : {"run"}, task : Task, id : {0}]
    \cup [at : {"send"}, task : RequestTask(IoOps), id : 1..m_req_id]
    \cup [at : {"data"}, task : ReplyTask({"READ"}), id : {0}]
    \cup [at : {"close"}, task : CloseTask, id : {0}]

\* The datagrams: a numbered command and its answer, the order to disconnect, the hello.
Command == [key : IoOps, id : 1..m_req_id, sec : Sector, buf : Payload, dst : Nat]
Order   == [key : {"DISCONNECT"}, id : {0}, dst : Nat]
Answer  == [key : IoOps, id : 1..m_req_id, buf : Payload, src : 1..sPort]
Hello   == [key : {"READ"}, id : {0}, buf : {Magic}, src : 1..sPort]

KernelTypes ==
  /\ req \in [Handle -> RequestState]
  /\ ret \in [Handle -> [err : 0..1, buf : Payload]]
  /\ reqSock \in Seq(SentRequests) /\ repSock \in Seq(Chunk)
  /\ conn \in {"up", "disc", "broken", "closed"}

MasterTypes ==
  /\ mStt \in MainStatus
  /\ IsABag(mQueue) /\ DOMAIN mQueue \subseteq Task
  /\ worker \in [Worker -> WorkerState]
  /\ m_mutex \in Worker \cup {None}
  /\ m_req_id \in Nat /\ m_list \subseteq [id : 1..m_req_id, h : Handle]
  /\ m_cliaddr \in 0..sPort

NetTypes ==
  /\ IsABag(toSlave) /\ DOMAIN toSlave \subseteq Command \cup Order
  /\ IsABag(toMaster) /\ DOMAIN toMaster \subseteq Answer \cup Hello
  /\ losses \in Nat /\ dups \in Nat

SlaveTypes ==
  /\ sStt \in {"DOWN", "RUN", "STOP", "EXIT"} /\ sPort \in Nat /\ sOpen \in BOOLEAN
  /\ sStt # "DOWN" => sPort > 0
  /\ IsABag(sQueue) /\ DOMAIN sQueue \subseteq Command \cup Order
  /\ sReply \in Answer \cup {NoReply}
  /\ storage \in [Sector -> Payload]
  /\ seen \in [Handle -> [done : BOOLEAN, buf : Payload]]

Types == KernelTypes /\ MasterTypes /\ NetTypes /\ SlaveTypes

-----------------------------------------------------------------------------
(* One carrier for each request.                                           *)

\* Exactly one of the sets has an element, and no second one.
Alone(A, B, C, D, E) ==
  \/ (\E x \in A : A = {x}) /\ B = {} /\ C = {} /\ D = {} /\ E = {}
  \/ (\E x \in B : B = {x}) /\ A = {} /\ C = {} /\ D = {} /\ E = {}
  \/ (\E x \in C : C = {x}) /\ A = {} /\ B = {} /\ D = {} /\ E = {}
  \/ (\E x \in D : D = {x}) /\ A = {} /\ B = {} /\ C = {} /\ E = {}
  \/ (\E x \in E : E = {x}) /\ A = {} /\ B = {} /\ C = {} /\ D = {}

Nowhere(A, B, C, D, E) == A = {} /\ B = {} /\ C = {} /\ D = {} /\ E = {}

\* A request in flight, or one the kernel gave up, has one carrier; an idle handle has none.
Owed(h) ==
  IF req[h].st = "idle" THEN Nowhere(Unread(h), Queued(h), Executed(h), Listed(h), Replied(h))
                        ELSE Alone(Unread(h), Queued(h), Executed(h), Listed(h), Replied(h))

CarrierInv ==
  /\ \A h \in Handle : Owed(h)
  /\ \A k \in DOMAIN mQueue : k \notin CloseTask => mQueue[k] = 1
  /\ SocketOpen => \A h \in Handle : req[h].st # "failed"

\* NBDDriverProxy::m_mutex is held from the header of a READ's reply to its data.
LockInv == \A t \in Worker : worker[t].at = "data" <=> m_mutex = t

-----------------------------------------------------------------------------
(* What the numbers stand for.                                             *)

\* The request r is what the kernel submitted for its handle.
IsRequest(r) == r.op = req[r.h].op /\ r.sec = req[r.h].sec /\ r.buf = req[r.h].buf

\* The task k is about what its handle stands for.
IsTask(k) ==
  /\ k.key \in AllOps => IsRequest(k)
  /\ k.key = "REPLAY" => k.op = req[k.h].op

\* Until it is sent a request is in its task as the kernel submitted it.
TaskInv ==
  /\ \A i \in DOMAIN reqSock : reqSock[i].op # "DISCONNECT" => IsRequest(reqSock[i])
  /\ \A k \in DOMAIN mQueue : IsTask(k)
  /\ \A t \in Worker : worker[t].at = "run" => IsTask(worker[t].task)
  /\ \A t \in Worker : worker[t].at = "send" => IsRequest(worker[t].task)

Numbered == DOMAIN toSlave \cup DOMAIN sQueue \cup DOMAIN toMaster \cup ({sReply} \ {NoReply})

\* A thread that is about to send has its request in the list, and its number nowhere else.
SendInv ==
  \A t \in Worker : worker[t].at = "send" =>
    /\ [id |-> worker[t].id, h |-> worker[t].task.h] \in m_list
    /\ \A m \in Numbered : m.id # worker[t].id
    /\ \A u \in Worker \ {t} : worker[u].id # worker[t].id

ListInv ==
  \A e \in m_list :
    /\ \A f \in m_list : f.id = e.id => f = e
    /\ \A m \in Numbered : m.id = e.id => m.key = req[e.h].op
    /\ req[e.h].op \in IoOps

-----------------------------------------------------------------------------
(* Without duplicates a number is in one place, and that place is listed.  *)

Sender(id)   == {t \in Worker : worker[t].at = "send" /\ worker[t].id = id}
Sent(id)     == {m \in DOMAIN toSlave : m.id = id}
Pending(id)  == {k \in DOMAIN sQueue : k.id = id}
Done(id)     == {r \in {sReply} \ {NoReply} : r.id = id}
Answered(id) == {m \in DOMAIN toMaster : m.id = id}

Once(B) == \A m \in DOMAIN B : m.id # 0 => B[m] = 1

\* The number id is nowhere, or in one place and in the list.
InOnePlace(id) ==
  \/ Nowhere(Sender(id), Sent(id), Pending(id), Done(id), Answered(id))
  \/ /\ Alone(Sender(id), Sent(id), Pending(id), Done(id), Answered(id))
     /\ \E e \in m_list : e.id = id

NumbersOnce ==
  /\ Once(toSlave) /\ Once(sQueue) /\ Once(toMaster)
  /\ \A id \in 1..m_req_id : InOnePlace(id)

NumberInv == dups = 0 => NumbersOnce

\* The main thread is in the handshake, or may have been when ThreadFuncSetNBD() ended
\* the process.
Unmet == mStt \in {"HELLO", "nbd_failed"}

\* Nothing but hellos is on its way before the handshake, and only one slave's hello at most
\* until a slave is restarted.
HelloInv ==
  /\ mStt = "HELLO" =>
       /\ m_list = {} /\ DOMAIN mQueue = {} /\ m_req_id = 0
       /\ \A t \in Worker : worker[t].at = "idle"
       /\ DOMAIN toSlave = {} /\ DOMAIN sQueue = {} /\ sReply = NoReply
  /\ sPort = 0 => Unmet /\ DOMAIN toMaster = {}
  /\ dups = 0 /\ sPort = 1 => \A m \in DOMAIN toMaster : m.id = 0 => Unmet /\ toMaster[m] = 1
  /\ mStt = "unknown_id" => dups > 0 \/ sPort > 1

-----------------------------------------------------------------------------
(* What is in flight and the disk.                                         *)

\* No byte of p lies behind a NUL, so p goes through strcpy() unchanged.
Clean(p) == \A i \in 1..SecLen : ~BehindNul(p, i)

\* What history remembers of a request that is on its way to the storage, and of others.
SeenInv ==
  \A h \in Handle :
    /\ ~seen[h].done => seen[h].buf = Zeros
    /\ seen[h].done /\ req[h].st # "idle" =>
         /\ req[h].op \in IoOps
         /\ req[h].op = "WRITE" => seen[h].buf = Zeros
         /\ req[h].op = "READ" => Clean(seen[h].buf)

UnseenInv ==
  /\ \A i \in DOMAIN reqSock : reqSock[i].op # "DISCONNECT" => ~seen[reqSock[i].h].done
  /\ \A k \in DOMAIN mQueue : k.key \in AllOps => ~seen[k.h].done
  /\ \A t \in Worker : worker[t].at \in {"run", "send"} /\ worker[t].task.key \in AllOps =>
       ~seen[worker[t].task.h].done

\* The command m is the listed request e, which has not reached the storage.
IsCommandOf(m, e) ==
  /\ ~seen[e.h].done
  /\ m.sec = req[e.h].sec
  /\ m.key = "WRITE" => m.buf = req[e.h].buf

\* A reply carries what the request found.
IsReplyOf(r, h) == seen[h].done /\ (req[h].op = "READ" => r.buf = seen[h].buf)

EffectInv ==
  /\ \A e \in m_list :
       /\ \A m \in DOMAIN toSlave \cup DOMAIN sQueue : m.id = e.id => IsCommandOf(m, e)
       /\ \A m \in DOMAIN toMaster \cup ({sReply} \ {NoReply}) : m.id = e.id => IsReplyOf(m, e.h)
  /\ \A k \in DOMAIN mQueue : k.key = "REPLAY" => IsReplyOf(k, k.h)
  /\ \A t \in Worker : worker[t].at = "run" /\ worker[t].task.key = "REPLAY" =>
       IsReplyOf(worker[t].task, worker[t].task.h)

\* A header without error is followed by its data, or by the thread that writes it next.
FrameInv ==
  \A i \in DOMAIN repSock :
    LET c == repSock[i]
    IN  c.kind = "header" /\ c.err = 0 =>
          /\ seen[c.h].done <=> req[c.h].op \in IoOps
          /\ req[c.h].op = "READ" =>
               /\ i < Len(repSock) => repSock[i + 1].kind = "data" /\ repSock[i + 1].buf = seen[c.h].buf
               /\ i = Len(repSock) => \E t \in Worker : m_mutex = t /\ worker[t].task.buf = seen[c.h].buf

CleanInv ==
  /\ \A s \in Sector : Clean(storage[s])
  /\ \A h \in Handle : req[h].op = "WRITE" => Clean(req[h].buf)

\* The data of the kernel and of the file has no NUL before its last byte.
CleanData == \A p \in Data \cup {InitStorage[s] : s \in Sector} : Clean(p)

DiskInv == dups = 0 => SeenInv /\ UnseenInv /\ EffectInv /\ FrameInv /\ CleanInv
=============================================================================
