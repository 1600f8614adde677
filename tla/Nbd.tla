-------------------------------- MODULE Nbd ---------------------------------
(***************************************************************************)
(* The kernel's side of the NBD device: requests with a handle are written *)
(* to one end of the socket pair NBDDriverProxy made and completed by the  *)
(* replies found there.  External to the repository: modelled from the     *)
(* requests src/nbd_driver_proxy.cpp reads and the replies it writes.      *)
(***************************************************************************)
EXTENDS Integers, Sequences, Wire

CONSTANTS
  Handle,   \* the handles of requests in flight at once
  Op,       \* the commands the kernel uses, a subset of AllOps
  Data,     \* the payloads that get written
  MaxReq,   \* bound: requests submitted in a behaviour
  MayQuit   \* the device may be disconnected, q typed or a signal sent

AllOps == {"READ", "WRITE", "FLUSH", "TRIM", "BAD_REQUEST"}

ASSUME NbdAssumption ==
  Op \subseteq AllOps /\ Data \subseteq Payload /\ MaxReq \in Nat /\ MayQuit \in BOOLEAN

VARIABLES
  req,        \* per handle the request it stands for
  ret,        \* per handle the result of its last completed request
  reqSock,    \* what the kernel wrote and m_req_fd has not read
  repSock,    \* what was written to m_req_fd and the kernel has not read
  conn,       \* "up", "disc" (NBD_CMD_DISC sent), "broken" by the kernel, "closed" by the driver
  submitted   \* number of requests so far

nbd == <<req, ret, reqSock, repSock, conn, submitted>>

Idle == [st |-> "idle", op |-> "FLUSH", sec |-> CHOOSE s \in Sector : TRUE, buf |-> Zeros]

Requests ==
  [st : {"sent"}, op : Op \ {"WRITE"}, sec : Sector, buf : {Zeros}]
    \cup [st : {"sent"}, op : Op \cap {"WRITE"}, sec : Sector, buf : Data]

Chunk ==
  [kind : {"header"}, h : Handle, err : 0..1, buf : {Zeros}]
    \cup [kind : {"data"}, h : Handle, err : {0}, buf : Payload]

SocketOpen == conn \in {"up", "disc"}

NbdInit ==
  /\ req = [h \in Handle |-> Idle]
  /\ ret = [h \in Handle |-> [err |-> 0, buf |-> Zeros]]
  /\ reqSock = <<>> /\ repSock = <<>>
  /\ conn = "up" /\ submitted = 0

Submit(h, r) ==
  /\ conn = "up" /\ req[h].st = "idle" /\ submitted < MaxReq
  /\ req' = [req EXCEPT ![h] = r]
  /\ reqSock' = Append(reqSock, [op |-> r.op, h |-> h, sec |-> r.sec, buf |-> r.buf])
  /\ submitted' = submitted + 1
  /\ UNCHANGED <<ret, repSock, conn>>

\* NBD_DISCONNECT by another process: no request follows NBD_CMD_DISC.
SubmitDisc ==
  /\ MayQuit /\ conn = "up"
  /\ conn' = "disc"
  /\ reqSock' = Append(reqSock, [op |-> "DISCONNECT"])
  /\ UNCHANGED <<req, ret, repSock, submitted>>

\* The kernel finds a reply header of a request it knows, and behind the header
\* of a successful READ the data.
Complete ==
  /\ SocketOpen /\ repSock # <<>>
  /\ Head(repSock).kind = "header"
  /\ LET r == Head(repSock)
         n == IF req[r.h].op = "READ" /\ r.err = 0 THEN 2 ELSE 1
     IN  /\ req[r.h].st = "sent"
         /\ Len(repSock) >= n
         /\ n = 2 => repSock[2].kind = "data"
         /\ req' = [req EXCEPT ![r.h] = Idle]
         /\ ret' = [ret EXCEPT ![r.h] = [err |-> r.err, buf |-> repSock[n].buf]]
         /\ repSock' = SubSeq(repSock, n + 1, Len(repSock))
  /\ UNCHANGED <<reqSock, conn, submitted>>

\* Anything else is a bad magic number or an unknown handle: the kernel shuts
\* the socket down.
BadReply ==
  /\ SocketOpen /\ repSock # <<>>
  /\ LET r == Head(repSock)
     IN  \/ r.kind = "data"
         \/ req[r.h].st # "sent"
         \/ req[r.h].op = "READ" /\ r.err = 0 /\ Len(repSock) > 1 /\ repSock[2].kind # "data"
  /\ conn' = "broken"
  /\ UNCHANGED <<req, ret, reqSock, repSock, submitted>>

\* NBD_CLEAR_QUE, or the end of the process: the requests in flight fail.
ClearQueue ==
  /\ ~SocketOpen
  /\ \E h \in Handle : req[h].st = "sent"
  /\ req' = [h \in Handle |-> IF req[h].st = "sent" THEN [req[h] EXCEPT !.st = "failed"] ELSE req[h]]
  /\ UNCHANGED <<ret, reqSock, repSock, conn, submitted>>

\* What the kernel does by itself.
KernelReads == Complete \/ BadReply \/ ClearQueue

Kernel == SubmitDisc \/ KernelReads
=============================================================================
