------------------------------ MODULE NbdStream -----------------------------
(***************************************************************************)
(* The byte streams of NBDDriverProxy's socket pair                        *)
(* (src/nbd_driver_proxy.cpp) and the main thread that reads them          *)
(* (RequestEngine::Run() with WaitTimeOut()): read() and write() may       *)
(* handle less than they are asked for, the kernel may shut the socket     *)
(* down, and SIGINT or SIGTERM may come at any moment.  Master.tla has the *)
(* same operations on whole requests and replies.                          *)
(*                                                                         *)
(* Request n is its header <<n, 0>> and, of a WRITE, the units <<n, 1>>,   *)
(* <<n, 2>>, ... of its data; a header is sent and read in one piece.      *)
(***************************************************************************)
EXTENDS Naturals, Sequences

CONSTANTS
  Thread,       \* the pool threads that answer
  NoThread,
  DataLen,      \* units of data of a WRITE, and of the data behind the reply to a READ
  SockBuf,      \* units a direction of the socket pair holds
  MaxReq,       \* bound: requests the kernel sends
  MayShutdown,  \* the kernel may shut the socket down
  MaySignal     \* a signal may be sent, once

ASSUME StreamAssumption ==
  /\ NoThread \notin Thread /\ {DataLen, SockBuf} \subseteq Nat \ {0} /\ MaxReq \in Nat
  /\ MayShutdown \in BOOLEAN /\ MaySignal \in BOOLEAN

VARIABLES
  sent,      \* the requests the kernel has begun to send
  unsent,    \* units of the last one still to be sent
  down,      \* the kernel has shut the socket down
  toDriver,  \* what m_req_fd has not read
  toKernel,  \* what the kernel has not read
  signal,    \* "none", "sent" or "handled"
  main,      \* where the main thread is: its step, the request's number, count and data
  todo,      \* the requests that are read and not answered
  pool,      \* per pool thread its step, the request's number and count
  mutex,     \* holder of NBDDriverProxy::m_mutex
  replies    \* the units the kernel has read

kernel     == <<sent, unsent, down, replies>>
streamVars == <<kernel, toDriver, toKernel, signal, main, todo, pool, mutex>>

Ended == {"signalled", "bad_magic", "exception"}
Step  == {"poll", "header", "readall", "add"} \cup Ended

NoWork == [at |-> "idle", n |-> 0, count |-> 0]

StreamInit ==
  /\ sent = <<>> /\ unsent = 0 /\ down = FALSE /\ replies = <<>>
  /\ toDriver = <<>> /\ toKernel = <<>> /\ signal = "none"
  /\ main = [at |-> "poll", n |-> 0, count |-> 0, buff |-> <<>>]
  /\ todo = {} /\ pool = [t \in Thread |-> NoWork] /\ mutex = NoThread

Running    == main.at \notin Ended
Data(n, c) == [i \in 1..c |-> <<n, i>>]

-----------------------------------------------------------------------------
(* The kernel.                                                             *)

\* The header of the next request.
KernelSend(op) ==
  /\ ~down /\ unsent = 0 /\ Len(sent) < MaxReq /\ Len(toDriver) < SockBuf
  /\ sent' = Append(sent, op)
  /\ unsent' = IF op = "WRITE" THEN DataLen ELSE 0
  /\ toDriver' = Append(toDriver, <<Len(sent) + 1, 0>>)
  /\ UNCHANGED <<down, replies, toKernel, signal, main, todo, pool, mutex>>

\* A unit of its data.
KernelSendData ==
  /\ ~down /\ unsent > 0 /\ Len(toDriver) < SockBuf
  /\ unsent' = unsent - 1
  /\ toDriver' = Append(toDriver, <<Len(sent), DataLen - unsent + 1>>)
  /\ UNCHANGED <<sent, down, replies, toKernel, signal, main, todo, pool, mutex>>

KernelRead ==
  /\ ~down /\ toKernel # <<>>
  /\ replies' = Append(replies, Head(toKernel)) /\ toKernel' = Tail(toKernel)
  /\ UNCHANGED <<sent, unsent, down, toDriver, signal, main, todo, pool, mutex>>

\* After a timeout or a disconnect: what was sent can still be read.
KernelShutdown ==
  /\ MayShutdown /\ ~down /\ down' = TRUE
  /\ UNCHANGED <<sent, unsent, replies, toDriver, toKernel, signal, main, todo, pool, mutex>>

-----------------------------------------------------------------------------
(* The main thread.                                                        *)

\* Blocked in read(): nothing to read, and more may come.
Blocked == main.at = "readall" /\ main.count > 0 /\ toDriver = <<>> /\ ~down

\* WaitTimeOut() finds m_req_fd readable.
WaitTimeOut ==
  /\ main.at = "poll" /\ (toDriver # <<>> \/ down)
  /\ main' = [main EXCEPT !.at = "header"]
  /\ UNCHANGED <<kernel, toDriver, toKernel, signal, todo, pool, mutex>>

\* ReceiveRequest(): the header.
ReadHeader ==
  /\ main.at = "header" /\ toDriver # <<>>
  /\ LET u == Head(toDriver)
     IN  main' = IF u[2] # 0 THEN [main EXCEPT !.at = "bad_magic"]
                 ELSE [at |-> IF sent[u[1]] = "WRITE" THEN "readall" ELSE "add", n |-> u[1],
                       count |-> IF sent[u[1]] = "WRITE" THEN DataLen ELSE 0, buff |-> <<>>]
  /\ toDriver' = Tail(toDriver)
  /\ UNCHANGED <<kernel, toKernel, signal, todo, pool, mutex>>

\* The end of the stream leaves request.magic zero: NBDBadMagic.
ReadHeaderEof ==
  /\ main.at = "header" /\ toDriver = <<>>
  /\ main' = [main EXCEPT !.at = "bad_magic"]
  /\ UNCHANGED <<kernel, toDriver, toKernel, signal, todo, pool, mutex>>

\* Mutant: count is not counted down.
ReadAllNoCount(k) ==
  /\ main.at = "readall" /\ main.count > 0
  /\ k \in 1..Len(toDriver) /\ k <= main.count
  /\ main' = [main EXCEPT !.buff = @ \o SubSeq(toDriver, 1, k)]
  /\ toDriver' = SubSeq(toDriver, k + 1, Len(toDriver))
  /\ UNCHANGED <<kernel, toKernel, signal, todo, pool, mutex>>

\* Mutant: read() of more than is left of the request.
ReadAllTooMuch(k) ==
  /\ main.at = "readall" /\ main.count > 0 /\ k \in 1..Len(toDriver)
  /\ main' = [main EXCEPT !.count = IF k > @ THEN 0 ELSE @ - k, !.buff = @ \o SubSeq(toDriver, 1, k)]
  /\ toDriver' = SubSeq(toDriver, k + 1, Len(toDriver))
  /\ UNCHANGED <<kernel, toKernel, signal, todo, pool, mutex>>

\* ReadAll(): a read() that returns k units.  At the end of the stream read() returns 0
\* and ReadAll() calls it again and again, which changes nothing: the thread stays here.
ReadAll(k) ==
  /\ main.at = "readall" /\ main.count > 0
  /\ k \in 1..Len(toDriver) /\ k <= main.count
  /\ main' = [main EXCEPT !.count = @ - k, !.buff = @ \o SubSeq(toDriver, 1, k)]
  /\ toDriver' = SubSeq(toDriver, k + 1, Len(toDriver))
  /\ UNCHANGED <<kernel, toKernel, signal, todo, pool, mutex>>

ReadAllDone ==
  /\ main.at = "readall" /\ main.count = 0
  /\ main' = [main EXCEPT !.at = "add"]
  /\ UNCHANGED <<kernel, toDriver, toKernel, signal, todo, pool, mutex>>

\* Run() adds the task, and tests m_req_engine_stt.
AddTask ==
  /\ main.at = "add"
  /\ todo' = todo \cup {[n |-> main.n, buff |-> main.buff]}
  /\ main' = [at |-> "poll", n |-> 0, count |-> 0, buff |-> <<>>]
  /\ UNCHANGED <<kernel, toDriver, toKernel, signal, pool, mutex>>

SendSignal ==
  /\ MaySignal /\ signal = "none" /\ signal' = "sent"
  /\ UNCHANGED <<kernel, toDriver, toKernel, main, todo, pool, mutex>>

\* ExitLoop() runs in the main thread.  It interrupts epoll_wait(), which main() takes for
\* the order to end, or a blocked read(), which is a runtime_error; elsewhere it does nothing.
ExitLoop ==
  /\ signal = "sent" /\ Running /\ signal' = "handled"
  /\ main' = [main EXCEPT !.at = IF main.at = "poll" THEN "signalled"
                                 ELSE IF Blocked THEN "exception" ELSE @]
  /\ UNCHANGED <<kernel, toDriver, toKernel, todo, pool, mutex>>

-----------------------------------------------------------------------------
(* The pool threads: SendReply().                                          *)

\* Mutant: SendReply() without lock_guard.
SendReplyNoLock(t, r) ==
  /\ Running /\ pool[t].at = "idle" /\ r \in todo
  /\ todo' = todo \ {r}
  /\ pool' = [pool EXCEPT ![t] = [at |-> "header", n |-> r.n, count |-> DataLen]]
  /\ UNCHANGED <<kernel, toDriver, toKernel, signal, main, mutex>>

\* A reply is ready; SendReply() takes m_mutex.
SendReply(t, r) ==
  /\ Running /\ pool[t].at = "idle" /\ r \in todo
  /\ todo' = todo \ {r}
  /\ mutex = NoThread /\ mutex' = t
  /\ pool' = [pool EXCEPT ![t] = [at |-> "header", n |-> r.n, count |-> DataLen]]
  /\ UNCHANGED <<kernel, toDriver, toKernel, signal, main>>

\* WriteAll() of the header.
WriteHeader(t) ==
  /\ Running /\ pool[t].at = "header" /\ ~down /\ Len(toKernel) < SockBuf
  /\ toKernel' = Append(toKernel, <<pool[t].n, 0>>)
  /\ \/ sent[pool[t].n] = "READ" /\ pool' = [pool EXCEPT ![t].at = "data"] /\ UNCHANGED mutex
     \/ sent[pool[t].n] = "WRITE" /\ pool' = [pool EXCEPT ![t] = NoWork] /\ mutex' = NoThread
  /\ UNCHANGED <<kernel, toDriver, signal, main, todo>>

\* Mutant: one write() in place of the loop.
WriteAllOnce(t, k) ==
  /\ Running /\ pool[t].at = "data" /\ ~down
  /\ k \in 1..(SockBuf - Len(toKernel)) /\ k <= pool[t].count
  /\ toKernel' = toKernel \o SubSeq(Data(pool[t].n, DataLen), 1, k)
  /\ pool' = [pool EXCEPT ![t] = NoWork] /\ mutex' = NoThread
  /\ UNCHANGED <<kernel, toDriver, signal, main, todo>>

\* WriteAll() of the data: a write() that takes k units.
WriteAll(t, k) ==
  /\ Running /\ pool[t].at = "data" /\ ~down
  /\ k \in 1..(SockBuf - Len(toKernel)) /\ k <= pool[t].count
  /\ LET done == DataLen - pool[t].count
     IN  toKernel' = toKernel \o SubSeq(Data(pool[t].n, DataLen), done + 1, done + k)
  /\ \/ k < pool[t].count /\ pool' = [pool EXCEPT ![t].count = @ - k] /\ UNCHANGED mutex
     \/ k = pool[t].count /\ pool' = [pool EXCEPT ![t] = NoWork] /\ mutex' = NoThread
  /\ UNCHANGED <<kernel, toDriver, signal, main, todo>>

\* write() on a socket that is shut down: a runtime_error that ThreadFunc() does not catch.
WriteAllThrows(t) ==
  /\ Running /\ pool[t].at \in {"header", "data"} /\ down
  /\ main' = [main EXCEPT !.at = "exception"]
  /\ UNCHANGED <<kernel, toDriver, toKernel, signal, todo, pool, mutex>>

-----------------------------------------------------------------------------
Kernel == KernelSendData \/ KernelRead

MainThread ==
  WaitTimeOut \/ ReadHeader \/ ReadHeaderEof \/ (\E k \in 1..DataLen : ReadAll(k))
    \/ ReadAllDone \/ AddTask

PoolThread(t) ==
  \/ \E r \in todo : SendReply(t, r)
  \/ WriteHeader(t) \/ (\E k \in 1..DataLen : WriteAll(t, k)) \/ WriteAllThrows(t)

StreamNext ==
  \/ Kernel \/ KernelShutdown \/ SendSignal \/ ExitLoop \/ MainThread
  \/ \E op \in {"READ", "WRITE"} : KernelSend(op)
  \/ \E t \in Thread : PoolThread(t)

StreamSpec == StreamInit /\ [][StreamNext]_streamVars

\* The kernel completes what it began and reads the replies, the threads run, and a signal
\* that was sent is delivered.
FairStreamSpec ==
  /\ StreamSpec /\ WF_streamVars(Kernel) /\ WF_streamVars(MainThread) /\ WF_streamVars(ExitLoop)
  /\ \A t \in Thread : WF_streamVars(PoolThread(t))

-----------------------------------------------------------------------------
(* Properties.                                                             *)

\* Every request that is taken up has exactly the data the kernel sent with it, however
\* the reads cut the stream, and no header is looked for inside data.
RequestsIntact ==
  /\ \A r \in todo : r.buff = Data(r.n, IF sent[r.n] = "WRITE" THEN DataLen ELSE 0)
  /\ main.at = "bad_magic" => down

\* However short the writes and however many threads answer, the kernel finds one whole
\* reply behind the other.
RepliesFramed ==
  LET s == replies \o toKernel
  IN  \A i \in DOMAIN s :
        \/ s[i][2] = 0 /\ (i = 1 \/ LET p == s[i - 1] IN p[2] = DataLen \/ sent[p[1]] = "WRITE")
        \/ s[i][2] > 0 /\ i > 1 /\ s[i - 1] = <<s[i][1], s[i][2] - 1>>

\* Every request that the kernel sent is answered in full, through a socket that holds
\* less than a reply, unless the master ends or the kernel shuts the socket down.
AllAnswered ==
  \A n \in 1..MaxReq :
    Len(sent) >= n ~> \/ ~Running \/ down
                      \/ /\ Len(sent) >= n
                         /\ \E j \in DOMAIN replies :
                              replies[j] = <<n, IF sent[n] = "READ" THEN DataLen ELSE 0>>

\* "how often the program will check if it should exit": the main thread comes back to
\* Run()'s test, or the process ends, unless the kernel shuts the socket down between a
\* WRITE and the end of its data, where ReadAll() stays.
LoopChecks ==
  []<>(main.at = "poll" \/ ~Running \/ (main.at = "readall" /\ main.count > 0 /\ down))

\* What globals.hpp says of TIMEOUT: within that time Run() checks whether it needs to stop.
\* It does not when the socket is shut down within a WRITE, because ReadAll() takes the end
\* of the stream for a short read and never leaves its loop.
ExitChecked == []<>(main.at = "poll" \/ ~Running)
=============================================================================
