----------------------------- MODULE ThreadPool -----------------------------
(***************************************************************************)
(* ThreadPool (src/thread_pool.cpp) with the waitable priority queue it    *)
(* owns (include/wpriorityqueue.hpp) and the three POSIX semaphores behind *)
(* them (src/semaphore.cpp).                                               *)
(*                                                                         *)
(* One main thread calls AddTask, Suspend, Resume and Stop (the destructor *)
(* calls Stop); every pool thread runs ThreadFunc.  A step of the model is *)
(* one semaphore operation or one critical section of the queue's mutex.   *)
(***************************************************************************)
EXTENDS Integers, FiniteSets

CONSTANTS
  Thread,            \* the pool's threads, m_threads
  Task,              \* the user tasks that may be added, each one object
  priority,          \* TPTask::m_priority of a user task
  None,              \* "this thread holds no user task"
  Throwing,          \* tasks whose Execute may throw something else than a ThreadMsg
  MaySignal,         \* a signal may interrupt a pool thread blocked in sem_wait
  MayStopSuspended   \* the pool may be destroyed while it is suspended

\* TPTask::TaskPriority below SYSTEM.
Priorities == 0..2

\* CheackNum() turns a pool of 0 threads into one of 1.
ASSUME ThreadAssumption == IsFiniteSet(Thread) /\ Thread # {}

ASSUME TaskAssumption ==
  /\ None \notin Task
  /\ priority \in [Task -> Priorities]
  /\ Throwing \subseteq Task
  /\ MaySignal \in BOOLEAN
  /\ MayStopSuspended \in BOOLEAN

VARIABLES
  m_pq,          \* user tasks in m_task_queue.m_pq
  nStop,         \* TPStop tasks in m_task_queue.m_pq
  nSuspend,      \* TPSuspend tasks in m_task_queue.m_pq
  m_sem,         \* value of m_task_queue.m_sem
  m_thread_sem,  \* value of ThreadPool::m_thread_sem
  m_main_sem,    \* value of ThreadPool::m_main_sem
  pc,            \* where each pool thread is in ThreadFunc
  task,          \* the user task a pool thread is executing
  finished,      \* user tasks whose Execute returned
  main,          \* where the main thread is in the pool's interface
  cnt,           \* iterations left of main's current loop
  terminated     \* std::terminate() was called

queue == <<m_pq, nStop, nSuspend, m_sem>>
sems  == <<m_thread_sem, m_main_sem>>
vars  == <<m_pq, nStop, nSuspend, m_sem, m_thread_sem, m_main_sem,
           pc, task, finished, main, cnt, terminated>>

N == Cardinality(Thread)

-----------------------------------------------------------------------------
(* Where a pool thread and the main thread can be.                         *)

ThreadPC == {"wait",      \* Pop(): in m_sem.Wait()
             "pop",       \* Pop(): past the semaphore, before LockAndPop()
             "exec",      \* in Execute() of a user task
             "sus_post",  \* caught SUSPEND, before m_main_sem.Post()
             "sus_wait",  \* in m_thread_sem.Wait()
             "res_post",  \* woken, before the second m_main_sem.Post()
             "done"}      \* caught STOP, ThreadFunc returned

MainPC == {"running",     \* no call in progress, pool not suspended
           "sus_push",    \* Suspend(): loop of AddTask(new TPSuspend)
           "sus_wait",    \* Suspend(): loop of m_main_sem.Wait()
           "suspended",   \* no call in progress, pool suspended
           "res_post",    \* Resume(): loop of m_thread_sem.Post()
           "res_wait",    \* Resume(): loop of m_main_sem.Wait()
           "stop_push",   \* Stop(): loop of AddTask(new TPStop)
           "stop_join",   \* Stop(): loop of join()
           "joined"}      \* Stop() returned

At(l) == {t \in Thread : pc[t] = l}

Added == m_pq \cup {task[t] : t \in At("exec")} \cup finished

\* The values the variables take: no semaphore and no number of system tasks is
\* ever negative, and a thread holds a task exactly while it executes one.
TypeOK ==
  /\ m_pq \in SUBSET Task /\ IsFiniteSet(m_pq)
  /\ nStop \in Nat /\ nSuspend \in Nat /\ m_sem \in Nat
  /\ m_thread_sem \in Nat /\ m_main_sem \in Nat
  /\ pc \in [Thread -> ThreadPC]
  /\ task \in [Thread -> Task \cup {None}]
  /\ \A t \in Thread : task[t] = None <=> pc[t] # "exec"
  /\ finished \in SUBSET Task
  /\ main \in MainPC
  /\ cnt \in 0..N
  /\ terminated \in BOOLEAN

Init ==
  /\ m_pq = {} /\ nStop = 0 /\ nSuspend = 0 /\ m_sem = 0
  /\ m_thread_sem = 0 /\ m_main_sem = 0
  /\ pc = [t \in Thread |-> "wait"]
  /\ task = [t \in Thread |-> None]
  /\ finished = {}
  /\ main = "running" /\ cnt = 0
  /\ terminated = FALSE

-----------------------------------------------------------------------------
(* The pool threads: ThreadFunc().                                         *)

\* Pop(): m_sem.Wait() returns.
PopWait(t) ==
  /\ pc[t] = "wait" /\ m_sem > 0
  /\ m_sem' = m_sem - 1
  /\ pc' = [pc EXCEPT ![t] = "pop"]
  /\ UNCHANGED <<m_pq, nStop, nSuspend, sems, task, finished, main, cnt, terminated>>

\* Mutant: SYSTEM is no higher than a user priority.
IsTopAnyPriority(k) == \A j \in m_pq : priority[j] <= priority[k]

\* k is a top() of the heap: TPTask::operator< compares priorities only, and
\* SYSTEM is above every user priority.
IsTop(k) ==
  /\ nStop = 0 /\ nSuspend = 0
  /\ \A j \in m_pq : priority[j] <= priority[k]

\* LockAndPop() takes a TPStop; its Execute() throws STOP and the loop ends.
PopStop(t) ==
  /\ pc[t] = "pop" /\ nStop > 0
  /\ nStop' = nStop - 1
  /\ pc' = [pc EXCEPT ![t] = "done"]
  /\ UNCHANGED <<m_pq, nSuspend, m_sem, sems, task, finished, main, cnt, terminated>>

\* LockAndPop() takes a TPSuspend; its Execute() throws SUSPEND.
PopSuspend(t) ==
  /\ pc[t] = "pop" /\ nSuspend > 0
  /\ nSuspend' = nSuspend - 1
  /\ pc' = [pc EXCEPT ![t] = "sus_post"]
  /\ UNCHANGED <<m_pq, nStop, m_sem, sems, task, finished, main, cnt, terminated>>

\* Mutant: LockAndPop() reads top() and forgets pop().
PopTaskKeeps(t, k) ==
  /\ pc[t] = "pop" /\ k \in m_pq /\ IsTop(k)
  /\ pc' = [pc EXCEPT ![t] = "exec"]
  /\ task' = [task EXCEPT ![t] = k]
  /\ UNCHANGED <<queue, sems, finished, main, cnt, terminated>>

\* LockAndPop() takes a user task, any one of the highest priority.
PopTask(t, k) ==
  /\ pc[t] = "pop" /\ k \in m_pq /\ IsTop(k)
  /\ m_pq' = m_pq \ {k}
  /\ pc' = [pc EXCEPT ![t] = "exec"]
  /\ task' = [task EXCEPT ![t] = k]
  /\ UNCHANGED <<nStop, nSuspend, m_sem, sems, finished, main, cnt, terminated>>

\* Execute() of a user task returns.
Execute(t) ==
  /\ pc[t] = "exec"
  /\ finished' = finished \cup {task[t]}
  /\ task' = [task EXCEPT ![t] = None]
  /\ pc' = [pc EXCEPT ![t] = "wait"]
  /\ UNCHANGED <<queue, sems, main, cnt, terminated>>

\* Mutant: a catch-all drops the task and goes on with the next one.
ExecuteThrowsSwallowed(t) ==
  /\ pc[t] = "exec" /\ task[t] \in Throwing
  /\ task' = [task EXCEPT ![t] = None]
  /\ pc' = [pc EXCEPT ![t] = "wait"]
  /\ UNCHANGED <<queue, sems, finished, main, cnt, terminated>>

\* Execute() throws something that is not a ThreadMsg: nothing catches it.
ExecuteThrows(t) ==
  /\ pc[t] = "exec" /\ task[t] \in Throwing
  /\ terminated' = TRUE
  /\ UNCHANGED <<queue, sems, pc, task, finished, main, cnt>>

\* Mutant: main is not told that the thread is suspended.
SuspendPostMissing(t) ==
  /\ pc[t] = "sus_post"
  /\ pc' = [pc EXCEPT ![t] = "sus_wait"]
  /\ UNCHANGED <<queue, sems, task, finished, main, cnt, terminated>>

\* SUSPEND, first half: m_main_sem.Post().
SuspendPost(t) ==
  /\ pc[t] = "sus_post"
  /\ m_main_sem' = m_main_sem + 1
  /\ pc' = [pc EXCEPT ![t] = "sus_wait"]
  /\ UNCHANGED <<queue, m_thread_sem, task, finished, main, cnt, terminated>>

\* SUSPEND: m_thread_sem.Wait() returns.
SuspendWait(t) ==
  /\ pc[t] = "sus_wait" /\ m_thread_sem > 0
  /\ m_thread_sem' = m_thread_sem - 1
  /\ pc' = [pc EXCEPT ![t] = "res_post"]
  /\ UNCHANGED <<queue, m_main_sem, task, finished, main, cnt, terminated>>

\* SUSPEND, second half: m_main_sem.Post(), back to Pop().
ResumePost(t) ==
  /\ pc[t] = "res_post"
  /\ m_main_sem' = m_main_sem + 1
  /\ pc' = [pc EXCEPT ![t] = "wait"]
  /\ UNCHANGED <<queue, m_thread_sem, task, finished, main, cnt, terminated>>

\* Mutant: Wait() ignores the result of sem_wait() and Pop() goes on.
WaitInterruptedIgnored(t) ==
  /\ MaySignal
  /\ pc[t] = "wait" /\ m_sem = 0
  /\ pc' = [pc EXCEPT ![t] = "pop"]
  /\ UNCHANGED <<queue, sems, task, finished, main, cnt, terminated>>

\* sem_wait() fails with EINTR while the thread is blocked: Wait() throws
\* SemError, which ThreadFunc() does not catch.
WaitInterrupted(t) ==
  /\ MaySignal
  /\ \/ pc[t] = "wait" /\ m_sem = 0
     \/ pc[t] = "sus_wait" /\ m_thread_sem = 0
  /\ terminated' = TRUE
  /\ UNCHANGED <<queue, sems, pc, task, finished, main, cnt>>

ThreadFunc(t) ==
  \/ PopWait(t)
  \/ PopStop(t)
  \/ PopSuspend(t)
  \/ \E k \in m_pq : PopTask(t, k)
  \/ Execute(t)
  \/ SuspendPost(t)
  \/ SuspendWait(t)
  \/ ResumePost(t)

-----------------------------------------------------------------------------
(* The main thread.                                                        *)

\* Mutant: Push() without Post().
AddTaskNoPost(k) ==
  /\ main \in {"running", "suspended"}
  /\ k \notin Added
  /\ m_pq' = m_pq \cup {k}
  /\ UNCHANGED <<nStop, nSuspend, m_sem, sems, pc, task, finished, main, cnt, terminated>>

\* AddTask(k): push and Post() inside the queue's mutex.
AddTask(k) ==
  /\ main \in {"running", "suspended"}
  /\ k \notin Added
  /\ m_pq' = m_pq \cup {k}
  /\ m_sem' = m_sem + 1
  /\ UNCHANGED <<nStop, nSuspend, sems, pc, task, finished, main, cnt, terminated>>

\* One iteration of main's current loop, and what follows the last one.
LoopStep(after, left) ==
  IF cnt = 1 THEN main' = after /\ cnt' = left ELSE main' = main /\ cnt' = cnt - 1

\* A call of the interface: main enters a loop over the threads.
Call(from, to) ==
  /\ main \in from
  /\ main' = to /\ cnt' = N
  /\ UNCHANGED <<queue, sems, pc, task, finished, terminated>>

Suspend == Call({"running"}, "sus_push")

\* Mutant: the second loop of Suspend() waits for one thread too few.
SuspendAddTaskWaitsForLess ==
  /\ main = "sus_push"
  /\ nSuspend' = nSuspend + 1 /\ m_sem' = m_sem + 1
  /\ LoopStep("sus_wait", N - 1)
  /\ UNCHANGED <<m_pq, nStop, sems, pc, task, finished, terminated>>

\* Mutant: Suspend() pushes past AddTask(), without the Post().
SuspendAddTaskNoPost ==
  /\ main = "sus_push"
  /\ nSuspend' = nSuspend + 1
  /\ LoopStep("sus_wait", N)
  /\ UNCHANGED <<m_pq, nStop, m_sem, sems, pc, task, finished, terminated>>

\* Suspend(): an iteration of the loop of AddTask(new TPSuspend).
SuspendAddTask ==
  /\ main = "sus_push"
  /\ nSuspend' = nSuspend + 1 /\ m_sem' = m_sem + 1
  /\ LoopStep("sus_wait", N)
  /\ UNCHANGED <<m_pq, nStop, sems, pc, task, finished, terminated>>

\* Suspend(): an iteration of the loop of m_main_sem.Wait().
SuspendMainWait ==
  /\ main = "sus_wait" /\ m_main_sem > 0
  /\ m_main_sem' = m_main_sem - 1
  /\ LoopStep("suspended", 0)
  /\ UNCHANGED <<queue, m_thread_sem, pc, task, finished, terminated>>

Resume == Call({"suspended"}, "res_post")

\* Mutant: Resume() returns without its second loop.
ResumeThreadPostOnly ==
  /\ main = "res_post"
  /\ m_thread_sem' = m_thread_sem + 1
  /\ LoopStep("running", 0)
  /\ UNCHANGED <<queue, m_main_sem, pc, task, finished, terminated>>

\* Resume(): an iteration of the loop of m_thread_sem.Post().
ResumeThreadPost ==
  /\ main = "res_post"
  /\ m_thread_sem' = m_thread_sem + 1
  /\ LoopStep("res_wait", N)
  /\ UNCHANGED <<queue, m_main_sem, pc, task, finished, terminated>>

\* Resume(): an iteration of the loop of m_main_sem.Wait().
ResumeMainWait ==
  /\ main = "res_wait" /\ m_main_sem > 0
  /\ m_main_sem' = m_main_sem - 1
  /\ LoopStep("running", 0)
  /\ UNCHANGED <<queue, m_thread_sem, pc, task, finished, terminated>>

\* Stop(), called by the user or by the destructor.
Stop == Call({"running"} \cup (IF MayStopSuspended THEN {"suspended"} ELSE {}),
             "stop_push")

\* Stop(): an iteration of the loop of AddTask(new TPStop).
StopAddTask ==
  /\ main = "stop_push"
  /\ nStop' = nStop + 1 /\ m_sem' = m_sem + 1
  /\ LoopStep("stop_join", 0)
  /\ UNCHANGED <<m_pq, nSuspend, sems, pc, task, finished, terminated>>

\* The loop of join() ends when every ThreadFunc() has returned.
StopJoin ==
  /\ main = "stop_join"
  /\ \A t \in Thread : pc[t] = "done"
  /\ main' = "joined"
  /\ UNCHANGED <<queue, sems, pc, task, finished, cnt, terminated>>

\* What main does by itself once it has entered a call.
MainInCall ==
  \/ SuspendAddTask
  \/ SuspendMainWait
  \/ ResumeThreadPost
  \/ ResumeMainWait
  \/ StopAddTask
  \/ StopJoin

\* The process is over: the pool was joined, or std::terminate() was called.
Over ==
  /\ main = "joined" \/ terminated
  /\ UNCHANGED vars

-----------------------------------------------------------------------------

MainStep ==
  \/ \E k \in Task : AddTask(k)
  \/ Suspend \/ Resume \/ Stop
  \/ MainInCall

ThreadStep(t) ==
  \/ ThreadFunc(t)
  \/ ExecuteThrows(t)
  \/ WaitInterrupted(t)

Next ==
  \/ ~terminated /\ MainStep
  \/ ~terminated /\ \E t \in Thread : ThreadStep(t)
  \/ Over

Spec == Init /\ [][Next]_vars

\* The scheduler runs every thread that can run: a pool thread, and main once
\* it is inside a call.  Nothing makes main call anything.
FairSpec ==
  /\ Spec
  /\ \A t \in Thread : WF_vars(~terminated /\ ThreadFunc(t))
  /\ WF_vars(~terminated /\ MainInCall)
-----------------------------------------------------------------------------
(* Properties.                                                             *)

\* How many threads there are at each point of ThreadFunc().
count == [l \in ThreadPC |-> Cardinality({t \in Thread : pc[t] = l})]

\* m_sem counts the queue's elements that no thread has claimed yet: together
\* with the threads between Pop()'s Wait() and LockAndPop() it is the size of
\* the queue.
QueueAccounting == m_sem + count["pop"] = Cardinality(m_pq) + nStop + nSuspend

\* What the two handshake semaphores and the system tasks amount to in each
\* phase of Suspend() and Resume(), whichever threads have got how far.
SuspendAccounting ==
  LET a == count["sus_post"]
      w == count["sus_wait"]
      r == count["res_post"]
  IN  /\ main = "running" =>
           nSuspend = 0 /\ a = 0 /\ w = 0 /\ r = 0 /\ m_thread_sem = 0 /\ m_main_sem = 0
      /\ main = "sus_push" =>
           nSuspend + a + w = N - cnt /\ r = 0 /\ m_thread_sem = 0 /\ m_main_sem = w
      /\ main = "sus_wait" =>
           nSuspend + a + w = N /\ r = 0 /\ m_thread_sem = 0 /\ m_main_sem = w - (N - cnt)
      /\ main = "suspended" =>
           nSuspend = 0 /\ a = 0 /\ w = N /\ r = 0 /\ m_thread_sem = 0 /\ m_main_sem = 0
      /\ main = "res_post" =>
           nSuspend = 0 /\ a = 0 /\ m_thread_sem = w - cnt /\ m_main_sem = N - w - r
      /\ main = "res_wait" =>
           nSuspend = 0 /\ a = 0 /\ m_thread_sem = w /\ m_main_sem = cnt - w - r
      /\ main \in {"stop_push", "stop_join", "joined"} =>
           nSuspend = 0 /\ a = 0 /\ r = 0 /\ m_thread_sem = 0 /\ m_main_sem = 0

\* Stop() pushes one TPStop for each thread and each thread takes one.
StopAccounting ==
  /\ main = "stop_push" => nStop + count["done"] = N - cnt
  /\ main \in {"stop_join", "joined"} => nStop + count["done"] = N
  /\ main \notin {"stop_push", "stop_join", "joined"} => nStop = 0 /\ count["done"] = 0
  /\ main \in {"sus_push", "sus_wait", "res_post", "res_wait", "stop_push"} => cnt > 0

\* Every semaphore and every system task of the pool is accounted for, in every
\* interleaving of ThreadFunc() with AddTask(), Suspend(), Resume() and Stop().
Accounting == QueueAccounting /\ SuspendAccounting /\ StopAccounting

\* LockAndPop() calls top() and pop() without looking whether the queue is
\* empty: each thread that Pop()'s Wait() let through must find an element.
PopFindsTask == count["pop"] <= Cardinality(m_pq) + nStop + nSuspend

\* "will not loose data of current running TPTasks": when Suspend() returns no
\* thread is inside a task, and each is blocked until Resume().
SuspendQuiescent ==
  main = "suspended" => /\ At("sus_wait") = Thread
                        /\ m_thread_sem = 0 /\ nSuspend = 0

\* After Resume() nothing of the handshake is left over, so that the next
\* Suspend() cannot return early on a stale Post() and no thread stays behind.
ResumeBalanced ==
  main = "running" =>
    /\ m_thread_sem = 0 /\ m_main_sem = 0 /\ nSuspend = 0
    /\ \A t \in Thread : pc[t] \in {"wait", "pop", "exec"}

\* A task object is in one place only: queued, held by one thread or finished.
RunsOnce ==
  /\ m_pq \cap finished = {}
  /\ \A t \in At("exec") : task[t] \notin m_pq \cup finished
  /\ \A t, u \in At("exec") : task[t] = task[u] => t = u

\* A task that was added stays queued, running or finished whatever the pool
\* does next, an exception or an interrupted wait included.
NoTaskLost == [][Added \subseteq Added']_vars

\* TPSuspend and TPStop have priority SYSTEM: once Suspend() or Stop() has pushed
\* one for each thread, no thread starts another user task.  After Stop() the
\* tasks still queued are therefore never executed.
NoTaskStarts ==
  [][(main \in {"sus_wait", "suspended", "stop_join", "joined"}) => (m_pq \subseteq m_pq')]_vars

\* "stop, but finish current running tasks": Stop() returns, the threads joined.
StopReturns == main = "stop_push" ~> main = "joined" \/ terminated

\* Every call of the interface returns: Suspend() and Resume() get a Post() from each
\* thread, and Stop() of a pool that is not suspended finds each thread at its end.
CallsReturn ==
  /\ main = "sus_push" ~> main = "suspended" \/ terminated
  /\ main = "res_post" ~> main = "running" \/ terminated
  /\ StopReturns

\* A task added to a pool that is left running is executed.
TaskRuns ==
  <>[](main = "running") =>
    \A k \in Task : k \in m_pq ~> k \in finished \/ terminated
=============================================================================
