---------------------------- MODULE PlugAndPlay -----------------------------
(***************************************************************************)
(* The life of a RequestEngine and of its plugin directory: the main       *)
(* thread that builds the engine, runs it and destroys its members in the  *)
(* reverse order of their declaration; DirMonitor's thread, which watches  *)
(* the directory and has DL_Loader open what appears there; the            *)
(* constructor of a plugin (libtest.cpp), which registers a task with the  *)
(* factory; and the pool threads that execute the tasks.                   *)
(*                                                                         *)
(* A step is what another thread can see.  A use of a part of the engine   *)
(* that does not exist, or no longer does, sets fault and ends the         *)
(* process.                                                                *)
(***************************************************************************)
EXTENDS Naturals, Sequences, FiniteSets

CONSTANTS
  File,          \* the shared objects a user may copy into the directory
  Request,       \* the READ requests that Run() makes tasks of
  NumThreads,    \* the threads of the pool
  Null,          \* nullptr
  MayFailWatch   \* inotify_init1() and inotify_add_watch() may fail

ASSUME PlugAssumption ==
  /\ IsFiniteSet(File) /\ Null \notin File \cup {"first", "own"} /\ "own" \notin File
  /\ NumThreads \in Nat \ {0}
  /\ MayFailWatch \in BOOLEAN

VARIABLES
  m_thread_stt, \* DirMonitor::m_thread_stt
  mon,          \* where Monitor() is
  watching,     \* the directory is watched
  events,       \* the names in inotify's queue
  full_name,    \* the names appended to Monitor()'s full_name
  iter,         \* m_callbacks.begin() as NotifyAll() read it
  handle,       \* LoadLib()'s handle
  file,         \* per file how far the user's copying is
  late,         \* history: a file came, or was being handled, while the engine began or ended
  main,         \* where the main thread is
  loader,       \* how much of the DL_Loader and its CallBack exists
  subscribed,   \* the CallBack is in the Dispatcher's vector
  m_fds,        \* DL_Loader::m_fds
  nClosed,      \* handles ~DL_Loader() has closed
  mapped,       \* the plugins whose code is in memory
  m_factory,    \* "unborn", "alive" or "dead"
  creator,      \* whose function makes the task of a READ: "own" or a plugin
  s_instance,   \* Handleton's pointer to the engine is set
  task,         \* per request where its task is and whose code it is
  fault         \* the first use of something that is not there

names   == <<watching, events, full_name>>
locals  == <<iter, handle>>
monitor == <<m_thread_stt, mon, names, locals>>
dl      == <<loader, subscribed, m_fds, nClosed, mapped>>
engine  == <<m_factory, creator, s_instance, task>>
user    == <<file, late>>
rest    == <<user, main, dl, engine, fault>>      \* what Monitor() itself leaves alone
vars    == <<monitor, user, main, dl, engine, fault>>

ThreadStatus == {"RUNING", "INIT", "ERROR", "END_THREAD", "SUCCESS"}

Init ==
  /\ m_thread_stt = "INIT" /\ mon = "init" /\ watching = FALSE
  /\ events = <<>> /\ full_name = <<>> /\ iter = Null /\ handle = Null
  /\ file = [f \in File |-> "absent"] /\ late = FALSE
  /\ main = "subscribe"
  /\ loader = "unborn" /\ subscribed = FALSE /\ m_fds = <<>> /\ nClosed = 0 /\ mapped = {}
  /\ m_factory = "unborn" /\ creator = Null /\ s_instance = FALSE
  /\ task = [r \in Request |-> [at |-> "none", code |-> Null]]
  /\ fault = "none"

\* The monitor's thread, and the main thread, go from one place to another.
MonStep(from, to) == fault = "none" /\ mon = from /\ mon' = to

MainStep(from, to) == fault = "none" /\ main = from /\ main' = to

Faulty(why) == fault' = why /\ UNCHANGED <<monitor, user, main, dl, engine>>

-----------------------------------------------------------------------------
(* The user: copying creates the file first and fills it later.            *)

Create(f) ==
  /\ fault = "none" /\ file[f] = "absent"
  /\ file' = [file EXCEPT ![f] = "created"]
  /\ events' = IF watching THEN Append(events, f) ELSE events
  /\ late' = (late \/ main \notin {"run", "create"})
  /\ UNCHANGED <<m_thread_stt, mon, watching, full_name, locals, main, dl, engine, fault>>

Fill(f) ==
  /\ fault = "none" /\ file[f] = "created"
  /\ file' = [file EXCEPT ![f] = "complete"]
  /\ UNCHANGED <<monitor, late, main, dl, engine, fault>>

\* No event waits for Monitor(), and it is not handling one.
Settled == events = <<>> /\ mon \notin {"read", "begin", "end", "notify", "dlopen", "ctor", "push"}

-----------------------------------------------------------------------------
(* DirMonitor::Monitor().                                                  *)

\* inotify_init1().
InotifyInit ==
  /\ fault = "none" /\ mon = "init"
  /\ \/ mon' = "watch" /\ m_thread_stt' = m_thread_stt
     \/ MayFailWatch /\ mon' = "no_fd" /\ m_thread_stt' = "ERROR"
  /\ UNCHANGED <<names, locals, rest>>

\* inotify_add_watch(); a failure only shows in the status.
AddWatch ==
  /\ MonStep("watch", "runing")
  /\ \/ watching' = TRUE /\ m_thread_stt' = m_thread_stt
     \/ MayFailWatch /\ m_thread_stt' = "ERROR" /\ watching' = watching
  /\ UNCHANGED <<events, full_name, locals, rest>>

\* Epoll::Add() of the descriptor -1 throws, and nothing catches it.
EpollAddThrows ==
  /\ fault = "none" /\ mon = "no_fd"
  /\ Faulty("terminate")

\* Epoll::Add() and SetThreadStatus(RUNING).
SetRuning ==
  /\ MonStep("runing", "test")
  /\ m_thread_stt' = "RUNING"
  /\ UNCHANGED <<names, locals, rest>>

TestStatus ==
  /\ MonStep("test", IF m_thread_stt = "RUNING" THEN "wait" ELSE "close")
  /\ UNCHANGED <<m_thread_stt, names, locals, rest>>

\* Mutant: Epoll::Wait() instead of WaitTimeOut().
WaitNoTimeOut ==
  /\ MonStep("wait", "read") /\ events # <<>>
  /\ UNCHANGED <<m_thread_stt, names, locals, rest>>

\* Epoll::WaitTimeOut(): there is something to read, or the time is over.
WaitTimeOut ==
  /\ MonStep("wait", IF events = <<>> THEN "test" ELSE "read")
  /\ UNCHANGED <<m_thread_stt, names, locals, rest>>

\* Mutant: the last event in buf instead of the first.
ReadLastEvent ==
  /\ MonStep("read", "begin")
  /\ full_name' = Append(full_name, events[Len(events)])
  /\ events' = <<>>
  /\ UNCHANGED <<m_thread_stt, watching, locals, rest>>

\* One read() takes all queued events, of which the first is handled; its name is
\* appended to what full_name already holds.
ReadEvent ==
  /\ MonStep("read", "begin")
  /\ full_name' = Append(full_name, Head(events))
  /\ events' = <<>>
  /\ UNCHANGED <<m_thread_stt, watching, locals, rest>>

\* NotifyAll() reads begin() of the vector, null until the first Add().
NotifyBegin ==
  /\ MonStep("begin", "end")
  /\ iter' = IF loader = "unborn" THEN Null ELSE "first"
  /\ UNCHANGED <<m_thread_stt, names, handle, rest>>

\* NotifyAll() reads end(): a begin() from before the first Add() does not go with it.
NotifyEnd ==
  /\ fault = "none" /\ mon = "end"
  /\ \/ /\ iter = Null /\ loader # "unborn"
        /\ Faulty("torn_vector")
     \/ /\ iter = Null => loader = "unborn"
        /\ mon' = IF subscribed THEN "notify" ELSE "test"
        /\ UNCHANGED <<m_thread_stt, names, locals, rest>>

\* The virtual call of Notify(): pure before CallBack's constructor and after its
\* destructor.
Notify ==
  /\ fault = "none" /\ mon = "notify"
  /\ \/ /\ loader = "alive"
        /\ mon' = "dlopen"
        /\ UNCHANGED <<m_thread_stt, names, locals, rest>>
     \/ /\ loader # "alive"
        /\ Faulty("callback")

\* dlopen() in LoadLib(): the path must be that of one file, and the file whole.
Dlopen ==
  /\ fault = "none" /\ mon = "dlopen"
  /\ \/ \E f \in File :
          /\ full_name = <<f>> /\ file[f] = "complete"
          /\ mapped' = mapped \cup {f} /\ handle' = f /\ mon' = "ctor"
     \/ /\ \A f \in File : full_name = <<f>> => file[f] # "complete"
        /\ handle' = Null /\ mon' = "push" /\ mapped' = mapped
  /\ UNCHANGED <<m_thread_stt, names, iter, user, main,
                 loader, subscribed, m_fds, nClosed, engine, fault>>

\* InitSharedObjet() of the plugin, inside dlopen(): GetInstance() waits until the
\* engine is stored, and AddTask() replaces the creator of READ.  The map is
\* not locked: the main thread may be in it.
PluginConstructor ==
  /\ fault = "none" /\ mon = "ctor" /\ s_instance
  /\ \/ /\ m_factory = "dead"
        /\ Faulty("factory")
     \/ /\ m_factory = "alive" /\ main \in {"add_tasks", "create"}
        /\ Faulty("factory_race")
     \/ /\ m_factory = "alive"
        /\ creator' = handle
        /\ mon' = "push"
        /\ UNCHANGED <<m_thread_stt, names, locals, user, main, dl,
                       m_factory, s_instance, task, fault>>

\* m_fds.push_back(handle) ends LoadLib() and NotifyAll().
Push ==
  /\ fault = "none" /\ mon = "push"
  /\ \/ /\ loader = "dead"
        /\ Faulty("loader")
     \/ /\ loader # "dead"
        /\ m_fds' = Append(m_fds, handle)
        /\ mon' = "test"
        /\ UNCHANGED <<m_thread_stt, names, locals, user, main,
                       loader, subscribed, nClosed, mapped, engine, fault>>

Close ==
  /\ MonStep("close", "done")
  /\ watching' = FALSE
  /\ m_thread_stt' = "SUCCESS"
  /\ UNCHANGED <<events, full_name, locals, rest>>

Monitor ==
  \/ InotifyInit \/ AddWatch \/ EpollAddThrows \/ SetRuning
  \/ TestStatus \/ WaitTimeOut \/ ReadEvent
  \/ NotifyBegin \/ NotifyEnd \/ Notify
  \/ Dlopen \/ PluginConstructor \/ Push
  \/ Close

-----------------------------------------------------------------------------
(* The main thread: RequestEngine's constructor, Run() and ~RequestEngine(). *)

\* CallBackBase's constructor adds the half-built CallBack to the Dispatcher.
Subscribe ==
  /\ MainStep("subscribe", "derive")
  /\ loader' = "base" /\ subscribed' = TRUE
  /\ UNCHANGED <<monitor, user, m_fds, nClosed, mapped, engine, fault>>

\* Mutant: the loader is a temporary of the constructor, and its CallBack is not removed.
FinishLoaderTemporary ==
  /\ MainStep("derive", "publish")
  /\ loader' = "dead" /\ m_factory' = "alive"
  /\ UNCHANGED <<monitor, user, subscribed, m_fds, nClosed, mapped, creator, s_instance, task, fault>>

\* The rest of CallBack's and DL_Loader's constructors, and the factory's.
FinishLoader ==
  /\ MainStep("derive", "publish")
  /\ loader' = "alive" /\ m_factory' = "alive"
  /\ UNCHANGED <<monitor, user, subscribed, m_fds, nClosed, mapped, creator, s_instance, task, fault>>

\* GetInstance() stores the pointer and unlocks s_mutex.
Publish ==
  /\ MainStep("publish", "add_tasks")
  /\ s_instance' = TRUE
  /\ UNCHANGED <<monitor, user, dl, m_factory, creator, task, fault>>

\* AddTasksToReqEngine(), up to Run().
AddTasks ==
  /\ MainStep("add_tasks", "run")
  /\ creator' = "own"
  /\ UNCHANGED <<monitor, user, dl, m_factory, s_instance, task, fault>>

\* Run(): a request was read, Factory::Create() is entered.
CreateBegin(r) ==
  /\ MainStep("run", "create") /\ task[r].at = "none"
  /\ task' = [task EXCEPT ![r].at = "create"]
  /\ UNCHANGED <<monitor, user, dl, m_factory, creator, s_instance, fault>>

\* Factory::Create() calls the creator; ThreadPool::AddTask().
CreateEnd ==
  /\ MainStep("create", "run")
  /\ task' = [r \in Request |-> IF task[r].at = "create"
                                THEN [at |-> "queued", code |-> creator] ELSE task[r]]
  /\ UNCHANGED <<monitor, user, dl, m_factory, creator, s_instance, fault>>

\* Mutant: the factory is declared before the loader and outlives it.
ReleaseKeepsFactory ==
  /\ MainStep("run", "dlclose")
  /\ late' = (late \/ ~Settled)
  /\ UNCHANGED <<monitor, file, dl, engine, fault>>

\* Run() has returned; ReleaseResources() deletes the engine: first the
\* gateways and the factory.
Release ==
  /\ MainStep("run", "dlclose")
  /\ late' = (late \/ ~Settled)
  /\ m_factory' = "dead"
  /\ UNCHANGED <<monitor, file, dl, creator, s_instance, task, fault>>

\* ~DL_Loader(): dlclose() of one handle, which waits while another thread is in
\* dlopen(); of a null handle it is a segmentation fault.
Dlclose ==
  /\ fault = "none" /\ main = "dlclose" /\ nClosed < Len(m_fds) /\ mon # "ctor"
  /\ LET h == m_fds[nClosed + 1]
     IN \/ /\ h = Null
           /\ Faulty("null_handle")
        \/ /\ h # Null
           /\ mapped' = mapped \ {h} /\ nClosed' = nClosed + 1
           /\ UNCHANGED <<monitor, user, main, loader, subscribed, m_fds, engine, fault>>

\* The end of ~DL_Loader()'s loop, and ~CallBack().
EndLoader ==
  /\ MainStep("dlclose", "remove") /\ nClosed = Len(m_fds)
  /\ loader' = "base"
  /\ UNCHANGED <<monitor, user, subscribed, m_fds, nClosed, mapped, engine, fault>>

\* ~CallBackBase(): Dispatcher::Remove(), and the end of m_fds.
RemoveCallBack ==
  /\ MainStep("remove", "spin")
  /\ subscribed' = FALSE /\ loader' = "dead"
  /\ UNCHANGED <<monitor, user, m_fds, nClosed, mapped, engine, fault>>

\* ~DirMonitor() leaves its loop on INIT.
Spin ==
  /\ MainStep("spin", "end") /\ m_thread_stt # "INIT"
  /\ UNCHANGED <<monitor, user, dl, engine, fault>>

SetEndThread ==
  /\ MainStep("end", "join")
  /\ m_thread_stt' = "END_THREAD"
  /\ UNCHANGED <<mon, names, locals, user, dl, engine, fault>>

Join ==
  /\ MainStep("join", "pool") /\ mon = "done"
  /\ UNCHANGED <<monitor, user, dl, engine, fault>>

InCode(r) == task[r].code \in mapped \cup {"own"}

\* ~ThreadPool(): the threads have ended, what is queued is deleted.
StopPool ==
  /\ fault = "none" /\ main = "pool"
  /\ \A r \in Request : task[r].at # "running"
  /\ \/ /\ \E r \in Request : task[r].at = "queued" /\ ~InCode(r)
        /\ Faulty("code")
     \/ /\ \A r \in Request : task[r].at = "queued" => InCode(r)
        /\ main' = "gone"
        /\ UNCHANGED <<monitor, user, dl, engine, fault>>

MainThread ==
  \/ Subscribe \/ FinishLoader \/ Publish \/ AddTasks
  \/ CreateEnd \/ Dlclose \/ EndLoader \/ RemoveCallBack
  \/ Spin \/ SetEndThread \/ Join \/ StopPool

-----------------------------------------------------------------------------
(* The pool threads.                                                       *)

TaskStart(r) ==
  /\ fault = "none" /\ main # "gone" /\ task[r].at = "queued"
  /\ Cardinality({q \in Request : task[q].at = "running"}) < NumThreads
  /\ task' = [task EXCEPT ![r].at = "running"]
  /\ UNCHANGED <<monitor, user, main, dl, m_factory, creator, s_instance, fault>>

TaskExecute(r) ==
  /\ fault = "none" /\ task[r].at = "running"
  /\ \/ /\ InCode(r)
        /\ task' = [task EXCEPT ![r].at = "done"]
        /\ UNCHANGED <<monitor, user, main, dl, m_factory, creator, s_instance, fault>>
     \/ /\ ~InCode(r)
        /\ Faulty("code")

PoolThread(r) == TaskStart(r) \/ TaskExecute(r)

Next ==
  \/ \E f \in File : Create(f) \/ Fill(f)
  \/ Monitor
  \/ MainThread
  \/ \E r \in Request : CreateBegin(r) \/ PoolThread(r)
  \/ Release

Spec == Init /\ [][Next]_vars

\* Every thread runs, and a user who began to copy goes on.  Nothing makes a request
\* or a file come, or the engine stop.
FairSpec ==
  /\ Spec
  /\ WF_vars(Monitor)
  /\ WF_vars(MainThread)
  /\ \A r \in Request : WF_vars(PoolThread(r))
  /\ \A f \in File : WF_vars(Fill(f))

-----------------------------------------------------------------------------
(* Properties.                                                             *)

TypeOK ==
  /\ m_thread_stt \in ThreadStatus
  /\ mon \in {"init", "watch", "no_fd", "runing", "test", "wait", "read", "begin", "end",
              "notify", "dlopen", "ctor", "push", "close", "done"}
  /\ events \in Seq(File) /\ full_name \in Seq(File)
  /\ iter \in {Null, "first"} /\ handle \in File \cup {Null}
  /\ file \in [File -> {"absent", "created", "complete"}] /\ late \in BOOLEAN
  /\ main \in {"subscribe", "derive", "publish", "add_tasks", "run", "create", "dlclose",
               "remove", "spin", "end", "join", "pool", "gone"}
  /\ loader \in {"unborn", "base", "alive", "dead"}
  /\ subscribed \in BOOLEAN /\ watching \in BOOLEAN /\ s_instance \in BOOLEAN
  /\ m_fds \in Seq(File \cup {Null}) /\ nClosed \in 0..Len(m_fds) /\ mapped \subseteq File
  /\ m_factory \in {"unborn", "alive", "dead"} /\ creator \in File \cup {Null, "own"}
  /\ task \in [Request -> [at : {"none", "create", "queued", "running", "done"},
                           code : File \cup {Null, "own"}]]
  /\ fault \in {"none", "terminate", "torn_vector", "callback", "factory", "factory_race",
                "loader", "null_handle", "code"}

\* No thread uses the Dispatcher, the CallBack, the loader or the factory of an engine
\* before it is built or after it is destroyed, as long as no file comes, and none is
\* being loaded, while the engine is built or destroyed.
NoUseOutsideLife == fault \in {"torn_vector", "callback", "loader", "factory"} => late

\* The factory never holds a function of a plugin that ~DL_Loader() has closed: it is
\* destroyed first, whenever plugins come.
CreatorMapped == m_factory = "alive" => creator \in mapped \cup {"own", Null}

\* ~RequestEngine() comes to an end, because the monitor's thread notices within its
\* timeout that it should: only a directory that could not be watched keeps it.
EngineEnds ==
  main = "dlclose" ~> main = "gone" \/ fault # "none" \/ (mon \in {"test", "wait"} /\ ~watching)

\* The first plugin that is announced to a running engine, and is complete by then, gets
\* loaded.
FirstPluginLoads ==
  \A f \in File :
    (~late /\ full_name = <<>> /\ events # <<>> /\ Head(events) = f /\ file[f] = "complete")
      ~> (f \in mapped \/ main = "dlclose" \/ fault # "none")
=============================================================================
