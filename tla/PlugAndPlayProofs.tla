------------------------- MODULE PlugAndPlayProofs -------------------------
(***************************************************************************)
(* PlugAndPlay for every number of plugins, requests and pool threads: as  *)
(* long as no plugin comes while the engine is built or destroyed, nobody  *)
(* uses a part of it that does not exist, and the factory never holds a    *)
(* function of a plugin that was closed.  The inductive invariant says     *)
(* what exists at each step of the main thread's way through the engine's  *)
(* constructor, Run() and destructor, and where the monitor's thread can   *)
(* be meanwhile.                                                           *)
(***************************************************************************)
EXTENDS PlugAndPlay, TLAPS

\* Run(), from its start to the end of the last task it makes.
InRun == main \in {"run", "create"}

\* What has been built and not yet destroyed at each step of the main thread.
Built ==
  /\ main = "derive" => loader = "base"
  /\ main \in {"publish", "add_tasks", "run", "create"} => loader = "alive"
  /\ main \in {"derive", "publish", "add_tasks", "run", "create", "dlclose", "remove"} => subscribed
  /\ main \in {"add_tasks", "run", "create"} => s_instance
  /\ main \in {"subscribe", "derive"} => m_factory = "unborn" /\ creator = Null /\ ~s_instance
  /\ main \in {"publish", "add_tasks", "run", "create"} => m_factory = "alive"
  /\ main \in {"dlclose", "remove", "spin", "end", "join", "pool", "gone"} => m_factory = "dead"
  /\ main \in {"subscribe", "derive", "publish", "add_tasks", "run", "create", "dlclose", "remove",
               "spin", "end", "join", "pool", "gone"}

\* Unless a file came at the wrong moment, the monitor handles one only during Run(), and it
\* began to when the vector of callbacks was there.
MonitorInTime ==
  ~late => /\ ~InRun => Settled
           /\ mon = "end" => iter # Null

\* The monitor's thread is in a constructor of a plugin whose code is in memory.
HandleMapped == mon = "ctor" => handle \in mapped

LifeInv == Built /\ MonitorInTime /\ HandleMapped /\ CreatorMapped /\ NoUseOutsideLife

-----------------------------------------------------------------------------
LEMMA InitLife == Init => LifeInv
BY DEF Init, LifeInv, Built, MonitorInTime, HandleMapped, CreatorMapped, NoUseOutsideLife, Settled, InRun

\* A use of something that does not exist leaves the rest as it is.
LEMMA FaultyLife ==
  ASSUME LifeInv, NEW why, Faulty(why), why \in {"torn_vector", "callback", "loader", "factory"} => late
  PROVE  LifeInv'
BY DEF Faulty, LifeInv, Built, MonitorInTime, HandleMapped, CreatorMapped, NoUseOutsideLife, Settled, InRun,
       monitor, names, locals, user, dl, engine

LEMMA UserLife ==
  ASSUME LifeInv, NEW f \in File, Create(f) \/ Fill(f)
  PROVE  LifeInv'
<1>1. CASE Create(f)
  BY <1>1 DEF Create, LifeInv, Built, MonitorInTime, HandleMapped, CreatorMapped, NoUseOutsideLife, Settled, InRun,
              locals, dl, engine
<1>2. CASE Fill(f)
  BY <1>2 DEF Fill, LifeInv, Built, MonitorInTime, HandleMapped, CreatorMapped, NoUseOutsideLife, Settled, InRun,
              monitor, names, locals, dl, engine
<1> QED
  BY <1>1, <1>2

\* The monitor's thread handles a file only in time, and then everything is there.
LEMMA BusyInRun ==
  ASSUME LifeInv, ~late,
         mon \in {"read", "begin", "end", "notify", "dlopen", "ctor", "push"} \/ events # <<>>
  PROVE  InRun /\ loader = "alive" /\ m_factory = "alive"
BY DEF LifeInv, MonitorInTime, Settled, Built, InRun

LEMMA MonitorLife ==
  ASSUME LifeInv, Monitor
  PROVE  LifeInv'
<1>1. CASE \/ InotifyInit \/ AddWatch \/ SetRuning \/ TestStatus \/ Close
  BY <1>1 DEF InotifyInit, AddWatch, SetRuning, TestStatus, Close, MonStep, LifeInv, Built, MonitorInTime,
              HandleMapped, CreatorMapped, NoUseOutsideLife, Settled, InRun, names, locals, rest, user, dl, engine
<1>2. CASE EpollAddThrows
  BY <1>2, FaultyLife DEF EpollAddThrows
<1>3. CASE WaitTimeOut \/ ReadEvent \/ NotifyBegin
  BY <1>3, BusyInRun, PlugAssumption
     DEF WaitTimeOut, ReadEvent, NotifyBegin, MonStep, LifeInv, Built, MonitorInTime, HandleMapped, CreatorMapped,
         NoUseOutsideLife, Settled, InRun, names, locals, rest, user, dl, engine
<1>4. CASE NotifyEnd
  <2>1. CASE Faulty("torn_vector") /\ iter = Null /\ mon = "end"
    BY <2>1, FaultyLife DEF LifeInv, MonitorInTime
  <2>2. CASE /\ mon = "end" /\ mon' = IF subscribed THEN "notify" ELSE "test"
             /\ UNCHANGED <<m_thread_stt, names, locals, rest>>
    BY <2>2, BusyInRun DEF LifeInv, Built, MonitorInTime, HandleMapped, CreatorMapped,
         NoUseOutsideLife, Settled, InRun, names, locals, rest, user, dl, engine
  <2> QED
    BY <1>4, <2>1, <2>2 DEF NotifyEnd
<1>5. CASE Notify
  <2>1. CASE Faulty("callback") /\ loader # "alive" /\ mon = "notify"
    BY <2>1, FaultyLife, BusyInRun
  <2>2. CASE mon = "notify" /\ mon' = "dlopen" /\ UNCHANGED <<m_thread_stt, names, locals, rest>>
    BY <2>2, BusyInRun DEF LifeInv, Built, MonitorInTime, HandleMapped, CreatorMapped,
         NoUseOutsideLife, Settled, InRun, names, locals, rest, user, dl, engine
  <2> QED
    BY <1>5, <2>1, <2>2 DEF Notify
<1>6. CASE Dlopen
  BY <1>6, BusyInRun DEF Dlopen, LifeInv, Built, MonitorInTime, HandleMapped, CreatorMapped,
         NoUseOutsideLife, Settled, InRun, names, user, engine
<1>7. CASE PluginConstructor
  <2>1. CASE Faulty("factory") /\ m_factory = "dead" /\ mon = "ctor"
    BY <2>1, FaultyLife, BusyInRun
  <2>2. CASE Faulty("factory_race")
    BY <2>2, FaultyLife
  <2>3. CASE /\ mon = "ctor" /\ s_instance /\ creator' = handle /\ mon' = "push"
             /\ UNCHANGED <<m_thread_stt, names, locals, user, main, dl, m_factory, s_instance, task, fault>>
    BY <2>3, BusyInRun DEF LifeInv, Built, MonitorInTime, HandleMapped, CreatorMapped,
         NoUseOutsideLife, Settled, InRun, names, locals, user, dl
  <2> QED
    BY <1>7, <2>1, <2>2, <2>3 DEF PluginConstructor
<1>8. CASE Push
  <2>1. CASE Faulty("loader") /\ loader = "dead" /\ mon = "push"
    BY <2>1, FaultyLife, BusyInRun
  <2>2. CASE /\ mon = "push" /\ mon' = "test"
             /\ UNCHANGED <<names, locals, user, main, loader, subscribed, nClosed, mapped, engine, fault>>
    BY <2>2, BusyInRun DEF LifeInv, Built, MonitorInTime, HandleMapped, CreatorMapped,
         NoUseOutsideLife, Settled, InRun, names, locals, user, engine
  <2> QED
    BY <1>8, <2>1, <2>2 DEF Push
<1> QED
  BY <1>1, <1>2, <1>3, <1>4, <1>5, <1>6, <1>7, <1>8 DEF Monitor

\* A step of the main thread or of the pool that is no fault.
LEMMA MainLife ==
  ASSUME LifeInv, MainThread \/ Release \/ \E r \in Request : CreateBegin(r) \/ PoolThread(r)
  PROVE  LifeInv'
<1>1. CASE Subscribe \/ FinishLoader \/ Publish \/ AddTasks
  <2>1. CASE Subscribe
    BY <2>1 DEF Subscribe, MainStep, LifeInv, Built, MonitorInTime, HandleMapped,
                CreatorMapped, NoUseOutsideLife, Settled, InRun, monitor, names, locals, user, engine
  <2>2. CASE FinishLoader
    BY <2>2 DEF FinishLoader, MainStep, LifeInv, Built, MonitorInTime, HandleMapped,
                CreatorMapped, NoUseOutsideLife, Settled, InRun, monitor, names, locals, user
  <2>3. CASE Publish
    BY <2>3 DEF Publish, MainStep, LifeInv, Built, MonitorInTime, HandleMapped,
                CreatorMapped, NoUseOutsideLife, Settled, InRun, monitor, names, locals, user, dl
  <2>4. CASE AddTasks
    BY <2>4 DEF AddTasks, MainStep, LifeInv, Built, MonitorInTime, HandleMapped,
                CreatorMapped, NoUseOutsideLife, Settled, InRun, monitor, names, locals, user, dl
  <2> QED
    BY <1>1, <2>1, <2>2, <2>3, <2>4
<1>2. CASE CreateEnd \/ \E r \in Request : CreateBegin(r)
  BY <1>2 DEF CreateEnd, CreateBegin, MainStep, LifeInv, Built, MonitorInTime, HandleMapped,
              CreatorMapped, NoUseOutsideLife, Settled, InRun, monitor, names, locals, user, dl
<1>3. CASE Release
  BY <1>3 DEF Release, MainStep, LifeInv, Built, MonitorInTime, HandleMapped,
              CreatorMapped, NoUseOutsideLife, Settled, InRun, monitor, names, locals, dl
<1>4. CASE Dlclose
  <2>1. CASE Faulty("null_handle")
    BY <2>1, FaultyLife
  <2>2. CASE /\ main = "dlclose" /\ mon # "ctor"
             /\ UNCHANGED <<monitor, user, main, loader, subscribed, m_fds, engine, fault>>
    BY <2>2 DEF LifeInv, Built, MonitorInTime, HandleMapped,
              CreatorMapped, NoUseOutsideLife, Settled, InRun, monitor, names, locals, user, engine
  <2> QED
    BY <1>4, <2>1, <2>2 DEF Dlclose
<1>5. CASE EndLoader \/ RemoveCallBack \/ Spin \/ SetEndThread \/ Join
  BY <1>5 DEF EndLoader, RemoveCallBack, Spin, SetEndThread, Join, MainStep, LifeInv, Built, MonitorInTime,
              HandleMapped, CreatorMapped, NoUseOutsideLife, Settled, InRun, monitor, names, locals, user, dl, engine
<1>6. CASE StopPool
  <2>1. CASE Faulty("code")
    BY <2>1, FaultyLife
  <2>2. CASE main = "pool" /\ main' = "gone" /\ UNCHANGED <<monitor, user, dl, engine, fault>>
    BY <2>2 DEF LifeInv, Built, MonitorInTime, HandleMapped,
              CreatorMapped, NoUseOutsideLife, Settled, InRun, monitor, names, locals, user, dl, engine
  <2> QED
    BY <1>6, <2>1, <2>2 DEF StopPool
<1>7. ASSUME NEW r \in Request, PoolThread(r) PROVE LifeInv'
  <2>1. CASE Faulty("code")
    BY <2>1, FaultyLife
  <2>2. CASE UNCHANGED <<monitor, user, main, dl, m_factory, creator, s_instance, fault>>
    BY <2>2 DEF LifeInv, Built, MonitorInTime, HandleMapped,
              CreatorMapped, NoUseOutsideLife, Settled, InRun, monitor, names, locals, user, dl
  <2> QED
    BY <1>7, <2>1, <2>2 DEF PoolThread, TaskStart, TaskExecute
<1> QED
  BY <1>1, <1>2, <1>3, <1>4, <1>5, <1>6, <1>7 DEF MainThread

LEMMA NextLife == LifeInv /\ [Next]_vars => LifeInv'
<1> SUFFICES ASSUME LifeInv, [Next]_vars PROVE LifeInv'
  OBVIOUS
<1>1. CASE UNCHANGED vars
  BY <1>1 DEF vars, LifeInv, Built, MonitorInTime, HandleMapped,
              CreatorMapped, NoUseOutsideLife, Settled, InRun, monitor, names, locals, user, dl, engine
<1> QED
  BY <1>1, UserLife, MonitorLife, MainLife DEF Next

LEMMA LifeInvariant == Spec => []LifeInv
BY InitLife, NextLife, PTL DEF Spec

\* No thread uses the Dispatcher, the CallBack, the loader or the factory before it is built
\* or after it is destroyed, unless a file comes, or is being loaded, while the engine is
\* built or destroyed: for any number of plugins, requests and threads.
THEOREM NoUseOutsideLifeCorrect == Spec => []NoUseOutsideLife
BY LifeInvariant, PTL DEF LifeInv

\* The factory never holds a function of a plugin that ~DL_Loader() has closed, whenever
\* plugins come and however many.
THEOREM CreatorMappedCorrect == Spec => []CreatorMapped
BY LifeInvariant, PTL DEF LifeInv

-----------------------------------------------------------------------------
(* Types.                                                                  *)

\* What Monitor() keeps, and what the engine consists of.
MonitorTypes ==
  /\ m_thread_stt \in ThreadStatus
  /\ mon \in {"init", "watch", "no_fd", "runing", "test", "wait", "read", "begin", "end",
              "notify", "dlopen", "ctor", "push", "close", "done"}
  /\ events \in Seq(File) /\ full_name \in Seq(File)
  /\ iter \in {Null, "first"} /\ handle \in File \cup {Null}
  /\ watching \in BOOLEAN
  /\ mon = "read" => events # <<>>
  /\ mon = "ctor" => handle \in File

EngineTypes ==
  /\ main \in {"subscribe", "derive", "publish", "add_tasks", "run", "create", "dlclose",
               "remove", "spin", "end", "join", "pool", "gone"}
  /\ loader \in {"unborn", "base", "alive", "dead"}
  /\ subscribed \in BOOLEAN /\ s_instance \in BOOLEAN
  /\ m_fds \in Seq(File \cup {Null}) /\ nClosed \in 0..Len(m_fds) /\ mapped \subseteq File
  /\ m_factory \in {"unborn", "alive", "dead"} /\ creator \in File \cup {Null, "own"}
  /\ task \in [Request -> [at : {"none", "create", "queued", "running", "done"},
                           code : File \cup {Null, "own"}]]
  /\ fault \in {"none", "terminate", "torn_vector", "callback", "factory", "factory_race",
                "loader", "null_handle", "code"}

UserTypes == file \in [File -> {"absent", "created", "complete"}] /\ late \in BOOLEAN

PlugTypes == MonitorTypes /\ EngineTypes /\ UserTypes

LEMMA InitPlugTypes == Init => PlugTypes
<1> SUFFICES ASSUME Init PROVE PlugTypes
  OBVIOUS
<1>1. MonitorTypes
  <2>1. mon = "init" /\ m_thread_stt = "INIT" /\ iter = Null /\ handle = Null /\ watching = FALSE
    BY DEF Init
  <2>2. events \in Seq(File) /\ full_name \in Seq(File)
    BY DEF Init
  <2>3. m_thread_stt \in ThreadStatus
    BY <2>1 DEF ThreadStatus
  <2>4. (mon = "read" => events # <<>>) /\ (mon = "ctor" => handle \in File)
    BY ONLY <2>1
  <2>5. mon \in {"init", "watch", "no_fd", "runing", "test", "wait", "read", "begin", "end",
                "notify", "dlopen", "ctor", "push", "close", "done"}
    BY ONLY <2>1, Zenon
  <2> QED
    BY <2>1, <2>2, <2>3, <2>4, <2>5, Zenon DEF MonitorTypes
<1>2. EngineTypes
  <2>1. m_fds \in Seq(File \cup {Null}) /\ nClosed \in 0..Len(m_fds)
    BY DEF Init
  <2>2. task \in [Request -> [at : {"none", "create", "queued", "running", "done"},
                             code : File \cup {Null, "own"}]]
    <3>1. [at |-> "none", code |-> Null] \in [at : {"none", "create", "queued", "running", "done"},
                                            code : File \cup {Null, "own"}]
      OBVIOUS
    <3> QED
      BY <3>1 DEF Init
  <2> QED
    BY <2>1, <2>2 DEF Init, EngineTypes
<1>3. UserTypes
  BY DEF Init, UserTypes
<1> QED
  BY <1>1, <1>2, <1>3 DEF PlugTypes

LEMMA FaultyTypes ==
  ASSUME PlugTypes, NEW why \in {"terminate", "torn_vector", "callback", "factory", "factory_race",
                                 "loader", "null_handle", "code"}, Faulty(why)
  PROVE  PlugTypes'
<1>1. fault' = why /\ UNCHANGED <<monitor, user, main, dl, engine>>
  BY DEF Faulty
<1>2. MonitorTypes' /\ UserTypes'
  BY <1>1 DEF PlugTypes, MonitorTypes, UserTypes, monitor, names, locals, user
<1>3. EngineTypes'
  BY <1>1 DEF PlugTypes, EngineTypes, dl, engine
<1> QED
  BY <1>2, <1>3 DEF PlugTypes

LEMMA MonitorPlugTypes ==
  ASSUME PlugTypes, Monitor
  PROVE  PlugTypes'
<1>1. CASE InotifyInit \/ AddWatch \/ SetRuning \/ TestStatus \/ WaitTimeOut \/ NotifyBegin \/ Close
  <2>1. UserTypes' /\ EngineTypes'
    BY <1>1 DEF InotifyInit, AddWatch, SetRuning, TestStatus, WaitTimeOut, NotifyBegin, Close, MonStep,
                PlugTypes, EngineTypes, UserTypes, rest, user, dl, engine
  <2>2. MonitorTypes'
    BY <1>1 DEF InotifyInit, AddWatch, SetRuning, TestStatus, WaitTimeOut, NotifyBegin, Close, MonStep,
                PlugTypes, MonitorTypes, ThreadStatus, names, locals
  <2> QED
    BY <2>1, <2>2 DEF PlugTypes
<1>2. CASE ReadEvent
  BY <1>2 DEF ReadEvent, MonStep, PlugTypes, MonitorTypes, EngineTypes, UserTypes, locals, rest, user, dl, engine
<1>3. CASE EpollAddThrows \/ NotifyEnd \/ Notify
  BY <1>3, FaultyTypes DEF EpollAddThrows, NotifyEnd, Notify, PlugTypes, MonitorTypes, EngineTypes, UserTypes,
                           names, locals, rest, user, dl, engine
<1>4. CASE Dlopen
  BY <1>4 DEF Dlopen, PlugTypes, MonitorTypes, EngineTypes, UserTypes, names, user, engine
<1>5. ASSUME PluginConstructor \/ Push, NEW why \in {"factory", "factory_race", "loader"}, Faulty(why)
      PROVE  PlugTypes'
  BY <1>5, FaultyTypes
<1>6. CASE /\ mon = "ctor" /\ creator' = handle /\ mon' = "push"
           /\ UNCHANGED <<m_thread_stt, names, locals, user, main, dl, m_factory, s_instance, task, fault>>
  BY <1>6 DEF PlugTypes, MonitorTypes, EngineTypes, UserTypes, names, locals, user, dl
<1>7. CASE /\ m_fds' = Append(m_fds, handle) /\ mon' = "test"
           /\ UNCHANGED <<m_thread_stt, names, locals, user, main, loader, subscribed, nClosed, mapped, engine, fault>>
  BY <1>7 DEF PlugTypes, MonitorTypes, EngineTypes, UserTypes, names, locals, user, engine
<1>8. CASE PluginConstructor \/ Push
  BY <1>5, <1>6, <1>7, <1>8 DEF PluginConstructor, Push
<1> QED
  BY <1>1, <1>2, <1>3, <1>4, <1>8 DEF Monitor

LEMMA MainPlugTypes ==
  ASSUME PlugTypes, MainThread \/ Release \/ \E r \in Request : CreateBegin(r) \/ PoolThread(r)
  PROVE  PlugTypes'
<1>1. CASE Subscribe \/ FinishLoader \/ Publish \/ AddTasks \/ Release
  <2>1. MonitorTypes' /\ UserTypes'
    BY <1>1 DEF Subscribe, FinishLoader, Publish, AddTasks, Release, Settled, PlugTypes, MonitorTypes, UserTypes,
                monitor, names, locals, user
  <2>2. EngineTypes'
    BY <1>1 DEF Subscribe, FinishLoader, Publish, AddTasks, Release, MainStep, PlugTypes, EngineTypes, dl, engine
  <2> QED
    BY <2>1, <2>2 DEF PlugTypes
<1>2. CASE EndLoader \/ RemoveCallBack \/ Spin \/ SetEndThread \/ Join
  <2>1. MonitorTypes' /\ UserTypes'
    BY <1>2 DEF EndLoader, RemoveCallBack, Spin, SetEndThread, Join, PlugTypes, MonitorTypes, ThreadStatus,
                UserTypes, monitor, names, locals, user
  <2>2. EngineTypes'
    BY <1>2 DEF EndLoader, RemoveCallBack, Spin, SetEndThread, Join, MainStep, PlugTypes, EngineTypes, dl, engine
  <2> QED
    BY <2>1, <2>2 DEF PlugTypes
<1>3. CASE Dlclose
  <2>1. CASE Faulty("null_handle")
    BY <2>1, FaultyTypes
  <2>2. CASE /\ nClosed < Len(m_fds) /\ nClosed' = nClosed + 1
             /\ \E h : mapped' = mapped \ {h}
             /\ UNCHANGED <<monitor, user, main, loader, subscribed, m_fds, engine, fault>>
    <3>1. MonitorTypes' /\ UserTypes'
      BY <2>2 DEF PlugTypes, MonitorTypes, UserTypes, monitor, names, locals, user
    <3>2. EngineTypes'
      BY <2>2 DEF PlugTypes, EngineTypes, engine
    <3> QED
      BY <3>1, <3>2 DEF PlugTypes
  <2> QED
    BY <1>3, <2>1, <2>2 DEF Dlclose
<1>4. CASE StopPool
  <2>1. CASE Faulty("code")
    BY <2>1, FaultyTypes
  <2>2. CASE main' = "gone" /\ UNCHANGED <<monitor, user, dl, engine, fault>>
    <3>1. MonitorTypes' /\ UserTypes'
      BY <2>2 DEF PlugTypes, MonitorTypes, UserTypes, monitor, names, locals, user
    <3>2. EngineTypes'
      BY <2>2 DEF PlugTypes, EngineTypes, engine, dl
    <3> QED
      BY <3>1, <3>2 DEF PlugTypes
  <2> QED
    BY <1>4, <2>1, <2>2 DEF StopPool
<1>5. ASSUME CreateEnd \/ \E r \in Request : CreateBegin(r) \/ PoolThread(r) PROVE PlugTypes'
  <2>1. CASE Faulty("code")
    BY <2>1, FaultyTypes
  <2>2. CASE ~Faulty("code")
    <3>1. MonitorTypes' /\ UserTypes'
      BY ZenonT(40), <1>5, <2>2 DEF CreateBegin, CreateEnd, PoolThread, TaskStart, TaskExecute, PlugTypes, MonitorTypes, UserTypes,
                        monitor, names, locals, user
    <3>2. task' \in [Request -> [at : {"none", "create", "queued", "running", "done"},
                                 code : File \cup {Null, "own"}]]
      <4>1. task \in [Request -> [at : {"none", "create", "queued", "running", "done"},
                                  code : File \cup {Null, "own"}]]
        BY DEF PlugTypes, EngineTypes
      <4>2. creator \in File \cup {Null, "own"}
        BY DEF PlugTypes, EngineTypes
      <4>3. CASE CreateEnd
        BY <4>1, <4>2, <4>3 DEF CreateEnd
      <4>4. CASE \E r \in Request : CreateBegin(r) \/ TaskStart(r) \/ TaskExecute(r)
        BY <2>2, <4>1, <4>4 DEF CreateBegin, TaskStart, TaskExecute
      <4> QED
        BY <1>5, <4>3, <4>4 DEF PoolThread
    <3>3. EngineTypes'
      BY ZenonT(40), <1>5, <2>2, <3>2 DEF CreateBegin, CreateEnd, PoolThread, TaskStart, TaskExecute, MainStep, PlugTypes,
                              EngineTypes, dl
    <3> QED
      BY <3>1, <3>3 DEF PlugTypes
  <2> QED
    BY <2>1, <2>2
<1> QED
  BY <1>1, <1>2, <1>3, <1>4, <1>5 DEF MainThread

LEMMA NextPlugTypes == ASSUME PlugTypes, [Next]_vars PROVE PlugTypes'
<1>1. ASSUME NEW f \in File, Create(f) \/ Fill(f) PROVE PlugTypes'
  <2>1. EngineTypes'
    BY <1>1 DEF Create, Fill, PlugTypes, EngineTypes, dl, engine
  <2>2. UserTypes'
    BY <1>1 DEF Create, Fill, PlugTypes, UserTypes
  <2>3. MonitorTypes'
    <3>1. CASE Create(f)
      BY <3>1 DEF Create, PlugTypes, MonitorTypes, locals
    <3>2. CASE Fill(f)
      BY <3>2 DEF Fill, PlugTypes, MonitorTypes, monitor, names, locals
    <3> QED
      BY <1>1, <3>1, <3>2
  <2> QED
    BY <2>1, <2>2, <2>3 DEF PlugTypes
<1>2. CASE UNCHANGED vars
  BY <1>2 DEF vars, PlugTypes, MonitorTypes, EngineTypes, UserTypes, monitor, names, locals, user, dl, engine
<1> QED
  BY <1>1, <1>2, MonitorPlugTypes, MainPlugTypes DEF Next

\* The values the variables take: among them every handle m_fds holds, null where dlopen()
\* failed, every plugin in memory, and whose function made each task.
THEOREM PlugTypesCorrect == Spec => []TypeOK
<1>1. PlugTypes => TypeOK
  BY DEF PlugTypes, MonitorTypes, EngineTypes, UserTypes, TypeOK
<1> QED
  BY InitPlugTypes, NextPlugTypes, <1>1, PTL DEF Spec
=============================================================================
