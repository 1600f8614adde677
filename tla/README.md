# greencloud: a TLA+ verification project

greencloud is a network block device. The Linux kernel sends the requests of an
NBD device to a *master* process, which forwards them in UDP datagrams to a
*slave* process that keeps the sectors in a mapped file. This directory models
the program, checks it with TLC on small instances, and proves with TLAPS, for
every value of the constants, each safety property that the passing runs check: those of
the library classes, of the streams, the handshake, the storage and the log, of the
engine's life, and that the system as a whole implements a disk. Paths are relative to
the repository, in which the sources are `src/`, `include/` and `release/`.

## 1. Inventory

| Part | State | Operations | What makes it correct |
|---|---|---|---|
| ThreadPool (`thread_pool.cpp`) | threads, priority queue of tasks, `m_thread_sem`, `m_main_sem` | `AddTask`, `Suspend`, `Resume`, `Stop`, `ThreadFunc` | tasks run once and are not lost; Suspend returns with every thread quiescent; Resume leaves no token; system tasks go first; every call returns |
| WPriorityQueue (`wpriorityqueue.hpp`), Semaphore (`semaphore.cpp`) | heap, mutex, counting semaphore | `Push`, `Pop`, timed `Pop`, `Post`, `Wait`, `TimedWait` | one token per item; `LockAndPop` never meets an empty heap; it is a priority queue |
| NBDDriverProxy (`nbd_driver_proxy.cpp`) | socket pair, `m_mutex` | `ReceiveRequest`, `SendReply`, `ReadAll`, `WriteAll`, `Disconnect` | requests are cut out of the stream whole; one reply for each, its data directly behind its header |
| CloudStorage (`cloud_storage.cpp`) | sockets, slaves, `m_req_id`, `m_list` of (number, handle) | handshake, `Read`, `Write`, `HandlerToId`, `IdToHandler`, `Disconnect` | a number stands for one request; each reply reaches its own handle |
| SlaveGateway (`slave_gateway.cpp`) | socket of one slave | `Read`, `CreateDataFromBuff` | a reply becomes exactly one NBDReplay task |
| RequestEngine (`request_engine.hpp`), Epoll, Factory, Gateways | gateways, task factory, pool, running flag | `Run`, `Stop`, construction, destruction | it is stopped before the driver it polls is closed; it notices that it should end; no member is used before or after its life |
| Tasks (`nbd_tasks.hpp`, `slave_tasks.hpp`, `stdin_tasks.hpp`) | arguments | `Execute` | each request has its effect at most once |
| SlaveDriverProxy (`slave_driver_proxy.cpp`) | socket, master's address | `ReceiveRequest`, `SendReply`, `Disconnect` | what is stored is what was sent |
| MmapStorage (`mmap_storage.cpp`) | mapped file | `Read`, `Write` | a READ finds what the last WRITE left |
| Master (`release/greencloud.0.5.cpp`), slave (`release/slave.cpp`) | the objects above | start, end, signals | together they are a disk |
| Plug and play (`plug_and_play.cpp`) | monitor thread and its status, path, handles | `Monitor`, `EndThread`, `LoadLib`, `~DL_Loader` | the monitor ends when told to; a plugin's code is mapped as long as it is used |
| Dispatcher and CallBack (`dispatcher_callback.hpp`) | vector of callbacks; each callback's dispatcher | construction, deletion, `NotifyAll`, `~Dispatcher` | both sides agree on who is subscribed; no dead object is called |
| Handleton (`handleton.hpp`), Singleton (`singleton.hpp`) | pointer, mutex, owner | `GetInstance`, `ReleaseResources` | one instance; none is seen before it is built |
| Logger (`logger.cpp`) | file, stream buffer, mutex | constructor, `Write`, destructor | lines are whole and kept, and fit their buffer |

How they interact. In the master the main thread waits in the slave handshake,
then runs `RequestEngine::Run()`: epoll reports a descriptor (NBD socket, slave
socket, stdin), its gateway reads one message from it, the factory makes a task
of it, and the task goes into the thread pool. Pool threads execute the tasks: a
READ or WRITE gets a number from `HandlerToId()` and is sent to the slave; a
slave's answer is turned back into a handle by `IdToHandler()` in the main
thread and written to the kernel by an NBDReplay task, under `m_mutex`. The
slave runs the same engine on a SlaveDriverProxy and one pool thread. Every
engine also has a thread that watches the plugin directory, tells the loader
through the Dispatcher of a new file, and so has the file's constructor change the
engine's factory.

What is hard: pool threads race with each other and with the main thread;
the suspend handshake shares two semaphores among all threads; UDP loses,
duplicates and reorders; the slave can be killed and restarted, and its hello
then looks like a reply; streams are read and written in parts;
`Disconnect()` closes the socket without the lock that `SendReply()` holds;
the engine's members are destroyed while the monitor's thread still runs;
processes share a log file. `PROJECT.json` lists these hazards with their lines
and the properties that watch them.

## 2. Modules

| Module | Models |
|---|---|
| `ThreadPool` | the pool, its queue and its semaphores |
| `WPriorityQueue` | the queue by itself, with its blocking, timed and interrupted waits |
| `PriorityQueue` | the abstract queue `WPriorityQueue` implements |
| `Dispatcher` | Dispatcher and CallBack in one thread |
| `Handleton` | `GetInstance()` of Handleton and Singleton, and `ReleaseResources()` |
| `Wire` | what the C string functions do to sector data |
| `Network` | UDP between master and slave (external) |
| `Nbd` | the kernel's end of the socket pair (external) |
| `Master` | the master process, extending `Nbd` and `Network` |
| `Slave` | the slave process, extending `Wire` and `Network` |
| `GreenCloud` | all of them together, and the properties of the system |
| `BlockDevice` | the abstract disk the system implements |
| `NbdStream` | the socket pair as byte streams, and the main loop that reads it |
| `Handshake` | the start of the master with any number of slaves |
| `MmapStorage` | the mapping under any number of slave threads, one word at a time |
| `PlugAndPlay` | the life of an engine with its plugin directory |
| `Logger` | the log files of several processes |
| `ThreadPoolProofs` | theorems about `ThreadPool` |
| `LibraryProofs` | theorems about `WPriorityQueue`, `Dispatcher` and `Handleton` |
| `GreenCloudInv` | the inductive invariant of `GreenCloud`, part by part |
| `SystemProofs`, `RequestProofs`, `DiskProofs` | theorems about `GreenCloud`, each building on the one before: types and the driver's end; requests and their numbers; the refinement of `BlockDevice` |
| `PlugAndPlayProofs`, `LoggerProofs` | theorems about the modules of those names |
| `IoProofs` | theorems about `Handshake`, `MmapStorage` and `NbdStream` |
| `MCThreadPool`, `MCGreenCloud` | instances for TLC |
| `MCParts` | instance of `WPriorityQueue`, `Dispatcher`, `Handleton`, `NbdStream`, `Handshake` and `MmapStorage` |
| `MCBeside` | instance of `PlugAndPlay` and `Logger` |

`MCParts` and `MCBeside` put components that share nothing beside each other: the
variable `part` says which one a behaviour runs, so their states add up and do not multiply.

### ThreadPool

`m_pq` is the set of user tasks in the heap (each task is one object, added
once); `nStop` and `nSuspend` count the system tasks, which are all alike.
`m_sem`, `m_thread_sem` and `m_main_sem` are the semaphore values. `pc` says
where each thread is in `ThreadFunc()`, `main` and `cnt` where the main thread is
in `Suspend()`, `Resume()` or `Stop()` and how many iterations of its current
loop are left. A step is one semaphore operation or one critical section of the
queue's mutex, which is all that other threads can observe.

`PopWait` is `m_sem.Wait()`; `PopTask`, `PopStop` and `PopSuspend` are
`LockAndPop()` with the three kinds of element, the last two including the throw
of `Execute()` and the catch; `IsTop` is the heap's order (`SYSTEM` is above every
user priority, ties are free). `SuspendPost`, `SuspendWait` and `ResumePost` are
the three semaphore operations of the SUSPEND branch. `ExecuteThrows` is an
exception that is not a `ThreadMsg`, and `WaitInterrupted` a `sem_wait()` that
fails: neither is caught, so `std::terminate()` ends the process.

Assumed of the caller: one thread calls the interface, `Suspend` on a running
pool and `Resume` on a suspended one, as the program's tests do.
`MayStopSuspended` decides whether the destructor may run on a suspended pool.

### WPriorityQueue and PriorityQueue

Here the mutex is a variable of its own, `pc` says where each thread is in `Push()` or
`Pop()`, and a step is one access to the semaphore, the mutex or the heap. `Block` is a wait
that found no token; `TimeOut` and `Interrupt` end it, also when a token has come in the
meantime. `PriorityQueue` has `AbsPush` and `AbsPop` in one step each; `IsPriorityQueue`
maps the heap to its queue, so `PushItem` and `LockAndPop` are the moments at which the
calls take effect.

### Dispatcher

`size`, `capacity` and `m_callbacks` are the vector, `alive` the callbacks that exist and
`bound` those whose `m_dispatcher` is not null. `Add` and `Remove` are the vector's changes, the
swap with the last element included; `NotifyAll` and `Notify` are the loop's begin and one
iteration; `Destroy`, `OutOfService` and `Destroyed` are `~Dispatcher()` and an iteration of its
loop. Between two iterations of either loop the method that was called last, an action method or a
stop method, may `Connect` and `Disconnect` any callbacks, its own and others, and so pull the vector
from under the range-for of `~Dispatcher()`. `fault` records a use of a dead object. `moved` and
`disturbed` remember what the methods did to the vector under the loop.

### Handleton

`at` says where each caller is in `GetInstance()`. A `T` is a number; `built` and `freed` are
the sets of those whose constructor has ended and of those deleted. The stores are
release, the loads acquire, so the interleavings of the model are the ones there are.

### Wire, Master, Slave

`Strcpy` yields every payload that agrees with the original up to its first NUL:
the rest of the destination is uninitialised heap. `AddMessage` copies up to the
first NUL into zeros.

In `Master`, `mStt` is the main thread's place (handshake, `Run()`, stopping) or how
the process ended; `mQueue` is the bag of tasks in the pool; `worker` says for
each pool thread which task it executes and how far it is; `m_mutex`, `m_req_id`,
`m_list` and `m_cliaddr` have the names of the code. `SlaveHello`, `NbdRead`,
`NbdReadEof`, `SlaveRead`, `StdinRead` and `Signal` are the main thread's reads,
each with the task it adds. `HandlerToId` then `StorageSend` are
`CloudStorage::Read/Write`; `SendReply` then `SendReplyData` are
`NBDDriverProxy::SendReply`, split where another thread can act;
`StorageDisconnect` then `DriverDisconnect` are `NBDDisconnect::Execute`. The pool
appears as `ThreadPool` shows it to behave: any queued task may be next (they
have one priority), and a TPStop overtakes what is queued. `SetNbdFails` is the thread of
`ThreadFuncSetNBD()`, whose ioctls may fail at any time until it is joined, and which then ends the
process with `exit(-1)`. `MayFail` says whether sends and ioctls can fail.

`m_status` of a reply is never assigned; `UninitStatus` is the set of values
the uninitialised field may hold, 0 standing for no error and 1 for any other.

In `Slave`, a boot gives the process a new address `sPort` and sends the hello;
`ReceiveRequest` is the main thread; `Write`, `Read`, `SlaveSendReply` and
`SlaveDisconnect` are the pool thread; `Crash` kills the process at any point,
and the mapped file survives.

### GreenCloud and BlockDevice

`BlockDevice` is a disk: a request takes effect at one moment between its
submission and its completion; a READ returns what its sector held then; a request
may fail, or never be answered, and one that failed may still take effect once.
`GreenCloud!Disk` is the refinement mapping: the disk is the slave's storage, the
requests are the kernel's, and the history variable `seen` records when a request
reached the storage and what it found. `IsDisk` states that the system implements it.

### NbdStream, Handshake, MmapStorage

`NbdStream` opens up what `Master` takes as one step. A request is a header and, for a
WRITE, units of data that the kernel sends one at a time; `ReadAll` and `WriteAll` are one
`read()` or `write()` each, of as many units as there are or as fit. `WaitTimeOut` is
`epoll_wait()`, which a signal may interrupt; a signal that comes elsewhere runs
`ExitLoop` and is forgotten.

`Handshake` is `CloudStorage`'s constructor: `Bind`, `Recv` for each datagram, `GetAllFds`.
`runner` is where the parser of `SlaveData()` stands in its buffer, which it does not reset
from one datagram to the next.

In `MmapStorage` a request is a thread's `task` with its private `m_buff`, and `Memcpy` copies one
word of it. `may` collects the values a READ may return: those of the last write that ended before it
began, of writes mixed with that one, and of writes that overlap with the READ.

### PlugAndPlay

`main` walks through the constructor (`Subscribe`, `FinishLoader`, `Publish`, `AddTasks`),
`Run()` (`CreateBegin`, `CreateEnd`) and the members' destructors in the reverse of their
declaration (`Release`, `Dlclose`, `EndLoader`, `RemoveCallBack`, `Spin`, `SetEndThread`,
`Join`, `StopPool`). `mon` walks through `DirMonitor::Monitor()`, and inside it through
`NotifyAll()`, `LoadLib()` and the plugin's constructor. `m_thread_stt`, `m_fds`, `full_name` and
`s_instance` have the names of the code; `mapped` are the plugins whose code is in memory, and
`task` says of each task whose code it is. A use of something that is not there sets `fault`.

### Logger

A file is a sequence of pieces, three to a line. `Start`, `Open` and `Header` are
the constructor as every `GetInstance()` calls it, with `overwrite_file` left at true: its branch for false, which
looks for a free name, has no caller and is not modelled, and the constant `overwrite_file` is the option of the
configuration file, which nothing reads. `Write`, `Lock`, `PutPiece` and `Unlock` are one call of `Write()`;
`CloseLog` is the destructor, when `main()` returns or any thread calls `exit()` while others are inside `Write()`;
`Crash` is the end without a destructor, also in the constructor. Each process writes at its own offset, so two
processes with one file open overwrite each other. `EditLine()` and `AddStr()` are computed on the
lengths of the fields, in `size_t` arithmetic modulo `SizeT`.

## 3. Runs

| Run | Instance | Shows |
|---|---|---|
| `pool` | 3 threads, 3 tasks of 2 priorities, one may throw, signals, Stop at any time, fair | safety of the suspend handshake and of the queue; Suspend, Resume and Stop return; a running pool executes its tasks |
| `pool_stop_suspended` | 2 threads, 1 task, Stop on a suspended pool | **violated**: Stop never returns |
| `faults` | 2 requests, 2 pool threads, a loss, a crash and restart, failing sends and ioctls, q, a signal, a disconnect, any status | the kernel still sees a disk; `exit(1)` on an unknown number needs a restart or a duplicate; `Run()` never polls a closed driver |
| `disk` | 3 handles, 4 requests, a loss | it is a disk whatever is reordered |
| `duplicates` | 3 requests, a duplicated datagram | one reply is owed to each request; numbers are not confused |
| `live` | 2 requests, q, signal or disconnect, nothing lost, fair | every request is answered unless the master stops; the master ends when told to |
| `nul_bytes` | sectors of 2 bytes, zero bytes among the data | **violated**: the data does not survive |
| `reply_status` | uninitialised status | **violated**: a served request completes with an error |
| `parts` | queue: 1 producer, 2 consumers, 3 items with a tie, 1 signal; 3 callbacks, which action and stop methods make and delete; 3 callers of `GetInstance()`, 1 exception; stream: 2 threads, 2 requests, 2 units of data, a buffer of 2; handshake: 2 slaves, 2 starts, 1 stray datagram; storage: 2 threads, a sector of 2 words, 2 values, 1 kill; fair | the queue is a priority queue and keeps a token per item; subscriptions are exact, dead objects unused, notifications complete; one instance; the stream's framing in both directions and its progress; what makes the master miss a hello; what an unlocked READ returns |
| `exit_check` | the same with 1 request and no signal | **violated**: `ReadAll()` reads the end of the stream for ever |
| `beside` | engine: 2 plugins, 2 requests, 2 pool threads, a directory that may fail to be watched, fair; log: a master with 2 threads and a slave, 2 starts each, 1 line per thread, 2 source paths, one directory | what the order of the engine's members guarantees, and exactly when; the destructor ends; the first plugin loads; when lines are whole, complete and within their buffer |
| `log_every_run` | the same with the option `overwrite_file` false | **violated**: a run truncates the log of the one before |

Bounds. Two threads are enough for every race of the handshake, and the third of
`pool` lets one thread run ahead while another lags and a third has not started.
Three tasks make a tie and an order of priorities at once. In the system two pool
threads interleave in every pair of steps; three handles with four requests make
one handle be reused while two others are in flight, which is what a confusion of
numbers would need; one sector is where requests conflict, and two values tell
its states apart, in `parts` too. Three callbacks make `Remove()`'s swap move a callback that is neither
the first nor the removed one; two consumers race for one token while a wait of one of
them ends without; three callers are one that holds the lock, one that waits for it and one that
reads the pointer meanwhile. Two plugins are what the path that is never cleared needs. A
buffer as long as the data and shorter than a reply makes every write of a reply a partial one. Two
starts of two processes let any of them meet a file another has open or has left behind.
`MaxReq`, `MaxLoss`, `MaxDup`, `MaxCrash`, `MaxBoot`, `MaxLate`, `MaxInterrupt`, `MaxThrow`, `MaxLine`
and `MaxRun` bound what would otherwise be endless. Most runs use sectors of one byte other
than NUL, on which `Strcpy` is the identity because no byte lies behind another; `nul_bytes` is the
run about the rest. Threads and handles are interchangeable, so the safety runs of `GreenCloud` use
them as symmetry sets; the runs with fairness do not.

Deadlock is not checked, as all these systems may stop: processes end, requests and starts
run out at their bounds, a lost datagram is waited for without a timeout, and several of the
findings are states the program stays in. That nothing else waits for ever is what the liveness
properties say: `CallsReturn` and `TaskRuns` for the pool, `RequestsAnswered` and `MasterEnds` for the
master, `EngineEnds`, `ItemsPopped`, `AllAnswered` and `LoopChecks`.

Fairness. Both operating systems run each runnable thread (weak fairness of every
pool thread, of the main thread, of the monitor's thread, and of the slave), the kernel reads the
replies it was sent and completes a request it began, a user who began to copy a plugin goes on, and
a signal that was sent is delivered. In `WPriorityQueue` a consumer calls `Pop()` again, as the pool's threads
do, and a thread gets the mutex and a token in its turn (strong fairness), as the semaphore and the mutex
do not pass over a thread for ever. Nothing forces a call of the pool's interface, a request, a
disconnect, a loss, a crash, a signal or q. `TaskRuns` is stated for a pool that is left running, since
a Stop overtakes the queued tasks. A weakly fair mutex is enough for `m_mutex`
because finitely many replies compete for it in a run. In `MCParts` and `MCBeside` the same
conditions are asked only of the part that runs.

Every property of a passing run has a mutant: an operator marked `Mutant:` next to
the definition it changes the way a plausible bug would. With the mutant in place
of the definition, TLC finds the property violated. No specification uses these
operators.

## 4. What the runs found

* **Stop on a suspended pool never returns** (`thread_pool.cpp:75`). Stop pushes one
  TPStop for each thread and joins, but the threads of a suspended pool wait on
  `m_thread_sem` and never pop again.
* **Sector data is handled as a C string** (`slave_driver_proxy.cpp:83`, `:219`,
  `slave_gateway.cpp:89`). What follows a zero byte is replaced by whatever the heap
  held, on the way in and on the way out.
* **The status of a slave's reply is uninitialised** (`slave_gateway.cpp:67`). When the
  heap held something else than zero, a served request completes with an
  error; for a READ the kernel then does not expect the data that follows and drops
  the connection.
* **A new run truncates the log of the one before** (`logger.cpp:54`). The option `overwrite_file` "if false, will
  create new file for every run" (`json_comment.txt:24`), but the code that reads it is commented out and every caller
  leaves the constructor's argument at true.
* **The end of the stream inside a WRITE is read for ever** (`nbd_driver_proxy.cpp:281`). `ReadAll()` takes
  the 0 of `read()` for a short read; `Run()`, which should test every `TIMEOUT` whether it is to end
  (`globals.hpp:16`), is not returned to.

Other properties hold only with a condition, and the condition is what the code leaves open.
Without it TLC finds them violated:

* `UnknownIdMeansFault`: any duplicated datagram, and any restart of the slave during operation,
  makes the master exit (`slave_gateway.cpp:77`). `IsDisk` is not checked with duplicates: a
  WRITE that arrives twice is stored twice, perhaps over a later one.
* `EngineEnds`: after a failed `inotify_add_watch()` the monitor sets ERROR and then RUNING (`plug_and_play.cpp:98`);
  an END_THREAD set between the two is overwritten, or nobody notices it, and `join()` waits for ever.
* `LoopChecks` is `ExitChecked` without the case of the run `exit_check`. It does not say that a signal ends the program: one
  that does not interrupt `epoll_wait()` is lost (`release/greencloud.0.5.cpp:169`).
* `FirstPluginLoads`: the path is never cleared (`plug_and_play.cpp:110`), so the second plugin is not found;
  only the first event of a `read()` is used (`:107`); and a file is announced when it is created, before
  it is copied (`:89`). A failed `dlopen()` leaves a null handle for `dlclose()` (`:160`).
* `NoUseOutsideLife`: a plugin that comes while the engine is being built or destroyed meets members that
  are not there (`request_engine.hpp:87`, `dispatcher_callback.hpp:139`). Tasks of a plugin that are
  still queued run code that was unmapped, since the pool is the last to go, and the factory's map is
  changed and read without a lock (`factory.hpp:87`); the model stops in these cases.
* `NoDeadUse`, `AllNotified`: an action method that deletes a subscribed callback, or makes the vector grow,
  invalidates `NotifyAll()`'s iterator (`dispatcher_callback.hpp:176`). A stop method that deletes another callback that
  is still subscribed makes `~Dispatcher()` walk beyond the vector's end (`:167`), and one that subscribes a callback leaves it
  bound to a dead dispatcher. A stop method that deletes its own callback does no harm.
* `SeenIsBuilt` does not say that the instance is still there: `ReleaseResources()` leaves the pointer
  (`handleton.hpp:111`).
* `LinesWhole`, `ClosedComplete`, `LineFits`: processes started in one directory write over each
  other's log (`logger.cpp:73`), what is in the buffer at a crash is lost (`:130`), and a path with a
  long part behind its first `/` overruns the line (`:213`).
* `MissedNeedsStray`: a datagram other than the hello moves the handshake's `runner` for good
  (`cloud_storage.cpp:64`). With more than one slave `GetAllFds()` walks beyond the end of its map (`:206`).

## 5. Proofs

The proofs hold for all values of the constants that the named assumptions allow; each
module's inductive invariant is proved from `Init`, for each action, and for stuttering.

| Module | Theorem | Property |
|---|---|---|
| `ThreadPoolProofs` | `TypeCorrect` | `TypeOK` |
| | `AccountingCorrect` | `Accounting` |
| | `PopFindsTaskCorrect` | `PopFindsTask` |
| | `SuspendQuiescentCorrect` | `SuspendQuiescent` |
| | `ResumeBalancedCorrect` | `ResumeBalanced` |
| | `RunsOnceCorrect` | `RunsOnce` |
| | `NoTaskStartsCorrect` | `NoTaskStarts` |
| | `NoTaskLostCorrect` | `NoTaskLost` |
| `LibraryProofs` | `TokenPerItemCorrect` | `TokenPerItem` |
| | `PopFindsItemCorrect` | `PopFindsItem` |
| | `HeapExclusiveCorrect` | `HeapExclusive` |
| | `EachItemOnceCorrect` | `EachItemOnce` |
| | `IsPriorityQueueCorrect` | `IsPriorityQueue` |
| | `SubscribersExactCorrect` | `SubscribersExact` |
| | `NoDeadUseCorrect` | `NoDeadUse` |
| | `AllNotifiedCorrect` | `AllNotified` |
| | `OneInstanceCorrect` | `OneInstance` |
| | `SeenIsBuiltCorrect` | `SeenIsBuilt` |
| `SystemProofs` | `TypesCorrect` | `TypeOK` |
| | `RunsOnOpenDriverCorrect` | `RunsOnOpenDriver` |
| `RequestProofs` | `RepliesOwed` | `OneReplyOwed` |
| | `NumbersStand` | `NumbersMatch` |
| | `UnknownIdNeedsFault` | `UnknownIdMeansFault` |
| `DiskProofs` | `DiskImplemented`, `DiskWithoutDuplicates` | `IsDisk` |
| `PlugAndPlayProofs` | `NoUseOutsideLifeCorrect` | `NoUseOutsideLife` |
| | `CreatorMappedCorrect` | `CreatorMapped` |
| | `PlugTypesCorrect` | `TypeOK` |
| `IoProofs` | `MissedNeedsStrayCorrect` | `MissedNeedsStray` |
| | `ReadRegularCorrect` | `ReadRegular` |
| | `RequestsIntactCorrect` | `RequestsIntact` |
| | `RepliesFramedCorrect` | `RepliesFramed` |
| `LoggerProofs` | `LinesWholeCorrect` | `LinesWhole` |
| | `ClosedCompleteCorrect` | `ClosedComplete` |
| | `LineFitsCorrect` | `LineFits` |

**ThreadPool** (`ThreadAssumption`, `TaskAssumption`: finitely many threads, at least one). That a
thread past `Wait()` finds an element depends on the semaphore equalling the unclaimed elements; that
Suspend returns with all threads quiescent depends on how many tokens each half of
the handshake has produced and consumed in every phase of main's two loops. The
inductive invariant is `Inv == TypeOK /\ Accounting /\ RunsOnce`. `Accounting` has one
equation for the queue and one line for each phase of main, in terms of the number of
threads at each point of `ThreadFunc()`. `PcMove` reduces a step of a thread to "one
count down, one count up", `CountDisjoint` bounds the counts by the number of threads,
and what remains for each action is linear arithmetic. `NoTaskStarts` follows because a
thread about to pop, in a phase in which main has pushed all its system tasks, leaves
one of them unclaimed (`SystemTaskLeft`) and `IsTop` prefers it. `NoTaskLost` follows by
telling the added tasks without the threads' places (`AddedTasks`).

**WPriorityQueue** (`WQueueAssumption`; the sets of threads and items may be infinite). `QueueInv`
adds to `TokenPerItem` and `EachItemOnce` that the mutex's holder is the one thread between lock and
unlock, that an item on its way into the heap is new and in one hand only, and that the sets counted
are finite, which each step keeps. `StepRefines` maps `PushItem` and `LockAndPop` to the abstract
steps and every other step to a stutter.

**Dispatcher** (no assumption). `AddAppends` and `RemoveDeletes` say what `push_back()` and the swap do to
the vector. `DispatcherInv` has a part for each phase: `LoopExact` says that as long as nothing was
deleted under the loop those behind the iterator have one notification and those before it none;
`DyingExact` that `~Dispatcher()` has cut off exactly those behind its iterator, and `DeadExact` that a deleted
dispatcher leaves no callback bound, both unless a stop method disturbed the walk. `NoDeadUse` follows as a callback can
only reach a dead dispatcher if it is bound.

**Handleton** (`HandletonAssumption`). `Progress` ties the holder's place to what is built: only
behind its own second load is there no instance, and only behind the constructor is there one it has not
stored yet; `MutexHeld` makes the holder unique.

**GreenCloud** (`WireAssumption`, `NbdAssumption`, `NetworkAssumption`, `MasterAssumption`,
`SlaveAssumption`: a sector has at least one byte, no set need be finite). `GreenCloudInv` states the
invariant; its parts are proved one on top of the other, and TLC checked them on the bounds of the runs before.

* `Types` (`SystemProofs`). The state holds bags of records of several kinds; the types say which kinds are
  where, and that an answer's number has been given out and a sender's address was in use.
  `RunsOnOpenDriver` needs `DriverInv`: until `Run()` has left its loop no task that disconnects is queued or
  executed, because `NbdRead` and `StdinRead` stop the engine in the step that queues one.
* `CarrierInv` (`RequestProofs`) is `OneReplyOwed` without cardinalities, for which an induction would be
  needed: the handle of a request is in exactly one of five sets, the NBD socket, the tasks, the pool threads,
  `m_list` and the replies, and is there once; an idle handle is in none. It is stronger than the
  property in that it holds for requests that the kernel gave up as well, so that no action can bring a reply to a
  handle that was used again. `OneReplyOwed` follows by counting to one.
* `NumbersInv` and `HelloInv`. `TaskInv`: until it is sent a request is in its task as the kernel submitted
  it. `SendInv`: the thread about to send has its entry in the list and its number nowhere else. `ListInv` is
  `NumbersMatch`. A duplicate or a second answer cannot break it, since numbers are given out in one place and
  only grow. `NumberInv` adds, while nothing was duplicated, that a number is with its sender,
  in a datagram, with the slave or in an answer, in one of them only, and then in the list; so the master knows
  every number it receives, and what is left for `UnknownIdMeansFault` is the hello of a slave, of which
  there is one as long as the slave was started once. `Unmet` covers the process that `SetNbdFails` ended before it
  had met a slave.
* `LockInv` and `DiskInv` (`DiskProofs`) tie what is in flight to the disk: a request that is still on its way to the storage has
  had no effect (`UnseenInv`, `EffectInv`), an answer and a reply carry what the request found, a reply's data
  is directly behind its header (`FrameInv`, from `LockInv`), and all data is `Clean`, so that `Strcpy` and `AddMessage`
  are the identity on it (`CleanFacts`). `DiskStep` then maps each action to a step of `BlockDevice`: the kernel's
  submission and completion, the slave's `Read` and `Write`; every other action is a stutter.

`DiskImplemented` has two hypotheses, and both are the code's. `CleanData`, no NUL in front of a sector's last byte,
is what the run `nul_bytes` refutes when it is dropped. `[](dups = 0)`: a WRITE that UDP delivers twice is
stored twice, perhaps over a later one. Neither restricts the rest: losses, reordering, crashes, restarts,
failing sends, `q`, signals and any value of an uninitialised status are covered. `DiskWithoutDuplicates` gives the form
of the run `disk`, in which `MaxDup` is 0.

**PlugAndPlay** (`PlugAssumption`). `LifeInv` says what exists at each step of the main thread through the
constructor, `Run()` and the destructors (`Built`), and that unless a plugin came at the wrong moment (`late`) the
monitor's thread handles a file only during `Run()`, when all of it exists (`MonitorInTime`). `CreatorMapped` does not
depend on `late`: the factory is destroyed before `dlclose()`, and the constructor that adds to it runs in code
that is in memory (`HandleMapped`).

**Handshake** (`HandshakeAssumption`). `runner` is at the buffer's start until the first datagram has come, and
the first datagram was no hello if the constructor still waits behind it (`FirstSeen`).

**MmapStorage** (`StorageAssumption`). `StoreInv` says that a word of the mapping is from a write that ended last,
overlapped with that one or is under way (`Held`); that everyone at work on a block has the values of the writers it overlaps
with among those it may meet (`Mixed`); and what a writer has copied and a reader has found so far (`Copied`, `Found`).

**NbdStream** (`StreamAssumption`). `RequestInv` says of each header in the stream that its request's data and then
another header follow, and of the main thread how much of its request it has and how much of it is next in the
stream (`PieceOf`), the last request being perhaps still on its way. `ReplyInv` says that all units the kernel got
form replies but for the last one, which is whole or whose sender holds `m_mutex` in the middle of `WriteAll()`.

**Logger** (`LoggerAssumption`, `NoFileAssumption`). A process is alone with its file if no other one has had it
open with it. Then it writes at the file's end (`AtEnd`), and what is in the file and, behind it, in
the buffer is whole lines but for the pieces that the mutex's holder has put (`WholeInv`), with every line it
accepted (`Kept`). `LineFits` needs the length of a source path, a recursive function:
`LenFromNat` shows that it is defined and a number, from a least counterexample (`Least`).

Only model-checked: all liveness (`CallsReturn`, `TaskRuns`, `RequestsAnswered`, `MasterEnds`, `EngineEnds`,
`FirstPluginLoads`, `ItemsPopped`, `AllAnswered`, `LoopChecks`), since fairness is stated with ENABLED, which
is out of the prover's reach. The findings are counterexamples, which need no proof.

## 6. Not modelled, and why

* Several slaves behind the handshake: the code leaves the end of its map there, so what follows
  has no defined meaning. The shipped configuration has one.
* The setup ioctls, the reading of the configuration files and arguments, a failing `recvfrom()`.
* Requests of more than one sector. `CloudStorage::Write()` copies `m_len` bytes into a stack buffer of 4136
  without a check (`cloud_storage.cpp:121`); behind a longer request nothing has a defined meaning.
* In `Slave`, `memcpy()` is one step, though the process can be killed inside it. The half of a sector that this leaves is
  seen only by a later master; `MmapStorage` has the word-by-word copy and the kill.
* What a thread inside `Write()` does to the stream's buffer while `~Logger()` flushes it: `CloseLog` ends the other
  threads' lines where they are, at a piece's end. The race itself is undefined behaviour at the end of the process.
* Overflow of `m_req_id` after 2^31 requests: what a negative number becomes in the decimal header field
  of a datagram is not modelled.
* What `strcpy()` and `AddMessage()` read behind a sector that holds no zero byte. Those
  bytes lie outside the `m_len` bytes that are stored or given to the kernel, so the
  model leaves them out; that they fit the datagram's buffer is not shown.
* A signal delivered to a thread of the master's pool instead of its main thread: the
  kernel prefers the main thread. `ThreadPool` has the case (`WaitInterrupted`).
* A task whose key the factory does not know: no gateway makes one.
* `Semaphore::TryWait` and `GetVal`, `WPriorityQueue::Size` and `IsEmpty`, which have no caller.
* Formatting of the datagram's header fields and the text of log lines.
* `IoctlWrapper`, which is one system call; `MemoryStorage` and `DiskStorage`, which can no longer be
  instantiated; and the releases before 0.5, which it supersedes.

## 7. Plan

Done: the thread pool, the library classes, plug and play, the logger, the streams, the handshake, the storage and the
system, modelled and checked; a theorem for each safety property of the passing runs, the refinements of
`PriorityQueue` and of `BlockDevice` among them.

Next: the abstraction that `Master` makes of the pool (any queued task may be next, a
TPStop overtakes) as a refinement that `ThreadPool` is shown to implement; and what of `BlockDevice` remains true of the
system with duplicates, where a WRITE may take effect again.
