------------------------------ MODULE MCParts -------------------------------
(***************************************************************************)
(* The parts that GreenCloud stands on, for TLC.  The classes of the       *)
(* library: WPriorityQueue, Dispatcher and Handleton.  What lies below the *)
(* requests and replies: the byte streams of the socket pair, the          *)
(* handshake with the slaves, and the mapping that a slave stores its      *)
(* sectors in.  They share nothing, so one behaviour runs one of them and  *)
(* leaves the others as they are: the states to check are the sum of       *)
(* theirs and not the product.                                             *)
(***************************************************************************)
EXTENDS WPriorityQueue, Dispatcher, Handleton, NbdStream, Handshake, MmapStorage, TLC

CONSTANTS x1, x2, x3

\* Three items, two of them equal to Compare.
MCItem == {x1, x2, x3}
MCRank == (x1 :> 2) @@ (x2 :> 1) @@ (x3 :> 1)

VARIABLE part   \* what runs

libraryVars == <<queueVars, dispatcherVars, handletonVars>>
ioVars      == <<streamVars, handshakeVars, storageVars>>
partVars    == <<part, libraryVars, ioVars>>

PartInit ==
  /\ part \in {"queue", "dispatcher", "handleton", "stream", "handshake", "storage"}
  /\ QueueInit /\ DispatcherInit /\ HandletonInit
  /\ StreamInit /\ HandshakeInit /\ StorageInit

LibraryNext ==
  /\ UNCHANGED ioVars
  /\ \/ part = "queue" /\ QueueNext /\ UNCHANGED <<dispatcherVars, handletonVars>>
     \/ part = "dispatcher" /\ DispatcherNext /\ UNCHANGED <<queueVars, handletonVars>>
     \/ part = "handleton" /\ HandletonNext /\ UNCHANGED <<queueVars, dispatcherVars>>

IoNext ==
  /\ UNCHANGED libraryVars
  /\ \/ part = "stream" /\ StreamNext /\ UNCHANGED <<handshakeVars, storageVars>>
     \/ part = "handshake" /\ HandshakeNext /\ UNCHANGED <<streamVars, storageVars>>
     \/ part = "storage" /\ StorageNext /\ UNCHANGED <<streamVars, handshakeVars>>

PartNext == part' = part /\ (LibraryNext \/ IoNext)

\* The fairness of FairQueueSpec and of FairStreamSpec, each asked only when its part is
\* what runs.
PartSpec ==
  /\ PartInit /\ [][PartNext]_partVars
  /\ \A p \in Producer : SF_queueVars(part = "queue" /\ ProducerStep(p))
  /\ \A q \in Consumer :
       /\ WF_queueVars(part = "queue" /\ (Pop(q) \/ PopTimed(q) \/ Block(q)))
       /\ SF_queueVars(part = "queue" /\ PopStep(q))
  /\ WF_streamVars(part = "stream" /\ Kernel)
  /\ WF_streamVars(part = "stream" /\ MainThread)
  /\ WF_streamVars(part = "stream" /\ ExitLoop)
  /\ \A t \in Thread : WF_streamVars(part = "stream" /\ PoolThread(t))
=============================================================================
