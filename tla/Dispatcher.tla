----------------------------- MODULE Dispatcher -----------------------------
(***************************************************************************)
(* Dispatcher, CallBackBase and CallBack (include/dispatcher_callback.hpp) *)
(* in one thread: callbacks that subscribe when they are made and          *)
(* unsubscribe when they are deleted, NotifyAll(), and ~Dispatcher(),      *)
(* which tells every callback that it is out of service.  Both loops call  *)
(* the observers: an action method and a stop method may make and delete   *)
(* callbacks, their own and others, while the loop is under way.           *)
(***************************************************************************)
EXTENDS Naturals, FiniteSets

CONSTANT CallBack   \* the callbacks the observers keep

VARIABLES
  size,         \* m_callbacks.size()
  capacity,     \* m_callbacks.capacity()
  m_callbacks,  \* the vector, a function on 1..size
  alive,        \* the callbacks that exist
  bound,        \* those whose m_dispatcher is not null
  dispatcher,   \* "alive", "dying" in its destructor, or "dead"
  iter, last,   \* iterator and end() of the loop in NotifyAll() or ~Dispatcher()
  moved,        \* the vector was reallocated since the loop began
  disturbed,    \* history: since the loop began a method has deleted a subscribed callback,
                \* or subscribed one to the dying dispatcher
  notified,     \* history: how often each callback was notified by this NotifyAll()
  throughout,   \* history: the callbacks subscribed since this NotifyAll() began
  fault         \* a dead object, or an iterator beyond the vector's end, was used

vector         == <<size, capacity, m_callbacks>>
loop           == <<iter, last, moved, disturbed>>
dispatcherVars == <<vector, alive, bound, dispatcher, loop, notified, throughout, fault>>

Looping == iter <= last

DispatcherInit ==
  /\ size = 0 /\ capacity = 0 /\ m_callbacks = [i \in 1..0 |-> i]
  /\ alive = {} /\ bound = {} /\ dispatcher = "alive"
  /\ iter = 1 /\ last = 0 /\ moved = FALSE /\ disturbed = FALSE
  /\ notified = [c \in CallBack |-> 0] /\ throughout = {}
  /\ fault = FALSE

-----------------------------------------------------------------------------
(* The vector.                                                             *)

\* Dispatcher::Add(): push_back(), doubling a full vector.
Add(c) ==
  /\ size' = size + 1
  /\ m_callbacks' = [i \in 1..(size + 1) |-> IF i = size + 1 THEN c ELSE m_callbacks[i]]
  /\ capacity' = IF size < capacity THEN capacity ELSE IF capacity = 0 THEN 1 ELSE 2 * capacity
  /\ moved' = (moved \/ size >= capacity)

\* Mutant: pop_back() without the swap.
RemoveLast(c) ==
  \/ /\ \A i \in 1..size : m_callbacks[i] # c
     /\ UNCHANGED <<size, m_callbacks>>
  \/ \E i \in 1..size :
       /\ m_callbacks[i] = c
       /\ size' = size - 1
       /\ m_callbacks' = [j \in 1..(size - 1) |-> m_callbacks[j]]

\* Dispatcher::Remove(): the last callback takes the place of the removed one.
Remove(c) ==
  \/ /\ \A i \in 1..size : m_callbacks[i] # c
     /\ UNCHANGED <<size, m_callbacks>>
  \/ \E i \in 1..size :
       /\ m_callbacks[i] = c /\ \A j \in 1..(i - 1) : m_callbacks[j] # c
       /\ size' = size - 1
       /\ m_callbacks' = [j \in 1..(size - 1) |-> IF j = i THEN m_callbacks[size] ELSE m_callbacks[j]]

-----------------------------------------------------------------------------
(* The callbacks.                                                          *)

\* An observer or its owner acts: outside of the loops, or in the action or stop method
\* that the loop has called last.
MayCall == ~fault /\ ((Looping \/ dispatcher = "dying") => iter > 1)

\* CallBack's constructor with the dispatcher.
Connect(c) ==
  /\ MayCall /\ dispatcher # "dead" /\ c \notin alive
  /\ Add(c)
  /\ alive' = alive \cup {c} /\ bound' = bound \cup {c}
  /\ disturbed' = (disturbed \/ dispatcher = "dying")
  /\ UNCHANGED <<dispatcher, iter, last, notified, throughout, fault>>

\* CallBack's constructor with a null dispatcher.
ConnectNull(c) ==
  /\ MayCall /\ c \notin alive
  /\ alive' = alive \cup {c}
  /\ UNCHANGED <<vector, bound, dispatcher, loop, notified, throughout, fault>>

\* ~CallBackBase().
Disconnect(c) ==
  /\ MayCall /\ c \in alive
  /\ alive' = alive \ {c} /\ bound' = bound \ {c}
  /\ \/ /\ c \in bound /\ dispatcher # "dead"
        /\ Remove(c)
        /\ fault' = fault
     \/ /\ c \in bound /\ dispatcher = "dead"
        /\ fault' = TRUE
        /\ UNCHANGED <<size, m_callbacks>>
     \/ /\ c \notin bound
        /\ UNCHANGED <<size, m_callbacks, fault>>
  /\ throughout' = throughout \ {c}
  /\ disturbed' = (disturbed \/ (Looping /\ c \in bound))
  /\ UNCHANGED <<capacity, dispatcher, iter, last, moved, notified>>

-----------------------------------------------------------------------------
(* The loops.                                                              *)

\* Mutant: NotifyAll() stops one short of the end.
NotifyAllShort ==
  /\ ~fault /\ ~Looping /\ dispatcher = "alive" /\ size > 0
  /\ iter' = 1 /\ last' = size - 1 /\ moved' = FALSE /\ disturbed' = FALSE
  /\ notified' = [c \in CallBack |-> 0] /\ throughout' = bound
  /\ UNCHANGED <<vector, alive, bound, dispatcher, fault>>

\* NotifyAll() is entered.
NotifyAll ==
  /\ ~fault /\ ~Looping /\ dispatcher = "alive" /\ size > 0
  /\ iter' = 1 /\ last' = size /\ moved' = FALSE /\ disturbed' = FALSE
  /\ notified' = [c \in CallBack |-> 0] /\ throughout' = bound
  /\ UNCHANGED <<vector, alive, bound, dispatcher, fault>>

\* The loop's iterator points at a callback that exists.
IterValid == ~moved /\ iter <= size /\ m_callbacks[iter] \in alive

\* Notify() of one callback.  Beyond the end of the vector lies one that was removed.
Notify ==
  /\ ~fault /\ dispatcher = "alive" /\ Looping
  /\ \/ /\ IterValid
        /\ notified' = [notified EXCEPT ![m_callbacks[iter]] = @ + 1]
        /\ iter' = iter + 1
        /\ fault' = fault
     \/ /\ ~IterValid
        /\ fault' = TRUE
        /\ UNCHANGED <<notified, iter>>
  /\ UNCHANGED <<vector, alive, bound, dispatcher, last, moved, disturbed, throughout>>

\* ~Dispatcher() is entered.
Destroy ==
  /\ ~fault /\ ~Looping /\ dispatcher = "alive"
  /\ dispatcher' = "dying"
  /\ iter' = 1 /\ last' = size /\ moved' = FALSE /\ disturbed' = FALSE
  /\ UNCHANGED <<vector, alive, bound, notified, throughout, fault>>

\* Mutant: OutOfService() without the base's: m_dispatcher stays.
OutOfServiceStaysBound ==
  /\ ~fault /\ dispatcher = "dying" /\ Looping
  /\ \/ IterValid /\ iter' = iter + 1 /\ fault' = fault
     \/ ~IterValid /\ fault' = TRUE /\ iter' = iter
  /\ UNCHANGED <<vector, alive, bound, dispatcher, last, moved, disturbed, notified, throughout>>

\* CallBack::OutOfService() of one callback: m_dispatcher becomes null, and then its stop
\* method is called.
OutOfService ==
  /\ ~fault /\ dispatcher = "dying" /\ Looping
  /\ \/ /\ IterValid
        /\ bound' = bound \ {m_callbacks[iter]} /\ iter' = iter + 1
        /\ fault' = fault
     \/ /\ ~IterValid
        /\ fault' = TRUE
        /\ UNCHANGED <<bound, iter>>
  /\ UNCHANGED <<vector, alive, dispatcher, last, moved, disturbed, notified, throughout>>

\* The end of ~Dispatcher().
Destroyed ==
  /\ ~fault /\ dispatcher = "dying" /\ ~Looping
  /\ dispatcher' = "dead"
  /\ size' = 0 /\ capacity' = 0 /\ m_callbacks' = [i \in 1..0 |-> i]
  /\ UNCHANGED <<alive, bound, loop, notified, throughout, fault>>

DispatcherNext ==
  \/ \E c \in CallBack : Connect(c) \/ ConnectNull(c) \/ Disconnect(c)
  \/ NotifyAll \/ Notify
  \/ Destroy \/ OutOfService \/ Destroyed

DispatcherSpec == DispatcherInit /\ [][DispatcherNext]_dispatcherVars

-----------------------------------------------------------------------------
(* Properties.                                                             *)

DispatcherTypeOK ==
  /\ size \in Nat /\ capacity \in Nat
  /\ m_callbacks \in [1..size -> CallBack]
  /\ alive \subseteq CallBack /\ bound \subseteq CallBack
  /\ dispatcher \in {"alive", "dying", "dead"}
  /\ iter \in Nat \ {0} /\ last \in Nat
  /\ moved \in BOOLEAN /\ disturbed \in BOOLEAN /\ fault \in BOOLEAN
  /\ notified \in [CallBack -> Nat] /\ throughout \subseteq CallBack

\* While the dispatcher lives its vector holds exactly the callbacks that think they
\* are subscribed, each once, in whatever order Remove()'s swaps have left.
SubscribersExact ==
  dispatcher = "alive" /\ ~fault =>
    /\ \A i, j \in 1..size : m_callbacks[i] = m_callbacks[j] => i = j
    /\ {m_callbacks[i] : i \in 1..size} = bound
    /\ bound \subseteq alive

\* Nothing is called on a deleted callback, and no deleted dispatcher is told to remove
\* one, as ~Dispatcher() has cut every callback off before.  Only an action or a stop method
\* can break it, from inside the loop that called it: by deleting a callback that is still
\* subscribed, by subscribing one that makes the vector grow, or by subscribing one to the
\* dispatcher that is being destroyed.  A stop method may always delete its own callback.
NoDeadUse == fault => disturbed \/ moved

\* NotifyAll() sends its notification "to all dependencies": when it returns, each
\* callback that was subscribed all the time has it, once, and also when action methods
\* have subscribed others; only one that has deleted a subscribed callback makes it pass over some.
AllNotified ==
  [][dispatcher = "alive" /\ iter = last /\ iter' > last /\ ~disturbed
       => \A c \in throughout : notified'[c] = 1]_dispatcherVars
=============================================================================
