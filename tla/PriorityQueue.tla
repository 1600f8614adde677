--------------------------- MODULE PriorityQueue ----------------------------
(***************************************************************************)
(* What WPriorityQueue promises: a priority queue whose Push() and Pop()   *)
(* happen in one step.  A Pop() that is waiting takes an item that no      *)
(* other item in the queue is above; a Pop() with a timeout, or one that a *)
(* signal interrupts, may end without an item.                             *)
(***************************************************************************)
EXTENDS Naturals

CONSTANTS
  Item,      \* the values that are pushed, each of them once
  Rank,      \* what Compare makes of an item, a number
  Consumer   \* the threads that pop

VARIABLES
  pushed,    \* items pushed so far
  queue,     \* items in the queue
  got        \* per consumer the items its calls have returned

absVars == <<pushed, queue, got>>

AbsInit == pushed = {} /\ queue = {} /\ got = [c \in Consumer |-> {}]

AbsPush(x) ==
  /\ x \notin pushed
  /\ pushed' = pushed \cup {x} /\ queue' = queue \cup {x}
  /\ UNCHANGED got

\* priority_queue::top(): one of the greatest items.
Tops(q) == {x \in q : \A y \in q : Rank[y] <= Rank[x]}

AbsPop(c) ==
  \E x \in Tops(queue) :
    /\ queue' = queue \ {x}
    /\ got' = [got EXCEPT ![c] = @ \cup {x}]
    /\ UNCHANGED pushed

AbsNext == (\E x \in Item : AbsPush(x)) \/ (\E c \in Consumer : AbsPop(c))

AbsSpec == AbsInit /\ [][AbsNext]_absVars
=============================================================================
