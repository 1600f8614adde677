----------------------------- MODULE Handleton ------------------------------
(***************************************************************************)
(* Handleton<T> (include/handleton.hpp), and Singleton<T>                  *)
(* (include/singleton.hpp), which is the same without ReleaseResources():  *)
(* GetInstance() by double-checked locking in any number of threads, and   *)
(* ReleaseResources().  A T is a number, 0 is the null pointer; a T that   *)
(* is being constructed is allocated but not yet built.                    *)
(***************************************************************************)
EXTENDS Naturals

CONSTANTS
  Caller,    \* the threads that call GetInstance()
  Nobody,    \* no thread
  MaxThrow   \* bound: how often T's constructor throws

ASSUME HandletonAssumption == Nobody \notin Caller /\ MaxThrow \in Nat

VARIABLES
  s_mutex,     \* the thread that holds the lock
  s_instance,  \* the atomic pointer
  s_ptr,       \* what the unique_ptr owns
  made,        \* number of T made so far
  built,       \* those whose constructor has ended
  freed,       \* those that were deleted
  at,          \* per thread where it is in GetInstance()
  tmp          \* per thread its variable tmp

statics       == <<s_mutex, s_instance, s_ptr>>
heap          == <<made, built, freed>>
handletonVars == <<statics, heap, at, tmp>>

CallPlace == {"out", "lock", "second", "construct", "reset", "store", "unlock", "return"}

HandletonInit ==
  /\ s_mutex = Nobody /\ s_instance = 0 /\ s_ptr = 0
  /\ made = 0 /\ built = {} /\ freed = {}
  /\ at = [t \in Caller |-> "out"] /\ tmp = [t \in Caller |-> 0]

Go(t, from, to) == at[t] = from /\ at' = [at EXCEPT ![t] = to]

\* The first load of s_instance.
FirstLoad(t) ==
  /\ tmp' = [tmp EXCEPT ![t] = s_instance]
  /\ Go(t, "out", IF s_instance = 0 THEN "lock" ELSE "return")
  /\ UNCHANGED <<statics, heap>>

\* lock_guard.
Lock(t) ==
  /\ Go(t, "lock", "second")
  /\ s_mutex = Nobody /\ s_mutex' = t
  /\ UNCHANGED <<s_instance, s_ptr, heap, tmp>>

\* Mutant: no second check under the lock.
SecondLoadSkipped(t) ==
  /\ Go(t, "second", "construct")
  /\ made' = made + 1
  /\ tmp' = [tmp EXCEPT ![t] = made + 1]
  /\ UNCHANGED <<statics, built, freed>>

\* The second load; if there is still no instance, new allocates one.
SecondLoad(t) ==
  /\ at[t] = "second"
  /\ \/ /\ s_instance # 0
        /\ Go(t, "second", "unlock")
        /\ tmp' = [tmp EXCEPT ![t] = s_instance]
        /\ made' = made
     \/ /\ s_instance = 0
        /\ Go(t, "second", "construct")
        /\ made' = made + 1
        /\ tmp' = [tmp EXCEPT ![t] = made + 1]
  /\ UNCHANGED <<statics, built, freed>>

\* Mutant: the pointer is stored before the constructor has run.
ConstructLate(t) ==
  /\ Go(t, "construct", "reset")
  /\ s_instance' = tmp[t]
  /\ UNCHANGED <<s_mutex, s_ptr, heap, tmp>>

\* T's constructor.
Construct(t) ==
  /\ Go(t, "construct", "reset")
  /\ built' = built \cup {tmp[t]}
  /\ UNCHANGED <<statics, made, freed, tmp>>

\* T's constructor throws: new frees the memory, lock_guard the lock.
ConstructThrows(t) ==
  /\ made <= MaxThrow
  /\ Go(t, "construct", "out")
  /\ freed' = freed \cup {tmp[t]}
  /\ s_mutex' = Nobody
  /\ UNCHANGED <<s_instance, s_ptr, made, built, tmp>>

\* s_ptr.reset(tmp) deletes what it owned before.
Reset(t) ==
  /\ Go(t, "reset", "store")
  /\ s_ptr' = tmp[t]
  /\ freed' = IF s_ptr = 0 THEN freed ELSE freed \cup {s_ptr}
  /\ UNCHANGED <<s_mutex, s_instance, made, built, tmp>>

Store(t) ==
  /\ Go(t, "store", "unlock")
  /\ s_instance' = tmp[t]
  /\ UNCHANGED <<s_mutex, s_ptr, heap, tmp>>

Unlock(t) ==
  /\ Go(t, "unlock", "return")
  /\ s_mutex' = Nobody
  /\ UNCHANGED <<s_instance, s_ptr, heap, tmp>>

\* GetInstance() has returned, the caller is done with the pointer.
Return(t) ==
  /\ Go(t, "return", "out")
  /\ UNCHANGED <<statics, heap, tmp>>

GetInstance(t) ==
  FirstLoad(t) \/ Lock(t) \/ SecondLoad(t) \/ Construct(t) \/ ConstructThrows(t)
    \/ Reset(t) \/ Store(t) \/ Unlock(t) \/ Return(t)

\* ReleaseResources(): s_ptr.reset().  s_instance is left as it is.
ReleaseResources ==
  /\ s_ptr # 0
  /\ freed' = freed \cup {s_ptr} /\ s_ptr' = 0
  /\ UNCHANGED <<s_mutex, s_instance, made, built, at, tmp>>

HandletonNext == (\E t \in Caller : GetInstance(t)) \/ ReleaseResources

HandletonSpec == HandletonInit /\ [][HandletonNext]_handletonVars

-----------------------------------------------------------------------------
(* Properties.                                                             *)

HandletonTypeOK ==
  /\ s_mutex \in Caller \cup {Nobody}
  /\ s_instance \in Nat /\ s_ptr \in Nat /\ made \in Nat
  /\ built \subseteq Nat /\ freed \subseteq Nat
  /\ at \in [Caller -> CallPlace] /\ tmp \in [Caller -> Nat]

\* "there is only one instance of a class": whatever the threads do, and even when it is
\* released, one T at most is ever constructed.
OneInstance == \A x, y \in built : x = y

\* A pointer that another thread can see, or that GetInstance() returns, points at an
\* instance whose constructor has ended.
SeenIsBuilt ==
  /\ s_instance # 0 => s_instance \in built
  /\ \A t \in Caller : at[t] = "return" => tmp[t] \in built
=============================================================================
