---------------------------- MODULE MCThreadPool ----------------------------
(***************************************************************************)
(* ThreadPool with few threads and tasks.                                  *)
(***************************************************************************)
EXTENDS ThreadPool, TLC

CONSTANTS k1, k2, k3

\* k1 and k2 tie, k3 is above them.
MCPriority == [k \in Task |-> IF k = k3 THEN 2 ELSE 1]

Symmetry == Permutations(Thread)
=============================================================================
