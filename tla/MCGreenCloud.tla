---------------------------- MODULE MCGreenCloud ----------------------------
(***************************************************************************)
(* GreenCloud with one or two sectors of one or two bytes.                 *)
(***************************************************************************)
EXTENDS GreenCloud, TLC

CONSTANTS DataBytes   \* bytes that make up the written payloads and the first contents

MCData == {[i \in 1..SecLen |-> b] : b \in DataBytes}

MCInitStorage == [s \in Sector |-> CHOOSE p \in MCData : TRUE]

Symmetry == Permutations(Worker) \cup Permutations(Handle)
=============================================================================
