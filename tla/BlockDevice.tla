----------------------------- MODULE BlockDevice ----------------------------
(***************************************************************************)
(* What greencloud promises the kernel: a disk.  Between its submission    *)
(* and its completion a READ or WRITE takes effect at one moment, on one   *)
(* copy of the data; a READ returns what the sector held at that moment.   *)
(* A request may stay unanswered or fail, and one that failed may still    *)
(* take effect, once.                                                      *)
(***************************************************************************)
EXTENDS Integers

CONSTANTS Handle, Sector, Payload, Empty, InitDisk

VARIABLES
  disk,   \* contents of each sector
  state,  \* per handle: "idle", "sent" or "failed"
  op,     \* per handle the command
  arg,    \* per handle the sector and the data to write
  eff,    \* per handle: it took effect, and what a READ found
  result  \* per handle what the last completed request returned

bvars == <<disk, state, op, arg, eff, result>>

NoEffect == [done |-> FALSE, buf |-> Empty]

BInit ==
  /\ disk = InitDisk
  /\ state = [h \in Handle |-> "idle"]
  /\ eff = [h \in Handle |-> NoEffect]
  /\ result = [h \in Handle |-> [err |-> 0, buf |-> Empty]]

Submit(h) ==
  /\ state[h] = "idle"
  /\ state' = [state EXCEPT ![h] = "sent"]
  /\ \A g \in Handle \ {h} : op'[g] = op[g] /\ arg'[g] = arg[g]
  /\ eff' = [eff EXCEPT ![h] = NoEffect]
  /\ UNCHANGED <<disk, result>>

Apply(h) ==
  /\ state[h] \in {"sent", "failed"} /\ ~eff[h].done
  /\ \/ /\ op[h] = "READ"
        /\ eff' = [eff EXCEPT ![h] = [done |-> TRUE, buf |-> disk[arg[h].sec]]]
        /\ disk' = disk
     \/ /\ op[h] = "WRITE"
        /\ eff' = [eff EXCEPT ![h] = [done |-> TRUE, buf |-> Empty]]
        /\ disk' = [disk EXCEPT ![arg[h].sec] = arg[h].buf]
  /\ UNCHANGED <<state, op, arg, result>>

\* A completed request was carried out; a failed one promises nothing.
Complete(h) ==
  /\ state[h] = "sent"
  /\ state' = [state EXCEPT ![h] = "idle"]
  /\ \/ /\ op[h] \in {"READ", "WRITE"} => eff[h].done
        /\ result' = [result EXCEPT ![h] = [err |-> 0, buf |-> eff[h].buf]]
     \/ result' = [result EXCEPT ![h] = [err |-> 1, buf |-> Empty]]
  /\ \A g \in Handle \ {h} : op'[g] = op[g] /\ arg'[g] = arg[g]
  /\ UNCHANGED <<disk, eff>>

Fail ==
  /\ state' = [h \in Handle |-> IF state[h] = "sent" THEN "failed" ELSE state[h]]
  /\ UNCHANGED <<disk, op, arg, eff, result>>

BNext == (\E h \in Handle : Submit(h) \/ Apply(h) \/ Complete(h)) \/ Fail

BSpec == BInit /\ [][BNext]_bvars
=============================================================================
