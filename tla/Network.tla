------------------------------ MODULE Network -------------------------------
(***************************************************************************)
(* The UDP sockets between the master and its slave: datagrams are         *)
(* reordered freely, and up to MaxLoss of them are lost and MaxDup         *)
(* delivered twice.  External to the repository: modelled from the         *)
(* sendto() and recvfrom() calls of src/cloud_storage.cpp,                 *)
(* src/slave_gateway.cpp and src/slave_driver_proxy.cpp.                   *)
(***************************************************************************)
EXTENDS Integers, Bags, BagsExt

CONSTANTS MaxLoss, MaxDup

ASSUME NetworkAssumption == MaxLoss \in Nat /\ MaxDup \in Nat

VARIABLES
  toSlave,    \* bag of datagrams on their way to the slave
  toMaster,   \* bag of datagrams on their way to the master
  losses, dups

net == <<toSlave, toMaster, losses, dups>>

NetInit ==
  /\ toSlave = EmptyBag /\ toMaster = EmptyBag
  /\ losses = 0 /\ dups = 0

SendToSlave(m) == toSlave' = BagAdd(toSlave, m) /\ UNCHANGED <<toMaster, losses, dups>>

SendToMaster(m) == toMaster' = BagAdd(toMaster, m) /\ UNCHANGED <<toSlave, losses, dups>>

RecvFromSlave(m) ==
  /\ BagIn(m, toMaster)
  /\ toMaster' = BagRemove(toMaster, m)
  /\ UNCHANGED <<toSlave, losses, dups>>

RecvFromMaster(m) ==
  /\ BagIn(m, toSlave)
  /\ toSlave' = BagRemove(toSlave, m)
  /\ UNCHANGED <<toMaster, losses, dups>>

Lose ==
  /\ losses < MaxLoss
  /\ losses' = losses + 1
  /\ \/ \E m \in DOMAIN toSlave : toSlave' = BagRemove(toSlave, m) /\ UNCHANGED toMaster
     \/ \E m \in DOMAIN toMaster : toMaster' = BagRemove(toMaster, m) /\ UNCHANGED toSlave
  /\ UNCHANGED dups

Duplicate ==
  /\ dups < MaxDup
  /\ dups' = dups + 1
  /\ \/ \E m \in DOMAIN toSlave : toSlave' = BagAdd(toSlave, m) /\ UNCHANGED toMaster
     \/ \E m \in DOMAIN toMaster : toMaster' = BagAdd(toMaster, m) /\ UNCHANGED toSlave
  /\ UNCHANGED losses
=============================================================================
