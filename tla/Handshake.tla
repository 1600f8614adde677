------------------------------ MODULE Handshake -----------------------------
(***************************************************************************)
(* CloudStorage's constructor (src/cloud_storage.cpp): one SlaveData after *)
(* the other binds its port and waits for the hello of its slave, and      *)
(* GetAllFds() hands their sockets to the engine.  A slave sends its hello *)
(* once each time it is started; a slave that still serves an earlier      *)
(* master may send a late reply to the same port.  Datagrams for a port    *)
(* that is not bound are dropped, others may be.                           *)
(***************************************************************************)
EXTENDS Naturals, Sequences

CONSTANTS
  NumSlaves,  \* num_of_slaves
  MaxBoot,    \* bound: how often a slave is started
  MaxLate     \* bound: late replies per port

ASSUME HandshakeAssumption ==
  NumSlaves \in Nat \ {0} /\ MaxBoot \in Nat /\ MaxLate \in Nat

Slaves == 1..NumSlaves

VARIABLES
  stage,     \* the main thread: in bind(), recvfrom(), GetAllFds() or behind it
  i,         \* the slave whose SlaveData is being constructed
  runner,    \* where SlaveData()'s runner points: "start" of buff, or behind a string in it
  ports,     \* the ports that are bound
  sock,      \* per port the datagrams not yet received
  first,     \* per port what the first datagram received was
  m_slaves,  \* the keys of m_slaves map to this slave; 0 if it is empty
  fds,       \* the slaves whose sockets the engine polls
  boots,     \* per slave how often it was started
  lates      \* per port the late replies so far

ctor          == <<stage, i, runner, first, m_slaves, fds>>
handshakeVars == <<ctor, ports, sock, boots, lates>>

HandshakeInit ==
  /\ stage = "bind" /\ i = 1 /\ runner = "start" /\ m_slaves = 0 /\ fds = {}
  /\ ports = {} /\ sock = [s \in Slaves |-> <<>>]
  /\ first = [s \in Slaves |-> "none"]
  /\ boots = [s \in Slaves |-> 0] /\ lates = [s \in Slaves |-> 0]

-----------------------------------------------------------------------------
(* The slaves and the network.                                             *)

\* sendto() port s: the datagram may be lost, and is if the port is not bound.
Send(s, m) ==
  \/ s \in ports /\ sock' = [sock EXCEPT ![s] = Append(@, m)]
  \/ UNCHANGED sock

\* RunSlave() sends the hello.
Boot(s) ==
  /\ boots[s] < MaxBoot
  /\ boots' = [boots EXCEPT ![s] = @ + 1]
  /\ Send(s, "hello")
  /\ UNCHANGED <<ctor, ports, lates>>

\* SendReply() of a task that an earlier master had asked for.
LateReply(s) ==
  /\ lates[s] < MaxLate /\ s \in ports
  /\ lates' = [lates EXCEPT ![s] = @ + 1]
  /\ Send(s, "reply")
  /\ UNCHANGED <<ctor, ports, boots>>

-----------------------------------------------------------------------------
(* SlaveData() and CloudStorage().                                         *)

Bind ==
  /\ stage = "bind"
  /\ ports' = ports \cup {i} /\ stage' = "recv" /\ runner' = "start"
  /\ UNCHANGED <<i, first, m_slaves, fds, sock, boots, lates>>

\* The port is taken: exit(1).
BindFails ==
  /\ stage = "bind" /\ stage' = "exit"
  /\ UNCHANGED <<i, runner, first, m_slaves, fds, ports, sock, boots, lates>>

\* Mutant: runner is not moved behind the header.
RecvNoSkip ==
  /\ stage = "recv" /\ sock[i] # <<>>
  /\ sock' = [sock EXCEPT ![i] = Tail(@)]
  /\ first' = [first EXCEPT ![i] = IF @ = "none" THEN Head(sock[i]) ELSE @]
  /\ runner' = "behind"
  /\ UNCHANGED <<stage, i, m_slaves, fds, ports, boots, lates>>

\* recvfrom() into buff.  From the start of buff, runner is moved behind the datagram's
\* header, where a hello has MAGIC_STR; from there the next datagram moves it behind
\* what follows its header, where there is no MAGIC_STR.  AddSlave() stores the slave
\* under an Offset, and all Offsets are equal.
Recv ==
  /\ stage = "recv" /\ sock[i] # <<>>
  /\ sock' = [sock EXCEPT ![i] = Tail(@)]
  /\ first' = [first EXCEPT ![i] = IF @ = "none" THEN Head(sock[i]) ELSE @]
  /\ runner' = "behind"
  /\ \/ /\ runner = "start" /\ Head(sock[i]) = "hello"
        /\ m_slaves' = i
        /\ IF i = NumSlaves THEN stage' = "fds" /\ UNCHANGED i ELSE stage' = "bind" /\ i' = i + 1
     \/ /\ ~(runner = "start" /\ Head(sock[i]) = "hello")
        /\ UNCHANGED <<stage, i, m_slaves>>
  /\ UNCHANGED <<fds, ports, boots, lates>>

\* GetAllFds() steps NumSlaves times through a map with one element.
GetAllFds ==
  /\ stage = "fds" /\ fds' = {m_slaves}
  /\ stage' = IF NumSlaves > 1 THEN "beyond_end" ELSE "run"
  /\ UNCHANGED <<i, runner, first, m_slaves, ports, sock, boots, lates>>

Master == Bind \/ Recv \/ GetAllFds

HandshakeNext ==
  \/ Master \/ BindFails
  \/ \E s \in Slaves : Boot(s) \/ LateReply(s)

HandshakeSpec == HandshakeInit /\ [][HandshakeNext]_handshakeVars

-----------------------------------------------------------------------------
(* Properties.                                                             *)

\* A hello that arrived and was not recognised was preceded by another datagram: no order
\* of starts, losses and restarts of the slaves alone makes the master miss one.
MissedNeedsStray ==
  \A s \in Slaves : stage = "recv" /\ i = s /\ runner = "behind" => first[s] = "reply"
=============================================================================
