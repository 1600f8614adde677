------------------------------ MODULE MCBeside ------------------------------
(***************************************************************************)
(* What a process does beside its requests, for TLC: the life of its       *)
(* engine with the plugins, and its log.  The logs are those of a master   *)
(* with two threads and of a slave with one, which run in one directory.   *)
(* As in MCParts, one behaviour runs one of them.                          *)
(***************************************************************************)
EXTENDS PlugAndPlay, Logger, TLC

CONSTANTS master, slave, t1, t2, t3, greencloud1

MCProcOf == (t1 :> master) @@ (t2 :> master) @@ (t3 :> slave)
MCFileName == (master :> greencloud1) @@ (slave :> greencloud1)

\* The source files src/driver_proxy_gateway.cpp, and the same with a long path
\* /home/student/git/greencloud/src/driver_proxy_gateway.cpp.
MCSrcFile == {<<3, 24>>, <<0, 4, 7, 3, 10, 3, 24>>}

VARIABLE part   \* what runs

besideVars == <<part, vars, logVars>>

BesideInit == part \in {"engine", "log"} /\ Init /\ LogInit

BesideNext ==
  /\ part' = part
  /\ \/ part = "engine" /\ Next /\ UNCHANGED logVars
     \/ part = "log" /\ LogNext /\ UNCHANGED vars

\* The fairness of PlugAndPlay's FairSpec, asked only when the engine is what runs.
BesideSpec ==
  /\ BesideInit /\ [][BesideNext]_besideVars
  /\ WF_vars(part = "engine" /\ Monitor)
  /\ WF_vars(part = "engine" /\ MainThread)
  /\ \A r \in Request : WF_vars(part = "engine" /\ PoolThread(r))
  /\ \A f \in File : WF_vars(part = "engine" /\ Fill(f))
=============================================================================
