----------------------- MODULE SupervisorRefinement -----------------------
(***************************************************************************)
(* A service that is started once and not watched implements the promise   *)
(* of ServiceLifecycle: the tasks of Supervisor, with all their steps,     *)
(* amount to a line of processes.                                          *)
(***************************************************************************)
EXTENDS Supervisor

Launched == {p \in Procs : proc[p] # "none"}
Live == {p \in Procs : Alive(p)}

Line == INSTANCE ServiceLifecycle WITH launched <- Launched, live <- Live, shown <- handle.pid

\* OneLine: through crashes, backoffs, health kills, failed spawns and
\* concurrent stops, processes follow one another: none is launched while
\* another is alive, and the handle never shows one that was replaced (every
\* step of start_service, stop_service, the recovery task and the monitors
\* is a step of ServiceLifecycle, or changes nothing it shows).
OneLine == Line!Spec
=============================================================================
