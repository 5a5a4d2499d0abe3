------------------------- MODULE ServiceLifecycle -------------------------
(***************************************************************************)
(* What the supervisor promises of one service that is started once: a     *)
(* line of processes, each launched when the one before is gone, and a     *)
(* handle that shows nothing or the latest of them.  How processes are     *)
(* started, watched, restarted and stopped is left open.                   *)
(***************************************************************************)
EXTENDS Naturals

VARIABLES
    launched,   \* the processes launched so far, numbered in that order
    live,       \* those that are alive
    shown       \* the one that status shows and a stop would signal, or 0

vars == <<launched, live, shown>>

Init == launched = {} /\ live = {} /\ shown = 0

\* the first start, or the replacement of a process that is gone
Launch ==
    /\ live = {}
    /\ \E p \in launched' \ launched :
        /\ \A q \in launched : q < p
        /\ launched' = launched \cup {p}
        /\ live' = {p}
    /\ UNCHANGED shown

\* the latest process is entered in the handle, alive or not
Show ==
    /\ shown' \in launched
    /\ \A q \in launched : q <= shown'
    /\ UNCHANGED <<launched, live>>

\* a stop
Hide ==
    /\ shown' = 0
    /\ UNCHANGED <<launched, live>>

Die ==
    /\ live' = {}
    /\ UNCHANGED <<launched, shown>>

Next == Launch \/ Show \/ Hide \/ Die

Spec == Init /\ [][Next]_vars
=============================================================================
