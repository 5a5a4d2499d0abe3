------------------------- MODULE SupervisorState -------------------------
(***************************************************************************)
(* The state that the concurrent tasks of the supervisor share for ONE     *)
(* service: its entry in the handles map, the operating-system processes   *)
(* that were ever spawned for it, the proxy route, the configuration cell, *)
(* and the local state of every task that works on it.  The actions of the *)
(* tasks are in StartStop, CrashRecovery, HealthMonitor and FileWatcher.   *)
(*                                                                         *)
(* Processes are numbered in the order in which they are spawned, and a    *)
(* background task is named after the process it was created for: start_-  *)
(* service creates one recovery task and one watcher per process it        *)
(* spawns, and a health monitor is created for every process.              *)
(***************************************************************************)
EXTENDS Naturals

CONSTANTS
    MaxProcs,       \* bound: how many processes are ever spawned
    Clients,        \* callers of the supervisor: `a3s up`, IPC and UI tasks
    Main,           \* the caller that runs `a3s up`
    Requests,       \* what clients ask for, a subset of RequestKinds
    MaxRequests,    \* bound: how many requests are ever issued
    Ports,          \* the ports start_service may assign
    HasHealth,      \* the service has a health block
    HasWatch,       \* the service has a watch block with restart = true
    OnFailure,      \* restart.on_failure, "restart" or "stop"
    MaxRestarts,    \* restart.max_restarts
    Threshold,      \* HEALTH_FAILURE_THRESHOLD
    QueueCap,       \* capacity of the channel watcher thread -> task
    SpawnFails      \* spawn_process may fail (pre_start hook, exec error)

RequestKinds == {"stop", "restart", "remove", "add"}

ASSUME ConstantsAssumption ==
    /\ MaxProcs \in Nat \ {0}
    /\ Main \in Clients
    /\ Requests \subseteq RequestKinds
    /\ MaxRequests \in Nat
    /\ Ports \subseteq Nat \ {0} /\ Ports # {}
    /\ HasHealth \in BOOLEAN /\ HasWatch \in BOOLEAN
    /\ OnFailure \in {"restart", "stop"}
    /\ MaxRestarts \in Nat
    /\ Threshold \in Nat \ {0}
    /\ QueueCap \in Nat \ {0}
    /\ SpawnFails \in BOOLEAN

Procs == 1 .. MaxProcs

\* No process: a pid of None, a sender of None, or the short-lived `true`
\* child that stands in a handle whose real child a task has taken out.
None == 0
MaybeProc == Procs \cup {None}
MaybePort == Ports \cup {0}

VARIABLES
    handle,      \* the ServiceHandle of the service
    proc,        \* the processes, [Procs -> ProcStates]
    route,       \* the port the proxy forwards the subdomain to, 0 if none
    configured,  \* the service is in the configuration cell
    issued,      \* how many requests were issued so far
    client,      \* callers inside start_service or stop_service
    rec,         \* crash-recovery tasks
    mon,         \* health monitors
    wat          \* file watchers: OS thread, channel and task

vars == <<handle, proc, route, configured, issued, client, rec, mon, wat>>

------------------------------------------------------------------------------
(***************************************************************************)
(* Processes.  "run": alive; "term": alive, SIGTERM pending or ignored;    *)
(* "kill": SIGKILL sent, about to die; "dead": exited; "killed": exited,   *)
(* by SIGKILL.                                                             *)
(***************************************************************************)
ProcStates == {"none", "run", "term", "kill", "dead", "killed"}

Alive(p) == p \in Procs /\ proc[p] \in {"run", "term", "kill"}

Dead(p) == proc[p] \in {"dead", "killed"}

\* waiting on the stand-in child returns at once
Exited(c) == c # None => Dead(c)

\* a pid or child of None receives no signal
Sigterm(ps, p) ==
    [q \in Procs |-> IF q = p /\ ps[q] = "run" THEN "term" ELSE ps[q]]

Sigkill(ps, p) ==
    [q \in Procs |-> IF q = p /\ ps[q] \in {"run", "term"} THEN "kill" ELSE ps[q]]

\* spawn_process succeeds and returns child p
Spawn(p) ==
    /\ proc[p] = "none"
    /\ \A q \in 1 .. (p - 1) : proc[q] # "none"
    /\ proc' = [proc EXCEPT ![p] = "run"]

Exhausted == \A p \in Procs : proc[p] # "none"

------------------------------------------------------------------------------
(***************************************************************************)
(* The handle.  State "Absent": no entry in the map.  pid is the one inside*)
(* ServiceState::Running/Unhealthy, None in any other state.               *)
(***************************************************************************)
HandleStates == {"Absent", "Running", "Unhealthy", "Stopped"}

Handles == [state : HandleStates, pid : MaybeProc, child : MaybeProc,
            port : MaybePort, watcher_stop : MaybeProc, restart_count : Nat]

NoHandle == [state |-> "Absent", pid |-> None, child |-> None,
             port |-> 0, watcher_stop |-> None, restart_count |-> 0]

RunningHandle(p, port, stop, count) ==
    [state |-> "Running", pid |-> p, child |-> p,
     port |-> port, watcher_stop |-> stop, restart_count |-> count]

Active == handle.state \in {"Running", "Unhealthy"}

------------------------------------------------------------------------------
(***************************************************************************)
(* The tasks' local states.  A task that does not exist yet and one that   *)
(* has ended look the same: process numbers are never reused.              *)
(***************************************************************************)
StopPCs == {"stop", "blocked", "term", "grace", "expired", "kill", "reap", "hook"}
StartPCs == {"start", "spawn", "insert", "healthy", "watch", "store"}

ClientRecords ==
    [pc : {"idle", "remove", "add"} \cup StopPCs \cup StartPCs,
     req : RequestKinds \cup {"up", "none"},
     pid : MaybeProc, child : MaybeProc, port : MaybePort]

IdleClient == [pc |-> "idle", req |-> "none", pid |-> None, child |-> None, port |-> 0]

RecRecords ==
    [pc : {"none", "init", "top", "wait", "backoff", "spawn", "insert"},
     child : MaybeProc, port : MaybePort, tries : Nat, proc : MaybeProc]

NoRec == [pc |-> "none", child |-> None, port |-> 0, tries |-> 0, proc |-> None]

MonRecords == [pc : {"none", "sleep", "probe", "kill"}, fails : Nat, target : MaybeProc]

NoMon == [pc |-> "none", fails |-> 0, target |-> None]
NewMon == [NoMon EXCEPT !.pc = "sleep"]

WatRecords ==
    [thread : {"none", "top", "poll", "send"}, stop : BOOLEAN, queue : 0 .. QueueCap,
     task : {"none", "recv", "kill", "killing", "config", "spawn", "insert"},
     proc : MaybeProc, port : MaybePort]

NoWat == [thread |-> "none", stop |-> FALSE, queue |-> 0,
          task |-> "none", proc |-> None, port |-> 0]

------------------------------------------------------------------------------
(***************************************************************************)
(* The write lock on the handles map.  Every critical section is one step, *)
(* except the two that wait while holding it: stop_service blocked in the  *)
(* send of the stop signal, and the watcher task killing the child.        *)
(***************************************************************************)
LockFree ==
    /\ \A c \in Clients : client[c].pc # "blocked"
    /\ \A w \in Procs : wat[w].task # "killing"

TypeOK ==
    /\ handle \in Handles
    /\ proc \in [Procs -> ProcStates]
    /\ route \in MaybePort
    /\ configured \in BOOLEAN
    /\ issued \in Nat
    /\ client \in [Clients -> ClientRecords]
    /\ rec \in [Procs -> RecRecords]
    /\ mon \in [Procs -> MonRecords]
    /\ wat \in [Procs -> WatRecords]
=============================================================================
