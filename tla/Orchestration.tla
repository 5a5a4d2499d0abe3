-------------------------- MODULE Orchestration --------------------------
(***************************************************************************)
(* What the supervisor does to ALL services: start_all, start_named,       *)
(* stop_all, stop_named, restart_service and reload, run by `a3s up`, by   *)
(* the signals it handles and by IPC connections, concurrently.            *)
(*                                                                         *)
(* Every operation plans its steps (Plans) from the configuration it read  *)
(* at its beginning and carries them out one after the other; the services *)
(* of one step are handled concurrently.  start_service and stop_service   *)
(* are kept coarse here (Supervisor has their steps), and nothing crashes. *)
(***************************************************************************)
EXTENDS Plans

CONSTANTS
    Configs,        \* configurations A3sfile.hcl may hold, a set of functions
    Clients,        \* tasks that run operations
    Main,           \* the task of `a3s up`: starts, handles signals, exits
    Requests,       \* what other clients ask for
    MaxRequests,    \* bound: operations between the start and the shutdown
    SpawnFails      \* spawn_process may fail

\* a service's definition, as far as the operations look at it; ver stands
\* for everything else in the block
Defs == [mode : {"absent", "on", "off"}, deps : SUBSET Services, ver : Nat]

ASSUME OrchestrationAssumption ==
    /\ IsFiniteSet(Services)
    /\ Configs \subseteq [Services -> Defs] /\ Configs # {}
    /\ \A cfg \in Configs : Valid(cfg)
    /\ Main \in Clients
    /\ Requests \subseteq {"stop_all", "stop_named", "restart", "reload"}
    /\ MaxRequests \in Nat
    /\ SpawnFails \in BOOLEAN

VARIABLES
    config,   \* the configuration cell
    handle,   \* state of the handles, "absent" if there is none
    alive,    \* how many processes of a service have not been killed
    op,       \* the operations in progress
    daemon,   \* "up", "exited" after a shutdown, "failed" if the start failed
    issued,   \* requests and reloads so far
    quiet     \* history: no two operations have overlapped so far

vars == <<config, handle, alive, op, daemon, issued, quiet>>

------------------------------------------------------------------------------
(******************************* Operations *******************************)

\* task: what is being done to a service in the current step; started and
\* stopped: the calls of start_service and stop_service that have returned
NoTasks == [n \in Services |-> "none"]

Idle == [kind |-> "idle", old |-> CHOOSE cfg \in Configs : TRUE,
         cfg |-> CHOOSE cfg \in Configs : TRUE,
         plan |-> <<>>, task |-> NoTasks, started |-> {}, stopped |-> {}]

Operation(kind, old, cfg, plan) ==
    [Idle EXCEPT !.kind = kind, !.old = old, !.cfg = cfg, !.plan = plan]

\* `a3s up`, with or without names
Init ==
    /\ config \in Configs
    /\ handle = [n \in Services |-> "absent"]
    /\ alive = [n \in Services |-> 0]
    /\ \E A \in SUBSET Services :
        \E plan \in IF A = {} THEN StartAll(config) ELSE StartNamed(config, A) :
            op = [c \in Clients |->
                    IF c = Main THEN Operation("up", config, config, plan) ELSE Idle]
    /\ daemon = "up"
    /\ issued = 0
    /\ quiet = TRUE

Begin(c, kind, new, plans) ==
    /\ daemon = "up"
    /\ op[c].kind = "idle"
    /\ \E plan \in plans : op' = [op EXCEPT ![c] = Operation(kind, config, new, plan)]
    /\ quiet' = (quiet /\ \A d \in Clients \ {c} : op[d].kind = "idle")
    /\ UNCHANGED <<config, handle, alive, daemon>>

Counted ==
    /\ issued < MaxRequests
    /\ issued' = issued + 1

\* a request over IPC or from the UI
Request(c) ==
    /\ Counted
    /\ c # Main
    /\ \/ "stop_all" \in Requests /\ Begin(c, "stop", config, StopAll(config))
       \/ /\ "stop_named" \in Requests
          /\ \E A \in SUBSET Services \ {{}} : Begin(c, "stop", config, StopNamed(config, A))
       \/ /\ "restart" \in Requests
          /\ \E n \in Services : Begin(c, "restart", config, Restart(config, n))
       \/ /\ "reload" \in Requests
          /\ \E new \in Configs : Begin(c, "reload", new, Reload(config, new))

\* SIGHUP, once `a3s up` has started the services
Sighup ==
    /\ Counted
    /\ \E new \in Configs : Begin(Main, "reload", new, Reload(config, new))

\* Ctrl+C or SIGTERM, likewise
Shutdown ==
    /\ Begin(Main, "shutdown", config, StopAll(config))
    /\ UNCHANGED issued

------------------------------------------------------------------------------
(********************************* Steps **********************************)

\* the operation ends with an error: the rest of the plan is dropped, and
\* the JoinSet aborts what the current step still has to do
Fail(c) ==
    /\ op' = [op EXCEPT ![c] = Idle]
    /\ daemon' = IF op[c].kind = "up" THEN "failed" ELSE daemon

\* mutant: does not wait for the tasks of the step before
NextStepEager(c) ==
    /\ daemon = "up"
    /\ op[c].plan # <<>>
    /\ LET s == Head(op[c].plan) IN
       /\ s.verb \in {"start", "stop"}
       /\ op' = [op EXCEPT ![c].plan = Tail(@),
                           ![c].task = [n \in Services |-> IF n \in s.names THEN s.verb ELSE @[n]]]
    /\ UNCHANGED <<config, handle, alive, daemon, issued, quiet>>

\* the next step of the plan, when every task of the one before has returned
NextStep(c) ==
    /\ daemon = "up"
    /\ op[c].plan # <<>>
    /\ op[c].task = NoTasks
    /\ LET s == Head(op[c].plan) IN
       /\ s.verb \in {"start", "stop"}
       /\ op' = [op EXCEPT ![c].plan = Tail(@),
                           ![c].task = [n \in Services |-> IF n \in s.names THEN s.verb ELSE @[n]]]
    /\ UNCHANGED <<config, handle, alive, daemon, issued, quiet>>

SwapConfig(c) ==
    /\ daemon = "up"
    /\ op[c].task = NoTasks
    /\ op[c].plan # <<>> /\ Head(op[c].plan).verb = "swap"
    /\ config' = op[c].cfg
    /\ op' = [op EXCEPT ![c].plan = Tail(@)]
    /\ UNCHANGED <<handle, alive, daemon, issued, quiet>>

GraphError(c) ==
    /\ daemon = "up"
    /\ op[c].plan # <<>> /\ Head(op[c].plan).verb = "fail"
    /\ Fail(c)
    /\ UNCHANGED <<config, handle, alive, issued, quiet>>

\* start_service: looked up in the configuration of this moment
StartService(c, n) ==
    /\ daemon = "up"
    /\ op[c].task[n] = "start"
    /\ \/ /\ n \in Declared(config)
          /\ handle' = [handle EXCEPT ![n] = "running"]
          /\ alive' = [alive EXCEPT ![n] = @ + 1]
          /\ op' = [op EXCEPT ![c].task[n] = "starting"]
          /\ UNCHANGED daemon
       \/ /\ SpawnFails \/ n \notin Declared(config)
          /\ Fail(c)
          /\ UNCHANGED <<handle, alive>>
    /\ UNCHANGED <<config, issued, quiet>>

\* ... returns after the wait for health
StartReturns(c, n) ==
    /\ daemon = "up"
    /\ op[c].task[n] = "starting"
    /\ op' = [op EXCEPT ![c].task[n] = "none", ![c].started = @ \cup {n}]
    /\ UNCHANGED <<config, handle, alive, daemon, issued, quiet>>

\* stop_service: mark the handle under the lock
StopService(c, n) ==
    /\ daemon = "up"
    /\ op[c].task[n] = "stop"
    /\ handle' = [handle EXCEPT ![n] = IF @ = "absent" THEN @ ELSE "stopped"]
    /\ op' = [op EXCEPT ![c].task[n] = IF handle[n] = "running" THEN "killing" ELSE "stopping"]
    /\ UNCHANGED <<config, alive, daemon, issued, quiet>>

\* ... and kill the process that was in it
StopReturns(c, n) ==
    /\ daemon = "up"
    /\ op[c].task[n] \in {"killing", "stopping"}
    /\ alive' = IF op[c].task[n] = "killing" THEN [alive EXCEPT ![n] = @ - 1] ELSE alive
    /\ op' = [op EXCEPT ![c].task[n] = "none", ![c].stopped = @ \cup {n}]
    /\ UNCHANGED <<config, handle, daemon, issued, quiet>>

\* everything done: reply, or exit after a shutdown
Finish(c) ==
    /\ daemon = "up"
    /\ op[c].kind # "idle"
    /\ op[c].plan = <<>>
    /\ op[c].task = NoTasks
    /\ op' = [op EXCEPT ![c] = Idle]
    /\ daemon' = IF op[c].kind = "shutdown" THEN "exited" ELSE daemon
    /\ UNCHANGED <<config, handle, alive, issued, quiet>>

Next ==
    \/ Sighup \/ Shutdown
    \/ \E c \in Clients :
        \/ Request(c) \/ NextStep(c) \/ SwapConfig(c) \/ GraphError(c) \/ Finish(c)
        \/ \E n \in Services :
            StartService(c, n) \/ StartReturns(c, n) \/ StopService(c, n) \/ StopReturns(c, n)

Spec == Init /\ [][Next]_vars

------------------------------------------------------------------------------
(******************************* Properties *******************************)

\* the services whose start this operation has not finished
Unstarted(o) ==
    {n \in Services : o.task[n] \in {"start", "starting"}}
    \cup UNION {o.plan[i].names : i \in {j \in DOMAIN o.plan : o.plan[j].verb = "start"}}

\* DepsFirst: whatever other operations do meanwhile, an operation starts a
\* service only when start_service has returned (health wait included) for
\* all the dependencies that it starts too; `a3s up`, of everything or of
\* named services, for all its dependencies (start_all joins a wave before
\* the next one; start_named, restart_service and reload follow start_order).
DepsFirst ==
    [][ \A c \in Clients, n \in Services :
          op[c].task[n] = "start" /\ op'[c].task[n] = "starting" =>
              /\ op[c].cfg[n].deps \cap Unstarted(op[c]) = {}
              /\ op[c].kind = "up" => op[c].cfg[n].deps \subseteq op[c].started ]_vars

\* DependentsStopFirst: with a start order, stop_all, stop_named, a restart
\* and a shutdown stop a service only when stop_service has returned for all
\* services that depend on it, whatever other operations do meanwhile.
DependentsStopFirst ==
    [][ \A c \in Clients, n \in Services :
          /\ op[c].kind \in {"stop", "restart", "shutdown"}
          /\ Acyclic(op[c].cfg)
          /\ op[c].task[n] = "stop" /\ op'[c].task[n] # "stop"
          => Dependents(op[c].cfg, n) \subseteq op[c].stopped ]_vars

\* ReloadExact: when no operations overlap, after a reload that succeeds the
\* services that are gone from the file or disabled in it have no process,
\* the changed and new ones have exactly one, and so has every handle shown
\* running (a restart or reload never leaves the old process behind).
ReloadExact ==
    [][ \A c \in Clients :
          quiet /\ op[c].kind = "reload" /\ Finish(c) =>
              \A n \in Services :
                  /\ n \in Declared(op[c].old) \ Enabled(config) => alive[n] = 0
                  /\ n \in Enabled(config) /\ op[c].old[n] # config[n] => alive[n] = 1
                  /\ alive[n] = IF handle[n] = "running" THEN 1 ELSE 0 ]_vars

\* ShutdownComplete: when no operations overlap and the last configuration
\* has a start order, the daemon leaves no process behind when it is shut
\* down: stop_all reaches every service that any earlier start, restart,
\* reload or failure of one left running.
ShutdownComplete ==
    daemon = "exited" /\ quiet /\ Acyclic(config) => \A n \in Services : alive[n] = 0
=============================================================================
