----------------------------- MODULE Routing -----------------------------
(***************************************************************************)
(* Ports over the life of the services: how start_service and the crash-   *)
(* recovery tasks assign them, enter them in handles and proxy routes, put *)
(* them into the commands and variables of other services (${name.port}),  *)
(* and how the proxy finds a service by its subdomain while all of that    *)
(* changes.                                                                *)
(*                                                                         *)
(* One operation (`a3s up`, then restarts) runs at a time, with stops from *)
(* the UI, crashes, recoveries and an HTTP request running beside it.      *)
(* Processes are numbered as they are spawned, and a recovery task is      *)
(* named after the process it waits for.                                   *)
(***************************************************************************)
EXTENDS ConfigLoading

CONSTANTS
    Files,          \* A3sfile.hcl, the files beside it and the OS variables
    Ports,          \* the ports the operating system may hand out
    MaxProcs,       \* bound: how many processes are ever spawned
    MaxRequests     \* bound: how many restarts and stops are requested

ASSUME RoutingAssumption ==
    IsFiniteSet(Services) /\ MaxProcs \in Nat /\ MaxRequests \in Nat /\ AutoPort \notin Ports

\* what is parsed without an error; Services holds every name that occurs
ASSUME FilesAssumption ==
    \A f \in Files :
        /\ f = [service |-> f.service, dotenv |-> f.dotenv, env_name |-> f.env_name,
                env_override |-> f.env_override, os |-> f.os, args |-> f.args]
        /\ f.service = [n \in Services |-> f.service[n]]
        /\ \A n \in Services : LET s == f.service[n] IN
            /\ s = [mode |-> s.mode, deps |-> s.deps, port |-> s.port, subdomain |-> s.subdomain,
                    readable |-> s.readable, env |-> s.env, env_file |-> s.env_file, cmd |-> s.cmd]
            /\ s.deps \subseteq Services
            /\ IsVars(s.env) /\ IsVars(s.env_file)
        /\ IsVars(f.dotenv) /\ IsVars(f.os)
        /\ f.env_override = [e \in DOMAIN f.env_override |-> f.env_override[e]]
        /\ \A e \in DOMAIN f.env_override : LET o == f.env_override[e] IN
            o = [n \in DOMAIN o |-> o[n]] /\ \A n \in DOMAIN o : IsVars(o[n])

Procs == 1 .. MaxProcs
NoProc == 0

VARIABLES
    file,     \* what is on disk; it does not change
    config,   \* the configuration cell: definitions by name
    phase,    \* of the daemon: "load", "up", or "failed"
    plan,     \* what the operation in progress still has to do
    start,    \* start_service in progress, for each service
    handle,   \* the handles map
    proc,     \* the processes
    rec,      \* crash-recovery tasks
    routes,   \* the proxy's table, [subdomains -> ports]
    req,      \* an HTTP request on its way through the proxy
    issued,   \* requests so far
    mixed     \* history: a recovery task acted for a process that was no
              \* longer the one in the handle (see UnexpectedExitsOnly)

vars == <<file, config, phase, plan, start, handle, proc, rec, routes, req, issued, mixed>>

NoSvc == [mode |-> "absent", deps |-> {}, port |-> AutoPort, subdomain |-> "", readable |-> TRUE,
          env |-> <<>>, env_file |-> <<>>, cmd |-> <<>>]

Idle == [pc |-> "idle", port |-> AutoPort, svc |-> NoSvc, pid |-> NoProc]
Unborn == [svc |-> "", st |-> "none", bound |-> FALSE, port |-> AutoPort, env |-> <<>>, argv |-> <<>>]
\* an exited process that no task looks at any more
Reaped == [Unborn EXCEPT !.st = "reaped"]
NoHandle == [state |-> "absent", port |-> AutoPort, pid |-> NoProc]
NoRec == [pc |-> "none", pid |-> NoProc]
NoReq == [svc |-> "", port |-> AutoPort, pid |-> NoProc]

Init ==
    /\ file \in Files
    /\ config = [n \in Services |-> NoSvc]
    /\ phase = "load"
    /\ plan = <<>>
    /\ start = [n \in Services |-> Idle]
    /\ handle = [n \in Services |-> NoHandle]
    /\ proc = [p \in Procs |-> Unborn]
    /\ rec = [p \in Procs |-> NoRec]
    /\ routes = <<>>
    /\ req = NoReq
    /\ issued = 0
    /\ mixed = FALSE

------------------------------------------------------------------------------
(******************************* Processes ********************************)

\* p listens on its port, possibly while SIGKILL is on its way
Holds(p) == proc[p].bound /\ proc[p].st \in {"run", "dying"}

Free(port) == \A p \in Procs : Holds(p) => proc[p].port # port

\* spawn_process: the next process number, with its environment and command
Born(p, n, svc, port) ==
    /\ proc[p].st = "none"
    /\ \A q \in 1 .. (p - 1) : proc[q].st # "none"
    /\ proc' = [proc EXCEPT ![p] = [Unborn EXCEPT !.svc = n, !.st = "run", !.port = port,
           !.env = Environ(svc, port, file.os), !.argv = Argv(svc, port)]]

\* a process binds the port it was given, if nobody else has it
Bind(p) ==
    /\ proc[p].st = "run" /\ ~proc[p].bound
    /\ Free(proc[p].port)
    /\ proc' = [proc EXCEPT ![p].bound = TRUE]
    /\ UNCHANGED <<file, config, phase, plan, start, handle, rec, routes, req, issued, mixed>>

\* it exits: by itself, because it could not bind, or killed
Exit(p) ==
    /\ proc[p].st \in {"run", "dying"}
    /\ proc' = [proc EXCEPT ![p].st = "dead", ![p].bound = FALSE]
    /\ UNCHANGED <<file, config, phase, plan, start, handle, rec, routes, req, issued, mixed>>

------------------------------------------------------------------------------
(******************************* Operations *******************************)

\* `a3s up` loads and validates the configuration and starts everything
Load ==
    /\ phase = "load"
    /\ IF Readable(file) /\ validate(from_file_with_env(file))
       THEN /\ phase' = "up"
            /\ config' = from_file_with_env(file)
            /\ plan' \in StartAll(config')
       ELSE /\ phase' = "failed"
            /\ UNCHANGED <<config, plan>>
    /\ UNCHANGED <<file, start, handle, proc, rec, routes, req, issued, mixed>>

Quiescent == phase = "up" /\ \A n \in Services : start[n] = Idle

\* mutant: only the service itself
RestartRequestAlone(n) ==
    /\ Quiescent /\ plan = <<>>
    /\ issued < MaxRequests
    /\ issued' = issued + 1
    /\ plan' = <<Step("stop", {n}), Step("start", {n})>>
    /\ UNCHANGED <<file, config, phase, start, handle, proc, rec, routes, req, mixed>>

\* restart_service
RestartRequest(n) ==
    /\ Quiescent /\ plan = <<>>
    /\ issued < MaxRequests
    /\ issued' = issued + 1
    /\ plan' \in Restart(config, n)
    /\ UNCHANGED <<file, config, phase, start, handle, proc, rec, routes, req, mixed>>

\* start_service for all the services of a step, concurrently
BeginStarts ==
    /\ Quiescent
    /\ plan # <<>> /\ Head(plan).verb = "start"
    /\ start' = [n \in Services |->
           IF n \in Head(plan).names THEN [Idle EXCEPT !.pc = "claim"] ELSE start[n]]
    /\ plan' = Tail(plan)
    /\ UNCHANGED <<file, config, phase, handle, proc, rec, routes, req, issued, mixed>>

\* stop_service: the handle keeps the port, the route stays, and the process
\* dies in its own time
Stop(n) ==
    /\ handle' = IF handle[n].state = "absent" THEN handle
                 ELSE [handle EXCEPT ![n].state = "stopped", ![n].pid = NoProc]
    /\ proc' = [p \in Procs |-> IF p = handle[n].pid /\ proc[p].st = "run"
                                THEN [proc[p] EXCEPT !.st = "dying"] ELSE proc[p]]
    /\ UNCHANGED <<file, config, phase, start, rec, routes, req, mixed>>

StopStep ==
    /\ Quiescent
    /\ plan # <<>> /\ Head(plan).verb = "stop"
    /\ \E n \in Head(plan).names : Stop(n)
    /\ plan' = Tail(plan)
    /\ UNCHANGED issued

\* POST /api/stop: this service only, whatever else is going on
UiStop(n) ==
    /\ phase = "up"
    /\ issued < MaxRequests
    /\ issued' = issued + 1
    /\ Stop(n)
    /\ UNCHANGED plan

------------------------------------------------------------------------------
(***************************** start_service ******************************)

\* mutant: a route that exists is kept
UpdateOnce(n, port) ==
    routes' = IF config[n].subdomain = "" THEN routes
              ELSE Merged(routes, Entry(config[n].subdomain, port))

\* ProxyRouter::update
Update(n, port) ==
    routes' = IF config[n].subdomain = "" THEN routes
              ELSE Merged(Entry(config[n].subdomain, port), routes)

\* the ports of all handles, stopped services included
RuntimePorts ==
    [n \in {m \in Services : handle[m].state # "absent"} |-> handle[n].port]

\* the configured port, or one that is free at this moment; the route
\* points to it before there is a process; placeholders are resolved with it
\* and the ports of the other services
Claim(n) ==
    /\ start[n].pc = "claim"
    /\ \E port \in Ports :
        /\ IF config[n].port = AutoPort THEN Free(port) ELSE port = config[n].port
        /\ Update(n, port)
        /\ start' = [start EXCEPT ![n].pc = "spawn", ![n].port = port,
               ![n].svc = resolve_service_ports(config[n], Merged(Entry(n, port), RuntimePorts))]
    /\ UNCHANGED <<file, config, phase, plan, handle, proc, rec, req, issued, mixed>>

\* after the pre_start hook
Spawn(n) ==
    /\ start[n].pc = "spawn"
    /\ ~Blank(start[n].svc)
    /\ \E p \in Procs :
        /\ Born(p, n, start[n].svc, start[n].port)
        /\ start' = [start EXCEPT ![n].pc = "insert", ![n].pid = p]
    /\ UNCHANGED <<file, config, phase, plan, handle, rec, routes, req, issued, mixed>>

\* the start fails, and with it the operation: `a3s up` exits, and with it
\* the recovery tasks and the proxy
SpawnPanics(n) ==
    /\ start[n].pc = "spawn"
    /\ Blank(start[n].svc)
    /\ phase' = "failed"
    /\ plan' = <<>>
    /\ start' = [m \in Services |-> Idle]
    /\ UNCHANGED <<file, config, handle, proc, rec, routes, req, issued, mixed>>

\* the handle, and the recovery task that waits for the process
Insert(n) ==
    LET p == start[n].pid IN
    /\ start[n].pc = "insert"
    /\ handle' = [handle EXCEPT ![n] = [state |-> "running", port |-> start[n].port, pid |-> p]]
    /\ rec' = [rec EXCEPT ![p].pc = "wait"]
    /\ start' = [start EXCEPT ![n] = Idle]
    /\ UNCHANGED <<file, config, phase, plan, proc, routes, req, issued, mixed>>

------------------------------------------------------------------------------
(***************************** Crash recovery *****************************)

Mixed(p) == mixed' = (mixed \/ handle[proc[p].svc].pid # p)

\* the process has exited: end if the service was stopped, else back off
RecCheck(p) ==
    /\ phase = "up"
    /\ rec[p].pc = "wait" /\ proc[p].st = "dead"
    /\ IF handle[proc[p].svc].state = "stopped"
       THEN /\ rec' = [rec EXCEPT ![p] = NoRec]
            /\ proc' = [proc EXCEPT ![p] = Reaped]
            /\ UNCHANGED mixed
       ELSE /\ rec' = [rec EXCEPT ![p].pc = "backoff"]
            /\ Mixed(p)
            /\ UNCHANGED proc
    /\ UNCHANGED <<file, config, phase, plan, start, handle, routes, req, issued>>

\* after the sleep: the same port, placeholders resolved anew
RecSpawn(p) ==
    LET n == proc[p].svc IN
    /\ phase = "up" /\ rec[p].pc = "backoff"
    /\ \E q \in Procs :
        /\ Born(q, n, resolve_service_ports(config[n], RuntimePorts), proc[p].port)
        /\ rec' = [rec EXCEPT ![p] = [pc |-> "insert", pid |-> q]]
    /\ Update(n, proc[p].port)
    /\ Mixed(p)
    /\ UNCHANGED <<file, config, phase, plan, start, handle, req, issued>>

RecInsert(p) ==
    LET q == rec[p].pid IN
    /\ phase = "up" /\ rec[p].pc = "insert"
    /\ handle' = [handle EXCEPT ![proc[p].svc] =
           [state |-> "running", port |-> proc[q].port, pid |-> q]]
    /\ rec' = [rec EXCEPT ![p] = NoRec, ![q].pc = "wait"]
    /\ proc' = [proc EXCEPT ![p] = Reaped]
    /\ Mixed(p)
    /\ UNCHANGED <<file, config, phase, plan, start, routes, req, issued>>

------------------------------------------------------------------------------
(******************************* The proxy ********************************)

\* a request for the subdomain of n arrives and the route is read, AutoPort
\* standing for 404; only requests that are meant for a listening process,
\* pid, are followed
LookUp(n) ==
    LET p == handle[n].pid
        sub == config[n].subdomain IN
    /\ phase = "up" /\ req = NoReq
    /\ sub # ""
    /\ p # NoProc /\ Holds(p)
    /\ req' = [svc |-> n, pid |-> p, port |-> IF sub \in DOMAIN routes THEN routes[sub] ELSE AutoPort]
    /\ UNCHANGED <<file, config, phase, plan, start, handle, proc, rec, routes, issued, mixed>>

\* who answers on a port: 502 if nobody listens
Answerer(port) ==
    IF Free(port) THEN "502" ELSE proc[CHOOSE p \in Procs : Holds(p) /\ proc[p].port = port].svc

\* when the body has been read, the request is forwarded and answered
Forward ==
    /\ phase = "up" /\ req # NoReq
    /\ req' = NoReq
    /\ UNCHANGED <<file, config, phase, plan, start, handle, proc, rec, routes, issued, mixed>>

\* bound: what follows the mistake of a recovery task is left to Supervisor
Next ==
    /\ ~mixed
    /\ \/ Load \/ BeginStarts \/ StopStep \/ Forward
       \/ \E n \in Services :
           \/ RestartRequest(n) \/ UiStop(n) \/ LookUp(n)
           \/ Claim(n) \/ Spawn(n) \/ SpawnPanics(n) \/ Insert(n)
       \/ \E p \in Procs : Bind(p) \/ Exit(p) \/ RecCheck(p) \/ RecSpawn(p) \/ RecInsert(p)

Spec == Init /\ [][Next]_vars

------------------------------------------------------------------------------
(******************************* Properties *******************************)

\* where a variable of n may come from, the first that defines it wins
Sources(n) ==
    LET over == IF file.env_name = "" THEN <<>> ELSE file.env_override[file.env_name] IN
    << IF n \in DOMAIN over THEN over[n] ELSE <<>>,
       file.service[n].env, file.service[n].env_file, file.dotenv, file.os >>

Configured(n) == UNION {DOMAIN Sources(n)[i] : i \in 1 .. 4}
Defined(n) == Configured(n) \cup DOMAIN file.os

\* its value, up to ${name.port}: env() means something in A3sfile.hcl only,
\* and ${VAR} in everything but an override block
Expected(n, k) ==
    LET i == CHOOSE j \in 1 .. 5 :
                 k \in DOMAIN Sources(n)[j] /\ \A h \in 1 .. (j - 1) : k \notin DOMAIN Sources(n)[h]
        raw == Sources(n)[i][k]
        val == IF i \in {1, 2} THEN expand_env_func(file.os, raw) ELSE raw
    IN IF i \in {2, 3, 4} THEN interpolate_env_vars(file.os, val) ELSE val

\* a placeholder may have been replaced by some port
Agrees(got, want) ==
    /\ Len(got) = Len(want)
    /\ \A i \in DOMAIN want :
        \/ got[i] = want[i]
        \/ want[i].kind = "port" /\ \E port \in Ports : got[i] = Chr(port)

\* EnvExact: every process ever spawned has exactly the variables that the
\* documented precedence gives it (override block, env, env_file, .env, then
\* what is inherited), with env() and ${VAR} replaced where they are, and
\* PORT the port it was assigned, after crashes and restarts as at the first
\* start (from_file_with_env merges the sources one by one).
EnvExact ==
    \A p \in Procs : LET P == proc[p] IN
        P.st \notin {"none", "reaped"} =>
            /\ DOMAIN P.env = Defined(P.svc) \cup {"PORT", "HOST"}
            /\ P.env["PORT"] = <<Chr(P.port)>>
            /\ \A k \in Defined(P.svc) \ {"PORT", "HOST"} : Agrees(P.env[k], Expected(P.svc, k))

\* the frameworks that need to be told their port on the command line
IsFramework(args) ==
    \E i \in DOMAIN args :
        /\ args[i] \in Direct
        /\ \/ i = 1
           \/ i = 2 /\ args[1] \in Runners
           \/ i = 3 /\ args[1] \in Runners /\ args[2] \in Subcommands

\* ArgvExact: a command line that quotes a list of non-empty arguments, in
\* any of the three styles and mixtures of them, is split into exactly that
\* list, and only a framework's gets --port (split_cmd, framework_port_args).
ArgvExact ==
    \A p \in Procs : LET P == proc[p]  args == file.args[P.svc] IN
        P.st \notin {"none", "reaped"} =>
            P.argv = args \o IF IsFramework(args) THEN <<<<Chr("--port")>>, <<Chr(P.port)>>>> ELSE <<>>

\* RefsCurrent: in the variables that the configuration gives to the process
\* that the handle of an enabled service shows, ${d.port} stands for the port
\* that d has now, for the service itself and everything it depends on: waves
\* enter d first, a restart of d restarts its dependents, and recovery keeps
\* the port.  (A disabled service that is restarted may refer to others that
\* never ran.)
RefsCurrent ==
    \A n \in Enabled(config) : LET P == proc[handle[n].pid] IN
        handle[n].pid # NoProc /\ ~mixed =>
            \A k \in Configured(n) \ {"PORT", "HOST"} : LET want == Expected(n, k) IN
                \A i \in DOMAIN want :
                    /\ want[i].kind = "port"
                    /\ want[i].text \in Reach([m \in Services |-> config[m].deps], {n})
                    => P.env[k][i] = Chr(handle[want[i].text].port)

\* validate does not ask for it
Unshared(n) == \A m \in Services \ {n} : config[m].subdomain # config[n].subdomain

\* RequestReaches: a request for the subdomain of one service that listens
\* when it arrives, and still does when it is forwarded, is answered by that
\* service, although the proxy uses the route it read before the body, and
\* ports that are given back may be handed to other services meanwhile.
RequestReaches ==
    LET p == req.pid IN
    p # NoProc /\ ~mixed /\ Unshared(req.svc) =>
        (handle[req.svc].pid = p /\ Holds(p) => Answerer(req.port) = req.svc)
=============================================================================
