---------------------------- MODULE Supervisor ----------------------------
(***************************************************************************)
(* The supervisor of one service: every caller of start_service and stop_- *)
(* service, every background task they create, and the processes, composed *)
(* over the shared state of SupervisorState.                               *)
(***************************************************************************)
EXTENDS StartStop, CrashRecovery, HealthMonitor, FileWatcher

\* `a3s up` is about to start the service; IPC and UI already accept requests
Init ==
    /\ handle = NoHandle
    /\ proc = [p \in Procs |-> "none"]
    /\ route = 0
    /\ configured = TRUE
    /\ issued = 0
    /\ client = [c \in Clients |->
           IF c = Main THEN [IdleClient EXCEPT !.pc = "start", !.req = "up"] ELSE IdleClient]
    /\ rec = [p \in Procs |-> NoRec]
    /\ mon = [p \in Procs |-> NoMon]
    /\ wat = [p \in Procs |-> NoWat]

\* a process exits: by itself, on SIGTERM, or killed
ProcExit(p) ==
    /\ Alive(p)
    /\ proc' = [proc EXCEPT ![p] = IF @ = "kill" THEN "killed" ELSE "dead"]
    /\ UNCHANGED <<handle, route, configured, issued, client, rec, mon, wat>>

Next ==
    \/ \E c \in Clients : Issue(c) \/ ClientStep(c)
    \/ \E p \in Procs :
        ProcExit(p) \/ RecoveryStep(p) \/ MonitorStep(p) \/ WatcherStep(p)

Spec == Init /\ [][Next]_vars

(***************************************************************************)
(* Fairness: every task the runtime can run is run, timers fire, and a     *)
(* process that was sent SIGKILL dies.  Nothing makes a client issue a     *)
(* request, a file change, or a process exit by itself or on SIGTERM.      *)
(***************************************************************************)
Fairness ==
    /\ \A c \in Clients : WF_vars(ClientStep(c))
    /\ \A p \in Procs :
        /\ WF_vars(RecoveryStep(p))
        /\ WF_vars(MonitorStep(p))
        /\ WF_vars(ThreadStep(p))
        /\ WF_vars(TaskStep(p))
        /\ WF_vars(proc[p] = "kill" /\ ProcExit(p))

FairSpec == Spec /\ Fairness

------------------------------------------------------------------------------
(***************************** Safety *************************************)

\* Supervised: without file watching, a service shown Running or Unhealthy
\* whose process is alive is watched over: some crash-recovery task waits for
\* exactly that process, or the untaken child is still in the handle and a
\* recovery task is about to take it.  Restarts, stops, reloads and several
\* recovery tasks working on one handle never lose track of the process
\* (spawn_crash_recovery takes the child out of whatever handle it finds).
Supervised ==
    Active /\ ~Dead(handle.pid) =>
        \/ handle.child = handle.pid /\ \E r \in Procs : rec[r].pc \in {"init", "top"}
        \/ \E r \in Procs : rec[r].pc = "wait" /\ rec[r].child = handle.pid

\* leaving Stopped is the insert of a new process
RespawnStep ==
    handle.state = "Stopped" /\ handle'.state \in {"Running", "Unhealthy"}
    => /\ handle'.state = "Running"
       /\ handle'.pid # None
       /\ handle'.child = handle'.pid

\* RespawnOnly: a handle marked Stopped becomes active again only by the
\* insert of a newly spawned process with its child in place; a health
\* monitor that read the state before the stop never writes an active state
\* back (run_health_monitor checks state and pid again under the lock).
RespawnOnly == [][RespawnStep]_vars

\* TermBeforeKill: without file watching, stop_service never sends SIGKILL to
\* a live process that has not been sent SIGTERM.
TermBeforeKill ==
    [][ \A p \in Procs : proc[p] = "run" => proc'[p] # "kill" ]_vars

\* the process is in somebody's hands: in the handle, spawned and about to be
\* put there, or taken out of it by a stop that has yet to kill it
Owned(p) ==
    \/ handle.pid = p
    \/ proc[p] = "kill"
    \/ \E c \in Clients :
        /\ client[c].pc \in {"insert", "term", "grace", "expired"}
        /\ client[c].pid = p
    \/ \E r \in Procs : rec[r].pc = "insert" /\ rec[r].proc = p

\* NoOrphan: as long as the service is started once (by `a3s up`) and not
\* watched, every live process is in somebody's hands: no interleaving of
\* crashes, recoveries, health kills and stops leaks a process that no later
\* stop could reach.
NoOrphan == \A p \in Procs : Alive(p) => Owned(p)

\* OneAlive: under the same conditions at most one process of the service is
\* alive at any time; recovery respawns only after the previous one exited.
OneAlive == \A p, q \in Procs : Alive(p) /\ Alive(q) => p = q

\* PortPreserved: under the same conditions the port of the handle and the
\* proxy route to it stay as first assigned, through every crash restart (the
\* recovery task captures the assigned port once and passes it on).
PortPreserved ==
    [][ handle.port # 0 => handle'.port = handle.port /\ route' = handle.port ]_vars

\* WatcherCancellable: when crash recovery does not restart the service, the
\* handle holds the stop sender of every watcher thread that is still to be
\* stopped, also after restarts triggered by file changes.
WatcherCancellable ==
    \A w \in Procs :
        /\ wat[w].thread # "none"
        /\ ~wat[w].stop
        /\ \A c \in Clients : client[c].pc # "store"
        => handle.watcher_stop = w

------------------------------------------------------------------------------
(**************************** Liveness ************************************)

\* StopCompletes: without file watching every stop_service returns, and the
\* process it took out of the handle dies, even one that ignores SIGTERM.
StopCompletes ==
    /\ \A c \in Clients : client[c].pc \in StopPCs ~> client[c].pc \notin StopPCs
    /\ \A p \in Procs :
        (\E c \in Clients : client[c].pc = "term" /\ client[c].pid = p) ~> Dead(p)

\* CrashRecovers: with on_failure = "restart", max_restarts >= 1 and spawns
\* that succeed, a service shown active whose process is dead is given a new
\* process or stopped, however often it crashes (up to the bound on spawns),
\* unless a reload takes it out of the configuration.
CrashRecovers ==
    \A p \in Procs :
        (handle.pid = p /\ Dead(p)) ~> (handle.pid # p \/ ~configured \/ Exhausted)

\* UnhealthyReplaced: a service marked Unhealthy whose process does not ignore
\* SIGTERM for ever does not stay so: it is given a new process, stopped, or
\* found healthy again by another monitor.
UnhealthyReplaced ==
    \A p \in Procs :
        ~<>[](proc[p] = "term") =>
            ((handle.pid = p /\ handle.state = "Unhealthy")
             ~> (handle.pid # p \/ handle.state # "Unhealthy" \/ Exhausted))

\* LockReleasedUnlessFull: the write lock on the handles is not held for ever
\* by a stop or a file change, unless a watcher thread cannot send because
\* its channel is full (stop_service waits for the thread to look at its stop
\* signal; the watcher task waits for a child that it killed).
LockReleasedUnlessFull ==
    ~LockFree ~>
        \/ LockFree
        \/ \E w \in Procs : wat[w].thread = "send" /\ wat[w].queue = QueueCap

------------------------------------------------------------------------------
(*************** What documentation and comments promise ******************)

\* UnexpectedExitsOnly: crash recovery restarts the service when it exits
\* unexpectedly, not when stop_service killed it.
UnexpectedExitsOnly ==
    [][ \A r \in Procs :
          rec[r].pc = "wait" /\ rec'[r].pc = "backoff" /\ rec[r].child # None
          => proc[rec[r].child] # "killed" ]_vars
=============================================================================
