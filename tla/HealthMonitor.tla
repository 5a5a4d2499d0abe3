-------------------------- MODULE HealthMonitor --------------------------
(***************************************************************************)
(* run_health_monitor: probe at every interval while the service is        *)
(* Running or Unhealthy; after Threshold consecutive failures mark it      *)
(* Unhealthy, SIGTERM the process the handle names, and end.               *)
(***************************************************************************)
EXTENDS SupervisorState

\* the interval is over: end unless the service is still up
MonitorTick(m) ==
    /\ mon[m].pc = "sleep"
    /\ LockFree
    /\ mon' = [mon EXCEPT ![m] = IF Active THEN [@ EXCEPT !.pc = "probe"] ELSE NoMon]
    /\ UNCHANGED <<handle, proc, route, configured, issued, client, rec, wat>>

\* mutant: restores Running whatever the state has become
MonitorOkBlind(m) ==
    /\ mon[m].pc = "probe"
    /\ \E p \in Procs : Alive(p)
    /\ mon[m].fails > 0 => LockFree
    /\ handle' = IF mon[m].fails > 0 THEN [handle EXCEPT !.state = "Running"] ELSE handle
    /\ mon' = [mon EXCEPT ![m] = NewMon]
    /\ UNCHANGED <<proc, route, configured, issued, client, rec, wat>>

\* the probe is answered: by some live process of the service
MonitorOk(m) ==
    /\ mon[m].pc = "probe"
    /\ \E p \in Procs : Alive(p)
    /\ mon[m].fails > 0 => LockFree
    /\ handle' = IF mon[m].fails > 0 /\ handle.state = "Unhealthy"
                 THEN [handle EXCEPT !.state = "Running"] ELSE handle
    /\ mon' = [mon EXCEPT ![m] = NewMon]
    /\ UNCHANGED <<proc, route, configured, issued, client, rec, wat>>

\* the probe fails or times out, for the Threshold-th time in a row or not
MonitorFail(m) ==
    LET n == mon[m].fails + 1 IN
    /\ mon[m].pc = "probe"
    /\ \/ /\ n < Threshold
          /\ mon' = [mon EXCEPT ![m].pc = "sleep", ![m].fails = n]
          /\ UNCHANGED handle
       \/ /\ n >= Threshold
          /\ LockFree
          /\ handle' = IF handle.pid = None THEN handle
                       ELSE [handle EXCEPT !.state = "Unhealthy"]
          /\ mon' = [mon EXCEPT ![m] =
                 IF handle.pid = None THEN NoMon
                 ELSE [@ EXCEPT !.pc = "kill", !.target = handle.pid]]
    /\ UNCHANGED <<proc, route, configured, issued, client, rec, wat>>

\* mutant: marks the service but sends no SIGTERM
MonitorKillSilent(m) ==
    /\ mon[m].pc = "kill"
    /\ mon' = [mon EXCEPT ![m] = NoMon]
    /\ UNCHANGED <<handle, proc, route, configured, issued, client, rec, wat>>

\* the lock is released: SIGTERM to the pid read under it, and end
MonitorKill(m) ==
    /\ mon[m].pc = "kill"
    /\ proc' = Sigterm(proc, mon[m].target)
    /\ mon' = [mon EXCEPT ![m] = NoMon]
    /\ UNCHANGED <<handle, route, configured, issued, client, rec, wat>>

MonitorStep(m) ==
    MonitorTick(m) \/ MonitorOk(m) \/ MonitorFail(m) \/ MonitorKill(m)
=============================================================================
