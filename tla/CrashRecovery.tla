-------------------------- MODULE CrashRecovery --------------------------
(***************************************************************************)
(* The task that spawn_crash_recovery starts for every start_service: it   *)
(* takes the child out of the handle, waits for its exit, and, unless the  *)
(* service was stopped or the policy says no, sleeps, respawns and inserts *)
(* a new handle.                                                           *)
(***************************************************************************)
EXTENDS SupervisorState

\* mutant: a port is assigned anew, as at start
RecoveryInitReassign(r) ==
    /\ rec[r].pc = "init"
    /\ LockFree
    /\ \E port \in Ports : rec' = [rec EXCEPT ![r].pc = "top", ![r].port = port]
    /\ UNCHANGED <<handle, proc, route, configured, issued, client, mon, wat>>

\* the port is captured once and kept for all restarts
RecoveryInit(r) ==
    /\ rec[r].pc = "init"
    /\ LockFree
    /\ rec' = [rec EXCEPT ![r].pc = "top", ![r].port = handle.port]
    /\ UNCHANGED <<handle, proc, route, configured, issued, client, mon, wat>>

\* loop top: take whatever child the handle holds, leaving a stand-in
RecoveryTake(r) ==
    /\ rec[r].pc = "top"
    /\ LockFree
    /\ IF Active
       THEN /\ rec' = [rec EXCEPT ![r].pc = "wait", ![r].child = handle.child]
            /\ handle' = [handle EXCEPT !.child = None]
       ELSE /\ rec' = [rec EXCEPT ![r] = NoRec]
            /\ UNCHANGED handle
    /\ UNCHANGED <<proc, route, configured, issued, client, mon, wat>>

DefaultMaxRestarts == 10

\* mutant: gives up one restart too early
MayRestartStrict(tries) ==
    IF configured THEN OnFailure = "restart" /\ tries < MaxRestarts
                  ELSE tries < DefaultMaxRestarts

\* the policy of the current configuration, the default one if the service
\* is no longer in it
MayRestart(tries) ==
    IF configured THEN OnFailure = "restart" /\ tries <= MaxRestarts
                  ELSE tries <= DefaultMaxRestarts

\* mutant: does not wait for the child to exit
RecoveryCheckEarly(r) ==
    LET n == rec[r].tries + 1 IN
    /\ rec[r].pc = "wait"
    /\ LockFree
    /\ rec' = IF Active /\ MayRestart(n)
              THEN [rec EXCEPT ![r].pc = "backoff", ![r].child = None, ![r].tries = n]
              ELSE [rec EXCEPT ![r] = NoRec]
    /\ UNCHANGED <<handle, proc, route, configured, issued, client, mon, wat>>

\* the child has exited: end if the service was stopped or the policy says
\* so, else back off
RecoveryCheck(r) ==
    LET n == rec[r].tries + 1 IN
    /\ rec[r].pc = "wait"
    /\ Exited(rec[r].child)
    /\ LockFree
    /\ rec' = IF Active /\ MayRestart(n)
              THEN [rec EXCEPT ![r].pc = "backoff", ![r].child = None, ![r].tries = n]
              ELSE [rec EXCEPT ![r] = NoRec]
    /\ UNCHANGED <<handle, proc, route, configured, issued, client, mon, wat>>

\* the backoff sleep is over: only the configuration is looked at again
RecoveryWake(r) ==
    /\ rec[r].pc = "backoff"
    /\ rec' = [rec EXCEPT ![r] = IF configured THEN [@ EXCEPT !.pc = "spawn"] ELSE NoRec]
    /\ UNCHANGED <<handle, proc, route, configured, issued, client, mon, wat>>

\* read the runtime ports, respawn, and point the proxy at the captured port
RecoverySpawn(r) ==
    /\ rec[r].pc = "spawn"
    /\ LockFree
    /\ \/ \E p \in Procs :
           /\ Spawn(p)
           /\ rec' = [rec EXCEPT ![r].pc = "insert", ![r].proc = p]
           /\ route' = rec[r].port
       \/ /\ SpawnFails
          /\ rec' = [rec EXCEPT ![r] = NoRec]
          /\ UNCHANGED <<proc, route>>
    /\ UNCHANGED <<handle, configured, issued, client, mon, wat>>

\* replace the handle, whatever its state; re-arm the monitor; go round
RecoveryInsert(r) ==
    LET p == rec[r].proc IN
    /\ rec[r].pc = "insert"
    /\ LockFree
    /\ handle' = RunningHandle(p, rec[r].port, None, handle.restart_count + 1)
    /\ mon' = IF HasHealth THEN [mon EXCEPT ![p] = NewMon] ELSE mon
    /\ rec' = [rec EXCEPT ![r].pc = "top", ![r].tries = 0, ![r].proc = None]
    /\ UNCHANGED <<proc, route, configured, issued, client, wat>>

RecoveryStep(r) ==
    \/ RecoveryInit(r) \/ RecoveryTake(r) \/ RecoveryCheck(r)
    \/ RecoveryWake(r) \/ RecoverySpawn(r) \/ RecoveryInsert(r)
=============================================================================
