---------------------------- MODULE StartStop ----------------------------
(***************************************************************************)
(* start_service and stop_service, step by step, and the requests that are *)
(* made of them: stop, restart (stop, then start), and a reload that       *)
(* removes the service (stop, then swap the configuration) or adds it      *)
(* (swap, then start).  A reload of a changed service is a restart.        *)
(***************************************************************************)
EXTENDS SupervisorState

------------------------------------------------------------------------------
(***************************** Requests ***********************************)

\* restart and reload look the service up in the configuration first; the UI
\* calls stop_service whatever the configuration says.
Issue(c) ==
    /\ client[c].pc = "idle"
    /\ issued < MaxRequests
    /\ issued' = issued + 1
    /\ \E r \in Requests :
        /\ r \in {"restart", "remove"} => configured
        /\ r = "add" => ~configured
        /\ client' = [client EXCEPT ![c] =
               [IdleClient EXCEPT !.pc = IF r = "add" THEN "add" ELSE "stop",
                                  !.req = r]]
    /\ UNCHANGED <<handle, proc, route, configured, rec, mon, wat>>

\* reload swaps the configuration cell: the service disappears from it ...
SwapOut(c) ==
    /\ client[c].pc = "remove"
    /\ configured' = FALSE
    /\ client' = [client EXCEPT ![c] = IdleClient]
    /\ UNCHANGED <<handle, proc, route, rec, issued, mon, wat>>

\* ... or appears in it and is started.
SwapIn(c) ==
    /\ client[c].pc = "add"
    /\ configured' = TRUE
    /\ client' = [client EXCEPT ![c].pc = "start"]
    /\ UNCHANGED <<handle, proc, route, rec, issued, mon, wat>>

------------------------------------------------------------------------------
(*************************** start_service ********************************)

\* what follows the insert of the handle and the wait for health
AfterInsert == IF HasHealth THEN "healthy" ELSE IF HasWatch THEN "watch" ELSE "idle"
AfterHealthy == IF HasWatch THEN "watch" ELSE "idle"

\* look up the configuration, assign a port, register the proxy route
StartBegin(c) ==
    /\ client[c].pc = "start"
    /\ \/ /\ ~configured
          /\ client' = [client EXCEPT ![c] = IdleClient]
          /\ UNCHANGED route
       \/ /\ configured
          /\ LockFree
          /\ \E port \in Ports :
              /\ route' = port
              /\ client' = [client EXCEPT ![c].pc = "spawn", ![c].port = port]
    /\ UNCHANGED <<handle, proc, configured, rec, issued, mon, wat>>

StartSpawn(c) ==
    /\ client[c].pc = "spawn"
    /\ \/ \E p \in Procs :
           /\ Spawn(p)
           /\ client' = [client EXCEPT ![c].pc = "insert", ![c].pid = p]
       \/ /\ SpawnFails
          /\ client' = [client EXCEPT ![c] = IdleClient]
          /\ UNCHANGED proc
    /\ UNCHANGED <<handle, route, configured, rec, issued, mon, wat>>

\* mutant: no recovery task for the new process
StartInsertUnsupervised(c) ==
    /\ client[c].pc = "insert"
    /\ LockFree
    /\ handle' = RunningHandle(client[c].pid, client[c].port, None, 0)
    /\ client' = [client EXCEPT ![c] =
           IF AfterInsert = "idle" THEN IdleClient ELSE [@ EXCEPT !.pc = AfterInsert]]
    /\ UNCHANGED <<proc, route, configured, issued, rec, mon, wat>>

\* insert the handle over any earlier one and spawn the crash-recovery task
StartInsert(c) ==
    LET p == client[c].pid IN
    /\ client[c].pc = "insert"
    /\ LockFree
    /\ handle' = RunningHandle(p, client[c].port, None, 0)
    /\ rec' = [rec EXCEPT ![p] = [NoRec EXCEPT !.pc = "init"]]
    /\ client' = [client EXCEPT ![c] =
           IF AfterInsert = "idle" THEN IdleClient ELSE [@ EXCEPT !.pc = AfterInsert]]
    /\ UNCHANGED <<proc, route, configured, issued, mon, wat>>

\* wait_healthy returned, healthy or not: the ongoing monitor starts
StartHealthy(c) ==
    /\ client[c].pc = "healthy"
    /\ mon' = [mon EXCEPT ![client[c].pid] = NewMon]
    /\ client' = [client EXCEPT ![c] =
           IF AfterHealthy = "idle" THEN IdleClient ELSE [@ EXCEPT !.pc = AfterHealthy]]
    /\ UNCHANGED <<handle, proc, route, configured, issued, rec, wat>>

\* spawn_file_watcher; the thread returns at once if the OS watcher cannot
\* be created
StartWatch(c) ==
    /\ client[c].pc = "watch"
    /\ \E t \in {"top", "none"} :
        wat' = [wat EXCEPT ![client[c].pid] = [NoWat EXCEPT !.thread = t, !.task = "recv"]]
    /\ client' = [client EXCEPT ![c].pc = "store"]
    /\ UNCHANGED <<handle, proc, route, configured, issued, rec, mon>>

\* keep the stop sender in whatever handle the map holds by now
StartWatchStore(c) ==
    /\ client[c].pc = "store"
    /\ LockFree
    /\ handle' = [handle EXCEPT !.watcher_stop = client[c].pid]
    /\ client' = [client EXCEPT ![c] = IdleClient]
    /\ UNCHANGED <<proc, route, configured, rec, issued, mon, wat>>

------------------------------------------------------------------------------
(**************************** stop_service ********************************)

\* what a client does when its stop_service has returned
AfterStop(r) == CASE r = "restart" -> "start"
                  [] r = "remove"  -> "remove"
                  [] OTHER         -> "idle"

Return(c) ==
    LET t == AfterStop(client[c].req) IN
    client' = IF t = "idle" THEN [client EXCEPT ![c] = IdleClient]
              ELSE [client EXCEPT ![c].pc = t, ![c].pid = None, ![c].child = None]

\* the send blocks while an earlier signal is still in the channel of
\* capacity 1; a thread that has ended has dropped the receiver
SendBlocks(w) == w # None /\ wat[w].thread # "none" /\ wat[w].stop

SendStop(w) ==
    wat' = IF w # None /\ wat[w].thread # "none"
           THEN [wat EXCEPT ![w].stop = TRUE] ELSE wat

\* mutant: the state is overwritten before the pid is read from it
MarkFirst(c) ==
    /\ ~SendBlocks(handle.watcher_stop)
    /\ SendStop(handle.watcher_stop)
    /\ client' = [client EXCEPT
           ![c].pc = "kill", ![c].pid = None, ![c].child = handle.child]
    /\ handle' = [handle EXCEPT !.state = "Stopped", !.pid = None, !.child = None]
    /\ UNCHANGED <<proc, route, configured, issued, rec, mon>>

\* signal the watcher, take pid and child out of the handle, mark it Stopped
Mark(c) ==
    /\ ~SendBlocks(handle.watcher_stop)
    /\ SendStop(handle.watcher_stop)
    /\ client' = [client EXCEPT
           ![c].pc = IF handle.pid = None THEN "kill" ELSE "term",
           ![c].pid = handle.pid, ![c].child = handle.child]
    /\ handle' = [handle EXCEPT !.state = "Stopped", !.pid = None, !.child = None]
    /\ UNCHANGED <<proc, route, configured, issued, rec, mon>>

StopMark(c) ==
    /\ client[c].pc = "stop"
    /\ LockFree
    /\ handle.state # "Absent"
    /\ Mark(c)

\* nothing to stop: return without running the hook
StopAbsent(c) ==
    /\ client[c].pc = "stop"
    /\ LockFree
    /\ handle.state = "Absent"
    /\ Return(c)
    /\ UNCHANGED <<handle, proc, route, configured, rec, issued, mon, wat>>

\* the send blocks, with the write lock held ...
StopBlock(c) ==
    /\ client[c].pc = "stop"
    /\ LockFree
    /\ handle.state # "Absent"
    /\ SendBlocks(handle.watcher_stop)
    /\ client' = [client EXCEPT ![c].pc = "blocked"]
    /\ UNCHANGED <<handle, proc, route, configured, rec, issued, mon, wat>>

\* ... until the thread has received the earlier signal and ended
StopUnblock(c) ==
    /\ client[c].pc = "blocked"
    /\ Mark(c)

\* mutant: SIGTERM is not sent
StopTermSilent(c) ==
    /\ client[c].pc = "term"
    /\ client' = [client EXCEPT ![c].pc = "grace"]
    /\ UNCHANGED <<handle, proc, route, configured, rec, issued, mon, wat>>

StopTerm(c) ==
    /\ client[c].pc = "term"
    /\ proc' = Sigterm(proc, client[c].pid)
    /\ client' = [client EXCEPT ![c].pc = "grace"]
    /\ UNCHANGED <<handle, route, configured, rec, issued, mon, wat>>

\* stop_timeout elapses before the child exits
StopTimeout(c) ==
    /\ client[c].pc = "grace"
    /\ ~Exited(client[c].child)
    /\ client' = [client EXCEPT ![c].pc = "expired"]
    /\ UNCHANGED <<handle, proc, route, configured, rec, issued, mon, wat>>

\* mutant: waits for the child without a SIGKILL
StopKillSilent(c) ==
    /\ \/ client[c].pc \in {"expired", "kill"}
       \/ client[c].pc = "grace" /\ Exited(client[c].child)
    /\ client' = [client EXCEPT ![c].pc = "reap"]
    /\ UNCHANGED <<handle, proc, route, configured, rec, issued, mon, wat>>

\* SIGKILL to the process group if there was a pid, then to the child
StopKill(c) ==
    /\ \/ client[c].pc \in {"expired", "kill"}
       \/ client[c].pc = "grace" /\ Exited(client[c].child)
    /\ proc' = Sigkill(Sigkill(proc, client[c].pid), client[c].child)
    /\ client' = [client EXCEPT ![c].pc = "reap"]
    /\ UNCHANGED <<handle, route, configured, rec, issued, mon, wat>>

\* child.kill() returns when the child has been reaped
StopReap(c) ==
    /\ client[c].pc = "reap"
    /\ Exited(client[c].child)
    /\ client' = [client EXCEPT ![c].pc = "hook"]
    /\ UNCHANGED <<handle, proc, route, configured, rec, issued, mon, wat>>

\* the post_stop hook has run (its failure is only logged)
StopHook(c) ==
    /\ client[c].pc = "hook"
    /\ Return(c)
    /\ UNCHANGED <<handle, proc, route, configured, rec, issued, mon, wat>>

ClientStep(c) ==
    \/ SwapOut(c) \/ SwapIn(c)
    \/ StartBegin(c) \/ StartSpawn(c) \/ StartInsert(c)
    \/ StartHealthy(c) \/ StartWatch(c) \/ StartWatchStore(c)
    \/ StopMark(c) \/ StopAbsent(c) \/ StopBlock(c) \/ StopUnblock(c)
    \/ StopTerm(c) \/ StopTimeout(c) \/ StopKill(c) \/ StopReap(c) \/ StopHook(c)
=============================================================================
