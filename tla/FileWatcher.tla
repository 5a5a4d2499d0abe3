--------------------------- MODULE FileWatcher ---------------------------
(***************************************************************************)
(* spawn_watcher's OS thread, which turns relevant, debounced file events  *)
(* into messages, and spawn_file_watcher's task, which receives them and   *)
(* restarts the service.                                                   *)
(***************************************************************************)
EXTENDS SupervisorState

\* the thread looks for a stop signal before every poll
ThreadCheck(w) ==
    /\ wat[w].thread = "top"
    /\ wat' = [wat EXCEPT ![w].thread = IF wat[w].stop THEN "none" ELSE "poll",
                          ![w].stop = FALSE]
    /\ UNCHANGED <<handle, proc, route, configured, issued, client, rec, mon>>

\* the poll times out, or the event is ignored or debounced
ThreadTimeout(w) ==
    /\ wat[w].thread = "poll"
    /\ wat' = [wat EXCEPT ![w].thread = "top"]
    /\ UNCHANGED <<handle, proc, route, configured, issued, client, rec, mon>>

FileChange(w) ==
    /\ wat[w].thread = "poll"
    /\ wat' = [wat EXCEPT ![w].thread = "send"]
    /\ UNCHANGED <<handle, proc, route, configured, issued, client, rec, mon>>

\* mutant: the channel is taken to be unbounded
ThreadSendUnbounded(w) ==
    /\ wat[w].thread = "send"
    /\ wat' = [wat EXCEPT ![w].thread = "top", ![w].queue = @ + 1]
    /\ UNCHANGED <<handle, proc, route, configured, issued, client, rec, mon>>

\* blocking_send: waits for room in the channel
ThreadSend(w) ==
    /\ wat[w].thread = "send"
    /\ wat[w].queue < QueueCap
    /\ wat' = [wat EXCEPT ![w].thread = "top", ![w].queue = @ + 1]
    /\ UNCHANGED <<handle, proc, route, configured, issued, client, rec, mon>>

\* a message, or the end of the task once the thread is gone and the channel
\* is drained
TaskRecv(w) ==
    /\ wat[w].task = "recv"
    /\ \/ /\ wat[w].queue > 0
          /\ wat' = [wat EXCEPT ![w].task = "kill", ![w].queue = @ - 1]
       \/ /\ wat[w].queue = 0
          /\ wat[w].thread = "none"
          /\ wat' = [wat EXCEPT ![w] = NoWat]
    /\ UNCHANGED <<handle, proc, route, configured, issued, client, rec, mon>>

\* mutant: waits for the child under the lock without killing it
TaskKillSilent(w) ==
    /\ wat[w].task = "kill"
    /\ LockFree
    /\ wat' = [wat EXCEPT ![w].task = "killing", ![w].port = handle.port]
    /\ UNCHANGED <<handle, proc, route, configured, issued, client, rec, mon>>

\* child.kill() on the handle's child, with the write lock held
TaskKill(w) ==
    /\ wat[w].task = "kill"
    /\ LockFree
    /\ IF handle.state = "Absent"
       THEN /\ wat' = [wat EXCEPT ![w].task = "recv"]
            /\ UNCHANGED proc
       ELSE /\ wat' = [wat EXCEPT ![w].task = "killing", ![w].port = handle.port]
            /\ proc' = Sigkill(proc, handle.child)
    /\ UNCHANGED <<handle, route, configured, issued, client, rec, mon>>

\* the child is gone: mark Stopped and release the lock
TaskKilled(w) ==
    /\ wat[w].task = "killing"
    /\ Exited(handle.child)
    /\ handle' = [handle EXCEPT !.state = "Stopped", !.pid = None]
    /\ wat' = [wat EXCEPT ![w].task = "config"]
    /\ UNCHANGED <<proc, route, configured, issued, client, rec, mon>>

TaskConfig(w) ==
    /\ wat[w].task = "config"
    /\ wat' = [wat EXCEPT ![w].task = IF configured THEN "spawn" ELSE "recv"]
    /\ UNCHANGED <<handle, proc, route, configured, issued, client, rec, mon>>

TaskSpawn(w) ==
    /\ wat[w].task = "spawn"
    /\ \/ \E p \in Procs :
           /\ Spawn(p)
           /\ wat' = [wat EXCEPT ![w].task = "insert", ![w].proc = p]
       \/ /\ SpawnFails
          /\ wat' = [wat EXCEPT ![w].task = "recv"]
          /\ UNCHANGED proc
    /\ UNCHANGED <<handle, route, configured, issued, client, rec, mon>>

\* mutant: the stop sender is not propagated to the new handle
TaskInsertLeak(w) ==
    /\ wat[w].task = "insert"
    /\ LockFree
    /\ handle' = RunningHandle(wat[w].proc, wat[w].port, None, 0)
    /\ wat' = [wat EXCEPT ![w].task = "recv", ![w].proc = None, ![w].port = 0]
    /\ UNCHANGED <<proc, route, configured, issued, client, rec, mon>>

TaskInsert(w) ==
    /\ wat[w].task = "insert"
    /\ LockFree
    /\ handle' = RunningHandle(wat[w].proc, wat[w].port, w, 0)
    /\ wat' = [wat EXCEPT ![w].task = "recv", ![w].proc = None, ![w].port = 0]
    /\ UNCHANGED <<proc, route, configured, issued, client, rec, mon>>

ThreadStep(w) == ThreadCheck(w) \/ ThreadTimeout(w) \/ ThreadSend(w)
TaskStep(w) ==
    \/ TaskRecv(w) \/ TaskKill(w) \/ TaskKilled(w)
    \/ TaskConfig(w) \/ TaskSpawn(w) \/ TaskInsert(w)
WatcherStep(w) == ThreadStep(w) \/ FileChange(w) \/ TaskStep(w)
=============================================================================
