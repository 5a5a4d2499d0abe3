------------------------------- MODULE Daemon -------------------------------
(***************************************************************************)
(* Daemons of one project and the commands that talk to them.  `a3s up`    *)
(* does not look for a daemon that is already there: it removes whatever   *)
(* is at the socket path, binds its own socket there, and removes the path *)
(* again when it shuts down.  A daemon that crashes, or that cannot start  *)
(* its services, leaves its socket behind.                                 *)
(*                                                                         *)
(* What a request does to the services is in Orchestration; here services  *)
(* change state by themselves, within what the supervisor allows.          *)
(***************************************************************************)
EXTENDS Naturals

CONSTANTS
    Daemons,        \* `a3s up` processes of the project, over time
    Services,       \* the services that the configuration declares
    Started,        \* those that are neither disabled nor deselected
    Clients,        \* the other commands
    MaxCommands,    \* bound: how many commands are ever run
    None            \* no daemon

ASSUME DaemonAssumption ==
    /\ Started \subseteq Services
    /\ MaxCommands \in Nat
    /\ None \notin Daemons

VARIABLES
    daemon,     \* main: the task of `a3s up`; ipc: the socket server
    path,       \* whose socket is at the socket path
    lone,       \* the daemons that have never overlapped with another
    client,     \* the commands
    commands    \* how many were run

vars == <<daemon, path, lone, client, commands>>

RowStates == {"pending", "running", "unhealthy", "stopped"}

\* mine: the daemon that --wait launched; peer: the one that has the connection;
\* late: the deadline has passed
IdleClient == [pc |-> "idle", cmd |-> "none", mine |-> None, peer |-> None,
               late |-> FALSE, result |-> "none"]

\* main: off, starting, waiting (for a signal), stopping, unlink, gone; ipc: off,
\* unlink, bind, serving, failed; row: what status_rows shows; fit: the health
\* check has passed, or there is none, since the process was last spawned
NewDaemon == [main |-> "off", ipc |-> "off", row |-> [s \in Services |-> "pending"], fit |-> {}]

\* the process has ended and its memory with it
GoneDaemon == [NewDaemon EXCEPT !.main = "gone"]

Up(d) == daemon[d].main \notin {"off", "gone"}
Listens(d) == d # None /\ Up(d) /\ daemon[d].ipc = "serving"

SetDaemon(d, r) ==
    /\ daemon' = [daemon EXCEPT ![d] = r]
    /\ UNCHANGED <<client, commands>>

SetClient(c, r) ==
    /\ client' = [client EXCEPT ![c] = r]
    /\ UNCHANGED <<daemon, path, lone>>

------------------------------------------------------------------------------
(******************************** `a3s up` ********************************)

\* a daemon begins; any that is up already has company from now on
Begin(d) ==
    /\ daemon[d].main = "off"
    /\ daemon' = [daemon EXCEPT ![d].main = "starting", ![d].ipc = "unlink"]
    /\ lone' = IF \E e \in Daemons : Up(e) THEN {e \in lone : ~Up(e)} ELSE lone \cup {d}
    /\ UNCHANGED path

Launch(d) == Begin(d) /\ UNCHANGED <<client, commands>>

\* mutant: the path is not cleared first
UnlinkSkipped(d) ==
    /\ Up(d) /\ daemon[d].ipc = "unlink"
    /\ SetDaemon(d, [daemon[d] EXCEPT !.ipc = "bind"])
    /\ UNCHANGED <<path, lone>>

\* serve removes the path, whoever is behind it
Unlink(d) ==
    /\ Up(d) /\ daemon[d].ipc = "unlink"
    /\ SetDaemon(d, [daemon[d] EXCEPT !.ipc = "bind"])
    /\ path' = None
    /\ UNCHANGED lone

\* ... and binds, unless another daemon was faster; it does not try again
Bind(d) ==
    /\ Up(d) /\ daemon[d].ipc = "bind"
    /\ SetDaemon(d, [daemon[d] EXCEPT !.ipc = IF path = None THEN "serving" ELSE "failed"])
    /\ path' = IF path = None THEN d ELSE path
    /\ UNCHANGED lone

\* start_service inserts the handle as Running before any health check
StartService(d, s) ==
    /\ daemon[d].main = "starting"
    /\ s \in Started /\ daemon[d].row[s] = "pending"
    /\ SetDaemon(d, [daemon[d] EXCEPT !.row[s] = "running"])
    /\ UNCHANGED <<path, lone>>

\* the check passes, during start_service or later; without a check at once
BecomesFit(d, s) ==
    /\ Up(d) /\ daemon[d].row[s] \in {"running", "unhealthy"} /\ s \notin daemon[d].fit
    /\ SetDaemon(d, [daemon[d] EXCEPT !.row[s] = "running", !.fit = @ \cup {s}])
    /\ UNCHANGED <<path, lone>>

\* start_all returns, every service being up or its health wait given up
StartDone(d) ==
    /\ daemon[d].main = "starting"
    /\ \A s \in Started : daemon[d].row[s] # "pending"
    /\ SetDaemon(d, [daemon[d] EXCEPT !.main = "waiting"])
    /\ UNCHANGED <<path, lone>>

\* the rest of a service's life: health, crash recovery and requests, which
\* can also start a service that `a3s up` did not
SuperviseService(d, s) ==
    /\ Up(d)
    /\ \E to \in RowStates \ {"pending", daemon[d].row[s]} :
        /\ daemon[d].row[s] = "pending" => to = "running"
        /\ daemon[d].row[s] = "stopped" => to = "running"
        /\ SetDaemon(d, [daemon[d] EXCEPT !.row[s] = to, !.fit = @ \ {s}])
    /\ UNCHANGED <<path, lone>>

\* start_all fails and the process exits, or the process is killed: the
\* socket stays at its path and the services are not stopped
Abort(d) ==
    /\ Up(d)
    /\ SetDaemon(d, GoneDaemon)
    /\ UNCHANGED <<path, lone>>

\* Ctrl+C or SIGTERM
Signal(d) ==
    /\ daemon[d].main = "waiting"
    /\ SetDaemon(d, [daemon[d] EXCEPT !.main = "stopping"])
    /\ UNCHANGED <<path, lone>>

\* mutant: the path is removed before stop_all
StopAllUnlinkFirst(d) ==
    /\ daemon[d].main = "stopping"
    /\ SetDaemon(d, [daemon[d] EXCEPT !.main = "unlink", !.fit = {},
           !.row = [s \in Services |-> IF @[s] = "pending" THEN @[s] ELSE "stopped"]])
    /\ path' = None
    /\ UNCHANGED lone

\* stop_all; requests are still served
StopAll(d) ==
    /\ daemon[d].main = "stopping"
    /\ SetDaemon(d, [daemon[d] EXCEPT !.main = "unlink", !.fit = {},
           !.row = [s \in Services |-> IF @[s] = "pending" THEN @[s] ELSE "stopped"]])
    /\ UNCHANGED <<path, lone>>

\* the path is removed, whoever is behind it by now
RemoveSock(d) ==
    /\ daemon[d].main = "unlink"
    /\ SetDaemon(d, GoneDaemon)
    /\ path' = None
    /\ UNCHANGED lone

ServerStep(d) == Unlink(d) \/ Bind(d)

MainStep(d) ==
    \/ \E s \in Services : StartService(d, s)
    \/ StartDone(d) \/ StopAll(d) \/ RemoveSock(d)

DaemonStep(d) ==
    \/ ServerStep(d) \/ MainStep(d) \/ Launch(d) \/ Abort(d) \/ Signal(d)
    \/ \E s \in Services : BecomesFit(d, s) \/ SuperviseService(d, s)

------------------------------------------------------------------------------
(***************************** `up --detach --wait` ************************)

Waiting(c) == client[c].cmd = "wait" /\ client[c].pc # "idle"

End(c, result) ==
    /\ SetClient(c, [client[c] EXCEPT !.pc = "idle", !.peer = None, !.result = result])
    /\ UNCHANGED commands

Goto(c, pc) == SetClient(c, [client[c] EXCEPT !.pc = pc]) /\ UNCHANGED commands

\* launches a daemon in the background and waits for it
Detach(c, d) ==
    /\ client[c].pc = "idle" /\ commands < MaxCommands
    /\ commands' = commands + 1
    /\ Begin(d)
    /\ client' = [client EXCEPT ![c] = [IdleClient EXCEPT
                      !.pc = "socket", !.cmd = "wait", !.mine = d]]

\* --wait-timeout passes
Expire(c) ==
    /\ Waiting(c) /\ ~client[c].late
    /\ SetClient(c, [client[c] EXCEPT !.late = TRUE])
    /\ UNCHANGED commands

\* something is at the path: perhaps a socket that nobody listens on
WaitSocket(c) ==
    /\ client[c].pc = "socket"
    /\ IF path # None THEN Goto(c, "poll")
       ELSE client[c].late /\ End(c, "timeout")

\* mutant: the deadline is looked at only while the socket is not there
WaitPollUnbounded(c) == client[c].pc = "poll" /\ Goto(c, "send")

WaitPoll(c) ==
    /\ client[c].pc = "poll"
    /\ IF client[c].late THEN End(c, "timeout") ELSE Goto(c, "send")

\* mutant: any state but unhealthy is settled
SettledUnlessUnhealthy(row) == \A s \in Services : row[s] # "unhealthy"

\* every row is running or stopped; no row ever shows "failed"
all_settled(row) == \A s \in Services : row[s] \in {"running", "stopped"}

\* the rows that the daemon which has the connection answers with
WaitAnswer(c) ==
    /\ client[c].pc = "sent" /\ client[c].cmd = "wait"
    /\ IF Listens(client[c].peer) /\ all_settled(daemon[client[c].peer].row)
       THEN End(c, "ok") ELSE Goto(c, "retry")

\* sleep 500 ms
WaitRetry(c) == client[c].pc = "retry" /\ Goto(c, "poll")

------------------------------------------------------------------------------
(***************************** Other commands *****************************)

\* "once": down, restart and status, which take any answer for success;
\* "watch": status --watch and top
Request(c, cmd) ==
    /\ client[c].pc = "idle" /\ commands < MaxCommands
    /\ commands' = commands + 1
    /\ SetClient(c, [IdleClient EXCEPT !.pc = "send", !.cmd = cmd])

\* mutant: a refused connection ends the command, --wait too
IpcConnectOrEnd(c) ==
    /\ client[c].pc = "send"
    /\ IF Listens(path)
       THEN /\ SetClient(c, [client[c] EXCEPT !.pc = "sent", !.peer = path])
            /\ UNCHANGED commands
       ELSE End(c, "failed")

\* ipc_send connects to whoever listens at the path
IpcConnect(c) ==
    /\ client[c].pc = "send"
    /\ \/ /\ Listens(path)
          /\ SetClient(c, [client[c] EXCEPT !.pc = "sent", !.peer = path])
          /\ UNCHANGED commands
       \/ ~Listens(path) /\ client[c].cmd = "wait" /\ Goto(c, "retry")
       \/ ~Listens(path) /\ client[c].cmd # "wait" /\ End(c, "failed")

\* the answer, or the end of the connection when the daemon has exited; an
\* Error answer fails reload, while restart reports success all the same
IpcAnswer(c) ==
    /\ client[c].pc = "sent" /\ client[c].cmd # "wait"
    /\ \/ ~Listens(client[c].peer) /\ End(c, "failed")
       \/ /\ Listens(client[c].peer)
          /\ \/ client[c].cmd = "watch" /\ Goto(c, "pause")
             \/ client[c].cmd # "watch" /\ End(c, "ok")
             \/ client[c].cmd = "reload" /\ End(c, "failed")

\* sleep, or Ctrl+C
WatchAgain(c) ==
    /\ client[c].pc = "pause"
    /\ Goto(c, "send") \/ End(c, "ok")

ClientStep(c) ==
    \/ WaitSocket(c) \/ WaitPoll(c) \/ WaitAnswer(c) \/ WaitRetry(c)
    \/ IpcConnect(c) \/ IpcAnswer(c) \/ WatchAgain(c)

------------------------------------------------------------------------------
Init ==
    /\ daemon = [d \in Daemons |-> NewDaemon]
    /\ path = None
    /\ lone = {}
    /\ client = [c \in Clients |-> IdleClient]
    /\ commands = 0

Next ==
    \/ \E d \in Daemons : DaemonStep(d)
    \/ \E c \in Clients :
        \/ ClientStep(c) \/ Expire(c)
        \/ \E d \in Daemons : Detach(c, d)
        \/ \E cmd \in {"once", "reload", "watch"} : Request(c, cmd)

Spec == Init /\ [][Next]_vars

\* every task that can run is run; nothing makes a user launch or signal a
\* daemon, the deadline of a wait pass, a service fail or get healthy
FairSpec ==
    /\ Spec
    /\ \A d \in Daemons : WF_vars(ServerStep(d)) /\ WF_vars(MainStep(d))
    /\ \A c \in Clients : WF_vars(ClientStep(c))

------------------------------------------------------------------------------
(******************************* Properties *******************************)

\* Reachable: a daemon that has no company is soon reachable at the socket
\* path, whatever stale sockets earlier daemons left there (serve removes the
\* path first).
Reachable ==
    \A d \in Daemons :
        (Up(d) /\ d \in lone) ~> (~Up(d) \/ d \notin lone \/ (path = d /\ Listens(d)))

\* StaysReachable: and it stays so as long as it listens, to the last step of
\* its shutdown (`a3s up` removes the path after stop_all).
StaysReachable == \A d \in lone : Listens(d) => path = d

\* WaitStarted: when --wait has succeeded and its daemon has no company, every
\* service of the configuration has been started; so with a disabled or
\* deselected service it does not succeed until a request starts that one.
WaitStarted ==
    \A c \in Clients :
        /\ client[c].cmd = "wait" /\ client[c].result = "ok"
        /\ client[c].mine \in lone /\ Up(client[c].mine)
        => \A s \in Services : daemon[client[c].mine].row[s] # "pending"

\* WaitReturns: --wait returns once its deadline has passed, also when the
\* daemon died, its socket is stale or a service never settles.
WaitReturns ==
    \A c \in Clients : (Waiting(c) /\ client[c].late) ~> ~Waiting(c)

\* WaitSucceeds: when the daemon it launched is listening without company and
\* its services stay settled, --wait succeeds or its deadline passes, even
\* though it may find a stale socket first (a refused connection is retried).
WaitSucceeds ==
    \A c \in Clients, d \in Daemons :
        <>[](Listens(d) /\ d \in lone /\ \A s \in Services : daemon[d].row[s] \in {"running", "stopped"})
        => ((Waiting(c) /\ client[c].mine = d)
            ~> (client[c].mine # d \/ client[c].late \/ client[c].result = "ok"))

\* WaitMeansHealthy: `a3s up --detach --wait` blocks until all services are
\* healthy.
WaitMeansHealthy ==
    [][ \A c \in Clients :
          Waiting(c) /\ client'[c].pc = "idle" /\ client'[c].result = "ok"
          => daemon[client[c].peer].fit = Services ]_vars
=============================================================================
