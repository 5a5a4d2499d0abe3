--------------------------- MODULE DaemonProofs ---------------------------
(***************************************************************************)
(* For any number of daemons, commands and services: a daemon that never   *)
(* had company is found at the socket path as long as it listens, and a    *)
(* successful --wait for such a daemon means that its services have been   *)
(* started.  Both rest on what it means to be alone: no other daemon is    *)
(* there to remove or take the path, or to answer in its place.            *)
(***************************************************************************)
EXTENDS Daemon, TLAPS

MaybeDaemon == Daemons \cup {None}

DaemonRecords ==
    [main : {"off", "starting", "waiting", "stopping", "unlink", "gone"},
     ipc : {"off", "unlink", "bind", "serving", "failed"},
     row : [Services -> RowStates], fit : SUBSET Services]

ClientRecords ==
    [pc : {"idle", "socket", "poll", "send", "sent", "retry", "pause"},
     cmd : {"none", "wait", "once", "reload", "watch"},
     mine : MaybeDaemon, peer : MaybeDaemon,
     late : BOOLEAN, result : {"none", "ok", "failed", "timeout"}]

DaemonTypeOK ==
    /\ daemon \in [Daemons -> DaemonRecords]
    /\ path \in MaybeDaemon
    /\ lone \subseteq Daemons
    /\ client \in [Clients -> ClientRecords]
    /\ commands \in Nat

\* A daemon that never had company: while it is up no other daemon is, the path
\* is empty between its unlink and its bind, and afterwards it is its own.
Alone(d) ==
    /\ daemon[d].main # "off"
    /\ Up(d) =>
        /\ \A e \in Daemons : Up(e) => e = d
        /\ daemon[d].ipc = "bind" => path = None
        /\ daemon[d].ipc = "serving" => path = d

\* --wait waits for a daemon that it launched, and never pauses.
Launched(c) ==
    client[c].cmd = "wait" =>
        /\ client[c].mine \in Daemons /\ daemon[client[c].mine].main # "off"
        /\ client[c].pc # "pause"

DaemonInv ==
    /\ DaemonTypeOK
    /\ \A d \in lone : Alone(d)
    /\ \A c \in Clients : Launched(c)
    /\ WaitStarted

------------------------------------------------------------------------------
(********************************* types ***********************************)

LEMMA RecordFacts ==
    /\ NewDaemon \in DaemonRecords /\ GoneDaemon \in DaemonRecords
    /\ IdleClient \in ClientRecords
    /\ NewDaemon.main = "off" /\ GoneDaemon.main = "gone"
    /\ IdleClient.result = "none" /\ IdleClient.pc = "idle" /\ IdleClient.cmd = "none"
BY DEF NewDaemon, GoneDaemon, IdleClient, DaemonRecords, ClientRecords, RowStates, MaybeDaemon

LEMMA DaemonType ==
    ASSUME DaemonTypeOK, NEW d \in Daemons, DaemonStep(d)
    PROVE  DaemonTypeOK'
<1> USE DEF DaemonTypeOK
<1>0. daemon[d] \in DaemonRecords
  OBVIOUS
<1>1. UNCHANGED <<client, commands>>
  BY DEF DaemonStep, ServerStep, MainStep, Unlink, Bind, StartService, StartDone, StopAll,
     RemoveSock, Launch, Abort, Signal, BecomesFit, SuperviseService, SetDaemon
<1>2. path' \in MaybeDaemon /\ lone' \subseteq Daemons
  BY DEF DaemonStep, ServerStep, MainStep, Unlink, Bind, StartService, StartDone, StopAll,
     RemoveSock, Launch, Begin, Abort, Signal, BecomesFit, SuperviseService, SetDaemon, MaybeDaemon
<1>3. ASSUME NEW r \in DaemonRecords, SetDaemon(d, r) PROVE daemon' \in [Daemons -> DaemonRecords]
  BY <1>3 DEF SetDaemon
<1>4. daemon' \in [Daemons -> DaemonRecords]
  <2>1. CASE Launch(d)
    BY <1>0, <2>1 DEF Launch, Begin, DaemonRecords
  <2>2. CASE Unlink(d) \/ Bind(d) \/ StartDone(d) \/ Signal(d)
    <3>1. ASSUME NEW i \in {"bind", "serving", "failed"}
          PROVE  [daemon[d] EXCEPT !.ipc = i] \in DaemonRecords
      BY <1>0, <3>1 DEF DaemonRecords
    <3>2. ASSUME NEW m \in {"waiting", "stopping"}
          PROVE  [daemon[d] EXCEPT !.main = m] \in DaemonRecords
      BY <1>0, <3>2 DEF DaemonRecords
    <3> QED BY <1>3, <2>2, <3>1, <3>2 DEF Unlink, Bind, StartDone, Signal
  <2>3. CASE Abort(d) \/ RemoveSock(d)
    BY <1>3, <2>3, RecordFacts DEF Abort, RemoveSock
  <2>4. ASSUME NEW s \in Services, StartService(d, s) \/ BecomesFit(d, s) \/ SuperviseService(d, s)
        PROVE  daemon' \in [Daemons -> DaemonRecords]
    <3>1. ASSUME NEW t \in RowStates
          PROVE  /\ [daemon[d] EXCEPT !.row[s] = t] \in DaemonRecords
                 /\ [daemon[d] EXCEPT !.row[s] = t, !.fit = @ \cup {s}] \in DaemonRecords
                 /\ [daemon[d] EXCEPT !.row[s] = t, !.fit = @ \ {s}] \in DaemonRecords
      BY <1>0, <3>1 DEF DaemonRecords
    <3>2. "running" \in RowStates
      BY DEF RowStates
    <3> QED BY <1>3, <2>4, <3>1, <3>2 DEF StartService, BecomesFit, SuperviseService
  <2>5. CASE StopAll(d)
    <3> DEFINE rows == [s \in Services |-> IF daemon[d].row[s] = "pending"
                                            THEN daemon[d].row[s] ELSE "stopped"]
    <3>1. rows \in [Services -> RowStates]
      BY <1>0 DEF RowStates
    <3>2. SetDaemon(d, [daemon[d] EXCEPT !.main = "unlink", !.fit = {}, !.row = rows])
      BY <2>5 DEF StopAll
    <3> HIDE DEF rows
    <3>3. [daemon[d] EXCEPT !.main = "unlink", !.fit = {}, !.row = rows] \in DaemonRecords
      BY <1>0, <3>1 DEF DaemonRecords
    <3> QED BY <1>3, <3>2, <3>3
  <2> QED BY <2>1, <2>2, <2>3, <2>4, <2>5 DEF DaemonStep, ServerStep, MainStep
<1> QED BY <1>1, <1>2, <1>4

LEMMA EndType ==
    ASSUME DaemonTypeOK, NEW c \in Clients
    PROVE  /\ \A r \in {"ok", "failed", "timeout"} : End(c, r) => DaemonTypeOK'
           /\ \A p \in {"poll", "send", "retry", "pause"} : Goto(c, p) => DaemonTypeOK'
<1>0. client[c] \in ClientRecords
  BY DEF DaemonTypeOK
<1>1. ASSUME NEW r \in {"ok", "failed", "timeout"}, End(c, r) PROVE DaemonTypeOK'
  BY <1>0, <1>1 DEF DaemonTypeOK, End, SetClient, ClientRecords, MaybeDaemon
<1>2. ASSUME NEW p \in {"poll", "send", "retry", "pause"}, Goto(c, p) PROVE DaemonTypeOK'
  BY <1>0, <1>2 DEF DaemonTypeOK, Goto, SetClient, ClientRecords
<1> QED BY <1>1, <1>2

LEMMA CommandType ==
    ASSUME DaemonTypeOK, NEW c \in Clients,
           \/ ClientStep(c) \/ Expire(c)
           \/ \E d \in Daemons : Detach(c, d)
           \/ \E cmd \in {"once", "reload", "watch"} : Request(c, cmd)
    PROVE  DaemonTypeOK'
<1>0. client[c] \in ClientRecords
  BY DEF DaemonTypeOK
<1>1. CASE Listens(path) /\ SetClient(c, [client[c] EXCEPT !.pc = "sent", !.peer = path]) /\ UNCHANGED commands
  BY <1>0, <1>1 DEF DaemonTypeOK, SetClient, ClientRecords
<1>2. CASE ClientStep(c)
  BY <1>1, <1>2, EndType DEF ClientStep, WaitSocket, WaitPoll, WaitAnswer, WaitRetry, IpcConnect,
     IpcAnswer, WatchAgain
<1>3. CASE Expire(c)
  BY <1>0, <1>3 DEF DaemonTypeOK, Expire, SetClient, ClientRecords
<1>4. ASSUME NEW d \in Daemons, Detach(c, d) PROVE DaemonTypeOK'
  <2>1. daemon' \in [Daemons -> DaemonRecords] /\ lone' \subseteq Daemons /\ UNCHANGED path
    BY <1>4, ZenonT(40) DEF Detach, Begin, DaemonTypeOK, DaemonRecords
  <2>2. [IdleClient EXCEPT !.pc = "socket", !.cmd = "wait", !.mine = d] \in ClientRecords
    BY RecordFacts DEF ClientRecords, MaybeDaemon
  <2>3. client' \in [Clients -> ClientRecords]
    <3> DEFINE r == [IdleClient EXCEPT !.pc = "socket", !.cmd = "wait", !.mine = d]
    <3>1. client' = [client EXCEPT ![c] = r] /\ r \in ClientRecords
      BY <1>4, <2>2 DEF Detach
    <3> HIDE DEF r
    <3> QED BY <3>1 DEF DaemonTypeOK
  <2>4. commands' \in Nat
    <3>1. commands' = commands + 1
      BY <1>4, Zenon DEF Detach
    <3> QED BY <3>1 DEF DaemonTypeOK
  <2> QED BY <2>1, <2>3, <2>4 DEF DaemonTypeOK
<1>5. ASSUME NEW cmd \in {"once", "reload", "watch"}, Request(c, cmd) PROVE DaemonTypeOK'
  <2>1. [IdleClient EXCEPT !.pc = "send", !.cmd = cmd] \in ClientRecords
    BY RecordFacts DEF ClientRecords
  <2> QED BY <1>5, <2>1 DEF Request, SetClient, DaemonTypeOK
<1> QED BY <1>2, <1>3, <1>4, <1>5

LEMMA DaemonInit == Init => DaemonInv
<1> SUFFICES ASSUME Init PROVE DaemonInv
  OBVIOUS
<1>1. DaemonTypeOK
  BY RecordFacts DEF Init, DaemonTypeOK, MaybeDaemon
<1>2. \A c \in Clients : client[c].cmd = "none"
  BY RecordFacts DEF Init
<1> QED BY <1>1, <1>2 DEF Init, DaemonInv, Launched, WaitStarted

------------------------------------------------------------------------------
(*************************** steps of a daemon *****************************)

\* A daemon that begins is alone if no other is up, and ends the solitude of
\* any that is.
LEMMA BeginStep ==
    ASSUME DaemonInv, NEW d \in Daemons, Begin(d)
    PROVE  /\ \A e \in lone' : Alone(e)'
           /\ d \notin lone /\ lone' \subseteq lone \cup {d}
           /\ daemon'[d].main # "off" /\ \A e \in Daemons \ {d} : daemon'[e] = daemon[e]
<1> USE DEF DaemonInv, DaemonTypeOK
<1>0. /\ daemon[d] \in DaemonRecords /\ daemon[d].main = "off" /\ UNCHANGED path
      /\ \A e \in Daemons \ {d} : daemon'[e] = daemon[e]
      /\ daemon'[d].main = "starting" /\ daemon'[d].ipc = "unlink"
  BY DEF Begin, DaemonRecords
<1>1. d \notin lone
  BY <1>0 DEF Alone
<1>2. ~Up(d)
  BY <1>0 DEF Up
<1>3. CASE \E e \in Daemons : Up(e)
  <2>1. lone' = {e \in lone : ~Up(e)}
    BY <1>3 DEF Begin
  <2>2. ASSUME NEW e \in lone' PROVE Alone(e)'
    <3>1. e \in lone /\ ~Up(e) /\ e # d /\ e \in Daemons
      BY <1>1, <2>1, <2>2
    <3> QED BY <1>0, <3>1 DEF Alone, Up
  <2> QED BY <1>0, <1>1, <2>1, <2>2
<1>4. CASE ~\E e \in Daemons : Up(e)
  <2>1. lone' = lone \cup {d}
    BY <1>4 DEF Begin
  <2>2. ASSUME NEW e \in lone PROVE Alone(e)'
    BY <1>0, <1>1, <1>4, <2>2 DEF Alone, Up
  <2>3. Alone(d)'
    BY <1>0, <1>4 DEF Alone, Up
  <2> QED BY <1>0, <1>1, <2>1, <2>2, <2>3
<1> QED BY <1>3, <1>4

\* A service of a daemon changes its row, to anything but pending.
LEMMA ServiceRow ==
    ASSUME DaemonTypeOK, NEW d \in Daemons, NEW s \in Services,
           StartService(d, s) \/ BecomesFit(d, s) \/ SuperviseService(d, s)
    PROVE  /\ daemon'[d].main = daemon[d].main /\ daemon'[d].ipc = daemon[d].ipc
           /\ \A t \in Services : daemon[d].row[t] # "pending" => daemon'[d].row[t] # "pending"
           /\ UNCHANGED path
<1>0. daemon[d] \in DaemonRecords /\ daemon \in [Daemons -> DaemonRecords]
  BY DEF DaemonTypeOK
<1>1. PICK t \in {"running", "unhealthy", "stopped"}, f \in SUBSET Services :
         daemon' = [daemon EXCEPT ![d] = [daemon[d] EXCEPT !.row[s] = t, !.fit = f]]
  <2>1. CASE StartService(d, s)
    <3>1. daemon' = [daemon EXCEPT ![d] = [daemon[d] EXCEPT !.row[s] = "running", !.fit = daemon[d].fit]]
      BY <1>0, <2>1 DEF StartService, SetDaemon, DaemonRecords
    <3> QED BY <1>0, <3>1 DEF DaemonRecords
  <2>2. CASE BecomesFit(d, s)
    <3>1. daemon' = [daemon EXCEPT ![d] =
             [daemon[d] EXCEPT !.row[s] = "running", !.fit = daemon[d].fit \cup {s}]]
      BY <1>0, <2>2 DEF BecomesFit, SetDaemon, DaemonRecords
    <3> QED BY <1>0, <3>1 DEF DaemonRecords
  <2>3. CASE SuperviseService(d, s)
    <3>1. PICK t \in RowStates \ {"pending"} :
             daemon' = [daemon EXCEPT ![d] = [daemon[d] EXCEPT !.row[s] = t, !.fit = daemon[d].fit \ {s}]]
      BY <1>0, <2>3 DEF SuperviseService, SetDaemon, DaemonRecords
    <3> QED BY <1>0, <3>1 DEF DaemonRecords, RowStates
  <2> QED BY <2>1, <2>2, <2>3
<1>2. UNCHANGED path
  BY DEF StartService, BecomesFit, SuperviseService
<1>3. /\ daemon'[d].main = daemon[d].main /\ daemon'[d].ipc = daemon[d].ipc
      /\ daemon'[d].row = [daemon[d].row EXCEPT ![s] = t]
  BY <1>0, <1>1 DEF DaemonRecords
<1>4. \A u \in Services : daemon'[d].row[u] = IF u = s THEN t ELSE daemon[d].row[u]
  BY <1>0, <1>3 DEF DaemonRecords
<1> QED BY <1>2, <1>3, <1>4

\* Rows that are no longer pending stay so while the daemon is up, and a daemon
\* that has ended does not come back.
LEMMA RowsKept ==
    ASSUME DaemonTypeOK, NEW d \in Daemons, DaemonStep(d), NEW e \in Daemons,
           daemon[e].main # "off"
    PROVE  /\ daemon'[e].main # "off"
           /\ Up(e)' => Up(e)
           /\ Up(e)' => \A s \in Services : daemon[e].row[s] # "pending" => daemon'[e].row[s] # "pending"
<1> USE DEF DaemonTypeOK
<1>0. daemon[e] \in DaemonRecords /\ daemon[d] \in DaemonRecords
  OBVIOUS
<1>1. CASE e # d
  <2>1. daemon'[e] = daemon[e]
    BY <1>1 DEF DaemonStep, ServerStep, MainStep, Unlink, Bind, StartService, StartDone, StopAll,
       RemoveSock, Launch, Begin, Abort, Signal, BecomesFit, SuperviseService, SetDaemon
  <2> QED BY <2>1 DEF Up
<1>2. CASE e = d
  <2>1. CASE Launch(d)
    BY <1>2, <2>1 DEF Launch, Begin
  <2>2. CASE Unlink(d) \/ Bind(d) \/ StartDone(d) \/ Signal(d)
    <3>1. Up(d) /\ daemon'[d].row = daemon[d].row /\ daemon'[d].main \in {daemon[d].main, "waiting", "stopping"}
      BY <1>0, <2>2 DEF Unlink, Bind, StartDone, Signal, SetDaemon, DaemonRecords, Up
    <3> QED BY <1>2, <3>1 DEF Up
  <2>3. CASE Abort(d) \/ RemoveSock(d)
    BY <1>2, <2>3, RecordFacts DEF Abort, RemoveSock, SetDaemon, Up
  <2>4. ASSUME NEW s \in Services, StartService(d, s) \/ BecomesFit(d, s) \/ SuperviseService(d, s)
        PROVE  /\ daemon'[d].main = daemon[d].main
               /\ \A t \in Services : daemon[d].row[t] # "pending" => daemon'[d].row[t] # "pending"
    BY <2>4, ServiceRow
  <2>5. CASE StopAll(d)
    BY <1>0, <1>2, <2>5 DEF StopAll, SetDaemon, DaemonRecords, Up
  <2> QED BY <1>2, <2>1, <2>2, <2>3, <2>4, <2>5 DEF DaemonStep, ServerStep, MainStep, Up
<1> QED BY <1>1, <1>2

LEMMA DaemonAlone ==
    ASSUME DaemonInv, NEW d \in Daemons, DaemonStep(d), ~Launch(d)
    PROVE  UNCHANGED lone /\ \A e \in lone : Alone(e)'
<1> USE DEF DaemonInv, DaemonTypeOK
<1>0. /\ daemon[d] \in DaemonRecords /\ Up(d) /\ UNCHANGED lone
      /\ \A e \in Daemons \ {d} : daemon'[e] = daemon[e]
  BY DEF DaemonStep, ServerStep, MainStep, Unlink, Bind, StartService, StartDone, StopAll,
     RemoveSock, Abort, Signal, BecomesFit, SuperviseService, SetDaemon, Up
<1>1. ASSUME NEW e \in lone, e # d PROVE Alone(e)'
  <2>1. Alone(e) /\ ~Up(e) /\ daemon'[e] = daemon[e]
    BY <1>0, <1>1 DEF Alone
  <2> QED BY <2>1 DEF Alone, Up
<1>2. ASSUME d \in lone PROVE Alone(d)'
  <2>1. Alone(d)
    BY <1>2
  <2>2. /\ daemon'[d].main # "off"
        /\ \A e \in Daemons : Up(e)' => e = d
    BY <1>0, <2>1, RowsKept DEF Alone, Up
  <2>3. Up(d)' => /\ daemon'[d].ipc = "bind" => path' = None
                  /\ daemon'[d].ipc = "serving" => path' = d
    <3>1. CASE Unlink(d)
      BY <1>0, <3>1 DEF Unlink, SetDaemon, DaemonRecords
    <3>2. CASE Bind(d)
      BY <1>0, <3>2 DEF Bind, SetDaemon, DaemonRecords
    <3>3. CASE RemoveSock(d)
      BY <3>3, RecordFacts DEF RemoveSock, SetDaemon, Up
    <3>4. CASE UNCHANGED path /\ daemon'[d].ipc = daemon[d].ipc
      BY <1>0, <2>1, <3>4 DEF Alone
    <3>5. CASE Abort(d)
      BY <3>5, RecordFacts DEF Abort, SetDaemon, Up
    <3>6. StartDone(d) \/ StopAll(d) \/ Signal(d) => UNCHANGED path /\ daemon'[d].ipc = daemon[d].ipc
      BY <1>0, ZenonT(40) DEF StartDone, StopAll, Signal, SetDaemon, DaemonRecords
    <3>7. ASSUME NEW s \in Services, StartService(d, s) \/ BecomesFit(d, s) \/ SuperviseService(d, s)
          PROVE  UNCHANGED path /\ daemon'[d].ipc = daemon[d].ipc
      BY <3>7, ServiceRow
    <3> QED BY <3>1, <3>2, <3>3, <3>4, <3>5, <3>6, <3>7 DEF DaemonStep, ServerStep, MainStep
  <2> QED BY <2>2, <2>3 DEF Alone
<1> QED BY <1>0, <1>1, <1>2

LEMMA DaemonKeeps ==
    ASSUME DaemonInv, NEW d \in Daemons, DaemonStep(d)
    PROVE  DaemonInv'
<1>1. DaemonTypeOK'
  BY DaemonType DEF DaemonInv
<1>2. /\ \A e \in lone' : Alone(e)'
      /\ \A e \in lone' : e \in lone \/ daemon[e].main = "off"
  <2>1. CASE Launch(d)
    BY <2>1, BeginStep DEF Launch, Begin
  <2> QED BY <2>1, DaemonAlone
<1>3. UNCHANGED client
  BY DEF DaemonStep, ServerStep, MainStep, Unlink, Bind, StartService, StartDone, StopAll,
     RemoveSock, Launch, Abort, Signal, BecomesFit, SuperviseService, SetDaemon
<1>4. \A c \in Clients : Launched(c)'
  BY <1>3, RowsKept DEF DaemonInv, Launched
<1>5. WaitStarted'
  <2> SUFFICES ASSUME NEW c \in Clients, client[c].cmd = "wait", client[c].result = "ok",
                      NEW e, e = client[c].mine, e \in lone', Up(e)', NEW s \in Services
               PROVE  daemon'[e].row[s] # "pending"
    BY <1>3 DEF WaitStarted, Up
  <2>1. e \in Daemons /\ daemon[e].main # "off"
    BY DEF DaemonInv, Launched
  <2>2. e \in lone
    BY <1>2, <2>1
  <2>3. Up(e) /\ (daemon[e].row[s] # "pending" => daemon'[e].row[s] # "pending")
    BY <2>1, RowsKept DEF DaemonInv
  <2> QED BY <2>2, <2>3 DEF DaemonInv, WaitStarted
<1> QED BY <1>1, <1>2, <1>4, <1>5 DEF DaemonInv

------------------------------------------------------------------------------
(************************** steps of a command *****************************)

\* A command that keeps the daemon it waits for, and does not succeed, keeps
\* what is known of that daemon.
LEMMA CommandKeeps ==
    ASSUME DaemonInv, DaemonTypeOK', UNCHANGED <<daemon, path, lone>>, NEW c \in Clients,
           \A d \in Clients \ {c} : client'[d] = client[d],
           Launched(c)',
           /\ client'[c].cmd = "wait" /\ client'[c].result = "ok"
           /\ client'[c].mine \in lone /\ Up(client'[c].mine)
           => \A s \in Services : daemon[client'[c].mine].row[s] # "pending"
    PROVE  DaemonInv'
<1>1. \A e \in lone' : Alone(e)'
  BY DEF DaemonInv, Alone, Up
<1>2. \A d \in Clients : Launched(d)'
  BY DEF DaemonInv, Launched
<1>3. WaitStarted'
  BY DEF DaemonInv, WaitStarted, Up
<1> QED BY <1>1, <1>2, <1>3 DEF DaemonInv

\* The answer that --wait takes for success comes from the daemon that it
\* launched, if that one is up and alone.
LEMMA ClientKeeps ==
    ASSUME DaemonInv, NEW c \in Clients, ClientStep(c) \/ Expire(c)
    PROVE  DaemonInv'
<1>0. /\ client[c] \in ClientRecords /\ client \in [Clients -> ClientRecords] /\ Launched(c)
      /\ DaemonTypeOK' /\ UNCHANGED <<daemon, path, lone>>
      /\ \A d \in Clients \ {c} : client'[d] = client[d]
  <2>1. DaemonTypeOK' /\ client[c] \in ClientRecords /\ client \in [Clients -> ClientRecords]
    BY CommandType DEF DaemonInv, DaemonTypeOK
  <2>2. PICK r : SetClient(c, r)
    BY DEF ClientStep, Expire, WaitSocket, WaitPoll, WaitAnswer, WaitRetry, IpcConnect, IpcAnswer,
       WatchAgain, End, Goto
  <2>3. UNCHANGED <<daemon, path, lone>> /\ \A d \in Clients \ {c} : client'[d] = client[d]
    BY <2>1, <2>2 DEF SetClient
  <2> QED BY <2>1, <2>3 DEF DaemonInv
\* the command is the same, waits for the same daemon and has not succeeded now
<1>1. ASSUME client'[c].cmd = client[c].cmd, client'[c].mine = client[c].mine,
             client'[c].result = "ok" => client[c].result = "ok" \/ client[c].cmd # "wait",
             client'[c].pc = "pause" => client[c].cmd # "wait"
      PROVE  DaemonInv'
  <2>1. Launched(c)'
    BY <1>0, <1>1 DEF Launched
  <2>2. /\ client'[c].cmd = "wait" /\ client'[c].result = "ok"
        /\ client'[c].mine \in lone /\ Up(client'[c].mine)
        => \A s \in Services : daemon[client'[c].mine].row[s] # "pending"
    BY <1>1 DEF DaemonInv, WaitStarted
  <2> QED BY <1>0, <2>1, <2>2, CommandKeeps
<1>2. ASSUME NEW q, Goto(c, q), q = "pause" => client[c].cmd # "wait" PROVE DaemonInv'
  BY <1>0, <1>1, <1>2 DEF Goto, SetClient, ClientRecords
<1>3. ASSUME NEW r, End(c, r), r = "ok" => client[c].cmd # "wait" PROVE DaemonInv'
  BY <1>0, <1>1, <1>3 DEF End, SetClient, ClientRecords
<1>4. CASE WaitAnswer(c) /\ End(c, "ok") /\ Listens(client[c].peer) /\ all_settled(daemon[client[c].peer].row)
  <2>1. client[c].cmd = "wait" /\ client'[c].cmd = "wait" /\ client'[c].mine = client[c].mine
        /\ client'[c].pc = "idle"
    BY <1>0, <1>4 DEF WaitAnswer, End, SetClient, ClientRecords
  <2>2. Launched(c)'
    BY <1>0, <2>1 DEF Launched
  <2>3. ASSUME client[c].mine \in lone, Up(client[c].mine)
        PROVE  \A s \in Services : daemon[client[c].mine].row[s] # "pending"
    <3>1. client[c].peer \in Daemons /\ Up(client[c].peer)
      BY <1>0, <1>4 DEF Listens, ClientRecords, MaybeDaemon
    <3>2. Alone(client[c].mine)
      BY <2>3 DEF DaemonInv
    <3>3. client[c].peer = client[c].mine
      BY <2>3, <3>1, <3>2 DEF Alone
    <3> QED BY <1>4, <3>3 DEF all_settled
  <2> QED BY <1>0, <2>1, <2>2, <2>3, CommandKeeps
<1>5. CASE Expire(c)
  <2>1. /\ client'[c].cmd = client[c].cmd /\ client'[c].mine = client[c].mine
        /\ client'[c].result = client[c].result /\ client'[c].pc = client[c].pc
    BY <1>0, <1>5 DEF Expire, SetClient, ClientRecords
  <2> QED BY <1>0, <1>1, <2>1 DEF Launched
<1>6. CASE WaitSocket(c) \/ WaitPoll(c) \/ WaitRetry(c)
  BY <1>2, <1>3, <1>6 DEF WaitSocket, WaitPoll, WaitRetry
<1>7. CASE WaitAnswer(c)
  BY <1>2, <1>4, <1>7 DEF WaitAnswer
<1>8. CASE IpcConnect(c)
  <2>1. CASE SetClient(c, [client[c] EXCEPT !.pc = "sent", !.peer = path])
    BY <1>0, <1>1, <2>1 DEF SetClient, ClientRecords
  <2> QED BY <1>2, <1>3, <1>8, <2>1 DEF IpcConnect
<1>9. CASE IpcAnswer(c)
  BY <1>2, <1>3, <1>9 DEF IpcAnswer
<1>10. CASE WatchAgain(c)
  BY <1>0, <1>2, <1>3, <1>10 DEF WatchAgain, Launched
<1> QED BY <1>5, <1>6, <1>7, <1>8, <1>9, <1>10 DEF ClientStep

LEMMA RequestKeeps ==
    ASSUME DaemonInv, NEW c \in Clients, NEW cmd \in {"once", "reload", "watch"}, Request(c, cmd)
    PROVE  DaemonInv'
<1> DEFINE r == [IdleClient EXCEPT !.pc = "send", !.cmd = cmd]
<1>1. r.cmd = cmd
  BY DEF IdleClient
<1>2. client' = [client EXCEPT ![c] = r] /\ UNCHANGED <<daemon, path, lone>> /\ DaemonTypeOK'
  BY CommandType DEF Request, SetClient, DaemonInv
<1> HIDE DEF r
<1>3. client'[c].cmd # "wait" /\ \A d \in Clients \ {c} : client'[d] = client[d]
  BY <1>1, <1>2 DEF DaemonInv, DaemonTypeOK
<1>4. Launched(c)'
  BY <1>3 DEF Launched
<1> QED BY <1>2, <1>3, <1>4, CommandKeeps

LEMMA DetachKeeps ==
    ASSUME DaemonInv, NEW c \in Clients, NEW d \in Daemons, Detach(c, d)
    PROVE  DaemonInv'
<1> DEFINE r == [IdleClient EXCEPT !.pc = "socket", !.cmd = "wait", !.mine = d]
<1>1. r.cmd = "wait" /\ r.mine = d /\ r.result = "none" /\ r.pc = "socket"
  BY DEF IdleClient
<1>2. client' = [client EXCEPT ![c] = r] /\ Begin(d) /\ DaemonTypeOK'
  BY CommandType DEF Detach, DaemonInv
<1> HIDE DEF r
<1>3. client'[c] = r /\ \A b \in Clients \ {c} : client'[b] = client[b]
  BY <1>2 DEF DaemonInv, DaemonTypeOK
<1>4. /\ \A e \in lone' : Alone(e)'
      /\ d \notin lone /\ lone' \subseteq lone \cup {d}
      /\ daemon'[d].main # "off" /\ \A e \in Daemons \ {d} : daemon'[e] = daemon[e]
      /\ daemon[d].main = "off"
  BY <1>2, BeginStep DEF Begin
<1>5. Launched(c)'
  BY <1>1, <1>3, <1>4 DEF Launched
<1>6. ASSUME NEW b \in Clients, b # c PROVE Launched(b)'
  BY <1>3, <1>4, <1>6 DEF DaemonInv, Launched
<1>7. WaitStarted'
  <2> SUFFICES ASSUME NEW b \in Clients, client'[b].cmd = "wait", client'[b].result = "ok",
                      NEW e, e = client'[b].mine, e \in lone', Up(e)', NEW s \in Services
               PROVE  daemon'[e].row[s] # "pending"
    BY DEF WaitStarted, Up
  <2>1. b # c /\ client'[b] = client[b]
    BY <1>1, <1>3
  <2>2. e \in Daemons \ {d} /\ daemon'[e] = daemon[e] /\ e \in lone
    BY <1>4, <2>1 DEF DaemonInv, Launched
  <2> QED BY <2>1, <2>2 DEF DaemonInv, WaitStarted, Up
<1> QED BY <1>2, <1>4, <1>5, <1>6, <1>7 DEF DaemonInv

LEMMA DaemonInvStep == DaemonInv /\ [Next]_vars => DaemonInv'
<1> SUFFICES ASSUME DaemonInv, [Next]_vars PROVE DaemonInv'
  OBVIOUS
<1>1. CASE UNCHANGED vars
  BY <1>1 DEF vars, DaemonInv, DaemonTypeOK, Alone, Launched, WaitStarted, Up
<1> QED BY <1>1, DaemonKeeps, ClientKeeps, RequestKeeps, DetachKeeps DEF Next

------------------------------------------------------------------------------
\* Whatever sockets earlier daemons left behind, a daemon that never had
\* company is at the socket path as long as it listens, to the end of its
\* shutdown.
THEOREM StaysReachableHolds == Spec => []StaysReachable
<1>1. DaemonInv => StaysReachable
  BY DEF DaemonInv, StaysReachable, Alone, Listens
<1> QED BY <1>1, DaemonInit, DaemonInvStep, PTL DEF Spec

\* A --wait that succeeded, for a daemon that never had company and is still
\* up, has seen every service of the configuration started.
THEOREM WaitStartedHolds == Spec => []WaitStarted
<1>1. DaemonInv => WaitStarted
  BY DEF DaemonInv
<1> QED BY <1>1, DaemonInit, DaemonInvStep, PTL DEF Spec
=============================================================================
