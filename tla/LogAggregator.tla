--------------------------- MODULE LogAggregator ---------------------------
(***************************************************************************)
(* The log lines of all services: one broadcast channel that forgets the   *)
(* oldest line when it is full, and the tasks around it.  Lines come from  *)
(* the output of the services (local runtime) or from image builds (k8s    *)
(* runtime, which alone uses push); they go to the terminal, to the ring   *)
(* buffer of recent lines, to the log file of a service, and to viewers:   *)
(* `a3s logs` over IPC and the web UI, which replay the ring buffer and    *)
(* then follow the channel.                                                *)
(***************************************************************************)
EXTENDS Naturals, Sequences, FiniteSets

CONSTANTS
    Services,
    Logged,         \* the service that has a log_file
    Readers,        \* `a3s logs` clients and UI pages, or the print_loop
    ChanCap,        \* capacity of the broadcast channel
    HistoryCap,     \* HISTORY_CAP
    Last,           \* how many lines a viewer asks to replay
    RotateBytes,    \* log_rotate_mb, in lines; 0: no rotation
    MaxLines,       \* bound: lines ever produced
    MaxSpawns,      \* bound: processes spawned for the service Logged
    MaxSessions     \* bound: sessions of all viewers

ASSUME LogAssumption ==
    /\ Logged \in Services
    /\ {ChanCap, HistoryCap, MaxSpawns} \subseteq Nat \ {0}
    /\ {Last, RotateBytes, MaxLines, MaxSessions} \subseteq Nat

VARIABLES
    runtime,    \* "local" or "k8s"
    made,       \* how many lines were produced
    sent,       \* every line ever sent on the channel, in order
    history,    \* the ring buffer
    pushing,    \* lines that push has stored and not yet sent
    recorder,   \* the task that stores broadcast lines in the ring buffer
    viewer,     \* the readers
    sessions,   \* how many sessions viewers have begun
    writer,     \* one log file task per spawn of Logged
    disk        \* the log file, its rotated predecessor, what files hold

vars == <<runtime, made, sent, history, pushing, recorder, viewer, sessions, writer, disk>>

Spawns == 1 .. MaxSpawns
Inodes == 1 .. (MaxSpawns + MaxLines)

LastOf(s, n) == IF Len(s) <= n THEN s ELSE SubSeq(s, Len(s) - n + 1, Len(s))

\* the lines of the services in filter, among the first k lines of s
FilterUpTo(s, filter) ==
    LET F[k \in 0 .. Len(s)] ==
          IF k = 0 THEN <<>>
          ELSE IF s[k].svc \in filter THEN Append(F[k - 1], s[k]) ELSE F[k - 1]
    IN F

Of(s, filter) == FilterUpTo(s, filter)[Len(s)]

------------------------------------------------------------------------------
(***************************************************************************)
(* A receiver is the position of the next line it reads.  One that falls   *)
(* more than the capacity behind is told so and skips to the oldest line   *)
(* that is still there.                                                    *)
(***************************************************************************)
Subscribed == Len(sent) + 1
Oldest == IF Len(sent) > ChanCap THEN Len(sent) - ChanCap + 1 ELSE 1
Receives(pos) == Oldest <= pos /\ pos <= Len(sent)
Lags(pos) == pos < Oldest

------------------------------------------------------------------------------
(******************************** Producers *******************************)

\* attach, attach_stderr: the next line of a stream of the process
Emit(s) ==
    /\ runtime = "local" /\ made < MaxLines
    /\ made' = made + 1
    /\ sent' = Append(sent, [id |-> made + 1, svc |-> s])
    /\ UNCHANGED <<runtime, history, pushing, recorder, viewer, sessions, writer, disk>>

\* push, under the lock; the two streams of a build are read concurrently
PushStore(s) ==
    /\ runtime = "k8s" /\ made < MaxLines
    /\ made' = made + 1
    /\ LET l == [id |-> made + 1, svc |-> s] IN
       /\ \A k, m \in pushing : k.svc = s /\ m.svc = s => k = m
       /\ history' = LastOf(Append(history, l), HistoryCap)
       /\ pushing' = pushing \cup {l}
    /\ UNCHANGED <<runtime, sent, recorder, viewer, sessions, writer, disk>>

\* ... and the send after it
PushSend(l) ==
    /\ l \in pushing
    /\ pushing' = pushing \ {l}
    /\ sent' = Append(sent, l)
    /\ UNCHANGED <<runtime, made, history, recorder, viewer, sessions, writer, disk>>

------------------------------------------------------------------------------
(***************************** History recorder ***************************)

RecorderRecv ==
    /\ recorder.held = <<>>
    /\ Receives(recorder.next)
    /\ recorder' = [recorder EXCEPT !.held = <<sent[recorder.next]>>, !.next = @ + 1]
    /\ UNCHANGED <<runtime, made, sent, history, pushing, viewer, sessions, writer, disk>>

\* mutant: pops only when the buffer is over its capacity
RecorderStoreLate ==
    /\ recorder.held # <<>>
    /\ history' = LastOf(history, HistoryCap) \o recorder.held
    /\ recorder' = [recorder EXCEPT !.held = <<>>]
    /\ UNCHANGED <<runtime, made, sent, pushing, viewer, sessions, writer, disk>>

RecorderStore ==
    /\ recorder.held # <<>>
    /\ history' = LastOf(history \o recorder.held, HistoryCap)
    /\ recorder' = [recorder EXCEPT !.held = <<>>]
    /\ UNCHANGED <<runtime, made, sent, pushing, viewer, sessions, writer, disk>>

RecorderLagged ==
    /\ recorder.held = <<>>
    /\ Lags(recorder.next)
    /\ recorder' = [recorder EXCEPT !.next = Oldest, !.lagged = TRUE]
    /\ UNCHANGED <<runtime, made, sent, history, pushing, viewer, sessions, writer, disk>>

RecorderStep == RecorderRecv \/ RecorderStore \/ RecorderLagged

------------------------------------------------------------------------------
(********************************* Viewers ********************************)

Gone == [pc |-> "gone", kind |-> "client", filter |-> {}, next |-> 0, shown |-> <<>>]
Terminal == [Gone EXCEPT !.pc = "live", !.kind = "print_loop", !.filter = Services, !.next = 1]

SetViewer(v, r) ==
    /\ viewer' = [viewer EXCEPT ![v] = r]
    /\ UNCHANGED <<runtime, made, sent, history, pushing, recorder, writer, disk>>

\* no service named: all of them
recent(filter, n) == LastOf(Of(history, filter), n)

\* a viewer connects; the daemon sends recent lines
Replay(v) ==
    /\ runtime = "local"
    /\ viewer[v].pc = "gone"
    /\ sessions < MaxSessions
    /\ sessions' = sessions + 1
    /\ \E filter \in {Services} \cup {{s} : s \in Services} :
        SetViewer(v, [Gone EXCEPT !.pc = "replayed", !.filter = filter,
                                  !.shown = recent(filter, Last)])

\* mutant: follows from the oldest line that the channel still has
FollowFromOldest(v) ==
    /\ viewer[v].pc = "replayed"
    /\ SetViewer(v, [viewer[v] EXCEPT !.pc = "live", !.next = Oldest])
    /\ UNCHANGED sessions

\* a second request, on a connection of its own, subscribes to the channel
Follow(v) ==
    /\ viewer[v].pc = "replayed"
    /\ SetViewer(v, [viewer[v] EXCEPT !.pc = "live", !.next = Subscribed])
    /\ UNCHANGED sessions

\* the loops of print_loop, of the Logs request and of the event stream
ViewerRecv(v) ==
    /\ viewer[v].pc = "live"
    /\ Receives(viewer[v].next)
    /\ SetViewer(v, [viewer[v] EXCEPT !.next = @ + 1,
                        !.shown = @ \o Of(<<sent[viewer[v].next]>>, viewer[v].filter)])
    /\ UNCHANGED sessions

\* mutant: a follower that lags ends
ViewerLaggedEnds(v) ==
    /\ viewer[v].pc = "live"
    /\ Lags(viewer[v].next)
    /\ SetViewer(v, [viewer[v] EXCEPT !.pc = "ended"])
    /\ UNCHANGED sessions

\* lines were dropped; the loop goes on
ViewerLagged(v) ==
    /\ viewer[v].pc = "live"
    /\ Lags(viewer[v].next)
    /\ SetViewer(v, [viewer[v] EXCEPT !.next = Oldest])
    /\ UNCHANGED sessions

\* the UI loses the event stream and opens another, keeping what it shows
Reconnect(v) ==
    /\ viewer[v].kind = "client"
    /\ viewer[v].pc = "live"
    /\ SetViewer(v, [viewer[v] EXCEPT !.pc = "replayed"])
    /\ UNCHANGED sessions

\* Ctrl+C, --follow=false, the page is left
Leave(v) ==
    /\ viewer[v].kind = "client"
    /\ viewer[v].pc # "gone"
    /\ SetViewer(v, Gone)
    /\ UNCHANGED sessions

ViewerStep(v) == ViewerRecv(v) \/ ViewerLagged(v)

------------------------------------------------------------------------------
(***************************************************************************)
(* Log file.  Every spawn of the service subscribes a writer of its own;   *)
(* none of them ends when its process does.                                *)
(***************************************************************************)
NoWriter == [pc |-> "off", next |-> 0, from |-> 0, bytes |-> 0, inode |-> 0, lagged |-> FALSE]

SetWriter(k, r) ==
    /\ writer' = [writer EXCEPT ![k] = r]
    /\ UNCHANGED <<runtime, made, sent, history, pushing, recorder, viewer, sessions>>

\* register_log_file, at the end of spawn_process
Register(k) ==
    /\ runtime = "local"
    /\ writer[k].pc = "off"
    /\ \A j \in 1 .. (k - 1) : writer[j].pc # "off"
    /\ SetWriter(k, [NoWriter EXCEPT !.pc = "open", !.next = Subscribed, !.from = Subscribed])
    /\ UNCHANGED disk

FreshInode == CHOOSE i \in Inodes : disk.data[i] = <<>> /\ i # disk.path /\ i # disk.old
                                    /\ \A k \in Spawns : writer[k].inode # i

\* open_file creates the file if there is none; or it cannot
Open(k) ==
    /\ writer[k].pc \in {"open", "reopen"}
    /\ \/ LET i == IF disk.path = 0 THEN FreshInode ELSE disk.path IN
          /\ disk' = [disk EXCEPT !.path = i]
          /\ SetWriter(k, [writer[k] EXCEPT !.pc = "recv", !.inode = i, !.bytes = 0])
       \/ /\ UNCHANGED disk
          /\ SetWriter(k, [writer[k] EXCEPT !.pc = "ended", !.inode = 0])

\* mutant: rotates when the limit is passed, not when it is reached
FullLate(bytes) == RotateBytes > 0 /\ bytes > RotateBytes

Full(bytes) == RotateBytes > 0 /\ bytes >= RotateBytes

WriterRecv(k) ==
    /\ writer[k].pc = "recv"
    /\ Receives(writer[k].next)
    /\ LET l == sent[writer[k].next]
           w == [writer[k] EXCEPT !.next = @ + 1]
       IN \/ /\ l.svc # Logged
             /\ SetWriter(k, w)
             /\ UNCHANGED disk
          \/ /\ l.svc = Logged
             /\ disk' = [disk EXCEPT !.data[w.inode] = Append(@, l.id)]
             /\ SetWriter(k, [w EXCEPT !.bytes = @ + 1,
                                       !.pc = IF Full(w.bytes + 1) THEN "rename" ELSE "recv"])
          \/ /\ l.svc = Logged      \* the write fails
             /\ SetWriter(k, [w EXCEPT !.pc = "ended", !.inode = 0])
             /\ UNCHANGED disk

\* drop the writer and rename the file, whoever else writes to it
Rename(k) ==
    /\ writer[k].pc = "rename"
    /\ disk' = IF disk.path = 0 THEN disk ELSE [disk EXCEPT !.path = 0, !.old = disk.path]
    /\ SetWriter(k, [writer[k] EXCEPT !.pc = "reopen", !.inode = 0])

WriterLagged(k) ==
    /\ writer[k].pc = "recv"
    /\ Lags(writer[k].next)
    /\ SetWriter(k, [writer[k] EXCEPT !.next = Oldest, !.lagged = TRUE])
    /\ UNCHANGED disk

WriterStep(k) == Open(k) \/ WriterRecv(k) \/ Rename(k) \/ WriterLagged(k)

------------------------------------------------------------------------------
Init ==
    /\ runtime \in {"local", "k8s"}
    /\ made = 0
    /\ sent = <<>>
    /\ history = <<>>
    /\ pushing = {}
    /\ recorder = [next |-> 1, held |-> <<>>, lagged |-> FALSE]
    /\ viewer \in [Readers -> {Gone, Terminal}]
    /\ sessions = 0
    /\ writer = [k \in Spawns |-> NoWriter]
    /\ disk = [path |-> 0, old |-> 0, data |-> [i \in Inodes |-> <<>>]]

Next ==
    \/ \E s \in Services : Emit(s) \/ PushStore(s)
    \/ \E l \in pushing : PushSend(l)
    \/ RecorderStep
    \/ \E v \in Readers : Replay(v) \/ Follow(v) \/ ViewerStep(v) \/ Reconnect(v) \/ Leave(v)
    \/ \E k \in Spawns : Register(k) \/ WriterStep(k)

Spec == Init /\ [][Next]_vars

\* the runtime runs every task that can run; nothing makes a service write
\* or a viewer come, go or lose its connection
FairSpec ==
    /\ Spec
    /\ WF_vars(RecorderStep)
    /\ \A v \in Readers : WF_vars(ViewerStep(v))
    /\ \A k \in Spawns : WF_vars(WriterStep(k))

------------------------------------------------------------------------------
(******************************* Properties *******************************)

Ids(s) == [i \in DOMAIN s |-> s[i].id]
Increasing(s) == \A i, j \in DOMAIN s : i < j => s[i] < s[j]
Suffix(s, t) == Len(s) <= Len(t) /\ s = LastOf(t, Len(s))

\* ShownInOrder: in the local runtime no viewer, over replay, follow, lag and
\* reconnects, is shown a line twice or out of order: a line is in the ring
\* buffer only after it was sent, so a later subscription cannot bring it
\* again (attach only sends; the recorder alone stores).
ShownInOrder ==
    runtime = "local" => \A v \in Readers : Increasing(Ids(viewer[v].shown))

\* HistoryExact: in the local runtime the ring buffer never repeats a line, and
\* as long as the recorder has not lagged it holds exactly the last HISTORY_CAP
\* of the lines that the recorder has taken.  push, used for image builds only,
\* makes the buffer hold a line twice (stored by push and by the recorder).
HistoryExact ==
    /\ Len(history) <= HistoryCap
    /\ runtime = "local" =>
        /\ Increasing(Ids(history \o recorder.held))
        /\ ~recorder.lagged =>
              history = LastOf(SubSeq(sent, 1, recorder.next - 1 - Len(recorder.held)), HistoryCap)
    /\ runtime = "k8s" =>
        \A i \in DOMAIN history :
            Cardinality({j \in DOMAIN history : history[j] = history[i]}) <= 2

\* LogFileTail: as long as the service was spawned once and its writer has not
\* lagged or failed, the file and its rotated predecessor together hold the
\* most recent lines of the service without a gap, at least as many as one
\* file may hold, and the file never outgrows the limit.
LogFileTail ==
    LET w == writer[1]
        took == Ids(Of(SubSeq(sent, w.from, w.next - 1), {Logged}))
        file(i) == IF i = 0 THEN <<>> ELSE disk.data[i]
        kept == file(disk.old) \o file(disk.path)
    IN /\ w.pc \notin {"off", "ended"} /\ ~w.lagged
       /\ \A k \in Spawns \ {1} : writer[k].pc = "off"
       => /\ Suffix(kept, took)
          /\ RotateBytes = 0 => kept = took
          /\ RotateBytes > 0 => /\ Len(file(disk.path)) <= RotateBytes
                                /\ Len(kept) < RotateBytes => kept = took

\* FollowLive: a line that a viewer or the terminal has subscribed to is shown
\* to it, however far it lags in between, unless it leaves or the line drops
\* out of the channel (print_loop, the Logs request and the event stream go
\* on after Lagged).
FollowLive ==
    \A v \in Readers, i \in 1 .. MaxLines :
        LET owed == /\ viewer[v].pc = "live"
                    /\ i \in DOMAIN sent
                    /\ i >= viewer[v].next
                    /\ sent[i].svc \in viewer[v].filter
            settled == /\ i \in DOMAIN sent
                       /\ \/ viewer[v].pc \in {"gone", "replayed"}
                          \/ Len(sent) >= i + ChanCap
                          \/ \E j \in DOMAIN viewer[v].shown : viewer[v].shown[j] = sent[i]
        IN owed ~> settled
=============================================================================
