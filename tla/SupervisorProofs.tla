------------------------- MODULE SupervisorProofs -------------------------
(***************************************************************************)
(* For any number of processes, clients and requests and any policy: the   *)
(* type invariant, RespawnOnly, and (without file watching) Supervised,    *)
(* and no stop kills a process that was not asked to end.                  *)
(*                                                                         *)
(* And for a service without a watch block that is started once, by        *)
(* `a3s up`, and then only crashed, restarted by recovery, found           *)
(* unhealthy, stopped and removed, by any number of clients, concurrently: *)
(* no process is leaked, two never run at once, the port stays, and all of *)
(* it is one line of processes as ServiceLifecycle describes it.           *)
(***************************************************************************)
EXTENDS SupervisorRefinement, TLAPS

LEMMA ConstantFacts ==
    /\ None \in MaybeProc /\ Procs \subseteq MaybeProc /\ None \notin Procs
    /\ 0 \in MaybePort /\ Ports \subseteq MaybePort
    /\ IdleClient \in ClientRecords /\ NoRec \in RecRecords
    /\ NoMon \in MonRecords /\ NewMon \in MonRecords /\ NoWat \in WatRecords
    /\ NoHandle \in Handles
BY ConstantsAssumption DEF None, MaybeProc, Procs, MaybePort, IdleClient, ClientRecords,
   StopPCs, StartPCs, RequestKinds, NoRec, RecRecords, NoMon, NewMon, MonRecords, NoWat, WatRecords,
   NoHandle, Handles, HandleStates

\* signals keep the process table a table
LEMMA SignalType ==
    ASSUME NEW ps \in [Procs -> ProcStates], NEW p
    PROVE  /\ Sigterm(ps, p) \in [Procs -> ProcStates]
           /\ Sigkill(ps, p) \in [Procs -> ProcStates]
BY DEF Sigterm, Sigkill, ProcStates

LEMMA RunningHandleType ==
    ASSUME NEW p \in MaybeProc, NEW port \in MaybePort, NEW w \in MaybeProc, NEW n \in Nat
    PROVE  RunningHandle(p, port, w, n) \in Handles
BY DEF RunningHandle, Handles, HandleStates

LEMMA TypeInit == Init => TypeOK
<1> SUFFICES ASSUME Init PROVE TypeOK
  OBVIOUS
<1>1. [IdleClient EXCEPT !.pc = "start", !.req = "up"] \in ClientRecords
  BY ConstantFacts DEF ClientRecords, StartPCs
<1>2. client \in [Clients -> ClientRecords]
  BY <1>1, ConstantFacts DEF Init
<1> QED BY <1>2, ConstantFacts DEF Init, TypeOK, ProcStates

LEMMA ClientType ==
    ASSUME TypeOK, NEW c \in Clients, ClientStep(c)
    PROVE  TypeOK'
<1> USE ConstantFacts DEF TypeOK
<1>0. client[c] \in ClientRecords
  OBVIOUS
<1>1. CASE SwapOut(c)
  BY <1>1 DEF SwapOut
<1>2. CASE SwapIn(c)
  BY <1>2 DEF SwapIn, ClientRecords, StartPCs
<1>3. CASE StartBegin(c)
  BY <1>3 DEF StartBegin, ClientRecords, StartPCs
<1>4. CASE StartSpawn(c)
  BY <1>4 DEF StartSpawn, Spawn, ClientRecords, StartPCs, ProcStates
<1>5. CASE StartInsert(c)
  <2>1. handle' \in Handles
    BY <1>0, <1>5, RunningHandleType DEF StartInsert, ClientRecords
  <2>2. [NoRec EXCEPT !.pc = "init"] \in RecRecords
    BY DEF RecRecords
  <2>3. [client[c] EXCEPT !.pc = AfterInsert] \in ClientRecords
    BY <1>0 DEF ClientRecords, AfterInsert, StartPCs
  <2> QED BY <1>5, <2>1, <2>2, <2>3 DEF StartInsert
<1>6. CASE StartHealthy(c)
  BY <1>6, ZenonT(40) DEF StartHealthy, ClientRecords, StartPCs, AfterHealthy
<1>7. CASE StartWatch(c)
  <2>1. \A t \in {"top", "none"} : [NoWat EXCEPT !.thread = t, !.task = "recv"] \in WatRecords
    BY DEF WatRecords
  <2>2. [client[c] EXCEPT !.pc = "store"] \in ClientRecords
    BY <1>0 DEF ClientRecords, StartPCs
  <2> QED BY <1>7, <2>1, <2>2, ZenonT(40) DEF StartWatch
<1>8. CASE StartWatchStore(c)
  BY <1>8 DEF StartWatchStore, ClientRecords, Handles
<1> DEFINE ReturnOK == Return(c) => client' \in [Clients -> ClientRecords]
<1>9. ReturnOK
  <2>1. ASSUME NEW t \in {"start", "remove", "idle"}
        PROVE  [client[c] EXCEPT !.pc = t, !.pid = None, !.child = None] \in ClientRecords
    BY <1>0 DEF ClientRecords, StartPCs
  <2>2. AfterStop(client[c].req) \in {"start", "remove", "idle"}
    BY DEF AfterStop
  <2> QED BY <2>1, <2>2 DEF Return
<1>10. Mark(c) => TypeOK'
  <2> SUFFICES ASSUME Mark(c) PROVE TypeOK'
    OBVIOUS
  <2>1. handle' \in Handles
    BY DEF Mark, Handles, HandleStates
  <2>2. wat' \in [Procs -> WatRecords]
    BY ZenonT(40) DEF Mark, SendStop, WatRecords
  <2>3. handle.pid \in MaybeProc /\ handle.child \in MaybeProc
    BY DEF Handles
  <2>4. \A t \in {"kill", "term"} :
          [client[c] EXCEPT !.pc = t, !.pid = handle.pid, !.child = handle.child] \in ClientRecords
    BY <1>0, <2>3 DEF ClientRecords, StopPCs
  <2>5. client' = [client EXCEPT ![c] =
          [client[c] EXCEPT !.pc = IF handle.pid = None THEN "kill" ELSE "term",
                            !.pid = handle.pid, !.child = handle.child]]
    BY <1>0 DEF Mark
  <2>6. client' \in [Clients -> ClientRecords]
    BY <2>4, <2>5
  <2> QED BY <2>1, <2>2, <2>6 DEF Mark
<1>11. CASE StopMark(c) \/ StopUnblock(c)
  BY <1>10, <1>11 DEF StopMark, StopUnblock
<1>12. CASE StopAbsent(c) \/ StopHook(c)
  BY <1>9, <1>12 DEF StopAbsent, StopHook
<1>13. CASE StopBlock(c) \/ StopTimeout(c) \/ StopReap(c)
  BY <1>13 DEF StopBlock, StopTimeout, StopReap, ClientRecords, StopPCs
<1>14. CASE StopTerm(c)
  BY <1>14, SignalType DEF StopTerm, ClientRecords, StopPCs
<1>15. CASE StopKill(c)
  BY <1>15, SignalType DEF StopKill, ClientRecords, StopPCs
<1> QED BY <1>1, <1>2, <1>3, <1>4, <1>5, <1>6, <1>7, <1>8, <1>11, <1>12, <1>13, <1>14, <1>15
        DEF ClientStep

LEMMA RecoveryType ==
    ASSUME TypeOK, NEW r \in Procs, RecoveryStep(r)
    PROVE  TypeOK'
<1> USE ConstantFacts DEF TypeOK
<1>0. rec[r] \in RecRecords /\ handle.port \in MaybePort /\ handle.child \in MaybeProc
      /\ handle.restart_count \in Nat
  BY DEF Handles
<1>1. CASE RecoveryInit(r)
  BY <1>0, <1>1 DEF RecoveryInit, RecRecords
<1>2. CASE RecoveryTake(r)
  BY <1>0, <1>2 DEF RecoveryTake, RecRecords, Handles
<1>3. CASE RecoveryCheck(r)
  <2>1. rec[r].tries + 1 \in Nat
    BY <1>0 DEF RecRecords
  <2>2. rec' \in [Procs -> RecRecords]
    BY <1>0, <1>3, <2>1 DEF RecoveryCheck, RecRecords
  <2> QED BY <1>3, <2>2 DEF RecoveryCheck
<1>4. CASE RecoveryWake(r)
  BY <1>0, <1>4 DEF RecoveryWake, RecRecords
<1>5. CASE RecoverySpawn(r)
  <2>1. ASSUME NEW p \in Procs, Spawn(p),
               rec' = [rec EXCEPT ![r].pc = "insert", ![r].proc = p], route' = rec[r].port
        PROVE  proc' \in [Procs -> ProcStates] /\ rec' \in [Procs -> RecRecords]
               /\ route' \in MaybePort
    BY <1>0, <2>1 DEF Spawn, ProcStates, RecRecords
  <2>2. ASSUME rec' = [rec EXCEPT ![r] = NoRec], UNCHANGED <<proc, route>>
        PROVE  proc' \in [Procs -> ProcStates] /\ rec' \in [Procs -> RecRecords]
               /\ route' \in MaybePort
    BY <2>2
  <2> QED BY <1>5, <2>1, <2>2 DEF RecoverySpawn
<1>6. CASE RecoveryInsert(r)
  <2>1. rec[r].proc \in MaybeProc /\ rec[r].port \in MaybePort
    BY <1>0 DEF RecRecords
  <2>2. handle' \in Handles
    BY <1>0, <1>6, <2>1, RunningHandleType DEF RecoveryInsert
  <2>3. rec' \in [Procs -> RecRecords]
    BY <1>0, <1>6 DEF RecoveryInsert, RecRecords
  <2> QED BY <1>6, <2>2, <2>3 DEF RecoveryInsert
<1> QED BY <1>1, <1>2, <1>3, <1>4, <1>5, <1>6 DEF RecoveryStep

LEMMA MonitorType ==
    ASSUME TypeOK, NEW m \in Procs, MonitorStep(m)
    PROVE  TypeOK'
<1> USE ConstantFacts DEF TypeOK
<1>0. mon[m] \in MonRecords /\ handle.pid \in MaybeProc
  BY DEF Handles
<1>1. CASE MonitorTick(m)
  BY <1>0, <1>1 DEF MonitorTick, MonRecords
<1>2. CASE MonitorOk(m)
  BY <1>2 DEF MonitorOk, Handles, HandleStates
<1>3. CASE MonitorFail(m)
  <2>1. handle' \in Handles
    BY <1>3 DEF MonitorFail, Handles, HandleStates
  <2>2. mon[m].fails + 1 \in Nat
    BY <1>0 DEF MonRecords
  <2>3. [mon[m] EXCEPT !.pc = "kill", !.target = handle.pid] \in MonRecords
        /\ [mon[m] EXCEPT !.pc = "sleep", !.fails = mon[m].fails + 1] \in MonRecords
    BY <1>0, <2>2 DEF MonRecords
  <2>4. mon' \in [Procs -> MonRecords]
    BY <1>0, <1>3, <2>3 DEF MonitorFail
  <2> QED BY <1>3, <2>1, <2>4 DEF MonitorFail
<1>4. CASE MonitorKill(m)
  BY <1>4, SignalType DEF MonitorKill
<1> QED BY <1>1, <1>2, <1>3, <1>4 DEF MonitorStep

LEMMA WatcherType ==
    ASSUME TypeOK, NEW w \in Procs, WatcherStep(w)
    PROVE  TypeOK'
<1> USE ConstantFacts DEF TypeOK
<1>0. wat[w] \in WatRecords /\ handle.port \in MaybePort /\ QueueCap \in Nat
  BY ConstantsAssumption DEF Handles
<1>1. CASE ThreadCheck(w)
  BY <1>0, <1>1 DEF ThreadCheck, WatRecords
<1>2. CASE ThreadTimeout(w) \/ FileChange(w)
  BY <1>0, <1>2, SMTT(30) DEF ThreadTimeout, FileChange, WatRecords
<1>3. CASE ThreadSend(w)
  BY <1>0, <1>3 DEF ThreadSend, WatRecords
<1>4. CASE TaskRecv(w)
  BY <1>0, <1>4 DEF TaskRecv, WatRecords
<1>5. CASE TaskKill(w)
  BY <1>0, <1>5, SignalType DEF TaskKill, WatRecords
<1>6. CASE TaskKilled(w)
  BY <1>0, <1>6 DEF TaskKilled, WatRecords, Handles, HandleStates
<1>7. CASE TaskConfig(w)
  BY <1>0, <1>7 DEF TaskConfig, WatRecords
<1>8. CASE TaskSpawn(w)
  <2>1. ASSUME NEW p \in Procs, Spawn(p),
               wat' = [wat EXCEPT ![w].task = "insert", ![w].proc = p]
        PROVE  proc' \in [Procs -> ProcStates] /\ wat' \in [Procs -> WatRecords]
    BY <1>0, <2>1 DEF Spawn, ProcStates, WatRecords
  <2>2. ASSUME wat' = [wat EXCEPT ![w].task = "recv"], UNCHANGED proc
        PROVE  proc' \in [Procs -> ProcStates] /\ wat' \in [Procs -> WatRecords]
    BY <1>0, <2>2 DEF WatRecords
  <2> QED BY <1>8, <2>1, <2>2 DEF TaskSpawn
<1>9. CASE TaskInsert(w)
  <2>1. wat[w].proc \in MaybeProc /\ wat[w].port \in MaybePort
    BY <1>0 DEF WatRecords
  <2>2. handle' \in Handles
    BY <1>9, <2>1, RunningHandleType DEF TaskInsert
  <2>3. wat' \in [Procs -> WatRecords]
    BY <1>0, <1>9 DEF TaskInsert, WatRecords
  <2> QED BY <1>9, <2>2, <2>3 DEF TaskInsert
<1> QED BY <1>1, <1>2, <1>3, <1>4, <1>5, <1>6, <1>7, <1>8, <1>9
        DEF WatcherStep, ThreadStep, TaskStep

LEMMA IssueType ==
    ASSUME TypeOK, NEW c \in Clients, Issue(c)
    PROVE  TypeOK'
<1>1. \A r \in Requests :
        [IdleClient EXCEPT !.pc = IF r = "add" THEN "add" ELSE "stop", !.req = r] \in ClientRecords
  BY ConstantFacts, ConstantsAssumption DEF ClientRecords, StopPCs
<1>2. client' \in [Clients -> ClientRecords]
  BY <1>1 DEF Issue, TypeOK
<1> QED BY <1>2 DEF Issue, TypeOK

LEMMA TypeStep == TypeOK /\ [Next]_vars => TypeOK'
<1> SUFFICES ASSUME TypeOK, [Next]_vars PROVE TypeOK'
  OBVIOUS
<1>1. ASSUME NEW p \in Procs, ProcExit(p) PROVE TypeOK'
  BY <1>1 DEF ProcExit, TypeOK, ProcStates
<1>2. CASE UNCHANGED vars
  BY <1>2 DEF vars, TypeOK
<1> QED BY <1>1, <1>2, IssueType, ClientType, RecoveryType, MonitorType, WatcherType DEF Next

\* Every variable keeps its type in every reachable state.
THEOREM TypeCorrect == Spec => []TypeOK
BY TypeInit, TypeStep, PTL DEF Spec

------------------------------------------------------------------------------
(************************** pids and handles *******************************)

\* A handle has a pid exactly when its state is Running or Unhealthy, and what
\* a task is about to insert is a process.
HandlePid == Active <=> handle.pid # None
Inserting ==
    /\ \A c \in Clients : client[c].pc = "insert" => client[c].pid \in Procs
    /\ \A r \in Procs : rec[r].pc = "insert" => rec[r].proc \in Procs
    /\ \A w \in Procs : wat[w].task = "insert" => wat[w].proc \in Procs
PidInv == TypeOK /\ HandlePid /\ Inserting

LEMMA PidInit == Init => PidInv
<1> SUFFICES ASSUME Init PROVE PidInv
  OBVIOUS
<1>1. HandlePid
  BY DEF Init, HandlePid, Active, NoHandle
<1>2. \A c \in Clients : client[c].pc # "insert"
  BY DEF Init, IdleClient
<1>3. Inserting
  BY <1>2 DEF Init, Inserting, NoRec, NoWat
<1> QED BY <1>1, <1>3, TypeInit DEF PidInv

\* A new handle names the process that is inserted.
LEMMA RunningHandleFields ==
    ASSUME NEW p, NEW port, NEW w, NEW n, handle' = RunningHandle(p, port, w, n)
    PROVE  /\ handle'.state = "Running" /\ handle'.pid = p /\ handle'.child = p
           /\ handle'.watcher_stop = w
           /\ Active'
           /\ p \in Procs => HandlePid'
BY ConstantFacts DEF RunningHandle, Active, HandlePid

LEMMA ClientPid ==
    ASSUME PidInv, NEW c \in Clients, ClientStep(c)
    PROVE  HandlePid' /\ Inserting'
<1> USE DEF PidInv, TypeOK
<1>0. client[c] \in ClientRecords
  OBVIOUS
<1>1. CASE SwapOut(c) \/ SwapIn(c)
  BY <1>0, <1>1 DEF SwapOut, SwapIn, HandlePid, Active, Inserting, IdleClient, ClientRecords
<1>2. CASE StartBegin(c)
  BY <1>0, <1>2 DEF StartBegin, HandlePid, Active, Inserting, IdleClient, ClientRecords
<1>3. CASE StartSpawn(c)
  BY <1>0, <1>3 DEF StartSpawn, HandlePid, Active, Inserting, IdleClient, ClientRecords
<1>4. CASE StartInsert(c)
  <2>1. HandlePid'
    BY <1>4, RunningHandleFields DEF StartInsert, Inserting
  <2>2. \A d \in Clients : client'[d].pc = "insert" => client'[d] = client[d]
    BY <1>0, <1>4 DEF StartInsert, AfterInsert, IdleClient, ClientRecords
  <2>3. \A r \in Procs : rec'[r].pc = "insert" => rec'[r] = rec[r]
    BY <1>4 DEF StartInsert, NoRec
  <2> QED BY <1>4, <2>1, <2>2, <2>3 DEF StartInsert, Inserting
<1>5. CASE StartHealthy(c)
  BY <1>0, <1>5 DEF StartHealthy, AfterHealthy, HandlePid, Active, Inserting, IdleClient, ClientRecords
<1>6. CASE StartWatch(c)
  <2>1. \A w \in Procs : wat'[w].task = "insert" => wat'[w] = wat[w]
    BY <1>6 DEF StartWatch, NoWat
  <2>2. \A d \in Clients : client'[d].pc = "insert" => client'[d] = client[d]
    BY <1>0, <1>6 DEF StartWatch, ClientRecords
  <2> QED BY <1>6, <2>1, <2>2 DEF StartWatch, HandlePid, Active, Inserting
<1>7. CASE StartWatchStore(c)
  BY <1>0, <1>7 DEF StartWatchStore, HandlePid, Active, Inserting, IdleClient, ClientRecords, Handles
<1>8. ASSUME Return(c) PROVE \A d \in Clients : client'[d].pc = "insert" => client'[d] = client[d]
  BY <1>0, <1>8 DEF Return, AfterStop, IdleClient, ClientRecords
<1>9. ASSUME Mark(c) PROVE HandlePid' /\ Inserting'
  <2>1. HandlePid'
    BY <1>9 DEF Mark, HandlePid, Active, Handles
  <2>2. \A w \in Procs : wat'[w].task = wat[w].task /\ wat'[w].proc = wat[w].proc
    BY <1>9 DEF Mark, SendStop, WatRecords
  <2>3. \A d \in Clients : client'[d].pc = "insert" => client'[d] = client[d]
    BY <1>0, <1>9 DEF Mark, ClientRecords
  <2> QED BY <1>9, <2>1, <2>2, <2>3 DEF Mark, Inserting
<1>10. CASE StopMark(c) \/ StopUnblock(c)
  BY <1>9, <1>10 DEF StopMark, StopUnblock
<1>11. CASE StopAbsent(c) \/ StopHook(c)
  BY <1>8, <1>11 DEF StopAbsent, StopHook, HandlePid, Active, Inserting
<1>12. CASE StopBlock(c) \/ StopTimeout(c) \/ StopReap(c)
  BY <1>0, <1>12 DEF StopBlock, StopTimeout, StopReap, HandlePid, Active, Inserting, ClientRecords
<1>13. CASE StopTerm(c) \/ StopKill(c)
  BY <1>0, <1>13 DEF StopTerm, StopKill, HandlePid, Active, Inserting, ClientRecords
<1> QED BY <1>1, <1>2, <1>3, <1>4, <1>5, <1>6, <1>7, <1>10, <1>11, <1>12, <1>13 DEF ClientStep

LEMMA RecoveryPid ==
    ASSUME PidInv, NEW r \in Procs, RecoveryStep(r)
    PROVE  HandlePid' /\ Inserting'
<1> USE DEF PidInv, TypeOK
<1>0. rec[r] \in RecRecords
  OBVIOUS
<1>1. CASE RecoveryInit(r) \/ RecoveryWake(r)
  BY <1>0, <1>1 DEF RecoveryInit, RecoveryWake, HandlePid, Active, Inserting, NoRec, RecRecords
<1>2. CASE RecoveryTake(r)
  <2>0. handle \in Handles
    OBVIOUS
  <2>1. handle'.pid = handle.pid /\ handle'.state = handle.state
    BY <1>2, <2>0 DEF RecoveryTake, Handles
  <2>2. rec'[r].pc # "insert" /\ \A q \in Procs \ {r} : rec'[q] = rec[q]
    BY <1>0, <1>2 DEF RecoveryTake, NoRec, RecRecords
  <2>3. UNCHANGED <<client, wat>>
    BY <1>2 DEF RecoveryTake
  <2> QED BY <2>1, <2>2, <2>3 DEF HandlePid, Active, Inserting
<1>3. CASE RecoveryCheck(r)
  BY <1>0, <1>3 DEF RecoveryCheck, HandlePid, Active, Inserting, NoRec, RecRecords
<1>4. CASE RecoverySpawn(r)
  <2>1. \/ \E p \in Procs : rec' = [rec EXCEPT ![r].pc = "insert", ![r].proc = p]
        \/ rec' = [rec EXCEPT ![r] = NoRec]
    BY <1>4 DEF RecoverySpawn
  <2>2. \A q \in Procs : rec'[q].pc = "insert" => rec'[q].proc \in Procs
    BY <1>0, <2>1 DEF Inserting, NoRec, RecRecords
  <2> QED BY <1>4, <2>2 DEF RecoverySpawn, HandlePid, Active, Inserting
<1>5. CASE RecoveryInsert(r)
  <2>1. HandlePid'
    BY <1>5, RunningHandleFields DEF RecoveryInsert, Inserting
  <2> QED BY <1>0, <1>5, <2>1 DEF RecoveryInsert, Inserting, RecRecords
<1> QED BY <1>1, <1>2, <1>3, <1>4, <1>5 DEF RecoveryStep

LEMMA MonitorPid ==
    ASSUME PidInv, NEW m \in Procs, MonitorStep(m)
    PROVE  HandlePid' /\ Inserting'
<1> USE DEF PidInv, TypeOK
<1>1. HandlePid'
  BY DEF MonitorStep, MonitorTick, MonitorOk, MonitorFail, MonitorKill, HandlePid, Active, Handles
<1>2. UNCHANGED <<client, rec, wat>>
  BY DEF MonitorStep, MonitorTick, MonitorOk, MonitorFail, MonitorKill
<1> QED BY <1>1, <1>2 DEF Inserting

LEMMA WatcherPid ==
    ASSUME PidInv, NEW w \in Procs, WatcherStep(w)
    PROVE  HandlePid' /\ Inserting'
<1> USE DEF PidInv, TypeOK
<1>0. wat[w] \in WatRecords
  OBVIOUS
<1>1. CASE ThreadStep(w) \/ FileChange(w)
  <2>1. UNCHANGED <<handle, client, rec>>
    BY <1>1 DEF ThreadStep, ThreadCheck, ThreadTimeout, ThreadSend, FileChange
  <2>2. /\ wat'[w].task = wat[w].task /\ wat'[w].proc = wat[w].proc
        /\ \A x \in Procs \ {w} : wat'[x] = wat[x]
    BY <1>0, <1>1 DEF ThreadStep, ThreadCheck, ThreadTimeout, ThreadSend, FileChange, WatRecords
  <2> QED BY <2>1, <2>2 DEF Inserting, HandlePid, Active
<1>2. CASE TaskRecv(w) \/ TaskKill(w) \/ TaskConfig(w)
  <2>1. UNCHANGED <<handle, client, rec>>
    BY <1>2 DEF TaskRecv, TaskKill, TaskConfig
  <2>2. CASE TaskRecv(w)
    <3>1. wat'[w].task # "insert" /\ \A x \in Procs \ {w} : wat'[x] = wat[x]
      BY <1>0, <2>2 DEF TaskRecv, NoWat, WatRecords
    <3> QED BY <2>1, <3>1 DEF Inserting, HandlePid, Active
  <2>3. CASE TaskKill(w) \/ TaskConfig(w)
    <3>1. \A v \in Procs : wat'[v].task = "insert" => wat'[v] = wat[v]
      BY <1>0, <2>3 DEF TaskKill, TaskConfig, WatRecords
    <3> QED BY <2>1, <3>1 DEF Inserting, HandlePid, Active
  <2> QED BY <1>2, <2>2, <2>3
<1>3. CASE TaskKilled(w)
  BY <1>0, <1>3 DEF TaskKilled, HandlePid, Active, Inserting, WatRecords, Handles
<1>4. CASE TaskSpawn(w)
  BY <1>0, <1>4 DEF TaskSpawn, HandlePid, Active, Inserting, WatRecords
<1>5. CASE TaskInsert(w)
  <2>1. HandlePid'
    BY <1>5, RunningHandleFields DEF TaskInsert, Inserting
  <2> QED BY <1>0, <1>5, <2>1 DEF TaskInsert, Inserting, WatRecords
<1> QED BY <1>1, <1>2, <1>3, <1>4, <1>5 DEF WatcherStep, TaskStep

LEMMA PidStep == PidInv /\ [Next]_vars => PidInv'
<1> SUFFICES ASSUME PidInv, [Next]_vars PROVE PidInv'
  OBVIOUS
<1>1. TypeOK'
  BY TypeStep DEF PidInv
<1>2. ASSUME NEW c \in Clients, Issue(c) PROVE HandlePid' /\ Inserting'
  BY <1>2 DEF Issue, PidInv, TypeOK, HandlePid, Active, Inserting, IdleClient, ClientRecords
<1>3. ASSUME NEW p \in Procs, ProcExit(p) PROVE HandlePid' /\ Inserting'
  BY <1>3 DEF ProcExit, PidInv, HandlePid, Active, Inserting
<1>4. ASSUME UNCHANGED vars PROVE HandlePid' /\ Inserting'
  <2>1. UNCHANGED <<handle, client, rec, wat>>
    BY <1>4 DEF vars
  <2> QED BY <2>1 DEF PidInv, HandlePid, Active, Inserting
<1>5. HandlePid' /\ Inserting'
  <2>1. CASE UNCHANGED vars
    BY <1>4, <2>1
  <2>2. ASSUME NEW c \in Clients, Issue(c) \/ ClientStep(c) PROVE HandlePid' /\ Inserting'
    BY <1>2, <2>2, ClientPid
  <2>3. ASSUME NEW p \in Procs, ProcExit(p) \/ RecoveryStep(p) \/ MonitorStep(p) \/ WatcherStep(p)
        PROVE  HandlePid' /\ Inserting'
    BY <1>3, <2>3, RecoveryPid, MonitorPid, WatcherPid
  <2> QED BY <2>1, <2>2, <2>3 DEF Next
<1> QED BY <1>1, <1>5 DEF PidInv

------------------------------------------------------------------------------
(*************************** RespawnOnly ***********************************)

\* A step that keeps the handle, or only marks it, does not leave Stopped.
LEMMA KeepsState ==
    ASSUME handle'.state = handle.state \/ handle'.state = "Stopped"
    PROVE  RespawnStep
BY DEF RespawnStep

\* An insert leaves Stopped with a process in place.
LEMMA InsertRespawns ==
    ASSUME NEW p \in Procs, NEW port, NEW w, NEW n, handle' = RunningHandle(p, port, w, n)
    PROVE  RespawnStep
BY RunningHandleFields, ConstantFacts DEF RespawnStep

LEMMA RespawnHolds == PidInv /\ [Next]_vars => [RespawnStep]_vars
<1> SUFFICES ASSUME PidInv, Next PROVE RespawnStep
  OBVIOUS
<1> USE DEF PidInv, TypeOK
<1>1. ASSUME NEW c \in Clients, Issue(c) PROVE RespawnStep
  BY <1>1, KeepsState DEF Issue
<1>2. ASSUME NEW c \in Clients, ClientStep(c) PROVE RespawnStep
  <2>1. CASE StartInsert(c)
    BY <2>1, InsertRespawns DEF StartInsert, Inserting
  <2>2. CASE StartWatchStore(c)
    BY <2>2, KeepsState DEF StartWatchStore, Handles
  <2>3. ASSUME Mark(c) PROVE RespawnStep
    BY <2>3, KeepsState DEF Mark, Handles
  <2>4. CASE StopMark(c) \/ StopUnblock(c)
    BY <2>3, <2>4 DEF StopMark, StopUnblock
  <2>5. CASE UNCHANGED handle
    BY <2>5, KeepsState
  <2> QED BY <1>2, <2>1, <2>2, <2>4, <2>5
      DEF ClientStep, SwapOut, SwapIn, StartBegin, StartSpawn, StartHealthy, StartWatch,
          StopAbsent, StopBlock, StopTerm, StopTimeout, StopKill, StopReap, StopHook
<1>3. ASSUME NEW r \in Procs, RecoveryStep(r) PROVE RespawnStep
  <2>1. CASE RecoveryInsert(r)
    BY <2>1, InsertRespawns DEF RecoveryInsert, Inserting
  <2>2. CASE RecoveryTake(r)
    BY <2>2, KeepsState DEF RecoveryTake, Handles
  <2>3. CASE UNCHANGED handle
    BY <2>3, KeepsState
  <2> QED BY <1>3, <2>1, <2>2, <2>3
      DEF RecoveryStep, RecoveryInit, RecoveryCheck, RecoveryWake, RecoverySpawn
<1>4. ASSUME NEW m \in Procs, MonitorStep(m) PROVE RespawnStep
  <2>1. CASE MonitorOk(m)
    BY <2>1 DEF MonitorOk, RespawnStep, Handles
  <2>2. CASE MonitorFail(m)
    <3>1. CASE handle.pid = None
      BY <2>2, <3>1, KeepsState DEF MonitorFail
    <3>2. CASE handle.pid # None
      BY <3>2 DEF HandlePid, Active, RespawnStep
    <3> QED BY <3>1, <3>2
  <2>3. CASE UNCHANGED handle
    BY <2>3, KeepsState
  <2> QED BY <1>4, <2>1, <2>2, <2>3 DEF MonitorStep, MonitorTick, MonitorKill
<1>5. ASSUME NEW w \in Procs, WatcherStep(w) PROVE RespawnStep
  <2>1. CASE TaskInsert(w)
    BY <2>1, InsertRespawns DEF TaskInsert, Inserting
  <2>2. CASE TaskKilled(w)
    BY <2>2, KeepsState DEF TaskKilled, Handles
  <2>3. CASE UNCHANGED handle
    BY <2>3, KeepsState
  <2> QED BY <1>5, <2>1, <2>2, <2>3
      DEF WatcherStep, ThreadStep, TaskStep, ThreadCheck, ThreadTimeout, ThreadSend, FileChange,
          TaskRecv, TaskKill, TaskConfig, TaskSpawn
<1>6. ASSUME NEW p \in Procs, ProcExit(p) PROVE RespawnStep
  BY <1>6, KeepsState DEF ProcExit
<1> QED BY <1>1, <1>2, <1>3, <1>4, <1>5, <1>6 DEF Next

\* In every configuration, with health checks and file watching or without, a
\* stopped service becomes active again only by a newly spawned process.
THEOREM RespawnOnlyHolds == Spec => RespawnOnly
BY PidInit, PidStep, RespawnHolds, PTL DEF Spec, RespawnOnly

------------------------------------------------------------------------------
(**************************** Supervised ***********************************)

\* Without a watch block no watcher exists and no sender is kept.
NoWatcher ==
    ~HasWatch =>
        /\ \A w \in Procs : wat[w] = NoWat
        /\ \A c \in Clients : client[c].pc \notin {"watch", "store"}
        /\ handle.watcher_stop = None

SupervisedInv == PidInv /\ NoWatcher /\ (~HasWatch => Supervised)

\* What a step may do to one process: spawn it, signal it, or let it exit.
LEMMA ProcSteps ==
    ASSUME PidInv, NEW p \in Procs, [Next]_vars
    PROVE  \/ proc'[p] = proc[p]
           \/ proc[p] = "none" /\ proc'[p] = "run"
           \/ proc[p] \in {"run", "term"} /\ proc'[p] \in {"term", "kill", "dead"}
           \/ proc[p] = "kill" /\ proc'[p] = "killed"
<1> USE DEF PidInv, TypeOK
<1> DEFINE Legal == \/ proc'[p] = proc[p]
                    \/ proc[p] = "none" /\ proc'[p] = "run"
                    \/ proc[p] \in {"run", "term"} /\ proc'[p] \in {"term", "kill", "dead"}
                    \/ proc[p] = "kill" /\ proc'[p] = "killed"
<1>1. ASSUME NEW q, proc' = Sigterm(proc, q) \/ proc' = Sigkill(proc, q) PROVE Legal
  BY <1>1 DEF Sigterm, Sigkill
<1>2. ASSUME NEW q \in Procs, Spawn(q) PROVE Legal
  BY <1>2 DEF Spawn
<1>3. ASSUME NEW q \in Procs, ProcExit(q) PROVE Legal
  BY <1>3 DEF ProcExit, Alive
<1>4. CASE UNCHANGED proc
  BY <1>4
<1>5. ASSUME NEW c \in Clients, ClientStep(c) PROVE Legal
  <2>1. CASE StopTerm(c)
    BY <1>1, <2>1 DEF StopTerm
  <2>2. CASE StopKill(c)
    BY <2>2 DEF StopKill, Sigkill
  <2>3. CASE StartSpawn(c)
    BY <1>2, <1>4, <2>3 DEF StartSpawn
  <2>4. Mark(c) => UNCHANGED proc
    BY DEF Mark
  <2> QED BY <1>4, <1>5, <2>1, <2>2, <2>3, <2>4
      DEF ClientStep, SwapOut, SwapIn, StartBegin, StartInsert, StartHealthy, StartWatch,
          StartWatchStore, StopMark, StopUnblock, StopAbsent, StopBlock, StopTimeout, StopReap,
          StopHook
<1>6. ASSUME NEW q \in Procs, RecoveryStep(q) \/ MonitorStep(q) \/ WatcherStep(q)
      PROVE  Legal
  <2>1. CASE RecoverySpawn(q)
    BY <1>2, <1>4, <2>1 DEF RecoverySpawn
  <2>2. CASE TaskSpawn(q)
    BY <1>2, <1>4, <2>2 DEF TaskSpawn
  <2>3. CASE MonitorKill(q)
    BY <1>1, <2>3 DEF MonitorKill
  <2>4. CASE TaskKill(q)
    BY <1>1, <1>4, <2>4 DEF TaskKill
  <2> QED BY <1>4, <1>6, <2>1, <2>2, <2>3, <2>4
      DEF RecoveryStep, RecoveryInit, RecoveryTake, RecoveryCheck, RecoveryWake, RecoveryInsert,
          MonitorStep, MonitorTick, MonitorOk, MonitorFail, WatcherStep, ThreadStep, TaskStep,
          ThreadCheck, ThreadTimeout, ThreadSend, FileChange, TaskRecv, TaskKilled, TaskConfig,
          TaskInsert
<1>7. CASE UNCHANGED vars
  BY <1>4, <1>7 DEF vars
<1>8. ASSUME NEW c \in Clients, Issue(c) PROVE Legal
  BY <1>4, <1>8 DEF Issue
<1>9. Legal
  BY <1>3, <1>5, <1>6, <1>7, <1>8 DEF Next
<1> QED BY <1>9

\* A process that is dead stays dead: no step of the supervisor revives it.
LEMMA DeadStays ==
    ASSUME PidInv, NEW q \in Procs, Dead(q), [Next]_vars
    PROVE  Dead(q)'
BY ProcSteps DEF Dead

\* A watcher that does not exist takes no step.
LEMMA NoWatcherSteps ==
    ASSUME NoWatcher, ~HasWatch, NEW w \in Procs, WatcherStep(w)
    PROVE  FALSE
BY DEF NoWatcher, WatcherStep, ThreadStep, TaskStep, ThreadCheck, ThreadTimeout, ThreadSend,
   FileChange, TaskRecv, TaskKill, TaskKilled, TaskConfig, TaskSpawn, TaskInsert, NoWat

\* Without a watch block no step creates or wakes a watcher.
LEMMA NoWatcherStep ==
    ASSUME PidInv, NoWatcher, ~HasWatch, [Next]_vars
    PROVE  NoWatcher'
<1> USE DEF PidInv, TypeOK
<1>0. /\ \A w \in Procs : wat[w] = NoWat
      /\ \A c \in Clients : client[c].pc \notin {"watch", "store"}
      /\ handle.watcher_stop = None
  BY DEF NoWatcher
<1>1. ASSUME NEW c \in Clients, Issue(c) PROVE NoWatcher'
  BY <1>0, <1>1 DEF Issue, NoWatcher, IdleClient, ClientRecords
<1>2. ASSUME NEW c \in Clients, ClientStep(c) PROVE NoWatcher'
  <2>0. client[c] \in ClientRecords
    OBVIOUS
  <2>1. wat' = wat /\ handle'.watcher_stop = None
    <3>1. CASE StartInsert(c)
      BY <1>0, <3>1, RunningHandleFields DEF StartInsert
    <3>2. ASSUME Mark(c) PROVE wat' = wat /\ handle'.watcher_stop = None
      BY <1>0, <3>2 DEF Mark, SendStop, Handles
    <3> QED BY <1>0, <1>2, <3>1, <3>2
        DEF ClientStep, SwapOut, SwapIn, StartBegin, StartSpawn, StartHealthy, StartWatch,
            StartWatchStore, StopMark, StopUnblock, StopAbsent, StopBlock, StopTerm, StopTimeout,
            StopKill, StopReap, StopHook
  <2>2. \A d \in Clients \ {c} : client'[d] = client[d]
    BY <1>2 DEF ClientStep, SwapOut, SwapIn, StartBegin, StartSpawn, StartInsert, StartHealthy,
       StartWatch, StartWatchStore, StopMark, StopUnblock, StopAbsent, StopBlock, StopTerm,
       StopTimeout, StopKill, StopReap, StopHook, Mark, Return
  <2>3. client'[c].pc \notin {"watch", "store"}
    <3>1. CASE SwapOut(c) \/ SwapIn(c) \/ StartBegin(c) \/ StartSpawn(c)
      BY <2>0, <3>1 DEF SwapOut, SwapIn, StartBegin, StartSpawn, IdleClient, ClientRecords
    <3>2. CASE StartInsert(c) \/ StartHealthy(c)
      <4>1. AfterInsert \in {"healthy", "idle"} /\ AfterHealthy = "idle"
        BY DEF AfterInsert, AfterHealthy
      <4>2. client'[c] \in {IdleClient, [client[c] EXCEPT !.pc = "healthy"]}
        BY <3>2, <4>1 DEF StartInsert, StartHealthy
      <4> QED BY <2>0, <4>2 DEF IdleClient, ClientRecords
    <3>3. CASE StartWatch(c) \/ StartWatchStore(c)
      BY <1>0, <3>3 DEF StartWatch, StartWatchStore
    <3>4. CASE StopMark(c) \/ StopUnblock(c)
      BY <2>0, <3>4 DEF StopMark, StopUnblock, Mark, ClientRecords
    <3>5. CASE StopAbsent(c) \/ StopHook(c)
      <4>1. AfterStop(client[c].req) \in {"start", "remove", "idle"}
        BY DEF AfterStop
      <4>2. client'[c].pc \in {"start", "remove", "idle"}
        BY <2>0, <3>5, <4>1 DEF StopAbsent, StopHook, Return, IdleClient, ClientRecords
      <4> QED BY <4>2
    <3>6. CASE StopBlock(c) \/ StopTerm(c) \/ StopTimeout(c) \/ StopKill(c) \/ StopReap(c)
      BY <2>0, <3>6 DEF StopBlock, StopTerm, StopTimeout, StopKill, StopReap, ClientRecords
    <3> QED BY <1>2, <3>1, <3>2, <3>3, <3>4, <3>5, <3>6 DEF ClientStep
  <2> QED BY <1>0, <2>1, <2>2, <2>3 DEF NoWatcher
<1>3. ASSUME NEW r \in Procs, RecoveryStep(r) PROVE NoWatcher'
  <2>1. UNCHANGED <<client, wat>>
    BY <1>3 DEF RecoveryStep, RecoveryInit, RecoveryTake, RecoveryCheck, RecoveryWake,
       RecoverySpawn, RecoveryInsert
  <2>2. CASE RecoveryInsert(r)
    BY <1>0, <2>1, <2>2, RunningHandleFields DEF RecoveryInsert, NoWatcher
  <2>3. CASE RecoveryTake(r)
    BY <1>0, <2>1, <2>3 DEF RecoveryTake, Handles, NoWatcher
  <2>4. CASE UNCHANGED handle
    BY <1>0, <2>1, <2>4 DEF NoWatcher
  <2> QED BY <1>3, <2>2, <2>3, <2>4
      DEF RecoveryStep, RecoveryInit, RecoveryCheck, RecoveryWake, RecoverySpawn
<1>4. ASSUME NEW m \in Procs, MonitorStep(m) PROVE NoWatcher'
  <2>1. UNCHANGED <<client, wat>> /\ handle'.watcher_stop = handle.watcher_stop
    BY <1>4 DEF MonitorStep, MonitorTick, MonitorOk, MonitorFail, MonitorKill, Handles
  <2> QED BY <1>0, <2>1 DEF NoWatcher
<1>5. ASSUME NEW w \in Procs, WatcherStep(w) PROVE FALSE
  BY <1>5, NoWatcherSteps
<1>6. ASSUME NEW p \in Procs, ProcExit(p) PROVE NoWatcher'
  BY <1>0, <1>6 DEF ProcExit, NoWatcher
<1>7. CASE UNCHANGED vars
  BY <1>0, <1>7 DEF vars, NoWatcher
<1> QED BY <1>1, <1>2, <1>3, <1>4, <1>5, <1>6, <1>7 DEF Next

\* A step that keeps the handle's process and the recovery tasks keeps the
\* process supervised.
LEMMA SupervisedKept ==
    ASSUME PidInv, Supervised, [Next]_vars, UNCHANGED rec, Active' => Active,
           handle'.pid = handle.pid, handle'.child = handle.child
    PROVE  Supervised'
<1> SUFFICES ASSUME Active', ~Dead(handle.pid)'
             PROVE  \/ handle.child = handle.pid /\ \E r \in Procs : rec[r].pc \in {"init", "top"}
                    \/ \E r \in Procs : rec[r].pc = "wait" /\ rec[r].child = handle.pid
  BY DEF Supervised
<1>1. Active /\ handle.pid \in Procs
  BY DEF PidInv, TypeOK, Handles, HandlePid, MaybeProc
<1>2. ~Dead(handle.pid)
  <2>1. Dead(handle.pid)' <=> proc'[handle.pid] \in {"dead", "killed"}
    BY DEF Dead
  <2>2. ASSUME Dead(handle.pid) PROVE proc'[handle.pid] \in {"dead", "killed"}
    <3>1. PICK p \in Procs : p = handle.pid
      BY <1>1
    <3>2. Dead(p)
      BY <2>2, <3>1
    <3>3. proc'[p] \in {"dead", "killed"}
      BY <3>2, DeadStays DEF Dead
    <3> QED BY <3>1, <3>3
  <2> QED BY <2>1, <2>2
<1> QED BY <1>1, <1>2 DEF Supervised

\* A step of a recovery task keeps the service supervised: taking the child
\* makes this task the one that waits, and an insert hands it a new child.
LEMMA RecoverySupervises ==
    ASSUME PidInv, Supervised, NEW r \in Procs, RecoveryStep(r)
    PROVE  Supervised'
<1> USE DEF PidInv, TypeOK
<1>0. /\ rec[r] \in RecRecords
      /\ Active => handle.pid \in Procs /\ handle.pid # None
  BY ConstantFacts DEF Handles, HandlePid, MaybeProc
<1>1. CASE RecoveryInit(r)
  <2>1. /\ UNCHANGED <<handle, proc>>
        /\ rec'[r].pc = "top" /\ rec[r].pc = "init"
        /\ \A q \in Procs \ {r} : rec'[q] = rec[q]
    BY <1>0, <1>1 DEF RecoveryInit, RecRecords
  <2> QED BY <2>1 DEF Supervised, Active, Dead
<1>2. CASE RecoveryTake(r)
  <2>1. CASE Active
    <3>1. /\ UNCHANGED proc
          /\ handle'.pid = handle.pid
          /\ rec'[r].pc = "wait" /\ rec'[r].child = handle.child /\ rec[r].pc = "top"
          /\ \A q \in Procs \ {r} : rec'[q] = rec[q]
      BY <1>0, <1>2, <2>1 DEF RecoveryTake, RecRecords, Handles
    <3>2. Dead(handle.pid)' <=> Dead(handle.pid)
      BY <3>1 DEF Dead
    <3>3. CASE handle.child = handle.pid
      BY <3>1, <3>3 DEF Supervised
    <3>4. CASE handle.child # handle.pid
      BY <2>1, <3>1, <3>2, <3>4 DEF Supervised
    <3> QED BY <3>3, <3>4
  <2>2. CASE ~Active
    BY <1>2, <2>2 DEF RecoveryTake, Supervised, Active
  <2> QED BY <2>1, <2>2
<1>3. CASE RecoveryCheck(r)
  <2>1. /\ UNCHANGED <<handle, proc>>
        /\ rec[r].pc = "wait"
        /\ Exited(rec[r].child)
        /\ \A q \in Procs \ {r} : rec'[q] = rec[q]
    BY <1>0, <1>3 DEF RecoveryCheck
  <2>2. Active /\ rec[r].child = handle.pid => Dead(handle.pid)
    BY <1>0, <2>1 DEF Exited
  <2> QED BY <2>1, <2>2 DEF Supervised, Active, Dead
<1>4. CASE RecoveryWake(r)
  <2>1. /\ UNCHANGED <<handle, proc>>
        /\ rec[r].pc = "backoff"
        /\ \A q \in Procs \ {r} : rec'[q] = rec[q]
    BY <1>0, <1>4 DEF RecoveryWake
  <2> QED BY <2>1 DEF Supervised, Active, Dead
<1>5. CASE RecoverySpawn(r)
  <2>1. /\ UNCHANGED handle
        /\ rec[r].pc = "spawn"
        /\ \A q \in Procs \ {r} : rec'[q] = rec[q]
        /\ \A q \in Procs : Dead(q) => proc'[q] \in {"dead", "killed"}
    BY <1>0, <1>5 DEF RecoverySpawn, Spawn, Dead
  <2> QED BY <1>0, <2>1 DEF Supervised, Active, Dead
<1>6. CASE RecoveryInsert(r)
  <2>1. handle'.child = handle'.pid
    BY <1>6, RunningHandleFields DEF RecoveryInsert
  <2>2. rec'[r].pc = "top"
    BY <1>0, <1>6 DEF RecoveryInsert, RecRecords
  <2> QED BY <2>1, <2>2 DEF Supervised
<1> QED BY <1>1, <1>2, <1>3, <1>4, <1>5, <1>6 DEF RecoveryStep

LEMMA SupervisedStep == SupervisedInv /\ [Next]_vars => SupervisedInv'
<1> SUFFICES ASSUME SupervisedInv, [Next]_vars PROVE SupervisedInv'
  OBVIOUS
<1>1. PidInv /\ PidInv'
  BY PidStep DEF SupervisedInv
<1>2. CASE HasWatch
  BY <1>1, <1>2 DEF SupervisedInv, NoWatcher
<1>3. CASE ~HasWatch
  <2>1. NoWatcher' /\ Supervised
    BY <1>1, <1>3, NoWatcherStep DEF SupervisedInv
  <2>2. ASSUME UNCHANGED <<handle, rec>> PROVE Supervised'
    BY <1>1, <2>1, <2>2, SupervisedKept DEF Active
  <2>3. ASSUME NEW c \in Clients, Issue(c) PROVE Supervised'
    BY <2>2, <2>3 DEF Issue
  <2>4. ASSUME NEW c \in Clients, ClientStep(c) PROVE Supervised'
    <3>1. CASE StartInsert(c)
      <4>1. handle'.child = handle'.pid /\ client[c].pid \in Procs
        BY <1>1, <3>1, RunningHandleFields DEF StartInsert, PidInv, Inserting
      <4>2. rec'[client[c].pid].pc = "init"
        BY <1>1, <3>1, <4>1 DEF StartInsert, PidInv, TypeOK, NoRec
      <4> QED BY <4>1, <4>2 DEF Supervised
    <3>2. CASE StartWatchStore(c)
      BY <1>3, <3>2 DEF StartWatchStore, SupervisedInv, NoWatcher
    <3>3. ASSUME Mark(c) PROVE Supervised'
      BY <1>1, <3>3 DEF Mark, Supervised, Active, PidInv, TypeOK, Handles
    <3>4. CASE StopMark(c) \/ StopUnblock(c)
      BY <3>3, <3>4 DEF StopMark, StopUnblock
    <3> QED BY <2>2, <2>4, <3>1, <3>2, <3>4
        DEF ClientStep, SwapOut, SwapIn, StartBegin, StartSpawn, StartHealthy, StartWatch,
            StopAbsent, StopBlock, StopTerm, StopTimeout, StopKill, StopReap, StopHook
  <2>5. ASSUME NEW r \in Procs, RecoveryStep(r) PROVE Supervised'
    BY <1>1, <2>1, <2>5, RecoverySupervises
  <2>6. ASSUME NEW m \in Procs, MonitorStep(m) PROVE Supervised'
    <3>1. UNCHANGED rec /\ handle'.pid = handle.pid /\ handle'.child = handle.child
      BY <1>1, <2>6 DEF MonitorStep, MonitorTick, MonitorOk, MonitorFail, MonitorKill, PidInv,
         TypeOK, Handles
    <3>2. Active' => Active
      BY <1>1, <3>1 DEF PidInv, HandlePid
    <3> QED BY <1>1, <2>1, <3>1, <3>2, SupervisedKept
  <2>7. ASSUME NEW w \in Procs, WatcherStep(w) PROVE FALSE
    BY <1>3, <2>7, NoWatcherSteps DEF SupervisedInv
  <2>8. ASSUME NEW p \in Procs, ProcExit(p) PROVE Supervised'
    BY <2>2, <2>8 DEF ProcExit
  <2>9. ASSUME UNCHANGED vars PROVE Supervised'
    BY <2>2, <2>9 DEF vars
  <2>10. Supervised'
    BY <2>3, <2>4, <2>5, <2>6, <2>7, <2>8, <2>9 DEF Next
  <2> QED BY <1>1, <2>1, <2>10 DEF SupervisedInv
<1> QED BY <1>2, <1>3

\* Without a watch block, for any number of clients, requests, restarts and
\* crashes: as long as the service is shown Running or Unhealthy and its
\* process lives, a recovery task waits for that very process or will.
THEOREM SupervisedHolds == Spec => [](~HasWatch => Supervised)
<1>1. Init => SupervisedInv
  <2> SUFFICES ASSUME Init PROVE SupervisedInv
    OBVIOUS
  <2>1. PidInv
    BY PidInit
  <2>2. NoWatcher
    BY DEF Init, NoWatcher, NoHandle, IdleClient
  <2>3. Supervised
    BY DEF Init, Supervised, Active, NoHandle
  <2> QED BY <2>1, <2>2, <2>3 DEF SupervisedInv
<1>2. SupervisedInv => (~HasWatch => Supervised)
  BY DEF SupervisedInv
<1> QED BY <1>1, <1>2, SupervisedStep, PTL DEF Spec

------------------------------------------------------------------------------
(************************ A service that is started once *******************)

\* stop and reload without the service, but no restart and no other start
SingleStart == ~HasWatch /\ Requests \subseteq {"stop", "remove"}

------------------------------------------------------------------------------
(***************************** TermBeforeKill ******************************)

\* Processes that are named somewhere have been spawned.
Spawned(p) == p # None => proc[p] # "none"

\* What a stop takes out of the handle is one process, or the stand-in for it.
HandleTerm == handle.child \in {None, handle.pid} /\ Spawned(handle.pid)

\* A stop that may send SIGKILL has sent SIGTERM, or has no process.
ClientTerm(c) ==
    /\ client[c].pc = "insert" => Spawned(client[c].pid)
    /\ client[c].pc \in {"term", "grace", "expired"} =>
          client[c].pid # None /\ Spawned(client[c].pid)
    /\ client[c].pc \in {"grace", "expired"} => proc[client[c].pid] # "run"
    /\ client[c].pc = "kill" => client[c].pid = None
    /\ client[c].pc \in {"term", "grace", "expired", "kill"} =>
          client[c].child \in {None, client[c].pid}

RecTerm(r) == rec[r].pc = "insert" => Spawned(rec[r].proc)

TermInv ==
    ~HasWatch => /\ HandleTerm
                 /\ \A c \in Clients : ClientTerm(c)
                 /\ \A r \in Procs : RecTerm(r)

LEMMA TermInit == Init => TermInv
<1> SUFFICES ASSUME Init
             PROVE  HandleTerm /\ (\A c \in Clients : ClientTerm(c)) /\ (\A r \in Procs : RecTerm(r))
  BY DEF TermInv
<1>1. \A c \in Clients : client[c].pc \in {"start", "idle"}
  BY DEF Init, IdleClient
<1>2. handle.pid = None /\ handle.child = None /\ \A r \in Procs : rec[r].pc = "none"
  BY DEF Init, NoHandle, NoRec
<1> QED BY <1>1, <1>2 DEF HandleTerm, ClientTerm, RecTerm, Spawned

\* Spawned processes stay spawned, and one that got a signal keeps it.
LEMMA NamesKept ==
    ASSUME PidInv, [Next]_vars, NEW p \in MaybeProc
    PROVE  /\ Spawned(p) => (p # None => proc'[p] # "none")
           /\ p # None /\ proc[p] \notin {"none", "run"} => proc'[p] # "run"
BY ProcSteps, ConstantFacts DEF Spawned, MaybeProc

\* A client that keeps its record, or is where nothing is said of it, keeps
\* what is said of it; likewise the handle and a recovery task.
LEMMA ClientTermKept ==
    ASSUME PidInv, [Next]_vars, NEW c \in Clients, ClientTerm(c),
           client'[c] = client[c] \/ client'[c].pc \notin {"insert", "term", "grace", "expired", "kill"}
    PROVE  ClientTerm(c)'
<1>0. client[c].pid \in MaybeProc
  BY DEF PidInv, TypeOK, ClientRecords
<1>1. /\ Spawned(client[c].pid) => (client[c].pid # None => proc'[client[c].pid] # "none")
      /\ client[c].pid # None /\ proc[client[c].pid] \notin {"none", "run"}
            => proc'[client[c].pid] # "run"
  BY <1>0, NamesKept
<1> QED BY <1>1 DEF ClientTerm, Spawned

LEMMA HandleTermKept ==
    ASSUME PidInv, [Next]_vars, HandleTerm, handle'.pid = handle.pid, handle'.child \in {None, handle.child}
    PROVE  HandleTerm'
<1>0. handle.pid \in MaybeProc
  BY DEF PidInv, TypeOK, Handles
<1>1. Spawned(handle.pid) => (handle.pid # None => proc'[handle.pid] # "none")
  BY <1>0, NamesKept
<1> QED BY <1>1 DEF HandleTerm, Spawned

LEMMA RecTermKept ==
    ASSUME PidInv, [Next]_vars, NEW r \in Procs, RecTerm(r),
           rec'[r] = rec[r] \/ rec'[r].pc # "insert"
    PROVE  RecTerm(r)'
<1>0. rec[r].proc \in MaybeProc
  BY DEF PidInv, TypeOK, RecRecords
<1>1. Spawned(rec[r].proc) => (rec[r].proc # None => proc'[rec[r].proc] # "none")
  BY <1>0, NamesKept
<1> QED BY <1>1 DEF RecTerm, Spawned

LEMMA TermClient ==
    ASSUME PidInv, NoWatcher, ~HasWatch, TermInv, [Next]_vars, NEW c \in Clients, ClientStep(c)
    PROVE  TermInv'
<1> USE DEF PidInv, TypeOK
<1>0. /\ client[c] \in ClientRecords /\ handle \in Handles
      /\ HandleTerm /\ ClientTerm(c)
  BY DEF TermInv
<1>1. \A d \in Clients \ {c} : client'[d] = client[d]
  BY DEF ClientStep, SwapOut, SwapIn, StartBegin, StartSpawn, StartInsert, StartHealthy,
     StartWatch, StartWatchStore, StopMark, StopUnblock, StopAbsent, StopBlock, StopTerm,
     StopTimeout, StopKill, StopReap, StopHook, Mark, Return
<1>2. \A r \in Procs : RecTerm(r)'
  <2>1. \A r \in Procs : rec'[r] = rec[r] \/ rec'[r].pc # "insert"
    BY DEF ClientStep, SwapOut, SwapIn, StartBegin, StartSpawn, StartInsert, StartHealthy,
       StartWatch, StartWatchStore, StopMark, StopUnblock, StopAbsent, StopBlock, StopTerm,
       StopTimeout, StopKill, StopReap, StopHook, Mark, NoRec
  <2> QED BY <2>1, RecTermKept DEF TermInv
<1>3. ClientTerm(c)' /\ HandleTerm'
  <2>1. CASE SwapOut(c) \/ SwapIn(c) \/ StartBegin(c) \/ StartHealthy(c)
    <3>1. UNCHANGED handle
      BY <2>1 DEF SwapOut, SwapIn, StartBegin, StartHealthy
    <3>2. client'[c].pc \notin {"insert", "term", "grace", "expired", "kill"}
      BY <1>0, <2>1 DEF SwapOut, SwapIn, StartBegin, StartHealthy, AfterHealthy, IdleClient,
         ClientRecords
    <3> QED BY <1>0, <3>1, <3>2, ClientTermKept, HandleTermKept
  <2>2. CASE StartSpawn(c)
    <3>1. UNCHANGED handle /\ HandleTerm'
      BY <1>0, <2>2, HandleTermKept DEF StartSpawn
    <3>2. CASE client'[c] = IdleClient
      <4>1. client'[c].pc = "idle"
        BY <3>2 DEF IdleClient
      <4> QED BY <1>0, <3>1, <4>1, ClientTermKept
    <3>3. ASSUME NEW p \in Procs, Spawn(p), client' = [client EXCEPT ![c].pc = "insert", ![c].pid = p]
          PROVE  ClientTerm(c)'
      <4>1. client'[c].pc = "insert" /\ client'[c].pid = p /\ proc'[p] = "run"
        BY <1>0, <3>3 DEF Spawn, ClientRecords
      <4> QED BY <4>1 DEF ClientTerm, Spawned
    <3> QED BY <2>2, <3>1, <3>2, <3>3 DEF StartSpawn
  <2>3. CASE StartInsert(c)
    <3>1. HandleTerm'
      BY <1>0, <2>3, RunningHandleFields DEF StartInsert, HandleTerm, ClientTerm, Spawned
    <3>2. client'[c].pc \notin {"insert", "term", "grace", "expired", "kill"}
      BY <1>0, <2>3 DEF StartInsert, AfterInsert, IdleClient, ClientRecords
    <3> QED BY <1>0, <3>1, <3>2, ClientTermKept
  <2>4. CASE StartWatch(c) \/ StartWatchStore(c)
    BY <2>4 DEF StartWatch, StartWatchStore, NoWatcher
  <2>5. CASE StopMark(c) \/ StopUnblock(c)
    <3>1. Mark(c)
      BY <2>5 DEF StopMark, StopUnblock
    <3>2. /\ client'[c].pc = IF handle.pid = None THEN "kill" ELSE "term"
          /\ client'[c].pid = handle.pid /\ client'[c].child = handle.child
          /\ handle'.pid = None /\ handle'.child = None /\ UNCHANGED proc
      BY <1>0, <3>1 DEF Mark, Handles, ClientRecords
    <3> QED BY <1>0, <3>2 DEF HandleTerm, ClientTerm, Spawned
  <2>6. CASE StopAbsent(c) \/ StopHook(c)
    <3>1. UNCHANGED handle /\ Return(c)
      BY <2>6 DEF StopAbsent, StopHook
    <3>2. client'[c].pc \notin {"insert", "term", "grace", "expired", "kill"}
      BY <1>0, <3>1 DEF Return, AfterStop, IdleClient, ClientRecords
    <3> QED BY <1>0, <3>1, <3>2, ClientTermKept, HandleTermKept
  <2>7. CASE StopBlock(c) \/ StopReap(c) \/ StopKill(c)
    <3>1. UNCHANGED handle
      BY <2>7 DEF StopBlock, StopReap, StopKill
    <3>2. client'[c].pc \notin {"insert", "term", "grace", "expired", "kill"}
      BY <1>0, <2>7 DEF StopBlock, StopReap, StopKill, ClientRecords
    <3> QED BY <1>0, <3>1, <3>2, ClientTermKept, HandleTermKept
  <2>8. CASE StopTimeout(c)
    <3>1. /\ UNCHANGED <<handle, proc>> /\ client[c].pc = "grace" /\ client'[c].pc = "expired"
          /\ client'[c].pid = client[c].pid /\ client'[c].child = client[c].child
      BY <1>0, <2>8 DEF StopTimeout, ClientRecords
    <3> QED BY <1>0, <3>1, HandleTermKept DEF ClientTerm, Spawned
  <2>9. CASE StopTerm(c)
    <3>1. /\ UNCHANGED handle /\ client[c].pc = "term" /\ client'[c].pc = "grace"
          /\ client'[c].pid = client[c].pid /\ client'[c].child = client[c].child
          /\ client[c].pid \in MaybeProc
          /\ proc' = Sigterm(proc, client[c].pid)
      BY <1>0, <2>9 DEF StopTerm, ClientRecords
    <3>2. client[c].pid \in Procs /\ proc[client[c].pid] # "none"
      BY <1>0, <3>1 DEF ClientTerm, Spawned, MaybeProc
    <3>3. proc'[client[c].pid] \notin {"none", "run"}
      BY <3>1, <3>2 DEF Sigterm
    <3> QED BY <1>0, <3>1, <3>2, <3>3, HandleTermKept DEF ClientTerm, Spawned
  <2> QED BY <2>1, <2>2, <2>3, <2>4, <2>5, <2>6, <2>7, <2>8, <2>9 DEF ClientStep
<1>4. \A d \in Clients : ClientTerm(d)'
  BY <1>1, <1>3, ClientTermKept DEF TermInv
<1> QED BY <1>2, <1>3, <1>4 DEF TermInv

LEMMA TermStep ==
    ASSUME PidInv, NoWatcher, ~HasWatch, TermInv, [Next]_vars
    PROVE  TermInv'
<1> USE DEF PidInv, TypeOK
<1>0. HandleTerm /\ (\A c \in Clients : ClientTerm(c)) /\ (\A r \in Procs : RecTerm(r))
  BY DEF TermInv
<1>1. ASSUME UNCHANGED <<client, rec>>, handle'.pid = handle.pid, handle'.child = handle.child
      PROVE  TermInv'
  BY <1>0, <1>1, ClientTermKept, HandleTermKept, RecTermKept DEF TermInv
<1>2. ASSUME NEW c \in Clients, Issue(c) PROVE TermInv'
  <2>1. UNCHANGED <<handle, rec>> /\ \A d \in Clients :
           client'[d] = client[d] \/ client'[d].pc \notin {"insert", "term", "grace", "expired", "kill"}
    BY <1>2 DEF Issue, IdleClient
  <2> QED BY <1>0, <2>1, ClientTermKept, HandleTermKept, RecTermKept DEF TermInv
<1>3. ASSUME NEW r \in Procs, RecoveryStep(r) PROVE TermInv'
  <2>0. rec[r] \in RecRecords /\ handle \in Handles
    OBVIOUS
  <2>1. UNCHANGED client /\ \A q \in Procs \ {r} : rec'[q] = rec[q]
    BY <1>3 DEF RecoveryStep, RecoveryInit, RecoveryTake, RecoveryCheck, RecoveryWake,
       RecoverySpawn, RecoveryInsert
  <2>2. RecTerm(r)' /\ HandleTerm'
    <3>1. CASE RecoveryInit(r) \/ RecoveryTake(r) \/ RecoveryCheck(r) \/ RecoveryWake(r)
      <4>1. handle'.pid = handle.pid /\ handle'.child \in {None, handle.child}
        BY <2>0, <3>1 DEF RecoveryInit, RecoveryTake, RecoveryCheck, RecoveryWake, Handles
      <4>2. rec'[r].pc # "insert"
        BY <2>0, <3>1 DEF RecoveryInit, RecoveryTake, RecoveryCheck, RecoveryWake, RecRecords, NoRec
      <4> QED BY <1>0, <4>1, <4>2, RecTermKept, HandleTermKept
    <3>2. CASE RecoverySpawn(r)
      <4>1. HandleTerm'
        BY <1>0, <3>2, HandleTermKept DEF RecoverySpawn
      <4>2. CASE rec'[r] = NoRec
        <5>1. rec'[r].pc = "none"
          BY <4>2 DEF NoRec
        <5> QED BY <1>0, <4>1, <5>1, RecTermKept
      <4>3. ASSUME NEW p \in Procs, Spawn(p), rec' = [rec EXCEPT ![r].pc = "insert", ![r].proc = p]
            PROVE  RecTerm(r)'
        <5>1. rec'[r].proc = p /\ proc'[p] = "run"
          BY <2>0, <4>3 DEF Spawn, RecRecords
        <5> QED BY <5>1 DEF RecTerm, Spawned
      <4> QED BY <3>2, <4>1, <4>2, <4>3 DEF RecoverySpawn
    <3>3. CASE RecoveryInsert(r)
      <4>1. HandleTerm'
        BY <1>0, <3>3, RunningHandleFields DEF RecoveryInsert, HandleTerm, RecTerm, Spawned
      <4>2. rec'[r].pc # "insert"
        BY <2>0, <3>3 DEF RecoveryInsert, RecRecords
      <4> QED BY <1>0, <4>1, <4>2, RecTermKept
    <3> QED BY <1>3, <3>1, <3>2, <3>3 DEF RecoveryStep
  <2> QED BY <1>0, <2>1, <2>2, ClientTermKept, RecTermKept DEF TermInv
<1>4. ASSUME NEW m \in Procs, MonitorStep(m) PROVE TermInv'
  BY <1>1, <1>4 DEF MonitorStep, MonitorTick, MonitorOk, MonitorFail, MonitorKill, Handles
<1>5. ASSUME NEW w \in Procs, WatcherStep(w) PROVE FALSE
  BY <1>5, NoWatcherSteps
<1>6. ASSUME NEW p \in Procs, ProcExit(p) PROVE TermInv'
  BY <1>1, <1>6 DEF ProcExit
<1>7. CASE UNCHANGED vars
  BY <1>1, <1>7 DEF vars
<1> QED BY <1>2, <1>3, <1>4, <1>5, <1>6, <1>7, TermClient DEF Next
\* TermBeforeKill follows: SIGKILL is sent by stop_service only.
LEMMA TermHolds ==
    ASSUME PidInv, NoWatcher, ~HasWatch, TermInv, Next, NEW p \in Procs, proc[p] = "run"
    PROVE  proc'[p] # "kill"
<1> USE DEF PidInv, TypeOK
<1>1. ASSUME NEW c \in Clients, ClientStep(c) PROVE proc'[p] # "kill"
  <2>1. CASE StopKill(c)
    <3>1. ClientTerm(c) /\ None \notin Procs
      BY ConstantFacts DEF TermInv
    <3>2. client[c].pid # p /\ client[c].child # p
      <4>1. CASE client[c].pc = "kill"
        BY <3>1, <4>1 DEF ClientTerm
      <4>2. CASE client[c].pc \in {"grace", "expired"}
        BY <3>1, <4>2 DEF ClientTerm
      <4> QED BY <2>1, <4>1, <4>2 DEF StopKill
    <3> QED BY <2>1, <3>2 DEF StopKill, Sigkill
  <2>2. CASE StopTerm(c)
    BY <2>2 DEF StopTerm, Sigterm
  <2>3. CASE StartSpawn(c)
    BY <2>3 DEF StartSpawn, Spawn
  <2>4. Mark(c) => UNCHANGED proc
    BY DEF Mark
  <2>5. CASE UNCHANGED proc
    BY <2>5
  <2> QED BY <1>1, <2>1, <2>2, <2>3, <2>4, <2>5
      DEF ClientStep, SwapOut, SwapIn, StartBegin, StartInsert, StartHealthy, StartWatch,
          StartWatchStore, StopMark, StopUnblock, StopAbsent, StopBlock, StopTimeout, StopReap,
          StopHook
<1>2. ASSUME NEW q \in Procs, RecoveryStep(q) \/ MonitorStep(q) PROVE proc'[p] # "kill"
  BY <1>2 DEF RecoveryStep, RecoveryInit, RecoveryTake, RecoveryCheck, RecoveryWake,
     RecoverySpawn, RecoveryInsert, Spawn, MonitorStep, MonitorTick, MonitorOk, MonitorFail,
     MonitorKill, Sigterm
<1>3. ASSUME NEW q \in Procs, WatcherStep(q) PROVE FALSE
  BY <1>3, NoWatcherSteps
<1>4. ASSUME NEW q \in Procs, ProcExit(q) PROVE proc'[p] # "kill"
  BY <1>4 DEF ProcExit
<1>5. ASSUME NEW c \in Clients, Issue(c) PROVE proc'[p] # "kill"
  BY <1>5 DEF Issue
<1> QED BY <1>1, <1>2, <1>3, <1>4, <1>5 DEF Next

\* Without a watch block, however often the service is started, restarted,
\* stopped and reloaded by any number of clients: stop_service never kills a
\* process that has not been sent SIGTERM first.
THEOREM TermBeforeKillHolds == ~HasWatch => (Spec => TermBeforeKill)
<1> SUFFICES ASSUME ~HasWatch PROVE Spec => TermBeforeKill
  OBVIOUS
<1> DEFINE Inv == PidInv /\ NoWatcher /\ TermInv
<1>1. Init => Inv
  <2>1. Init => NoWatcher
    BY DEF Init, NoWatcher, NoHandle, IdleClient
  <2> QED BY <2>1, PidInit, TermInit
<1>2. Inv /\ [Next]_vars => Inv'
  BY PidStep, NoWatcherStep, TermStep
<1>3. Inv /\ [Next]_vars => [\A p \in Procs : proc[p] = "run" => proc'[p] # "kill"]_vars
  BY TermHolds
<1> HIDE DEF Inv
<1> QED BY <1>1, <1>2, <1>3, PTL DEF Spec, TermBeforeKill

------------------------------------------------------------------------------
(************************* One line of processes ***************************)

StartingPCs == {"start", "spawn", "insert"}

\* Only `a3s up` starts the service, and it does so once.
Starter(c) ==
    /\ client[c].req \in {"none", "up", "stop", "remove"}
    /\ client[c].pc \notin {"add", "blocked"}
    /\ client[c].pc \in StartingPCs => c = Main

\* Until it has, there is nothing but the process it is about to insert.
FirstStart ==
    /\ client[Main].pc \in StartingPCs => handle = NoHandle /\ \A r \in Procs : rec[r].pc = "none"
    /\ client[Main].pc \in {"start", "spawn"} => \A p \in Procs : proc[p] = "none"
    /\ client[Main].pc = "insert" => \A p \in Procs : proc[p] # "none" => p = client[Main].pid

OneRecovery == \A r, s \in Procs : rec[r].pc # "none" /\ rec[s].pc # "none" => r = s

\* no process but q is alive
Only(q) == \A p \in Procs : Alive(p) => p = q

\* The recovery task knows the one process that can be alive.
Knows(r) ==
    /\ rec[r].pc \in {"init", "top"} /\ Active => handle.child = handle.pid /\ Only(handle.pid)
    /\ rec[r].pc = "wait" => Only(rec[r].child)
    /\ rec[r].pc \in {"backoff", "spawn"} => Only(None)
    /\ rec[r].pc = "insert" => Only(rec[r].proc)

\* Processes are spawned in the order of their numbers, and recovery inserts
\* the latest.
Numbered ==
    /\ \A p, q \in Procs : proc[q] # "none" /\ p < q => proc[p] # "none"
    /\ \A r \in Procs : rec[r].pc = "insert" => \A q \in Procs : proc[q] # "none" => q <= rec[r].proc

\* The port is in the handle, in the route and with the task that will insert.
OnePort ==
    /\ handle.port # 0 => route = handle.port
    /\ client[Main].pc \in {"spawn", "insert"} => client[Main].port = route
    /\ \A r \in Procs : rec[r].pc \notin {"none", "init"} => rec[r].port = handle.port

LineInv ==
    SingleStart =>
        /\ \A c \in Clients : Starter(c)
        /\ FirstStart /\ OneRecovery
        /\ \A r \in Procs : Knows(r)
        /\ Numbered /\ OnePort /\ OneAlive /\ NoOrphan

\* everything the steps below assume of the state they start in
Settled == PidInv /\ NoWatcher /\ TermInv /\ SingleStart /\ LineInv

LEMMA LineInit == Init => LineInv
<1> SUFFICES ASSUME Init, SingleStart PROVE LineInv
  BY DEF LineInv
<1>1. \A c \in Clients : Starter(c) /\ client[c].pc \in {"idle", "start"}
  BY DEF Init, Starter, IdleClient, StartingPCs
<1>2. /\ handle = NoHandle /\ handle.port = 0
      /\ \A p \in Procs : rec[p].pc = "none" /\ proc[p] = "none" /\ ~Alive(p)
  BY DEF Init, NoRec, NoHandle, Alive
<1>3. FirstStart /\ OneRecovery /\ OnePort /\ Numbered
  BY <1>1, <1>2, ConstantsAssumption DEF FirstStart, OneRecovery, OnePort, Numbered
<1>4. \A r \in Procs : Knows(r)
  BY <1>2 DEF Knows
<1>5. OneAlive /\ NoOrphan
  BY <1>2 DEF OneAlive, NoOrphan, Alive
<1> QED BY <1>1, <1>3, <1>4, <1>5 DEF LineInv

\* no process appears: none is spawned and none comes back to life
NoSpawn == \A p \in Procs : (proc'[p] = "none" <=> proc[p] = "none") /\ (Alive(p)' => Alive(p))

LEMMA NoSpawnStep ==
    ASSUME PidInv, [Next]_vars, \A p \in Procs : proc[p] = "none" => proc'[p] = "none"
    PROVE  NoSpawn
<1> SUFFICES ASSUME NEW p \in Procs
             PROVE  (proc'[p] = "none" <=> proc[p] = "none") /\ (Alive(p)' => Alive(p))
  BY DEF NoSpawn
<1> QED BY ProcSteps DEF Alive

\* the process is with a client that will insert or kill it
InHand(c, p) == client[c].pc \in {"insert", "term", "grace", "expired"} /\ client[c].pid = p

\* A client that does nothing to the line keeps what it has in hand, unless
\* it has killed it, and starts nothing.
QuietClient(c) ==
    \/ client'[c] = client[c]
    \/ /\ Starter(c)'
       /\ client'[c].pc \notin StartingPCs
       /\ \A p \in Procs : InHand(c, p) /\ Alive(p)' => InHand(c, p)' \/ proc'[p] = "kill"

\* A step that only reads the handle, or changes nothing in it but Running
\* and Unhealthy, spawns nothing and leaves recovery alone keeps the line.
LEMMA QuietStep ==
    ASSUME Settled, [Next]_vars, NoSpawn, UNCHANGED <<rec, route>>,
           Active' <=> Active, handle = NoHandle => handle' = NoHandle,
           handle'.pid = handle.pid, handle'.child = handle.child, handle'.port = handle.port,
           \A c \in Clients : QuietClient(c)
    PROVE  LineInv'
<1> USE DEF Settled
<1>0. /\ \A c \in Clients : Starter(c)
      /\ FirstStart /\ OneRecovery /\ Numbered /\ OnePort /\ OneAlive /\ NoOrphan
      /\ \A r \in Procs : Knows(r)
      /\ Main \in Clients
  BY ConstantsAssumption DEF LineInv
<1>1. \A c \in Clients : Starter(c)'
  BY <1>0 DEF QuietClient, Starter
<1>2. client'[Main] = client[Main] \/ client'[Main].pc \notin StartingPCs
  BY <1>0 DEF QuietClient
<1>3. FirstStart'
  BY <1>0, <1>2 DEF FirstStart, NoSpawn, StartingPCs
<1>4. OneRecovery'
  BY <1>0 DEF OneRecovery
<1>5. ASSUME NEW r \in Procs PROVE Knows(r)'
  <2>1. Knows(r)
    BY <1>0
  <2> QED BY <2>1 DEF Knows, Only, NoSpawn
<1>6. Numbered'
  BY <1>0 DEF Numbered, NoSpawn
<1>7. OnePort'
  BY <1>0, <1>2 DEF OnePort, StartingPCs
<1>8. OneAlive'
  <2> SUFFICES ASSUME NEW p \in Procs, NEW q \in Procs, Alive(p)', Alive(q)' PROVE p = q
    BY DEF OneAlive
  <2> QED BY <1>0 DEF OneAlive, NoSpawn
<1>9. NoOrphan'
  <2> SUFFICES ASSUME NEW p \in Procs, Alive(p)' PROVE Owned(p)'
    BY DEF NoOrphan
  <2>1. Owned(p)
    BY <1>0 DEF NoSpawn, NoOrphan
  <2>2. CASE handle.pid = p \/ (\E r \in Procs : rec[r].pc = "insert" /\ rec[r].proc = p)
    BY <2>2 DEF Owned
  <2>3. CASE proc[p] = "kill"
    BY <2>3, ProcSteps DEF Owned, Alive
  <2>4. ASSUME NEW c \in Clients, InHand(c, p) PROVE Owned(p)'
    <3>1. QuietClient(c)
      OBVIOUS
    <3>2. InHand(c, p)' \/ proc'[p] = "kill"
      BY <2>4, <3>1 DEF QuietClient, InHand
    <3> QED BY <3>2 DEF Owned, InHand
  <2> QED BY <2>1, <2>2, <2>3, <2>4 DEF Owned, InHand
<1> QED BY <1>1, <1>3, <1>4, <1>5, <1>6, <1>7, <1>8, <1>9 DEF LineInv

\* The facts of LineInv, for use in the steps.
LEMMA SettledFacts ==
    ASSUME Settled
    PROVE  /\ PidInv /\ NoWatcher /\ TermInv /\ ~HasWatch /\ TypeOK
           /\ \A c \in Clients : Starter(c)
           /\ FirstStart /\ OneRecovery /\ Numbered /\ OnePort /\ OneAlive /\ NoOrphan
           /\ \A r \in Procs : Knows(r)
           /\ Main \in Clients
BY ConstantsAssumption DEF Settled, LineInv, SingleStart, PidInv

\* `a3s up` assigns the port and routes to it.
LEMMA LineStartBegin ==
    ASSUME Settled, [Next]_vars, NEW c \in Clients, StartBegin(c)
    PROVE  LineInv'
<1>0. /\ client[c] \in ClientRecords /\ c = Main /\ client[c].pc = "start"
      /\ \A d \in Clients \ {c} : client'[d] = client[d]
      /\ UNCHANGED <<handle, proc, rec>>
  BY SettledFacts DEF StartBegin, Starter, StartingPCs, TypeOK
<1>1. CASE client'[c] = IdleClient /\ UNCHANGED route
  <2>1. QuietClient(c)
    BY <1>0, <1>1 DEF QuietClient, IdleClient, Starter, StartingPCs, InHand
  <2>2. NoSpawn
    BY <1>0 DEF NoSpawn, Alive
  <2>3. \A d \in Clients : QuietClient(d)
    BY <1>0, <2>1 DEF QuietClient
  <2> QED BY <1>0, <1>1, <2>2, <2>3, QuietStep DEF Active
<1>2. ASSUME NEW port \in Ports, route' = port,
             client' = [client EXCEPT ![c].pc = "spawn", ![c].port = port]
      PROVE  LineInv'
  <2>1. client'[c].pc = "spawn" /\ client'[c].port = port /\ client'[c].req = client[c].req
    BY <1>0, <1>2, SettledFacts DEF TypeOK, ClientRecords
  <2>2. \A d \in Clients : Starter(d)'
    BY <1>0, <2>1, SettledFacts DEF Starter
  <2>3. /\ handle = NoHandle /\ \A r \in Procs : rec[r].pc = "none"
        /\ \A p \in Procs : proc[p] = "none"
    BY <1>0, SettledFacts DEF FirstStart, StartingPCs
  <2>4. FirstStart' /\ OneRecovery' /\ Numbered'
    BY <1>0, <2>1, <2>3 DEF FirstStart, OneRecovery, Numbered
  <2>5. OnePort'
    BY <1>0, <1>2, <2>1, <2>3 DEF OnePort, NoHandle
  <2>6. \A r \in Procs : Knows(r)'
    BY <1>0, <2>3 DEF Knows
  <2>7. OneAlive' /\ NoOrphan'
    BY <1>0, <2>3 DEF OneAlive, NoOrphan, Alive
  <2> QED BY <2>2, <2>4, <2>5, <2>6, <2>7 DEF LineInv
<1>3. client' = [client EXCEPT ![c] = IdleClient] => client'[c] = IdleClient
  BY SettledFacts DEF TypeOK
<1> QED BY <1>1, <1>2, <1>3 DEF StartBegin

\* Spawning p when no process is alive leaves p the only one.
LEMMA SpawnAlone ==
    ASSUME Settled, NEW p \in Procs, Spawn(p), Only(None)
    PROVE  /\ proc'[p] = "run" /\ Only(p)' /\ OneAlive'
           /\ \A q \in Procs : proc'[q] # "none" <=> q = p \/ proc[q] # "none"
           /\ \A q \in Procs : proc'[q] # "none" => q <= p
           /\ \A q, s \in Procs : proc'[s] # "none" /\ q < s => proc'[q] # "none"
<1>1. /\ proc'[p] = "run" /\ proc[p] = "none" /\ \A q \in Procs \ {p} : proc'[q] = proc[q]
      /\ \A q \in Procs : q < p => proc[q] # "none"
  BY SettledFacts DEF Spawn, TypeOK, Procs
<1>2. \A q \in Procs : ~Alive(q)
  BY ConstantFacts DEF Only
<1>3. Only(p)'
  BY <1>1, <1>2 DEF Only, Alive
<1>4. \A q \in Procs : proc'[q] # "none" => q <= p
  BY <1>1, SettledFacts DEF Numbered, Procs
<1>5. \A q, s \in Procs : proc'[s] # "none" /\ q < s => proc'[q] # "none"
  BY <1>1, <1>4, SettledFacts DEF Numbered, Procs
<1> QED BY <1>1, <1>3, <1>4, <1>5 DEF Only, OneAlive

LEMMA LineStartSpawn ==
    ASSUME Settled, [Next]_vars, NEW c \in Clients, StartSpawn(c)
    PROVE  LineInv'
<1>0. /\ client[c] \in ClientRecords /\ c = Main /\ client[c].pc = "spawn"
      /\ \A d \in Clients \ {c} : client'[d] = client[d]
      /\ UNCHANGED <<handle, route, rec>>
  BY SettledFacts DEF StartSpawn, Starter, StartingPCs, TypeOK
<1>1. CASE client'[c] = IdleClient /\ UNCHANGED proc
  <2>1. QuietClient(c)
    BY <1>0, <1>1 DEF QuietClient, IdleClient, Starter, StartingPCs, InHand
  <2>2. NoSpawn
    BY <1>1 DEF NoSpawn, Alive
  <2>3. \A d \in Clients : QuietClient(d)
    BY <1>0, <2>1 DEF QuietClient
  <2> QED BY <1>0, <1>1, <2>2, <2>3, QuietStep DEF Active
<1>2. ASSUME NEW p \in Procs, Spawn(p),
             client' = [client EXCEPT ![c].pc = "insert", ![c].pid = p]
      PROVE  LineInv'
  <2>1. /\ client'[c].pc = "insert" /\ client'[c].pid = p
        /\ client'[c].req = client[c].req /\ client'[c].port = client[c].port
    BY <1>0, <1>2, SettledFacts DEF TypeOK, ClientRecords
  <2>2. \A d \in Clients : Starter(d)'
    BY <1>0, <2>1, SettledFacts DEF Starter
  <2>3. /\ handle = NoHandle /\ \A r \in Procs : rec[r].pc = "none"
        /\ \A q \in Procs : proc[q] = "none"
    BY <1>0, SettledFacts DEF FirstStart, StartingPCs
  <2>4. Only(None)
    BY <2>3 DEF Only, Alive
  <2>5. /\ Only(p)' /\ OneAlive'
        /\ \A q \in Procs : proc'[q] # "none" => q = p
        /\ \A q, s \in Procs : proc'[s] # "none" /\ q < s => proc'[q] # "none"
    BY <1>2, <2>3, <2>4, SpawnAlone
  <2>6. FirstStart' /\ OneRecovery' /\ Numbered'
    BY <1>0, <2>1, <2>3, <2>5 DEF FirstStart, OneRecovery, Numbered
  <2>7. OnePort'
    BY <1>0, <2>1, <2>3, SettledFacts DEF OnePort, NoHandle
  <2>8. \A r \in Procs : Knows(r)'
    BY <1>0, <2>3 DEF Knows
  <2>9. NoOrphan'
    BY <1>0, <2>1, <2>5 DEF NoOrphan, Owned, Only
  <2> QED BY <2>2, <2>5, <2>6, <2>7, <2>8, <2>9 DEF LineInv
<1>3. client' = [client EXCEPT ![c] = IdleClient] => client'[c] = IdleClient
  BY SettledFacts DEF TypeOK
<1> QED BY <1>1, <1>2, <1>3 DEF StartSpawn

\* The first handle, and with it the recovery task.
LEMMA LineStartInsert ==
    ASSUME Settled, [Next]_vars, NEW c \in Clients, StartInsert(c)
    PROVE  LineInv'
<1> PICK p \in Procs : p = client[c].pid
  BY SettledFacts DEF StartInsert, PidInv, Inserting
<1>0. /\ client[c] \in ClientRecords /\ c = Main /\ client[c].pc = "insert" /\ client[c].pid = p
      /\ \A d \in Clients \ {c} : client'[d] = client[d]
      /\ UNCHANGED <<route, proc>>
  BY SettledFacts DEF StartInsert, Starter, StartingPCs, TypeOK
<1>1. /\ handle'.port = client[c].port /\ handle'.pid = p /\ handle'.child = p
  BY <1>0 DEF StartInsert, RunningHandle
<1>2. /\ rec'[p].pc = "init" /\ \A r \in Procs \ {p} : rec'[r].pc = "none"
  BY <1>0, SettledFacts DEF StartInsert, TypeOK, NoRec, FirstStart, StartingPCs
<1>3. client'[c].pc \in {"idle", "healthy"} /\ client'[c].req \in {"none", "up", "stop", "remove"}
  BY <1>0, SettledFacts DEF StartInsert, AfterInsert, TypeOK, IdleClient, ClientRecords, Starter
<1>4. \A q \in Procs : proc[q] # "none" => q = p
  BY <1>0, SettledFacts DEF FirstStart
<1>5. /\ \A d \in Clients : Starter(d)'
      /\ client'[Main].pc \notin StartingPCs
  BY <1>0, <1>3, SettledFacts DEF Starter, StartingPCs
<1>6. FirstStart' /\ OneRecovery' /\ Numbered'
  BY <1>0, <1>2, <1>5, SettledFacts DEF FirstStart, OneRecovery, Numbered, StartingPCs
<1>7. OnePort'
  BY <1>0, <1>1, <1>2, <1>5, SettledFacts DEF OnePort, StartingPCs
<1>8. Only(p)'
  BY <1>0, <1>4 DEF Only, Alive
<1>9. \A r \in Procs : Knows(r)'
  BY <1>1, <1>2, <1>8 DEF Knows
<1>10. OneAlive' /\ NoOrphan'
  BY <1>1, <1>8 DEF OneAlive, NoOrphan, Owned, Only
<1> QED BY <1>5, <1>6, <1>7, <1>9, <1>10 DEF LineInv

\* A stop takes the process out of the handle and into its own hands.
LEMMA LineMark ==
    ASSUME Settled, [Next]_vars, NEW c \in Clients, StopMark(c)
    PROVE  LineInv'
<1>0. /\ client[c] \in ClientRecords /\ client[c].pc = "stop" /\ handle \in Handles
      /\ \A d \in Clients \ {c} : client'[d] = client[d]
      /\ UNCHANGED <<route, proc, rec>>
      /\ handle.state # "Absent"
  BY SettledFacts DEF StopMark, Mark, TypeOK
<1>1. /\ handle'.port = handle.port /\ ~Active'
      /\ client'[c].pc = IF handle.pid = None THEN "kill" ELSE "term"
      /\ client'[c].pid = handle.pid /\ client'[c].req = client[c].req
  BY <1>0, SettledFacts DEF StopMark, Mark, Handles, Active, TypeOK, ClientRecords
<1>2. client[Main].pc \notin StartingPCs
  BY <1>0, SettledFacts DEF FirstStart, NoHandle
<1>3. \A d \in Clients : Starter(d)'
  BY <1>0, <1>1, SettledFacts DEF Starter, StartingPCs
<1>4. client'[Main].pc \notin StartingPCs
  BY <1>0, <1>1, <1>2, SettledFacts DEF StartingPCs
<1>5. FirstStart' /\ OneRecovery' /\ Numbered' /\ OnePort'
  BY <1>0, <1>1, <1>4, SettledFacts DEF FirstStart, OneRecovery, Numbered, OnePort, StartingPCs
<1>6. ASSUME NEW r \in Procs PROVE Knows(r)'
  <2>1. Knows(r)
    BY SettledFacts
  <2> QED BY <1>0, <1>1, <2>1 DEF Knows, Only, Alive
<1>7. OneAlive'
  BY <1>0, SettledFacts DEF OneAlive, Alive
<1>8. NoOrphan'
  <2> SUFFICES ASSUME NEW q \in Procs, Alive(q)' PROVE Owned(q)'
    BY DEF NoOrphan
  <2>1. Owned(q)
    BY <1>0, SettledFacts DEF NoOrphan, Alive
  <2>2. CASE handle.pid = q
    <3>1. client'[c].pc = "term" /\ client'[c].pid = q
      BY <1>1, <2>2, ConstantFacts
    <3> QED BY <3>1 DEF Owned
  <2>3. CASE proc[q] = "kill" \/ \E r \in Procs : rec[r].pc = "insert" /\ rec[r].proc = q
    BY <1>0, <2>3 DEF Owned
  <2>4. ASSUME NEW d \in Clients, InHand(d, q) PROVE Owned(q)'
    <3>1. d # c /\ client'[d] = client[d]
      BY <1>0, <2>4 DEF InHand
    <3> QED BY <2>4, <3>1 DEF InHand, Owned
  <2> QED BY <2>1, <2>2, <2>3, <2>4 DEF Owned, InHand
<1> QED BY <1>3, <1>5, <1>6, <1>7, <1>8 DEF LineInv

\* A recovery task works alone, after the first start.
LEMMA RecoveryAlone ==
    ASSUME Settled, NEW r \in Procs, RecoveryStep(r)
    PROVE  /\ UNCHANGED client /\ client[Main].pc \notin StartingPCs
           /\ rec[r] \in RecRecords /\ handle \in Handles
           /\ \A q \in Procs \ {r} : rec[q].pc = "none" /\ rec'[q] = rec[q]
           /\ (\A c \in Clients : Starter(c)') /\ FirstStart' /\ OneRecovery'
           /\ Knows(r)' => \A q \in Procs : Knows(q)'
<1>1. UNCHANGED client /\ (\A q \in Procs \ {r} : rec'[q] = rec[q]) /\ rec[r].pc # "none"
  BY SettledFacts DEF TypeOK, RecoveryStep, RecoveryInit, RecoveryTake, RecoveryCheck,
     RecoveryWake, RecoverySpawn, RecoveryInsert
<1>2. /\ rec[r] \in RecRecords /\ handle \in Handles
      /\ \A q \in Procs \ {r} : rec[q].pc = "none"
  BY <1>1, SettledFacts DEF OneRecovery, TypeOK
<1>3. client[Main].pc \notin StartingPCs
  BY <1>1, SettledFacts DEF FirstStart
<1>4. \A c \in Clients : Starter(c)'
  BY <1>1, SettledFacts DEF Starter
<1>5. FirstStart' /\ OneRecovery'
  BY <1>1, <1>2, <1>3 DEF FirstStart, OneRecovery, StartingPCs
<1>6. \A q \in Procs \ {r} : Knows(q)'
  BY <1>1, <1>2 DEF Knows
<1> QED BY <1>1, <1>2, <1>3, <1>4, <1>5, <1>6

\* Recovery takes the child, waits and backs off: no process appears.
LEMMA LineRecoveryWaits ==
    ASSUME Settled, [Next]_vars, NEW r \in Procs,
           RecoveryInit(r) \/ RecoveryTake(r) \/ RecoveryCheck(r) \/ RecoveryWake(r)
    PROVE  LineInv'
<1>0. /\ UNCHANGED <<proc, route, client>> /\ client[Main].pc \notin StartingPCs
      /\ rec[r] \in RecRecords /\ handle \in Handles
      /\ \A q \in Procs \ {r} : rec[q].pc = "none" /\ rec'[q] = rec[q]
      /\ (\A c \in Clients : Starter(c)') /\ FirstStart' /\ OneRecovery'
      /\ Knows(r)' => \A q \in Procs : Knows(q)'
  BY RecoveryAlone DEF RecoveryStep, RecoveryInit, RecoveryTake, RecoveryCheck, RecoveryWake
<1>1. handle'.pid = handle.pid /\ handle'.port = handle.port /\ (Active' <=> Active)
  BY <1>0 DEF RecoveryInit, RecoveryTake, RecoveryCheck, RecoveryWake, Handles, Active
<1>2. /\ rec[r].pc # "insert" /\ rec'[r].pc # "insert"
      /\ rec'[r].pc \notin {"none", "init"} => rec'[r].port = handle.port
  BY <1>0, SettledFacts DEF RecoveryInit, RecoveryTake, RecoveryCheck, RecoveryWake,
     RecRecords, NoRec, TypeOK, OnePort
<1>3. Numbered' /\ OnePort'
  BY <1>0, <1>1, <1>2, SettledFacts DEF Numbered, OnePort
<1>4. OneAlive'
  BY <1>0, SettledFacts DEF OneAlive, Alive
<1>5. NoOrphan'
  <2> SUFFICES ASSUME NEW q \in Procs, Alive(q)' PROVE Owned(q)'
    BY DEF NoOrphan
  <2>1. Owned(q)
    BY <1>0, SettledFacts DEF NoOrphan, Alive
  <2>2. ~\E s \in Procs : rec[s].pc = "insert" /\ rec[s].proc = q
    BY <1>0, <1>2
  <2> QED BY <1>0, <1>1, <2>1, <2>2 DEF Owned
<1>6. Knows(r)
  BY SettledFacts
<1>7. Knows(r)'
  <2>1. CASE RecoveryInit(r)
    <3>1. UNCHANGED handle /\ rec[r].pc = "init" /\ rec'[r].pc = "top"
      BY <1>0, <2>1, SettledFacts DEF RecoveryInit, RecRecords, TypeOK
    <3> QED BY <1>0, <1>6, <3>1 DEF Knows, Only, Alive, Active
  <2>2. CASE RecoveryTake(r) /\ Active
    <3>1. /\ rec[r].pc = "top" /\ rec'[r].pc = "wait" /\ rec'[r].child = handle.child
          /\ handle.child = handle.pid /\ Only(handle.pid)
      BY <1>0, <1>6, <2>2, SettledFacts DEF RecoveryTake, RecRecords, TypeOK, Knows
    <3> QED BY <1>0, <3>1 DEF Knows, Only, Alive
  <2>3. CASE rec'[r] = NoRec
    BY <2>3 DEF NoRec, Knows
  <2>4. CASE RecoveryCheck(r) /\ rec'[r].pc = "backoff"
    <3>1. Exited(rec[r].child) /\ Only(rec[r].child) /\ rec[r].child \in MaybeProc
      BY <1>0, <1>6, <2>4 DEF RecoveryCheck, Knows, RecRecords
    <3>2. \A q \in Procs : ~Alive(q)
      BY <3>1, ConstantFacts DEF Only, Exited, Dead, Alive
    <3> QED BY <1>0, <2>4, <3>2 DEF Knows, Only, Alive
  <2>5. CASE rec[r].pc = "backoff" /\ rec'[r].pc = "spawn"
    BY <1>0, <1>6, <2>5 DEF Knows, Only, Alive
  <2>6. RecoveryTake(r) /\ ~Active => rec'[r] = NoRec
    BY SettledFacts DEF RecoveryTake, TypeOK
  <2>7. RecoveryCheck(r) => rec'[r] = NoRec \/ rec'[r].pc = "backoff"
    BY <1>0, SettledFacts DEF RecoveryCheck, TypeOK, RecRecords
  <2>8. RecoveryWake(r) => rec'[r] = NoRec \/ (rec[r].pc = "backoff" /\ rec'[r].pc = "spawn")
    BY <1>0, SettledFacts DEF RecoveryWake, TypeOK, RecRecords
  <2> QED BY <2>1, <2>2, <2>3, <2>4, <2>5, <2>6, <2>7, <2>8
<1> QED BY <1>0, <1>3, <1>4, <1>5, <1>7 DEF LineInv

\* The replacement is spawned when no process is alive ...
LEMMA LineRecoverySpawn ==
    ASSUME Settled, [Next]_vars, NEW r \in Procs, RecoverySpawn(r)
    PROVE  LineInv'
<1>0. /\ UNCHANGED <<handle, client>> /\ client[Main].pc \notin StartingPCs
      /\ rec[r] \in RecRecords /\ handle \in Handles /\ rec[r].pc = "spawn"
      /\ \A q \in Procs \ {r} : rec[q].pc = "none" /\ rec'[q] = rec[q]
      /\ (\A c \in Clients : Starter(c)') /\ FirstStart' /\ OneRecovery'
      /\ Knows(r)' => \A q \in Procs : Knows(q)'
  BY RecoveryAlone DEF RecoveryStep, RecoverySpawn
<1>1. Only(None) /\ \A q \in Procs : ~Alive(q)
  <2>1. Knows(r)
    BY SettledFacts
  <2> QED BY <1>0, <2>1, ConstantFacts DEF Knows, Only
<1>2. ASSUME rec'[r] = NoRec, UNCHANGED <<proc, route>> PROVE LineInv'
  <2>1. rec'[r].pc = "none"
    BY <1>2 DEF NoRec
  <2>2. Knows(r)' /\ OneAlive' /\ NoOrphan'
    BY <1>1, <1>2, <2>1 DEF Knows, OneAlive, NoOrphan, Alive
  <2>3. Numbered' /\ OnePort'
    BY <1>0, <1>2, <2>1, SettledFacts DEF Numbered, OnePort
  <2> QED BY <1>0, <2>2, <2>3 DEF LineInv
<1>3. ASSUME NEW p \in Procs, Spawn(p), route' = rec[r].port,
             rec' = [rec EXCEPT ![r].pc = "insert", ![r].proc = p]
      PROVE  LineInv'
  <2>1. rec'[r].pc = "insert" /\ rec'[r].proc = p /\ rec'[r].port = rec[r].port
    BY <1>0, <1>3, SettledFacts DEF TypeOK, RecRecords
  <2>2. /\ Only(p)' /\ OneAlive'
        /\ \A q \in Procs : proc'[q] # "none" => q <= p
        /\ \A q, s \in Procs : proc'[s] # "none" /\ q < s => proc'[q] # "none"
    BY <1>1, <1>3, SpawnAlone
  <2>3. Numbered' /\ Knows(r)'
    BY <1>0, <2>1, <2>2 DEF Numbered, Knows
  <2>4. OnePort'
    BY <1>0, <1>3, <2>1, SettledFacts DEF OnePort, StartingPCs
  <2>5. NoOrphan'
    BY <2>1, <2>2 DEF NoOrphan, Owned, Only
  <2> QED BY <1>0, <2>2, <2>3, <2>4, <2>5 DEF LineInv
<1>4. rec' = [rec EXCEPT ![r] = NoRec] => rec'[r] = NoRec
  BY SettledFacts DEF TypeOK
<1> QED BY <1>2, <1>3, <1>4 DEF RecoverySpawn

\* ... and inserted over a handle whose process is gone.
LEMMA LineRecoveryInsert ==
    ASSUME Settled, [Next]_vars, NEW r \in Procs, RecoveryInsert(r)
    PROVE  LineInv'
<1>0. /\ UNCHANGED <<proc, route, client>> /\ client[Main].pc \notin StartingPCs
      /\ rec[r] \in RecRecords /\ handle \in Handles /\ rec[r].pc = "insert"
      /\ \A q \in Procs \ {r} : rec[q].pc = "none" /\ rec'[q] = rec[q]
      /\ (\A c \in Clients : Starter(c)') /\ FirstStart' /\ OneRecovery'
      /\ Knows(r)' => \A q \in Procs : Knows(q)'
  BY RecoveryAlone DEF RecoveryStep, RecoveryInsert
<1> PICK p \in Procs : p = rec[r].proc
  BY <1>0, SettledFacts DEF PidInv, Inserting
<1>1. /\ rec[r].proc = p /\ rec[r].port = handle.port
      /\ handle'.pid = p /\ handle'.child = p /\ handle'.port = handle.port
      /\ rec'[r].pc = "top" /\ rec'[r].port = rec[r].port
  BY <1>0, SettledFacts DEF RecoveryInsert, RunningHandle, OnePort, TypeOK, RecRecords
<1>2. Only(p)'
  <2>1. Knows(r)
    BY SettledFacts
  <2> QED BY <1>0, <1>1, <2>1 DEF Knows, Only, Alive
<1>3. Knows(r)' /\ OneAlive' /\ NoOrphan'
  BY <1>1, <1>2 DEF Knows, OneAlive, NoOrphan, Owned, Only
<1>4. Numbered' /\ OnePort'
  BY <1>0, <1>1, SettledFacts DEF Numbered, OnePort, StartingPCs
<1> QED BY <1>0, <1>3, <1>4 DEF LineInv

\* Every other step of a client leaves the line alone: in particular a stop
\* lets go of a live process only after it has sent SIGKILL.
LEMMA LineClientQuiet ==
    ASSUME Settled, [Next]_vars, NEW c \in Clients,
           \/ Issue(c) \/ SwapOut(c) \/ StartHealthy(c) \/ StopAbsent(c)
           \/ StopTerm(c) \/ StopTimeout(c) \/ StopKill(c) \/ StopReap(c) \/ StopHook(c)
    PROVE  LineInv'
<1>0. /\ client[c] \in ClientRecords /\ Starter(c) /\ UNCHANGED <<handle, rec, route>>
      /\ \A d \in Clients \ {c} : client'[d] = client[d]
  BY SettledFacts DEF TypeOK, Issue, SwapOut, StartHealthy, StopAbsent, StopTerm, StopTimeout,
     StopKill, StopReap, StopHook, Return
<1>1. NoSpawn
  <2>1. \A p \in Procs : proc[p] = "none" => proc'[p] = "none"
    BY DEF Issue, SwapOut, StartHealthy, StopAbsent, StopTerm, StopTimeout,
       StopKill, StopReap, StopHook, Sigterm, Sigkill
  <2> QED BY <2>1, NoSpawnStep, SettledFacts
<1>2. QuietClient(c)
  <2>1. CASE Issue(c)
    <3>1. PICK q \in Requests :
             client'[c] = [IdleClient EXCEPT !.pc = IF q = "add" THEN "add" ELSE "stop", !.req = q]
      BY <1>0, <2>1, SettledFacts DEF Issue, TypeOK
    <3>2. q \in {"stop", "remove"}
      BY DEF Settled, SingleStart
    <3>3. client'[c].pc = "stop" /\ client'[c].req = q /\ client[c].pc = "idle"
      BY <2>1, <3>1, <3>2 DEF IdleClient, Issue
    <3> QED BY <3>2, <3>3 DEF QuietClient, Starter, StartingPCs, InHand
  <2>2. CASE SwapOut(c) \/ StartHealthy(c)
    <3>1. client'[c].pc = "idle" /\ client'[c].req = "none" /\ client[c].pc \in {"remove", "healthy"}
      BY <1>0, <2>2, SettledFacts DEF SwapOut, StartHealthy, AfterHealthy, IdleClient, TypeOK
    <3> QED BY <3>1 DEF QuietClient, Starter, StartingPCs, InHand
  <2>3. CASE StopAbsent(c) \/ StopHook(c)
    <3>1. Return(c) /\ client[c].pc \in {"stop", "hook"}
      BY <2>3 DEF StopAbsent, StopHook
    <3>2. client'[c].pc \in {"idle", "remove"} /\ client'[c].req \in {"none", "remove"}
      BY <1>0, <3>1, SettledFacts DEF Return, AfterStop, IdleClient, ClientRecords, Starter, TypeOK
    <3> QED BY <3>1, <3>2 DEF QuietClient, Starter, StartingPCs, InHand
  <2>4. CASE StopTerm(c) \/ StopTimeout(c) \/ StopReap(c)
    <3>1. /\ client'[c].pid = client[c].pid /\ client'[c].req = client[c].req
          /\ \/ client[c].pc \in {"term", "grace"} /\ client'[c].pc \in {"grace", "expired"}
             \/ client[c].pc = "reap" /\ client'[c].pc = "hook"
      BY <1>0, <2>4, SettledFacts DEF StopTerm, StopTimeout, StopReap, TypeOK, ClientRecords
    <3> QED BY <1>0, <3>1 DEF QuietClient, Starter, StartingPCs, InHand
  <2>5. CASE StopKill(c)
    <3>1. /\ client'[c].pc = "reap" /\ client'[c].req = client[c].req
          /\ \A p \in Procs : p = client[c].pid /\ Alive(p)' => proc'[p] = "kill"
      BY <1>0, <2>5, SettledFacts DEF StopKill, TypeOK, ClientRecords, Sigkill, Alive
    <3> QED BY <1>0, <3>1 DEF QuietClient, Starter, StartingPCs, InHand
  <2> QED BY <2>1, <2>2, <2>3, <2>4, <2>5
<1>3. \A d \in Clients : QuietClient(d)
  BY <1>0, <1>2 DEF QuietClient
<1> QED BY <1>0, <1>1, <1>3, QuietStep DEF Active

\* The steps a service that is not watched and started once never takes.
LEMMA SettledNever ==
    ASSUME Settled, NEW c \in Clients
    PROVE  ~SwapIn(c) /\ ~StartWatch(c) /\ ~StartWatchStore(c) /\ ~StopBlock(c) /\ ~StopUnblock(c)
BY SettledFacts DEF Starter, NoWatcher, SwapIn, StartWatch, StartWatchStore, StopBlock,
   StopUnblock, SendBlocks

LEMMA LineStep ==
    ASSUME Settled, [Next]_vars
    PROVE  LineInv'
<1>1. ASSUME UNCHANGED <<client, rec, route>>, NoSpawn, Active' <=> Active,
             handle = NoHandle => handle' = NoHandle,
             handle'.pid = handle.pid, handle'.child = handle.child, handle'.port = handle.port
      PROVE  LineInv'
  <2>1. \A c \in Clients : QuietClient(c)
    BY <1>1 DEF QuietClient
  <2> QED BY <1>1, <2>1, QuietStep
<1>2. ASSUME NEW m \in Procs, MonitorStep(m) PROVE LineInv'
  <2>1. NoSpawn
    <3>1. \A p \in Procs : proc[p] = "none" => proc'[p] = "none"
      BY <1>2 DEF MonitorStep, MonitorTick, MonitorOk, MonitorFail, MonitorKill, Sigterm
    <3> QED BY <3>1, NoSpawnStep, SettledFacts
  <2>2. UNCHANGED <<client, rec, route>>
    BY <1>2 DEF MonitorStep, MonitorTick, MonitorOk, MonitorFail, MonitorKill
  <2>3. /\ handle'.pid = handle.pid /\ handle'.child = handle.child /\ handle'.port = handle.port
        /\ Active' <=> Active
    BY <1>2, SettledFacts DEF MonitorStep, MonitorTick, MonitorOk, MonitorFail, MonitorKill,
       TypeOK, Handles, PidInv, HandlePid, Active
  <2>4. handle = NoHandle => handle' = NoHandle
    BY <1>2 DEF MonitorStep, MonitorTick, MonitorOk, MonitorFail, MonitorKill, NoHandle
  <2> QED BY <1>1, <2>1, <2>2, <2>3, <2>4
<1>3. ASSUME NEW p \in Procs, ProcExit(p) PROVE LineInv'
  <2>1. NoSpawn
    <3>1. \A q \in Procs : proc[q] = "none" => proc'[q] = "none"
      BY <1>3, SettledFacts DEF ProcExit, Alive, TypeOK
    <3> QED BY <3>1, NoSpawnStep, SettledFacts
  <2> QED BY <1>1, <1>3, <2>1 DEF ProcExit, Active
<1>4. ASSUME NEW w \in Procs, WatcherStep(w) PROVE FALSE
  BY <1>4, NoWatcherSteps, SettledFacts
<1>5. CASE UNCHANGED vars
  <2>1. NoSpawn
    BY <1>5 DEF vars, NoSpawn, Alive
  <2> QED BY <1>1, <1>5, <2>1 DEF vars, Active
<1>6. ASSUME NEW r \in Procs, RecoveryStep(r) PROVE LineInv'
  BY <1>6, LineRecoveryWaits, LineRecoverySpawn, LineRecoveryInsert DEF RecoveryStep
<1>7. ASSUME NEW c \in Clients, Issue(c) \/ ClientStep(c) PROVE LineInv'
  BY <1>7, SettledNever, LineClientQuiet, LineStartBegin, LineStartSpawn, LineStartInsert, LineMark
     DEF ClientStep
<1> QED BY <1>2, <1>3, <1>4, <1>5, <1>6, <1>7 DEF Next

LEMMA SettledInit == Init /\ SingleStart => Settled
<1>1. Init => NoWatcher
  BY DEF Init, NoWatcher, NoHandle, IdleClient
<1> QED BY <1>1, PidInit, TermInit, LineInit DEF Settled

LEMMA SettledStep == Settled /\ [Next]_vars => Settled'
BY PidStep, NoWatcherStep, TermStep, LineStep, SettledFacts DEF Settled, SingleStart

\* both properties follow from Settled
LEMMA LineHeld == SingleStart => (Spec => [](NoOrphan /\ OneAlive))
<1> SUFFICES ASSUME SingleStart PROVE Spec => [](NoOrphan /\ OneAlive)
  OBVIOUS
<1>1. Init => Settled
  BY SettledInit
<1>2. Settled => NoOrphan /\ OneAlive
  BY SettledFacts
<1> QED BY <1>1, <1>2, SettledStep, PTL DEF Spec

\* A service without a watch block that is started once: whatever the order of
\* crashes, recoveries, health kills, stops and removals, every live process
\* is in somebody's hands (start_service, stop_service, spawn_crash_recovery).
THEOREM NoOrphanHolds == SingleStart => (Spec => []NoOrphan)
<1> SUFFICES ASSUME SingleStart PROVE Spec => []NoOrphan
  OBVIOUS
<1>1. Spec => [](NoOrphan /\ OneAlive)
  BY LineHeld
<1> QED BY <1>1, PTL

\* ... and at most one process of the service is alive at a time.
THEOREM OneAliveHolds == SingleStart => (Spec => []OneAlive)
<1> SUFFICES ASSUME SingleStart PROVE Spec => []OneAlive
  OBVIOUS
<1>1. Spec => [](NoOrphan /\ OneAlive)
  BY LineHeld
<1> QED BY <1>1, PTL

------------------------------------------------------------------------------
(***************************** PortPreserved *******************************)

LEMMA PortStep ==
    ASSUME Settled, Next, handle.port # 0
    PROVE  handle'.port = handle.port /\ route' = handle.port
<1>0. route = handle.port /\ handle \in Handles /\ client[Main].pc \notin StartingPCs
  BY SettledFacts DEF OnePort, TypeOK, FirstStart, NoHandle
<1>1. ASSUME NEW c \in Clients, ClientStep(c) PROVE handle'.port = handle.port /\ route' = handle.port
  <2>1. ~StartBegin(c) /\ ~StartSpawn(c) /\ ~StartInsert(c)
    BY <1>0, SettledFacts DEF Starter, StartingPCs, StartBegin, StartSpawn, StartInsert
  <2>2. CASE StopMark(c)
    BY <1>0, <2>2 DEF StopMark, Mark, Handles
  <2>3. CASE UNCHANGED <<handle, route>>
    BY <1>0, <2>3
  <2> QED BY <1>1, <2>1, <2>2, <2>3, SettledNever DEF ClientStep, SwapOut, StartHealthy, StopAbsent,
         StopTerm, StopTimeout, StopKill, StopReap, StopHook
<1>2. ASSUME NEW r \in Procs, RecoveryStep(r) PROVE handle'.port = handle.port /\ route' = handle.port
  <2>1. CASE RecoverySpawn(r)
    BY <1>0, <2>1, SettledFacts DEF RecoverySpawn, OnePort
  <2>2. CASE RecoveryInsert(r)
    BY <1>0, <2>2, SettledFacts DEF RecoveryInsert, RunningHandle, OnePort
  <2> QED BY <1>0, <1>2, <2>1, <2>2 DEF RecoveryStep, RecoveryInit, RecoveryTake, RecoveryCheck,
         RecoveryWake, Handles
<1>3. ASSUME NEW m \in Procs, MonitorStep(m) PROVE handle'.port = handle.port /\ route' = handle.port
  BY <1>0, <1>3 DEF MonitorStep, MonitorTick, MonitorOk, MonitorFail, MonitorKill, Handles
<1>4. ASSUME NEW w \in Procs, WatcherStep(w) PROVE FALSE
  BY <1>4, NoWatcherSteps, SettledFacts
<1> QED BY <1>0, <1>1, <1>2, <1>3, <1>4 DEF Next, Issue, ProcExit

\* The port that start_service assigned stays in the handle and in the proxy's
\* route through every crash restart.
THEOREM PortPreservedHolds == SingleStart => (Spec => PortPreserved)
<1> SUFFICES ASSUME SingleStart PROVE Spec => PortPreserved
  OBVIOUS
<1>1. Init => Settled
  BY SettledInit
<1>2. Settled /\ [Next]_vars
        => [handle.port # 0 => handle'.port = handle.port /\ route' = handle.port]_vars
  BY PortStep
<1> QED BY <1>1, <1>2, SettledStep, PTL DEF Spec, PortPreserved

------------------------------------------------------------------------------
(****************** Supervisor implements ServiceLifecycle *****************)

\* What a step may do to the line: nothing, or end processes; launch one when
\* none is alive; empty the handle; enter the latest process in it.
LEMMA LineEffects ==
    ASSUME Settled, [Next]_vars
    PROVE  \/ NoSpawn /\ handle'.pid = handle.pid
           \/ Only(None) /\ UNCHANGED handle /\ \E p \in Procs : Spawn(p)
           \/ UNCHANGED proc /\ handle'.pid = None
           \/ /\ UNCHANGED proc /\ handle'.pid \in Procs /\ proc[handle'.pid] # "none"
              /\ \A q \in Procs : proc[q] # "none" => q <= handle'.pid
<1> DEFINE Quiet == NoSpawn /\ handle'.pid = handle.pid
<1>0. handle \in Handles
  BY SettledFacts DEF TypeOK
<1>1. ASSUME handle'.pid = handle.pid, \A p \in Procs : proc[p] = "none" => proc'[p] = "none"
      PROVE  Quiet
  BY <1>1, NoSpawnStep, SettledFacts
<1>2. ASSUME NEW c \in Clients, StartSpawn(c), ~Quiet
      PROVE  Only(None) /\ UNCHANGED handle /\ \E p \in Procs : Spawn(p)
  <2>1. \A q \in Procs : proc[q] = "none"
    BY <1>2, SettledFacts DEF StartSpawn, Starter, StartingPCs, FirstStart
  <2>2. Only(None)
    BY <2>1 DEF Only, Alive
  <2> QED BY <1>1, <1>2, <2>2 DEF StartSpawn
<1>3. ASSUME NEW r \in Procs, RecoverySpawn(r), ~Quiet
      PROVE  Only(None) /\ UNCHANGED handle /\ \E p \in Procs : Spawn(p)
  <2>1. Knows(r) /\ rec[r].pc = "spawn"
    BY <1>3, SettledFacts DEF RecoverySpawn
  <2>2. Only(None)
    BY <2>1 DEF Knows
  <2> QED BY <1>1, <1>3, <2>2 DEF RecoverySpawn
<1>4. ASSUME NEW c \in Clients, StartInsert(c)
      PROVE  /\ UNCHANGED proc /\ handle'.pid \in Procs /\ proc[handle'.pid] # "none"
             /\ \A q \in Procs : proc[q] # "none" => q <= handle'.pid
  <2>1. handle'.pid = client[c].pid /\ client[c].pid \in Procs /\ UNCHANGED proc
    BY <1>4, SettledFacts DEF StartInsert, RunningHandle, PidInv, Inserting
  <2>2. c = Main /\ client[c].pc = "insert"
    BY <1>4, SettledFacts DEF StartInsert, Starter, StartingPCs
  <2>3. proc[client[c].pid] # "none"
    BY <2>1, <2>2, SettledFacts, ConstantFacts DEF TermInv, ClientTerm, Spawned
  <2>4. \A q \in Procs : proc[q] # "none" => q <= client[c].pid
    BY <2>1, <2>2, SettledFacts DEF FirstStart, Procs
  <2> QED BY <2>1, <2>3, <2>4
<1>5. ASSUME NEW r \in Procs, RecoveryInsert(r)
      PROVE  /\ UNCHANGED proc /\ handle'.pid \in Procs /\ proc[handle'.pid] # "none"
             /\ \A q \in Procs : proc[q] # "none" => q <= handle'.pid
  <2>1. handle'.pid = rec[r].proc /\ rec[r].proc \in Procs /\ UNCHANGED proc /\ rec[r].pc = "insert"
    BY <1>5, SettledFacts DEF RecoveryInsert, RunningHandle, PidInv, Inserting
  <2>2. proc[rec[r].proc] # "none"
    BY <2>1, SettledFacts, ConstantFacts DEF TermInv, RecTerm, Spawned
  <2> QED BY <2>1, <2>2, SettledFacts DEF Numbered
<1>6. ASSUME NEW c \in Clients, StopMark(c) PROVE UNCHANGED proc /\ handle'.pid = None
  BY <1>0, <1>6 DEF StopMark, Mark, Handles
<1>7. ASSUME NEW c \in Clients,
             \/ Issue(c) \/ SwapOut(c) \/ StartBegin(c) \/ StartHealthy(c) \/ StopAbsent(c)
             \/ StopTerm(c) \/ StopTimeout(c) \/ StopKill(c) \/ StopReap(c) \/ StopHook(c)
      PROVE  Quiet
  BY <1>1, <1>7 DEF Issue, SwapOut, StartBegin, StartHealthy, StopAbsent, StopTerm, StopTimeout,
     StopKill, StopReap, StopHook, Sigterm, Sigkill
<1>8. ASSUME NEW r \in Procs,
             RecoveryInit(r) \/ RecoveryTake(r) \/ RecoveryCheck(r) \/ RecoveryWake(r) \/ MonitorStep(r)
      PROVE  Quiet
  BY <1>0, <1>1, <1>8 DEF RecoveryInit, RecoveryTake, RecoveryCheck, RecoveryWake, MonitorStep,
     MonitorTick, MonitorOk, MonitorFail, MonitorKill, Sigterm, Handles
<1>9. ASSUME NEW p \in Procs, ProcExit(p) PROVE Quiet
  BY <1>1, <1>9, SettledFacts DEF ProcExit, Alive, TypeOK
<1>10. CASE UNCHANGED vars
  BY <1>1, <1>10 DEF vars
<1>11. ASSUME NEW w \in Procs, WatcherStep(w) PROVE FALSE
  BY <1>11, NoWatcherSteps, SettledFacts
<1> QED BY <1>2, <1>3, <1>4, <1>5, <1>6, <1>7, <1>8, <1>9, <1>10, <1>11, SettledNever
    DEF Next, ClientStep, RecoveryStep

LEMMA LineSimulates ==
    ASSUME Settled, [Next]_vars
    PROVE  [Line!Next]_(Line!vars)
<1>1. CASE NoSpawn /\ handle'.pid = handle.pid
  <2>1. Launched' = Launched
    BY <1>1 DEF Launched, NoSpawn
  <2>2. Live' = Live \/ Live' = {}
    BY <1>1, SettledFacts DEF Live, NoSpawn, OneAlive
  <2> QED BY <1>1, <2>1, <2>2 DEF Line!Next, Line!Die, Line!vars
<1>2. ASSUME Only(None), UNCHANGED handle, NEW p \in Procs, Spawn(p) PROVE Line!Next
  <2>1. /\ proc'[p] = "run" /\ Only(p)'
        /\ \A q \in Procs : proc'[q] # "none" <=> q = p \/ proc[q] # "none"
        /\ \A q \in Procs : proc'[q] # "none" => q <= p
    BY <1>2, SpawnAlone
  <2>2. proc[p] = "none"
    BY <1>2 DEF Spawn
  <2>3. Live = {} /\ Live' = {p}
    <3>1. Live = {}
      BY <1>2, ConstantFacts DEF Live, Only
    <3>2. Live' = {p}
      BY <2>1 DEF Live, Only, Alive
    <3> QED BY <3>1, <3>2
  <2>4. Launched' = Launched \cup {p} /\ p \notin Launched
    BY <2>1, <2>2 DEF Launched
  <2>5. \A q \in Launched : q < p
    BY <2>1, <2>2 DEF Launched, Procs
  <2> QED BY <1>2, <2>3, <2>4, <2>5 DEF Line!Next, Line!Launch
<1>3. UNCHANGED proc => UNCHANGED <<Launched, Live>>
  BY DEF Launched, Live, Alive
<1>4. CASE UNCHANGED proc /\ handle'.pid = None
  BY <1>3, <1>4 DEF Line!Next, Line!Hide, None
<1>5. CASE /\ UNCHANGED proc /\ handle'.pid \in Procs /\ proc[handle'.pid] # "none"
           /\ \A q \in Procs : proc[q] # "none" => q <= handle'.pid
  <2>1. handle'.pid \in Launched /\ \A q \in Launched : q <= handle'.pid
    BY <1>5 DEF Launched
  <2> QED BY <1>3, <1>5, <2>1 DEF Line!Next, Line!Show
<1> QED BY <1>1, <1>2, <1>4, <1>5, LineEffects

\* A service that is started once and not watched implements ServiceLifecycle:
\* each process is launched when the one before is gone, and the handle shows
\* nothing or the latest of them.
THEOREM OneLineHolds == SingleStart => (Spec => OneLine)
<1> SUFFICES ASSUME SingleStart PROVE Spec => OneLine
  OBVIOUS
<1>1. Init => Line!Init
  BY DEF Init, Line!Init, Launched, Live, Alive, NoHandle, None
<1>2. Init => Settled
  BY SettledInit
<1>3. Settled /\ [Next]_vars => [Line!Next]_(Line!vars)
  BY LineSimulates
<1> QED BY <1>1, <1>2, <1>3, SettledStep, PTL DEF Spec, OneLine, Line!Spec

------------------------------------------------------------------------------
(*************************** WatcherCancellable ****************************)

\* A watched service that is started once, stopped at will, and not restarted
\* by recovery.
WatchedOnce == OnFailure = "stop" /\ Requests \subseteq {"stop"}

OnceStarter(c) ==
    /\ client[c].req \in {"none", "up", "stop"}
    /\ client[c].pc \notin {"add", "remove"}
    /\ client[c].pc \in StartPCs => c = Main

\* the watcher has its thread or its task
Watching(w) == wat[w].thread # "none" \/ wat[w].task # "none"

\* Until `a3s up` has created the watcher there is none, and until it has
\* stored the sender it holds it; from then on the handle does.
SenderKept ==
    /\ client[Main].pc \in StartPCs \ {"store"} => \A w \in Procs : ~Watching(w)
    /\ client[Main].pc = "store" => \A w \in Procs : Watching(w) => w = client[Main].pid
    /\ client[Main].pc # "store" => \A w \in Procs : Watching(w) => handle.watcher_stop = w

WatchInv ==
    /\ configured
    /\ \A c \in Clients : OnceStarter(c)
    /\ \A r \in Procs : rec[r].pc \in {"none", "init", "top", "wait"}
    /\ SenderKept

LEMMA WatchInit == Init => WatchInv
<1> SUFFICES ASSUME Init PROVE WatchInv
  OBVIOUS
<1>1. /\ \A c \in Clients : OnceStarter(c)
      /\ Main \in Clients /\ client[Main].pc = "start"
  BY ConstantsAssumption DEF Init, IdleClient, OnceStarter, StartPCs
<1>2. \A w \in Procs : ~Watching(w)
  BY DEF Init, NoWat, Watching
<1>3. SenderKept
  BY <1>1, <1>2 DEF SenderKept
<1> QED BY <1>1, <1>3 DEF Init, WatchInv, NoRec

LEMMA WatchClient ==
    ASSUME PidInv, WatchedOnce, WatchInv, NEW c \in Clients, Issue(c) \/ ClientStep(c)
    PROVE  WatchInv'
<1>0. /\ client[c] \in ClientRecords /\ handle \in Handles /\ wat \in [Procs -> WatRecords]
      /\ client \in [Clients -> ClientRecords] /\ rec \in [Procs -> RecRecords]
      /\ Main \in Clients /\ OnceStarter(c) /\ SenderKept
  BY ConstantsAssumption DEF PidInv, TypeOK, WatchInv
<1>1. configured'
  BY <1>0 DEF WatchInv, OnceStarter, Issue, ClientStep, SwapOut, SwapIn, StartBegin, StartSpawn,
     StartInsert, StartHealthy, StartWatch, StartWatchStore, StopMark, StopUnblock, StopAbsent,
     StopBlock, StopTerm, StopTimeout, StopKill, StopReap, StopHook, Mark
<1>2. \A r \in Procs : rec'[r].pc \in {"none", "init", "top", "wait"}
  BY <1>0 DEF WatchInv, Issue, ClientStep, SwapOut, SwapIn, StartBegin, StartSpawn,
     StartInsert, StartHealthy, StartWatch, StartWatchStore, StopMark, StopUnblock, StopAbsent,
     StopBlock, StopTerm, StopTimeout, StopKill, StopReap, StopHook, Mark, NoRec
<1>3. \A d \in Clients \ {c} : client'[d] = client[d]
  BY <1>0 DEF Issue, ClientStep, SwapOut, SwapIn, StartBegin, StartSpawn,
     StartInsert, StartHealthy, StartWatch, StartWatchStore, StopMark, StopUnblock, StopAbsent,
     StopBlock, StopTerm, StopTimeout, StopKill, StopReap, StopHook, Mark, Return
<1>4. ASSUME OnceStarter(c)', SenderKept' PROVE WatchInv'
  BY <1>1, <1>2, <1>3, <1>4 DEF WatchInv, OnceStarter
\* a client outside of start_service, before and after the step
<1>5. ASSUME client[c].pc \notin StartPCs, client'[c].pc \notin StartPCs,
             handle'.watcher_stop = handle.watcher_stop,
             \A w \in Procs : Watching(w)' => Watching(w)
      PROVE  SenderKept'
  BY <1>0, <1>3, <1>5 DEF SenderKept, StartPCs
<1>6. CASE Issue(c)
  <2>1. PICK q \in Requests :
           client'[c] = [IdleClient EXCEPT !.pc = IF q = "add" THEN "add" ELSE "stop", !.req = q]
    BY <1>0, <1>6 DEF Issue
  <2>2. client[c].pc = "idle" /\ client'[c].pc = "stop" /\ client'[c].req = "stop"
    BY <1>6, <2>1 DEF IdleClient, Issue, WatchedOnce
  <2> QED BY <1>4, <1>5, <1>6, <2>2 DEF Issue, OnceStarter, StartPCs, Watching
<1>7. CASE SwapOut(c) \/ SwapIn(c)
  BY <1>0, <1>7 DEF SwapOut, SwapIn, OnceStarter
<1>8. CASE StartBegin(c) \/ StartSpawn(c)
  <2>1. /\ c = Main /\ UNCHANGED <<handle, wat>> /\ client[c].pc \in {"start", "spawn"}
        /\ client'[c].pc \in {"idle", "spawn", "insert"} /\ client'[c].req \in {"none", client[c].req}
    BY <1>0, <1>8 DEF StartBegin, StartSpawn, IdleClient, ClientRecords, OnceStarter, StartPCs
  <2> QED BY <1>0, <1>4, <2>1 DEF OnceStarter, SenderKept, Watching, StartPCs
<1>9. CASE StartInsert(c) \/ StartHealthy(c)
  <2>1. /\ c = Main /\ UNCHANGED wat /\ client[c].pc \in {"insert", "healthy"}
        /\ client'[c].pc \in {"idle", "healthy", "watch"} /\ client'[c].req \in {"none", client[c].req}
    BY <1>0, <1>9 DEF StartInsert, StartHealthy, AfterInsert, AfterHealthy, IdleClient,
       ClientRecords, OnceStarter, StartPCs
  <2> QED BY <1>0, <1>4, <2>1 DEF OnceStarter, SenderKept, Watching, StartPCs
<1>10. CASE StartWatch(c)
  <2>1. /\ c = Main /\ client[c].pc = "watch" /\ client'[c].pc = "store"
        /\ client'[c].pid = client[c].pid /\ client'[c].req = client[c].req
        /\ \A w \in Procs : w # client[c].pid => wat'[w] = wat[w]
    BY <1>0, <1>10 DEF StartWatch, ClientRecords, OnceStarter, StartPCs
  <2> QED BY <1>0, <1>4, <2>1 DEF OnceStarter, SenderKept, Watching, StartPCs
<1>11. CASE StartWatchStore(c)
  <2>1. /\ c = Main /\ client[c].pc = "store" /\ client'[c].pc = "idle" /\ client'[c].req = "none"
        /\ handle'.watcher_stop = client[c].pid /\ UNCHANGED wat
    BY <1>0, <1>11 DEF StartWatchStore, IdleClient, Handles, OnceStarter, StartPCs
  <2> QED BY <1>0, <1>4, <2>1 DEF OnceStarter, SenderKept, Watching, StartPCs
<1>12. CASE StopMark(c) \/ StopUnblock(c)
  <2>1. Mark(c) /\ client[c].pc \in {"stop", "blocked"}
    BY <1>12 DEF StopMark, StopUnblock
  <2>2. /\ client'[c].pc \in {"kill", "term"} /\ client'[c].req = client[c].req
        /\ handle'.watcher_stop = handle.watcher_stop
    BY <1>0, <2>1 DEF Mark, ClientRecords, Handles
  <2>3. \A w \in Procs : Watching(w)' => Watching(w)
    BY <1>0, <2>1 DEF Mark, SendStop, Watching, WatRecords
  <2> QED BY <1>0, <1>4, <1>5, <2>1, <2>2, <2>3 DEF OnceStarter, StartPCs
<1>13. CASE StopAbsent(c) \/ StopHook(c)
  <2>1. /\ UNCHANGED <<handle, wat>> /\ client[c].pc \in {"stop", "hook"}
        /\ client'[c].pc = "idle" /\ client'[c].req = "none"
    BY <1>0, <1>13 DEF StopAbsent, StopHook, Return, AfterStop, IdleClient, OnceStarter
  <2> QED BY <1>4, <1>5, <2>1 DEF OnceStarter, StartPCs, Watching
<1>14. CASE StopBlock(c) \/ StopTerm(c) \/ StopTimeout(c) \/ StopKill(c) \/ StopReap(c)
  <2>1. /\ UNCHANGED <<handle, wat>> /\ client'[c].req = client[c].req
        /\ client[c].pc \in StopPCs /\ client'[c].pc \in StopPCs
    BY <1>0, <1>14 DEF StopBlock, StopTerm, StopTimeout, StopKill, StopReap, ClientRecords, StopPCs
  <2> QED BY <1>0, <1>4, <1>5, <2>1 DEF OnceStarter, StartPCs, StopPCs, Watching
<1> QED BY <1>6, <1>7, <1>8, <1>9, <1>10, <1>11, <1>12, <1>13, <1>14 DEF ClientStep

\* The watcher restarts the service with its own sender in the new handle.
LEMMA WatchWatcher ==
    ASSUME PidInv, WatchInv, NEW w \in Procs, WatcherStep(w)
    PROVE  WatchInv'
<1>0. /\ wat \in [Procs -> WatRecords] /\ handle \in Handles /\ SenderKept
      /\ wat[w] \in WatRecords
  BY DEF PidInv, TypeOK, WatchInv
<1>1. UNCHANGED <<client, rec, configured>>
  BY DEF WatcherStep, ThreadStep, TaskStep, ThreadCheck, ThreadTimeout, ThreadSend, FileChange,
     TaskRecv, TaskKill, TaskKilled, TaskConfig, TaskSpawn, TaskInsert
<1>2. Watching(w)
  BY DEF Watching, WatcherStep, ThreadStep, TaskStep, ThreadCheck, ThreadTimeout, ThreadSend,
     FileChange, TaskRecv, TaskKill, TaskKilled, TaskConfig, TaskSpawn, TaskInsert
<1>3. \A v \in Procs : Watching(v)' => Watching(v)
  <2>1. \A v \in Procs \ {w} : wat'[v] = wat[v]
    BY <1>0 DEF WatcherStep, ThreadStep, TaskStep, ThreadCheck, ThreadTimeout, ThreadSend,
       FileChange, TaskRecv, TaskKill, TaskKilled, TaskConfig, TaskSpawn, TaskInsert
  <2> QED BY <1>2, <2>1 DEF Watching
<1>4. handle'.watcher_stop \in {handle.watcher_stop, w}
  <2>1. CASE TaskInsert(w)
    BY <2>1 DEF TaskInsert, RunningHandle
  <2>2. CASE TaskKilled(w)
    BY <1>0, <2>2 DEF TaskKilled, Handles
  <2> QED BY <2>1, <2>2 DEF WatcherStep, ThreadStep, TaskStep, ThreadCheck, ThreadTimeout,
         ThreadSend, FileChange, TaskRecv, TaskKill, TaskConfig, TaskSpawn
<1>5. SenderKept'
  BY <1>0, <1>1, <1>2, <1>3, <1>4 DEF SenderKept
<1> QED BY <1>1, <1>5 DEF WatchInv, OnceStarter

LEMMA WatchStep ==
    ASSUME PidInv, WatchedOnce, WatchInv, [Next]_vars
    PROVE  WatchInv'
<1>0. handle \in Handles /\ rec \in [Procs -> RecRecords] /\ configured /\ SenderKept
  BY DEF PidInv, TypeOK, WatchInv
<1>1. ASSUME UNCHANGED <<configured, client, wat>>, handle'.watcher_stop = handle.watcher_stop,
             \A r \in Procs : rec'[r].pc \in {"none", "init", "top", "wait"}
      PROVE  WatchInv'
  BY <1>0, <1>1 DEF WatchInv, OnceStarter, SenderKept, Watching
<1>2. ASSUME NEW r \in Procs, RecoveryStep(r) PROVE WatchInv'
  <2>1. rec[r].pc \in {"none", "init", "top", "wait"} /\ rec[r] \in RecRecords
    BY <1>0 DEF WatchInv
  <2>2. RecoveryInit(r) \/ RecoveryTake(r) \/ RecoveryCheck(r)
    BY <1>2, <2>1 DEF RecoveryStep, RecoveryWake, RecoverySpawn, RecoveryInsert
  <2>3. rec'[r].pc \in {"none", "init", "top", "wait"}
    <3>1. CASE RecoveryCheck(r)
      <4>1. ~MayRestart(rec[r].tries + 1)
        BY <1>0 DEF MayRestart, WatchedOnce
      <4> QED BY <1>0, <3>1, <4>1 DEF RecoveryCheck, NoRec
    <3>2. CASE RecoveryInit(r)
      BY <1>0, <2>1, <3>2 DEF RecoveryInit, RecRecords
    <3>3. CASE RecoveryTake(r)
      <4>1. CASE Active
        BY <1>0, <2>1, <3>3, <4>1 DEF RecoveryTake, RecRecords
      <4>2. CASE ~Active
        BY <1>0, <3>3, <4>2 DEF RecoveryTake, NoRec
      <4> QED BY <4>1, <4>2
    <3> QED BY <2>2, <3>1, <3>2, <3>3
  <2>4. \A q \in Procs \ {r} : rec'[q] = rec[q]
    BY <1>0, <2>2 DEF RecoveryInit, RecoveryTake, RecoveryCheck
  <2>5. \A q \in Procs : rec'[q].pc \in {"none", "init", "top", "wait"}
    BY <2>3, <2>4 DEF WatchInv
  <2> QED BY <1>0, <1>1, <2>2, <2>5 DEF RecoveryInit, RecoveryTake, RecoveryCheck, Handles
<1>3. ASSUME NEW m \in Procs, MonitorStep(m) \/ ProcExit(m) PROVE WatchInv'
  BY <1>0, <1>1, <1>3 DEF MonitorStep, MonitorTick, MonitorOk, MonitorFail, MonitorKill, ProcExit,
     Handles, WatchInv
<1>4. CASE UNCHANGED vars
  BY <1>1, <1>4 DEF vars, WatchInv
<1> QED BY <1>2, <1>3, <1>4, WatchClient, WatchWatcher DEF Next

\* With on_failure = "stop", whatever files change and however often clients
\* stop the service: the sender of a watcher thread that runs is in the handle
\* where stop_service finds it.
THEOREM WatcherCancellableHolds == WatchedOnce => (Spec => []WatcherCancellable)
<1> SUFFICES ASSUME WatchedOnce PROVE Spec => []WatcherCancellable
  OBVIOUS
<1> DEFINE Inv == PidInv /\ WatchInv
<1>1. Init => Inv
  BY PidInit, WatchInit
<1>2. Inv /\ [Next]_vars => Inv'
  BY PidStep, WatchStep
<1>3. Inv => WatcherCancellable
  BY ConstantsAssumption DEF WatchInv, SenderKept, Watching, WatcherCancellable
<1> HIDE DEF Inv
<1> QED BY <1>1, <1>2, <1>3, PTL DEF Spec
=============================================================================
