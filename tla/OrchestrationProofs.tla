----------------------- MODULE OrchestrationProofs -----------------------
(***************************************************************************)
(* Proofs about Orchestration, for every finite set of services, every set *)
(* of valid configurations and any number of clients.                      *)
(*                                                                         *)
(* OpInv is about one operation by itself: its plan and its tasks, which   *)
(* no other operation touches.  It gives DepsFirst and DependentsStopFirst.*)
(* LoneInv relates the operation to the handles and to the configuration   *)
(* cell, as long as operations have not overlapped; with the count of the  *)
(* processes it gives ReloadExact and ShutdownComplete.                    *)
(***************************************************************************)
EXTENDS Orchestration, PlansProofs

Kinds == {"idle", "up", "stop", "restart", "reload", "shutdown"}
TaskStates == {"none", "start", "starting", "stop", "killing", "stopping"}
Ops == [kind : Kinds, old : Configs, cfg : Configs, plan : Seq(PlanSteps),
        task : [Services -> TaskStates], started : SUBSET Services, stopped : SUBSET Services]

\* the types of the variables
OrchestrationTypeOK ==
    /\ config \in Configs
    /\ handle \in [Services -> {"absent", "running", "stopped"}]
    /\ alive \in [Services -> Int]
    /\ op \in [Clients -> Ops]
    /\ daemon \in {"up", "exited", "failed"}
    /\ issued \in Nat
    /\ quiet \in BOOLEAN

------------------------------------------------------------------------------
(**************************** One operation *******************************)

Starting(o) == {n \in Services : o.task[n] \in {"start", "starting"}}
Stopping(o) == {n \in Services : o.task[n] \in {"stop", "killing", "stopping"}}

\* the tasks of a step are all starts or all stops, and what is being started
\* is neither in the rest of the plan nor waiting for one of its dependencies
TasksInv(o) ==
    /\ Starting(o) = {} \/ Stopping(o) = {}
    /\ \A n \in Starting(o) :
        /\ ~Todo(o.plan, "start", n) /\ ~Todo(o.plan, "stop", n)
        /\ \A d \in o.cfg[n].deps : d \notin Starting(o) /\ ~Todo(o.plan, "start", d)
    /\ o.plan # <<>> /\ o.plan[1].verb = "fail" => o.task = NoTasks

\* `a3s up` starts things after all their dependencies
UpInv(o) ==
    o.kind = "up" =>
        /\ DepsBefore(o.cfg, o.plan, o.started \cup Starting(o))
        /\ \A n \in Starting(o) : o.cfg[n].deps \subseteq o.started

\* stops come after those of all dependents
StopInv(o) ==
    o.kind \in {"stop", "restart", "shutdown"} /\ Acyclic(o.cfg) =>
        /\ DependentsBefore(o.cfg, o.plan, o.stopped \cup Stopping(o))
        /\ \A n \in Services : o.task[n] = "stop" => Dependents(o.cfg, n) \subseteq o.stopped

\* what the kinds of operations do not do
KindInv(o) ==
    /\ o.kind = "idle" => o.plan = <<>> /\ o.task = NoTasks
    /\ o.kind = "shutdown" => Verbs(o.plan, {"stop"}) /\ Starting(o) = {}
    /\ Has(o.plan, "swap") => o.kind = "reload" /\ Starting(o) = {}
    /\ o.kind = "reload" =>
        \A n \in Services : Todo(o.plan, "start", n) \/ n \in Starting(o) => n \in Enabled(o.cfg)

OpInv(o) == Sound(o.cfg, o.plan) /\ TasksInv(o) /\ UpInv(o) /\ StopInv(o) /\ KindInv(o)

------------------------------------------------------------------------------
(************************* An operation by itself *************************)

\* the configuration the operation works with is the one in the cell
CellInv(o, cell) ==
    /\ o.kind \notin {"idle", "reload"} => cell = o.cfg
    /\ o.kind = "reload" => cell = IF Has(o.plan, "swap") THEN o.old ELSE o.cfg

Down(o, h) == {n \in Services : h[n] # "running" \/ o.task[n] = "stop"}

\* nothing is started that runs
FreshInv(o, h) ==
    /\ \A n \in Services : o.task[n] \in {"start", "killing"} => h[n] # "running"
    /\ StoppedBefore(o.plan, Down(o, h))

\* reload stops what is gone and starts what it touches
ReloadInv(o, h) ==
    o.kind = "reload" =>
        /\ \A n \in Gone(o.old, o.cfg) :
            \/ n \in Down(o, h)
            \/ \E i, j \in DOMAIN o.plan : i < j /\ At(o.plan, i, "stop", n) /\ o.plan[j].verb = "swap"
        /\ ~Has(o.plan, "fail") =>
            \A n \in Touched(o.old, o.cfg) :
                \/ Todo(o.plan, "start", n)
                \/ o.task[n] = "start"
                \/ n \notin Down(o, h) /\ ~Todo(o.plan, "stop", n)

\* a shutdown stops everything
ShutdownInv(o, h) ==
    o.kind = "shutdown" /\ Acyclic(o.cfg) =>
        \A n \in Declared(o.cfg) : n \in Down(o, h) \/ Todo(o.plan, "stop", n)

LoneInv(o, cell, h) ==
    CellInv(o, cell) /\ FreshInv(o, h) /\ ReloadInv(o, h) /\ ShutdownInv(o, h)

\* a process for each handle that is running, and one that is being killed
Killing(n) == \E c \in Clients : op[c].task[n] = "killing"
AliveInv == \A n \in Services : alive[n] = IF handle[n] = "running" \/ Killing(n) THEN 1 ELSE 0

\* what holds as long as operations have not overlapped
QuietInv ==
    /\ \A c, d \in Clients : c # d => op[c].kind = "idle" \/ op[d].kind = "idle"
    /\ \A c \in Clients : LoneInv(op[c], config, handle)
    /\ \A n \in Services : handle[n] = "running" => n \in Declared(config)
    /\ AliveInv
    /\ daemon = "exited" /\ Acyclic(config) => \A n \in Services : alive[n] = 0

OrchestrationInv ==
    /\ OrchestrationTypeOK
    /\ \A c \in Clients : OpInv(op[c])
    /\ quiet => QuietInv

------------------------------------------------------------------------------
(********************************* Types **********************************)

LEMMA ConfigFacts ==
    ASSUME NEW cfg \in Configs
    PROVE  /\ IsFiniteSet(Services) /\ IsConfig(cfg) /\ Valid(cfg)
           /\ \A n \in Services : cfg[n].deps \subseteq Services
<1>1. cfg \in [Services -> Defs] /\ Valid(cfg) /\ IsFiniteSet(Services)
  BY OrchestrationAssumption
<1>2. ASSUME NEW n \in Services PROVE cfg[n].deps \subseteq Services
  <2>1. cfg[n] \in Defs
    BY <1>1
  <2> QED BY <2>1 DEF Defs
<1> QED BY <1>1, <1>2 DEF IsConfig

LEMMA NoTasksFacts ==
    /\ NoTasks \in [Services -> TaskStates]
    /\ \A n \in Services : NoTasks[n] = "none"
  BY DEF NoTasks, TaskStates

LEMMA IdleRecord ==
    \E g \in Configs : Idle = [kind |-> "idle", old |-> g, cfg |-> g, plan |-> <<>>,
                               task |-> NoTasks, started |-> {}, stopped |-> {}]
<1>1. (CHOOSE cfg \in Configs : TRUE) \in Configs
  BY OrchestrationAssumption
<1>2. PICK g \in Configs : g = CHOOSE cfg \in Configs : TRUE
  BY <1>1
<1> QED BY <1>2 DEF Idle

LEMMA IdleFacts ==
    /\ Idle \in Ops
    /\ Idle.kind = "idle" /\ Idle.plan = <<>> /\ Idle.task = NoTasks
    /\ Idle.cfg \in Configs /\ Idle.old \in Configs
    /\ Idle.started = {} /\ Idle.stopped = {}
<1>3. PICK g \in Configs :
        Idle = [kind |-> "idle", old |-> g, cfg |-> g, plan |-> <<>>,
                task |-> NoTasks, started |-> {}, stopped |-> {}]
  BY IdleRecord
<1>4. <<>> \in Seq(PlanSteps) /\ "idle" \in Kinds
  BY DEF Kinds
<1> QED BY <1>3, <1>4, NoTasksFacts DEF Ops

LEMMA OperationFacts ==
    ASSUME NEW kind \in Kinds, NEW old \in Configs, NEW cfg \in Configs, NEW plan \in Seq(PlanSteps)
    PROVE  LET o == Operation(kind, old, cfg, plan) IN
           /\ o \in Ops
           /\ o.kind = kind /\ o.old = old /\ o.cfg = cfg /\ o.plan = plan
           /\ o.task = NoTasks /\ o.started = {} /\ o.stopped = {}
<1> DEFINE o == Operation(kind, old, cfg, plan)
<1>1. o = [kind |-> kind, old |-> old, cfg |-> cfg, plan |-> plan,
           task |-> NoTasks, started |-> {}, stopped |-> {}]
  <2>1. PICK g \in Configs :
           Idle = [kind |-> "idle", old |-> g, cfg |-> g, plan |-> <<>>,
                   task |-> NoTasks, started |-> {}, stopped |-> {}]
    BY IdleRecord
  <2>2. o = [Idle EXCEPT !.kind = kind, !.old = old, !.cfg = cfg, !.plan = plan]
    BY DEF Operation
  <2> HIDE DEF o
  <2> QED BY <2>1, <2>2
<1> HIDE DEF o
<1>2. /\ o.kind = kind /\ o.old = old /\ o.cfg = cfg /\ o.plan = plan
      /\ o.task = NoTasks /\ o.started = {} /\ o.stopped = {}
  BY <1>1
<1>3. o \in Ops
  BY <1>1, NoTasksFacts DEF Ops
<1> QED BY <1>2, <1>3 DEF o

LEMMA OpFacts ==
    ASSUME NEW o \in Ops
    PROVE  /\ o.kind \in Kinds /\ o.old \in Configs /\ o.cfg \in Configs
           /\ o.plan \in Seq(PlanSteps) /\ o.task \in [Services -> TaskStates]
           /\ o.started \subseteq Services /\ o.stopped \subseteq Services
           /\ \A n \in Services : o.task[n] \in TaskStates
  BY DEF Ops

------------------------------------------------------------------------------
(*********************** Steps of one operation ***************************)

SameOp(o, p) == p.kind = o.kind /\ p.old = o.old /\ p.cfg = o.cfg

\* from o to p: the next step of the plan, the swap, and what is done to the
\* task of a service
TakesStep(o, p) ==
    /\ SameOp(o, p)
    /\ o.plan # <<>> /\ o.task = NoTasks
    /\ o.plan[1].verb \in {"start", "stop"}
    /\ p.plan = Tail(o.plan)
    /\ p.task = [n \in Services |-> IF n \in o.plan[1].names THEN o.plan[1].verb ELSE "none"]
    /\ p.started = o.started /\ p.stopped = o.stopped

TakesSwap(o, p) ==
    /\ SameOp(o, p)
    /\ o.plan # <<>> /\ o.task = NoTasks
    /\ o.plan[1].verb = "swap"
    /\ p.plan = Tail(o.plan)
    /\ p.task = o.task
    /\ p.started = o.started /\ p.stopped = o.stopped

TaskMoves(o, p, n, from, to) ==
    /\ SameOp(o, p)
    /\ p.plan = o.plan
    /\ o.task[n] = from
    /\ p.task[n] = to
    /\ \A m \in Services \ {n} : p.task[m] = o.task[m]
    /\ p.started = IF from = "starting" THEN o.started \cup {n} ELSE o.started
    /\ p.stopped = IF from \in {"killing", "stopping"} THEN o.stopped \cup {n} ELSE o.stopped

LEMMA TakesStepFacts ==
    ASSUME NEW o \in Ops, NEW p \in Ops, TakesStep(o, p)
    PROVE  /\ Starting(o) = {} /\ Stopping(o) = {}
           /\ \A n \in Services : o.task[n] = "none"
           /\ o.plan[1].verb = "start" => /\ Stopping(p) = {}
                                          /\ \A n \in Services : /\ n \in Starting(p) <=> At(o.plan, 1, "start", n)
                                                                 /\ p.task[n] \in {"none", "start"}
                                                                 /\ n \in Starting(p) <=> p.task[n] = "start"
                                                                 /\ ~At(o.plan, 1, "stop", n)
           /\ o.plan[1].verb = "stop" => /\ Starting(p) = {}
                                         /\ \A n \in Services : /\ n \in Stopping(p) <=> At(o.plan, 1, "stop", n)
                                                                /\ p.task[n] \in {"none", "stop"}
                                                                /\ n \in Stopping(p) <=> p.task[n] = "stop"
                                                                /\ ~At(o.plan, 1, "start", n)
<1>1. o.plan \in Seq(PlanSteps)
  BY OpFacts
<1>2. 1 \in DOMAIN o.plan
  BY <1>1, TailFacts DEF TakesStep
<1>3. \A n \in Services : o.task[n] = "none"
  BY NoTasksFacts DEF TakesStep
<1>4. \A n \in Services : p.task[n] = IF n \in o.plan[1].names THEN o.plan[1].verb ELSE "none"
  BY DEF TakesStep
<1>5. CASE o.plan[1].verb = "start"
  BY <1>2, <1>3, <1>4, <1>5 DEF Starting, Stopping, At
<1>6. CASE o.plan[1].verb = "stop"
  BY <1>2, <1>3, <1>4, <1>6 DEF Starting, Stopping, At
<1> QED BY <1>5, <1>6 DEF TakesStep

\* the next step of the plan keeps OpInv
LEMMA TakesStepInv ==
    ASSUME NEW o \in Ops, NEW p \in Ops, TakesStep(o, p), OpInv(o)
    PROVE  OpInv(p)
<1> DEFINE q == o.plan
<1>1. /\ q \in Seq(PlanSteps) /\ q # <<>>
      /\ p.kind = o.kind /\ p.old = o.old /\ p.cfg = o.cfg /\ p.plan = Tail(q)
      /\ p.started = o.started /\ p.stopped = o.stopped
      /\ q[1].verb \in {"start", "stop"}
  BY OpFacts DEF TakesStep, SameOp
<1>2. Sound(o.cfg, q) /\ Sound(p.cfg, p.plan)
  BY <1>1, SoundTail DEF OpInv
<1>3. \A n \in Services : o.cfg[n].deps \subseteq Services
  BY OpFacts, ConfigFacts
<1>4. /\ Starting(o) = {} /\ Stopping(o) = {}
      /\ q[1].verb = "start" => /\ Stopping(p) = {}
                                /\ \A n \in Services : /\ n \in Starting(p) <=> At(q, 1, "start", n)
                                                       /\ p.task[n] \in {"none", "start"}
                                                       /\ ~At(q, 1, "stop", n)
      /\ q[1].verb = "stop" => /\ Starting(p) = {}
                               /\ \A n \in Services : /\ n \in Stopping(p) <=> At(q, 1, "stop", n)
                                                      /\ n \in Stopping(p) <=> p.task[n] = "stop"
                                                      /\ ~At(q, 1, "start", n)
  BY TakesStepFacts
<1>5. Starting(p) \subseteq Services /\ Stopping(p) \subseteq Services
  BY DEF Starting, Stopping
<1>6. p.plan = <<>> \/ p.plan[1].verb # "fail"
  BY <1>1, <1>2, FirstSwap
<1>7. \A d, v : At(q, 1, v, d) => d \in Services
  BY <1>1, PlanStep DEF At
<1> HIDE DEF q
<1>8. TasksInv(p)
  <2>1. Starting(p) = {} \/ Stopping(p) = {}
    BY <1>1, <1>4
  <2>2. ASSUME NEW n \in Starting(p)
        PROVE  /\ ~Todo(p.plan, "start", n) /\ ~Todo(p.plan, "stop", n)
               /\ \A d \in p.cfg[n].deps : d \notin Starting(p) /\ ~Todo(p.plan, "start", d)
    <3>1. n \in Services /\ q[1].verb = "start" /\ At(q, 1, "start", n)
      BY <1>1, <1>4, <1>5, <2>2
    <3>2. ~Todo(p.plan, "start", n) /\ ~Todo(p.plan, "stop", n)
      BY <1>1, <1>2, <3>1, FirstStep
    <3>3. ASSUME NEW d \in p.cfg[n].deps PROVE d \notin Starting(p) /\ ~Todo(p.plan, "start", d)
      <4>1. d \in Services /\ d \in o.cfg[n].deps
        BY <1>1, <1>3, <3>1
      <4>2. ~At(q, 1, "start", d) /\ ~Todo(Tail(q), "start", d)
        BY <1>1, <1>2, <3>1, <4>1, FirstStep
      <4> QED BY <1>1, <1>4, <3>1, <4>1, <4>2
    <3> QED BY <3>2, <3>3
  <2> QED BY <1>6, <2>1, <2>2 DEF TasksInv
<1>9. UpInv(p)
  <2> SUFFICES ASSUME o.kind = "up"
               PROVE  /\ DepsBefore(p.cfg, p.plan, p.started \cup Starting(p))
                      /\ \A n \in Starting(p) : p.cfg[n].deps \subseteq p.started
    BY <1>1 DEF UpInv
  <2>1. DepsBefore(o.cfg, q, o.started)
    BY <1>4 DEF OpInv, UpInv, q
  <2>2. DepsBefore(p.cfg, p.plan, p.started \cup Starting(p))
    <3>1. \A d : At(q, 1, "start", d) => d \in Starting(p)
      BY <1>4, <1>7 DEF At
    <3> QED BY <1>1, <2>1, <3>1, DepsBeforeTail
  <2>3. ASSUME NEW n \in Starting(p) PROVE p.cfg[n].deps \subseteq p.started
    <3>1. n \in Services /\ At(q, 1, "start", n)
      BY <1>1, <1>4, <1>5, <2>3
    <3> QED BY <1>1, <1>2, <2>1, <3>1, FirstStep
  <2> QED BY <2>2, <2>3
<1>10. StopInv(p)
  <2> SUFFICES ASSUME o.kind \in {"stop", "restart", "shutdown"}, Acyclic(o.cfg)
               PROVE  /\ DependentsBefore(p.cfg, p.plan, p.stopped \cup Stopping(p))
                      /\ \A n \in Services : p.task[n] = "stop" => Dependents(p.cfg, n) \subseteq p.stopped
    BY <1>1 DEF StopInv
  <2>1. DependentsBefore(o.cfg, q, o.stopped)
    BY <1>4 DEF OpInv, StopInv, q
  <2>2. DependentsBefore(p.cfg, p.plan, p.stopped \cup Stopping(p))
    <3>1. \A d : At(q, 1, "stop", d) => d \in Stopping(p)
      BY <1>4, <1>7 DEF At
    <3> QED BY <1>1, <2>1, <3>1, DependentsBeforeTail
  <2>3. ASSUME NEW n \in Services, p.task[n] = "stop" PROVE Dependents(p.cfg, n) \subseteq p.stopped
    <3>1. At(q, 1, "stop", n)
      BY <1>1, <1>4, <2>3
    <3> QED BY <1>1, <1>2, <2>1, <3>1, FirstStep
  <2> QED BY <2>2, <2>3
<1>11. KindInv(p)
  <2>1. o.kind # "idle"
    BY <1>1 DEF OpInv, KindInv, q
  <2>2. o.kind = "shutdown" => Verbs(p.plan, {"stop"}) /\ Starting(p) = {}
    <3> SUFFICES ASSUME o.kind = "shutdown" PROVE Verbs(p.plan, {"stop"}) /\ Starting(p) = {}
      OBVIOUS
    <3>1. Verbs(q, {"stop"})
      BY DEF OpInv, KindInv, q
    <3>2. q[1].verb = "stop"
      BY <1>1, <3>1, TailFacts DEF Verbs
    <3> QED BY <1>1, <1>4, <3>1, <3>2, VerbsTail
  <2>3. Has(p.plan, "swap") => o.kind = "reload" /\ Starting(p) = {}
    <3> SUFFICES ASSUME Has(p.plan, "swap") PROVE o.kind = "reload" /\ Starting(p) = {}
      OBVIOUS
    <3>1. Has(q, "swap")
      BY <1>1, HasTail
    <3>2. q[1].verb # "start"
      BY <1>1, <1>2, <3>1, FirstSwap
    <3> QED BY <1>1, <1>4, <3>1, <3>2 DEF OpInv, KindInv, q
  <2>4. ASSUME o.kind = "reload", NEW n \in Services, Todo(p.plan, "start", n) \/ n \in Starting(p)
        PROVE  n \in Enabled(p.cfg)
    <3>1. Todo(q, "start", n)
      <4>1. n \in Starting(p) => At(q, 1, "start", n)
        BY <1>1, <1>4
      <4> QED BY <1>1, <2>4, <4>1, AtTail
    <3> QED BY <1>1, <2>4, <3>1 DEF OpInv, KindInv, q
  <2> QED BY <1>1, <2>1, <2>2, <2>3, <2>4 DEF KindInv
<1> QED BY <1>2, <1>8, <1>9, <1>10, <1>11 DEF OpInv

\* ... and so does the swap
LEMMA TakesSwapInv ==
    ASSUME NEW o \in Ops, NEW p \in Ops, TakesSwap(o, p), OpInv(o)
    PROVE  OpInv(p) /\ o.kind = "reload"
<1> DEFINE q == o.plan
<1>1. /\ q \in Seq(PlanSteps) /\ q # <<>>
      /\ p.kind = o.kind /\ p.old = o.old /\ p.cfg = o.cfg /\ p.plan = Tail(q)
      /\ p.started = o.started /\ p.stopped = o.stopped
      /\ q[1].verb = "swap" /\ o.task = NoTasks /\ p.task = NoTasks
  BY OpFacts DEF TakesSwap, SameOp
<1>2. Sound(p.cfg, p.plan)
  BY <1>1, SoundTail DEF OpInv
<1>3. Starting(o) = {} /\ Stopping(o) = {} /\ Starting(p) = {} /\ Stopping(p) = {}
  BY <1>1, NoTasksFacts DEF Starting, Stopping
<1>4. o.kind = "reload"
  <2>1. Has(q, "swap")
    BY <1>1, TailFacts DEF Has
  <2> QED BY <2>1 DEF OpInv, KindInv, q
<1> HIDE DEF q
<1>5. TasksInv(p)
  BY <1>1, <1>3 DEF TasksInv
<1>6. UpInv(p) /\ StopInv(p)
  BY <1>1, <1>4 DEF UpInv, StopInv
<1>7. ASSUME NEW n \in Services, Todo(p.plan, "start", n) PROVE n \in Enabled(p.cfg)
  <2>1. Todo(q, "start", n)
    BY <1>1, <1>7, AtTail
  <2> QED BY <1>1, <1>4, <2>1 DEF OpInv, KindInv, q
<1>8. KindInv(p)
  BY <1>1, <1>3, <1>4, <1>7 DEF KindInv
<1> QED BY <1>2, <1>4, <1>5, <1>6, <1>8 DEF OpInv

\* a task that moves on: the same services are started or stopped, or one
\* less, which is then done
TaskSteps ==
    {<<"start", "starting">>, <<"starting", "none">>, <<"stop", "killing">>, <<"stop", "stopping">>,
     <<"killing", "none">>, <<"stopping", "none">>}

LEMMA TaskMovesInv ==
    ASSUME NEW o \in Ops, NEW p \in Ops, NEW n \in Services, NEW from, NEW to,
           <<from, to>> \in TaskSteps, TaskMoves(o, p, n, from, to), OpInv(o)
    PROVE  OpInv(p)
<1>1. /\ p.kind = o.kind /\ p.old = o.old /\ p.cfg = o.cfg /\ p.plan = o.plan
      /\ o.task[n] = from /\ p.task[n] = to
      /\ \A m \in Services : m # n => p.task[m] = o.task[m]
  BY DEF TaskMoves, SameOp
<1>2. \/ from = "start" /\ to = "starting" /\ p.started = o.started /\ p.stopped = o.stopped
      \/ from = "starting" /\ to = "none" /\ p.started = o.started \cup {n} /\ p.stopped = o.stopped
      \/ from = "stop" /\ to \in {"killing", "stopping"} /\ p.started = o.started /\ p.stopped = o.stopped
      \/ from \in {"killing", "stopping"} /\ to = "none" /\ p.started = o.started /\ p.stopped = o.stopped \cup {n}
  BY DEF TaskMoves, TaskSteps
<1>3. /\ Starting(p) \subseteq Starting(o) /\ Starting(o) \subseteq Services
      /\ p.started \cup Starting(p) = o.started \cup Starting(o)
      /\ o.started \subseteq p.started
  BY <1>1, <1>2 DEF Starting
<1>4. /\ Stopping(p) \subseteq Stopping(o) /\ Stopping(o) \subseteq Services
      /\ p.stopped \cup Stopping(p) = o.stopped \cup Stopping(o)
      /\ o.stopped \subseteq p.stopped
  BY <1>1, <1>2 DEF Stopping
<1>5. o.task # NoTasks
  BY <1>1, <1>2, NoTasksFacts
<1>6. \A m \in Services : p.task[m] = "stop" => o.task[m] = "stop"
  BY <1>1, <1>2
<1>7. TasksInv(p)
  BY <1>1, <1>3, <1>4, <1>5 DEF TasksInv, OpInv
<1>8. UpInv(p)
  BY <1>1, <1>3 DEF UpInv, OpInv
<1>9. StopInv(p)
  <2> SUFFICES ASSUME o.kind \in {"stop", "restart", "shutdown"}, Acyclic(o.cfg)
               PROVE  /\ DependentsBefore(p.cfg, p.plan, p.stopped \cup Stopping(p))
                      /\ \A m \in Services : p.task[m] = "stop" => Dependents(p.cfg, m) \subseteq p.stopped
    BY <1>1 DEF StopInv
  <2>1. /\ DependentsBefore(o.cfg, o.plan, o.stopped \cup Stopping(o))
        /\ \A m \in Services : o.task[m] = "stop" => Dependents(o.cfg, m) \subseteq o.stopped
    BY DEF OpInv, StopInv
  <2> QED BY <1>1, <1>4, <1>6, <2>1
<1>10. KindInv(p)
  <2>1. o.kind # "idle"
    BY <1>5 DEF OpInv, KindInv
  <2> QED BY <1>1, <1>3, <2>1 DEF KindInv, OpInv
<1> QED BY <1>1, <1>7, <1>8, <1>9, <1>10 DEF OpInv

\* an idle client
LEMMA IdleInv == OpInv(Idle)
<1>1. DOMAIN Idle.plan = {}
  BY IdleFacts
<1>2. Starting(Idle) = {} /\ Stopping(Idle) = {}
  BY IdleFacts, NoTasksFacts DEF Starting, Stopping
<1>3. Sound(Idle.cfg, Idle.plan)
  BY <1>1 DEF Sound, StartsInOrder, StartsOnce, StopsBeforeStarts, SwapFirst, FailAlone
<1>4. TasksInv(Idle) /\ UpInv(Idle) /\ StopInv(Idle)
  BY <1>2, IdleFacts DEF TasksInv, UpInv, StopInv
<1>5. KindInv(Idle)
  BY <1>1, <1>2, IdleFacts DEF KindInv, Has
<1> QED BY <1>3, <1>4, <1>5 DEF OpInv

\* an operation that begins
LEMMA NewInv ==
    ASSUME NEW o \in Ops, o.task = NoTasks, o.started = {}, o.stopped = {}, o.kind # "idle",
           Sound(o.cfg, o.plan),
           o.kind = "up" => DepsBefore(o.cfg, o.plan, {}),
           o.kind \in {"stop", "restart", "shutdown"} /\ Acyclic(o.cfg) => DependentsBefore(o.cfg, o.plan, {}),
           o.kind = "shutdown" => Verbs(o.plan, {"stop"}),
           o.kind # "reload" => ~Has(o.plan, "swap"),
           o.kind = "reload" => \A n \in Services : Todo(o.plan, "start", n) => n \in Enabled(o.cfg)
    PROVE  OpInv(o)
<1>1. Starting(o) = {} /\ Stopping(o) = {}
  BY NoTasksFacts DEF Starting, Stopping
<1>2. \A n \in Services : o.task[n] = "none"
  BY NoTasksFacts
<1>3. TasksInv(o)
  BY <1>1 DEF TasksInv
<1>4. UpInv(o)
  BY <1>1 DEF UpInv
<1>5. StopInv(o)
  BY <1>1, <1>2 DEF StopInv
<1>6. KindInv(o)
  BY <1>1 DEF KindInv
<1> QED BY <1>3, <1>4, <1>5, <1>6 DEF OpInv

------------------------------------------------------------------------------
(******************** Steps of an operation by itself *********************)

\* the next step of the plan keeps LoneInv
LEMMA LoneStep ==
    ASSUME NEW o \in Ops, NEW p \in Ops, TakesStep(o, p), OpInv(o),
           NEW cell, NEW h, LoneInv(o, cell, h)
    PROVE  LoneInv(p, cell, h)
<1> DEFINE q == o.plan
           D == Down(o, h)
           E == Down(p, h)
<1>1. /\ q \in Seq(PlanSteps) /\ q # <<>>
      /\ p.kind = o.kind /\ p.old = o.old /\ p.cfg = o.cfg /\ p.plan = Tail(q)
      /\ q[1].verb \in {"start", "stop"}
  BY OpFacts DEF TakesStep, SameOp
<1>2. Sound(o.cfg, q)
  BY DEF OpInv
<1>3. \A n \in Services : o.task[n] = "none"
  BY TakesStepFacts
<1>4. \A n \in Services : /\ p.task[n] # "killing"
                          /\ p.task[n] = "start" <=> At(q, 1, "start", n)
                          /\ p.task[n] = "stop" <=> At(q, 1, "stop", n)
  <2>1. 1 \in DOMAIN q
    BY <1>1, TailFacts
  <2>2. \A n \in Services : p.task[n] = IF n \in q[1].names THEN q[1].verb ELSE "none"
    BY DEF TakesStep
  <2> QED BY <1>1, <2>1, <2>2 DEF At
<1>5. \A v, n : At(q, 1, v, n) => n \in Services
  BY <1>1, PlanStep DEF At
<1>6. D \subseteq E /\ D \subseteq Services /\ \A n \in Services : n \in D <=> h[n] # "running"
  BY <1>3 DEF Down
<1>7. /\ \A n \in Services : n \in E <=> h[n] # "running" \/ At(q, 1, "stop", n)
      /\ \A n : At(q, 1, "stop", n) => n \in E
  BY <1>4, <1>5 DEF Down
<1>8. Has(p.plan, "swap") <=> Has(q, "swap")
  BY <1>1, HasTail
<1>9. Has(p.plan, "fail") <=> Has(q, "fail")
  BY <1>1, HasTail
<1>10. CellInv(p, cell)
  BY <1>1, <1>8 DEF LoneInv, CellInv, q
<1>11. StoppedBefore(q, D)
  BY DEF LoneInv, FreshInv, q, D
<1>12. /\ o.kind = "reload" =>
            /\ \A n \in Gone(o.old, o.cfg) :
                 n \in D \/ \E i, j \in DOMAIN q : i < j /\ At(q, i, "stop", n) /\ q[j].verb = "swap"
            /\ ~Has(q, "fail") =>
                 \A n \in Touched(o.old, o.cfg) :
                    Todo(q, "start", n) \/ o.task[n] = "start" \/ (n \notin D /\ ~Todo(q, "stop", n))
       /\ o.kind = "shutdown" /\ Acyclic(o.cfg) =>
            \A n \in Declared(o.cfg) : n \in D \/ Todo(q, "stop", n)
  BY DEF LoneInv, ReloadInv, ShutdownInv, q, D
<1>13. Gone(o.old, o.cfg) \subseteq Services /\ Touched(o.old, o.cfg) \subseteq Services
       /\ Declared(o.cfg) \subseteq Services
  BY DEF Gone, Touched, Declared, Enabled
<1> HIDE DEF q, D, E
<1>14. FreshInv(p, h)
  <2>1. StoppedBefore(p.plan, E)
    BY <1>1, <1>6, <1>7, <1>11, StoppedBeforeTail
  <2>2. ASSUME NEW n \in Services, p.task[n] \in {"start", "killing"} PROVE h[n] # "running"
    <3>1. At(q, 1, "start", n)
      BY <1>4, <2>2
    <3>2. n \in D
      BY <1>1, <1>2, <1>11, <3>1, FirstStep
    <3> QED BY <1>6, <3>2
  <2> QED BY <2>1, <2>2 DEF FreshInv, E
<1>15. ReloadInv(p, h)
  <2> SUFFICES ASSUME o.kind = "reload"
               PROVE  /\ \A n \in Gone(o.old, o.cfg) :
                          n \in E \/ \E i, j \in DOMAIN p.plan :
                             i < j /\ At(p.plan, i, "stop", n) /\ p.plan[j].verb = "swap"
                      /\ ~Has(q, "fail") =>
                          \A n \in Touched(o.old, o.cfg) :
                             \/ Todo(p.plan, "start", n)
                             \/ p.task[n] = "start"
                             \/ n \notin E /\ ~Todo(p.plan, "stop", n)
    BY <1>1, <1>9 DEF ReloadInv, E
  <2>1. ASSUME NEW n \in Gone(o.old, o.cfg), n \notin E
        PROVE  \E i, j \in DOMAIN p.plan : i < j /\ At(p.plan, i, "stop", n) /\ p.plan[j].verb = "swap"
    <3>1. PICK i, j \in DOMAIN q : i < j /\ At(q, i, "stop", n) /\ q[j].verb = "swap"
      BY <1>6, <1>12, <2>1
    <3>2. i # 1 /\ j # 1
      BY <1>1, <1>7, <2>1, <3>1
    <3>3. /\ i \in Nat /\ j \in Nat /\ i - 1 \in DOMAIN Tail(q) /\ j - 1 \in DOMAIN Tail(q)
          /\ Tail(q)[i - 1] = q[i] /\ Tail(q)[j - 1] = q[j]
      BY <1>1, <3>2, TailFacts
    <3>4. At(Tail(q), i - 1, "stop", n) /\ Tail(q)[j - 1].verb = "swap" /\ i - 1 < j - 1
      BY <3>1, <3>3 DEF At
    <3> QED BY <1>1, <3>3, <3>4
  <2>2. ASSUME ~Has(q, "fail"), NEW n \in Touched(o.old, o.cfg)
        PROVE  Todo(p.plan, "start", n) \/ p.task[n] = "start" \/ (n \notin E /\ ~Todo(p.plan, "stop", n))
    <3>1. n \in Services /\ o.task[n] = "none"
      BY <1>3, <1>13
    <3>2. Todo(q, "start", n) \/ (n \notin D /\ ~Todo(q, "stop", n))
      BY <1>12, <2>2, <3>1
    <3>3. CASE Todo(q, "start", n)
      BY <1>1, <1>4, <3>1, <3>3, AtTail
    <3>4. CASE n \notin D /\ ~Todo(q, "stop", n)
      <4>1. ~At(q, 1, "stop", n) /\ ~Todo(Tail(q), "stop", n)
        BY <1>1, <3>4, AtTail
      <4> QED BY <1>1, <1>6, <1>7, <3>1, <3>4, <4>1
    <3> QED BY <3>2, <3>3, <3>4
  <2> QED BY <2>1, <2>2
<1>16. ShutdownInv(p, h)
  <2> SUFFICES ASSUME o.kind = "shutdown", Acyclic(o.cfg), NEW n \in Declared(o.cfg), n \notin E
               PROVE  Todo(p.plan, "stop", n)
    BY <1>1 DEF ShutdownInv, E
  <2>1. Todo(q, "stop", n)
    BY <1>6, <1>12
  <2> QED BY <1>1, <1>7, <2>1, AtTail
<1> QED BY <1>10, <1>14, <1>15, <1>16 DEF LoneInv

\* so does the swap, which leaves nothing running that the new configuration
\* does not declare
LEMMA LoneSwap ==
    ASSUME NEW o \in Ops, NEW p \in Ops, TakesSwap(o, p), OpInv(o),
           NEW cell, NEW h, LoneInv(o, cell, h),
           \A n \in Services : h[n] = "running" => n \in Declared(cell)
    PROVE  /\ LoneInv(p, o.cfg, h)
           /\ \A n \in Services : h[n] = "running" => n \in Declared(o.cfg)
<1> DEFINE q == o.plan
           D == Down(o, h)
<1>1. /\ q \in Seq(PlanSteps) /\ q # <<>>
      /\ p.kind = o.kind /\ p.old = o.old /\ p.cfg = o.cfg /\ p.plan = Tail(q)
      /\ q[1].verb = "swap" /\ o.task = NoTasks /\ p.task = NoTasks
  BY OpFacts DEF TakesSwap, SameOp
<1>2. Sound(o.cfg, q) /\ o.kind = "reload"
  BY TakesSwapInv DEF OpInv
<1>3. \A n \in Services : o.task[n] = "none" /\ p.task[n] = "none"
  BY <1>1, NoTasksFacts
<1>4. Down(p, h) = D /\ \A n \in Services : n \in D <=> h[n] # "running"
  BY <1>3 DEF Down
<1>5. Has(q, "swap") /\ ~Has(Tail(q), "swap") /\ \A j \in DOMAIN q : q[j].verb = "swap" => j = 1
  BY <1>1, <1>2, HasTail, FirstSwap
<1>6. \A n : ~At(q, 1, "stop", n) /\ ~At(q, 1, "start", n)
  BY <1>1 DEF At
<1>7. cell = o.old
  BY <1>2, <1>5 DEF LoneInv, CellInv, q
<1>8. StoppedBefore(q, D)
  BY DEF LoneInv, FreshInv, q, D
<1>9. /\ \A n \in Gone(o.old, o.cfg) :
          n \in D \/ \E i, j \in DOMAIN q : i < j /\ At(q, i, "stop", n) /\ q[j].verb = "swap"
      /\ ~Has(q, "fail") =>
          \A n \in Touched(o.old, o.cfg) :
             Todo(q, "start", n) \/ o.task[n] = "start" \/ (n \notin D /\ ~Todo(q, "stop", n))
  BY <1>2 DEF LoneInv, ReloadInv, q, D
<1>10. Touched(o.old, o.cfg) \subseteq Services
  BY DEF Touched, Enabled
<1> HIDE DEF q, D
<1>11. Gone(o.old, o.cfg) \subseteq D
  <2> SUFFICES ASSUME NEW n \in Gone(o.old, o.cfg), n \notin D PROVE FALSE
    OBVIOUS
  <2>1. PICK i, j \in DOMAIN q : i < j /\ At(q, i, "stop", n) /\ q[j].verb = "swap"
    BY <1>9
  <2>2. j = 1 /\ i \in Nat /\ 1 <= i
    BY <1>1, <1>5, <2>1, TailFacts
  <2> QED BY <2>1, <2>2
<1>12. FreshInv(p, h)
  <2>1. StoppedBefore(p.plan, D)
    BY <1>1, <1>6, <1>8, StoppedBeforeTail
  <2> QED BY <1>3, <1>4, <2>1 DEF FreshInv
<1>13. ReloadInv(p, h)
  <2>1. ASSUME ~Has(p.plan, "fail"), NEW n \in Touched(o.old, o.cfg)
        PROVE  Todo(p.plan, "start", n) \/ (n \notin D /\ ~Todo(p.plan, "stop", n))
    <3>1. ~Has(q, "fail")
      BY <1>1, <2>1, HasTail
    <3>2. Todo(q, "start", n) \/ (n \notin D /\ ~Todo(q, "stop", n))
      BY <1>3, <1>9, <1>10, <3>1
    <3> QED BY <1>1, <1>6, <3>2, AtTail
  <2> QED BY <1>1, <1>4, <1>11, <2>1 DEF ReloadInv
<1>14. CellInv(p, o.cfg)
  BY <1>1, <1>2, <1>5 DEF CellInv
<1>15. ShutdownInv(p, h)
  BY <1>1, <1>2 DEF ShutdownInv
<1>16. ASSUME NEW n \in Services, h[n] = "running" PROVE n \in Declared(o.cfg)
  <2>1. n \in Declared(o.old) /\ n \notin D
    BY <1>4, <1>7, <1>16
  <2>2. n \notin Gone(o.old, o.cfg)
    BY <1>11, <2>1
  <2> QED BY <2>1, <2>2 DEF Gone, Declared
<1> QED BY <1>12, <1>13, <1>14, <1>15, <1>16 DEF LoneInv

\* start_service puts a running handle in
LEMMA LoneStart ==
    ASSUME NEW o \in Ops, NEW p \in Ops, NEW n \in Services,
           TaskMoves(o, p, n, "start", "starting"), OpInv(o),
           NEW cell, NEW h, LoneInv(o, cell, h),
           NEW k, k[n] = "running", \A m \in Services \ {n} : k[m] = h[m]
    PROVE  LoneInv(p, cell, k)
<1> DEFINE q == o.plan
           D == Down(o, h)
           E == Down(p, k)
<1>1. /\ p.kind = o.kind /\ p.old = o.old /\ p.cfg = o.cfg /\ p.plan = q
      /\ o.task[n] = "start" /\ p.task[n] = "starting"
      /\ \A m \in Services : m # n => p.task[m] = o.task[m] /\ k[m] = h[m]
  BY DEF TaskMoves, SameOp
<1>2. n \in Starting(o)
  BY <1>1 DEF Starting
<1>3. ~Todo(q, "start", n) /\ ~Todo(q, "stop", n)
  BY <1>2 DEF OpInv, TasksInv, q
<1>4. n \notin E /\ \A m \in Services : m # n => (m \in E <=> m \in D)
  BY <1>1 DEF Down
<1>5. /\ o.kind = "reload" => n \in Enabled(o.cfg)
      /\ o.kind # "shutdown"
  BY <1>2 DEF OpInv, KindInv
<1>6. CellInv(p, cell)
  BY <1>1 DEF LoneInv, CellInv, q
<1>7. /\ \A m \in Services : o.task[m] \in {"start", "killing"} => h[m] # "running"
      /\ StoppedBefore(q, D)
  BY DEF LoneInv, FreshInv, q, D
<1>8. o.kind = "reload" =>
          /\ \A m \in Gone(o.old, o.cfg) :
               m \in D \/ \E i, j \in DOMAIN q : i < j /\ At(q, i, "stop", m) /\ q[j].verb = "swap"
          /\ ~Has(q, "fail") =>
               \A m \in Touched(o.old, o.cfg) :
                  Todo(q, "start", m) \/ o.task[m] = "start" \/ (m \notin D /\ ~Todo(q, "stop", m))
  BY DEF LoneInv, ReloadInv, q, D
<1>9. /\ Gone(o.old, o.cfg) \subseteq Services /\ Touched(o.old, o.cfg) \subseteq Services
      /\ n \in Enabled(o.cfg) => n \notin Gone(o.old, o.cfg)
  BY DEF Gone, Touched, Declared, Enabled
<1> HIDE DEF q, D, E
<1>10. FreshInv(p, k)
  <2>1. StoppedBefore(q, E)
    <3> SUFFICES ASSUME NEW j \in DOMAIN q, NEW m \in Services, At(q, j, "start", m)
                 PROVE  m \in E \/ \E i \in DOMAIN q : i < j /\ At(q, i, "stop", m)
      BY DEF StoppedBefore
    <3>1. m # n
      BY <1>3 DEF Todo
    <3>2. m \in D \/ \E i \in DOMAIN q : i < j /\ At(q, i, "stop", m)
      BY <1>7 DEF StoppedBefore
    <3> QED BY <1>4, <3>1, <3>2
  <2>2. \A m \in Services : p.task[m] \in {"start", "killing"} => k[m] # "running"
    BY <1>1, <1>7
  <2> QED BY <1>1, <2>1, <2>2 DEF FreshInv, E
<1>11. ReloadInv(p, k)
  <2> SUFFICES ASSUME o.kind = "reload"
               PROVE  /\ \A m \in Gone(o.old, o.cfg) :
                          m \in E \/ \E i, j \in DOMAIN q : i < j /\ At(q, i, "stop", m) /\ q[j].verb = "swap"
                      /\ ~Has(q, "fail") =>
                          \A m \in Touched(o.old, o.cfg) :
                             Todo(q, "start", m) \/ p.task[m] = "start" \/ (m \notin E /\ ~Todo(q, "stop", m))
    BY <1>1 DEF ReloadInv, E
  <2>1. ASSUME NEW m \in Gone(o.old, o.cfg)
        PROVE  m \in E \/ \E i, j \in DOMAIN q : i < j /\ At(q, i, "stop", m) /\ q[j].verb = "swap"
    <3>1. m \in Services /\ m # n
      BY <1>5, <1>9
    <3> QED BY <1>4, <1>8, <3>1
  <2>2. ASSUME ~Has(q, "fail"), NEW m \in Touched(o.old, o.cfg)
        PROVE  Todo(q, "start", m) \/ p.task[m] = "start" \/ (m \notin E /\ ~Todo(q, "stop", m))
    <3>1. CASE m = n
      BY <1>3, <1>4, <3>1
    <3>2. CASE m # n
      <4>1. p.task[m] = o.task[m] /\ (m \in E <=> m \in D)
        BY <1>1, <1>4, <1>9, <3>2
      <4> QED BY <1>8, <2>2, <4>1
    <3> QED BY <3>1, <3>2
  <2> QED BY <2>1, <2>2
<1>12. ShutdownInv(p, k)
  BY <1>1, <1>5 DEF ShutdownInv
<1> QED BY <1>6, <1>10, <1>11, <1>12 DEF LoneInv

\* a task that moves on and keeps the same services down
LEMMA LoneSame ==
    ASSUME NEW o \in Ops, NEW p \in Ops, SameOp(o, p), p.plan = o.plan,
           NEW cell, NEW h, LoneInv(o, cell, h), NEW k, Down(p, k) = Down(o, h),
           \A m \in Services : /\ o.task[m] = "start" <=> p.task[m] = "start"
                               /\ p.task[m] \in {"start", "killing"} => k[m] # "running"
    PROVE  LoneInv(p, cell, k)
<1>1. p.kind = o.kind /\ p.old = o.old /\ p.cfg = o.cfg
  BY DEF SameOp
<1>2. CellInv(p, cell)
  BY <1>1 DEF LoneInv, CellInv
<1>3. FreshInv(p, k)
  BY DEF LoneInv, FreshInv
<1>4. ReloadInv(p, k)
  <2> SUFFICES ASSUME o.kind = "reload"
               PROVE  ReloadInv(p, k)
    BY <1>1 DEF ReloadInv
  <2>1. /\ \A m \in Gone(o.old, o.cfg) :
            \/ m \in Down(o, h)
            \/ \E i, j \in DOMAIN o.plan : i < j /\ At(o.plan, i, "stop", m) /\ o.plan[j].verb = "swap"
        /\ ~Has(o.plan, "fail") =>
            \A m \in Touched(o.old, o.cfg) :
                \/ Todo(o.plan, "start", m)
                \/ o.task[m] = "start"
                \/ m \notin Down(o, h) /\ ~Todo(o.plan, "stop", m)
    BY DEF LoneInv, ReloadInv
  <2>2. Touched(o.old, o.cfg) \subseteq Services
    BY DEF Touched, Enabled
  <2>3. \A m \in Gone(p.old, p.cfg) :
            \/ m \in Down(p, k)
            \/ \E i, j \in DOMAIN p.plan : i < j /\ At(p.plan, i, "stop", m) /\ p.plan[j].verb = "swap"
    BY <1>1, <2>1
  <2>4. ~Has(p.plan, "fail") =>
            \A m \in Touched(p.old, p.cfg) :
                \/ Todo(p.plan, "start", m)
                \/ p.task[m] = "start"
                \/ m \notin Down(p, k) /\ ~Todo(p.plan, "stop", m)
    BY <1>1, <2>1, <2>2
  <2> QED BY <2>3, <2>4 DEF ReloadInv
<1>5. ShutdownInv(p, k)
  BY <1>1 DEF LoneInv, ShutdownInv
<1> QED BY <1>2, <1>3, <1>4, <1>5 DEF LoneInv

\* stop_service marks the handle
LEMMA LoneStop ==
    ASSUME NEW o \in Ops, NEW p \in Ops, NEW n \in Services, NEW to \in {"killing", "stopping"},
           TaskMoves(o, p, n, "stop", to),
           NEW cell, NEW h, LoneInv(o, cell, h),
           NEW k, k[n] # "running", \A m \in Services \ {n} : k[m] = h[m]
    PROVE  LoneInv(p, cell, k)
<1>1. /\ SameOp(o, p) /\ p.plan = o.plan /\ o.task[n] = "stop" /\ p.task[n] = to
      /\ \A m \in Services : m # n => p.task[m] = o.task[m] /\ k[m] = h[m]
  BY DEF TaskMoves
<1>2. Down(p, k) = Down(o, h)
  BY <1>1 DEF Down
<1>3. \A m \in Services : o.task[m] \in {"start", "killing"} => h[m] # "running"
  BY DEF LoneInv, FreshInv
<1>4. \A m \in Services : /\ o.task[m] = "start" <=> p.task[m] = "start"
                          /\ p.task[m] \in {"start", "killing"} => k[m] # "running"
  BY <1>1, <1>3
<1> QED BY <1>1, <1>2, <1>4, LoneSame

\* start_service or stop_service returns
LEMMA LoneReturns ==
    ASSUME NEW o \in Ops, NEW p \in Ops, NEW n \in Services, NEW from \in {"starting", "killing", "stopping"},
           TaskMoves(o, p, n, from, "none"),
           NEW cell, NEW h, LoneInv(o, cell, h)
    PROVE  LoneInv(p, cell, h)
<1>1. /\ SameOp(o, p) /\ p.plan = o.plan /\ o.task[n] = from /\ p.task[n] = "none"
      /\ \A m \in Services : m # n => p.task[m] = o.task[m]
  BY DEF TaskMoves
<1>2. Down(p, h) = Down(o, h)
  BY <1>1 DEF Down
<1>3. \A m \in Services : o.task[m] \in {"start", "killing"} => h[m] # "running"
  BY DEF LoneInv, FreshInv
<1>4. \A m \in Services : /\ o.task[m] = "start" <=> p.task[m] = "start"
                          /\ p.task[m] \in {"start", "killing"} => h[m] # "running"
  BY <1>1, <1>3
<1> QED BY <1>1, <1>2, <1>4, LoneSame

\* an idle client, whatever the configuration and the handles are
LEMMA LoneIdle ==
    ASSUME NEW o \in Ops, OpInv(o), o.kind = "idle", NEW cell, NEW h
    PROVE  LoneInv(o, cell, h)
<1>1. o.plan = <<>> /\ o.task = NoTasks
  BY DEF OpInv, KindInv
<1>2. DOMAIN o.plan = {} /\ \A n \in Services : o.task[n] = "none"
  BY <1>1, NoTasksFacts
<1>3. CellInv(o, cell) /\ ReloadInv(o, h) /\ ShutdownInv(o, h)
  BY DEF CellInv, ReloadInv, ShutdownInv
<1>4. FreshInv(o, h)
  BY <1>2 DEF FreshInv, StoppedBefore
<1> QED BY <1>3, <1>4 DEF LoneInv

\* an operation that begins
LEMMA LoneNew ==
    ASSUME NEW o \in Ops, o.task = NoTasks, NEW cell, NEW h, CellInv(o, cell),
           NEW S \in SUBSET Services, StoppedBefore(o.plan, S),
           \A n \in S : h[n] # "running",
           o.kind = "reload" =>
              /\ \A n \in Gone(o.old, o.cfg) :
                   \E i, j \in DOMAIN o.plan : i < j /\ At(o.plan, i, "stop", n) /\ o.plan[j].verb = "swap"
              /\ ~Has(o.plan, "fail") => \A n \in Touched(o.old, o.cfg) : Todo(o.plan, "start", n),
           o.kind = "shutdown" /\ Acyclic(o.cfg) => \A n \in Declared(o.cfg) : Todo(o.plan, "stop", n)
    PROVE  LoneInv(o, cell, h)
<1>1. \A n \in Services : o.task[n] = "none"
  BY NoTasksFacts
<1>2. S \subseteq Down(o, h)
  BY DEF Down
<1>3. FreshInv(o, h)
  BY <1>1, <1>2 DEF FreshInv, StoppedBefore
<1>4. ReloadInv(o, h)
  BY DEF ReloadInv
<1>5. ShutdownInv(o, h)
  BY DEF ShutdownInv
<1> QED BY <1>3, <1>4, <1>5 DEF LoneInv

------------------------------------------------------------------------------
(************************ Operations that begin ***************************)

\* o may begin: it keeps the invariants, the one for an operation by itself
\* if the handles that are running are declared
MayBegin(o, cell, h) ==
    /\ o \in Ops /\ o.kind # "idle" /\ o.task = NoTasks /\ OpInv(o)
    /\ (\A n \in Services : h[n] = "running" => n \in Declared(cell)) => LoneInv(o, cell, h)

LEMMA BeginUp ==
    ASSUME NEW cfg \in Configs, NEW A \in SUBSET Services,
           NEW plan \in (IF A = {} THEN StartAll(cfg) ELSE StartNamed(cfg, A)),
           NEW h, \A n \in Services : h[n] # "running"
    PROVE  MayBegin(Operation("up", cfg, cfg, plan), cfg, h)
<1>1. IsFiniteSet(Services) /\ IsConfig(cfg) /\ Valid(cfg)
  BY ConfigFacts
<1>2. /\ plan \in Seq(PlanSteps)
      /\ Verbs(plan, {"start", "fail"})
      /\ Sound(cfg, plan)
      /\ DepsBefore(cfg, plan, {})
  <2>1. CASE A = {}
    BY <1>1, <2>1, StartAllPlan
  <2>2. CASE A # {}
    BY <1>1, <2>2, StartNamedPlan
  <2> QED BY <2>1, <2>2
<1>3. PICK o : o = Operation("up", cfg, cfg, plan)
  OBVIOUS
<1>4. /\ o \in Ops
      /\ o.kind = "up" /\ o.old = cfg /\ o.cfg = cfg /\ o.plan = plan
      /\ o.task = NoTasks /\ o.started = {} /\ o.stopped = {}
  BY <1>2, <1>3, OperationFacts DEF Kinds
<1>5. ~Has(o.plan, "swap")
  BY <1>2, <1>4 DEF Has, Verbs
<1>6. OpInv(o)
  BY <1>2, <1>4, <1>5, NewInv
<1>7. CellInv(o, cfg)
  BY <1>4 DEF CellInv
<1>8. StoppedBefore(o.plan, Services)
  BY DEF StoppedBefore
<1>9. LoneInv(o, cfg, h)
  BY <1>4, <1>7, <1>8, LoneNew
<1> QED BY <1>3, <1>4, <1>6, <1>9 DEF MayBegin

LEMMA BeginStop ==
    ASSUME NEW cfg \in Configs, NEW kind \in {"stop", "shutdown"}, NEW plan,
           \/ plan \in StopAll(cfg)
           \/ kind = "stop" /\ \E A \in SUBSET Services : plan \in StopNamed(cfg, A),
           NEW h
    PROVE  MayBegin(Operation(kind, cfg, cfg, plan), cfg, h)
<1>1. IsFiniteSet(Services)
  BY ConfigFacts
<1>2. /\ plan \in Seq(PlanSteps)
      /\ Verbs(plan, {"stop"})
      /\ Acyclic(cfg) => DependentsBefore(cfg, plan, {})
      /\ kind = "shutdown" /\ Acyclic(cfg) => \A n \in Declared(cfg) : Todo(plan, "stop", n)
  <2>1. CASE plan \in StopAll(cfg)
    BY <1>1, <2>1, StopAllPlan
  <2>2. CASE kind = "stop" /\ \E A \in SUBSET Services : plan \in StopNamed(cfg, A)
    BY <1>1, <2>2, StopNamedPlan
  <2> QED BY <2>1, <2>2
<1>3. Sound(cfg, plan)
  BY <1>2, StopsSound
<1>4. PICK o : o = Operation(kind, cfg, cfg, plan)
  OBVIOUS
<1>5. /\ o \in Ops
      /\ o.kind = kind /\ o.old = cfg /\ o.cfg = cfg /\ o.plan = plan
      /\ o.task = NoTasks /\ o.started = {} /\ o.stopped = {}
  BY <1>2, <1>4, OperationFacts DEF Kinds
<1>6. ~Has(o.plan, "swap") /\ StoppedBefore(o.plan, {})
  BY <1>2, <1>5 DEF Has, Verbs, StoppedBefore, At
<1>7. OpInv(o)
  BY <1>2, <1>3, <1>5, <1>6, NewInv
<1>8. CellInv(o, cfg)
  BY <1>5 DEF CellInv
<1>9. LoneInv(o, cfg, h)
  BY <1>2, <1>5, <1>6, <1>8, LoneNew
<1> QED BY <1>4, <1>5, <1>7, <1>9 DEF MayBegin

LEMMA BeginRestart ==
    ASSUME NEW cfg \in Configs, NEW n \in Services, NEW plan \in Restart(cfg, n), NEW h
    PROVE  MayBegin(Operation("restart", cfg, cfg, plan), cfg, h)
<1>1. IsFiniteSet(Services)
  BY ConfigFacts
<1>2. /\ plan \in Seq(PlanSteps)
      /\ Verbs(plan, {"stop", "start", "fail"})
      /\ Sound(cfg, plan)
      /\ Acyclic(cfg) => DependentsBefore(cfg, plan, {})
      /\ StoppedBefore(plan, {})
  BY <1>1, RestartPlan
<1>3. PICK o : o = Operation("restart", cfg, cfg, plan)
  OBVIOUS
<1>4. /\ o \in Ops
      /\ o.kind = "restart" /\ o.old = cfg /\ o.cfg = cfg /\ o.plan = plan
      /\ o.task = NoTasks /\ o.started = {} /\ o.stopped = {}
  BY <1>2, <1>3, OperationFacts DEF Kinds
<1>5. ~Has(o.plan, "swap")
  BY <1>2, <1>4 DEF Has, Verbs
<1>6. OpInv(o)
  BY <1>2, <1>4, <1>5, NewInv
<1>7. CellInv(o, cfg)
  BY <1>4 DEF CellInv
<1>8. LoneInv(o, cfg, h)
  BY <1>2, <1>4, <1>7, LoneNew
<1> QED BY <1>3, <1>4, <1>6, <1>8 DEF MayBegin

LEMMA BeginReload ==
    ASSUME NEW old \in Configs, NEW new \in Configs, NEW plan \in Reload(old, new), NEW h
    PROVE  MayBegin(Operation("reload", old, new, plan), old, h)
<1>1. IsFiniteSet(Services)
  BY ConfigFacts
<1>2. /\ plan \in Seq(PlanSteps)
      /\ Sound(new, plan)
      /\ StoppedBefore(plan, Services \ Declared(old))
      /\ Has(plan, "swap")
      /\ \A n \in Gone(old, new) :
           \E i, j \in DOMAIN plan : i < j /\ At(plan, i, "stop", n) /\ plan[j].verb = "swap"
      /\ \A n \in Services : Todo(plan, "start", n) => n \in Enabled(new)
      /\ ~Has(plan, "fail") => \A n \in Touched(old, new) : Todo(plan, "start", n)
  BY <1>1, ReloadPlan
<1>3. PICK o : o = Operation("reload", old, new, plan)
  OBVIOUS
<1>4. /\ o \in Ops
      /\ o.kind = "reload" /\ o.old = old /\ o.cfg = new /\ o.plan = plan
      /\ o.task = NoTasks /\ o.started = {} /\ o.stopped = {}
  BY <1>2, <1>3, OperationFacts DEF Kinds
<1>5. OpInv(o)
  BY <1>2, <1>4, NewInv
<1>6. CellInv(o, old)
  BY <1>2, <1>4 DEF CellInv
<1>7. ASSUME \A n \in Services : h[n] = "running" => n \in Declared(old)
      PROVE  LoneInv(o, old, h)
  <2>1. \A n \in Services \ Declared(old) : h[n] # "running"
    BY <1>7
  <2> QED BY <1>2, <1>4, <1>6, <2>1, LoneNew
<1> QED BY <1>3, <1>4, <1>5, <1>7 DEF MayBegin

------------------------------------------------------------------------------
(***************************** The actions ********************************)

\* what the invariant says of an operation that is not overlapped
LEMMA QuietFacts ==
    ASSUME OrchestrationInv, quiet, NEW c \in Clients
    PROVE  /\ op[c].kind # "idle" => \A d \in Clients \ {c} : op[d].kind = "idle"
           /\ LoneInv(op[c], config, handle)
           /\ \A n \in Services : handle[n] = "running" => n \in Declared(config)
           /\ (\A d \in Clients \ {c} : op[d].kind = "idle") =>
                \A n \in Services :
                    alive[n] = IF handle[n] = "running" \/ op[c].task[n] = "killing" THEN 1 ELSE 0
<1>1. QuietInv
  BY DEF OrchestrationInv
<1>2. op[c].kind # "idle" => \A d \in Clients \ {c} : op[d].kind = "idle"
  BY <1>1 DEF QuietInv
<1>3. LoneInv(op[c], config, handle) /\ \A n \in Services : handle[n] = "running" => n \in Declared(config)
  BY <1>1 DEF QuietInv
<1>4. ASSUME \A d \in Clients \ {c} : op[d].kind = "idle", NEW n \in Services
      PROVE  alive[n] = IF handle[n] = "running" \/ op[c].task[n] = "killing" THEN 1 ELSE 0
  <2>1. \A d \in Clients \ {c} : op[d].task = NoTasks
    BY <1>4 DEF OrchestrationInv, OpInv, KindInv
  <2>2. \A d \in Clients \ {c} : op[d].task[n] # "killing"
    BY <2>1, NoTasksFacts
  <2>3. Killing(n) <=> op[c].task[n] = "killing"
    BY <2>2 DEF Killing
  <2> QED BY <1>1, <2>3 DEF QuietInv, AliveInv
<1> QED BY <1>2, <1>3, <1>4

\* an action on the operation of c keeps the invariant if it keeps what
\* concerns c
LEMMA InvStep ==
    ASSUME OrchestrationInv, NEW c \in Clients,
           config' \in Configs,
           handle' \in [Services -> {"absent", "running", "stopped"}],
           alive' \in [Services -> Int],
           op' \in [Clients -> Ops],
           \A d \in Clients \ {c} : op'[d] = op[d],
           daemon' \in {"up", "exited", "failed"},
           issued' \in Nat,
           quiet' \in BOOLEAN,
           OpInv(op'[c]),
           quiet' =>
             /\ \A d \in Clients \ {c} : op[d].kind = "idle"
             /\ LoneInv(op'[c], config', handle')
             /\ \A n \in Services : handle'[n] = "running" => n \in Declared(config')
             /\ \A n \in Services :
                  alive'[n] = IF handle'[n] = "running" \/ op'[c].task[n] = "killing" THEN 1 ELSE 0
             /\ daemon' = "exited" /\ Acyclic(config') => \A n \in Services : alive'[n] = 0
    PROVE  OrchestrationInv'
<1>1. OrchestrationTypeOK'
  BY DEF OrchestrationTypeOK
<1>2. \A d \in Clients : OpInv(op'[d])
  BY DEF OrchestrationInv
<1>3. ASSUME quiet' PROVE QuietInv'
  <2>1. \A d \in Clients \ {c} : op'[d].kind = "idle"
    BY <1>3
  <2>2. \A b, d \in Clients : b # d => op'[b].kind = "idle" \/ op'[d].kind = "idle"
    BY <2>1
  <2>3. ASSUME NEW d \in Clients PROVE LoneInv(op'[d], config', handle')
    <3>1. CASE d = c
      BY <1>3, <3>1
    <3>2. CASE d # c
      <4>1. op'[d] \in Ops /\ OpInv(op'[d]) /\ op'[d].kind = "idle"
        BY <1>2, <2>1, <3>2
      <4> QED BY <4>1, LoneIdle
    <3> QED BY <3>1, <3>2
  <2>4. AliveInv'
    <3>1. ASSUME NEW n \in Services
          PROVE  alive'[n] = IF handle'[n] = "running" \/ Killing(n)' THEN 1 ELSE 0
      <4>1. \A d \in Clients \ {c} : op'[d].task = NoTasks
        BY <1>2, <2>1 DEF OpInv, KindInv
      <4>2. \A d \in Clients \ {c} : op'[d].task[n] # "killing"
        BY <4>1, NoTasksFacts
      <4>3. Killing(n)' <=> op'[c].task[n] = "killing"
        BY <4>2 DEF Killing
      <4> QED BY <1>3, <4>3
    <3> QED BY <3>1 DEF AliveInv
  <2> QED BY <1>3, <2>2, <2>3, <2>4 DEF QuietInv
<1> QED BY <1>1, <1>2, <1>3 DEF OrchestrationInv

\* Request, Sighup and Shutdown
LEMMA BeginKeepsInv ==
    ASSUME OrchestrationInv, NEW c \in Clients, NEW kind, NEW new, NEW plans,
           Begin(c, kind, new, plans), issued' \in Nat,
           \A plan \in plans : MayBegin(Operation(kind, config, new, plan), config, handle)
    PROVE  OrchestrationInv'
<1>1. PICK plan \in plans : op' = [op EXCEPT ![c] = Operation(kind, config, new, plan)]
  BY DEF Begin
<1>2. PICK o : o = Operation(kind, config, new, plan)
  OBVIOUS
<1>3. MayBegin(o, config, handle)
  BY <1>2
<1>4. /\ o \in Ops /\ o.task = NoTasks /\ OpInv(o)
      /\ (\A n \in Services : handle[n] = "running" => n \in Declared(config)) => LoneInv(o, config, handle)
  BY <1>3 DEF MayBegin
<1>5. /\ daemon = "up" /\ op[c].kind = "idle"
      /\ quiet' = (quiet /\ \A d \in Clients \ {c} : op[d].kind = "idle")
      /\ config' = config /\ handle' = handle /\ alive' = alive /\ daemon' = daemon
  BY DEF Begin
<1>6. OrchestrationTypeOK /\ OpInv(op[c])
  BY DEF OrchestrationInv
<1>7. /\ op' \in [Clients -> Ops] /\ op'[c] = o
      /\ \A d \in Clients \ {c} : op'[d] = op[d]
  BY <1>1, <1>2, <1>4, <1>6 DEF OrchestrationTypeOK
<1>8. ASSUME quiet'
      PROVE  /\ \A d \in Clients \ {c} : op[d].kind = "idle"
             /\ LoneInv(o, config, handle)
             /\ \A n \in Services : handle[n] = "running" => n \in Declared(config)
             /\ \A n \in Services :
                  alive[n] = IF handle[n] = "running" \/ o.task[n] = "killing" THEN 1 ELSE 0
  <2>1. quiet /\ \A d \in Clients \ {c} : op[d].kind = "idle"
    BY <1>5, <1>8
  <2>2. /\ \A n \in Services : handle[n] = "running" => n \in Declared(config)
        /\ \A n \in Services :
             alive[n] = IF handle[n] = "running" \/ op[c].task[n] = "killing" THEN 1 ELSE 0
    BY <2>1, QuietFacts
  <2>3. op[c].task = NoTasks
    BY <1>5, <1>6 DEF OpInv, KindInv
  <2> QED BY <1>4, <2>1, <2>2, <2>3
<1>9. /\ config' \in Configs /\ handle' \in [Services -> {"absent", "running", "stopped"}]
      /\ alive' \in [Services -> Int] /\ daemon' = "up" /\ quiet' \in BOOLEAN
  BY <1>5, <1>6 DEF OrchestrationTypeOK
<1> QED BY <1>4, <1>5, <1>7, <1>8, <1>9, InvStep

LEMMA RequestKeepsInv ==
    ASSUME OrchestrationInv, NEW c \in Clients, Request(c)
    PROVE  OrchestrationInv'
<1>1. config \in Configs /\ issued \in Nat
  BY DEF OrchestrationInv, OrchestrationTypeOK
<1>2. issued' \in Nat
  BY <1>1 DEF Request, Counted
<1>3. CASE Begin(c, "stop", config, StopAll(config))
  <2>1. \A plan \in StopAll(config) : MayBegin(Operation("stop", config, config, plan), config, handle)
    BY <1>1, BeginStop
  <2> QED BY <1>2, <1>3, <2>1, BeginKeepsInv
<1>4. ASSUME NEW A \in SUBSET Services \ {{}}, Begin(c, "stop", config, StopNamed(config, A))
      PROVE  OrchestrationInv'
  <2>1. \A plan \in StopNamed(config, A) : MayBegin(Operation("stop", config, config, plan), config, handle)
    BY <1>1, BeginStop
  <2> QED BY <1>2, <1>4, <2>1, BeginKeepsInv
<1>5. ASSUME NEW n \in Services, Begin(c, "restart", config, Restart(config, n))
      PROVE  OrchestrationInv'
  <2>1. \A plan \in Restart(config, n) : MayBegin(Operation("restart", config, config, plan), config, handle)
    BY <1>1, BeginRestart
  <2> QED BY <1>2, <1>5, <2>1, BeginKeepsInv
<1>6. ASSUME NEW new \in Configs, Begin(c, "reload", new, Reload(config, new))
      PROVE  OrchestrationInv'
  <2>1. \A plan \in Reload(config, new) : MayBegin(Operation("reload", config, new, plan), config, handle)
    BY <1>1, BeginReload
  <2> QED BY <1>2, <1>6, <2>1, BeginKeepsInv
<1> QED BY <1>3, <1>4, <1>5, <1>6 DEF Request

LEMMA SighupKeepsInv ==
    ASSUME OrchestrationInv, Sighup
    PROVE  OrchestrationInv'
<1>1. config \in Configs /\ issued \in Nat /\ Main \in Clients
  BY OrchestrationAssumption DEF OrchestrationInv, OrchestrationTypeOK
<1>2. issued' \in Nat
  BY <1>1 DEF Sighup, Counted
<1>3. PICK new \in Configs : Begin(Main, "reload", new, Reload(config, new))
  BY DEF Sighup
<1>4. \A plan \in Reload(config, new) : MayBegin(Operation("reload", config, new, plan), config, handle)
  BY <1>1, BeginReload
<1> QED BY <1>1, <1>2, <1>3, <1>4, BeginKeepsInv

LEMMA ShutdownKeepsInv ==
    ASSUME OrchestrationInv, Shutdown
    PROVE  OrchestrationInv'
<1>1. config \in Configs /\ issued \in Nat /\ Main \in Clients
  BY OrchestrationAssumption DEF OrchestrationInv, OrchestrationTypeOK
<1>2. issued' \in Nat /\ Begin(Main, "shutdown", config, StopAll(config))
  BY <1>1 DEF Shutdown
<1>3. \A plan \in StopAll(config) : MayBegin(Operation("shutdown", config, config, plan), config, handle)
  BY <1>1, BeginStop
<1> QED BY <1>1, <1>2, <1>3, BeginKeepsInv

\* the steps of c, as steps of its operation alone
LEMMA NextStepMoves ==
    ASSUME OrchestrationTypeOK, NEW c \in Clients, NextStep(c)
    PROVE  /\ op' \in [Clients -> Ops]
           /\ \A d \in Clients \ {c} : op'[d] = op[d]
           /\ TakesStep(op[c], op'[c])
<1>1. PICK o \in Ops : o = op[c]
  BY DEF OrchestrationTypeOK
<1>2. o.plan \in Seq(PlanSteps) /\ o.plan # <<>> /\ o.task = NoTasks
  BY <1>1, OpFacts DEF NextStep
<1>3. Head(o.plan) = o.plan[1] /\ Tail(o.plan) \in Seq(PlanSteps) /\ 1 \in DOMAIN o.plan
  BY <1>2, TailFacts
<1>4. o.plan[1].verb \in {"start", "stop"} /\ o.plan[1].names \subseteq Services
  BY <1>1, <1>2, <1>3, PlanStep DEF NextStep
<1>5. PICK t : t = [n \in Services |-> IF n \in o.plan[1].names THEN o.plan[1].verb ELSE "none"]
  OBVIOUS
<1>6. t \in [Services -> TaskStates]
  BY <1>4, <1>5 DEF TaskStates
<1>7. t = [n \in Services |-> IF n \in o.plan[1].names THEN o.plan[1].verb ELSE o.task[n]]
  BY <1>2, <1>5, NoTasksFacts
<1>8. PICK p : p = [o EXCEPT !.plan = Tail(o.plan), !.task = t]
  OBVIOUS
<1>9. /\ p \in Ops /\ p.kind = o.kind /\ p.old = o.old /\ p.cfg = o.cfg /\ p.plan = Tail(o.plan)
      /\ p.task = t /\ p.started = o.started /\ p.stopped = o.stopped
  BY <1>3, <1>6, <1>8 DEF Ops
<1>10. op' = [op EXCEPT ![c] = p]
  BY <1>1, <1>3, <1>7, <1>8 DEF NextStep, OrchestrationTypeOK
<1>11. /\ op' \in [Clients -> Ops] /\ op'[c] = p
       /\ \A d \in Clients \ {c} : op'[d] = op[d]
  BY <1>9, <1>10 DEF OrchestrationTypeOK
<1>12. TakesStep(o, p)
  BY <1>2, <1>4, <1>5, <1>9 DEF TakesStep, SameOp
<1> QED BY <1>1, <1>11, <1>12

LEMMA SwapConfigMoves ==
    ASSUME OrchestrationTypeOK, NEW c \in Clients, SwapConfig(c)
    PROVE  /\ op' \in [Clients -> Ops]
           /\ \A d \in Clients \ {c} : op'[d] = op[d]
           /\ TakesSwap(op[c], op'[c])
<1>1. PICK o \in Ops : o = op[c]
  BY DEF OrchestrationTypeOK
<1>2. o.plan \in Seq(PlanSteps) /\ o.plan # <<>> /\ o.task = NoTasks
  BY <1>1, OpFacts DEF SwapConfig
<1>3. Head(o.plan) = o.plan[1] /\ Tail(o.plan) \in Seq(PlanSteps)
  BY <1>2, TailFacts
<1>4. o.plan[1].verb = "swap"
  BY <1>1, <1>3 DEF SwapConfig
<1>5. PICK p : p = [o EXCEPT !.plan = Tail(o.plan)]
  OBVIOUS
<1>6. /\ p \in Ops /\ p.kind = o.kind /\ p.old = o.old /\ p.cfg = o.cfg /\ p.plan = Tail(o.plan)
      /\ p.task = o.task /\ p.started = o.started /\ p.stopped = o.stopped
  BY <1>3, <1>5 DEF Ops
<1>7. op' = [op EXCEPT ![c] = p]
  BY <1>1, <1>5 DEF SwapConfig, OrchestrationTypeOK
<1>8. /\ op' \in [Clients -> Ops] /\ op'[c] = p
      /\ \A d \in Clients \ {c} : op'[d] = op[d]
  BY <1>6, <1>7 DEF OrchestrationTypeOK
<1>9. TakesSwap(o, p)
  BY <1>2, <1>4, <1>6 DEF TakesSwap, SameOp
<1> QED BY <1>1, <1>8, <1>9

\* a task of c's operation moves on
LEMMA TaskMove ==
    ASSUME OrchestrationTypeOK, NEW c \in Clients, NEW n \in Services, NEW from, NEW to \in TaskStates,
           op[c].task[n] = from,
           NEW S \in SUBSET Services, NEW T \in SUBSET Services,
           S = IF from = "starting" THEN op[c].started \cup {n} ELSE op[c].started,
           T = IF from \in {"killing", "stopping"} THEN op[c].stopped \cup {n} ELSE op[c].stopped,
           op' = [op EXCEPT ![c] = [op[c] EXCEPT !.task = [op[c].task EXCEPT ![n] = to],
                                                 !.started = S, !.stopped = T]]
    PROVE  /\ op' \in [Clients -> Ops]
           /\ \A d \in Clients \ {c} : op'[d] = op[d]
           /\ TaskMoves(op[c], op'[c], n, from, to)
<1>1. PICK o \in Ops : o = op[c]
  BY DEF OrchestrationTypeOK
<1>2. PICK t : t = [o.task EXCEPT ![n] = to]
  OBVIOUS
<1>3. o.task \in [Services -> TaskStates]
  BY OpFacts
<1>4. /\ t \in [Services -> TaskStates] /\ t[n] = to
      /\ \A m \in Services \ {n} : t[m] = o.task[m]
  BY <1>2, <1>3
<1>5. PICK p : p = [o EXCEPT !.task = t, !.started = S, !.stopped = T]
  OBVIOUS
<1>6. /\ p \in Ops /\ p.kind = o.kind /\ p.old = o.old /\ p.cfg = o.cfg /\ p.plan = o.plan
      /\ p.task = t /\ p.started = S /\ p.stopped = T
  BY <1>4, <1>5 DEF Ops
<1>7. op' = [op EXCEPT ![c] = p]
  BY <1>1, <1>2, <1>5
<1>8. /\ op' \in [Clients -> Ops] /\ op'[c] = p
      /\ \A d \in Clients \ {c} : op'[d] = op[d]
  BY <1>6, <1>7 DEF OrchestrationTypeOK
<1>9. TaskMoves(o, p, n, from, to)
  BY <1>1, <1>4, <1>6 DEF TaskMoves, SameOp
<1> QED BY <1>1, <1>8, <1>9

LEMMA NextStepKeepsInv ==
    ASSUME OrchestrationInv, NEW c \in Clients, NextStep(c)
    PROVE  OrchestrationInv'
<1>1. OrchestrationTypeOK /\ OpInv(op[c]) /\ op[c] \in Ops
  BY DEF OrchestrationInv, OrchestrationTypeOK
<1>2. /\ op' \in [Clients -> Ops]
      /\ \A d \in Clients \ {c} : op'[d] = op[d]
      /\ TakesStep(op[c], op'[c])
  BY <1>1, NextStepMoves
<1>3. op'[c] \in Ops
  BY <1>2
<1>4. OpInv(op'[c])
  BY <1>1, <1>2, <1>3, TakesStepInv
<1>5. /\ daemon = "up" /\ op[c].plan # <<>>
      /\ config' = config /\ handle' = handle /\ alive' = alive /\ daemon' = daemon
      /\ issued' = issued /\ quiet' = quiet
  BY DEF NextStep
<1>6. op[c].kind # "idle"
  BY <1>1, <1>5 DEF OpInv, KindInv
<1>7. ASSUME quiet
      PROVE  /\ \A d \in Clients \ {c} : op[d].kind = "idle"
             /\ LoneInv(op'[c], config, handle)
             /\ \A n \in Services : handle[n] = "running" => n \in Declared(config)
             /\ \A n \in Services :
                  alive[n] = IF handle[n] = "running" \/ op'[c].task[n] = "killing" THEN 1 ELSE 0
  <2>1. /\ \A d \in Clients \ {c} : op[d].kind = "idle"
        /\ LoneInv(op[c], config, handle)
        /\ \A n \in Services : handle[n] = "running" => n \in Declared(config)
        /\ \A n \in Services :
             alive[n] = IF handle[n] = "running" \/ op[c].task[n] = "killing" THEN 1 ELSE 0
    BY <1>6, <1>7, QuietFacts
  <2>2. LoneInv(op'[c], config, handle)
    BY <1>1, <1>2, <1>3, <2>1, LoneStep
  <2>3. \A n \in Services : op[c].task[n] # "killing" /\ op'[c].task[n] # "killing"
    BY <1>1, <1>2, <1>3, TakesStepFacts DEF TakesStep
  <2> QED BY <2>1, <2>2, <2>3
<1>8. /\ config' \in Configs /\ handle' \in [Services -> {"absent", "running", "stopped"}]
      /\ alive' \in [Services -> Int] /\ daemon' = "up" /\ issued' \in Nat /\ quiet' \in BOOLEAN
  BY <1>1, <1>5 DEF OrchestrationTypeOK
<1> QED BY <1>2, <1>4, <1>5, <1>7, <1>8, InvStep

LEMMA SwapConfigKeepsInv ==
    ASSUME OrchestrationInv, NEW c \in Clients, SwapConfig(c)
    PROVE  OrchestrationInv'
<1>1. OrchestrationTypeOK /\ OpInv(op[c]) /\ op[c] \in Ops
  BY DEF OrchestrationInv, OrchestrationTypeOK
<1>2. /\ op' \in [Clients -> Ops]
      /\ \A d \in Clients \ {c} : op'[d] = op[d]
      /\ TakesSwap(op[c], op'[c])
  BY <1>1, SwapConfigMoves
<1>3. op'[c] \in Ops
  BY <1>2
<1>4. OpInv(op'[c]) /\ op[c].kind = "reload"
  BY <1>1, <1>2, <1>3, TakesSwapInv
<1>5. /\ daemon = "up" /\ config' = op[c].cfg
      /\ handle' = handle /\ alive' = alive /\ daemon' = daemon
      /\ issued' = issued /\ quiet' = quiet
  BY DEF SwapConfig
<1>6. ASSUME quiet
      PROVE  /\ \A d \in Clients \ {c} : op[d].kind = "idle"
             /\ LoneInv(op'[c], op[c].cfg, handle)
             /\ \A n \in Services : handle[n] = "running" => n \in Declared(op[c].cfg)
             /\ \A n \in Services :
                  alive[n] = IF handle[n] = "running" \/ op'[c].task[n] = "killing" THEN 1 ELSE 0
  <2>1. /\ \A d \in Clients \ {c} : op[d].kind = "idle"
        /\ LoneInv(op[c], config, handle)
        /\ \A n \in Services : handle[n] = "running" => n \in Declared(config)
        /\ \A n \in Services :
             alive[n] = IF handle[n] = "running" \/ op[c].task[n] = "killing" THEN 1 ELSE 0
    BY <1>4, <1>6, QuietFacts
  <2>2. /\ LoneInv(op'[c], op[c].cfg, handle)
        /\ \A n \in Services : handle[n] = "running" => n \in Declared(op[c].cfg)
    BY <1>1, <1>2, <1>3, <2>1, LoneSwap
  <2>3. op'[c].task = op[c].task
    BY <1>2 DEF TakesSwap
  <2> QED BY <2>1, <2>2, <2>3
<1>7. op[c].cfg \in Configs
  BY <1>1, OpFacts
<1>8. /\ config' \in Configs /\ handle' \in [Services -> {"absent", "running", "stopped"}]
      /\ alive' \in [Services -> Int] /\ daemon' = "up" /\ issued' \in Nat /\ quiet' \in BOOLEAN
  BY <1>1, <1>5, <1>7 DEF OrchestrationTypeOK
<1> QED BY <1>2, <1>4, <1>5, <1>6, <1>8, InvStep

\* an operation ends, well or not, while nothing is being killed
LEMMA EndKeepsInv ==
    ASSUME OrchestrationInv, NEW c \in Clients, op[c].kind # "idle",
           \A n \in Services : op[c].task[n] # "killing",
           op' = [op EXCEPT ![c] = Idle],
           UNCHANGED <<config, handle, alive, issued, quiet>>,
           daemon' \in {"up", "exited", "failed"},
           quiet /\ daemon' = "exited" /\ Acyclic(config) => \A n \in Services : alive[n] = 0
    PROVE  OrchestrationInv'
<1>1. OrchestrationTypeOK
  BY DEF OrchestrationInv
<1>2. /\ op' \in [Clients -> Ops] /\ op'[c] = Idle
      /\ \A d \in Clients \ {c} : op'[d] = op[d]
  BY <1>1, IdleFacts DEF OrchestrationTypeOK
<1>3. OpInv(op'[c]) /\ \A n \in Services : op'[c].task[n] = "none"
  BY <1>2, IdleInv, IdleFacts, NoTasksFacts
<1>4. LoneInv(op'[c], config, handle)
  BY <1>2, <1>3, IdleFacts, LoneIdle
<1>5. ASSUME quiet
      PROVE  /\ \A d \in Clients \ {c} : op[d].kind = "idle"
             /\ \A n \in Services : handle[n] = "running" => n \in Declared(config)
             /\ \A n \in Services :
                  alive[n] = IF handle[n] = "running" \/ op'[c].task[n] = "killing" THEN 1 ELSE 0
  <2>1. /\ \A d \in Clients \ {c} : op[d].kind = "idle"
        /\ \A n \in Services : handle[n] = "running" => n \in Declared(config)
        /\ \A n \in Services :
             alive[n] = IF handle[n] = "running" \/ op[c].task[n] = "killing" THEN 1 ELSE 0
    BY <1>5, QuietFacts
  <2> QED BY <1>3, <2>1
<1>6. /\ config' \in Configs /\ handle' \in [Services -> {"absent", "running", "stopped"}]
      /\ alive' \in [Services -> Int] /\ issued' \in Nat /\ quiet' \in BOOLEAN
  BY <1>1 DEF OrchestrationTypeOK
<1>7. config' = config /\ handle' = handle /\ alive' = alive /\ quiet' = quiet
  OBVIOUS
<1> QED BY <1>2, <1>3, <1>4, <1>5, <1>6, <1>7, InvStep

LEMMA GraphErrorKeepsInv ==
    ASSUME OrchestrationInv, NEW c \in Clients, GraphError(c)
    PROVE  OrchestrationInv'
<1>1. OrchestrationTypeOK /\ OpInv(op[c]) /\ op[c] \in Ops
  BY DEF OrchestrationInv, OrchestrationTypeOK
<1>2. op[c].plan \in Seq(PlanSteps) /\ op[c].plan # <<>>
  BY <1>1, OpFacts DEF GraphError
<1>3. op[c].plan[1].verb = "fail"
  BY <1>2, TailFacts DEF GraphError
<1>4. op[c].task = NoTasks /\ op[c].kind # "idle"
  BY <1>1, <1>2, <1>3 DEF OpInv, TasksInv, KindInv
<1>5. \A n \in Services : op[c].task[n] # "killing"
  BY <1>4, NoTasksFacts
<1>6. /\ op' = [op EXCEPT ![c] = Idle]
      /\ UNCHANGED <<config, handle, alive, issued, quiet>>
      /\ daemon' \in {"up", "failed"}
  BY DEF GraphError, Fail
<1> QED BY <1>4, <1>5, <1>6, EndKeepsInv

\* a shutdown that ends has stopped everything
LEMMA FinishKeepsInv ==
    ASSUME OrchestrationInv, NEW c \in Clients, Finish(c)
    PROVE  OrchestrationInv'
<1>1. OrchestrationTypeOK /\ OpInv(op[c]) /\ op[c] \in Ops
  BY DEF OrchestrationInv, OrchestrationTypeOK
<1>2. /\ daemon = "up" /\ op[c].kind # "idle" /\ op[c].plan = <<>> /\ op[c].task = NoTasks
      /\ op' = [op EXCEPT ![c] = Idle]
      /\ UNCHANGED <<config, handle, alive, issued, quiet>>
      /\ daemon' = IF op[c].kind = "shutdown" THEN "exited" ELSE daemon
  BY DEF Finish
<1>3. \A n \in Services : op[c].task[n] = "none"
  BY <1>2, NoTasksFacts
<1>4. ASSUME quiet, daemon' = "exited", Acyclic(config), NEW n \in Services
      PROVE  alive[n] = 0
  <2>1. op[c].kind = "shutdown"
    BY <1>2, <1>4
  <2>2. /\ LoneInv(op[c], config, handle)
        /\ handle[n] = "running" => n \in Declared(config)
        /\ alive[n] = IF handle[n] = "running" \/ op[c].task[n] = "killing" THEN 1 ELSE 0
    BY <1>2, <1>4, QuietFacts
  <2>3. config = op[c].cfg
    BY <2>1, <2>2 DEF LoneInv, CellInv
  <2>4. n \in Declared(config) => n \in Down(op[c], handle) \/ Todo(op[c].plan, "stop", n)
    BY <1>4, <2>1, <2>2, <2>3 DEF LoneInv, ShutdownInv
  <2>5. ~Todo(op[c].plan, "stop", n)
    BY <1>2 DEF Todo
  <2>6. n \in Declared(config) => handle[n] # "running"
    BY <1>3, <2>4, <2>5 DEF Down
  <2> QED BY <1>3, <2>2, <2>6
<1>5. daemon' \in {"up", "exited", "failed"}
  BY <1>2
<1> QED BY <1>2, <1>3, <1>4, <1>5, EndKeepsInv

LEMMA StartServiceKeepsInv ==
    ASSUME OrchestrationInv, NEW c \in Clients, NEW n \in Services, StartService(c, n)
    PROVE  OrchestrationInv'
<1>1. OrchestrationTypeOK /\ OpInv(op[c]) /\ op[c] \in Ops
  BY DEF OrchestrationInv, OrchestrationTypeOK
<1>2. /\ daemon = "up" /\ op[c].task[n] = "start"
      /\ config' = config /\ issued' = issued /\ quiet' = quiet
  BY DEF StartService
<1>3. n \in Starting(op[c])
  BY <1>2 DEF Starting
<1>4. op[c].kind # "idle"
  BY <1>1, <1>2, NoTasksFacts DEF OpInv, KindInv
<1>5. CASE Fail(c) /\ UNCHANGED <<handle, alive>>
  <2>1. Stopping(op[c]) = {}
    BY <1>1, <1>3 DEF OpInv, TasksInv
  <2>2. \A m \in Services : op[c].task[m] # "killing"
    BY <2>1 DEF Stopping
  <2>3. /\ op' = [op EXCEPT ![c] = Idle]
        /\ UNCHANGED <<config, handle, alive, issued, quiet>>
        /\ daemon' \in {"up", "failed"}
    BY <1>2, <1>5 DEF Fail
  <2> QED BY <1>4, <2>2, <2>3, EndKeepsInv
<1>6. CASE /\ n \in Declared(config)
           /\ handle' = [handle EXCEPT ![n] = "running"]
           /\ alive' = [alive EXCEPT ![n] = @ + 1]
           /\ op' = [op EXCEPT ![c].task[n] = "starting"]
           /\ UNCHANGED daemon
  <2>1. op' = [op EXCEPT ![c] = [op[c] EXCEPT !.task = [op[c].task EXCEPT ![n] = "starting"],
                                              !.started = op[c].started, !.stopped = op[c].stopped]]
    <3>1. op[c] = [op[c] EXCEPT !.started = op[c].started, !.stopped = op[c].stopped]
      BY <1>1 DEF Ops
    <3> QED BY <1>1, <1>6, <3>1 DEF OrchestrationTypeOK, Ops
  <2>2. op[c].started \in SUBSET Services /\ op[c].stopped \in SUBSET Services
    BY <1>1, OpFacts
  <2>3. /\ op' \in [Clients -> Ops]
        /\ \A d \in Clients \ {c} : op'[d] = op[d]
        /\ TaskMoves(op[c], op'[c], n, "start", "starting")
    BY <1>1, <1>2, <2>1, <2>2, TaskMove DEF TaskStates
  <2>4. op'[c] \in Ops
    BY <2>3
  <2>5. OpInv(op'[c])
    BY <1>1, <2>3, <2>4, TaskMovesInv DEF TaskSteps
  <2>6. /\ handle' \in [Services -> {"absent", "running", "stopped"}]
        /\ handle'[n] = "running" /\ \A m \in Services \ {n} : handle'[m] = handle[m]
    BY <1>1, <1>6 DEF OrchestrationTypeOK
  <2>7. /\ alive' \in [Services -> Int]
        /\ alive'[n] = alive[n] + 1 /\ \A m \in Services \ {n} : alive'[m] = alive[m]
    BY <1>1, <1>6 DEF OrchestrationTypeOK
  <2>8. ASSUME quiet
        PROVE  /\ \A d \in Clients \ {c} : op[d].kind = "idle"
               /\ LoneInv(op'[c], config, handle')
               /\ \A m \in Services : handle'[m] = "running" => m \in Declared(config)
               /\ \A m \in Services :
                    alive'[m] = IF handle'[m] = "running" \/ op'[c].task[m] = "killing" THEN 1 ELSE 0
    <3>1. /\ \A d \in Clients \ {c} : op[d].kind = "idle"
          /\ LoneInv(op[c], config, handle)
          /\ \A m \in Services : handle[m] = "running" => m \in Declared(config)
          /\ \A m \in Services :
               alive[m] = IF handle[m] = "running" \/ op[c].task[m] = "killing" THEN 1 ELSE 0
      BY <1>4, <2>8, QuietFacts
    <3>2. LoneInv(op'[c], config, handle')
      BY <1>1, <2>3, <2>4, <2>6, <3>1, LoneStart
    <3>3. handle[n] # "running"
      BY <1>2, <3>1 DEF LoneInv, FreshInv
    <3>4. alive[n] = 0 /\ alive'[n] = 1
      BY <1>2, <2>7, <3>1, <3>3
    <3>5. \A m \in Services : m # n => op'[c].task[m] = op[c].task[m]
      BY <2>3 DEF TaskMoves
    <3>6. \A m \in Services :
             alive'[m] = IF handle'[m] = "running" \/ op'[c].task[m] = "killing" THEN 1 ELSE 0
      BY <2>6, <2>7, <3>1, <3>4, <3>5
    <3>7. \A m \in Services : handle'[m] = "running" => m \in Declared(config)
      BY <1>6, <2>6, <3>1
    <3> QED BY <3>1, <3>2, <3>6, <3>7
  <2>9. config' \in Configs /\ daemon' = "up" /\ issued' \in Nat /\ quiet' \in BOOLEAN
    BY <1>1, <1>2, <1>6 DEF OrchestrationTypeOK
  <2> QED BY <1>2, <2>3, <2>5, <2>6, <2>7, <2>8, <2>9, InvStep
<1> QED BY <1>5, <1>6 DEF StartService

LEMMA StartReturnsKeepsInv ==
    ASSUME OrchestrationInv, NEW c \in Clients, NEW n \in Services, StartReturns(c, n)
    PROVE  OrchestrationInv'
<1>1. OrchestrationTypeOK /\ OpInv(op[c]) /\ op[c] \in Ops
  BY DEF OrchestrationInv, OrchestrationTypeOK
<1>2. /\ daemon = "up" /\ op[c].task[n] = "starting"
      /\ op' = [op EXCEPT ![c].task[n] = "none", ![c].started = @ \cup {n}]
      /\ config' = config /\ handle' = handle /\ alive' = alive /\ daemon' = daemon
      /\ issued' = issued /\ quiet' = quiet
  BY DEF StartReturns
<1>3. op[c].kind # "idle"
  BY <1>1, <1>2, NoTasksFacts DEF OpInv, KindInv
<1>4. op[c].started \cup {n} \in SUBSET Services /\ op[c].stopped \in SUBSET Services
  BY <1>1, OpFacts
<1>5. op' = [op EXCEPT ![c] = [op[c] EXCEPT !.task = [op[c].task EXCEPT ![n] = "none"],
                                            !.started = op[c].started \cup {n}, !.stopped = op[c].stopped]]
  <2>1. op' = [op EXCEPT ![c] = [op[c] EXCEPT !.task[n] = "none", !.started = op[c].started \cup {n}]]
    BY <1>1, <1>2 DEF OrchestrationTypeOK
  <2>2. [op[c] EXCEPT !.task[n] = "none", !.started = op[c].started \cup {n}]
          = [op[c] EXCEPT !.task = [op[c].task EXCEPT ![n] = "none"],
                          !.started = op[c].started \cup {n}, !.stopped = op[c].stopped]
    BY <1>1 DEF Ops
  <2> QED BY <2>1, <2>2
<1>6. /\ op' \in [Clients -> Ops]
      /\ \A d \in Clients \ {c} : op'[d] = op[d]
      /\ TaskMoves(op[c], op'[c], n, "starting", "none")
  BY <1>1, <1>2, <1>4, <1>5, TaskMove DEF TaskStates
<1>7. op'[c] \in Ops
  BY <1>6
<1>8. OpInv(op'[c])
  BY <1>1, <1>6, <1>7, TaskMovesInv DEF TaskSteps
<1>9. ASSUME quiet
      PROVE  /\ \A d \in Clients \ {c} : op[d].kind = "idle"
             /\ LoneInv(op'[c], config, handle)
             /\ \A m \in Services : handle[m] = "running" => m \in Declared(config)
             /\ \A m \in Services :
                  alive[m] = IF handle[m] = "running" \/ op'[c].task[m] = "killing" THEN 1 ELSE 0
  <2>1. /\ \A d \in Clients \ {c} : op[d].kind = "idle"
        /\ LoneInv(op[c], config, handle)
        /\ \A m \in Services : handle[m] = "running" => m \in Declared(config)
        /\ \A m \in Services :
             alive[m] = IF handle[m] = "running" \/ op[c].task[m] = "killing" THEN 1 ELSE 0
    BY <1>3, <1>9, QuietFacts
  <2>2. LoneInv(op'[c], config, handle)
    BY <1>1, <1>6, <1>7, <2>1, LoneReturns
  <2>3. \A m \in Services : op'[c].task[m] = "killing" <=> op[c].task[m] = "killing"
    BY <1>6 DEF TaskMoves
  <2> QED BY <2>1, <2>2, <2>3
<1>10. /\ config' \in Configs /\ handle' \in [Services -> {"absent", "running", "stopped"}]
       /\ alive' \in [Services -> Int] /\ daemon' = "up" /\ issued' \in Nat /\ quiet' \in BOOLEAN
  BY <1>1, <1>2 DEF OrchestrationTypeOK
<1> QED BY <1>2, <1>6, <1>8, <1>9, <1>10, InvStep

LEMMA StopServiceKeepsInv ==
    ASSUME OrchestrationInv, NEW c \in Clients, NEW n \in Services, StopService(c, n)
    PROVE  OrchestrationInv'
<1>1. OrchestrationTypeOK /\ OpInv(op[c]) /\ op[c] \in Ops
  BY DEF OrchestrationInv, OrchestrationTypeOK
<1>2. /\ daemon = "up" /\ op[c].task[n] = "stop"
      /\ handle' = [handle EXCEPT ![n] = IF @ = "absent" THEN @ ELSE "stopped"]
      /\ config' = config /\ alive' = alive /\ daemon' = daemon
      /\ issued' = issued /\ quiet' = quiet
  BY DEF StopService
<1>3. op[c].kind # "idle"
  BY <1>1, <1>2, NoTasksFacts DEF OpInv, KindInv
<1>4. PICK to \in {"killing", "stopping"} : to = IF handle[n] = "running" THEN "killing" ELSE "stopping"
  OBVIOUS
<1>5. op[c].started \in SUBSET Services /\ op[c].stopped \in SUBSET Services
  BY <1>1, OpFacts
<1>6. op' = [op EXCEPT ![c] = [op[c] EXCEPT !.task = [op[c].task EXCEPT ![n] = to],
                                            !.started = op[c].started, !.stopped = op[c].stopped]]
  <2>1. op[c] = [op[c] EXCEPT !.started = op[c].started, !.stopped = op[c].stopped]
    BY <1>1 DEF Ops
  <2>2. op' = [op EXCEPT ![c].task[n] = to]
    BY <1>4 DEF StopService
  <2> QED BY <1>1, <2>1, <2>2 DEF OrchestrationTypeOK, Ops
<1>7. /\ op' \in [Clients -> Ops]
      /\ \A d \in Clients \ {c} : op'[d] = op[d]
      /\ TaskMoves(op[c], op'[c], n, "stop", to)
  <2>1. /\ op[c].started = IF "stop" = "starting" THEN op[c].started \cup {n} ELSE op[c].started
        /\ op[c].stopped = IF "stop" \in {"killing", "stopping"} THEN op[c].stopped \cup {n} ELSE op[c].stopped
        /\ to \in TaskStates
    BY DEF TaskStates
  <2> QED BY <1>1, <1>2, <1>5, <1>6, <2>1, TaskMove
<1>8. op'[c] \in Ops
  BY <1>7
<1>9. OpInv(op'[c])
  BY <1>1, <1>7, <1>8, TaskMovesInv DEF TaskSteps
<1>10. /\ handle' \in [Services -> {"absent", "running", "stopped"}]
       /\ handle'[n] # "running" /\ \A m \in Services \ {n} : handle'[m] = handle[m]
  BY <1>1, <1>2 DEF OrchestrationTypeOK
<1>11. ASSUME quiet
       PROVE  /\ \A d \in Clients \ {c} : op[d].kind = "idle"
              /\ LoneInv(op'[c], config, handle')
              /\ \A m \in Services : handle'[m] = "running" => m \in Declared(config)
              /\ \A m \in Services :
                   alive[m] = IF handle'[m] = "running" \/ op'[c].task[m] = "killing" THEN 1 ELSE 0
  <2>1. /\ \A d \in Clients \ {c} : op[d].kind = "idle"
        /\ LoneInv(op[c], config, handle)
        /\ \A m \in Services : handle[m] = "running" => m \in Declared(config)
        /\ \A m \in Services :
             alive[m] = IF handle[m] = "running" \/ op[c].task[m] = "killing" THEN 1 ELSE 0
    BY <1>3, <1>11, QuietFacts
  <2>2. LoneInv(op'[c], config, handle')
    BY <1>1, <1>7, <1>8, <1>10, <2>1, LoneStop
  <2>3. op'[c].task[n] = to /\ \A m \in Services : m # n => op'[c].task[m] = op[c].task[m]
    BY <1>7 DEF TaskMoves
  <2>4. \A m \in Services :
           alive[m] = IF handle'[m] = "running" \/ op'[c].task[m] = "killing" THEN 1 ELSE 0
    BY <1>2, <1>4, <1>10, <2>1, <2>3
  <2> QED BY <1>10, <2>1, <2>2, <2>4
<1>12. /\ config' \in Configs /\ alive' \in [Services -> Int] /\ daemon' = "up"
       /\ issued' \in Nat /\ quiet' \in BOOLEAN
  BY <1>1, <1>2 DEF OrchestrationTypeOK
<1> QED BY <1>2, <1>7, <1>9, <1>10, <1>11, <1>12, InvStep

LEMMA StopReturnsKeepsInv ==
    ASSUME OrchestrationInv, NEW c \in Clients, NEW n \in Services, StopReturns(c, n)
    PROVE  OrchestrationInv'
<1>1. OrchestrationTypeOK /\ OpInv(op[c]) /\ op[c] \in Ops
  BY DEF OrchestrationInv, OrchestrationTypeOK
<1>2. /\ daemon = "up" /\ op[c].task[n] \in {"killing", "stopping"}
      /\ alive' = IF op[c].task[n] = "killing" THEN [alive EXCEPT ![n] = @ - 1] ELSE alive
      /\ op' = [op EXCEPT ![c].task[n] = "none", ![c].stopped = @ \cup {n}]
      /\ config' = config /\ handle' = handle /\ daemon' = daemon
      /\ issued' = issued /\ quiet' = quiet
  BY DEF StopReturns
<1>3. op[c].kind # "idle"
  BY <1>1, <1>2, NoTasksFacts DEF OpInv, KindInv
<1>4. PICK from \in {"killing", "stopping"} : from = op[c].task[n]
  BY <1>2
<1>5. op[c].started \in SUBSET Services /\ op[c].stopped \cup {n} \in SUBSET Services
  BY <1>1, OpFacts
<1>6. op' = [op EXCEPT ![c] = [op[c] EXCEPT !.task = [op[c].task EXCEPT ![n] = "none"],
                                            !.started = op[c].started, !.stopped = op[c].stopped \cup {n}]]
  <2>1. op[c] = [op[c] EXCEPT !.started = op[c].started]
    BY <1>1 DEF Ops
  <2> QED BY <1>1, <1>2, <2>1, ZenonT(40) DEF OrchestrationTypeOK, Ops
<1>7. /\ op' \in [Clients -> Ops]
      /\ \A d \in Clients \ {c} : op'[d] = op[d]
      /\ TaskMoves(op[c], op'[c], n, from, "none")
  <2>1. "none" \in TaskStates
    BY DEF TaskStates
  <2>2. CASE from = "killing"
    <3>1. /\ op[c].started = IF "killing" = "starting" THEN op[c].started \cup {n} ELSE op[c].started
          /\ op[c].stopped \cup {n}
               = IF "killing" \in {"killing", "stopping"} THEN op[c].stopped \cup {n} ELSE op[c].stopped
          /\ op[c].task[n] = "killing"
      BY <1>4, <2>2
    <3>2. /\ op' \in [Clients -> Ops]
          /\ \A d \in Clients \ {c} : op'[d] = op[d]
          /\ TaskMoves(op[c], op'[c], n, "killing", "none")
      BY <1>1, <1>5, <1>6, <2>1, <3>1, TaskMove
    <3> QED BY <2>2, <3>2
  <2>3. CASE from = "stopping"
    <3>1. /\ op[c].started = IF "stopping" = "starting" THEN op[c].started \cup {n} ELSE op[c].started
          /\ op[c].stopped \cup {n}
               = IF "stopping" \in {"killing", "stopping"} THEN op[c].stopped \cup {n} ELSE op[c].stopped
          /\ op[c].task[n] = "stopping"
      BY <1>4, <2>3
    <3>2. /\ op' \in [Clients -> Ops]
          /\ \A d \in Clients \ {c} : op'[d] = op[d]
          /\ TaskMoves(op[c], op'[c], n, "stopping", "none")
      BY <1>1, <1>5, <1>6, <2>1, <3>1, TaskMove
    <3> QED BY <2>3, <3>2
  <2> QED BY <2>2, <2>3
<1>8. op'[c] \in Ops
  BY <1>7
<1>9. OpInv(op'[c])
  BY <1>1, <1>7, <1>8, TaskMovesInv DEF TaskSteps
<1>10. /\ alive' \in [Services -> Int]
       /\ alive'[n] = IF from = "killing" THEN alive[n] - 1 ELSE alive[n]
       /\ \A m \in Services : m # n => alive'[m] = alive[m]
  BY <1>1, <1>2, <1>4 DEF OrchestrationTypeOK
<1>11. ASSUME quiet
       PROVE  /\ \A d \in Clients \ {c} : op[d].kind = "idle"
              /\ LoneInv(op'[c], config, handle)
              /\ \A m \in Services : handle[m] = "running" => m \in Declared(config)
              /\ \A m \in Services :
                   alive'[m] = IF handle[m] = "running" \/ op'[c].task[m] = "killing" THEN 1 ELSE 0
  <2>1. /\ \A d \in Clients \ {c} : op[d].kind = "idle"
        /\ LoneInv(op[c], config, handle)
        /\ \A m \in Services : handle[m] = "running" => m \in Declared(config)
        /\ \A m \in Services :
             alive[m] = IF handle[m] = "running" \/ op[c].task[m] = "killing" THEN 1 ELSE 0
    BY <1>3, <1>11, QuietFacts
  <2>2. LoneInv(op'[c], config, handle)
    BY <1>1, <1>7, <1>8, <2>1, LoneReturns
  <2>3. op'[c].task[n] = "none" /\ \A m \in Services : m # n => op'[c].task[m] = op[c].task[m]
    BY <1>7 DEF TaskMoves
  <2>4. from = "killing" => handle[n] # "running"
    BY <1>4, <2>1 DEF LoneInv, FreshInv
  <2>5. \A m \in Services :
           alive'[m] = IF handle[m] = "running" \/ op'[c].task[m] = "killing" THEN 1 ELSE 0
    BY <1>4, <1>10, <2>1, <2>3, <2>4
  <2> QED BY <2>1, <2>2, <2>5
<1>12. /\ config' \in Configs /\ handle' \in [Services -> {"absent", "running", "stopped"}]
       /\ daemon' = "up" /\ issued' \in Nat /\ quiet' \in BOOLEAN
  BY <1>1, <1>2 DEF OrchestrationTypeOK
<1> QED BY <1>2, <1>7, <1>9, <1>10, <1>11, <1>12, InvStep

LEMMA InitInv == Init => OrchestrationInv
<1> SUFFICES ASSUME Init PROVE OrchestrationInv
  OBVIOUS
<1>1. /\ config \in Configs
      /\ handle = [n \in Services |-> "absent"]
      /\ alive = [n \in Services |-> 0]
      /\ daemon = "up" /\ issued = 0 /\ quiet = TRUE
  BY DEF Init
<1>2. PICK A \in SUBSET Services :
        \E plan \in (IF A = {} THEN StartAll(config) ELSE StartNamed(config, A)) :
            op = [c \in Clients |-> IF c = Main THEN Operation("up", config, config, plan) ELSE Idle]
  BY DEF Init
<1>3. PICK plan \in (IF A = {} THEN StartAll(config) ELSE StartNamed(config, A)) :
        op = [c \in Clients |-> IF c = Main THEN Operation("up", config, config, plan) ELSE Idle]
  BY <1>2
<1>4. PICK o : o = Operation("up", config, config, plan)
  OBVIOUS
<1>5. \A n \in Services : handle[n] # "running"
  BY <1>1
<1>6. MayBegin(o, config, handle)
  BY <1>1, <1>4, <1>5, BeginUp
<1>7. o \in Ops /\ o.task = NoTasks /\ OpInv(o) /\ LoneInv(o, config, handle)
  BY <1>5, <1>6 DEF MayBegin
<1>8. op = [c \in Clients |-> IF c = Main THEN o ELSE Idle]
  BY <1>3, <1>4
<1>9. OrchestrationTypeOK
  BY <1>1, <1>7, <1>8, IdleFacts DEF OrchestrationTypeOK
<1>10. \A c \in Clients : OpInv(op[c])
  BY <1>7, <1>8, IdleInv
<1>11. \A c \in Clients : LoneInv(op[c], config, handle)
  BY <1>7, <1>8, IdleFacts, IdleInv, LoneIdle
<1>12. \A c, d \in Clients : c # d => op[c].kind = "idle" \/ op[d].kind = "idle"
  BY <1>8, IdleFacts
<1>13. AliveInv
  <2>1. \A c \in Clients : op[c].task = NoTasks
    BY <1>7, <1>8, IdleFacts
  <2>2. \A n \in Services : ~Killing(n)
    BY <2>1, NoTasksFacts DEF Killing
  <2>3. \A n \in Services : alive[n] = 0
    BY <1>1
  <2> QED BY <1>5, <2>2, <2>3 DEF AliveInv
<1> QED BY <1>1, <1>5, <1>9, <1>10, <1>11, <1>12, <1>13 DEF OrchestrationInv, QuietInv

LEMMA NextInv == OrchestrationInv /\ [Next]_vars => OrchestrationInv'
<1> SUFFICES ASSUME OrchestrationInv, [Next]_vars PROVE OrchestrationInv'
  OBVIOUS
<1>1. CASE Sighup
  BY <1>1, SighupKeepsInv
<1>2. CASE Shutdown
  BY <1>2, ShutdownKeepsInv
<1>3. ASSUME NEW c \in Clients,
             Request(c) \/ NextStep(c) \/ SwapConfig(c) \/ GraphError(c) \/ Finish(c)
      PROVE  OrchestrationInv'
  BY <1>3, RequestKeepsInv, NextStepKeepsInv, SwapConfigKeepsInv, GraphErrorKeepsInv, FinishKeepsInv
<1>4. ASSUME NEW c \in Clients, NEW n \in Services,
             StartService(c, n) \/ StartReturns(c, n) \/ StopService(c, n) \/ StopReturns(c, n)
      PROVE  OrchestrationInv'
  BY <1>4, StartServiceKeepsInv, StartReturnsKeepsInv, StopServiceKeepsInv, StopReturnsKeepsInv
<1>5. CASE UNCHANGED vars
  BY <1>5 DEF vars, OrchestrationInv, OrchestrationTypeOK, QuietInv, AliveInv, Killing
<1> QED BY <1>1, <1>2, <1>3, <1>4, <1>5 DEF Next

------------------------------------------------------------------------------
(****************************** The theorems ******************************)

\* Every reachable state has the types that the operations rely on and
\* satisfies the invariant, whatever the operations, their number and their
\* interleaving (start_all, stop_all, restart_service, reload, shutdown).
THEOREM OrchestrationInvariant == Spec => []OrchestrationInv
  BY InitInv, NextInv, PTL DEF Spec

\* whatever an operation is about to start is free to start
LEMMA StartIsFree ==
    ASSUME OrchestrationInv, NEW c \in Clients, NEW n \in Services, op[c].task[n] = "start"
    PROVE  /\ op[c].cfg[n].deps \cap Unstarted(op[c]) = {}
           /\ op[c].kind = "up" => op[c].cfg[n].deps \subseteq op[c].started
<1>1. PICK o \in Ops : o = op[c]
  BY DEF OrchestrationInv, OrchestrationTypeOK
<1>2. OpInv(o)
  BY <1>1 DEF OrchestrationInv
<1>3. n \in Starting(o)
  BY <1>1 DEF Starting
<1>4. \A d \in o.cfg[n].deps : d \notin Starting(o) /\ ~Todo(o.plan, "start", d)
  BY <1>2, <1>3 DEF OpInv, TasksInv
<1>5. ASSUME NEW d \in o.cfg[n].deps, d \in Unstarted(o) PROVE FALSE
  <2>1. CASE d \in Starting(o)
    BY <1>4, <1>5, <2>1
  <2>2. CASE d \notin Starting(o)
    <3>1. PICK i \in DOMAIN o.plan : o.plan[i].verb = "start" /\ d \in o.plan[i].names
      BY <1>5, <2>2 DEF Unstarted, Starting
    <3>2. Todo(o.plan, "start", d)
      BY <3>1 DEF Todo, At
    <3> QED BY <1>4, <1>5, <3>2
  <2> QED BY <2>1, <2>2
<1>6. o.kind = "up" => o.cfg[n].deps \subseteq o.started
  BY <1>2, <1>3 DEF OpInv, UpInv
<1> QED BY <1>1, <1>5, <1>6

\* An operation starts a service only when start_service has returned for
\* all its dependencies that this operation starts as well, and `a3s up` for
\* all its dependencies, for any number of services and operations, whatever
\* the others do meanwhile.
THEOREM DepsFirstHolds == Spec => DepsFirst
<1> DEFINE A == \A c \in Clients, n \in Services :
                  op[c].task[n] = "start" /\ op'[c].task[n] = "starting" =>
                      /\ op[c].cfg[n].deps \cap Unstarted(op[c]) = {}
                      /\ op[c].kind = "up" => op[c].cfg[n].deps \subseteq op[c].started
<1>1. OrchestrationInv /\ [Next]_vars => [A]_vars
  BY StartIsFree
<1> QED BY <1>1, InitInv, NextInv, PTL DEF Spec, DepsFirst

\* With a start order, stop_all, stop_named, a restart and a shutdown stop a
\* service only after all that depends on it, for any number of services and
\* operations, whatever the others do meanwhile.
THEOREM DependentsStopFirstHolds == Spec => DependentsStopFirst
<1> DEFINE A == \A c \in Clients, n \in Services :
                  /\ op[c].kind \in {"stop", "restart", "shutdown"}
                  /\ Acyclic(op[c].cfg)
                  /\ op[c].task[n] = "stop" /\ op'[c].task[n] # "stop"
                  => Dependents(op[c].cfg, n) \subseteq op[c].stopped
<1>1. OrchestrationInv /\ [Next]_vars => [A]_vars
  BY DEF OrchestrationInv, OpInv, StopInv
<1> QED BY <1>1, InitInv, NextInv, PTL DEF Spec, DependentsStopFirst

\* what a reload that ends well has done
LEMMA ReloadDone ==
    ASSUME OrchestrationInv, NEW c \in Clients, quiet, op[c].kind = "reload", Finish(c), NEW n \in Services
    PROVE  /\ n \in Declared(op[c].old) \ Enabled(config) => alive[n] = 0
           /\ n \in Enabled(config) /\ op[c].old[n] # config[n] => alive[n] = 1
           /\ alive[n] = IF handle[n] = "running" THEN 1 ELSE 0
<1>1. PICK o \in Ops : o = op[c]
  BY DEF OrchestrationInv, OrchestrationTypeOK
<1>2. o.kind = "reload" /\ o.plan = <<>> /\ o.task = NoTasks
  BY <1>1 DEF Finish
<1>3. o.task[n] = "none" /\ DOMAIN o.plan = {}
  BY <1>2, NoTasksFacts
<1>4. /\ LoneInv(o, config, handle)
      /\ alive[n] = IF handle[n] = "running" \/ o.task[n] = "killing" THEN 1 ELSE 0
  BY <1>1, <1>2, QuietFacts
<1>5. config = o.cfg
  BY <1>2, <1>3, <1>4 DEF LoneInv, CellInv, Has
<1>6. n \in Down(o, handle) <=> handle[n] # "running"
  BY <1>3 DEF Down
<1>7. ReloadInv(o, handle)
  BY <1>4 DEF LoneInv
<1>8. n \in Gone(o.old, o.cfg) => handle[n] # "running"
  BY <1>2, <1>3, <1>6, <1>7 DEF ReloadInv
<1>9. n \in Touched(o.old, o.cfg) => handle[n] = "running"
  BY <1>2, <1>3, <1>6, <1>7 DEF ReloadInv, Has, Todo
<1>10. alive[n] = IF handle[n] = "running" THEN 1 ELSE 0
  BY <1>3, <1>4
<1>11. n \in Declared(o.old) \ Enabled(config) => n \in Gone(o.old, o.cfg)
  BY <1>5 DEF Gone, Enabled
<1>12. n \in Enabled(config) /\ o.old[n] # config[n] => n \in Touched(o.old, o.cfg)
  BY <1>5 DEF Touched
<1> QED BY <1>1, <1>8, <1>9, <1>10, <1>11, <1>12

\* When no operations overlap, a reload that succeeds leaves no process of a
\* service that is gone from the file, exactly one of each that is new or
\* changed, and one for each handle that is shown running, for any number of
\* services and any sequence of earlier operations, failed ones included.
THEOREM ReloadExactHolds == Spec => ReloadExact
<1> DEFINE A == \A c \in Clients :
                  quiet /\ op[c].kind = "reload" /\ Finish(c) =>
                      \A n \in Services :
                          /\ n \in Declared(op[c].old) \ Enabled(config) => alive[n] = 0
                          /\ n \in Enabled(config) /\ op[c].old[n] # config[n] => alive[n] = 1
                          /\ alive[n] = IF handle[n] = "running" THEN 1 ELSE 0
<1>1. OrchestrationInv /\ [Next]_vars => [A]_vars
  <2> SUFFICES ASSUME OrchestrationInv PROVE A
    OBVIOUS
  <2> QED BY ReloadDone
<1> QED BY <1>1, InitInv, NextInv, PTL DEF Spec, ReloadExact

\* When no operations overlap and the last configuration has a start order,
\* the daemon leaves no process behind when it is shut down, for any number
\* of services and any sequence of starts, stops, restarts and reloads.
THEOREM ShutdownCompleteHolds == Spec => []ShutdownComplete
<1>1. OrchestrationInv => ShutdownComplete
  BY DEF OrchestrationInv, QuietInv, ShutdownComplete
<1> QED BY <1>1, InitInv, NextInv, PTL DEF Spec
=============================================================================
