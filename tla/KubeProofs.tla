---------------------------- MODULE KubeProofs ----------------------------
(***************************************************************************)
(* For every set of services and configurations and any number of runs of  *)
(* `a3s up`, `a3s down` and `a3s restart`: disabled services are never     *)
(* deployed, a deployment refers only to what is there, it is created      *)
(* after its dependencies can run, and watched services run their present  *)
(* files.  All four rest on CoreInv: what up plans is closed and enabled,  *)
(* the commands it has left end with the wait, and down and the rebuilds   *)
(* never run while up deploys.                                             *)
(***************************************************************************)
EXTENDS KubeRuntime, SequenceTheorems, TLAPS

Commands == Kinds \cup {"build", "push", "render", "load", "wait", "restart"}

Member(q, step) == \E i \in 1 .. Len(q) : q[i] = step

\* kind comes before every deployment of the command sequence q
Before(q, kind) ==
    \A i \in 1 .. Len(q) : q[i] = "deployment" => \E j \in 1 .. (i - 1) : q[j] = kind

\* When: one command, or none
LEMMA WhenFacts ==
    ASSUME NEW cond \in BOOLEAN, NEW step \in Commands
    PROVE  /\ When(cond, step) \in Seq(Commands)
           /\ Len(When(cond, step)) = IF cond THEN 1 ELSE 0
           /\ cond => When(cond, step)[1] = step
<1>1. CASE cond
  BY <1>1 DEF When
<1>2. CASE ~cond
  BY <1>2 DEF When
<1> QED BY <1>1, <1>2

\* two command sequences, one after the other
LEMMA ConcatFacts ==
    ASSUME NEW a \in Seq(Commands), NEW b \in Seq(Commands)
    PROVE  /\ a \o b \in Seq(Commands)
           /\ Len(a \o b) = Len(a) + Len(b)
           /\ \A i \in 1 .. Len(a) : (a \o b)[i] = a[i]
           /\ \A i \in 1 .. Len(b) : (a \o b)[Len(a) + i] = b[i]
OBVIOUS

\* a command of the whole is one of either part, and at its place
LEMMA SplitFacts ==
    ASSUME NEW a \in Seq(Commands), NEW b \in Seq(Commands)
    PROVE  /\ \A i \in 1 .. Len(a \o b) :
                \/ i \in 1 .. Len(a) /\ (a \o b)[i] = a[i]
                \/ /\ i - Len(a) \in 1 .. Len(b)
                   /\ (a \o b)[i] = b[i - Len(a)]
           /\ \A step : Member(a \o b, step) <=> Member(a, step) \/ Member(b, step)
<1> DEFINE c == a \o b
<1>1. /\ c \in Seq(Commands) /\ Len(c) = Len(a) + Len(b)
      /\ \A i \in 1 .. Len(a) : c[i] = a[i]
      /\ \A i \in 1 .. Len(b) : c[Len(a) + i] = b[i]
  BY ConcatFacts
<1>2. Len(a) \in Nat /\ Len(b) \in Nat
  OBVIOUS
<1> HIDE DEF c
<1>3. \A i \in 1 .. Len(c) :
         \/ i \in 1 .. Len(a) /\ c[i] = a[i]
         \/ i - Len(a) \in 1 .. Len(b) /\ c[i] = b[i - Len(a)]
  <2> TAKE i \in 1 .. Len(c)
  <2>1. CASE i <= Len(a)
    BY <1>1, <1>2, <2>1
  <2>2. CASE i > Len(a)
    <3>1. i - Len(a) \in 1 .. Len(b)
      BY <1>1, <1>2, <2>2
    <3>2. c[Len(a) + (i - Len(a))] = b[i - Len(a)]
      BY <1>1, <3>1
    <3>3. Len(a) + (i - Len(a)) = i
      BY <1>2
    <3> QED BY <3>1, <3>2, <3>3
  <2> QED BY <1>2, <2>1, <2>2
<1>4. \A step : Member(c, step) <=> Member(a, step) \/ Member(b, step)
  <2> TAKE step
  <2>1. ASSUME Member(c, step) PROVE Member(a, step) \/ Member(b, step)
    BY <2>1, <1>3 DEF Member
  <2>2. ASSUME Member(a, step) PROVE Member(c, step)
    BY <2>2, <1>1, <1>2 DEF Member
  <2>3. ASSUME Member(b, step) PROVE Member(c, step)
    <3>1. PICK i \in 1 .. Len(b) : b[i] = step
      BY <2>3 DEF Member
    <3>2. Len(a) + i \in 1 .. Len(c) /\ c[Len(a) + i] = step
      BY <3>1, <1>1, <1>2
    <3> QED BY <3>2 DEF Member
  <2> QED BY <2>1, <2>2, <2>3
<1> QED BY <1>3, <1>4 DEF c

\* the configuration is one of those considered, and valid
CfgInv == cfg \in Configs /\ ValidDeps(cfg)

\* the fields of a service of a valid configuration
LEMMA DefFacts ==
    ASSUME CfgInv, NEW s \in Services
    PROVE  /\ Def(s) \in ServiceDefs
           /\ cfg.registry \in BOOLEAN
           /\ Def(s).deps \in SUBSET Services
           /\ Def(s).chart \in BOOLEAN /\ Def(s).dockerfile \in BOOLEAN
           /\ Def(s).disabled \in BOOLEAN /\ Def(s).watch \in BOOLEAN
           /\ HasSecret(s) \in BOOLEAN /\ HasConfigMap(s) \in BOOLEAN
<1>1. cfg.registry \in BOOLEAN /\ cfg.service \in [Services -> ServiceDefs]
  BY KubeAssumption DEF CfgInv
<1>2. Def(s) \in ServiceDefs
  BY <1>1 DEF Def
<1>3. /\ Def(s).deps \in SUBSET Services
      /\ Def(s).chart \in BOOLEAN /\ Def(s).dockerfile \in BOOLEAN
      /\ Def(s).disabled \in BOOLEAN /\ Def(s).watch \in BOOLEAN
      /\ Def(s).env \in BOOLEAN
  BY <1>2 DEF ServiceDefs
<1>4. HasConfigMap(s) \in BOOLEAN
  BY <1>3 DEF HasConfigMap
<1>5. HasSecret(s) \in BOOLEAN
  BY DEF HasSecret
<1> QED BY <1>1, <1>2, <1>3, <1>4, <1>5

\* build_and_push: the build, if there is a dockerfile, then the push
LEMMA BuildAndPushFacts ==
    ASSUME CfgInv, NEW s \in Services
    PROVE  /\ build_and_push(s) \in Seq(Commands)
           /\ \A i \in 1 .. Len(build_and_push(s)) :
                build_and_push(s)[i] = IF i = 1 THEN "build" ELSE "push"
           /\ Len(build_and_push(s)) <= 2
           /\ Def(s).dockerfile <=> Len(build_and_push(s)) >= 1
<1> DEFINE a == When(Def(s).dockerfile, "build")
           b == When(Def(s).dockerfile /\ cfg.registry, "push")
<1>1. /\ a \in Seq(Commands) /\ Len(a) = (IF Def(s).dockerfile THEN 1 ELSE 0)
      /\ Def(s).dockerfile => a[1] = "build"
  BY DefFacts, WhenFacts DEF Commands
<1>2. /\ b \in Seq(Commands) /\ Len(b) = (IF Def(s).dockerfile /\ cfg.registry THEN 1 ELSE 0)
      /\ Def(s).dockerfile /\ cfg.registry => b[1] = "push"
  <2>1. (Def(s).dockerfile /\ cfg.registry) \in BOOLEAN
    BY DefFacts
  <2> QED BY <2>1, WhenFacts DEF Commands
<1>3. build_and_push(s) = a \o b
  BY DEF build_and_push
<1> HIDE DEF a, b
<1>4. /\ a \o b \in Seq(Commands) /\ Len(a \o b) = Len(a) + Len(b)
      /\ \A i \in 1 .. Len(a) : (a \o b)[i] = a[i]
      /\ \A i \in 1 .. Len(b) : (a \o b)[Len(a) + i] = b[i]
  BY <1>1, <1>2, ConcatFacts
<1> DEFINE c == a \o b
<1> HIDE DEF c
<1>5. /\ c \in Seq(Commands) /\ Len(c) = Len(a) + Len(b)
      /\ \A i \in 1 .. Len(a) : c[i] = a[i]
      /\ \A i \in 1 .. Len(b) : c[Len(a) + i] = b[i]
  BY <1>4 DEF c
<1>6. CASE ~Def(s).dockerfile
  BY <1>1, <1>2, <1>3, <1>5, <1>6 DEF c
<1>7. CASE Def(s).dockerfile
  <2>1. Len(a) = 1 /\ c[1] = "build"
    BY <1>1, <1>5, <1>7
  <2>2. Len(b) \in {0, 1} /\ (Len(b) = 1 => c[2] = "push")
    BY <1>2, <1>5, <1>7, <2>1
  <2>3. Len(c) \in {1, 2} /\ (Len(c) = 2 => c[2] = "push")
    BY <1>5, <2>1, <2>2
  <2>4. \A i \in 1 .. Len(c) : c[i] = IF i = 1 THEN "build" ELSE "push"
    BY <2>1, <2>3
  <2> QED BY <1>3, <1>5, <1>7, <2>3, <2>4 DEF c
<1> QED BY <1>6, <1>7

\* what an applied manifest needs comes before it, and the wait comes last
Manifests(s) ==
    IF Def(s).chart THEN <<"render", "deployment", "wait">>
    ELSE <<"load">> \o When(HasSecret(s), "secret") \o When(HasConfigMap(s), "configmap")
         \o <<"deployment", "service", "wait">>

WellOrdered(s, q) ==
    /\ q \in Seq(Commands)
    /\ Len(q) > 0 /\ q[Len(q)] = "wait"
    /\ Member(q, "deployment")
    /\ ~Def(s).chart /\ HasSecret(s) => Before(q, "secret")
    /\ ~Def(s).chart /\ HasConfigMap(s) => Before(q, "configmap")

\* commands that deploy nothing may come before well-ordered ones
LEMMA PrependFacts ==
    ASSUME NEW s, NEW a \in Seq(Commands), NEW b, WellOrdered(s, b), ~Member(a, "deployment")
    PROVE  WellOrdered(s, a \o b)
<1> DEFINE c == a \o b
<1>1. b \in Seq(Commands)
  BY DEF WellOrdered
<1>2. c \in Seq(Commands) /\ Len(c) = Len(a) + Len(b)
  BY <1>1, ConcatFacts
<1>3. \A i \in 1 .. Len(a) : c[i] = a[i]
  BY <1>1, ConcatFacts
<1>4. \A i \in 1 .. Len(b) : c[Len(a) + i] = b[i]
  BY <1>1, ConcatFacts
<1>5. \A i \in 1 .. Len(c) :
         \/ i \in 1 .. Len(a) /\ c[i] = a[i]
         \/ i - Len(a) \in 1 .. Len(b) /\ c[i] = b[i - Len(a)]
  BY <1>1, SplitFacts
<1>6. Member(c, "deployment")
  BY <1>1, SplitFacts DEF WellOrdered
<1> HIDE DEF c
<1>7. Len(a) \in Nat /\ Len(b) \in Nat
  BY <1>1
<1>8. Len(c) > 0 /\ c[Len(c)] = "wait"
  BY <1>2, <1>4, <1>7 DEF WellOrdered
<1>9. ASSUME NEW kind, Before(b, kind) PROVE Before(c, kind)
  <2> SUFFICES ASSUME NEW i \in 1 .. Len(c), c[i] = "deployment"
               PROVE  \E j \in 1 .. (i - 1) : c[j] = kind
    BY DEF Before
  <2>1. i - Len(a) \in 1 .. Len(b) /\ b[i - Len(a)] = "deployment"
    BY <1>5 DEF Member
  <2>2. PICK j \in 1 .. (i - Len(a) - 1) : b[j] = kind
    BY <1>9, <2>1 DEF Before
  <2>3. j \in 1 .. Len(b) /\ Len(a) + j \in 1 .. (i - 1)
    BY <1>7, <2>1, <2>2
  <2> QED BY <1>4, <2>2, <2>3
<1> QED BY <1>2, <1>6, <1>8, <1>9 DEF WellOrdered, c

\* the manifests are applied in order: secret and configmap, deployment, wait
LEMMA ManifestFacts ==
    ASSUME CfgInv, NEW s \in Services
    PROVE  /\ WellOrdered(s, Manifests(s))
           /\ ~Member(Manifests(s), "build")
<1>1. CASE Def(s).chart
  BY <1>1 DEF Manifests, WellOrdered, Member, Commands, Kinds
<1>2. CASE ~Def(s).chart
  <2> DEFINE a == <<"load">>
             b == When(HasSecret(s), "secret")
             c == When(HasConfigMap(s), "configmap")
             d == <<"deployment", "service", "wait">>
  <2>1. /\ a \in Seq(Commands)
        /\ ~Member(a, "deployment") /\ ~Member(a, "build")
    BY DEF Member, Commands
  <2>2. /\ b \in Seq(Commands)
        /\ ~Member(b, "deployment") /\ ~Member(b, "build")
        /\ HasSecret(s) => Member(b, "secret")
    <3>1. /\ b \in Seq(Commands) /\ Len(b) = (IF HasSecret(s) THEN 1 ELSE 0)
          /\ HasSecret(s) => b[1] = "secret"
      BY DefFacts, WhenFacts DEF Commands, Kinds
    <3> QED BY <3>1 DEF Member
  <2>3. /\ c \in Seq(Commands)
        /\ ~Member(c, "deployment") /\ ~Member(c, "build")
        /\ HasConfigMap(s) => Member(c, "configmap")
    <3>1. /\ c \in Seq(Commands) /\ Len(c) = (IF HasConfigMap(s) THEN 1 ELSE 0)
          /\ HasConfigMap(s) => c[1] = "configmap"
      BY DefFacts, WhenFacts DEF Commands, Kinds
    <3> QED BY <3>1 DEF Member
  <2>4. /\ d \in Seq(Commands) /\ Len(d) = 3
        /\ d[1] = "deployment" /\ d[2] = "service" /\ d[3] = "wait"
    BY DEF Commands, Kinds
  <2>5. Manifests(s) = ((a \o b) \o c) \o d
    BY <1>2 DEF Manifests
  <2> HIDE DEF a, b, c, d
  <2> DEFINE e == (a \o b) \o c
  <2>6. /\ e \in Seq(Commands)
        /\ ~Member(e, "deployment") /\ ~Member(e, "build")
        /\ HasSecret(s) => Member(e, "secret")
        /\ HasConfigMap(s) => Member(e, "configmap")
    <3>1. /\ a \o b \in Seq(Commands)
          /\ ~Member(a \o b, "deployment") /\ ~Member(a \o b, "build")
          /\ HasSecret(s) => Member(a \o b, "secret")
      BY <2>1, <2>2, ConcatFacts, SplitFacts
    <3> QED BY <3>1, <2>3, ConcatFacts, SplitFacts
  <2> HIDE DEF e
  <2> DEFINE q == e \o d
  <2>7. /\ q \in Seq(Commands) /\ Len(q) = Len(e) + 3
        /\ \A i \in 1 .. Len(e) : q[i] = e[i]
        /\ \A i \in 1 .. 3 : q[Len(e) + i] = d[i]
    <3>1. /\ q \in Seq(Commands) /\ Len(q) = Len(e) + Len(d)
          /\ \A i \in 1 .. Len(e) : q[i] = e[i]
          /\ \A i \in 1 .. Len(d) : q[Len(e) + i] = d[i]
      BY <2>4, <2>6, ConcatFacts
    <3> HIDE DEF q
    <3> QED BY <3>1, <2>4
  <2>8. \A step : Member(q, step) <=> Member(e, step) \/ Member(d, step)
    BY <2>4, <2>6, SplitFacts
  <2>9. \A i \in 1 .. Len(q) : q[i] = "deployment" => i > Len(e)
    BY <2>6, <2>7 DEF Member
  <2> HIDE DEF q
  <2>10. Len(e) \in Nat
    BY <2>6
  <2>11. ASSUME NEW kind, Member(e, kind) PROVE Before(q, kind)
    <3>1. PICK j \in 1 .. Len(e) : e[j] = kind
      BY <2>11 DEF Member
    <3>2. \A i \in 1 .. Len(q) : q[i] = "deployment" => j \in 1 .. (i - 1) /\ q[j] = kind
      BY <2>7, <2>9, <2>10, <3>1
    <3> QED BY <3>2 DEF Before
  <2>12. Member(q, "deployment") /\ ~Member(q, "build")
    <3>1. Member(d, "deployment") /\ ~Member(d, "build")
      BY <2>4 DEF Member
    <3> QED BY <3>1, <2>6, <2>8
  <2>13. Len(q) > 0 /\ q[Len(q)] = "wait"
    BY <2>4, <2>7, <2>10
  <2>14. WellOrdered(s, q)
    BY <2>6, <2>7, <2>11, <2>12, <2>13 DEF WellOrdered
  <2>15. Manifests(s) = q
    BY <2>5 DEF q, e
  <2> QED BY <2>12, <2>14, <2>15
<1> QED BY <1>1, <1>2

\* the commands of start_service: the build first, then the manifests, each
\* after what it refers to, and the wait last
LEMMA StepsFacts ==
    ASSUME CfgInv, NEW s \in Services
    PROVE  /\ WellOrdered(s, Steps(s))
           /\ \A i \in 1 .. Len(Steps(s)) : Steps(s)[i] = "build" => i = 1
           /\ Def(s).dockerfile => Member(Steps(s), "build")
<1> DEFINE a == build_and_push(s)
           b == Manifests(s)
<1>1. Steps(s) = a \o b
  BY DEF Steps, Manifests
<1>2. a \in Seq(Commands) /\ (\A i \in 1 .. Len(a) : a[i] = IF i = 1 THEN "build" ELSE "push")
  BY BuildAndPushFacts
<1>3. Def(s).dockerfile <=> Len(a) >= 1
  BY BuildAndPushFacts
<1>4. WellOrdered(s, b) /\ ~Member(b, "build")
  BY ManifestFacts
<1> HIDE DEF a, b
<1>5. ~Member(a, "deployment")
  BY <1>2 DEF Member
<1>6. b \in Seq(Commands)
  BY <1>4 DEF WellOrdered
<1>7. \A i \in 1 .. Len(a \o b) : (a \o b)[i] = "build" => i = 1
  <2> TAKE i \in 1 .. Len(a \o b)
  <2> HAVE (a \o b)[i] = "build"
  <2>1. \/ i \in 1 .. Len(a) /\ (a \o b)[i] = a[i]
        \/ i - Len(a) \in 1 .. Len(b) /\ (a \o b)[i] = b[i - Len(a)]
    BY <1>2, <1>6, SplitFacts
  <2> QED BY <2>1, <1>2, <1>4 DEF Member
<1>8. Def(s).dockerfile => Member(a \o b, "build")
  <2>1. Def(s).dockerfile => Member(a, "build")
    BY <1>2, <1>3 DEF Member
  <2> QED BY <2>1, <1>2, <1>6, SplitFacts
<1> QED BY <1>1, <1>2, <1>4, <1>5, <1>7, <1>8, PrependFacts

------------------------------------------------------------------------------
(************************* The inductive invariants ***********************)

\* what up and down keep while they run
RunStates ==
    [pc : {"idle", "deploy", "watch", "failed", "done", "delete"}, all : SUBSET Services,
     todo : SUBSET Services, svc : SUBSET Services, steps : Seq(Commands)]

Clusters ==
    [resources : SUBSET (Kinds \X Services), rules : SUBSET Services,
     kept : SUBSET (Kinds \X Services)]

\* what is left of rebuild_and_restart; of stop_service
RebuildSteps ==
    {<<"build", "push", "restart">>, <<"build", "restart">>, <<"push", "restart">>, <<"restart">>}
DownSteps ==
    {<<"service", "deployment", "configmap", "secret">>, <<"deployment", "configmap", "secret">>,
     <<"configmap", "secret">>, <<"secret">>, <<>>}

Task(t) ==
    /\ t = [svc |-> t.svc, id |-> t.id, built |-> t.built, steps |-> t.steps]
    /\ t.svc \in Services /\ t.built \in Nat
    /\ t.steps \in RebuildSteps

TypeInv ==
    /\ CfgInv
    /\ cluster \in Clusters
    /\ pod \in [Services -> Nat] /\ image \in [Services -> Nat] /\ source \in [Services -> Nat]
    /\ up \in RunStates /\ down \in RunStates /\ down.steps \in DownSteps
    /\ events \subseteq Services /\ excused \subseteq Services
    /\ \A t \in rebuild : Task(t)

\* up deploys, watches and rebuilds one after the other; down runs only
\* while up does not deploy
Phases ==
    /\ up.steps # <<>> => up.pc = "deploy"
    /\ up.pc = "deploy" => down.pc = "idle"
    /\ down.steps # <<>> => down.pc = "delete"
    /\ up.pc # "watch" => events = {} /\ rebuild = {}

\* what up still has to run for the service it has in hand
Remaining(s) ==
    /\ s \in up.all /\ s \notin up.todo
    /\ Def(s).deps \cap (up.todo \cup {s}) = {}
    /\ up.steps[Len(up.steps)] = "wait"
    /\ \A i \in 1 .. Len(up.steps) : up.steps[i] = "build" => i = 1

InHand == up.steps # <<>> => \A s \in up.svc : Remaining(s)

DeploysClosed == up.pc = "deploy" => Closed(up.all)

\* only enabled services are in the plan of up
PlansEnabled ==
    /\ up.all \subseteq Enabled
    /\ up.todo \subseteq up.all
    /\ up.steps # <<>> => up.svc \subseteq Enabled

CoreInv == TypeInv /\ Phases /\ InHand /\ DeploysClosed /\ PlansEnabled

\* what the deployment of s refers to is there, or is applied before it
Supplied(s, kind) ==
    \A i \in 1 .. Len(up.steps) : up.steps[i] = "deployment" =>
        Has(kind, s) \/ \E j \in 1 .. (i - 1) : up.steps[j] = kind

\* down deletes what a deployment refers to only after the deployment
DownInv ==
    down.steps \in {<<"configmap", "secret">>, <<"secret">>}
    => \A s \in down.svc : Has("deployment", s) => <<"deployment", s>> \in cluster.kept

SuppliedAll ==
    up.steps # <<>> =>
       \A s \in up.svc : ~Def(s).chart =>
          /\ HasSecret(s) => Supplied(s, "secret")
          /\ HasConfigMap(s) => Supplied(s, "configmap")

\* RefsResolve for one service, by kind
Resolved(s) ==
    /\ Has("deployment", s) /\ ~Def(s).chart /\ <<"deployment", s>> \notin cluster.kept
    => /\ HasSecret(s) => Has("secret", s)
       /\ HasConfigMap(s) => Has("configmap", s)

RefsInv == DownInv /\ SuppliedAll /\ \A s \in Services : Resolved(s)

\* a service whose commands up has run to the end
Complete(s) == s \in up.all /\ s \notin up.todo /\ (s \in up.svc => up.steps = <<>>)

DepsInv == up.pc = "deploy" => \A s \in Services : Complete(s) => CanRun(s)

\* up has built the image of s; it has applied the deployment of s
Built(s) == s \in up.all /\ s \notin up.todo /\ ~(s \in up.svc /\ Member(up.steps, "build"))
Deployed(s) ==
    s \in up.all /\ s \notin up.todo /\ ~(s \in up.svc /\ Member(up.steps, "deployment"))

\* versions never run ahead of the files
NotAhead(s) == image[s] <= source[s] /\ pod[s] <= source[s]

\* a pod can only be new if the image that up has built is
ImageFirst(s) ==
    /\ up.pc = "deploy" /\ Def(s).dockerfile /\ Built(s) /\ pod[s] = source[s]
    => image[s] = source[s]

NoTask(s) == \A t \in rebuild : t.svc # s

Current(s) ==
    /\ Def(s).dockerfile /\ Deployed(s) /\ Has("deployment", s)
    /\ s \notin excused /\ s \notin events /\ NoTask(s)
    => pod[s] = source[s] /\ image[s] = source[s]

\* a rebuild without a rival builds the present files and rolls them out
TaskInv(t) ==
    t.svc \notin excused =>
        /\ \A u \in rebuild : u.svc = t.svc => u = t
        /\ Def(t.svc).dockerfile /\ t.svc \notin events =>
            /\ t.built = source[t.svc]
            /\ Head(t.steps) # "build" => image[t.svc] = source[t.svc]

FreshInv ==
    /\ up.pc = "watch" => up.todo = {}
    /\ \A s \in Services : NotAhead(s)
    /\ \A t \in rebuild : t.built <= source[t.svc]
    /\ \A s \in Services : ImageFirst(s)
    /\ \A s \in Services : Current(s)
    /\ \A t \in rebuild : TaskInv(t)

------------------------------------------------------------------------------
(******************************* The closure ******************************)

\* transitive_start_order exists, is closed under deps, and stays among the
\* enabled services because the configuration was validated
LEMMA ClosureFacts ==
    ASSUME CfgInv, NEW S, S \subseteq Enabled
    PROVE  /\ Closure(S) \subseteq Enabled
           /\ Closed(Closure(S))
<1> DEFINE Least(T) == /\ S \subseteq T /\ Closed(T)
                       /\ \A U \in SUBSET T : S \subseteq U /\ Closed(U) => U = T
           C == Closure(S)
           I == {s \in Services : \A U \in SUBSET Services : S \subseteq U /\ Closed(U) => s \in U}
<1>1. I \in SUBSET Services
  OBVIOUS
<1>2. S \subseteq I
  BY DEF Enabled
<1>3. Closed(I)
  <2> SUFFICES ASSUME NEW s \in I, NEW d \in Def(s).deps PROVE d \in I
    BY DEF Closed
  <2>1. d \in Services
    BY DefFacts
  <2>2. \A U \in SUBSET Services : S \subseteq U /\ Closed(U) => d \in U
    BY DEF Closed
  <2> QED BY <2>1, <2>2
<1>4. ASSUME NEW U \in SUBSET I, S \subseteq U, Closed(U) PROVE U = I
  BY <1>4
<1>5. Least(I)
  BY <1>2, <1>3, <1>4
<1>6. C = CHOOSE T \in SUBSET Services : Least(T)
  BY DEF Closure
<1>7. C \in SUBSET Services /\ Least(C)
  <2> HIDE DEF Least, I, C
  <2> QED BY <1>1, <1>5, <1>6
<1> HIDE DEF C, I
<1> DEFINE U == C \cap Enabled
<1>8. U \in SUBSET C /\ S \subseteq U
  BY <1>7
<1>9. Closed(U)
  <2> SUFFICES ASSUME NEW s \in U, NEW d \in Def(s).deps PROVE d \in U
    BY DEF Closed
  <2>1. d \in C /\ d \in Services
    BY <1>7 DEF Closed
  <2>2. ~Def(d).disabled
    BY <1>7 DEF CfgInv, ValidDeps, Def, Enabled
  <2> QED BY <2>1, <2>2 DEF Enabled
<1>10. U = C
  BY <1>7, <1>8, <1>9
<1> QED BY <1>7, <1>10 DEF C

------------------------------------------------------------------------------
(****************************** Type correctness **************************)

\* what up and down keep before they begin and after they end
LEMMA IdleFacts ==
    /\ Idle.pc = "idle" /\ Idle.steps = <<>>
    /\ Idle.all = {} /\ Idle.todo = {} /\ Idle.svc = {}
    /\ Idle \in RunStates
    /\ \A pc \in {"done", "failed"} :
         /\ Ended(pc) \in RunStates
         /\ Ended(pc).pc = pc /\ Ended(pc).steps = <<>>
         /\ Ended(pc).all = {} /\ Ended(pc).todo = {} /\ Ended(pc).svc = {}
<1>1. <<>> \in Seq(Commands)
  OBVIOUS
<1>2. /\ Idle.pc = "idle" /\ Idle.steps = <<>>
      /\ Idle.all = {} /\ Idle.todo = {} /\ Idle.svc = {}
  BY DEF Idle
<1>3. Idle \in RunStates
  BY <1>1 DEF Idle, RunStates
<1>4. ASSUME NEW pc \in {"done", "failed"}
      PROVE  /\ Ended(pc) \in RunStates
             /\ Ended(pc).pc = pc /\ Ended(pc).steps = <<>>
             /\ Ended(pc).all = {} /\ Ended(pc).todo = {} /\ Ended(pc).svc = {}
  BY <1>2, <1>3 DEF Ended, RunStates
<1> QED BY <1>2, <1>3, <1>4

\* the first command and the rest
LEMMA TailFacts ==
    ASSUME NEW q \in Seq(Commands), q # <<>>
    PROVE  /\ Tail(q) \in Seq(Commands) /\ Head(q) = q[1] /\ Head(q) \in Commands
           /\ Len(q) \in Nat /\ Len(q) > 0 /\ Len(Tail(q)) = Len(q) - 1
           /\ \A i \in 1 .. Len(Tail(q)) : Tail(q)[i] = q[i + 1]
           /\ \A step : Member(q, step) <=> step = Head(q) \/ Member(Tail(q), step)
<1>1. /\ Tail(q) \in Seq(Commands) /\ Head(q) = q[1] /\ Head(q) \in Commands
      /\ Len(q) \in Nat /\ Len(q) > 0 /\ Len(Tail(q)) = Len(q) - 1
      /\ \A i \in 1 .. Len(Tail(q)) : Tail(q)[i] = q[i + 1]
  OBVIOUS
<1>2. \A step : Member(q, step) <=> step = Head(q) \/ Member(Tail(q), step)
  <2> TAKE step
  <2> DEFINE r == Tail(q)
  <2>1. /\ Len(q) \in Nat /\ Len(q) > 0 /\ Len(r) = Len(q) - 1
        /\ \A i \in 1 .. Len(r) : r[i] = q[i + 1]
        /\ Head(q) = q[1]
    BY <1>1
  <2> HIDE DEF r
  <2>2. ASSUME Member(q, step), step # q[1] PROVE Member(r, step)
    <3>1. PICK i \in 1 .. Len(q) : q[i] = step
      BY <2>2 DEF Member
    <3>2. i - 1 \in 1 .. Len(r) /\ r[i - 1] = q[(i - 1) + 1] /\ (i - 1) + 1 = i
      BY <2>1, <2>2, <3>1
    <3> QED BY <3>1, <3>2 DEF Member
  <2>3. ASSUME Member(r, step) PROVE Member(q, step)
    <3>1. PICK i \in 1 .. Len(r) : r[i] = step
      BY <2>3 DEF Member
    <3>2. i + 1 \in 1 .. Len(q) /\ q[i + 1] = step
      BY <2>1, <3>1
    <3> QED BY <3>2 DEF Member
  <2>4. step = q[1] => Member(q, step)
    BY <2>1 DEF Member
  <2> QED BY <2>1, <2>2, <2>3, <2>4 DEF r
<1> QED BY <1>1, <1>2

\* a configuration that does not change keeps its definitions
LEMMA SameConfig ==
    ASSUME cfg' = cfg
    PROVE  /\ CfgInv => CfgInv'
           /\ \A s : Def(s)' = Def(s)
           /\ Enabled' = Enabled
BY DEF CfgInv, ValidDeps, Def, Enabled

\* no step changes the configuration
LEMMA ConfigKept ==
    ASSUME [Next]_vars
    PROVE  cfg' = cfg
BY DEF Next, vars, UpBegin, DownBegin, UpFail, UpIngress, UpInterrupt, DownNext, UpNext,
       UpStep, DownStep, Restart, Change, Debounced, RebuildBegin, RebuildStep, RebuildFail, Still

\* the initial states have the types
LEMMA TypeInit == Init => TypeInv
<1> SUFFICES ASSUME Init PROVE TypeInv
  OBVIOUS
<1>1. CfgInv
  BY DEF Init, CfgInv
<1>2. cluster \in Clusters
  BY DEF Init, Clusters
<1>3. pod \in [Services -> Nat] /\ image \in [Services -> Nat] /\ source \in [Services -> Nat]
  BY DEF Init, NoImage
<1>4. up \in RunStates /\ down \in RunStates /\ down.steps \in DownSteps
  BY IdleFacts DEF Init, DownSteps
<1>5. events \subseteq Services /\ excused \subseteq Services /\ \A t \in rebuild : Task(t)
  BY DEF Init
<1> QED BY <1>1, <1>2, <1>3, <1>4, <1>5 DEF TypeInv

\* the fields of what up and down keep, and changes of one of them
LEMMA RunFields ==
    ASSUME NEW u \in RunStates
    PROVE  /\ u.all \subseteq Services /\ u.todo \subseteq Services /\ u.svc \subseteq Services
           /\ u.steps \in Seq(Commands)
           /\ \A S \in SUBSET Services : [u EXCEPT !.todo = S] \in RunStates
           /\ \A pc \in {"deploy", "watch", "delete"} : [u EXCEPT !.pc = pc] \in RunStates
           /\ \A q \in Seq(Commands) : [u EXCEPT !.steps = q] \in RunStates
           /\ \A T, S \in SUBSET Services, q \in Seq(Commands) :
                [u EXCEPT !.todo = T, !.svc = S, !.steps = q] \in RunStates
BY DEF RunStates

\* run_k8s_mode fails, or plans a closed set of enabled services
LEMMA UpBeginFacts ==
    ASSUME CfgInv, NEW named \in SUBSET Services, UpBegin(named)
    PROVE  /\ up'.pc \in {"failed", "deploy"}
           /\ up'.svc = {} /\ up'.steps = <<>> /\ up'.todo = up'.all
           /\ up'.all \subseteq Enabled
           /\ Closed(up'.all)
           /\ up' \in RunStates
<1>1. CASE Targets(named) = {}
  <2>1. up' = Ended("failed")
    BY <1>1 DEF UpBegin
  <2> QED BY <2>1, IdleFacts DEF Closed
<1>2. CASE Targets(named) # {}
  <2> DEFINE order == Closure(Targets(named))
  <2>1. order \subseteq Enabled /\ Closed(order)
    BY ClosureFacts DEF Targets
  <2>2. up' = [Idle EXCEPT !.pc = "deploy", !.all = order, !.todo = order]
    BY <1>2 DEF UpBegin
  <2> HIDE DEF order
  <2>3. order \subseteq Services
    BY <2>1 DEF Enabled
  <2> QED BY <2>1, <2>2, <2>3, IdleFacts DEF RunStates
<1> QED BY <1>1, <1>2

\* applying and deleting one resource
LEMMA ResourceFacts ==
    ASSUME cluster \in Clusters, NEW s \in Services, NEW kind \in Kinds
    PROVE  /\ cluster.resources \subseteq Kinds \X Services
           /\ apply_manifest(kind, s) \in Clusters
           /\ apply_manifest(kind, s).resources = cluster.resources \cup {<<kind, s>>}
           /\ apply_manifest(kind, s).kept = cluster.kept
           /\ [cluster EXCEPT !.resources = @ \ {<<kind, s>>}] \in Clusters
           /\ [cluster EXCEPT !.kept = @ \cup {<<kind, s>>}] \in Clusters
BY DEF Clusters, apply_manifest

\* the first of the remaining commands of stop_service and of a rebuild
LEMMA ShapeFacts ==
    /\ \A q \in DownSteps : q # <<>> => Head(q) \in Kinds /\ Tail(q) \in DownSteps
    /\ \A q \in RebuildSteps : Len(q) # 1 => Tail(q) \in RebuildSteps
    /\ \A q \in RebuildSteps :
         /\ Head(q) \in {"build", "push", "restart"}
         /\ Len(q) = 1 <=> Head(q) = "restart"
         /\ Len(q) # 1 => Head(Tail(q)) # "build"
<1>1. ASSUME NEW q \in DownSteps, q # <<>> PROVE Head(q) \in Kinds /\ Tail(q) \in DownSteps
  <2>1. CASE q = <<"service", "deployment", "configmap", "secret">>
    BY <2>1 DEF Kinds, DownSteps
  <2>2. CASE q = <<"deployment", "configmap", "secret">>
    BY <2>2 DEF Kinds, DownSteps
  <2>3. CASE q = <<"configmap", "secret">>
    BY <2>3 DEF Kinds, DownSteps
  <2>4. CASE q = <<"secret">>
    BY <2>4 DEF Kinds, DownSteps
  <2> QED BY <1>1, <2>1, <2>2, <2>3, <2>4 DEF DownSteps
<1>2. ASSUME NEW q \in RebuildSteps
      PROVE  /\ Len(q) # 1 => Tail(q) \in RebuildSteps
             /\ Head(q) \in {"build", "push", "restart"}
             /\ Len(q) = 1 <=> Head(q) = "restart"
             /\ Len(q) # 1 => Head(Tail(q)) # "build"
  <2>1. CASE q = <<"build", "push", "restart">>
    BY <2>1 DEF RebuildSteps
  <2>2. CASE q = <<"build", "restart">>
    BY <2>2 DEF RebuildSteps
  <2>3. CASE q = <<"push", "restart">>
    BY <2>3 DEF RebuildSteps
  <2>4. CASE q = <<"restart">>
    BY <2>4 DEF RebuildSteps
  <2> QED BY <2>1, <2>2, <2>3, <2>4 DEF RebuildSteps
<1> QED BY <1>1, <1>2

\* rebuild_and_restart begins with the build if there is a dockerfile
LEMMA RebuildStepsFacts ==
    ASSUME CfgInv, NEW s \in Services
    PROVE  /\ build_and_push(s) \o <<"restart">> \in RebuildSteps
           /\ Def(s).dockerfile => Head(build_and_push(s) \o <<"restart">>) = "build"
<1> DEFINE a == build_and_push(s)
           q == a \o <<"restart">>
<1>1. /\ a \in Seq(Commands) /\ Len(a) <= 2
      /\ \A i \in 1 .. Len(a) : a[i] = IF i = 1 THEN "build" ELSE "push"
      /\ Def(s).dockerfile <=> Len(a) >= 1
  BY BuildAndPushFacts
<1>2. <<"restart">> \in Seq(Commands) /\ Len(<<"restart">>) = 1 /\ <<"restart">>[1] = "restart"
  BY DEF Commands
<1> HIDE DEF a
<1>3. /\ q \in Seq(Commands) /\ Len(q) = Len(a) + 1
      /\ \A i \in 1 .. Len(a) : q[i] = a[i]
      /\ q[Len(a) + 1] = "restart"
  BY <1>1, <1>2, ConcatFacts
<1> HIDE DEF q
<1>4. Len(a) = 0 \/ Len(a) = 1 \/ Len(a) = 2
  <2>1. PICK n \in Nat : n = Len(a)
    BY <1>1
  <2>2. n <= 2
    BY <1>1, <2>1
  <2>3. n = 0 \/ n = 1 \/ n = 2
    BY <2>2
  <2> QED BY <2>1, <2>3
<1>5. CASE Len(a) = 0
  <2>1. Len(q) = 1 /\ q[1] = "restart"
    BY <1>3, <1>5
  <2>2. q = <<"restart">>
    BY <1>2, <1>3, <2>1, SeqEqual
  <2> QED BY <1>1, <1>5, <2>2 DEF RebuildSteps, q, a
<1>6. CASE Len(a) = 1
  <2>1. Len(q) = 2 /\ q[1] = "build" /\ q[2] = "restart"
    BY <1>1, <1>3, <1>6
  <2>2. q = <<"build", "restart">>
    <3> DEFINE r == <<"build", "restart">>
    <3>1. r \in Seq(Commands) /\ Len(r) = 2
      BY DEF Commands
    <3>2. r[1] = "build" /\ r[2] = "restart"
      OBVIOUS
    <3> HIDE DEF r
    <3>3. \A i \in 1 .. 2 : q[i] = r[i]
      BY <2>1, <3>2
    <3>4. q = r
      BY <1>3, <2>1, <3>1, <3>3, SeqEqual
    <3> QED BY <3>4 DEF r
  <2>3. Head(q) = "build"
    BY <2>2
  <2> QED BY <2>2, <2>3 DEF RebuildSteps, q, a
<1>7. CASE Len(a) = 2
  <2>1. Len(q) = 3 /\ q[1] = "build" /\ q[2] = "push" /\ q[3] = "restart"
    BY <1>1, <1>3, <1>7
  <2>2. q = <<"build", "push", "restart">>
    <3> DEFINE r == <<"build", "push", "restart">>
    <3>1. r \in Seq(Commands) /\ Len(r) = 3
      BY DEF Commands
    <3>2. r[1] = "build" /\ r[2] = "push" /\ r[3] = "restart"
      OBVIOUS
    <3> HIDE DEF r
    <3>3. \A i \in 1 .. 3 : q[i] = r[i]
      BY <2>1, <3>2
    <3>4. q = r
      BY <1>3, <2>1, <3>1, <3>3, SeqEqual
    <3> QED BY <3>4 DEF r
  <2>3. Head(q) = "build"
    BY <2>2
  <2> QED BY <2>2, <2>3 DEF RebuildSteps, q, a
<1> QED BY <1>4, <1>5, <1>6, <1>7

\* every step keeps the types
LEMMA TypeStep ==
    ASSUME TypeInv, [Next]_vars
    PROVE  TypeInv'
<1>1. CfgInv' /\ CfgInv
  BY ConfigKept, SameConfig DEF TypeInv
<1>2. /\ cluster \in Clusters
      /\ pod \in [Services -> Nat] /\ image \in [Services -> Nat] /\ source \in [Services -> Nat]
      /\ up \in RunStates /\ down \in RunStates /\ down.steps \in DownSteps
      /\ events \subseteq Services /\ excused \subseteq Services
      /\ \A t \in rebuild : Task(t)
  BY DEF TypeInv
<1> DEFINE Goal == /\ cluster' \in Clusters
                   /\ pod' \in [Services -> Nat] /\ image' \in [Services -> Nat]
                   /\ source' \in [Services -> Nat]
                   /\ up' \in RunStates /\ down' \in RunStates /\ down'.steps \in DownSteps
                   /\ events' \subseteq Services /\ excused' \subseteq Services
                   /\ \A t \in rebuild' : Task(t)
<1> SUFFICES Goal
  BY <1>1 DEF TypeInv, Task
<1>3. ASSUME NEW named \in SUBSET Services, UpBegin(named) PROVE Goal
  <2>1. up' \in RunStates
    BY <1>1, <1>3, UpBeginFacts
  <2> QED BY <1>2, <1>3, <2>1 DEF UpBegin, Unwatched
<1>4. ASSUME NEW named \in SUBSET Services, DownBegin(named) PROVE Goal
  <2>1. down' \in RunStates /\ down'.steps \in DownSteps
    BY <1>4, IdleFacts DEF DownBegin, RunStates, DownSteps
  <2> QED BY <1>2, <1>4, <2>1 DEF DownBegin, Unwatched
<1>5. CASE UpFail
  <2>1. up' \in RunStates
    BY <1>5, IdleFacts DEF UpFail
  <2> QED BY <1>2, <1>5, <2>1 DEF UpFail, Unwatched
<1>6. CASE UpIngress
  <2>1. up' \in RunStates
    BY <1>2, <1>6, IdleFacts, RunFields DEF UpIngress
  <2>2. cluster' \in Clusters
    <3>1. IngressRules \subseteq Services
      BY DEF IngressRules
    <3>2. [cluster EXCEPT !.rules = IngressRules] \in Clusters
      BY <1>2, <3>1 DEF Clusters
    <3> QED BY <1>2, <1>6, <3>2 DEF UpIngress
  <2> QED BY <1>2, <1>6, <2>1, <2>2 DEF UpIngress, Unwatched
<1>7. CASE UpInterrupt
  <2>1. up' \in RunStates
    BY <1>7, IdleFacts DEF UpInterrupt
  <2>2. \A t \in rebuild : t.svc \in Services
    BY <1>2 DEF Task
  <2> QED BY <1>2, <1>7, <2>1, <2>2 DEF UpInterrupt
<1>8. CASE DownNext
  <2>1. \A s : Deletions(s) \in Seq(Commands) /\ Deletions(s) \in DownSteps
    BY DEF Deletions, Commands, Kinds, DownSteps
  <2>2. down' \in RunStates /\ down'.steps \in DownSteps
    <3>1. CASE down.todo = {} /\ down' = Idle
      BY <3>1, IdleFacts DEF DownSteps
    <3>2. CASE \E s \in down.todo :
               down' = [down EXCEPT !.todo = @ \ {s}, !.svc = {s}, !.steps = Deletions(s)]
      <4>1. PICK s \in down.todo :
                down' = [down EXCEPT !.todo = @ \ {s}, !.svc = {s}, !.steps = Deletions(s)]
        BY <3>2
      <4>2. s \in Services
        BY <1>2, RunFields
      <4> QED BY <1>2, <2>1, <4>1, <4>2 DEF RunStates
    <3> QED BY <1>8, <3>1, <3>2 DEF DownNext
  <2> QED BY <1>2, <1>8, <2>2 DEF DownNext, Unwatched
<1>9. ASSUME NEW s \in Services, UpNext(s) PROVE Goal
  <2>1. Steps(s) \in Seq(Commands)
    BY <1>1, StepsFacts DEF WellOrdered
  <2>2. up' \in RunStates
    BY <1>2, <1>9, <2>1, RunFields DEF UpNext
  <2> QED BY <1>2, <1>9, <2>2 DEF UpNext, Unwatched
<1>10. ASSUME NEW s \in Services, UpStep(s) PROVE Goal
  <2>1. up' \in RunStates
    BY <1>2, <1>10, RunFields, TailFacts DEF UpStep
  <2>2. cluster' \in Clusters
    BY <1>2, <1>10, ResourceFacts DEF UpStep
  <2>3. image' \in [Services -> Nat]
    BY <1>2, <1>10 DEF UpStep, build_image
  <2>4. pod' \in [Services -> Nat]
    BY <1>2, <1>10 DEF UpStep
  <2>5. excused' \subseteq Services
    BY <1>2, <1>10 DEF UpStep
  <2> QED BY <1>2, <1>10, <2>1, <2>2, <2>3, <2>4, <2>5 DEF UpStep, Unwatched
<1>11. ASSUME NEW s \in Services, DownStep(s) PROVE Goal
  <2>0. down.steps # <<>> /\ down' = [down EXCEPT !.steps = Tail(@)]
    BY <1>11 DEF DownStep
  <2>2. Head(down.steps) \in Kinds /\ Tail(down.steps) \in DownSteps
    BY <1>2, <2>0, ShapeFacts
  <2>1. down' \in RunStates /\ down'.steps \in DownSteps
    <3>1. down.steps \in Seq(Commands)
      BY <1>2, RunFields
    <3>2. Tail(down.steps) \in Seq(Commands)
      BY <2>0, <3>1, TailFacts
    <3> QED BY <1>2, <2>0, <2>2, <3>2 DEF RunStates
  <2>3. cluster' \in Clusters
    <3>1. PICK kind \in Kinds : kind = Head(down.steps)
      BY <2>2
    <3>2. \/ cluster' = [cluster EXCEPT !.resources = @ \ {<<kind, s>>}]
          \/ cluster' = [cluster EXCEPT !.kept = @ \cup {<<kind, s>>}]
      BY <1>11, <3>1 DEF DownStep
    <3> QED BY <1>2, <3>2, ResourceFacts
  <2>4. pod' \in [Services -> Nat]
    BY <1>2, <1>11 DEF DownStep, NoImage
  <2> QED BY <1>2, <1>11, <2>1, <2>3, <2>4 DEF DownStep, Unwatched
<1>12. ASSUME NEW s \in Services, Restart(s) PROVE Goal
  BY <1>2, <1>12 DEF Restart, rollout_restart, Still
<1>13. ASSUME NEW s \in Services, Change(s) PROVE Goal
  <2>1. source' \in [Services -> Nat]
    BY <1>2, <1>13 DEF Change
  <2>2. events' \subseteq Services /\ excused' \subseteq Services
    BY <1>2, <1>13 DEF Change
  <2> QED BY <1>2, <1>13, <2>1, <2>2 DEF Change, Still
<1>14. ASSUME NEW s \in Services, Debounced(s) PROVE Goal
  BY <1>2, <1>14 DEF Debounced, Still
<1>15. ASSUME NEW s \in Services, RebuildBegin(s) PROVE Goal
  <2>1. build_and_push(s) \o <<"restart">> \in RebuildSteps
    BY <1>1, RebuildStepsFacts
  <2>2. PICK id : rebuild' = rebuild \cup {[svc |-> s, id |-> id, built |-> source[s],
                                steps |-> build_and_push(s) \o <<"restart">>]}
    BY <1>15 DEF RebuildBegin
  <2>3. \A t \in rebuild' : Task(t)
    <3> DEFINE q == build_and_push(s) \o <<"restart">>
               t == [svc |-> s, id |-> id, built |-> source[s], steps |-> q]
    <3>1. q \in RebuildSteps /\ rebuild' = rebuild \cup {t}
      BY <2>1, <2>2
    <3> HIDE DEF q
    <3>2. Task(t)
      BY <1>2, <3>1 DEF Task
    <3> QED BY <1>2, <3>1, <3>2
  <2>4. events' \subseteq Services /\ excused' \subseteq Services
    BY <1>2, <1>15 DEF RebuildBegin
  <2> QED BY <1>2, <1>15, <2>3, <2>4 DEF RebuildBegin, Still
<1>16. ASSUME NEW t \in rebuild, RebuildStep(t) PROVE Goal
  <2>1. Task(t) /\ t.svc \in Services /\ t.built \in Nat
    BY <1>2 DEF Task
  <2>2. \A u \in rebuild' : Task(u)
    <3>1. CASE Len(t.steps) = 1
      BY <1>2, <1>16, <3>1 DEF RebuildStep, Advance
    <3>2. CASE Len(t.steps) # 1
      <4> DEFINE q == Tail(t.steps)
                 u == [t EXCEPT !.steps = q]
      <4>1. q \in RebuildSteps
        BY <2>1, <3>2, ShapeFacts DEF Task
      <4>2. rebuild' = (rebuild \ {t}) \cup {u}
        BY <1>16, <3>2 DEF RebuildStep, Advance
      <4> HIDE DEF q
      <4>3. Task(u)
        BY <2>1, <4>1 DEF Task
      <4> QED BY <1>2, <4>2, <4>3
    <3> QED BY <3>1, <3>2
  <2>3. up' \in RunStates /\ down' \in RunStates /\ down'.steps \in DownSteps
    BY <1>2, <1>16 DEF RebuildStep, Still
  <2>4. image' \in [Services -> Nat]
    BY <1>2, <1>16, <2>1 DEF RebuildStep, build_image
  <2>5. pod' \in [Services -> Nat]
    BY <1>2, <1>16, <2>1 DEF RebuildStep, rollout_restart
  <2> QED BY <1>2, <1>16, <2>2, <2>3, <2>4, <2>5 DEF RebuildStep, Still
<1>17. ASSUME NEW t \in rebuild, RebuildFail(t) PROVE Goal
  <2>1. t.svc \in Services
    BY <1>2 DEF Task
  <2> QED BY <1>2, <1>17, <2>1 DEF RebuildFail, Still
<1>18. CASE UNCHANGED vars
  BY <1>2, <1>18 DEF vars
<1> QED
  BY <1>3, <1>4, <1>5, <1>6, <1>7, <1>8, <1>9, <1>10, <1>11, <1>12, <1>13, <1>14,
     <1>15, <1>16, <1>17, <1>18 DEF Next

\* The Kubernetes runtime keeps its types, the shapes of the command sequences
\* that stop_service and rebuild_and_restart have left included.
THEOREM KubeTypeCorrect == Spec => []TypeInv
<1>1. TypeInv /\ [Next]_vars => TypeInv'
  BY TypeStep
<1> QED BY TypeInit, <1>1, PTL DEF Spec

------------------------------------------------------------------------------
(*************************** The plan of `a3s up` *************************)

\* the ways a step may change what up keeps
Begins ==
    /\ up'.pc \in {"failed", "deploy"} /\ up.pc \in {"idle", "failed", "done"}
    /\ down.pc = "idle" /\ down' = down
    /\ up'.svc = {} /\ up'.steps = <<>> /\ up'.todo = up'.all
    /\ up'.all \subseteq Enabled /\ Closed(up'.all)
Ends ==
    /\ up'.pc \in {"failed", "done"} /\ up'.steps = <<>>
    /\ up'.all = {} /\ up'.todo = {} /\ up'.svc = {}
Watches ==
    /\ up.pc = "deploy" /\ up.todo = {} /\ up.steps = <<>>
    /\ up'.pc = "watch" /\ up'.steps = <<>>
    /\ up'.all = up.all /\ up'.todo = up.todo /\ up'.svc = up.svc
Takes(s) ==
    /\ UpNext(s)
    /\ up'.pc = up.pc /\ up'.all = up.all
    /\ up'.todo = up.todo \ {s} /\ up'.svc = {s} /\ up'.steps = Steps(s)
Runs(s) ==
    /\ UpStep(s)
    /\ up'.pc = up.pc /\ up'.all = up.all /\ up'.todo = up.todo /\ up'.svc = up.svc
    /\ up'.steps = Tail(up.steps)

\* every step changes what up keeps in one of these ways, or not at all
LEMMA UpEffects ==
    ASSUME TypeInv, [Next]_vars
    PROVE  \/ up' = up
           \/ Begins \/ Ends \/ Watches
           \/ \E s \in Services : Takes(s) \/ Runs(s)
<1>1. CfgInv /\ up \in RunStates
  BY DEF TypeInv
<1>2. ASSUME NEW named \in SUBSET Services, UpBegin(named) PROVE Begins
  BY <1>1, <1>2, UpBeginFacts DEF UpBegin, Begins
<1>3. ASSUME NEW named \in SUBSET Services, DownBegin(named) PROVE up' = up
  BY <1>3 DEF DownBegin
<1>4. ASSUME UpFail PROVE Ends
  BY <1>4, IdleFacts DEF UpFail, Ends
<1>5. ASSUME UpIngress PROVE Ends \/ Watches
  <2>1. CASE up' = Ended("done")
    BY <2>1, IdleFacts DEF Ends
  <2>2. CASE up' = Ended("failed")
    BY <2>2, IdleFacts DEF Ends
  <2>3. CASE up' = [up EXCEPT !.pc = "watch"]
    BY <1>1, <1>5, <2>3 DEF Watches, UpIngress, RunStates
  <2> QED BY <1>5, <2>1, <2>2, <2>3 DEF UpIngress
<1>6. ASSUME UpInterrupt PROVE Ends
  BY <1>6, IdleFacts DEF UpInterrupt, Ends
<1>7. ASSUME DownNext PROVE up' = up
  BY <1>7 DEF DownNext
<1>8. ASSUME NEW s \in Services, UpNext(s) PROVE Takes(s)
  <2>1. up' = [up EXCEPT !.todo = @ \ {s}, !.svc = {s}, !.steps = Steps(s)]
    BY <1>8 DEF UpNext
  <2> QED BY <1>1, <1>8, <2>1 DEF Takes, RunStates
<1>9. ASSUME NEW s \in Services, UpStep(s) PROVE Runs(s)
  <2>1. up' = [up EXCEPT !.steps = Tail(@)]
    BY <1>9 DEF UpStep
  <2> QED BY <1>1, <1>9, <2>1 DEF Runs, RunStates
<1>10. ASSUME NEW s \in Services,
              DownStep(s) \/ Restart(s) \/ Change(s) \/ Debounced(s) \/ RebuildBegin(s)
       PROVE  up' = up
  BY <1>10 DEF DownStep, Restart, Change, Debounced, RebuildBegin, Still
<1>11. ASSUME NEW t \in rebuild, RebuildStep(t) \/ RebuildFail(t) PROVE up' = up
  BY <1>11 DEF RebuildStep, RebuildFail, Still
<1>12. ASSUME UNCHANGED vars PROVE up' = up
  BY <1>12 DEF vars
<1> QED
  BY <1>2, <1>3, <1>4, <1>5, <1>6, <1>7, <1>8, <1>9, <1>10, <1>11, <1>12 DEF Next

\* every step keeps up, down and the rebuilds apart
LEMMA PhasesStep ==
    ASSUME TypeInv, Phases, [Next]_vars
    PROVE  Phases'
<1>1. CfgInv /\ up \in RunStates /\ down \in RunStates
  BY DEF TypeInv
<1>2. /\ up.steps # <<>> => up.pc = "deploy"
      /\ up.pc = "deploy" => down.pc = "idle"
      /\ down.steps # <<>> => down.pc = "delete"
      /\ up.pc # "watch" => events = {} /\ rebuild = {}
  BY DEF Phases
<1> DEFINE Goal == /\ up'.steps # <<>> => up'.pc = "deploy"
                   /\ up'.pc = "deploy" => down'.pc = "idle"
                   /\ down'.steps # <<>> => down'.pc = "delete"
                   /\ up'.pc # "watch" => events' = {} /\ rebuild' = {}
<1> SUFFICES Goal
  BY DEF Phases
<1>3. ASSUME NEW named \in SUBSET Services, UpBegin(named) PROVE Goal
  <2>1. /\ up'.pc \in {"failed", "deploy"} /\ up'.steps = <<>>
    BY <1>1, <1>3, UpBeginFacts
  <2>2. /\ up.pc # "watch" /\ down.pc = "idle" /\ down' = down
        /\ events' = events /\ rebuild' = rebuild
    BY <1>3 DEF UpBegin, Unwatched
  <2> QED BY <1>2, <2>1, <2>2
<1>4. ASSUME NEW named \in SUBSET Services, DownBegin(named) PROVE Goal
  <2>1. /\ up.pc # "deploy" /\ up' = up /\ events' = events /\ rebuild' = rebuild
        /\ down'.steps = <<>>
    BY <1>4, IdleFacts DEF DownBegin, Unwatched, RunStates
  <2> QED BY <1>2, <2>1
<1>5. CASE UpFail
  <2>1. /\ up'.pc = "failed" /\ up'.steps = <<>> /\ up.steps # <<>>
        /\ down' = down /\ events' = events /\ rebuild' = rebuild
    BY <1>5, IdleFacts DEF UpFail, Unwatched
  <2> QED BY <1>2, <2>1
<1>6. CASE UpIngress
  <2>1. /\ up.pc = "deploy" /\ down' = down /\ events' = events /\ rebuild' = rebuild
    BY <1>6 DEF UpIngress, Unwatched
  <2>2. up'.steps = <<>> /\ up'.pc # "deploy"
    <3>1. CASE up' = Ended("done")
      BY <3>1, IdleFacts
    <3>2. CASE up' = Ended("failed")
      BY <3>2, IdleFacts
    <3>3. CASE up' = [up EXCEPT !.pc = "watch"]
      BY <1>1, <1>6, <3>3 DEF UpIngress, RunStates
    <3> QED BY <1>6, <3>1, <3>2, <3>3 DEF UpIngress
  <2> QED BY <1>2, <2>1, <2>2
<1>7. CASE UpInterrupt
  <2>1. /\ up'.pc = "done" /\ up'.steps = <<>>
        /\ down' = down /\ events' = {} /\ rebuild' = {}
    BY <1>7, IdleFacts DEF UpInterrupt
  <2> QED BY <1>2, <2>1
<1>8. CASE DownNext
  <2>1. /\ up' = up /\ events' = events /\ rebuild' = rebuild /\ down.pc = "delete"
    BY <1>8 DEF DownNext, Unwatched
  <2>2. down'.steps # <<>> => down'.pc = "delete"
    <3>1. CASE down' = Idle
      BY <3>1, IdleFacts
    <3>2. CASE \E s \in down.todo :
               down' = [down EXCEPT !.todo = @ \ {s}, !.svc = {s}, !.steps = Deletions(s)]
      BY <1>1, <2>1, <3>2 DEF RunStates
    <3> QED BY <1>8, <3>1, <3>2 DEF DownNext
  <2> QED BY <1>2, <2>1, <2>2
<1>9. ASSUME NEW s \in Services, UpNext(s) PROVE Goal
  <2>1. /\ up.pc = "deploy" /\ down' = down /\ events' = events /\ rebuild' = rebuild
        /\ up' = [up EXCEPT !.todo = @ \ {s}, !.svc = {s}, !.steps = Steps(s)]
    BY <1>9 DEF UpNext, Unwatched
  <2>2. up'.pc = "deploy"
    BY <1>1, <2>1 DEF RunStates
  <2> QED BY <1>2, <2>1, <2>2
<1>10. ASSUME NEW s \in Services, UpStep(s) PROVE Goal
  <2>1. /\ up.steps # <<>> /\ down' = down /\ events' = events /\ rebuild' = rebuild
        /\ up' = [up EXCEPT !.steps = Tail(@)]
    BY <1>10 DEF UpStep, Unwatched
  <2>2. up'.pc = "deploy"
    BY <1>1, <1>2, <2>1 DEF RunStates
  <2> QED BY <1>2, <2>1, <2>2
<1>11. ASSUME NEW s \in Services, DownStep(s) PROVE Goal
  <2>1. /\ down.steps # <<>> /\ up' = up /\ events' = events /\ rebuild' = rebuild
        /\ down' = [down EXCEPT !.steps = Tail(@)]
    BY <1>11 DEF DownStep, Unwatched
  <2>2. down'.pc = down.pc
    BY <1>1, <2>1 DEF RunStates
  <2> QED BY <1>2, <2>1, <2>2
<1>12. ASSUME NEW s \in Services, Restart(s) \/ Debounced(s) PROVE Goal
  BY <1>2, <1>12 DEF Restart, Debounced, Still
<1>13. ASSUME NEW s \in Services, Change(s) PROVE Goal
  <2>1. up' = up /\ down' = down /\ rebuild' = rebuild /\ (up.pc # "watch" => events' = events)
    BY <1>13 DEF Change, Still
  <2> QED BY <1>2, <2>1
<1>14. ASSUME NEW s \in Services, RebuildBegin(s) PROVE Goal
  <2>1. up' = up /\ down' = down /\ events # {}
    BY <1>14 DEF RebuildBegin, Still
  <2> QED BY <1>2, <2>1
<1>15. ASSUME NEW t \in rebuild, RebuildStep(t) \/ RebuildFail(t) PROVE Goal
  <2>1. up' = up /\ down' = down /\ rebuild # {}
    BY <1>15 DEF RebuildStep, RebuildFail, Still
  <2> QED BY <1>2, <2>1
<1>16. CASE UNCHANGED vars
  BY <1>2, <1>16 DEF vars
<1> QED
  BY <1>3, <1>4, <1>5, <1>6, <1>7, <1>8, <1>9, <1>10, <1>11, <1>12, <1>13, <1>14,
     <1>15, <1>16 DEF Next

\* every step keeps the plan of up closed, enabled and in order
LEMMA PlansStep ==
    ASSUME CoreInv, [Next]_vars
    PROVE  (InHand /\ DeploysClosed /\ PlansEnabled)'
<1>1. /\ TypeInv /\ Phases /\ InHand /\ DeploysClosed /\ PlansEnabled
      /\ CfgInv /\ up \in RunStates
  BY DEF CoreInv, TypeInv
<1>2. cfg' = cfg /\ Enabled' = Enabled /\ \A s : Def(s)' = Def(s)
  BY ConfigKept, SameConfig
<1>3. \A S : Closed(S) => \A s \in S : Def(s)'.deps \subseteq S
  BY <1>2 DEF Closed
<1>4. CASE up' = up
  <2>1. InHand'
    BY <1>1, <1>2, <1>4 DEF InHand, Remaining
  <2>2. DeploysClosed'
    BY <1>1, <1>2, <1>4 DEF DeploysClosed, Closed
  <2>3. PlansEnabled'
    BY <1>1, <1>2, <1>4 DEF PlansEnabled
  <2> QED BY <2>1, <2>2, <2>3
<1>5. CASE Begins
  <2>1. InHand' /\ PlansEnabled'
    BY <1>2, <1>5 DEF Begins, InHand, PlansEnabled
  <2>2. DeploysClosed'
    BY <1>3, <1>5 DEF Begins, DeploysClosed, Closed
  <2> QED BY <2>1, <2>2
<1>6. CASE Ends
  BY <1>6 DEF Ends, InHand, DeploysClosed, PlansEnabled, Closed
<1>7. CASE Watches
  <2>1. InHand' /\ PlansEnabled'
    BY <1>1, <1>2, <1>7 DEF Watches, InHand, PlansEnabled
  <2>2. DeploysClosed'
    BY <1>7 DEF Watches, DeploysClosed
  <2> QED BY <2>1, <2>2
<1>8. ASSUME NEW s \in Services, Takes(s)
      PROVE  (InHand /\ DeploysClosed /\ PlansEnabled)'
  <2>1. /\ up'.pc = up.pc /\ up'.all = up.all
        /\ up'.todo = up.todo \ {s} /\ up'.svc = {s} /\ up'.steps = Steps(s)
        /\ s \in up.todo /\ Def(s).deps \cap up.todo = {}
    BY <1>8 DEF Takes, UpNext
  <2>2. DeploysClosed'
    BY <1>1, <1>3, <2>1 DEF DeploysClosed, Closed
  <2>3. PlansEnabled'
    BY <1>1, <1>2, <2>1 DEF PlansEnabled
  <2>4. /\ Steps(s)[Len(Steps(s))] = "wait"
        /\ \A i \in 1 .. Len(Steps(s)) : Steps(s)[i] = "build" => i = 1
    BY <1>1, StepsFacts DEF WellOrdered
  <2>5. Remaining(s)'
    BY <1>1, <1>2, <2>1, <2>4 DEF Remaining, PlansEnabled
  <2>6. InHand'
    BY <2>1, <2>5 DEF InHand
  <2> QED BY <2>2, <2>3, <2>6
<1>9. ASSUME NEW s \in Services, Runs(s)
      PROVE  (InHand /\ DeploysClosed /\ PlansEnabled)'
  <2>1. /\ up'.pc = up.pc /\ up'.all = up.all /\ up'.todo = up.todo /\ up'.svc = up.svc
        /\ up'.steps = Tail(up.steps) /\ up.steps # <<>> /\ up.svc = {s}
    BY <1>9 DEF Runs, UpStep
  <2>2. DeploysClosed'
    BY <1>1, <1>3, <2>1 DEF DeploysClosed, Closed
  <2>3. PlansEnabled'
    BY <1>1, <1>2, <2>1 DEF PlansEnabled
  <2>4. Remaining(s)
    BY <1>1, <2>1 DEF InHand
  <2> DEFINE q == up.steps
             r == Tail(q)
  <2>5. /\ Len(q) \in Nat /\ Len(q) > 0 /\ Len(r) = Len(q) - 1
        /\ \A i \in 1 .. Len(r) : r[i] = q[i + 1]
        /\ r \in Seq(Commands)
    BY <1>1, <2>1, TailFacts, RunFields
  <2>6. ASSUME up'.steps # <<>> PROVE Remaining(s)'
    <3>1. up'.steps = r /\ r # <<>>
      BY <2>1, <2>6
    <3> HIDE DEF r
    <3>2. Len(r) > 0 /\ Len(r) \in Nat
      BY <2>5, <3>1
    <3>3. r[Len(r)] = "wait"
      BY <2>4, <2>5, <3>2 DEF Remaining
    <3>4. \A i \in 1 .. Len(r) : r[i] = "build" => i = 1
      BY <2>4, <2>5 DEF Remaining
    <3> QED BY <1>2, <2>1, <2>4, <3>1, <3>3, <3>4 DEF Remaining
  <2>7. InHand'
    BY <2>1, <2>6 DEF InHand
  <2> QED BY <2>2, <2>3, <2>7
<1> QED BY <1>1, <1>4, <1>5, <1>6, <1>7, <1>8, <1>9, UpEffects

\* CoreInv holds initially
LEMMA CoreInit == Init => CoreInv
<1> SUFFICES ASSUME Init PROVE CoreInv
  OBVIOUS
<1>1. up = Idle /\ down = Idle /\ events = {} /\ rebuild = {}
  BY DEF Init
<1>2. TypeInv
  BY TypeInit
<1>3. Phases /\ InHand /\ DeploysClosed /\ PlansEnabled
  BY <1>1, IdleFacts DEF Phases, InHand, DeploysClosed, PlansEnabled
<1> QED BY <1>2, <1>3 DEF CoreInv

\* every step keeps CoreInv
LEMMA CoreStep ==
    ASSUME CoreInv, [Next]_vars
    PROVE  CoreInv'
<1>1. TypeInv'
  BY TypeStep DEF CoreInv
<1>2. Phases'
  BY PhasesStep DEF CoreInv
<1> QED BY <1>1, <1>2, PlansStep DEF CoreInv

------------------------------------------------------------------------------
(****************************** The resources *****************************)

\* the ways a step may change the resources in the cluster
Untouched == cluster'.resources = cluster.resources /\ cluster'.kept = cluster.kept
Applies(s, kind) ==
    /\ UpStep(s) /\ Head(up.steps) = kind
    /\ cluster'.resources = cluster.resources \cup {<<kind, s>>}
    /\ cluster'.kept = cluster.kept
Deletes(s, kind) ==
    /\ DownStep(s) /\ Head(down.steps) = kind
    /\ \/ /\ cluster'.resources = cluster.resources \ {<<kind, s>>}
          /\ cluster'.kept = cluster.kept
       \/ /\ cluster'.resources = cluster.resources
          /\ cluster'.kept = cluster.kept \cup {<<kind, s>>}

\* every step changes the resources in one of these ways, or not at all
LEMMA ClusterEffects ==
    ASSUME TypeInv, [Next]_vars
    PROVE  \/ Untouched /\ ~\E s \in Services : DownStep(s)
           \/ \E s \in Services, kind \in Kinds : Applies(s, kind) \/ Deletes(s, kind)
<1>1. cluster \in Clusters /\ down.steps \in DownSteps /\ up \in RunStates
  BY DEF TypeInv
<1>2. ASSUME NEW s \in Services, DownStep(s)
      PROVE  \E kind \in Kinds : Deletes(s, kind)
  <2>1. PICK kind \in Kinds : kind = Head(down.steps)
    BY <1>1, <1>2, ShapeFacts DEF DownStep
  <2>2. \/ cluster' = [cluster EXCEPT !.resources = @ \ {<<kind, s>>}]
        \/ cluster' = [cluster EXCEPT !.kept = @ \cup {<<kind, s>>}]
    BY <1>2, <2>1 DEF DownStep
  <2>3. Deletes(s, kind)
    BY <1>1, <1>2, <2>1, <2>2 DEF Deletes, Clusters
  <2> QED BY <2>3
<1>3. ASSUME NEW s \in Services, UpStep(s)
      PROVE  Untouched \/ \E kind \in Kinds : Applies(s, kind)
  <2>1. CASE Head(up.steps) \in Kinds
    <3>1. PICK kind \in Kinds : kind = Head(up.steps)
      BY <2>1
    <3>2. cluster' = apply_manifest(kind, s)
      BY <1>3, <3>1 DEF UpStep
    <3>3. Applies(s, kind)
      BY <1>1, <1>3, <3>1, <3>2, ResourceFacts DEF Applies
    <3> QED BY <3>3
  <2>2. CASE Head(up.steps) \notin Kinds
    BY <1>3, <2>2 DEF UpStep, Untouched
  <2> QED BY <2>1, <2>2
<1>4. ASSUME UpIngress PROVE Untouched
  BY <1>1, <1>4 DEF UpIngress, Untouched, Clusters
<1>5. ASSUME NEW named \in SUBSET Services, UpBegin(named) \/ DownBegin(named) PROVE Untouched
  BY <1>5 DEF UpBegin, DownBegin, Untouched
<1>6. ASSUME UpFail \/ UpInterrupt \/ DownNext PROVE Untouched
  BY <1>6 DEF UpFail, UpInterrupt, DownNext, Untouched
<1>7. ASSUME NEW s \in Services,
             UpNext(s) \/ Restart(s) \/ Change(s) \/ Debounced(s) \/ RebuildBegin(s)
      PROVE  Untouched
  BY <1>7 DEF UpNext, Restart, Change, Debounced, RebuildBegin, Untouched, Still
<1>8. ASSUME NEW t \in rebuild, RebuildStep(t) \/ RebuildFail(t) PROVE Untouched
  BY <1>8 DEF RebuildStep, RebuildFail, Untouched, Still
<1>9. ASSUME UNCHANGED vars PROVE Untouched
  BY <1>9 DEF vars, Untouched
<1>10. CASE \E s \in Services : DownStep(s)
  BY <1>2, <1>10
<1>11. CASE ~\E s \in Services : DownStep(s)
  BY <1>3, <1>4, <1>5, <1>6, <1>7, <1>8, <1>9, <1>11 DEF Next
<1> QED
  BY <1>10, <1>11

\* up applies resources of planned services only, and these are enabled
LEMMA DisabledStep ==
    ASSUME CoreInv, DisabledNeverDeployed, [Next]_vars
    PROVE  DisabledNeverDeployed'
<1>1. \A s : Def(s)' = Def(s)
  BY ConfigKept, SameConfig
<1> SUFFICES ASSUME NEW r \in cluster'.resources PROVE ~Def(r[2]).disabled
  BY <1>1 DEF DisabledNeverDeployed
<1>2. CASE r \in cluster.resources
  BY <1>2 DEF DisabledNeverDeployed
<1>3. CASE r \notin cluster.resources
  <2>1. PICK s \in Services, kind \in Kinds : Applies(s, kind) \/ Deletes(s, kind)
    BY <1>3, ClusterEffects DEF CoreInv, Untouched
  <2>2. UpStep(s) /\ r = <<kind, s>>
    BY <1>3, <2>1 DEF Applies, Deletes
  <2>3. s \in Enabled
    BY <2>2 DEF UpStep, CoreInv, PlansEnabled
  <2> QED BY <2>2, <2>3 DEF Enabled
<1> QED BY <1>2, <1>3

\* For every configuration: no resource of a disabled service is created.
THEOREM DisabledNeverDeployedHolds == Spec => []DisabledNeverDeployed
<1> DEFINE Inv == CoreInv /\ DisabledNeverDeployed
<1>1. Init => Inv
  BY CoreInit DEF Init, DisabledNeverDeployed
<1>2. Inv /\ [Next]_vars => Inv'
  BY CoreStep, DisabledStep
<1> QED BY <1>1, <1>2, PTL DEF Spec

------------------------------------------------------------------------------
(**************************** References resolve **************************)

\* the down command: which steps it may have left after a step
LEMMA DownEffects ==
    ASSUME TypeInv, [Next]_vars
    PROVE  \/ down' = down /\ ~\E s \in Services : DownStep(s)
           \/ \/ down'.steps = <<>>
              \/ down'.steps = <<"service", "deployment", "configmap", "secret">>
           \/ \E s \in Services : DownStep(s)
<1> SUFFICES ASSUME ~\E s \in Services : DownStep(s)
             PROVE  \/ down' = down \/ down'.steps = <<>>
                    \/ down'.steps = <<"service", "deployment", "configmap", "secret">>
  OBVIOUS
<1>1. down \in RunStates
  BY DEF TypeInv
<1>2. ASSUME NEW named \in SUBSET Services, DownBegin(named) PROVE down'.steps = <<>>
  BY <1>2, IdleFacts DEF DownBegin, RunStates
<1>3. ASSUME DownNext
      PROVE  \/ down'.steps = <<>>
             \/ down'.steps = <<"service", "deployment", "configmap", "secret">>
  <2>1. CASE down' = Idle
    BY <2>1, IdleFacts
  <2>2. CASE \E s \in down.todo :
             down' = [down EXCEPT !.todo = @ \ {s}, !.svc = {s}, !.steps = Deletions(s)]
    BY <1>1, <2>2 DEF RunStates, Deletions
  <2> QED BY <1>3, <2>1, <2>2 DEF DownNext
<1>4. ASSUME NEW named \in SUBSET Services, UpBegin(named) PROVE down' = down
  BY <1>4 DEF UpBegin
<1>5. ASSUME UpFail \/ UpIngress \/ UpInterrupt PROVE down' = down
  BY <1>5 DEF UpFail, UpIngress, UpInterrupt
<1>6. ASSUME NEW s \in Services, \/ UpNext(s) \/ UpStep(s) \/ Restart(s)
                                 \/ Change(s) \/ Debounced(s) \/ RebuildBegin(s)
      PROVE  down' = down
  BY <1>6 DEF UpNext, UpStep, Restart, Change, Debounced, RebuildBegin, Still
<1>7. ASSUME NEW t \in rebuild, RebuildStep(t) \/ RebuildFail(t) PROVE down' = down
  BY <1>7 DEF RebuildStep, RebuildFail, Still
<1>8. ASSUME UNCHANGED vars PROVE down' = down
  BY <1>8 DEF vars
<1> QED
  BY <1>2, <1>3, <1>4, <1>5, <1>6, <1>7, <1>8 DEF Next

\* resolved references, by kind, are what RefsResolve asks for
LEMMA ResolvedFacts ==
    ASSUME CfgInv
    PROVE  (\A s \in Services : Resolved(s)) => RefsResolve
<1> SUFFICES ASSUME NEW s \in Services, Resolved(s),
                    Has("deployment", s), ~Def(s).chart, <<"deployment", s>> \notin cluster.kept,
                    NEW r \in EnvFrom(s)
             PROVE  r \in cluster.resources \/ (r[1] = "secret" /\ Def(s).secrets = "empty file")
  BY DEF RefsResolve
<1>1. Def(s).secrets \in {"none", "inline", "file", "empty file"}
  BY DefFacts DEF ServiceDefs
<1>2. CASE r = <<"configmap", s>> /\ Def(s).env
  BY <1>2 DEF Resolved, HasConfigMap, Has
<1>3. CASE r = <<"secret", s>> /\ Def(s).secrets # "none"
  BY <1>1, <1>3 DEF Resolved, HasSecret, Has
<1> QED BY <1>2, <1>3 DEF EnvFrom

\* a resource is removed by down only, and down runs only while up does not
LEMMA Exclusive ==
    ASSUME CoreInv, [Next]_vars
    PROVE  /\ up.pc = "deploy" => cluster.resources \subseteq cluster'.resources
           /\ down.steps # <<>> => cluster'.resources \subseteq cluster.resources
           /\ cluster.kept \subseteq cluster'.kept
<1>1. /\ up.steps # <<>> => up.pc = "deploy"
      /\ up.pc = "deploy" => down.steps = <<>>
  <2>1. "idle" # "delete"
    OBVIOUS
  <2> QED BY <2>1 DEF CoreInv, Phases
<1>2. CASE Untouched
  BY <1>2 DEF Untouched
<1>3. ASSUME NEW s \in Services, NEW kind \in Kinds, Applies(s, kind)
      PROVE  /\ up.steps # <<>>
             /\ cluster.resources \subseteq cluster'.resources
             /\ cluster.kept \subseteq cluster'.kept
  BY <1>3 DEF Applies, UpStep
<1>4. ASSUME NEW s \in Services, NEW kind \in Kinds, Deletes(s, kind)
      PROVE  /\ down.steps # <<>>
             /\ cluster'.resources \subseteq cluster.resources
             /\ cluster.kept \subseteq cluster'.kept
  BY <1>4 DEF Deletes, DownStep
<1> QED BY <1>1, <1>2, <1>3, <1>4, ClusterEffects DEF CoreInv

\* stop_service deletes the deployment before what it refers to, or failed to
LEMMA DownInvStep ==
    ASSUME CoreInv, DownInv, [Next]_vars
    PROVE  DownInv'
<1>1. TypeInv /\ down \in RunStates /\ down.steps \in DownSteps
  BY DEF CoreInv, TypeInv
<1>2. CASE down' = down
  <2> SUFFICES ASSUME down.steps \in {<<"configmap", "secret">>, <<"secret">>},
                      NEW s \in down.svc, Has("deployment", s)'
               PROVE  (<<"deployment", s>> \in cluster.kept)'
    BY <1>2 DEF DownInv
  <2>1. down.steps # <<>>
    <3>1. CASE down.steps = <<"configmap", "secret">>
      BY <3>1
    <3>2. CASE down.steps = <<"secret">>
      BY <3>2
    <3> QED BY <3>1, <3>2
  <2>2. cluster'.resources \subseteq cluster.resources /\ cluster.kept \subseteq cluster'.kept
    BY <2>1, Exclusive
  <2>3. Has("deployment", s)
    BY <2>2 DEF Has
  <2> QED BY <2>2, <2>3 DEF DownInv
<1>3. CASE \/ down'.steps = <<>>
           \/ down'.steps = <<"service", "deployment", "configmap", "secret">>
  BY <1>3 DEF DownInv
<1>4. ASSUME NEW s \in Services, DownStep(s) PROVE DownInv'
  <2>1. /\ down.steps # <<>> /\ down.svc = {s} /\ down' = [down EXCEPT !.steps = Tail(@)]
    BY <1>4 DEF DownStep
  <2>2. down'.steps = Tail(down.steps) /\ down'.svc = {s}
    BY <1>1, <2>1 DEF RunStates
  <2>3. PICK kind \in Kinds : Deletes(s, kind)
    <3>1. PICK kind \in Kinds : kind = Head(down.steps)
      BY <1>1, <2>1, ShapeFacts
    <3>2. \/ cluster' = [cluster EXCEPT !.resources = @ \ {<<kind, s>>}]
          \/ cluster' = [cluster EXCEPT !.kept = @ \cup {<<kind, s>>}]
      BY <1>4, <3>1 DEF DownStep
    <3>3. cluster \in Clusters
      BY <1>1 DEF TypeInv
    <3>4. Deletes(s, kind)
      BY <1>4, <3>1, <3>2, <3>3 DEF Deletes, Clusters
    <3> QED BY <3>4
  <2>4. kind = Head(down.steps)
    BY <2>3 DEF Deletes
  <2> DEFINE Safe == Has("deployment", s)' => (<<"deployment", s>> \in cluster.kept)'
  <2>5. Safe => DownInv'
    BY <2>2 DEF DownInv
  <2>6. CASE down.steps = <<"service", "deployment", "configmap", "secret">>
    <3>1. down'.steps = <<"deployment", "configmap", "secret">>
      BY <2>2, <2>6
    <3> QED BY <3>1 DEF DownInv
  <2>7. CASE down.steps = <<"deployment", "configmap", "secret">>
    <3>1. kind = "deployment"
      BY <2>4, <2>7
    <3>2. Safe
      BY <2>3, <3>1 DEF Deletes, Has
    <3> QED BY <2>5, <3>2
  <2>8. CASE down.steps = <<"configmap", "secret">>
    <3>1. Has("deployment", s) => <<"deployment", s>> \in cluster.kept
      BY <2>1, <2>8 DEF DownInv
    <3>2. Safe
      BY <2>3, <3>1 DEF Deletes, Has
    <3> QED BY <2>5, <3>2
  <2>9. CASE down.steps = <<"secret">>
    <3>1. down'.steps = <<>>
      BY <2>2, <2>9
    <3> QED BY <3>1 DEF DownInv
  <2> QED BY <1>1, <2>1, <2>6, <2>7, <2>8, <2>9 DEF DownSteps
<1> QED BY <1>1, <1>2, <1>3, <1>4, DownEffects

\* what the next deployment needs is there or still comes before it
LEMMA SuppliedStep ==
    ASSUME CoreInv, SuppliedAll, [Next]_vars
    PROVE  SuppliedAll'
<1>1. TypeInv /\ CfgInv /\ up \in RunStates /\ cluster \in Clusters
  BY DEF CoreInv, TypeInv
<1>2. /\ cfg' = cfg /\ \A s : Def(s)' = Def(s)
      /\ \A s : HasSecret(s)' = HasSecret(s) /\ HasConfigMap(s)' = HasConfigMap(s)
  BY ConfigKept, SameConfig DEF HasSecret, HasConfigMap
<1>3. up.steps # <<>> => cluster.resources \subseteq cluster'.resources
  BY Exclusive DEF CoreInv, Phases
<1>4. CASE up' = up
  <2> SUFFICES ASSUME up.steps # <<>>, NEW s \in up.svc, ~Def(s).chart
               PROVE  /\ HasSecret(s) => Supplied(s, "secret")'
                      /\ HasConfigMap(s) => Supplied(s, "configmap")'
    BY <1>2, <1>4 DEF SuppliedAll
  <2>1. \A kind : Supplied(s, kind) => Supplied(s, kind)'
    BY <1>3, <1>4 DEF Supplied, Has
  <2> QED BY <2>1 DEF SuppliedAll
<1>5. CASE Begins \/ Ends \/ Watches
  BY <1>5 DEF Begins, Ends, Watches, SuppliedAll
<1>6. ASSUME NEW s \in Services, Takes(s) PROVE SuppliedAll'
  <2>1. up'.steps = Steps(s) /\ up'.svc = {s}
    BY <1>6 DEF Takes
  <2>2. /\ ~Def(s).chart /\ HasSecret(s) => Before(Steps(s), "secret")
        /\ ~Def(s).chart /\ HasConfigMap(s) => Before(Steps(s), "configmap")
    BY <1>1, StepsFacts DEF WellOrdered
  <2>3. \A kind : Before(Steps(s), kind) => Supplied(s, kind)'
    BY <2>1 DEF Before, Supplied
  <2> QED BY <1>2, <2>1, <2>2, <2>3 DEF SuppliedAll
<1>7. ASSUME NEW s \in Services, Runs(s) PROVE SuppliedAll'
  <2>1. /\ up'.svc = {s} /\ up'.steps = Tail(up.steps) /\ up.steps # <<>> /\ up.svc = {s}
        /\ UpStep(s)
    BY <1>7 DEF Runs, UpStep
  <2> DEFINE q == up.steps
             r == Tail(q)
  <2>2. /\ Len(q) \in Nat /\ Len(q) > 0 /\ Len(r) = Len(q) - 1
        /\ \A i \in 1 .. Len(r) : r[i] = q[i + 1]
        /\ r \in Seq(Commands) /\ Head(q) = q[1]
    BY <1>1, <2>1, TailFacts, RunFields
  <2>3. up'.steps = r
    BY <2>1
  <2> HIDE DEF r
  <2>4. ASSUME NEW kind \in Kinds, Supplied(s, kind) PROVE Supplied(s, kind)'
    <3> SUFFICES ASSUME NEW i \in 1 .. Len(r), r[i] = "deployment"
                 PROVE  Has(kind, s)' \/ \E j \in 1 .. (i - 1) : r[j] = kind
      BY <2>3 DEF Supplied
    <3>1. i + 1 \in 1 .. Len(q) /\ q[i + 1] = "deployment"
      BY <2>2
    <3>2. CASE Has(kind, s)
      BY <1>3, <2>1, <3>2 DEF Has
    <3>3. CASE ~Has(kind, s)
      <4>1. PICK j \in 1 .. i : q[j] = kind
        <5>1. \E j \in 1 .. ((i + 1) - 1) : q[j] = kind
          BY <2>4, <3>1, <3>3 DEF Supplied
        <5> QED BY <5>1
      <4>2. CASE j = 1
        <5>1. Head(up.steps) = kind
          BY <2>2, <4>1, <4>2
        <5>2. cluster' = apply_manifest(kind, s)
          BY <2>1, <5>1 DEF UpStep
        <5> QED BY <1>1, <5>2, ResourceFacts DEF Has
      <4>3. CASE j # 1
        <5>1. j - 1 \in 1 .. (i - 1) /\ j - 1 \in 1 .. Len(r) /\ (j - 1) + 1 = j
          BY <2>2, <4>3
        <5>2. r[j - 1] = q[(j - 1) + 1]
          BY <2>2, <5>1
        <5> QED BY <4>1, <5>1, <5>2
      <4> QED BY <4>2, <4>3
    <3> QED BY <3>2, <3>3
  <2>5. ~Def(s).chart => /\ HasSecret(s) => Supplied(s, "secret")
                         /\ HasConfigMap(s) => Supplied(s, "configmap")
    BY <2>1 DEF SuppliedAll
  <2>6. "secret" \in Kinds /\ "configmap" \in Kinds
    BY DEF Kinds
  <2> QED BY <1>2, <2>1, <2>4, <2>5, <2>6 DEF SuppliedAll
<1> QED BY <1>1, <1>4, <1>5, <1>6, <1>7, UpEffects

\* no step breaks a reference of a deployment
LEMMA ResolvedStep ==
    ASSUME CoreInv, RefsInv, [Next]_vars, NEW s \in Services
    PROVE  Resolved(s)'
<1>1. TypeInv /\ CfgInv /\ up \in RunStates
  BY DEF CoreInv, TypeInv
<1>2. /\ Def(s)' = Def(s) /\ HasSecret(s)' = HasSecret(s) /\ HasConfigMap(s)' = HasConfigMap(s)
  BY ConfigKept, SameConfig DEF HasSecret, HasConfigMap
<1>3. DownInv /\ SuppliedAll /\ Resolved(s)
  BY DEF RefsInv
<1>4. CASE Untouched
  BY <1>2, <1>3, <1>4 DEF Untouched, Resolved, Has
<1>5. ASSUME NEW x \in Services, NEW kind \in Kinds, Applies(x, kind) PROVE Resolved(s)'
  <2>1. /\ cluster'.resources = cluster.resources \cup {<<kind, x>>}
        /\ cluster'.kept = cluster.kept
        /\ up.steps # <<>> /\ up.svc = {x} /\ Head(up.steps) = kind
    BY <1>5 DEF Applies, UpStep
  <2>2. CASE kind = "deployment" /\ x = s
    <3>1. up.steps[1] = "deployment" /\ 1 \in 1 .. Len(up.steps)
      <4>1. PICK q \in Seq(Commands) : q = up.steps
        BY <1>1, RunFields
      <4>2. q[1] = Head(q) /\ Len(q) \in Nat /\ Len(q) > 0
        BY <2>1, <4>1, TailFacts
      <4> QED BY <2>1, <2>2, <4>1, <4>2
    <3>2. \A k : Supplied(s, k) => Has(k, s)
      BY <3>1 DEF Supplied
    <3> QED BY <1>2, <1>3, <2>1, <2>2, <3>2 DEF SuppliedAll, Resolved, Has
  <2>3. CASE ~(kind = "deployment" /\ x = s)
    BY <1>2, <1>3, <2>1, <2>3 DEF Resolved, Has
  <2> QED BY <2>2, <2>3
<1>6. ASSUME NEW x \in Services, NEW kind \in Kinds, Deletes(x, kind) PROVE Resolved(s)'
  <2>1. /\ down.steps # <<>> /\ down.svc = {x} /\ Head(down.steps) = kind
        /\ \/ /\ cluster'.resources = cluster.resources \ {<<kind, x>>}
              /\ cluster'.kept = cluster.kept
           \/ /\ cluster'.resources = cluster.resources
              /\ cluster'.kept = cluster.kept \cup {<<kind, x>>}
    BY <1>6 DEF Deletes, DownStep
  <2>2. CASE kind \in {"configmap", "secret"} /\ x = s
    <3>1. down.steps \in {<<"configmap", "secret">>, <<"secret">>}
      BY <1>1, <2>1, <2>2 DEF TypeInv, DownSteps
    <3>2. Has("deployment", s) => <<"deployment", s>> \in cluster.kept
      BY <1>3, <2>1, <2>2, <3>1 DEF DownInv
    <3> QED BY <2>1, <3>2 DEF Resolved, Has
  <2>3. CASE ~(kind \in {"configmap", "secret"} /\ x = s)
    BY <1>2, <1>3, <2>1, <2>3 DEF Resolved, Has
  <2> QED BY <2>2, <2>3
<1> QED BY <1>1, <1>4, <1>5, <1>6, ClusterEffects

\* For every configuration and wherever start_service and stop_service fail: a
\* generated deployment refers only to a configmap and a secret that are there.
THEOREM RefsResolveHolds == Spec => []RefsResolve
<1> DEFINE Inv == CoreInv /\ RefsInv
<1>1. Init => Inv
  <2> SUFFICES ASSUME Init PROVE Inv
    OBVIOUS
  <2>1. cluster.resources = {} /\ up = Idle /\ down = Idle
    BY DEF Init
  <2>2. DownInv /\ SuppliedAll
    BY <2>1, IdleFacts DEF DownInv, SuppliedAll
  <2>3. \A s \in Services : Resolved(s)
    BY <2>1 DEF Resolved, Has
  <2> QED BY <2>2, <2>3, CoreInit DEF RefsInv
<1>2. Inv /\ [Next]_vars => Inv'
  <2> SUFFICES ASSUME Inv, [Next]_vars PROVE Inv'
    OBVIOUS
  <2>1. DownInv' /\ SuppliedAll'
    BY DownInvStep, SuppliedStep DEF RefsInv
  <2>2. \A s \in Services : Resolved(s)'
    BY ResolvedStep
  <2> QED BY <2>1, <2>2, CoreStep DEF RefsInv
<1>3. Inv => RefsResolve
  BY ResolvedFacts DEF CoreInv, TypeInv, RefsInv
<1> QED BY <1>1, <1>2, <1>3, PTL DEF Spec

------------------------------------------------------------------------------
(************************ Dependencies run before *************************)

\* more resources never keep a pod from running
LEMMA CanRunGrows ==
    ASSUME cfg' = cfg, cluster.resources \subseteq cluster'.resources, NEW s, CanRun(s)
    PROVE  CanRun(s)'
<1>1. \A x : Def(x)' = Def(x)
  BY SameConfig
<1>2. EnvFrom(s)' = EnvFrom(s) /\ WaitsFor(s)' = WaitsFor(s)
  BY <1>1 DEF EnvFrom, WaitsFor
<1>3. \A x, kind : Has(kind, x) => Has(kind, x)'
  BY DEF Has
<1> QED BY <1>1, <1>2, <1>3 DEF CanRun

\* a service whose wait is over can run until up has deployed everything
LEMMA DepsStep ==
    ASSUME CoreInv, DepsInv, [Next]_vars
    PROVE  DepsInv'
<1>1. TypeInv /\ CfgInv /\ up \in RunStates /\ cfg' = cfg /\ InHand
      /\ (up.steps # <<>> => up.pc = "deploy")
  BY ConfigKept DEF CoreInv, TypeInv, Phases
<1> SUFFICES ASSUME up'.pc = "deploy", NEW s \in Services, Complete(s)' PROVE CanRun(s)'
  BY DEF DepsInv
<1>2. ASSUME up.pc = "deploy", CanRun(s) PROVE CanRun(s)'
  BY <1>1, <1>2, CanRunGrows, Exclusive
<1>3. CASE up' = up
  BY <1>2, <1>3 DEF Complete, DepsInv
<1>4. CASE Begins \/ Ends \/ Watches
  BY <1>4 DEF Begins, Ends, Watches, Complete
<1>5. ASSUME NEW x \in Services, Takes(x) PROVE CanRun(s)'
  <2>1. /\ up.pc = "deploy" /\ up.steps = <<>> /\ up'.svc = {x} /\ up'.steps = Steps(x)
        /\ up'.all = up.all /\ up'.todo = up.todo \ {x}
    BY <1>5 DEF Takes, UpNext
  <2>2. Len(Steps(x)) > 0
    BY <1>1, StepsFacts DEF WellOrdered
  <2>3. Steps(x) # <<>>
    BY <2>2
  <2>4. Complete(s)
    BY <2>1, <2>3 DEF Complete
  <2> QED BY <1>2, <2>1, <2>4 DEF DepsInv
<1>6. ASSUME NEW x \in Services, Runs(x) PROVE CanRun(s)'
  <2>1. /\ up'.svc = {x} /\ up'.steps = Tail(up.steps) /\ up.steps # <<>> /\ up.svc = {x}
        /\ up'.all = up.all /\ up'.todo = up.todo
        /\ Head(up.steps) = "wait" => CanRun(x)
        /\ up.pc = "deploy"
    BY <1>1, <1>6 DEF Runs, UpStep
  <2>2. CASE s # x
    <3>1. Complete(s)
      BY <2>1, <2>2 DEF Complete
    <3> QED BY <1>2, <2>1, <3>1 DEF DepsInv
  <2>3. CASE s = x
    <3>1. Tail(up.steps) = <<>>
      BY <2>1, <2>3 DEF Complete
    <3>2. PICK q \in Seq(Commands) : q = up.steps
      BY <1>1, RunFields
    <3>3. /\ q[1] = Head(q) /\ Len(q) \in Nat /\ Len(Tail(q)) = Len(q) - 1
      BY <2>1, <3>2, TailFacts
    <3>4. Len(q) = 1
      <4>1. Len(Tail(q)) = 0
        BY <3>1, <3>2
      <4>2. PICK n \in Nat : n = Len(q)
        BY <3>3
      <4>3. n - 1 = 0
        BY <3>3, <4>1, <4>2
      <4>4. n = 1
        BY <4>3
      <4> QED BY <4>2, <4>4
    <3>5. q[Len(q)] = "wait"
      BY <1>1, <2>1, <3>2 DEF InHand, Remaining
    <3>6. Head(up.steps) = "wait"
      BY <3>2, <3>3, <3>4, <3>5
    <3> QED BY <1>2, <2>1, <2>3, <3>6
  <2> QED BY <2>2, <2>3
<1> QED BY <1>1, <1>3, <1>4, <1>5, <1>6, UpEffects

\* a deployment is created by up only, after the waits of its dependencies
LEMMA DepsAction ==
    ASSUME CoreInv, DepsInv, [Next]_vars, NEW s \in Services,
           ~Has("deployment", s), <<"deployment", s>> \in cluster'.resources,
           NEW d \in Def(s).deps
    PROVE  CanRun(d)
<1>1. PICK x \in Services, kind \in Kinds : Applies(x, kind) \/ Deletes(x, kind)
  BY ClusterEffects DEF CoreInv, Untouched, Has
<1>2. UpStep(s)
  BY <1>1 DEF Applies, Deletes, Has
<1>3. up.steps # <<>> /\ up.svc = {s}
  BY <1>2 DEF UpStep
<1>4. Remaining(s) /\ up.pc = "deploy" /\ Closed(up.all)
  BY <1>3 DEF CoreInv, InHand, Phases, DeploysClosed
<1>5. d \in up.all /\ d \notin up.todo /\ d # s
  BY <1>4 DEF Remaining, Closed
<1>6. d \in Services
  BY <1>5, RunFields DEF CoreInv, TypeInv
<1> QED BY <1>3, <1>4, <1>5, <1>6 DEF DepsInv, Complete

\* For every configuration: start_service creates a deployment only when every
\* service it depends on is able to run.
THEOREM DepsRunFirstHolds == Spec => DepsRunFirst
<1> DEFINE Inv == CoreInv /\ DepsInv
           A == \A s \in Services :
                  ~Has("deployment", s) /\ <<"deployment", s>> \in cluster'.resources
                  => \A d \in Def(s).deps : CanRun(d)
<1>1. Init => Inv
  BY CoreInit, IdleFacts DEF Init, DepsInv
<1>2. Inv /\ [Next]_vars => Inv'
  BY CoreStep, DepsStep
<1>3. Inv /\ [Next]_vars => [A]_vars
  BY DepsAction
<1> QED BY <1>1, <1>2, <1>3, PTL DEF Spec, DepsRunFirst

------------------------------------------------------------------------------
(************************ Pods run the present files **********************)

\* but for its own commands, up never adds to what it has built and deployed
LEMMA PlanShrinks ==
    ASSUME CoreInv, [Next]_vars, NEW s \in Services, ~\E x \in Services : UpStep(x)
    PROVE  /\ up'.pc = "deploy" /\ Def(s).dockerfile /\ Built(s)' => up.pc = "deploy" /\ Built(s)
           /\ Deployed(s)' => Deployed(s)
<1>1. TypeInv /\ CfgInv
  BY DEF CoreInv, TypeInv
<1>2. CASE up' = up
  BY <1>2 DEF Built, Deployed
<1>3. CASE Begins \/ Ends
  BY <1>3 DEF Begins, Ends, Built, Deployed
<1>4. CASE Watches
  BY <1>4 DEF Watches, Built, Deployed
<1>5. ASSUME NEW x \in Services, Takes(x)
      PROVE  /\ up'.pc = "deploy" /\ Def(s).dockerfile /\ Built(s)' => up.pc = "deploy" /\ Built(s)
             /\ Deployed(s)' => Deployed(s)
  <2>1. /\ up.pc = "deploy" /\ up.steps = <<>> /\ up'.svc = {x} /\ up'.steps = Steps(x)
        /\ up'.all = up.all /\ up'.todo = up.todo \ {x}
    BY <1>5 DEF Takes, UpNext
  <2>2. CASE s = x
    <3>1. Member(Steps(x), "deployment") /\ (Def(x).dockerfile => Member(Steps(x), "build"))
      BY <1>1, StepsFacts DEF WellOrdered
    <3> QED BY <2>1, <2>2, <3>1 DEF Built, Deployed
  <2>3. CASE s # x
    <3>1. \A step : ~Member(<<>>, step)
      BY DEF Member
    <3> QED BY <2>1, <2>3, <3>1 DEF Built, Deployed
  <2> QED BY <2>2, <2>3
<1>6. ~\E x \in Services : Runs(x)
  BY DEF Runs
<1> QED BY <1>1, <1>2, <1>3, <1>4, <1>5, <1>6, UpEffects

\* a step that leaves images, pods and rebuilds alone
LEMMA FreshQuiet ==
    ASSUME CoreInv, FreshInv, [Next]_vars, ~\E x \in Services : UpStep(x),
           UNCHANGED <<pod, image, source, events, rebuild, excused>>,
           cluster'.resources = cluster.resources
    PROVE  FreshInv'
<1>1. \A s : Def(s)' = Def(s)
  BY ConfigKept, SameConfig
<1>2. (up.pc = "watch" => up.todo = {})'
  BY UpEffects DEF CoreInv, FreshInv, Begins, Ends, Watches, Takes, Runs, UpNext
<1>3. ASSUME NEW s \in Services PROVE NotAhead(s)' /\ ImageFirst(s)' /\ Current(s)'
  <2>1. NotAhead(s) /\ ImageFirst(s) /\ Current(s)
    BY DEF FreshInv
  <2>2. NotAhead(s)'
    BY <2>1 DEF NotAhead
  <2>3. ImageFirst(s)'
    BY <1>1, <2>1, PlanShrinks DEF ImageFirst
  <2>4. Has("deployment", s)' = Has("deployment", s) /\ NoTask(s)' = NoTask(s)
    BY DEF Has, NoTask
  <2>5. Current(s)'
    BY <1>1, <2>1, <2>4, PlanShrinks DEF Current
  <2> QED BY <2>2, <2>3, <2>5
<1>4. \A t \in rebuild' : (t.built <= source[t.svc])'
  BY DEF FreshInv
<1>5. \A t \in rebuild' : TaskInv(t)'
  BY <1>1 DEF FreshInv, TaskInv
<1> QED BY <1>2, <1>3, <1>4, <1>5 DEF FreshInv

\* one command of start_service
LEMMA FreshUpStep ==
    ASSUME CoreInv, FreshInv, [Next]_vars, NEW x \in Services, UpStep(x)
    PROVE  FreshInv'
<1>1. /\ TypeInv /\ up \in RunStates /\ cluster \in Clusters
      /\ pod \in [Services -> Nat] /\ image \in [Services -> Nat] /\ source \in [Services -> Nat]
  BY DEF CoreInv, TypeInv
<1>2. \A s : Def(s)' = Def(s)
  BY ConfigKept, SameConfig
<1>3. /\ up.steps # <<>> /\ up.svc = {x} /\ up' = [up EXCEPT !.steps = Tail(@)]
      /\ UNCHANGED <<source, events, rebuild>>
  BY DEF UpStep, Unwatched
<1>4. /\ up'.pc = up.pc /\ up'.all = up.all /\ up'.todo = up.todo /\ up'.svc = {x}
      /\ up'.steps = Tail(up.steps)
  BY <1>1, <1>3 DEF RunStates
<1>5. up.pc = "deploy" /\ events = {} /\ rebuild = {} /\ Remaining(x)
  BY <1>3 DEF CoreInv, Phases, InHand
<1>6. PICK q \in Seq(Commands) : q = up.steps
  BY <1>1, RunFields
<1>7. PICK step : step = Head(q)
  OBVIOUS
<1>8. /\ step = q[1] /\ Len(q) \in Nat /\ Len(q) > 0
      /\ \A k : Member(q, k) <=> k = step \/ Member(up'.steps, k)
  BY <1>3, <1>4, <1>6, <1>7, TailFacts
<1>9. /\ image' = IF step = "build" THEN [image EXCEPT ![x] = source[x]] ELSE image
      /\ pod' = IF step = "deployment" /\ ~Has("deployment", x) THEN [pod EXCEPT ![x] = image[x]]
                ELSE pod
      /\ excused' = IF step # "deployment" THEN excused
                    ELSE IF pod'[x] = source[x] THEN excused \ {x} ELSE excused \cup {x}
      /\ cluster' = IF step \in Kinds THEN apply_manifest(step, x) ELSE cluster
  BY <1>6, <1>7 DEF UpStep, build_image
<1>10. \A s \in Services : s # x \/ step # "deployment" =>
         (Has("deployment", s)' <=> Has("deployment", s))
  <2>1. CASE step \in Kinds
    <3>1. cluster'.resources = cluster.resources \cup {<<step, x>>}
      BY <1>1, <1>9, <2>1, ResourceFacts
    <3> QED BY <3>1 DEF Has
  <2>2. CASE step \notin Kinds
    BY <1>9, <2>2 DEF Has
  <2> QED BY <2>1, <2>2
<1>11. ASSUME NEW s \in Services PROVE NotAhead(s)'
  <2>1. image[s] <= source[s] /\ pod[s] <= source[s]
    BY DEF FreshInv, NotAhead
  <2>2. image'[s] = image[s] \/ image'[s] = source[s]
    BY <1>1, <1>9
  <2>3. pod'[s] = pod[s] \/ pod'[s] = image[s]
    BY <1>1, <1>9
  <2>4. source[s] \in Nat /\ source'[s] = source[s]
    BY <1>1, <1>3
  <2> QED BY <2>1, <2>2, <2>3, <2>4 DEF NotAhead
<1>12. ASSUME NEW s \in Services, s # x PROVE ImageFirst(s)' /\ Current(s)'
  <2>1. ImageFirst(s) /\ Current(s)
    BY DEF FreshInv
  <2>2. image'[s] = image[s] /\ pod'[s] = pod[s] /\ source'[s] = source[s]
    BY <1>1, <1>3, <1>9, <1>12
  <2>3. Built(s)' => Built(s)
    BY <1>3, <1>4, <1>12 DEF Built
  <2>4. Deployed(s)' => Deployed(s)
    BY <1>3, <1>4, <1>12 DEF Deployed
  <2>5. s \in excused' <=> s \in excused
    BY <1>9, <1>12
  <2>6. ImageFirst(s)'
    BY <1>2, <1>4, <2>1, <2>2, <2>3 DEF ImageFirst
  <2>7. NoTask(s) /\ s \notin events
    BY <1>5 DEF NoTask
  <2>8. Current(s)'
    BY <1>2, <1>10, <1>12, <2>1, <2>2, <2>4, <2>5, <2>7 DEF Current
  <2> QED BY <2>6, <2>8
<1>13. ImageFirst(x)'
  <2>1. CASE step = "build"
    BY <1>1, <1>3, <1>9, <2>1 DEF ImageFirst
  <2>2. CASE step # "build"
    <3>1. ImageFirst(x) /\ image' = image /\ source' = source
      BY <1>3, <1>9, <2>2 DEF FreshInv
    <3>2. Built(x)' => Built(x)
      BY <1>3, <1>4, <1>6, <1>8, <2>2 DEF Built
    <3>3. pod'[x] = pod[x] \/ pod'[x] = image[x]
      BY <1>1, <1>9
    <3> QED BY <1>2, <1>4, <3>1, <3>2, <3>3 DEF ImageFirst
  <2> QED BY <2>1, <2>2
<1>14. Current(x)'
  <2> SUFFICES ASSUME Def(x).dockerfile, Deployed(x)', Has("deployment", x)', x \notin excused'
               PROVE  pod'[x] = source'[x] /\ image'[x] = source'[x]
    BY <1>2 DEF Current
  <2>1. CASE step = "deployment"
    <3>1. pod'[x] = source[x]
      BY <1>9, <2>1
    <3>2. ~Member(q, "build")
      BY <1>5, <1>6, <1>8, <2>1 DEF Remaining, Member
    <3>3. Built(x)'
      BY <1>4, <1>5, <1>8, <3>2 DEF Built, Remaining
    <3> QED BY <1>2, <1>3, <1>4, <1>5, <1>13, <3>1, <3>3 DEF ImageFirst
  <2>2. CASE step # "deployment"
    <3>1. Deployed(x)
      BY <1>3, <1>4, <1>6, <1>8, <2>2 DEF Deployed
    <3>2. x \notin excused /\ Has("deployment", x) /\ pod' = pod
      BY <1>9, <1>10, <2>2
    <3>3. Current(x) /\ NoTask(x) /\ x \notin events
      BY <1>5 DEF FreshInv, NoTask
    <3>4. pod[x] = source[x] /\ image[x] = source[x]
      BY <3>1, <3>2, <3>3 DEF Current
    <3>5. image'[x] = source[x]
      BY <1>1, <1>9, <3>4
    <3> QED BY <1>3, <3>2, <3>4, <3>5
  <2> QED BY <2>1, <2>2
<1>15. (up.pc = "watch" => up.todo = {})' /\ rebuild' = {}
  BY <1>3, <1>4, <1>5
<1>16. \A s \in Services : ImageFirst(s)' /\ Current(s)'
  BY <1>12, <1>13, <1>14
<1> QED BY <1>11, <1>15, <1>16 DEF FreshInv

\* one deletion of stop_service
LEMMA FreshDown ==
    ASSUME CoreInv, FreshInv, [Next]_vars, NEW x \in Services, DownStep(x)
    PROVE  FreshInv'
<1>1. TypeInv /\ pod \in [Services -> Nat] /\ cluster \in Clusters
  BY DEF CoreInv, TypeInv
<1>2. \A s : Def(s)' = Def(s)
  BY ConfigKept, SameConfig
<1>3. /\ down.steps # <<>> /\ up' = up
      /\ UNCHANGED <<image, source, events, rebuild, excused>>
  BY DEF DownStep, Unwatched
<1>4. up.pc # "deploy"
  BY <1>3 DEF CoreInv, Phases
<1>5. \/ pod' = pod /\ cluster'.resources \subseteq cluster.resources
      \/ /\ pod' = [pod EXCEPT ![x] = NoImage]
         /\ cluster'.resources = cluster.resources \ {<<"deployment", x>>}
  BY <1>1 DEF DownStep, Clusters
<1>6. ASSUME NEW s \in Services PROVE NotAhead(s)' /\ ImageFirst(s)' /\ Current(s)'
  <2>1. NotAhead(s) /\ Current(s) /\ source[s] \in Nat
    BY <1>1 DEF FreshInv, TypeInv
  <2>2. pod'[s] = pod[s] \/ (pod'[s] = 0 /\ ~Has("deployment", s)')
    BY <1>1, <1>5 DEF NoImage, Has
  <2>3. NotAhead(s)'
    BY <1>3, <2>1, <2>2 DEF NotAhead
  <2>4. ImageFirst(s)'
    BY <1>3, <1>4 DEF ImageFirst
  <2>5. Has("deployment", s)' => Has("deployment", s)
    BY <1>5 DEF Has
  <2>6. (Deployed(s)' <=> Deployed(s)) /\ (NoTask(s)' <=> NoTask(s))
    BY <1>3 DEF Deployed, NoTask
  <2>7. Current(s)'
    BY <1>2, <1>3, <2>1, <2>2, <2>5, <2>6 DEF Current
  <2> QED BY <2>3, <2>4, <2>7
<1>7. \A t \in rebuild' : (t.built <= source[t.svc])'
  BY <1>3 DEF FreshInv
<1>8. \A t \in rebuild' : TaskInv(t)'
  BY <1>2, <1>3 DEF FreshInv, TaskInv
<1>9. (up.pc = "watch" => up.todo = {})'
  BY <1>3 DEF FreshInv
<1> QED BY <1>6, <1>7, <1>8, <1>9 DEF FreshInv

\* `a3s restart` rolls the deployment to the image there is
LEMMA FreshRestart ==
    ASSUME CoreInv, FreshInv, [Next]_vars, NEW x \in Services, Restart(x)
    PROVE  FreshInv'
<1>1. TypeInv /\ pod \in [Services -> Nat]
  BY DEF CoreInv, TypeInv
<1>2. \A s : Def(s)' = Def(s)
  BY ConfigKept, SameConfig
<1>3. /\ UNCHANGED <<up, cluster, image, source, events, rebuild, excused>>
      /\ pod' = [pod EXCEPT ![x] = image[x]]
  BY DEF Restart, Still, rollout_restart
<1>4. ASSUME NEW s \in Services PROVE NotAhead(s)' /\ ImageFirst(s)' /\ Current(s)'
  <2>1. NotAhead(s) /\ Current(s) /\ ImageFirst(s)
    BY DEF FreshInv
  <2>2. pod'[s] = pod[s] \/ pod'[s] = image[s]
    BY <1>1, <1>3
  <2>3. NotAhead(s)'
    BY <1>3, <2>1, <2>2 DEF NotAhead
  <2>4. /\ (Deployed(s)' <=> Deployed(s)) /\ (NoTask(s)' <=> NoTask(s))
        /\ (Built(s)' <=> Built(s)) /\ (Has("deployment", s)' <=> Has("deployment", s))
    BY <1>3 DEF Deployed, NoTask, Built, Has
  <2>5. ImageFirst(s)'
    BY <1>2, <1>3, <2>1, <2>2, <2>4 DEF ImageFirst
  <2>6. Current(s)'
    BY <1>2, <1>3, <2>1, <2>2, <2>4 DEF Current
  <2> QED BY <2>3, <2>5, <2>6
<1>7. \A t \in rebuild' : (t.built <= source[t.svc])'
  BY <1>3 DEF FreshInv
<1>8. \A t \in rebuild' : TaskInv(t)'
  BY <1>2, <1>3 DEF FreshInv, TaskInv
<1>9. (up.pc = "watch" => up.todo = {})'
  BY <1>3 DEF FreshInv
<1> QED BY <1>4, <1>7, <1>8, <1>9 DEF FreshInv

\* a change is either sent as an event or excuses the service
LEMMA FreshChange ==
    ASSUME CoreInv, FreshInv, [Next]_vars, NEW x \in Services, Change(x)
    PROVE  FreshInv'
<1>1. /\ TypeInv /\ source \in [Services -> Nat] /\ pod \in [Services -> Nat]
      /\ image \in [Services -> Nat] /\ \A t \in rebuild : Task(t)
  BY DEF CoreInv, TypeInv
<1>2. \A s : Def(s)' = Def(s)
  BY ConfigKept, SameConfig
<1>3. /\ UNCHANGED <<up, cluster, image, pod, rebuild>>
      /\ source' = [source EXCEPT ![x] = source[x] + 1]
      /\ x \in events' \/ x \in excused'
      /\ events \subseteq events' /\ excused \subseteq excused'
  BY DEF Change, Still
<1>4. \A s \in Services : s # x => source'[s] = source[s]
  BY <1>1, <1>3
<1>5. source'[x] = source[x] + 1
  BY <1>1, <1>3
<1>6. ASSUME NEW s \in Services PROVE NotAhead(s)' /\ ImageFirst(s)' /\ Current(s)'
  <2>1. NotAhead(s) /\ Current(s) /\ ImageFirst(s)
    BY DEF FreshInv
  <2>2. source[s] \in Nat /\ pod[s] \in Nat /\ image[s] \in Nat
    BY <1>1
  <2>3. NotAhead(s)'
    BY <1>3, <1>4, <1>5, <2>1, <2>2 DEF NotAhead
  <2>4. /\ (Deployed(s)' <=> Deployed(s)) /\ (NoTask(s)' <=> NoTask(s))
        /\ (Built(s)' <=> Built(s)) /\ (Has("deployment", s)' <=> Has("deployment", s))
    BY <1>3 DEF Deployed, NoTask, Built, Has
  <2>5. CASE s = x
    <3>1. pod'[s] # source'[s]
      BY <1>3, <1>5, <2>1, <2>2, <2>5 DEF NotAhead
    <3>2. ImageFirst(s)'
      BY <3>1 DEF ImageFirst
    <3>3. Current(s)'
      BY <1>3, <2>5 DEF Current
    <3> QED BY <2>3, <3>2, <3>3
  <2>6. CASE s # x
    <3>1. source'[s] = source[s]
      BY <1>4, <2>6
    <3>2. ImageFirst(s)'
      BY <1>2, <1>3, <2>1, <2>4, <3>1 DEF ImageFirst
    <3>3. Current(s)'
      BY <1>2, <1>3, <2>1, <2>4, <3>1 DEF Current
    <3> QED BY <2>3, <3>2, <3>3
  <2> QED BY <2>5, <2>6
<1>7. ASSUME NEW t \in rebuild PROVE (t.built <= source[t.svc])' /\ TaskInv(t)'
  <2>1. t.built <= source[t.svc] /\ TaskInv(t) /\ t.svc \in Services /\ t.built \in Nat
    BY <1>1 DEF FreshInv, Task
  <2>2. PICK s \in Services : s = t.svc
    BY <2>1
  <2>3. source[s] \in Nat
    BY <1>1
  <2>4. (t.built <= source[t.svc])'
    BY <1>4, <1>5, <2>1, <2>2, <2>3
  <2>5. TaskInv(t)'
    BY <1>2, <1>3, <1>4, <2>1, <2>2 DEF TaskInv
  <2> QED BY <2>4, <2>5
<1>9. (up.pc = "watch" => up.todo = {})'
  BY <1>3 DEF FreshInv
<1> QED BY <1>3, <1>6, <1>7, <1>9 DEF FreshInv

\* a rebuild begins: without a rival it reads the present files
LEMMA FreshBegin ==
    ASSUME CoreInv, FreshInv, [Next]_vars, NEW x \in Services, RebuildBegin(x)
    PROVE  FreshInv'
<1>1. TypeInv /\ CfgInv /\ source \in [Services -> Nat] /\ \A t \in rebuild : Task(t)
  BY DEF CoreInv, TypeInv
<1>2. \A s : Def(s)' = Def(s)
  BY ConfigKept, SameConfig
<1> DEFINE q == build_and_push(x) \o <<"restart">>
<1>3. PICK id :
        /\ rebuild' = rebuild \cup {[svc |-> x, id |-> id, built |-> source[x], steps |-> q]}
        /\ excused' = IF {t \in rebuild : t.svc = x} = {} THEN excused \ {x}
                      ELSE excused \cup {x}
  BY DEF RebuildBegin
<1>4. /\ x \in events /\ events' = events \ {x}
      /\ UNCHANGED <<up, cluster, image, pod, source>>
  BY DEF RebuildBegin, Still
<1>5. up.pc = "watch"
  BY <1>4 DEF CoreInv, Phases
<1>6. Def(x).dockerfile => Head(q) = "build"
  BY <1>1, RebuildStepsFacts
<1> HIDE DEF q
<1> DEFINE new == [svc |-> x, id |-> id, built |-> source[x], steps |-> q]
<1>7. /\ new.svc = x /\ new.built = source[x] /\ new.steps = q
      /\ rebuild' = rebuild \cup {new}
  BY <1>3
<1> HIDE DEF new
<1>8. ASSUME NEW s \in Services PROVE NotAhead(s)' /\ ImageFirst(s)' /\ Current(s)'
  <2>1. NotAhead(s) /\ Current(s)
    BY DEF FreshInv
  <2>2. NotAhead(s)' /\ ImageFirst(s)'
    BY <1>4, <1>5, <2>1 DEF NotAhead, ImageFirst
  <2>3. CASE s = x
    BY <1>7, <2>2, <2>3 DEF Current, NoTask
  <2>4. CASE s # x
    <3>1. NoTask(s)' => NoTask(s)
      BY <1>7 DEF NoTask
    <3>2. (s \in excused' <=> s \in excused) /\ (s \in events' <=> s \in events)
      BY <1>3, <1>4, <2>4
    <3>3. (Deployed(s)' <=> Deployed(s)) /\ (Has("deployment", s)' <=> Has("deployment", s))
      BY <1>4 DEF Deployed, Has
    <3>4. Current(s)'
      BY <1>2, <1>4, <2>1, <3>1, <3>2, <3>3 DEF Current
    <3> QED BY <2>2, <3>4
  <2> QED BY <2>3, <2>4
<1>9. ASSUME NEW t \in rebuild' PROVE (t.built <= source[t.svc])' /\ TaskInv(t)'
  <2>1. source[x] \in Nat /\ source' = source
    BY <1>1, <1>4
  <2>2. CASE t = new
    <3>1. (t.built <= source[t.svc])'
      BY <1>7, <2>1, <2>2
    <3>2. ASSUME x \notin excused' PROVE \A u \in rebuild' : u.svc = x => u = t
      BY <1>3, <1>7, <2>2, <3>2
    <3>3. TaskInv(t)'
      BY <1>2, <1>6, <1>7, <2>1, <2>2, <3>2 DEF TaskInv
    <3> QED BY <3>1, <3>3
  <2>3. CASE t # new /\ t.svc = x
    <3>1. t \in rebuild
      BY <1>7, <2>3
    <3>2. x \in excused'
      BY <1>3, <2>3, <3>1
    <3> QED BY <2>1, <2>3, <3>1, <3>2 DEF FreshInv, TaskInv
  <2>4. CASE t # new /\ t.svc # x
    <3>1. t \in rebuild
      BY <1>7, <2>4
    <3>2. TaskInv(t) /\ t.built <= source[t.svc]
      BY <3>1 DEF FreshInv
    <3>3. (t.svc \in excused' <=> t.svc \in excused) /\ (t.svc \in events' <=> t.svc \in events)
      BY <1>3, <1>4, <2>4
    <3>4. \A u \in rebuild' : u.svc = t.svc => u \in rebuild
      BY <1>7, <2>4
    <3> QED BY <1>2, <1>4, <3>2, <3>3, <3>4 DEF TaskInv
  <2> QED BY <2>2, <2>3, <2>4
<1>10. (up.pc = "watch" => up.todo = {})'
  BY <1>4 DEF FreshInv
<1> QED BY <1>8, <1>9, <1>10 DEF FreshInv

\* a rebuild builds, pushes or rolls the deployment
LEMMA FreshRebuild ==
    ASSUME CoreInv, FreshInv, [Next]_vars, NEW t \in rebuild, RebuildStep(t)
    PROVE  FreshInv'
<1>1. /\ TypeInv /\ source \in [Services -> Nat] /\ pod \in [Services -> Nat]
      /\ image \in [Services -> Nat] /\ Task(t)
  BY DEF CoreInv, TypeInv
<1>2. \A s : Def(s)' = Def(s)
  BY ConfigKept, SameConfig
<1>3. PICK x \in Services : x = t.svc
  BY <1>1 DEF Task
<1>4. /\ UNCHANGED <<up, cluster, source, events, excused>>
      /\ rebuild' = Advance(t)
      /\ image' = IF Head(t.steps) = "build" THEN [image EXCEPT ![x] = t.built] ELSE image
      /\ pod' = IF Head(t.steps) = "restart" THEN [pod EXCEPT ![x] = image[x]] ELSE pod
  BY <1>3 DEF RebuildStep, Still, build_image, rollout_restart
<1>5. up.pc = "watch"
  BY DEF CoreInv, Phases
<1>6. /\ Len(t.steps) = 1 <=> Head(t.steps) = "restart"
      /\ Len(t.steps) # 1 => Head(Tail(t.steps)) # "build"
  BY <1>1, ShapeFacts DEF Task
<1>7. TaskInv(t) /\ t.built <= source[x] /\ t.built \in Nat
  BY <1>1, <1>3 DEF FreshInv, Task
<1> DEFINE next == [t EXCEPT !.steps = Tail(@)]
<1>8. /\ next.svc = x /\ next.built = t.built /\ next.steps = Tail(t.steps)
  BY <1>1, <1>3 DEF Task
<1>9. /\ Len(t.steps) = 1 => rebuild' = rebuild \ {t}
      /\ Len(t.steps) # 1 => rebuild' = (rebuild \ {t}) \cup {next}
  BY <1>4 DEF Advance
<1> HIDE DEF next
<1>10. ASSUME NEW s \in Services PROVE NotAhead(s)' /\ ImageFirst(s)' /\ Current(s)'
  <2>1. NotAhead(s) /\ Current(s) /\ source[s] \in Nat
    BY <1>1 DEF FreshInv
  <2>2. ImageFirst(s)'
    BY <1>4, <1>5 DEF ImageFirst
  <2>3. (Deployed(s)' <=> Deployed(s)) /\ (Has("deployment", s)' <=> Has("deployment", s))
    BY <1>4 DEF Deployed, Has
  <2>4. CASE s = x
    <3>1. image'[s] = image[s] \/ image'[s] = t.built
      BY <1>1, <1>4, <2>4
    <3>2. pod'[s] = pod[s] \/ pod'[s] = image[s]
      BY <1>1, <1>4
    <3>3. NotAhead(s)'
      BY <1>4, <1>7, <2>1, <2>4, <3>1, <3>2 DEF NotAhead
    <3>4. CASE Len(t.steps) # 1
      <4>1. next \in rebuild' /\ next.svc = s
        BY <1>8, <1>9, <2>4, <3>4
      <4>2. ~NoTask(s)'
        BY <4>1 DEF NoTask
      <4> QED BY <2>2, <3>3, <4>2 DEF Current
    <3>5. CASE Len(t.steps) = 1
      <4>1. Head(t.steps) = "restart"
        BY <1>6, <3>5
      <4>2. image' = image /\ pod'[s] = image[s]
        BY <1>1, <1>4, <2>4, <4>1
      <4>3. Def(s).dockerfile /\ s \notin excused /\ s \notin events => image[s] = source[s]
        BY <1>3, <1>7, <2>4, <4>1 DEF TaskInv
      <4>4. Current(s)'
        BY <1>2, <1>4, <4>2, <4>3 DEF Current
      <4> QED BY <2>2, <3>3, <4>4
    <3> QED BY <3>4, <3>5
  <2>5. CASE s # x
    <3>1. image'[s] = image[s] /\ pod'[s] = pod[s] /\ source'[s] = source[s]
      BY <1>1, <1>4, <2>5
    <3>2. NoTask(s)' => NoTask(s)
      BY <1>3, <1>9, <2>5 DEF NoTask
    <3>3. NotAhead(s)'
      BY <2>1, <3>1 DEF NotAhead
    <3>4. Current(s)'
      BY <1>2, <1>4, <2>1, <2>3, <3>1, <3>2 DEF Current
    <3> QED BY <2>2, <3>3, <3>4
  <2> QED BY <2>4, <2>5
<1>11. ASSUME NEW u \in rebuild' PROVE (u.built <= source[u.svc])' /\ TaskInv(u)'
  <2>1. CASE u \in rebuild /\ u # t
    <3>1. TaskInv(u) /\ u.built <= source[u.svc] /\ u.svc \in Services
      BY <1>1, <2>1 DEF FreshInv, TypeInv, Task
    <3>2. u.svc \notin excused => u.svc # x
      BY <1>3, <1>7, <2>1 DEF TaskInv
    <3>3. u.svc # x => image'[u.svc] = image[u.svc]
      BY <1>1, <1>4, <3>1
    <3>4. \A w \in rebuild' : w.svc = u.svc /\ u.svc # x => w \in rebuild
      BY <1>8, <1>9
    <3>5. TaskInv(u)'
      BY <1>2, <1>4, <3>1, <3>2, <3>3, <3>4 DEF TaskInv
    <3> QED BY <1>4, <3>1, <3>5
  <2>2. CASE ~(u \in rebuild /\ u # t)
    <3>1. u = next /\ Len(t.steps) # 1
      BY <1>9, <2>2
    <3>2. u.svc = x /\ u.built = t.built /\ u.steps = Tail(t.steps)
      BY <1>8, <3>1
    <3>3. (u.built <= source[u.svc])'
      BY <1>4, <1>7, <3>2
    <3>4. ASSUME x \notin excused PROVE \A w \in rebuild' : w.svc = x => w = u
      BY <1>3, <1>7, <1>9, <3>1, <3>4 DEF TaskInv
    <3>5. ASSUME x \notin excused, x \notin events, Def(x).dockerfile
          PROVE  t.built = source[x] /\ image'[x] = source[x]
      <4>1. /\ t.built = source[x]
            /\ Head(t.steps) # "build" => image[x] = source[x]
        BY <1>3, <1>7, <3>5 DEF TaskInv
      <4> QED BY <1>1, <1>4, <4>1
    <3>6. TaskInv(u)'
      BY <1>2, <1>4, <3>2, <3>4, <3>5 DEF TaskInv
    <3> QED BY <3>3, <3>6
  <2> QED BY <2>1, <2>2
<1>12. (up.pc = "watch" => up.todo = {})'
  BY <1>4 DEF FreshInv
<1> QED BY <1>10, <1>11, <1>12 DEF FreshInv

\* a rebuild fails: the service is excused
LEMMA FreshFail ==
    ASSUME CoreInv, FreshInv, [Next]_vars, NEW t \in rebuild, RebuildFail(t)
    PROVE  FreshInv'
<1>1. \A s : Def(s)' = Def(s)
  BY ConfigKept, SameConfig
<1>2. /\ UNCHANGED <<up, cluster, source, events, image, pod>>
      /\ rebuild' = rebuild \ {t} /\ excused' = excused \cup {t.svc}
  BY DEF RebuildFail, Still
<1>3. ASSUME NEW s \in Services PROVE NotAhead(s)' /\ ImageFirst(s)' /\ Current(s)'
  <2>1. NotAhead(s) /\ ImageFirst(s) /\ Current(s)
    BY DEF FreshInv
  <2>2. /\ (Deployed(s)' <=> Deployed(s)) /\ (Has("deployment", s)' <=> Has("deployment", s))
        /\ (Built(s)' <=> Built(s))
    BY <1>2 DEF Deployed, Has, Built
  <2>3. s \notin excused' => s \notin excused /\ (NoTask(s)' => NoTask(s))
    BY <1>2 DEF NoTask
  <2>4. NotAhead(s)'
    BY <1>2, <2>1 DEF NotAhead
  <2>5. ImageFirst(s)'
    BY <1>1, <1>2, <2>1, <2>2 DEF ImageFirst
  <2>6. Current(s)'
    BY <1>1, <1>2, <2>1, <2>2, <2>3 DEF Current
  <2> QED BY <2>4, <2>5, <2>6
<1>4. ASSUME NEW u \in rebuild' PROVE (u.built <= source[u.svc])' /\ TaskInv(u)'
  <2>1. u \in rebuild /\ u.built <= source[u.svc] /\ TaskInv(u)
    BY <1>2 DEF FreshInv
  <2>2. TaskInv(u)'
    BY <1>1, <1>2, <2>1 DEF TaskInv
  <2> QED BY <1>2, <2>1, <2>2
<1>5. (up.pc = "watch" => up.todo = {})'
  BY <1>2 DEF FreshInv
<1> QED BY <1>3, <1>4, <1>5 DEF FreshInv

\* Ctrl+C: nothing is watched any more
LEMMA FreshInterrupt ==
    ASSUME FreshInv, UpInterrupt
    PROVE  FreshInv'
<1>1. /\ up' = Ended("done") /\ rebuild' = {}
      /\ UNCHANGED <<image, pod, source>>
  BY DEF UpInterrupt
<1>2. up'.pc = "done" /\ up'.all = {}
  BY <1>1, IdleFacts
<1>3. \A s \in Services : NotAhead(s)'
  BY <1>1 DEF FreshInv, NotAhead
<1>4. \A s \in Services : ImageFirst(s)' /\ Current(s)'
  BY <1>2 DEF ImageFirst, Current, Built, Deployed
<1> QED BY <1>1, <1>2, <1>3, <1>4 DEF FreshInv

\* every step keeps FreshInv
LEMMA FreshStep ==
    ASSUME CoreInv, FreshInv, [Next]_vars
    PROVE  FreshInv'
<1> DEFINE Same == /\ UNCHANGED <<pod, image, source, events, rebuild, excused>>
                   /\ cluster'.resources = cluster.resources
<1>1. CASE \E x \in Services : UpStep(x)
  BY <1>1, FreshUpStep
<1>2. CASE ~\E x \in Services : UpStep(x)
  <2>1. ASSUME Same PROVE FreshInv'
    BY <1>2, <2>1, FreshQuiet
  <2>2. ASSUME NEW named \in SUBSET Services, UpBegin(named) \/ DownBegin(named) PROVE Same
    BY <2>2 DEF UpBegin, DownBegin, Unwatched
  <2>3. ASSUME UpFail \/ DownNext \/ UNCHANGED vars PROVE Same
    BY <2>3 DEF UpFail, DownNext, Unwatched, vars
  <2>4. ASSUME UpIngress PROVE Same
    <3>1. cluster \in Clusters
      BY DEF CoreInv, TypeInv
    <3> QED BY <2>4, <3>1 DEF UpIngress, Unwatched, Clusters
  <2>5. ASSUME NEW s \in Services, UpNext(s) \/ Debounced(s) PROVE Same
    BY <2>5 DEF UpNext, Debounced, Unwatched, Still
  <2>6. ASSUME NEW s \in Services, DownStep(s) \/ Restart(s) \/ Change(s) \/ RebuildBegin(s)
        PROVE  FreshInv'
    BY <2>6, FreshDown, FreshRestart, FreshChange, FreshBegin
  <2>7. ASSUME NEW t \in rebuild, RebuildStep(t) \/ RebuildFail(t) PROVE FreshInv'
    BY <2>7, FreshRebuild, FreshFail
  <2>8. ASSUME UpInterrupt PROVE FreshInv'
    BY <2>8, FreshInterrupt
  <2> HIDE DEF Same
  <2> QED BY <1>2, <2>1, <2>2, <2>3, <2>4, <2>5, <2>6, <2>7, <2>8 DEF Next
<1> QED BY <1>1, <1>2

\* FreshInv holds initially
LEMMA FreshInit == Init => FreshInv
<1> SUFFICES ASSUME Init PROVE FreshInv
  OBVIOUS
<1>1. /\ up.pc = "idle" /\ up.all = {} /\ rebuild = {}
      /\ \A s \in Services : image[s] = 0 /\ pod[s] = 0 /\ source[s] = 1
  BY IdleFacts DEF Init, NoImage
<1>2. \A s \in Services : NotAhead(s)
  <2>1. 0 <= 1
    OBVIOUS
  <2> QED BY <1>1, <2>1, Zenon DEF NotAhead
<1>3. \A s \in Services : ImageFirst(s) /\ Current(s)
  BY <1>1 DEF ImageFirst, Current, Deployed
<1> QED BY <1>1, <1>2, <1>3 DEF FreshInv

\* Pods of a watched service run the image of its present files whenever no
\* event and no rebuild of it is outstanding and it is not excused: for every
\* interleaving of changes, rebuilds, restarts, `a3s up` and `a3s down`.
THEOREM FreshHolds == Spec => []Fresh
<1> DEFINE Inv == CoreInv /\ FreshInv
<1>1. Init => Inv
  BY CoreInit, FreshInit
<1>2. Inv /\ [Next]_vars => Inv'
  BY CoreStep, FreshStep
<1>3. Inv => Fresh
  <2> SUFFICES ASSUME Inv, NEW s \in Services, up.pc = "watch", s \in Watched,
                      Def(s).dockerfile, Has("deployment", s), s \notin excused, s \notin events,
                      \A t \in rebuild : t.svc # s
               PROVE  pod[s] = source[s]
    BY DEF Fresh
  <2>1. up.todo = {} /\ up.steps = <<>> /\ s \in up.all
    BY DEF FreshInv, CoreInv, Phases, Watched
  <2>2. ~Member(up.steps, "deployment")
    BY <2>1 DEF Member
  <2>3. Current(s) /\ Deployed(s) /\ NoTask(s)
    BY <2>1, <2>2 DEF FreshInv, Deployed, NoTask
  <2> QED BY <2>3 DEF Current
<1> QED BY <1>1, <1>2, <1>3, PTL DEF Spec
=============================================================================
