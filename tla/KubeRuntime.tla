---------------------------- MODULE KubeRuntime ----------------------------
(***************************************************************************)
(* runtime = "k8s": `a3s up` builds and applies the services one after     *)
(* another in dependency order, each awaited before the next, then the     *)
(* ingress, and rebuilds watched services when their files change; `a3s    *)
(* down` deletes per-service resources; `a3s restart` rolls a deployment.  *)
(* kubectl, docker and the cluster are external: every call may fail.      *)
(*                                                                         *)
(* `up` and `down` are run one at a time.  Manifests are abstracted to the *)
(* kind of resource, what it refers to and the image version it runs.      *)
(***************************************************************************)
EXTENDS Naturals, Sequences

CONSTANTS
    Services,
    Configs,        \* the configurations considered, see ConfigRecords
    MaxUps,         \* bound: how often `a3s up` is run
    MaxDowns,       \* bound: how often `a3s down` is run
    MaxChanges      \* bound: changes to the files of a service

\* depends_on, disabled, subdomain; env is not empty; where secrets come
\* from; a chart (Helm or Kustomize) in place of generated manifests; a
\* dockerfile; a watch block; registry: dev.registry is set
ServiceDefs ==
    [deps : SUBSET Services, disabled : BOOLEAN, subdomain : BOOLEAN, env : BOOLEAN,
     secrets : {"none", "inline", "file", "empty file"}, chart : BOOLEAN,
     dockerfile : BOOLEAN, watch : BOOLEAN]

ASSUME KubeAssumption ==
    /\ \A c \in Configs : c.registry \in BOOLEAN /\ c.service \in [Services -> ServiceDefs]
    /\ {MaxUps, MaxDowns, MaxChanges} \subseteq Nat

VARIABLES
    cfg,        \* the configuration
    cluster,    \* the resources: <<kind, service>>; rules of the ingress
    pod,        \* the image version that the pods of a service run
    image,      \* the image in the docker daemon: the source version it was built from
    source,     \* the version of the files of a service
    up,         \* `a3s up`: the services still to deploy, the steps of the current one
    down,       \* `a3s down`: the same for deletion
    events,     \* file changes the watchers have sent and up has not received
    recent,     \* services whose watcher has sent within DEBOUNCE_MS
    rebuild,    \* rebuild_and_restart tasks
    excused,    \* services whose pods may run an old image, see Fresh
    ups, downs  \* how often up and down were run

vars == <<cfg, cluster, pod, image, source, up, down, events, recent, rebuild, excused, ups, downs>>

Kinds == {"service", "deployment", "configmap", "secret"}
NoImage == 0

Def(s) == cfg.service[s]
Enabled == {s \in Services : ~Def(s).disabled}
Has(kind, s) == <<kind, s>> \in cluster.resources

------------------------------------------------------------------------------
(***************************** Configuration ******************************)

\* validate: an enabled service depends on enabled services only
ValidDeps(c) ==
    \A s \in Services : ~c.service[s].disabled =>
        \A d \in c.service[s].deps : ~c.service[d].disabled

Closed(S) == \A s \in S : Def(s).deps \subseteq S

\* transitive_start_order: the named services and all they depend on
Closure(S) ==
    CHOOSE T \in SUBSET Services :
        /\ S \subseteq T /\ Closed(T)
        /\ \A U \in SUBSET T : S \subseteq U /\ Closed(U) => U = T

\* mutant: services that are named are deployed even when disabled
TargetsNamed(named) == IF named = {} THEN Services ELSE named

\* names or labels; none: all of them; without the disabled ones
Targets(named) == (IF named = {} THEN Services ELSE named) \cap Enabled

------------------------------------------------------------------------------
(******************************* Manifests ********************************)

\* generate_configmap, and generate_secret of what load_secrets returns
HasConfigMap(s) == Def(s).env
HasSecret(s) == Def(s).secrets \in {"inline", "file"}

\* generate_env_vars refers to a secret whenever a secret_file is named
EnvFrom(s) ==
    (IF Def(s).env THEN {<<"configmap", s>>} ELSE {})
    \cup (IF Def(s).secrets # "none" THEN {<<"secret", s>>} ELSE {})

\* generate_init_containers: look up the DNS names of the dependencies
WaitsFor(s) == Def(s).deps

\* generate_ingress: every service with a subdomain, deployed or not
IngressRules == {s \in Services : Def(s).subdomain}

------------------------------------------------------------------------------
(******************************** `a3s up` ********************************)

Idle == [pc |-> "idle", all |-> {}, todo |-> {}, svc |-> {}, steps |-> <<>>]
Ended(pc) == [Idle EXCEPT !.pc = pc]

Unwatched == UNCHANGED <<source, events, recent, rebuild>>

\* run_k8s_mode
UpBegin(named) ==
    /\ up.pc \in {"idle", "failed", "done"} /\ down.pc = "idle" /\ ups < MaxUps
    /\ ups' = ups + 1
    /\ up' = IF Targets(named) = {} THEN Ended("failed")
             ELSE LET order == Closure(Targets(named))
                  IN [Idle EXCEPT !.pc = "deploy", !.all = order, !.todo = order]
    /\ UNCHANGED <<cfg, cluster, pod, image, down, excused, downs>> /\ Unwatched

When(cond, step) == IF cond THEN <<step>> ELSE <<>>

\* the pushed tag is not what the deployment refers to: a push only may fail
build_and_push(s) ==
    When(Def(s).dockerfile, "build") \o When(Def(s).dockerfile /\ cfg.registry, "push")

\* docker build under the tag of the service; kubectl apply; kubectl rollout
\* restart, which starts pods on the image there is
build_image(s, version) == [image EXCEPT ![s] = version]
apply_manifest(kind, s) == [cluster EXCEPT !.resources = @ \cup {<<kind, s>>}]
rollout_restart(s) == [pod EXCEPT ![s] = image[s]]

\* mutant: the deployment is applied before what it refers to
StepsDeployFirst(s) ==
    build_and_push(s)
    \o IF Def(s).chart THEN <<"render", "deployment", "wait">>
       ELSE <<"load", "deployment">> \o When(HasSecret(s), "secret")
            \o When(HasConfigMap(s), "configmap") \o <<"service", "wait">>

\* mutant: does not wait for the pods
StepsNoWait(s) ==
    build_and_push(s)
    \o IF Def(s).chart THEN <<"render", "deployment">>
       ELSE <<"load">> \o When(HasSecret(s), "secret") \o When(HasConfigMap(s), "configmap")
            \o <<"deployment", "service">>

\* start_service: build_and_push, the manifests of a chart or our own, and the
\* wait for a ready pod
Steps(s) ==
    build_and_push(s)
    \o IF Def(s).chart THEN <<"render", "deployment", "wait">>
       ELSE <<"load">> \o When(HasSecret(s), "secret") \o When(HasConfigMap(s), "configmap")
            \o <<"deployment", "service", "wait">>

\* the next service in dependency order
UpNext(s) ==
    /\ up.pc = "deploy" /\ up.steps = <<>>
    /\ s \in up.todo /\ Def(s).deps \cap up.todo = {}
    /\ up' = [up EXCEPT !.todo = @ \ {s}, !.svc = {s}, !.steps = Steps(s)]
    /\ UNCHANGED <<cfg, cluster, pod, image, down, excused, ups, downs>> /\ Unwatched

\* a pod gets ready when what envFrom names is there and its init containers
\* find the names of the dependencies (a chart brings its own)
CanRun(s) ==
    /\ Has("deployment", s)
    /\ Def(s).chart \/ /\ EnvFrom(s) \subseteq cluster.resources
                       /\ \A d \in WaitsFor(s) : Has("service", d) \/ Def(d).chart

\* one docker or kubectl command of start_service.  An applied deployment
\* starts pods on the image there is, unless it is there, unchanged, already.
UpStep(s) ==
    /\ up.steps # <<>> /\ up.svc = {s}
    /\ LET step == Head(up.steps) IN
       /\ step = "wait" => CanRun(s)
       /\ up' = [up EXCEPT !.steps = Tail(@)]
       /\ image' = IF step = "build" THEN build_image(s, source[s]) ELSE image
       /\ cluster' = IF step \in Kinds THEN apply_manifest(step, s) ELSE cluster
       /\ pod' = IF step = "deployment" /\ ~Has("deployment", s) THEN [pod EXCEPT ![s] = image[s]]
                 ELSE pod
       /\ excused' = IF step # "deployment" THEN excused
                     ELSE IF pod'[s] = source[s] THEN excused \ {s} ELSE excused \cup {s}
    /\ UNCHANGED <<cfg, down, ups, downs>> /\ Unwatched

\* any of them fails, or no pod is ready within 60 s, and up gives up
UpFail ==
    /\ up.steps # <<>>
    /\ up' = Ended("failed")
    /\ UNCHANGED <<cfg, cluster, pod, image, down, excused, ups, downs>> /\ Unwatched

Watched == {s \in up.all : Def(s).watch}

\* deploy_ingress, which may fail; then watch, or end
UpIngress ==
    /\ up.pc = "deploy" /\ up.todo = {} /\ up.steps = <<>>
    /\ \/ /\ up' = IF Watched = {} THEN Ended("done") ELSE [up EXCEPT !.pc = "watch"]
          /\ cluster' = IF IngressRules = {} THEN cluster ELSE [cluster EXCEPT !.rules = IngressRules]
       \/ IngressRules # {} /\ up' = Ended("failed") /\ UNCHANGED cluster
    /\ UNCHANGED <<cfg, pod, image, down, excused, ups, downs>> /\ Unwatched

\* Ctrl+C: the watchers and the rebuilds end with the process
UpInterrupt ==
    /\ up.pc = "watch"
    /\ up' = Ended("done")
    /\ events' = {} /\ recent' = {} /\ rebuild' = {}
    /\ excused' = excused \cup events \cup {t.svc : t \in rebuild}
    /\ UNCHANGED <<cfg, cluster, pod, image, source, down, ups, downs>>

------------------------------------------------------------------------------
(***************************** File changes *******************************)

Still == UNCHANGED <<cfg, cluster, up, down, ups, downs>>

\* a file changes.  The watcher drops what comes within DEBOUNCE_MS of the
\* last event it sent, and nobody watches before the deployment is over.
Change(s) ==
    /\ Def(s).dockerfile \/ Def(s).watch
    /\ source[s] <= MaxChanges
    /\ source' = [source EXCEPT ![s] = @ + 1]
    /\ IF up.pc = "watch" /\ s \in Watched /\ s \notin recent
       THEN events' = events \cup {s} /\ recent' = recent \cup {s} /\ UNCHANGED excused
       ELSE excused' = excused \cup {s} /\ UNCHANGED <<events, recent>>
    /\ UNCHANGED <<pod, image, rebuild>> /\ Still

Debounced(s) ==
    /\ s \in recent
    /\ recent' = recent \ {s}
    /\ UNCHANGED <<pod, image, source, events, rebuild, excused>> /\ Still

\* every event starts a task of its own; docker build reads the files now
RebuildBegin(s) ==
    /\ s \in events
    /\ events' = events \ {s}
    /\ LET others == {t \in rebuild : t.svc = s}
           id == CHOOSE n \in 1 .. (MaxChanges + 1) : \A t \in others : t.id # n
       IN /\ rebuild' = rebuild \cup {[svc |-> s, id |-> id, built |-> source[s],
              steps |-> build_and_push(s) \o <<"restart">>]}
          /\ excused' = IF others = {} THEN excused \ {s} ELSE excused \cup {s}
    /\ UNCHANGED <<pod, image, source, recent>> /\ Still

Advance(t) == (rebuild \ {t}) \cup
              (IF Len(t.steps) = 1 THEN {} ELSE {[t EXCEPT !.steps = Tail(@)]})

\* mutant: rolls the deployment before the image is built
RebuildStepRollFirst(t) ==
    /\ rebuild' = Advance(t)
    /\ image' = IF Head(t.steps) = "build" THEN build_image(t.svc, t.built) ELSE image
    /\ pod' = IF Head(t.steps) = "build" /\ Has("deployment", t.svc)
              THEN rollout_restart(t.svc) ELSE pod
    /\ UNCHANGED <<source, events, recent, excused>> /\ Still

\* rebuild_and_restart: build, push, rollout restart
RebuildStep(t) ==
    /\ Head(t.steps) = "restart" => Has("deployment", t.svc)
    /\ rebuild' = Advance(t)
    /\ image' = IF Head(t.steps) = "build" THEN build_image(t.svc, t.built) ELSE image
    /\ pod' = IF Head(t.steps) = "restart" THEN rollout_restart(t.svc) ELSE pod
    /\ UNCHANGED <<source, events, recent, excused>> /\ Still

\* a failure is logged and the task ends
RebuildFail(t) ==
    /\ rebuild' = rebuild \ {t}
    /\ excused' = excused \cup {t.svc}
    /\ UNCHANGED <<pod, image, source, events, recent>> /\ Still

------------------------------------------------------------------------------
(*********************** `a3s down`, `a3s restart` ************************)

\* k8s_down: the named or labelled services of the configuration
DownBegin(named) ==
    /\ up.pc # "deploy" /\ down.pc = "idle" /\ downs < MaxDowns
    /\ downs' = downs + 1
    /\ down' = [Idle EXCEPT !.pc = "delete", !.todo = IF named = {} THEN Services ELSE named]
    /\ UNCHANGED <<cfg, cluster, pod, image, up, excused, ups>> /\ Unwatched

\* stop_service; the ingress and what a chart names otherwise stay
Deletions(s) == <<"service", "deployment", "configmap", "secret">>

DownNext ==
    /\ down.pc = "delete" /\ down.steps = <<>>
    /\ \/ \E s \in down.todo :
            down' = [down EXCEPT !.todo = @ \ {s}, !.svc = {s}, !.steps = Deletions(s)]
       \/ down.todo = {} /\ down' = Idle
    /\ UNCHANGED <<cfg, cluster, pod, image, up, excused, ups, downs>> /\ Unwatched

\* delete_resource; a failure is only logged (and noted here, in kept)
DownStep(s) ==
    /\ down.steps # <<>> /\ down.svc = {s}
    /\ LET kind == Head(down.steps) IN
       \/ /\ cluster' = [cluster EXCEPT !.resources = @ \ {<<kind, s>>}]
          /\ pod' = IF kind = "deployment" THEN [pod EXCEPT ![s] = NoImage] ELSE pod
       \/ /\ <<kind, s>> \in cluster.resources
          /\ cluster' = [cluster EXCEPT !.kept = @ \cup {<<kind, s>>}]
          /\ UNCHANGED pod
    /\ down' = [down EXCEPT !.steps = Tail(@)]
    /\ UNCHANGED <<cfg, image, up, excused, ups, downs>> /\ Unwatched

\* `a3s restart`: rollout_restart
Restart(s) ==
    /\ Has("deployment", s)
    /\ pod' = rollout_restart(s)
    /\ UNCHANGED <<image, source, events, recent, rebuild, excused>> /\ Still

------------------------------------------------------------------------------
Init ==
    /\ cfg \in {c \in Configs : ValidDeps(c)}
    /\ cluster = [resources |-> {}, rules |-> {}, kept |-> {}]
    /\ pod = [s \in Services |-> NoImage]
    /\ image = [s \in Services |-> NoImage]
    /\ source = [s \in Services |-> 1]
    /\ up = Idle
    /\ down = Idle
    /\ events = {}
    /\ recent = {}
    /\ rebuild = {}
    /\ excused = {}
    /\ ups = 0
    /\ downs = 0

Next ==
    \/ \E named \in SUBSET Services : UpBegin(named) \/ DownBegin(named)
    \/ UpFail \/ UpIngress \/ UpInterrupt \/ DownNext
    \/ \E s \in Services :
        \/ UpNext(s) \/ UpStep(s) \/ DownStep(s) \/ Restart(s)
        \/ Change(s) \/ Debounced(s) \/ RebuildBegin(s)
    \/ \E t \in rebuild : RebuildStep(t) \/ RebuildFail(t)

Spec == Init /\ [][Next]_vars

------------------------------------------------------------------------------
(******************************* Properties *******************************)

\* RefsResolve: whichever command fails half-way, a generated deployment in
\* the cluster refers only to a configmap and a secret that are there, unless
\* deleting the deployment failed, or its secret_file has no entries.
RefsResolve ==
    \A s \in Services :
        /\ Has("deployment", s) /\ ~Def(s).chart
        /\ <<"deployment", s>> \notin cluster.kept
        => \A r \in EnvFrom(s) :
              r \in cluster.resources \/ (r[1] = "secret" /\ Def(s).secrets = "empty file")

\* DepsRunFirst: a deployment is created only when every service it depends on
\* is able to run, never next to one that could not get ready.
DepsRunFirst ==
    [][ \A s \in Services :
          ~Has("deployment", s) /\ <<"deployment", s>> \in cluster'.resources
          => \A d \in Def(s).deps : CanRun(d) ]_vars

\* DisabledNeverDeployed: no resource of a disabled service is ever created,
\* neither when it is named nor as a dependency.
DisabledNeverDeployed ==
    \A r \in cluster.resources : ~Def(r[2]).disabled

\* Fresh: when no event and no rebuild of a watched service is outstanding its
\* pods run the image of its present files.  Excused, until a rebuild that has
\* no rival starts: a change that the watcher dropped or nobody watched, a
\* failed rebuild, rebuilds that overlapped, and an unchanged deployment.
Fresh ==
    \A s \in Services :
        /\ up.pc = "watch" /\ s \in Watched /\ Def(s).dockerfile /\ Has("deployment", s)
        /\ s \notin excused \cup events
        /\ \A t \in rebuild : t.svc # s
        => pod[s] = source[s]
=============================================================================
