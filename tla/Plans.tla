------------------------------ MODULE Plans ------------------------------
(***************************************************************************)
(* What the operations on all services do, and in which order: the plan    *)
(* that start_all, start_named, stop_all, stop_named, restart_service and  *)
(* reload derive from the configuration they read.  A plan is a sequence   *)
(* of steps, the services of one step are handled concurrently.  Each      *)
(* operator gives the set of plans that the code may arrive at.            *)
(*                                                                         *)
(* A configuration is a function on Services; of a definition only its     *)
(* mode ("absent", "on", or "off" for a disabled service) and deps matter. *)
(***************************************************************************)
EXTENDS Naturals, SequencesExt

CONSTANT Services       \* names of services

Declared(cfg) == {n \in Services : cfg[n].mode # "absent"}
Enabled(cfg) == {n \in Services : cfg[n].mode = "on"}

\* DevConfig::validate, passed by every configuration that is loaded
Valid(cfg) == \A n \in Enabled(cfg) : cfg[n].deps \subseteq Enabled(cfg)

------------------------------------------------------------------------------
(***************************************************************************)
(* The dependency graph by what it promises (DependencyGraph has how):     *)
(* level k holds the services all of whose dependencies lie below it.      *)
(***************************************************************************)
Levels(cfg) ==
    LET L[k \in 0 .. Cardinality(Services)] ==
          IF k = 0 THEN {} ELSE {n \in Declared(cfg) : cfg[n].deps \subseteq L[k - 1]}
    IN L

Acyclic(cfg) == Levels(cfg)[Cardinality(Services)] = Declared(cfg)

Waves(cfg) ==
    [k \in 1 .. Cardinality(Services) |-> Levels(cfg)[k] \ Levels(cfg)[k - 1]]

Dependents(cfg, n) == {m \in Declared(cfg) : n \in cfg[m].deps}

\* the orders of S that start_order may induce: wave by wave
Ordered(cfg, S) ==
    LET Wave(n) == CHOOSE k \in DOMAIN Waves(cfg) : n \in Waves(cfg)[k] IN
    {s \in SetToSeqs(S) : \A i, j \in DOMAIN s : i < j => Wave(s[i]) <= Wave(s[j])}

\* the services that a search from A along edges reaches
Reach(edges, A) ==
    LET R[k \in 0 .. Cardinality(Services)] ==
          IF k = 0 THEN A ELSE R[k - 1] \cup UNION {edges[n] : n \in R[k - 1]}
    IN R[Cardinality(Services)]

------------------------------------------------------------------------------
(********************************* Plans **********************************)

Step(verb, names) == [verb |-> verb, names |-> names]
OneByOne(verb, s) == [i \in DOMAIN s |-> Step(verb, {s[i]})]
Fails == <<Step("fail", {})>>

\* wave by wave, without the disabled services
StartAll(cfg) ==
    IF ~Acyclic(cfg) THEN {Fails}
    ELSE {[k \in DOMAIN Waves(cfg) |-> Step("start", Waves(cfg)[k] \cap Enabled(cfg))]}

\* the named services and what they depend on, one after the other
StartNamed(cfg, A) ==
    LET S == Reach([n \in Services |-> cfg[n].deps], A) \cap Enabled(cfg)
    IN IF ~Acyclic(cfg) THEN {Fails} ELSE {OneByOne("start", s) : s \in Ordered(cfg, S)}

\* mutant: skips disabled services, as start_all does
StopAllEnabled(cfg) ==
    IF ~Acyclic(cfg) THEN {<<>>}
    ELSE {Reverse([k \in DOMAIN Waves(cfg) |-> Step("stop", Waves(cfg)[k] \cap Enabled(cfg))])}

\* the waves backwards; nothing at all without a start order
StopAll(cfg) ==
    IF ~Acyclic(cfg) THEN {<<>>}
    ELSE {Reverse([k \in DOMAIN Waves(cfg) |-> Step("stop", Waves(cfg)[k])])}

\* the declared services among A and all that depend on them
WithDependents(cfg, A) ==
    Reach([n \in Services |-> Dependents(cfg, n)], A) \cap Declared(cfg)

\* mutant: targets before their dependents
DependentsForward(cfg, A) == Ordered(cfg, WithDependents(cfg, A))

\* transitive_dependents_stop_order: dependents first
DependentsOrder(cfg, A) == {Reverse(s) : s \in Ordered(cfg, WithDependents(cfg, A))}

\* in the order given if there is no start order
StopNamed(cfg, A) ==
    IF ~Acyclic(cfg) THEN {OneByOne("stop", s) : s \in SetToSeqs(A)}
    ELSE {OneByOne("stop", s) : s \in DependentsOrder(cfg, A)}

\* stop the service and its dependents, then start them all, disabled ones
\* and ones that were not running included
Restart(cfg, n) ==
    IF ~Acyclic(cfg) THEN {Fails}
    ELSE {OneByOne("stop", s) \o OneByOne("start", Reverse(s)) :
             s \in DependentsOrder(cfg, {n})}

\* mutant: a service that is now disabled keeps running
GoneRemoved(old, new) == Declared(old) \ Declared(new)

\* removed from the file, or disabled in it
Gone(old, new) == {n \in Declared(old) : new[n].mode # "on"}

\* stop what is gone, swap the configuration, then restart what changed and
\* start what is new; without a start order fail, after the swap
Reload(old, new) ==
    LET Touched == {n \in Enabled(new) : old[n] # new[n]}
        Apply(n) == IF n \in Declared(old) THEN <<Step("stop", {n}), Step("start", {n})>>
                    ELSE <<Step("start", {n})>>
        Tails == IF ~Acyclic(new) THEN {Fails}
                 ELSE {FlattenSeq([i \in DOMAIN s |-> Apply(s[i])]) : s \in Ordered(new, Touched)}
    IN {OneByOne("stop", g) \o <<Step("swap", {})>> \o t :
           g \in SetToSeqs(Gone(old, new)), t \in Tails}
=============================================================================
