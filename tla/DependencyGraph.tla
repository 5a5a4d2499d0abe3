------------------------- MODULE DependencyGraph -------------------------
(***************************************************************************)
(* DependencyGraph::from_config: Kahn's algorithm, level by level, over    *)
(* the services of a validated configuration; and the two queries on its   *)
(* result, transitive_start_order and transitive_dependents_stop_order.    *)
(*                                                                         *)
(* in_degree[n] is kept as the set of dependencies it counts: those not    *)
(* yet visited.  (A dependency listed twice is counted twice and discounted*)
(* twice.)  The queues are sets: the code's declaration order within a     *)
(* wave is one of the orders the model allows.                             *)
(***************************************************************************)
EXTENDS Naturals, Sequences, FiniteSets

CONSTANTS
    Services,   \* names declared in the configuration
    Ghosts,     \* names that no service block declares
    MaxDeps     \* bound: how many dependencies a service declares

ASSUME GraphAssumption ==
    /\ IsFiniteSet(Services)
    /\ Services \cap Ghosts = {}
    /\ MaxDeps \in Nat

Names == Services \cup Ghosts

VARIABLES
    depends_on,  \* the configuration: [Services -> SUBSET Names]
    disabled,    \* the configuration: services with disabled = true
    pc,          \* "build", then "ok" or "cycle"; "query", then "answer"
    in_degree,   \* dependencies not visited yet
    order,       \* topological order so far
    waves,       \* the waves so far, the current one included
    wave,        \* services of the current wave still to visit
    next,        \* the wave after it
    kind,        \* the query: "start" or "stop"
    asked,       \* the names asked for
    needed,      \* the query's HashSet
    queue,       \* the query's queue
    passed,      \* how much of the order the query has filtered
    result       \* the query's answer

config == <<depends_on, disabled>>
built == <<in_degree, order, waves, wave, next>>
query == <<kind, asked, needed, queue, passed, result>>
vars == <<config, pc, built, query>>

Visited == {order[i] : i \in 1 .. Len(order)}

\* DevConfig::validate: an enabled service depends on enabled services only
Validated(deps, off) ==
    \A n \in Services \ off : deps[n] \subseteq Services \ off

Ready(degree) == {n \in Services : degree[n] = {}}

Init ==
    /\ depends_on \in [Services -> {D \in SUBSET Names : Cardinality(D) <= MaxDeps}]
    /\ disabled \in SUBSET Services
    /\ Validated(depends_on, disabled)
    /\ pc = "build"
    /\ in_degree = depends_on
    /\ order = <<>>
    /\ wave = Ready(in_degree)
    /\ waves = IF wave = {} THEN <<>> ELSE <<wave>>
    /\ next = {}
    /\ kind = "start" /\ asked = {} /\ needed = {} /\ queue = {} /\ passed = 0 /\ result = <<>>

------------------------------------------------------------------------------
(***************************** from_config ********************************)

\* mutant: a dependent is queued at its first visited dependency
VisitFirstDep(n) ==
    /\ pc = "build"
    /\ n \in wave
    /\ order' = Append(order, n)
    /\ in_degree' = [m \in Services |-> in_degree[m] \ {n}]
    /\ next' = next \cup {m \in Services : n \in in_degree[m]}
    /\ wave' = wave \ {n}
    /\ UNCHANGED <<config, pc, waves, query>>

\* the next node of the wave: its dependents lose a dependency, and join the
\* next wave when they have none left
Visit(n) ==
    /\ pc = "build"
    /\ n \in wave
    /\ order' = Append(order, n)
    /\ in_degree' = [m \in Services |-> in_degree[m] \ {n}]
    /\ next' = next \cup (Ready(in_degree') \ Ready(in_degree))
    /\ wave' = wave \ {n}
    /\ UNCHANGED <<config, pc, waves, query>>

\* mutant: the next nodes join the current wave
NextWaveJoin ==
    /\ pc = "build"
    /\ wave = {} /\ next # {}
    /\ waves' = [waves EXCEPT ![Len(waves)] = @ \cup next]
    /\ wave' = next
    /\ next' = {}
    /\ UNCHANGED <<config, pc, in_degree, order, query>>

NextWave ==
    /\ pc = "build"
    /\ wave = {} /\ next # {}
    /\ waves' = Append(waves, next)
    /\ wave' = next
    /\ next' = {}
    /\ UNCHANGED <<config, pc, in_degree, order, query>>

\* mutant: tolerates one missing service
FinishOffByOne ==
    /\ pc = "build"
    /\ wave = {} /\ next = {}
    /\ pc' = IF Len(order) + 1 < Cardinality(Services) THEN "cycle" ELSE "ok"
    /\ UNCHANGED <<config, built, query>>

Finish ==
    /\ pc = "build"
    /\ wave = {} /\ next = {}
    /\ pc' = IF Len(order) < Cardinality(Services) THEN "cycle" ELSE "ok"
    /\ UNCHANGED <<config, built, query>>

------------------------------------------------------------------------------
(****************************** queries ***********************************)

\* reverse_deps[n] for a stop, deps[n] for a start; none for an unknown name
Neighbours(k, n) ==
    IF k = "stop" THEN {m \in Services : n \in depends_on[m]}
    ELSE IF n \in Services THEN depends_on[n] ELSE {}

\* the caller's names come from the command line, IPC or the UI
Ask ==
    /\ pc = "ok"
    /\ kind' \in {"start", "stop"}
    /\ asked' \in SUBSET Names \ {{}}
    /\ needed' = asked'
    /\ queue' = asked'
    /\ pc' = "query"
    /\ UNCHANGED <<config, built, passed, result>>

\* mutant: collects in both directions
ExpandBoth(n) ==
    /\ pc = "query"
    /\ n \in queue
    /\ LET both == Neighbours("start", n) \cup Neighbours("stop", n) IN
       /\ needed' = needed \cup both
       /\ queue' = (queue \ {n}) \cup (both \ needed)
    /\ UNCHANGED <<config, pc, built, kind, asked, passed, result>>

\* mutant: queues a neighbour without entering it in the set
ExpandUnmarked(n) ==
    /\ pc = "query"
    /\ n \in queue
    /\ queue' = (queue \ {n}) \cup (Neighbours(kind, n) \ needed)
    /\ UNCHANGED <<config, pc, built, kind, asked, needed, passed, result>>

Expand(n) ==
    /\ pc = "query"
    /\ n \in queue
    /\ needed' = needed \cup Neighbours(kind, n)
    /\ queue' = (queue \ {n}) \cup (Neighbours(kind, n) \ needed)
    /\ UNCHANGED <<config, pc, built, kind, asked, passed, result>>

\* the i-th service the query looks at: from the end of the order for a stop
Element(k, i) == IF k = "stop" THEN order[Len(order) + 1 - i] ELSE order[i]

\* mutant: the stop order is not reversed
FilterForward ==
    /\ pc = "query"
    /\ queue = {} /\ passed < Len(order)
    /\ LET n == order[passed + 1] IN
       result' = IF n \in needed THEN Append(result, n) ELSE result
    /\ passed' = passed + 1
    /\ UNCHANGED <<config, pc, built, kind, asked, needed, queue>>

\* filter the topological order, reversed for a stop: the next service of it
Filter ==
    /\ pc = "query"
    /\ queue = {} /\ passed < Len(order)
    /\ LET n == Element(kind, passed + 1) IN
       result' = IF n \in needed THEN Append(result, n) ELSE result
    /\ passed' = passed + 1
    /\ UNCHANGED <<config, pc, built, kind, asked, needed, queue>>

Answer ==
    /\ pc = "query"
    /\ queue = {} /\ passed = Len(order)
    /\ pc' = "answer"
    /\ UNCHANGED <<config, built, query>>

Next ==
    \/ \E n \in Services : Visit(n)
    \/ NextWave \/ Finish \/ Ask
    \/ \E n \in Names : Expand(n)
    \/ Filter \/ Answer

Spec == Init /\ [][Next]_vars

------------------------------------------------------------------------------
(***************************** Properties *********************************)

GraphTypeOK ==
    /\ depends_on \in [Services -> SUBSET Names]
    /\ disabled \subseteq Services
    /\ pc \in {"build", "ok", "cycle", "query", "answer"}
    /\ in_degree \in [Services -> SUBSET Names]
    /\ order \in Seq(Services)
    /\ waves \in Seq(SUBSET Services)
    /\ wave \subseteq Services
    /\ next \subseteq Services
    /\ kind \in {"start", "stop"}
    /\ asked \subseteq Names
    /\ needed \subseteq Names
    /\ queue \subseteq needed
    /\ passed \in 0 .. Len(order)
    /\ result \in Seq(Services)

\* Topological: in the order from_config builds, every dependency of a
\* service precedes it, and no service occurs twice.
Topological ==
    \A i \in 1 .. Len(order) :
        /\ \A d \in depends_on[order[i]] : \E j \in 1 .. (i - 1) : order[j] = d
        /\ \A j \in 1 .. (i - 1) : order[j] # order[i]

\* WavesExact: the dependencies of a service in wave k are all in earlier
\* waves, and for k > 1 at least one is in wave k - 1: start_all never starts
\* a service before its dependencies and never later than it could.
WavesExact ==
    \A k \in 1 .. Len(waves) : \A n \in waves[k] :
        /\ depends_on[n] \subseteq UNION {waves[j] : j \in 1 .. (k - 1)}
        /\ k > 1 => depends_on[n] \cap waves[k - 1] # {}

\* the services of S cannot be ordered: each one waits for another one of S
\* or for a name nobody declares
Stuck(S) == \A n \in S : depends_on[n] \cap (S \cup Ghosts) # {}

\* CycleExact: from_config reports a cycle exactly when some services cannot
\* be ordered.
CycleExact ==
    /\ pc = "cycle" => \E S \in SUBSET Services : S # {} /\ Stuck(S)
    /\ pc \in {"ok", "query", "answer"} =>
           ~ \E S \in SUBSET Services : S # {} /\ Stuck(S)

\* what a search from the asked names must find, without searching: the names
\* that lie in every set that holds them and is closed under neighbours
Closed(k, S) == \A n \in S : Neighbours(k, n) \subseteq S
Closure(k, A) ==
    {m \in Names : \A S \in SUBSET Names : A \subseteq S /\ Closed(k, S) => m \in S}

\* ClosureExact: the search of a query finds all transitive dependencies (or
\* dependents) of the asked names and nothing else: a selective start or stop
\* forgets no service it must touch and touches no unrelated one.
ClosureExact == pc = "answer" => needed = Closure(kind, asked)

Answered == {result[i] : i \in 1 .. Len(result)}

\* SafeAnswer: the answer holds the services that were found, each one after
\* all its neighbours: a service to start after all its dependencies, one to
\* stop after all its dependents.
SafeAnswer ==
    pc = "answer" =>
        /\ Answered = needed \cap Services
        /\ \A i \in 1 .. Len(result) :
            Neighbours(kind, result[i]) \subseteq {result[j] : j \in 1 .. (i - 1)}
=============================================================================
