---------------------- MODULE DependencyGraphProofs ----------------------
(***************************************************************************)
(* For every configuration, of any size: the order from_config builds is   *)
(* topological, a cycle is reported exactly when services cannot be        *)
(* ordered, and a query collects exactly the transitive closure.           *)
(***************************************************************************)
EXTENDS DependencyGraph, FiniteSetTheorems, TLAPS

\* The sets of from_config account for every service: the in-degrees are the
\* unvisited dependencies, and a service without any is visited or queued.
Accounted ==
    /\ \A n \in Services : in_degree[n] = depends_on[n] \ Visited
    /\ \A n \in wave \cup next : in_degree[n] = {} /\ n \notin Visited
    /\ wave \cap next = {}
    /\ \A n \in Services : in_degree[n] = {} => n \in Visited \cup wave \cup next
    /\ pc # "build" => wave = {} /\ next = {}

\* No service of a set that cannot be ordered is ever visited.
StuckUnvisited ==
    \A S \in SUBSET Services : Stuck(S) => S \cap Visited = {}

BuildInv == GraphTypeOK /\ Accounted /\ Topological /\ StuckUnvisited /\ CycleExact

\* Appending a service to the order adds it, and only it, to the visited ones.
LEMMA VisitedAppend ==
    ASSUME NEW n \in Services, order \in Seq(Services), order' = Append(order, n)
    PROVE  /\ order' \in Seq(Services)
           /\ Len(order') = Len(order) + 1
           /\ \A i \in 1 .. Len(order) : order'[i] = order[i]
           /\ order'[Len(order) + 1] = n
           /\ Visited' = Visited \cup {n}
<1>1. /\ order' \in Seq(Services)
      /\ Len(order') = Len(order) + 1
      /\ \A i \in 1 .. Len(order) : order'[i] = order[i]
      /\ order'[Len(order) + 1] = n
  OBVIOUS
<1>2. Visited' = Visited \cup {n}
  BY <1>1 DEF Visited
<1> QED BY <1>1, <1>2

\* The order visits every service exactly when it is as long as there are
\* services: the test by which from_config detects a cycle.
LEMMA VisitedAll ==
    ASSUME GraphTypeOK, Topological
    PROVE  (Len(order) < Cardinality(Services)) <=> (Visited # Services)
<1> DEFINE k == Len(order)
<1>1. order \in [1 .. k -> Services] /\ k \in Nat /\ Visited \subseteq Services
  BY DEF GraphTypeOK, Visited
<1> HIDE DEF k
<1>2. IsFiniteSet(1 .. k) /\ Cardinality(1 .. k) = k
  <2>1. 1 \in Int /\ k \in Int
    BY <1>1
  <2>2. IsFiniteSet(1 .. k) /\ Cardinality(1 .. k) = IF 1 > k THEN 0 ELSE k - 1 + 1
    BY <2>1, FS_Interval
  <2> QED BY <1>1, <2>2
<1>3. order \in Bijection(1 .. k, Visited)
  <2>1. order \in Injection(1 .. k, Services)
    <3>1. \A i, j \in 1 .. k : i < j => order[i] # order[j]
      BY <1>1 DEF Topological
    <3> QED BY <1>1, <3>1 DEF Injection, IsInjective
  <2> QED BY <1>1, <2>1 DEF Injection, Surjection, Bijection, IsInjective, Visited
<1>4. IsFiniteSet(Visited) /\ Cardinality(Visited) = k
  BY <1>2, <1>3, FS_Bijection DEF ExistsBijection
<1>5. IsFiniteSet(Services) /\ Cardinality(Services) \in Nat
  BY GraphAssumption, FS_CardinalityType
<1>6. Cardinality(Visited) <= Cardinality(Services)
      /\ (Cardinality(Visited) = Cardinality(Services) => Visited = Services)
  BY <1>1, <1>5, FS_Subset
<1> QED BY <1>1, <1>4, <1>5, <1>6

------------------------------------------------------------------------------
(************************ from_config builds a sound order ****************)

LEMMA BuildInit == Init => BuildInv
<1> SUFFICES ASSUME Init PROVE BuildInv
  OBVIOUS
<1>1. Visited = {}
  BY DEF Init, Visited
<1>2. GraphTypeOK
  <2>1. depends_on \in [Services -> SUBSET Names]
    BY DEF Init
  <2>2. wave \subseteq Services
    BY DEF Init, Ready
  <2>3. waves \in Seq(SUBSET Services)
    <3>1. wave \in SUBSET Services /\ (waves = <<>> \/ waves = <<wave>>)
      BY <2>2 DEF Init
    <3>2. <<>> \in Seq(SUBSET Services)
      OBVIOUS
    <3>3. \A s \in SUBSET Services : <<s>> \in Seq(SUBSET Services)
      OBVIOUS
    <3> QED BY <3>1, <3>2, <3>3
  <2>4. order \in Seq(Services) /\ result \in Seq(Services) /\ passed \in 0 .. Len(order)
    BY DEF Init
  <2> QED BY <2>1, <2>2, <2>3, <2>4 DEF Init, GraphTypeOK
<1>3. Accounted
  BY <1>1 DEF Init, Accounted, Ready
<1>4. Topological /\ StuckUnvisited /\ CycleExact
  BY <1>1 DEF Init, Topological, StuckUnvisited, CycleExact
<1> QED BY <1>2, <1>3, <1>4 DEF BuildInv

\* A visited service has all its dependencies behind it.
LEMMA VisitStep ==
    ASSUME BuildInv, NEW n \in Services, Visit(n)
    PROVE  BuildInv'
<1> USE DEF BuildInv
<1>1. order \in Seq(Services) /\ order' = Append(order, n) /\ n \in wave
  BY DEF Visit, GraphTypeOK
<1>2. /\ Len(order') = Len(order) + 1 /\ Len(order) \in Nat
      /\ \A i \in 1 .. Len(order) : order'[i] = order[i]
      /\ order'[Len(order) + 1] = n
      /\ Visited' = Visited \cup {n}
  BY <1>1, VisitedAppend
<1>3. GraphTypeOK'
  BY <1>1, VisitedAppend DEF Visit, GraphTypeOK, Ready, config, query
<1>4. depends_on[n] \subseteq Visited /\ n \notin Visited
  BY <1>1 DEF Accounted
<1>5. UNCHANGED <<depends_on, pc>> /\ pc = "build"
  BY DEF Visit, config
<1>6. Accounted'
  <2>1. \A m \in Services : in_degree'[m] = in_degree[m] \ {n}
    BY DEF Visit
  <2>2. \A m \in Services : in_degree'[m] = depends_on'[m] \ Visited'
    BY <1>2, <1>5, <2>1 DEF Accounted
  <2>3. next' = next \cup {m \in Services : in_degree'[m] = {} /\ in_degree[m] # {}}
        /\ wave' = wave \ {n}
    BY DEF Visit, Ready
  <2>4. \A m \in wave' \cup next' : in_degree'[m] = {} /\ m \notin Visited'
    <3>1. \A m \in Visited : m \in Services /\ in_degree[m] = {}
      <4> SUFFICES ASSUME NEW i \in 1 .. Len(order)
                   PROVE  order[i] \in Services /\ in_degree[order[i]] = {}
        BY DEF Visited
      <4>1. order[i] \in Services
        BY <1>1
      <4>2. \A d \in depends_on[order[i]] : \E j \in 1 .. (i - 1) : order[j] = d
        BY Zenon DEF Topological
      <4>3. 1 .. (i - 1) \subseteq 1 .. Len(order)
        BY <1>2
      <4>4. \A d \in depends_on[order[i]] : \E j \in 1 .. Len(order) : order[j] = d
        BY <4>2, <4>3, Zenon
      <4> QED BY <4>1, <4>4 DEF Visited, Accounted
    <3> QED BY <1>1, <1>2, <2>1, <2>3, <3>1 DEF Accounted, GraphTypeOK
  <2>5. wave' \cap next' = {}
    BY <2>3 DEF Accounted
  <2>6. \A m \in Services : in_degree'[m] = {} => m \in Visited' \cup wave' \cup next'
    BY <1>2, <2>3 DEF Accounted
  <2> QED BY <1>5, <2>2, <2>4, <2>5, <2>6 DEF Accounted
<1>7. Topological'
  <2> SUFFICES ASSUME NEW i \in 1 .. Len(order')
               PROVE  /\ \A d \in depends_on[order'[i]] :
                            \E j \in 1 .. (i - 1) : order'[j] = d
                      /\ \A j \in 1 .. (i - 1) : order'[j] # order'[i]
    BY <1>5 DEF Topological
  <2>1. CASE i \in 1 .. Len(order)
    <3>1. \A j \in 1 .. (i - 1) : order'[j] = order[j]
      BY <1>2, <2>1
    <3>2. order'[i] = order[i]
      BY <1>2, <2>1
    <3>3. /\ \A d \in depends_on[order[i]] : \E j \in 1 .. (i - 1) : order[j] = d
          /\ \A j \in 1 .. (i - 1) : order[j] # order[i]
      BY <2>1, Zenon DEF Topological
    <3> QED BY <3>1, <3>2, <3>3, Zenon
  <2>2. CASE i = Len(order) + 1
    BY <1>2, <1>4, <2>2 DEF Visited
  <2> QED BY <1>2, <2>1, <2>2
<1>8. StuckUnvisited'
  <2> SUFFICES ASSUME NEW S \in SUBSET Services, Stuck(S)
               PROVE  n \notin S
    BY <1>2, <1>5 DEF StuckUnvisited, Stuck
  <2>1. S \cap Visited = {} /\ Visited \subseteq Services
    BY <1>1 DEF StuckUnvisited, Visited
  <2> QED BY <1>4, <2>1, GraphAssumption DEF Stuck
<1>9. CycleExact'
  BY <1>5 DEF CycleExact
<1> QED BY <1>3, <1>6, <1>7, <1>8, <1>9

LEMMA FinishStep ==
    ASSUME BuildInv, Finish
    PROVE  BuildInv'
<1> USE DEF BuildInv
<1>1. UNCHANGED <<depends_on, disabled, in_degree, order, waves, wave, next,
                  kind, asked, needed, queue, passed, result>>
      /\ Visited' = Visited /\ wave = {} /\ next = {}
  BY DEF Finish, config, built, query, Visited
<1>2. GraphTypeOK'
  BY <1>1 DEF Finish, GraphTypeOK
<1>3. Accounted' /\ Topological'
  BY <1>1 DEF Accounted, Topological
<1>4. StuckUnvisited'
  BY <1>1 DEF StuckUnvisited, Stuck
<1>5. CycleExact'
  <2>1. CASE Len(order) < Cardinality(Services)
    <3>1. pc' = "cycle" /\ Visited # Services
      BY <2>1, VisitedAll DEF Finish
    <3> DEFINE S == Services \ Visited
    <3>2. S \in SUBSET Services /\ S # {}
      BY <3>1 DEF GraphTypeOK, Visited
    <3>3. Stuck(S)
      <4> SUFFICES ASSUME NEW n \in S PROVE depends_on[n] \cap (S \cup Ghosts) # {}
        BY DEF Stuck
      <4>1. depends_on[n] \ Visited # {} /\ depends_on[n] \subseteq Names
        BY <1>1 DEF Accounted, GraphTypeOK
      <4> QED BY <4>1 DEF Names
    <3> QED BY <1>1, <3>1, <3>2, <3>3 DEF CycleExact, Stuck
  <2>2. CASE ~(Len(order) < Cardinality(Services))
    <3>1. pc' = "ok" /\ Visited = Services
      BY <2>2, VisitedAll DEF Finish
    <3> QED BY <1>1, <3>1 DEF CycleExact, Stuck, StuckUnvisited
  <2> QED BY <2>1, <2>2
<1> QED BY <1>2, <1>3, <1>4, <1>5

\* A step that leaves the order alone and stays on its side of the verdict
\* preserves everything from_config established.
LEMMA BuildUnchanged ==
    ASSUME BuildInv, UNCHANGED <<depends_on, in_degree, order>>,
           GraphTypeOK', wave' \cup next' = wave \cup next, wave' \cap next' = {},
           pc' # pc => pc' \in {"query", "answer"} /\ pc \in {"ok", "query"}
    PROVE  BuildInv'
<1>1. Visited' = Visited
  BY DEF Visited
<1>2. Accounted' /\ Topological' /\ StuckUnvisited' /\ CycleExact'
  BY <1>1 DEF BuildInv, Accounted, Topological, StuckUnvisited, Stuck, CycleExact
<1> QED BY <1>2 DEF BuildInv

LEMMA BuildStep == BuildInv /\ [Next]_vars => BuildInv'
<1> SUFFICES ASSUME BuildInv, [Next]_vars PROVE BuildInv'
  OBVIOUS
<1>1. ASSUME NEW n \in Services, Visit(n) PROVE BuildInv'
  BY <1>1, VisitStep
<1>2. CASE NextWave
  <2>1. GraphTypeOK'
    BY <1>2 DEF BuildInv, NextWave, GraphTypeOK, config, query
  <2> QED BY <1>2, <2>1, BuildUnchanged DEF NextWave, config
<1>3. CASE Finish
  BY <1>3, FinishStep
<1>4. CASE Ask
  <2>1. GraphTypeOK'
    BY <1>4 DEF BuildInv, Ask, GraphTypeOK, config, built
  <2> QED BY <1>4, <2>1, BuildUnchanged DEF Ask, config, built, BuildInv, Accounted
<1>5. ASSUME NEW n \in Names, Expand(n) PROVE BuildInv'
  <2>1. Neighbours(kind, n) \subseteq Names
    BY DEF BuildInv, GraphTypeOK, Neighbours, Names
  <2>2. GraphTypeOK'
    BY <1>5, <2>1 DEF BuildInv, Expand, GraphTypeOK, config, built
  <2> QED BY <1>5, <2>2, BuildUnchanged DEF Expand, config, built, BuildInv, Accounted
<1>6. CASE Filter \/ Answer
  <2>1. ASSUME Filter PROVE GraphTypeOK'
    <3>1. order \in Seq(Services) /\ Element(kind, passed + 1) \in Services
      BY <2>1 DEF BuildInv, GraphTypeOK, Filter, Element
    <3> QED BY <2>1, <3>1 DEF BuildInv, Filter, GraphTypeOK, config, built
  <2>2. GraphTypeOK'
    BY <1>6, <2>1 DEF BuildInv, Answer, GraphTypeOK, config, built, query
  <2> QED BY <1>6, <2>2, BuildUnchanged DEF Filter, Answer, config, built, BuildInv, Accounted
<1>7. CASE UNCHANGED vars
  <2>1. GraphTypeOK'
    BY <1>7 DEF BuildInv, GraphTypeOK, vars, config, built, query
  <2> QED BY <1>7, <2>1, BuildUnchanged DEF vars, config, built, BuildInv, Accounted
<1> QED BY <1>1, <1>2, <1>3, <1>4, <1>5, <1>6, <1>7 DEF Next

\* For every configuration, from_config accounts for every service at every
\* step: BuildInv is an invariant.
THEOREM BuildCorrect == Spec => []BuildInv
<1> QED BY BuildInit, BuildStep, PTL DEF Spec

\* Every variable of the graph and of a query keeps its type.
THEOREM GraphTypeCorrect == Spec => []GraphTypeOK
<1>1. BuildInv => GraphTypeOK
  BY DEF BuildInv
<1> QED BY <1>1, BuildCorrect, PTL

\* For every configuration, the start order from_config builds lists no
\* service before one of its dependencies, and none twice.
THEOREM TopologicalHolds == Spec => []Topological
<1>1. BuildInv => Topological
  BY DEF BuildInv
<1> QED BY <1>1, BuildCorrect, PTL

\* For every configuration, from_config reports a cycle exactly when there is
\* a set of services that cannot be ordered.
THEOREM CycleExactHolds == Spec => []CycleExact
<1>1. BuildInv => CycleExact
  BY DEF BuildInv
<1> QED BY <1>1, BuildCorrect, PTL

------------------------------------------------------------------------------
(****************************** the waves **********************************)

\* The waves hold the services that are visited or in the current wave, which
\* is part of the last one; a service of the next wave depends on one of the
\* last wave that was just visited.
WavesInv ==
    /\ WavesExact
    /\ \A n \in Visited \cup wave : \E j \in 1 .. Len(waves) : n \in waves[j]
    /\ wave # {} => Len(waves) > 0 /\ wave \subseteq waves[Len(waves)]
    /\ \A n \in next : Len(waves) > 0 /\ depends_on[n] \cap (waves[Len(waves)] \ wave) # {}

LEMMA WavesInit == Init => WavesInv
<1> SUFFICES ASSUME Init PROVE WavesInv
  OBVIOUS
<1>1. Visited = {} /\ next = {} /\ \A n \in wave : depends_on[n] = {}
  BY DEF Init, Visited, Ready
<1>2. CASE wave = {}
  <2>1. Len(waves) = 0
    BY <1>2 DEF Init
  <2> QED BY <1>1, <1>2, <2>1 DEF WavesInv, WavesExact
<1>3. CASE wave # {}
  <2>1. Len(waves) = 1 /\ waves[1] = wave
    BY <1>3 DEF Init
  <2> QED BY <1>1, <2>1 DEF WavesInv, WavesExact
<1> QED BY <1>2, <1>3

LEMMA WavesStep ==
    ASSUME BuildInv, WavesInv, [Next]_vars
    PROVE  WavesInv'
<1> DEFINE k == Len(waves)
<1>0. /\ waves \in Seq(SUBSET Services) /\ k \in Nat
      /\ \A j \in 1 .. k : waves[j] \subseteq Services
      /\ wave \subseteq Services /\ next \subseteq Services /\ order \in Seq(Services)
  BY DEF BuildInv, GraphTypeOK
<1>1. ASSUME NEW n \in Services, Visit(n) PROVE WavesInv'
  <2>1. /\ UNCHANGED <<depends_on, waves>> /\ n \in wave /\ wave' = wave \ {n}
        /\ Visited' = Visited \cup {n}
    BY <1>0, <1>1, VisitedAppend DEF Visit, config
  <2>2. WavesExact'
    BY <2>1 DEF WavesInv, WavesExact
  <2>3. \A m \in Visited' \cup wave' : \E j \in 1 .. k : m \in waves[j]
    BY <2>1 DEF WavesInv
  <2>4. k > 0 /\ wave \subseteq waves[k]
    BY <2>1 DEF WavesInv
  <2>5. ASSUME NEW m \in next' PROVE depends_on[m] \cap (waves[k] \ wave') # {}
    <3>1. CASE m \in next
      BY <2>1, <3>1 DEF WavesInv
    <3>2. CASE m \notin next
      <4>1. m \in Services /\ in_degree[m] # {} /\ in_degree[m] \ {n} = {}
        BY <1>1, <2>5, <3>2 DEF Visit, Ready
      <4>2. n \in depends_on[m]
        BY <4>1 DEF BuildInv, Accounted
      <4> QED BY <2>1, <2>4, <4>2
    <3> QED BY <3>1, <3>2
  <2> QED BY <2>1, <2>2, <2>3, <2>4, <2>5 DEF WavesInv
<1>2. CASE NextWave
  <2>1. /\ UNCHANGED <<depends_on, order>> /\ Visited' = Visited
        /\ wave = {} /\ next # {} /\ wave' = next /\ next' = {}
    BY <1>2 DEF NextWave, config, Visited
  <2>2. /\ Len(waves') = k + 1 /\ waves'[k + 1] = next
        /\ \A j \in 1 .. k : waves'[j] = waves[j]
    BY <1>0, <1>2 DEF NextWave
  <2> HIDE DEF k
  <2>3. \A n \in next : depends_on[n] \subseteq Visited
    BY <1>0 DEF BuildInv, Accounted
  <2>4. ASSUME NEW i \in 1 .. (k + 1), NEW n \in waves'[i]
        PROVE  /\ depends_on[n] \subseteq UNION {waves'[j] : j \in 1 .. (i - 1)}
               /\ i > 1 => depends_on[n] \cap waves'[i - 1] # {}
    <3>1. CASE i \in 1 .. k
      <4>1. /\ depends_on[n] \subseteq UNION {waves[j] : j \in 1 .. (i - 1)}
            /\ i > 1 => depends_on[n] \cap waves[i - 1] # {}
        BY <2>2, <2>4, <3>1 DEF WavesInv, WavesExact, k
      <4>2. \A j \in 1 .. (i - 1) : waves'[j] = waves[j]
        BY <1>0, <2>2, <3>1
      <4>3. i > 1 => waves'[i - 1] = waves[i - 1]
        BY <1>0, <2>2, <3>1
      <4> QED BY <4>1, <4>2, <4>3
    <3>2. CASE i = k + 1
      <4>1. n \in next /\ i - 1 = k
        BY <1>0, <2>2, <2>4, <3>2
      <4>2. depends_on[n] \subseteq UNION {waves'[j] : j \in 1 .. k}
        BY <2>2, <2>3, <4>1 DEF WavesInv, k
      <4>3. i > 1 => depends_on[n] \cap waves'[k] # {}
        BY <1>0, <2>1, <2>2, <4>1 DEF WavesInv, k
      <4> QED BY <4>1, <4>2, <4>3
    <3> QED BY <1>0, <3>1, <3>2
  <2>5. WavesExact'
    BY <2>1, <2>2, <2>4 DEF WavesExact
  <2>6. \A n \in Visited' \cup wave' : \E j \in 1 .. (k + 1) : n \in waves'[j]
    <3>1. \A n \in Visited : \E j \in 1 .. k : n \in waves[j]
      BY DEF WavesInv, k
    <3> QED BY <1>0, <2>1, <2>2, <3>1
  <2> QED BY <1>0, <2>1, <2>2, <2>5, <2>6 DEF WavesInv
<1>3. CASE UNCHANGED <<depends_on, order, waves, wave, next>>
  <2>1. Visited' = Visited
    BY <1>3 DEF Visited
  <2> QED BY <1>3, <2>1 DEF WavesInv, WavesExact
<1>4. ASSUME NEW n \in Names, Expand(n) PROVE WavesInv'
  BY <1>3, <1>4 DEF Expand, config, built
<1>5. CASE Finish \/ Ask \/ Filter \/ Answer \/ UNCHANGED vars
  BY <1>3, <1>5 DEF Finish, Ask, Filter, Answer, vars, config, built
<1> QED BY <1>1, <1>2, <1>4, <1>5 DEF Next

\* For every configuration, a service is in the first wave after all those of
\* its dependencies: start_all starts it neither too early nor too late.
THEOREM WavesExactHolds == Spec => []WavesExact
<1>1. WavesInv => WavesExact
  BY DEF WavesInv
<1> QED BY <1>1, BuildCorrect, WavesInit, WavesStep, PTL DEF Spec

------------------------------------------------------------------------------
(************************* the search of a query ***************************)

\* The set a query collects holds the asked names and, except for names still
\* queued, their neighbours; and it lies in every closed set that holds them.
QueryInv ==
    pc \in {"query", "answer"} =>
        /\ asked \subseteq needed
        /\ \A n \in needed \ queue : Neighbours(kind, n) \subseteq needed
        /\ \A S \in SUBSET Names : asked \subseteq S /\ Closed(kind, S) => needed \subseteq S
        /\ pc = "answer" => queue = {}

LEMMA QueryStep ==
    ASSUME BuildInv, QueryInv, [Next]_vars
    PROVE  QueryInv'
<1>1. ASSUME NEW n \in Services, Visit(n) PROVE QueryInv'
  BY <1>1 DEF Visit, QueryInv
<1>2. CASE NextWave \/ Finish
  BY <1>2 DEF NextWave, Finish, QueryInv
<1>3. CASE Ask
  BY <1>3 DEF Ask, QueryInv
<1>4. ASSUME NEW n \in Names, Expand(n) PROVE QueryInv'
  <2> DEFINE N == Neighbours(kind, n)
  <2>1. /\ UNCHANGED <<depends_on, kind, asked, pc>> /\ pc = "query"
        /\ needed' = needed \cup N
        /\ queue' = (queue \ {n}) \cup (N \ needed)
        /\ n \in queue /\ queue \subseteq needed
    BY <1>4 DEF Expand, config, BuildInv, GraphTypeOK
  <2>2. \A m : Neighbours(kind, m)' = Neighbours(kind, m)
    BY <2>1 DEF Neighbours
  <2> HIDE DEF N
  <2>3. asked \subseteq needed'
    BY <2>1 DEF QueryInv
  <2>4. \A m \in needed' \ queue' : Neighbours(kind, m) \subseteq needed'
    BY <2>1 DEF QueryInv, N
  <2>5. ASSUME NEW S \in SUBSET Names, asked \subseteq S, Closed(kind, S)
        PROVE  needed' \subseteq S
    <3>1. needed \subseteq S
      BY <2>1, <2>5 DEF QueryInv
    <3>2. N \subseteq S
      BY <2>1, <2>5, <3>1 DEF Closed, N
    <3> QED BY <2>1, <3>1, <3>2
  <2> QED BY <2>1, <2>2, <2>3, <2>4, <2>5 DEF QueryInv, Closed
<1>5. CASE Filter \/ Answer
  <2>1. /\ UNCHANGED <<depends_on, kind, asked, needed, queue>>
        /\ pc = "query" /\ queue = {} /\ pc' \in {"query", "answer"}
    BY <1>5 DEF Filter, Answer, config, query
  <2>2. \A m : Neighbours(kind, m)' = Neighbours(kind, m)
    BY <2>1 DEF Neighbours
  <2> QED BY <2>1, <2>2 DEF QueryInv, Closed
<1>6. CASE UNCHANGED vars
  <2>1. UNCHANGED <<depends_on, pc, kind, asked, needed, queue>>
    BY <1>6 DEF vars, config, query
  <2>2. \A m : Neighbours(kind, m)' = Neighbours(kind, m)
    BY <2>1 DEF Neighbours
  <2> QED BY <2>1, <2>2 DEF QueryInv, Closed
<1> QED BY <1>1, <1>2, <1>3, <1>4, <1>5, <1>6 DEF Next

\* For every configuration and every set of asked names, the search collects
\* exactly the closure of the names under dependencies or dependents.
THEOREM ClosureExactHolds == Spec => []ClosureExact
<1>1. Init => QueryInv
  BY DEF Init, QueryInv
<1>2. BuildInv /\ QueryInv => ClosureExact
  <2> SUFFICES ASSUME BuildInv, QueryInv, pc = "answer"
               PROVE  needed = Closure(kind, asked)
    BY DEF ClosureExact
  <2>1. needed \in SUBSET Names /\ asked \subseteq needed /\ Closed(kind, needed)
    BY DEF BuildInv, GraphTypeOK, QueryInv, Closed
  <2>2. \A S \in SUBSET Names : asked \subseteq S /\ Closed(kind, S) => needed \subseteq S
    BY DEF QueryInv
  <2> QED BY <2>1, <2>2 DEF Closure
<1> QED BY <1>1, <1>2, BuildCorrect, QueryStep, PTL DEF Spec

------------------------------------------------------------------------------
(************************* the answer of a query ***************************)

\* The order as the query goes through it, up to i.
Upto(i) == {Element(kind, j) : j \in 1 .. i}

\* The filter keeps what is needed of the part of the order it has passed.
AnswerInv ==
    /\ pc \in {"ok", "query", "answer"} => Visited = Services
    /\ pc \notin {"query", "answer"} \/ queue # {} => passed = 0 /\ result = <<>>
    /\ pc = "answer" => passed = Len(order)
    /\ Answered = Upto(passed) \cap needed
    /\ \A i \in 1 .. Len(result) :
          Neighbours(kind, result[i]) \subseteq {result[j] : j \in 1 .. (i - 1)}

\* All neighbours of a service come before it in the order of the query: its
\* dependencies in the topological order, its dependents in the reversed one.
LEMMA NeighboursFirst ==
    ASSUME BuildInv, Visited = Services, NEW i \in 1 .. Len(order)
    PROVE  Neighbours(kind, Element(kind, i)) \subseteq Upto(i - 1)
<1>0. order \in Seq(Services) /\ Len(order) \in Nat /\ kind \in {"start", "stop"} /\ Topological
  BY DEF BuildInv, GraphTypeOK
<1>1. CASE kind = "start"
  <2>1. order[i] \in Services
    BY <1>0
  <2>2. \A d \in depends_on[order[i]] : \E j \in 1 .. (i - 1) : order[j] = d
    BY <1>0, Zenon DEF Topological
  <2> QED BY <1>1, <2>1, <2>2 DEF Neighbours, Element, Upto
<1>2. CASE kind = "stop"
  <2> DEFINE k == Len(order) + 1 - i
  <2>1. k \in 1 .. Len(order)
    BY <1>0
  <2> SUFFICES ASSUME NEW m \in Services, order[k] \in depends_on[m] PROVE m \in Upto(i - 1)
    BY <1>2 DEF Neighbours, Element
  <2> HIDE DEF k
  <2>2. PICK j \in 1 .. Len(order) : order[j] = m
    BY DEF Visited
  <2>3. PICK l \in 1 .. (j - 1) : order[l] = order[k]
    <3>1. \A d \in depends_on[order[j]] : \E l \in 1 .. (j - 1) : order[l] = d
      BY <1>0, Zenon DEF Topological
    <3> QED BY <2>2, <3>1
  <2>4. l = k
    <3>1. l \in 1 .. Len(order) /\ l \in Nat /\ k \in Nat
      BY <1>0, <2>1, <2>2, <2>3
    <3>2. l < k => order[l] # order[k]
      BY <1>0, <2>1, <3>1 DEF Topological
    <3>3. k < l => order[k] # order[l]
      BY <1>0, <2>1, <3>1 DEF Topological
    <3> QED BY <2>3, <3>1, <3>2, <3>3
  <2>5. Len(order) + 1 - j \in 1 .. (i - 1) /\ order[Len(order) + 1 - (Len(order) + 1 - j)] = m
    BY <1>0, <2>1, <2>2, <2>3, <2>4 DEF k
  <2> QED BY <1>2, <2>5 DEF Upto, Element
<1> QED BY <1>0, <1>1, <1>2

LEMMA AnswerStep ==
    ASSUME BuildInv, QueryInv, AnswerInv, [Next]_vars
    PROVE  AnswerInv'
<1>0. /\ order \in Seq(Services) /\ result \in Seq(Services) /\ passed \in Nat
      /\ Len(order) \in Nat
  BY DEF BuildInv, GraphTypeOK
\* before the first query nothing is said of the answer
<1>1. ASSUME passed' = 0, result' = <<>>, pc' \in {"ok", "query", "answer"} => Visited' = Services,
             pc' # "answer"
      PROVE  AnswerInv'
  <2>1. Upto(0)' = {} /\ Answered' = {}
    BY <1>1 DEF Upto, Answered
  <2> QED BY <1>1, <2>1 DEF AnswerInv
<1>2. ASSUME UNCHANGED <<depends_on, order, kind, needed, passed, result>>, queue' = {} \/ queue' = queue,
             pc' = pc \/ (pc = "query" /\ pc' = "answer" /\ passed = Len(order) /\ queue = {})
      PROVE  AnswerInv'
  <2>1. /\ Visited' = Visited /\ Answered' = Answered /\ Upto(passed)' = Upto(passed)
        /\ \A m : Neighbours(kind, m)' = Neighbours(kind, m)
    BY <1>2 DEF Visited, Answered, Upto, Element, Neighbours
  <2> QED BY <1>2, <2>1 DEF AnswerInv
<1>3. ASSUME NEW n \in Services, Visit(n) PROVE AnswerInv'
  BY <1>1, <1>3 DEF Visit, query, AnswerInv
<1>4. CASE NextWave
  BY <1>1, <1>4 DEF NextWave, query, AnswerInv
<1>5. CASE Finish
  <2>1. pc' = "ok" => Visited = Services
    BY <1>5, VisitedAll DEF Finish, BuildInv
  <2>2. Visited' = Visited
    BY <1>5 DEF Finish, built, Visited
  <2> QED BY <1>1, <1>5, <2>1, <2>2 DEF Finish, query, AnswerInv
<1>6. CASE Ask
  <2>1. Visited' = Visited
    BY <1>6 DEF Ask, built, Visited
  <2> QED BY <1>1, <1>6, <2>1 DEF Ask, AnswerInv
<1>7. ASSUME NEW n \in Names, Expand(n) PROVE AnswerInv'
  <2>1. Visited' = Visited
    BY <1>7 DEF Expand, built, Visited
  <2> QED BY <1>1, <1>7, <2>1 DEF Expand, AnswerInv
<1>8. CASE Filter
  <2> DEFINE n == Element(kind, passed + 1)
  <2>1. /\ UNCHANGED <<depends_on, order, kind, needed, queue, pc>> /\ pc = "query" /\ queue = {}
        /\ passed' = passed + 1 /\ passed + 1 \in 1 .. Len(order)
        /\ result' = IF n \in needed THEN Append(result, n) ELSE result
        /\ Visited' = Visited /\ Visited = Services
    BY <1>0, <1>8 DEF Filter, config, built, Visited, AnswerInv
  <2>2. \A m : Neighbours(kind, m)' = Neighbours(kind, m)
    BY <2>1 DEF Neighbours
  <2>3. Upto(passed)' = Upto(passed) \cup {n}
    BY <1>0, <2>1 DEF Upto, Element
  <2>4. Answered = Upto(passed) \cap needed
    BY DEF AnswerInv
  <2> HIDE DEF n
  <2>5. CASE n \notin needed
    <3>1. UNCHANGED result /\ Answered' = Answered
      BY <2>1, <2>5 DEF Answered
    <3> QED BY <2>1, <2>2, <2>3, <2>4, <2>5, <3>1 DEF AnswerInv
  <2>6. CASE n \in needed
    <3>1. /\ Len(result') = Len(result) + 1 /\ Len(result) \in Nat /\ result'[Len(result) + 1] = n
          /\ \A i \in 1 .. Len(result) : result'[i] = result[i]
      BY <1>0, <2>1, <2>6
    <3>2. Answered' = Answered \cup {n}
      BY <3>1 DEF Answered
    <3>3. Neighbours(kind, n) \subseteq Answered
      <4>1. Neighbours(kind, n) \subseteq needed
        BY <2>1, <2>6 DEF QueryInv
      <4>2. Neighbours(kind, n) \subseteq Upto(passed)
        <5>1. PICK i \in 1 .. Len(order) : i = passed + 1
          BY <2>1
        <5>2. Neighbours(kind, Element(kind, i)) \subseteq Upto(i - 1)
          BY <2>1, NeighboursFirst
        <5>3. i - 1 = passed
          BY <1>0, <5>1
        <5> QED BY <5>1, <5>2, <5>3 DEF n
      <4> QED BY <2>4, <4>1, <4>2
    <3>4. ASSUME NEW i \in 1 .. (Len(result) + 1)
          PROVE  Neighbours(kind, result'[i]) \subseteq {result'[j] : j \in 1 .. (i - 1)}
      <4>1. CASE i \in 1 .. Len(result)
        <5>1. Neighbours(kind, result[i]) \subseteq {result[j] : j \in 1 .. (i - 1)}
          BY <4>1 DEF AnswerInv
        <5>2. \A j \in 1 .. (i - 1) : result'[j] = result[j]
          BY <3>1, <4>1
        <5> QED BY <3>1, <4>1, <5>1, <5>2
      <4>2. CASE i = Len(result) + 1
        <5>1. result'[i] = n /\ i - 1 = Len(result)
          BY <3>1, <4>2
        <5> QED BY <3>1, <3>3, <5>1 DEF Answered
      <4> QED BY <3>1, <4>1, <4>2
    <3>5. (\A i \in 1 .. Len(result) :
              Neighbours(kind, result[i]) \subseteq {result[j] : j \in 1 .. (i - 1)})'
      BY <2>1, <3>1, <3>4 DEF Neighbours
    <3>6. Answered' = Upto(passed)' \cap needed'
      BY <2>1, <2>3, <2>4, <2>6, <3>2
    <3> QED BY <2>1, <3>5, <3>6 DEF AnswerInv
  <2> QED BY <2>5, <2>6
<1>9. CASE Answer
  BY <1>2, <1>9 DEF Answer, config, built, query
<1>10. CASE UNCHANGED vars
  BY <1>2, <1>10 DEF vars, config, built, query
<1> QED BY <1>3, <1>4, <1>5, <1>6, <1>7, <1>8, <1>9, <1>10 DEF Next

\* For every configuration and every query, the answer lists exactly the
\* services that were found, each one after all its neighbours.
THEOREM SafeAnswerHolds == Spec => []SafeAnswer
<1>1. Init => QueryInv /\ AnswerInv
  <2> SUFFICES ASSUME Init PROVE QueryInv /\ AnswerInv
    OBVIOUS
  <2>1. Upto(0) = {} /\ Answered = {}
    BY DEF Init, Upto, Answered
  <2> QED BY <2>1 DEF Init, QueryInv, AnswerInv
<1>2. BuildInv /\ AnswerInv => SafeAnswer
  <2> SUFFICES ASSUME BuildInv, AnswerInv, pc = "answer"
               PROVE  /\ Answered = needed \cap Services
                      /\ \A i \in 1 .. Len(result) :
                            Neighbours(kind, result[i]) \subseteq {result[j] : j \in 1 .. (i - 1)}
    BY DEF SafeAnswer
  <2>1. Upto(Len(order)) = Visited
    <3>0. Len(order) \in Nat
      BY DEF BuildInv, GraphTypeOK
    <3>1. CASE kind = "stop"
      <4>1. \A i \in 1 .. Len(order) : /\ Len(order) + 1 - i \in 1 .. Len(order)
                                      /\ Len(order) + 1 - (Len(order) + 1 - i) = i
        BY <3>0
      <4> QED BY <3>1, <4>1 DEF Upto, Element, Visited
    <3>2. CASE kind # "stop"
      BY <3>2 DEF Upto, Element, Visited
    <3> QED BY <3>1, <3>2
  <2> QED BY <2>1 DEF AnswerInv
<1> QED BY <1>1, <1>2, BuildCorrect, QueryStep, AnswerStep, PTL DEF Spec
=============================================================================
