--------------------------- MODULE PlansProofs ---------------------------
(***************************************************************************)
(* What the plans of start_all, start_named, stop_all, stop_named,         *)
(* restart_service and reload promise, for every valid configuration of    *)
(* every finite set of services: in which order they start and stop, that  *)
(* they start nothing twice, and what they stop before they start it.      *)
(***************************************************************************)
EXTENDS Plans, SequenceTheorems, FiniteSetTheorems, WellFoundedInduction, TLAPS

------------------------------------------------------------------------------
(******************************* Induction ********************************)

\* a set of natural numbers has a least element
LEMMA NatMin ==
    ASSUME NEW T \in SUBSET Nat, T # {}
    PROVE  \E x \in T : \A y \in T : x <= y
<1> DEFINE R == {ss \in Nat \X Nat : ss[1] < ss[2]}
<1>1. IsWellFoundedOn(R, Nat)
  BY NatLessThanWellFounded, Zenon DEF OpToRel
<1> HIDE DEF R
<1>2. PICK x \in T : \A y \in T : ~(<<y, x>> \in R)
  BY <1>1, WFMin
<1>3. \A y \in T : ~(y < x)
  BY <1>2 DEF R
<1> QED BY <1>3

\* induction, for a set of natural numbers up to n
LEMMA Upwards ==
    ASSUME NEW n \in Nat, NEW T, 0 \in T,
           \A m \in Nat : m < n /\ m \in T => m + 1 \in T
    PROVE  \A m \in 0 .. n : m \in T
<1> DEFINE Bad == {m \in 0 .. n : m \notin T}
<1> SUFFICES ASSUME Bad # {} PROVE FALSE
  OBVIOUS
<1>0. Bad \in SUBSET Nat
  OBVIOUS
<1>1. PICK m \in Bad : \A y \in Bad : m <= y
  <2> HIDE DEF Bad
  <2> QED BY <1>0, NatMin
<1>2. m # 0 /\ m - 1 \in Nat /\ m - 1 < n /\ ~(m <= m - 1) /\ (m - 1) + 1 = m
  OBVIOUS
<1>3. m - 1 \in T
  BY <1>1, <1>2
<1> QED BY <1>2, <1>3

\* F is computed upwards from 0 by the step function f
Steps(F, n, A, f) == F = [k \in 0 .. n |-> IF k = 0 THEN A ELSE f[F[k - 1]]]

LEMMA StepsExist ==
    ASSUME NEW n \in Nat, NEW S, NEW A \in S, NEW f \in [S -> S]
    PROVE  \E F : Steps(F, n, A, f)
<1> DEFINE Good(m) == \E F : F = [k \in 0 .. m |-> IF k = 0 THEN A ELSE f[F[k - 1]]]
           T == {m \in Nat : Good(m)}
<1>1. Good(0)
  <2> DEFINE F == [k \in 0 .. 0 |-> A]
  <2>1. F = [k \in 0 .. 0 |-> IF k = 0 THEN A ELSE f[F[k - 1]]]
    OBVIOUS
  <2> QED BY <2>1
<1>2. ASSUME NEW m \in Nat, Good(m) PROVE Good(m + 1)
  <2>1. PICK F : F = [k \in 0 .. m |-> IF k = 0 THEN A ELSE f[F[k - 1]]]
    BY <1>2
  <2> DEFINE G == [k \in 0 .. (m + 1) |-> IF k <= m THEN F[k] ELSE f[F[m]]]
  <2>2. /\ \A k \in 0 .. m : G[k] = F[k]
        /\ G[m + 1] = f[F[m]]
        /\ G = [k \in 0 .. (m + 1) |-> G[k]]
    OBVIOUS
  <2>3. F[0] = A /\ \A k \in 1 .. m : F[k] = f[F[k - 1]]
    BY <2>1
  <2> HIDE DEF G
  <2>4. ASSUME NEW k \in 0 .. (m + 1) PROVE G[k] = IF k = 0 THEN A ELSE f[G[k - 1]]
    <3>1. CASE k = 0
      <4>1. G[0] = F[0]
        BY <2>2
      <4> QED BY <3>1, <4>1, <2>3
    <3>2. CASE k # 0
      <4>1. k - 1 \in 0 .. m /\ (k \in 1 .. m \/ k = m + 1)
        BY <3>2
      <4>2. G[k - 1] = F[k - 1]
        BY <2>2, <4>1
      <4>3. CASE k \in 1 .. m
        <5>1. G[k] = F[k] /\ F[k] = f[F[k - 1]]
          BY <4>3, <2>2, <2>3
        <5> QED BY <5>1, <4>2, <3>2
      <4>4. CASE k = m + 1
        BY <4>4, <4>2, <3>2, <2>2
      <4> QED BY <4>1, <4>3, <4>4
    <3> QED BY <3>1, <3>2
  <2>5. G = [k \in 0 .. (m + 1) |-> IF k = 0 THEN A ELSE f[G[k - 1]]]
    BY <2>2, <2>4
  <2> QED BY <2>5
<1> HIDE DEF Good
<1>3. \A m \in 0 .. n : m \in T
  <2>1. 0 \in T
    BY <1>1
  <2>2. \A m \in Nat : m < n /\ m \in T => m + 1 \in T
    BY <1>2
  <2> HIDE DEF T
  <2> QED BY <2>1, <2>2, Upwards
<1>4. Good(n)
  BY <1>3
<1> QED BY <1>4 DEF Good, Steps

------------------------------------------------------------------------------
(*************************** Levels and waves *****************************)

N == Cardinality(Services)

\* what the operators ask of a configuration (a function whose values have
\* more fields than these, too)
IsConfig(cfg) == \A n \in Services : cfg[n].deps \subseteq Services

LEMMA NIsNat ==
    ASSUME IsFiniteSet(Services)
    PROVE  N \in Nat
  BY FS_CardinalityType DEF N

LEMMA LevelsUnfold ==
    ASSUME IsFiniteSet(Services), NEW cfg
    PROVE  /\ Levels(cfg)[0] = {}
           /\ \A k \in 1 .. N :
                Levels(cfg)[k] = {n \in Declared(cfg) : cfg[n].deps \subseteq Levels(cfg)[k - 1]}
<1> DEFINE f == [S \in SUBSET Services |-> {n \in Declared(cfg) : cfg[n].deps \subseteq S}]
<1>0. N \in Nat
  BY NIsNat
<1>1. f \in [SUBSET Services -> SUBSET Services]
  BY DEF Declared
<1> DEFINE Eq(F) == F = [k \in 0 .. N |-> IF k = 0 THEN {} ELSE {n \in Declared(cfg) : cfg[n].deps \subseteq F[k - 1]}]
<1>2. PICK F : F = [k \in 0 .. N |-> IF k = 0 THEN {} ELSE f[F[k - 1]]]
  <2>1. {} \in SUBSET Services
    OBVIOUS
  <2> HIDE DEF f
  <2>2. PICK F : Steps(F, N, {}, f)
    BY <1>0, <1>1, <2>1, StepsExist
  <2> QED BY <2>2 DEF Steps
<1>3. \A k \in 0 .. N : F[k] \in SUBSET Services
  <2> DEFINE T == {m \in 0 .. N : F[m] \in SUBSET Services}
  <2>1. F[0] = {} /\ 0 \in T
    BY <1>0, <1>2
  <2>2. ASSUME NEW m \in Nat, m < N, m \in T PROVE m + 1 \in T
    <3>1. m + 1 \in 0 .. N /\ m + 1 # 0 /\ (m + 1) - 1 = m
      BY <1>0, <2>2
    <3> HIDE DEF f
    <3>2. F[m + 1] = f[F[m]]
      BY <1>2, <3>1
    <3> QED BY <1>1, <2>2, <3>1, <3>2
  <2>3. \A m \in 0 .. N : m \in T
    <3> HIDE DEF T
    <3> QED BY <1>0, <2>1, <2>2, Upwards
  <2> QED BY <2>3
<1>4. Eq(F)
  <2>1. ASSUME NEW k \in 0 .. N, k # 0
        PROVE  f[F[k - 1]] = {n \in Declared(cfg) : cfg[n].deps \subseteq F[k - 1]}
    <3>1. k - 1 \in 0 .. N
      BY <1>0, <2>1
    <3> QED BY <1>3, <3>1
  <2> QED BY <1>2, <2>1
<1>5. Levels(cfg) = CHOOSE L : Eq(L)
  BY Zenon DEF Levels, N
<1>6. Eq(Levels(cfg))
  <2> HIDE DEF Eq
  <2> QED BY <1>4, <1>5
<1>7. ASSUME NEW k \in 1 .. N
      PROVE  Levels(cfg)[k] = {n \in Declared(cfg) : cfg[n].deps \subseteq Levels(cfg)[k - 1]}
  <2>1. k \in 0 .. N /\ k # 0
    BY <1>0
  <2> QED BY <1>6, <2>1
<1>8. Levels(cfg)[0] = {}
  BY <1>0, <1>6
<1> QED BY <1>7, <1>8

\* a level holds the ones below it
LEMMA LevelsGrow ==
    ASSUME IsFiniteSet(Services), NEW cfg
    PROVE  \A k \in 1 .. N : Levels(cfg)[k - 1] \subseteq Levels(cfg)[k]
<1> DEFINE L == Levels(cfg)
           T == {m \in 0 .. N : m < N => L[m] \subseteq L[m + 1]}
<1>0. N \in Nat
  BY NIsNat
<1>1. /\ L[0] = {}
      /\ \A k \in 1 .. N : L[k] = {n \in Declared(cfg) : cfg[n].deps \subseteq L[k - 1]}
  BY LevelsUnfold
<1> HIDE DEF L
<1>2. 0 \in T
  BY <1>0, <1>1
<1>3. ASSUME NEW m \in Nat, m < N, m \in T PROVE m + 1 \in T
  <2>1. CASE m + 1 < N
    <3>1. /\ m + 1 \in 1 .. N /\ (m + 1) + 1 \in 1 .. N
          /\ (m + 1) - 1 = m /\ ((m + 1) + 1) - 1 = m + 1
      BY <1>0, <2>1
    <3>2. L[m + 1] = {n \in Declared(cfg) : cfg[n].deps \subseteq L[m]}
      BY <1>1, <3>1
    <3>3. L[(m + 1) + 1] = {n \in Declared(cfg) : cfg[n].deps \subseteq L[m + 1]}
      BY <1>1, <3>1
    <3>4. L[m] \subseteq L[m + 1]
      BY <1>3
    <3>5. L[m + 1] \subseteq L[(m + 1) + 1]
      BY <3>2, <3>3, <3>4
    <3> QED BY <3>1, <3>5, <1>0
  <2>2. CASE ~(m + 1 < N)
    BY <2>2, <1>0, <1>3
  <2> QED BY <2>1, <2>2
<1>4. \A m \in 0 .. N : m \in T
  <2> HIDE DEF T
  <2> QED BY <1>0, <1>2, <1>3, Upwards
<1>5. ASSUME NEW k \in 1 .. N PROVE L[k - 1] \subseteq L[k]
  <2>1. k - 1 \in 0 .. N /\ k - 1 < N /\ (k - 1) + 1 = k
    BY <1>0
  <2> QED BY <1>4, <2>1
<1> QED BY <1>5 DEF L

LEMMA LevelsBelow ==
    ASSUME IsFiniteSet(Services), NEW cfg, NEW j \in 0 .. N, NEW k \in 0 .. N, j <= k
    PROVE  Levels(cfg)[j] \subseteq Levels(cfg)[k]
<1> DEFINE L == Levels(cfg)
           T == {m \in 0 .. N : j <= m => L[j] \subseteq L[m]}
<1>0. N \in Nat
  BY NIsNat
<1>1. \A i \in 1 .. N : L[i - 1] \subseteq L[i]
  BY LevelsGrow
<1> HIDE DEF L
<1>2. 0 \in T
  BY <1>0
<1>3. ASSUME NEW m \in Nat, m < N, m \in T PROVE m + 1 \in T
  <2>1. m + 1 \in 1 .. N /\ (m + 1) - 1 = m /\ m + 1 \in 0 .. N
    BY <1>0, <1>3
  <2>2. L[m] \subseteq L[m + 1]
    BY <1>1, <2>1
  <2>3. CASE j <= m
    BY <2>1, <2>2, <2>3, <1>3
  <2>4. CASE ~(j <= m)
    <3>1. j = m + 1 \/ ~(j <= m + 1)
      BY <2>4
    <3> QED BY <3>1, <2>1
  <2> QED BY <2>3, <2>4
<1>4. k \in T
  <2>1. \A m \in 0 .. N : m \in T
    <3> HIDE DEF T
    <3> QED BY <1>0, <1>2, <1>3, Upwards
  <2> QED BY <2>1
<1> QED BY <1>4 DEF L

\* the wave of a service
Wave(cfg, n) == CHOOSE k \in DOMAIN Waves(cfg) : n \in Waves(cfg)[k]

\* in a configuration that can be ordered every service is in exactly one
\* wave, and its dependencies are in earlier ones
LEMMA WaveFacts ==
    ASSUME IsFiniteSet(Services), NEW cfg, Acyclic(cfg), NEW n \in Declared(cfg)
    PROVE  /\ Wave(cfg, n) \in 1 .. N
           /\ n \in Waves(cfg)[Wave(cfg, n)]
           /\ \A k \in 1 .. N : n \in Waves(cfg)[k] => k = Wave(cfg, n)
           /\ \A d \in cfg[n].deps : d \in Declared(cfg) /\ Wave(cfg, d) < Wave(cfg, n)
<1> DEFINE L == Levels(cfg)
<1>0. N \in Nat
  BY NIsNat
<1>1. /\ L[0] = {}
      /\ \A k \in 1 .. N : L[k] = {m \in Declared(cfg) : cfg[m].deps \subseteq L[k - 1]}
  BY LevelsUnfold
<1>2. L[N] = Declared(cfg)
  BY DEF Acyclic, N
<1>3. \A i, j \in 0 .. N : i <= j => L[i] \subseteq L[j]
  BY LevelsBelow
<1>4. /\ DOMAIN Waves(cfg) = 1 .. N
      /\ \A k \in 1 .. N : Waves(cfg)[k] = L[k] \ L[k - 1]
  BY DEF Waves, N
<1> HIDE DEF L
<1>5. ASSUME NEW m \in Declared(cfg)
      PROVE  \E k \in 1 .. N : m \in Waves(cfg)[k]
  <2> DEFINE T == {k \in 0 .. N : m \in L[k]}
  <2>1. N \in T /\ T \in SUBSET Nat
    BY <1>0, <1>2
  <2>2. PICK k \in T : \A i \in T : k <= i
    <3> HIDE DEF T
    <3> QED BY <2>1, NatMin
  <2>3. k # 0
    BY <1>1
  <2>4. k \in 1 .. N /\ k - 1 \in 0 .. N /\ ~(k <= k - 1)
    BY <2>3, <1>0
  <2>5. m \in L[k] /\ m \notin L[k - 1]
    BY <2>2, <2>4
  <2> QED BY <1>4, <2>4, <2>5
<1>6. ASSUME NEW m, NEW i \in 1 .. N, NEW j \in 1 .. N,
             m \in Waves(cfg)[i], m \in Waves(cfg)[j], i < j
      PROVE  FALSE
  <2>1. i \in 0 .. N /\ j - 1 \in 0 .. N /\ i <= j - 1
    BY <1>0, <1>6
  <2>2. L[i] \subseteq L[j - 1]
    BY <1>3, <2>1
  <2> QED BY <1>4, <1>6, <2>2
<1>7. \A m \in Declared(cfg) : Wave(cfg, m) \in 1 .. N /\ m \in Waves(cfg)[Wave(cfg, m)]
  BY <1>4, <1>5 DEF Wave
<1>8. ASSUME NEW m \in Declared(cfg), NEW k \in 1 .. N, m \in Waves(cfg)[k]
      PROVE  k = Wave(cfg, m)
  <2>1. PICK w \in 1 .. N : w = Wave(cfg, m)
    BY <1>7
  <2>2. m \in Waves(cfg)[w]
    BY <1>7, <2>1
  <2>3. ~(k < w) /\ ~(w < k)
    BY <1>6, <1>8, <2>2
  <2> QED BY <2>1, <2>3, <1>0
<1>9. ASSUME NEW d \in cfg[n].deps
      PROVE  d \in Declared(cfg) /\ Wave(cfg, d) < Wave(cfg, n)
  <2>1. PICK w \in 1 .. N : w = Wave(cfg, n)
    BY <1>7
  <2>2. n \in L[w]
    BY <1>4, <1>7, <2>1
  <2>3. d \in L[w - 1]
    BY <1>1, <2>2
  <2>4. w - 1 \in 0 .. N /\ N \in 0 .. N /\ w - 1 <= N
    BY <1>0
  <2>5. d \in Declared(cfg)
    BY <1>2, <1>3, <2>3, <2>4
  <2>6. PICK v \in 1 .. N : v = Wave(cfg, d)
    BY <1>7, <2>5
  <2>7. d \notin L[v - 1]
    BY <1>4, <1>7, <2>5, <2>6
  <2>8. v - 1 \in 0 .. N
    BY <1>0
  <2>9. ~(w - 1 <= v - 1)
    BY <1>3, <2>3, <2>4, <2>7, <2>8
  <2>10. v < w
    BY <2>9
  <2> QED BY <2>1, <2>5, <2>6, <2>10
<1> QED BY <1>7, <1>8, <1>9
------------------------------------------------------------------------------
(******************************** Search **********************************)

\* how a search proceeds
IsSearch(R, edges, A) ==
    /\ Reach(edges, A) = R[N] /\ R[0] = A
    /\ \A k \in Nat : k < N => R[k + 1] = R[k] \cup UNION {edges[n] : n \in R[k]}

LEMMA ReachSteps ==
    ASSUME IsFiniteSet(Services), NEW edges, NEW A \in SUBSET Services,
           \A n \in Services : edges[n] \subseteq Services
    PROVE  \E R : IsSearch(R, edges, A)
<1> DEFINE Grow(S) == S \cup UNION {edges[n] : n \in S}
           f == [S \in SUBSET Services |-> Grow(S)]
           Eq(F) == F = [k \in 0 .. N |-> IF k = 0 THEN A ELSE Grow(F[k - 1])]
<1>0. N \in Nat
  BY NIsNat
<1>1. ASSUME NEW S \in SUBSET Services PROVE Grow(S) \in SUBSET Services
  OBVIOUS
<1>2. f \in [SUBSET Services -> SUBSET Services]
  BY <1>1
<1>3. PICK F : F = [k \in 0 .. N |-> IF k = 0 THEN A ELSE f[F[k - 1]]]
  <2> HIDE DEF f
  <2>2. PICK F : Steps(F, N, A, f)
    BY <1>0, <1>2, StepsExist
  <2> QED BY <2>2 DEF Steps
<1>4. \A k \in 0 .. N : F[k] \in SUBSET Services
  <2> DEFINE T == {m \in 0 .. N : F[m] \in SUBSET Services}
  <2>1. F[0] = A /\ 0 \in T
    BY <1>0, <1>3
  <2>2. ASSUME NEW m \in Nat, m < N, m \in T PROVE m + 1 \in T
    <3>1. m + 1 \in 0 .. N /\ m + 1 # 0 /\ (m + 1) - 1 = m
      BY <1>0, <2>2
    <3> HIDE DEF f
    <3>2. F[m + 1] = f[F[m]]
      BY <1>3, <3>1
    <3> QED BY <1>2, <2>2, <3>1, <3>2
  <2>3. \A m \in 0 .. N : m \in T
    <3> HIDE DEF T
    <3> QED BY <1>0, <2>1, <2>2, Upwards
  <2> QED BY <2>3
<1>5. Eq(F)
  <2>1. ASSUME NEW k \in 0 .. N, k # 0
        PROVE  f[F[k - 1]] = Grow(F[k - 1])
    <3>1. k - 1 \in 0 .. N
      BY <1>0, <2>1
    <3>2. F[k - 1] \in SUBSET Services
      BY <1>4, <3>1
    <3> HIDE DEF Grow
    <3> QED BY <3>2
  <2> HIDE DEF f, Grow
  <2> QED BY <1>3, <2>1
<1>6. PICK R : Eq(R) /\ Reach(edges, A) = R[N]
  <2>1. Reach(edges, A) = (CHOOSE L : Eq(L))[N]
    BY Zenon DEF Reach, N
  <2> HIDE DEF Eq
  <2> QED BY <1>5, <2>1
<1> HIDE DEF f
<1>7. R[0] = A
  <2> HIDE DEF Grow
  <2> QED BY <1>0, <1>6
<1>8. ASSUME NEW k \in Nat, k < N PROVE R[k + 1] = Grow(R[k])
  <2>1. k + 1 \in 0 .. N /\ k + 1 # 0 /\ (k + 1) - 1 = k
    BY <1>0, <1>8
  <2> HIDE DEF Grow
  <2> QED BY <1>6, <2>1
<1> QED BY <1>6, <1>7, <1>8 DEF IsSearch

\* a search finds what it starts from, and everything next to what it finds
LEMMA ReachClosed ==
    ASSUME IsFiniteSet(Services), NEW edges, NEW A \in SUBSET Services,
           \A n \in Services : edges[n] \subseteq Services
    PROVE  /\ A \subseteq Reach(edges, A)
           /\ Reach(edges, A) \subseteq Services
           /\ \A n \in Reach(edges, A) : edges[n] \subseteq Reach(edges, A)
<1> DEFINE Grow(S) == S \cup UNION {edges[n] : n \in S}
<1>0. N \in Nat
  BY NIsNat
<1>1. ASSUME NEW S \in SUBSET Services PROVE Grow(S) \in SUBSET Services
  OBVIOUS
<1>6. PICK R : IsSearch(R, edges, A)
  BY ReachSteps
<1>7. R[0] = A
  BY <1>6 DEF IsSearch
<1>8. \A k \in Nat : k < N => R[k + 1] = Grow(R[k])
  BY <1>6 DEF IsSearch
<1> DEFINE Closed(S) == \A n \in S : edges[n] \subseteq S
\* the search grows in every round until it is closed
<1> DEFINE T == {m \in 0 .. N : /\ A \subseteq R[m] /\ R[m] \subseteq Services
                                /\ Closed(R[m]) \/ Cardinality(R[m]) >= m}
<1>9. 0 \in T
  <2>1. IsFiniteSet(A)
    BY FS_Subset
  <2>2. Cardinality(A) \in Nat
    BY <2>1, FS_CardinalityType
  <2> QED BY <1>0, <1>7, <2>2
<1>10. ASSUME NEW m \in Nat, m < N, m \in T PROVE m + 1 \in T
  <2> DEFINE S == R[m]
  <2>1. R[m + 1] = Grow(S)
    BY <1>8, <1>10
  <2>2. A \subseteq S /\ S \in SUBSET Services /\ (Closed(S) \/ Cardinality(S) >= m)
    BY <1>10
  <2> HIDE DEF S
  <2>3. A \subseteq Grow(S) /\ Grow(S) \subseteq Services /\ m + 1 \in 0 .. N
    BY <2>2, <1>1, <1>10, <1>0
  <2>4. CASE Closed(S)
    <3>1. Grow(S) = S
      BY <2>4
    <3> HIDE DEF Grow, Closed
    <3> QED BY <2>1, <2>3, <2>4, <3>1
  <2>5. CASE ~Closed(S)
    <3>1. PICK n \in S : \E x \in edges[n] : x \notin S
      BY <2>5
    <3>2. PICK x \in edges[n] : x \notin S
      BY <3>1
    <3>3. S \cup {x} \subseteq Grow(S)
      BY <3>1, <3>2
    <3>4. IsFiniteSet(S) /\ IsFiniteSet(Grow(S))
      <4> HIDE DEF Grow
      <4> QED BY <2>2, <2>3, FS_Subset
    <3>5. IsFiniteSet(S \cup {x}) /\ Cardinality(S \cup {x}) = Cardinality(S) + 1
      BY <3>2, <3>4, FS_AddElement
    <3> HIDE DEF Grow, Closed
    <3>6. Cardinality(S \cup {x}) <= Cardinality(Grow(S))
      BY <3>3, <3>4, FS_Subset
    <3>7. PICK a, b \in Nat : a = Cardinality(S) /\ b = Cardinality(Grow(S))
      BY <3>4, FS_CardinalityType
    <3>8. a >= m /\ a + 1 <= b
      BY <2>2, <2>5, <3>5, <3>6, <3>7
    <3>9. b >= m + 1
      BY <3>8
    <3> QED BY <2>1, <2>3, <3>7, <3>9
  <2> QED BY <2>4, <2>5
<1>11. N \in T
  <2>1. \A m \in 0 .. N : m \in T
    <3> HIDE DEF T
    <3> QED BY <1>0, <1>9, <1>10, Upwards
  <2> QED BY <2>1, <1>0
<1>12. A \subseteq R[N] /\ R[N] \in SUBSET Services /\ (Closed(R[N]) \/ Cardinality(R[N]) >= N)
  <2> HIDE DEF Closed
  <2> QED BY <1>11
<1>13. Closed(R[N])
  <2>1. CASE Cardinality(R[N]) >= N
    <3>1. Cardinality(R[N]) <= N /\ (N = Cardinality(R[N]) => Services = R[N])
      BY <1>12, FS_Subset DEF N
    <3>2. IsFiniteSet(R[N])
      BY <1>12, FS_Subset
    <3>3. PICK a \in Nat : a = Cardinality(R[N])
      BY <3>2, FS_CardinalityType
    <3>4. a = N
      BY <1>0, <2>1, <3>1, <3>3
    <3>5. R[N] = Services
      BY <3>1, <3>3, <3>4
    <3> QED BY <3>5
  <2> QED BY <2>1, <1>12
<1> QED BY <1>6, <1>12, <1>13 DEF IsSearch

\* ... and nothing else
LEMMA ReachLeast ==
    ASSUME IsFiniteSet(Services), NEW edges, NEW A \in SUBSET Services,
           \A n \in Services : edges[n] \subseteq Services,
           NEW C, A \subseteq C, \A n \in C : edges[n] \subseteq C
    PROVE  Reach(edges, A) \subseteq C
<1>0. N \in Nat
  BY NIsNat
<1>1. PICK R : IsSearch(R, edges, A)
  BY ReachSteps
<1> DEFINE T == {m \in 0 .. N : R[m] \subseteq C}
<1>2. 0 \in T
  BY <1>0, <1>1 DEF IsSearch
<1>3. ASSUME NEW m \in Nat, m < N, m \in T PROVE m + 1 \in T
  <2>1. m + 1 \in 0 .. N
    BY <1>0, <1>3
  <2>2. R[m + 1] = R[m] \cup UNION {edges[n] : n \in R[m]}
    BY <1>1, <1>3 DEF IsSearch
  <2>3. R[m + 1] \subseteq C
    BY <1>3, <2>2
  <2> QED BY <2>1, <2>3
<1>4. \A m \in 0 .. N : m \in T
  <2> HIDE DEF T
  <2> QED BY <1>0, <1>2, <1>3, Upwards
<1>5. N \in 0 .. N
  BY <1>0
<1> QED BY <1>1, <1>4, <1>5 DEF IsSearch

------------------------------------------------------------------------------
(******************************** Orders **********************************)

\* the orders of a finite set
LEMMA SetOrder ==
    ASSUME NEW S, IsFiniteSet(S), NEW s \in SetToSeqs(S)
    PROVE  /\ s \in Seq(S)
           /\ \A i, j \in DOMAIN s : i # j => s[i] # s[j]
           /\ \A n \in S : \E i \in DOMAIN s : s[i] = n
<1> DEFINE c == Cardinality(S)
           D == 1 .. c
<1>1. c \in Nat
  BY FS_CardinalityType
<1>2. s \in [D -> S] /\ \A i, j \in D : i # j => s[i] # s[j]
  BY DEF SetToSeqs
<1> HIDE DEF c
<1>3. s \in Seq(S) /\ DOMAIN s = D
  BY <1>1, <1>2
<1>4. s \in Injection(D, S)
  <2> HIDE DEF D
  <2>1. \A a, b \in DOMAIN s : s[a] = s[b] => a = b
    BY <1>2, <1>3
  <2> QED BY <1>2, <2>1 DEF Injection, IsInjective
<1>5. IsFiniteSet(D) /\ Cardinality(D) = c
  <2>1. 1 \in Int /\ c \in Int /\ (IF 1 > c THEN 0 ELSE c - 1 + 1) = c
    BY <1>1
  <2> QED BY <2>1, FS_Interval
<1>6. s \in Surjection(D, S)
  <2> HIDE DEF D
  <2> QED BY <1>4, <1>5, FS_Injection DEF c
<1>7. \A n \in S : \E i \in D : s[i] = n
  BY <1>6 DEF Surjection
<1> QED BY <1>2, <1>3, <1>7

\* ... and those wave by wave
LEMMA WaveOrder ==
    ASSUME NEW cfg, NEW S, IsFiniteSet(S), NEW s \in Ordered(cfg, S)
    PROVE  /\ s \in Seq(S)
           /\ \A i, j \in DOMAIN s : i # j => s[i] # s[j]
           /\ \A n \in S : \E i \in DOMAIN s : s[i] = n
           /\ \A i, j \in DOMAIN s : i < j => Wave(cfg, s[i]) <= Wave(cfg, s[j])
<1>1. s \in SetToSeqs(S)
  BY DEF Ordered
<1>2. \A i, j \in DOMAIN s : i < j => Wave(cfg, s[i]) <= Wave(cfg, s[j])
  BY DEF Ordered, Wave
<1> QED BY <1>1, <1>2, SetOrder

LEMMA ReverseFacts ==
    ASSUME NEW S, NEW s \in Seq(S)
    PROVE  /\ Reverse(s) \in Seq(S)
           /\ Len(Reverse(s)) = Len(s)
           /\ DOMAIN Reverse(s) = DOMAIN s
           /\ DOMAIN s = 1 .. Len(s)
           /\ Len(s) \in Nat
           /\ \A i \in DOMAIN s : /\ (Len(s) - i) + 1 \in DOMAIN s
                                  /\ Reverse(s)[i] = s[(Len(s) - i) + 1]
<1>1. Len(s) \in Nat /\ DOMAIN s = 1 .. Len(s)
  OBVIOUS
<1>2. \A i \in DOMAIN s : (Len(s) - i) + 1 \in DOMAIN s
  BY <1>1
<1>3. Reverse(s) = [i \in 1 .. Len(s) |-> s[(Len(s) - i) + 1]]
  BY DEF Reverse
<1>4. \A i \in DOMAIN s : s[(Len(s) - i) + 1] \in S
  BY <1>2
<1>5. Reverse(s) \in [1 .. Len(s) -> S]
  BY <1>1, <1>3, <1>4
<1>6. Reverse(s) \in Seq(S) /\ Len(Reverse(s)) = Len(s)
  BY <1>1, <1>5
<1> QED BY <1>1, <1>2, <1>3, <1>6
------------------------------------------------------------------------------
(************************** What plans promise ****************************)

PlanSteps == [verb : {"start", "stop", "swap", "fail"}, names : SUBSET Services]

At(p, i, v, n) == i \in DOMAIN p /\ p[i].verb = v /\ n \in p[i].names
Todo(p, v, n) == \E i \in DOMAIN p : At(p, i, v, n)
Has(p, v) == \E i \in DOMAIN p : p[i].verb = v

\* a service is not started before one that it depends on
StartsInOrder(cfg, p) ==
    \A i, j \in DOMAIN p : \A n, d \in Services :
        i <= j /\ At(p, i, "start", n) /\ At(p, j, "start", d) => d \notin cfg[n].deps

\* no service is started twice
StartsOnce(p) ==
    \A i, j \in DOMAIN p : \A n \in Services :
        At(p, i, "start", n) /\ At(p, j, "start", n) => i = j

\* a service is not stopped after it is started
StopsBeforeStarts(p) ==
    \A i, j \in DOMAIN p : \A n \in Services :
        At(p, i, "stop", n) /\ At(p, j, "start", n) => i < j

\* one swap at most, before any start
SwapFirst(p) ==
    \A i, j \in DOMAIN p : p[i].verb = "swap" =>
        /\ p[j].verb = "start" => i < j
        /\ p[j].verb = "swap" => i = j

\* a failing step is alone or follows the swap
FailAlone(p) ==
    \A j \in DOMAIN p : p[j].verb = "fail" /\ j # 1 => p[j - 1].verb = "swap"

Sound(cfg, p) ==
    /\ StartsInOrder(cfg, p)
    /\ StartsOnce(p)
    /\ StopsBeforeStarts(p)
    /\ SwapFirst(p)
    /\ FailAlone(p)

\* all that a service depends on is started before it, or done
DepsBefore(cfg, p, Done) ==
    \A j \in DOMAIN p : \A n \in Services : At(p, j, "start", n) =>
        \A d \in cfg[n].deps :
            d \in Done \/ \E i \in DOMAIN p : i < j /\ At(p, i, "start", d)

\* all that depends on a service is stopped before it, or done
DependentsBefore(cfg, p, Done) ==
    \A j \in DOMAIN p : \A n \in Services : At(p, j, "stop", n) =>
        \A m \in Dependents(cfg, n) :
            m \in Done \/ \E i \in DOMAIN p : i < j /\ At(p, i, "stop", m)

\* a service is stopped before it is started, or need not be
StoppedBefore(p, Down) ==
    \A j \in DOMAIN p : \A n \in Services : At(p, j, "start", n) =>
        n \in Down \/ \E i \in DOMAIN p : i < j /\ At(p, i, "stop", n)

Verbs(p, V) == \A i \in DOMAIN p : p[i].verb \in V

LEMMA PlanStep ==
    ASSUME NEW p \in Seq(PlanSteps), NEW i \in DOMAIN p
    PROVE  /\ p[i] \in PlanSteps
           /\ p[i].verb \in {"start", "stop", "swap", "fail"}
           /\ p[i].names \subseteq Services
<1>1. p[i] \in PlanSteps
  OBVIOUS
<1> QED BY <1>1 DEF PlanSteps

LEMMA StepType ==
    ASSUME NEW v \in {"start", "stop", "swap", "fail"}, NEW S \in SUBSET Services
    PROVE  Step(v, S) \in PlanSteps /\ Step(v, S).verb = v /\ Step(v, S).names = S
  BY DEF Step, PlanSteps

LEMMA FailsPlan ==
    ASSUME NEW cfg
    PROVE  /\ Fails \in Seq(PlanSteps)
           /\ Verbs(Fails, {"fail"})
           /\ DOMAIN Fails = {1}
           /\ Fails[1].verb = "fail"
           /\ Sound(cfg, Fails)
           /\ \A Done : DepsBefore(cfg, Fails, Done)
           /\ \A Down : StoppedBefore(Fails, Down)
<1>1. {} \in SUBSET Services
  OBVIOUS
<1>2. Step("fail", {}) \in PlanSteps /\ Step("fail", {}).verb = "fail"
  BY <1>1, StepType
<1>3. Fails \in Seq(PlanSteps) /\ Len(Fails) = 1 /\ DOMAIN Fails = {1} /\ Fails[1] = Step("fail", {})
  BY <1>2 DEF Fails
<1>4. \A i \in DOMAIN Fails : i = 1 /\ Fails[i].verb = "fail"
  BY <1>2, <1>3
<1>5. Verbs(Fails, {"fail"})
  BY <1>4 DEF Verbs
<1>6. Sound(cfg, Fails)
  BY <1>4 DEF Sound, StartsInOrder, StartsOnce, StopsBeforeStarts, SwapFirst, FailAlone, At
<1>7. \A Done : DepsBefore(cfg, Fails, Done)
  BY <1>4 DEF DepsBefore, At
<1>8. \A Down : StoppedBefore(Fails, Down)
  BY <1>4 DEF StoppedBefore, At
<1> QED BY <1>2, <1>3, <1>5, <1>6, <1>7, <1>8

LEMMA OneByOneFacts ==
    ASSUME NEW v \in {"start", "stop"}, NEW s \in Seq(Services)
    PROVE  /\ OneByOne(v, s) \in Seq(PlanSteps)
           /\ DOMAIN OneByOne(v, s) = DOMAIN s
           /\ Len(OneByOne(v, s)) = Len(s)
           /\ DOMAIN s = 1 .. Len(s)
           /\ \A i \in DOMAIN s : /\ OneByOne(v, s)[i].verb = v
                                  /\ OneByOne(v, s)[i].names = {s[i]}
                                  /\ s[i] \in Services
<1> DEFINE q == OneByOne(v, s)
<1>1. Len(s) \in Nat /\ DOMAIN s = 1 .. Len(s) /\ \A i \in DOMAIN s : s[i] \in Services
  OBVIOUS
<1>2. q = [i \in DOMAIN s |-> Step(v, {s[i]})]
  BY DEF OneByOne
<1>3. \A i \in DOMAIN s : {s[i]} \in SUBSET Services
  BY <1>1
<1>4. \A i \in DOMAIN s :
        /\ Step(v, {s[i]}) \in PlanSteps
        /\ Step(v, {s[i]}).verb = v
        /\ Step(v, {s[i]}).names = {s[i]}
  BY <1>3, StepType
<1> HIDE DEF q
<1>5. q \in [1 .. Len(s) -> PlanSteps]
  BY <1>1, <1>2, <1>4
<1>6. q \in Seq(PlanSteps) /\ Len(q) = Len(s) /\ DOMAIN q = DOMAIN s
  BY <1>1, <1>5
<1>7. \A i \in DOMAIN s : q[i].verb = v /\ q[i].names = {s[i]}
  BY <1>2, <1>4
<1> QED BY <1>1, <1>6, <1>7 DEF q

\* a plan of starts wave by wave is sound
LEMMA StartsSound ==
    ASSUME IsFiniteSet(Services), NEW cfg, Acyclic(cfg), NEW p \in Seq(PlanSteps),
           Verbs(p, {"start"}), StartsOnce(p),
           \A i \in DOMAIN p : p[i].names \subseteq Declared(cfg),
           \A i, j \in DOMAIN p : \A n \in p[i].names, m \in p[j].names :
               i <= j => Wave(cfg, n) <= Wave(cfg, m)
    PROVE  Sound(cfg, p)
<1>1. StartsInOrder(cfg, p)
  <2> SUFFICES ASSUME NEW i \in DOMAIN p, NEW j \in DOMAIN p, i <= j,
                      NEW n \in p[i].names, NEW d \in p[j].names, d \in cfg[n].deps
               PROVE  FALSE
    BY DEF StartsInOrder, At
  <2>1. n \in Declared(cfg) /\ d \in Declared(cfg) /\ Wave(cfg, n) <= Wave(cfg, d)
    OBVIOUS
  <2>2. Wave(cfg, d) < Wave(cfg, n) /\ Wave(cfg, n) \in 1 .. N /\ Wave(cfg, d) \in 1 .. N
    BY <2>1, WaveFacts
  <2>3. PICK a, b \in Nat : a = Wave(cfg, n) /\ b = Wave(cfg, d)
    BY <2>2, NIsNat
  <2> QED BY <2>1, <2>2, <2>3
<1>2. \A i \in DOMAIN p : p[i].verb = "start"
  BY DEF Verbs
<1>3. StopsBeforeStarts(p) /\ SwapFirst(p) /\ FailAlone(p)
  BY <1>2 DEF StopsBeforeStarts, SwapFirst, FailAlone, At
<1> QED BY <1>1, <1>3 DEF Sound

\* a plan of stops is sound
LEMMA StopsSound ==
    ASSUME NEW cfg, NEW p, Verbs(p, {"stop"})
    PROVE  Sound(cfg, p)
<1>2. \A i \in DOMAIN p : p[i].verb = "stop"
  BY DEF Verbs
<1> QED BY <1>2 DEF Sound, StartsInOrder, StartsOnce, StopsBeforeStarts, SwapFirst, FailAlone, At

\* start_all: sound, and a service is started after all its dependencies
LEMMA StartAllPlan ==
    ASSUME IsFiniteSet(Services), NEW cfg, IsConfig(cfg), Valid(cfg), NEW p \in StartAll(cfg)
    PROVE  /\ p \in Seq(PlanSteps)
           /\ Verbs(p, {"start", "fail"})
           /\ Sound(cfg, p)
           /\ DepsBefore(cfg, p, {})
<1>1. CASE ~Acyclic(cfg)
  <2>1. p = Fails
    BY <1>1 DEF StartAll
  <2> QED BY <2>1, FailsPlan DEF Verbs
<1>2. CASE Acyclic(cfg)
  <2> DEFINE S(k) == Waves(cfg)[k] \cap Enabled(cfg)
  <2>0. N \in Nat
    BY NIsNat
  <2>1. DOMAIN Waves(cfg) = 1 .. N
    BY DEF Waves, N
  <2>2. p = [k \in 1 .. N |-> Step("start", S(k))]
    BY <1>2, <2>1 DEF StartAll
  <2>3. \A k \in 1 .. N : S(k) \in SUBSET Services /\ S(k) \subseteq Declared(cfg)
    BY DEF Enabled, Declared
  <2> HIDE DEF S
  <2>4. \A k \in 1 .. N : /\ Step("start", S(k)) \in PlanSteps
                          /\ Step("start", S(k)).verb = "start"
                          /\ Step("start", S(k)).names = S(k)
    BY <2>3, StepType
  <2>5. p \in [1 .. N -> PlanSteps]
    BY <2>2, <2>4
  <2>6. p \in Seq(PlanSteps) /\ DOMAIN p = 1 .. N
    BY <2>0, <2>5
  <2>7. \A k \in 1 .. N : p[k].verb = "start" /\ p[k].names = S(k)
    BY <2>2, <2>4
  <2> HIDE <2>2
  <2>8. ASSUME NEW k \in 1 .. N, NEW n \in S(k)
        PROVE  n \in Declared(cfg) /\ k = Wave(cfg, n) /\ n \in Enabled(cfg)
    <3>1. n \in Declared(cfg) /\ n \in Waves(cfg)[k] /\ n \in Enabled(cfg)
      BY <2>3 DEF S
    <3> QED BY <1>2, <3>1, WaveFacts
  <2>9. StartsOnce(p)
    BY <2>6, <2>7, <2>8 DEF StartsOnce, At
  <2>10. \A i, j \in DOMAIN p : \A n \in p[i].names, m \in p[j].names :
               i <= j => Wave(cfg, n) <= Wave(cfg, m)
    BY <2>6, <2>7, <2>8
  <2>11. Verbs(p, {"start"})
    BY <2>6, <2>7 DEF Verbs
  <2>12. \A i \in DOMAIN p : p[i].names \subseteq Declared(cfg)
    BY <2>3, <2>6, <2>7
  <2>13. Sound(cfg, p)
    BY <1>2, <2>6, <2>9, <2>10, <2>11, <2>12, StartsSound
  <2>14. DepsBefore(cfg, p, {})
    <3> SUFFICES ASSUME NEW j \in 1 .. N, NEW n \in S(j), NEW d \in cfg[n].deps
                 PROVE  \E i \in 1 .. N : i < j /\ p[i].verb = "start" /\ d \in p[i].names
      BY <2>6, <2>7 DEF DepsBefore, At
    <3>1. n \in Declared(cfg) /\ j = Wave(cfg, n) /\ n \in Enabled(cfg)
      BY <2>8
    <3>2. d \in Enabled(cfg)
      BY <3>1 DEF Valid
    <3>3. d \in Declared(cfg) /\ Wave(cfg, d) < Wave(cfg, n)
      BY <1>2, <3>1, WaveFacts
    <3>4. PICK i \in 1 .. N : i = Wave(cfg, d) /\ d \in Waves(cfg)[i]
      BY <1>2, <3>3, WaveFacts
    <3>5. i < j /\ d \in S(i)
      BY <3>1, <3>2, <3>3, <3>4 DEF S
    <3> QED BY <2>7, <3>5
  <2> QED BY <2>6, <2>11, <2>13, <2>14 DEF Verbs
<1> QED BY <1>1, <1>2
\* starts of services in the order of their waves
LEMMA OrderedStarts ==
    ASSUME IsFiniteSet(Services), NEW cfg, Acyclic(cfg),
           NEW S \in SUBSET Declared(cfg), NEW s \in Ordered(cfg, S)
    PROVE  /\ s \in Seq(Services)
           /\ OneByOne("start", s) \in Seq(PlanSteps)
           /\ Verbs(OneByOne("start", s), {"start"})
           /\ Sound(cfg, OneByOne("start", s))
<1> DEFINE p == OneByOne("start", s)
<1>1. S \subseteq Services /\ IsFiniteSet(S)
  <2>1. S \in SUBSET Services
    BY DEF Declared
  <2> QED BY <2>1, FS_Subset
<1>2. /\ s \in Seq(S)
      /\ \A i, j \in DOMAIN s : i # j => s[i] # s[j]
      /\ \A i, j \in DOMAIN s : i < j => Wave(cfg, s[i]) <= Wave(cfg, s[j])
  BY <1>1, WaveOrder
<1>3. s \in Seq(Services) /\ \A i \in DOMAIN s : s[i] \in S
  BY <1>1, <1>2
<1>4. /\ p \in Seq(PlanSteps) /\ DOMAIN p = DOMAIN s /\ DOMAIN s = 1 .. Len(s)
      /\ \A i \in DOMAIN s : p[i].verb = "start" /\ p[i].names = {s[i]}
  BY <1>3, OneByOneFacts
<1> HIDE DEF p
<1>5. StartsOnce(p)
  BY <1>2, <1>4 DEF StartsOnce, At
<1>6. Verbs(p, {"start"})
  BY <1>4 DEF Verbs
<1>7. \A i \in DOMAIN p : p[i].names \subseteq Declared(cfg)
  BY <1>3, <1>4
<1>8. ASSUME NEW i \in DOMAIN p, NEW j \in DOMAIN p, NEW n \in p[i].names, NEW m \in p[j].names, i <= j
      PROVE  Wave(cfg, n) <= Wave(cfg, m)
  <2>1. n = s[i] /\ m = s[j] /\ n \in Declared(cfg)
    BY <1>4, <1>7
  <2>2. i = j \/ i < j
    BY <1>4, <1>8
  <2>3. PICK w \in Nat : w = Wave(cfg, n)
    BY <2>1, WaveFacts, NIsNat
  <2>4. CASE i = j
    BY <2>1, <2>3, <2>4
  <2>5. CASE i < j
    BY <1>2, <1>4, <2>1, <2>5
  <2> QED BY <2>2, <2>4, <2>5
<1>9. Sound(cfg, p)
  BY <1>4, <1>5, <1>6, <1>7, <1>8, StartsSound
<1> QED BY <1>3, <1>4, <1>6, <1>9 DEF p

\* start_named: likewise
LEMMA StartNamedPlan ==
    ASSUME IsFiniteSet(Services), NEW cfg, IsConfig(cfg), Valid(cfg),
           NEW A \in SUBSET Services, NEW p \in StartNamed(cfg, A)
    PROVE  /\ p \in Seq(PlanSteps)
           /\ Verbs(p, {"start", "fail"})
           /\ Sound(cfg, p)
           /\ DepsBefore(cfg, p, {})
<1>1. CASE ~Acyclic(cfg)
  <2>1. p = Fails
    BY <1>1 DEF StartNamed
  <2> QED BY <2>1, FailsPlan DEF Verbs
<1>2. CASE Acyclic(cfg)
  <2> DEFINE edges == [n \in Services |-> cfg[n].deps]
             R == Reach(edges, A)
             S == R \cap Enabled(cfg)
  <2>1. PICK s \in Ordered(cfg, S) : p = OneByOne("start", s)
    BY <1>2 DEF StartNamed
  <2>2. S \in SUBSET Declared(cfg) /\ S \in SUBSET Services
    BY DEF Enabled, Declared
  <2>3. IsFiniteSet(S)
    BY <2>2, FS_Subset
  <2>4. \A n \in R : n \in Services => cfg[n].deps \subseteq R
    <3>1. \A n \in Services : edges[n] \subseteq Services /\ edges[n] = cfg[n].deps
      BY DEF IsConfig
    <3> HIDE DEF edges
    <3>2. \A n \in R : edges[n] \subseteq R
      BY <3>1, ReachClosed
    <3> QED BY <3>1, <3>2
  <2> HIDE DEF R
  <2>5. \A n \in S : cfg[n].deps \subseteq S
    BY <2>2, <2>4 DEF Valid
  <2> HIDE DEF S
  <2>6. /\ s \in Seq(Services) /\ p \in Seq(PlanSteps)
        /\ Verbs(p, {"start"})
        /\ Sound(cfg, p)
    BY <1>2, <2>1, <2>2, OrderedStarts
  <2>7. /\ s \in Seq(S)
        /\ \A n \in S : \E i \in DOMAIN s : s[i] = n
        /\ \A i, j \in DOMAIN s : i < j => Wave(cfg, s[i]) <= Wave(cfg, s[j])
    BY <2>1, <2>3, WaveOrder
  <2>8. /\ DOMAIN p = DOMAIN s /\ DOMAIN s = 1 .. Len(s) /\ Len(s) \in Nat
        /\ \A i \in DOMAIN s : p[i].verb = "start" /\ p[i].names = {s[i]}
    BY <2>1, <2>6, OneByOneFacts
  <2>9. DepsBefore(cfg, p, {})
    <3> SUFFICES ASSUME NEW j \in DOMAIN s, NEW d \in cfg[s[j]].deps
                 PROVE  \E i \in DOMAIN s : i < j /\ p[i].verb = "start" /\ d \in p[i].names
      BY <2>8 DEF DepsBefore, At
    <3>1. s[j] \in S /\ s[j] \in Declared(cfg)
      BY <2>2, <2>7
    <3>2. d \in S
      BY <2>5, <3>1
    <3>3. PICK i \in DOMAIN s : s[i] = d
      BY <2>7, <3>2
    <3>4. /\ Wave(cfg, d) < Wave(cfg, s[j])
          /\ Wave(cfg, s[j]) \in 1 .. N
      BY <1>2, <3>1, WaveFacts
    <3>5. Wave(cfg, d) \in 1 .. N
      BY <1>2, <3>2, <2>2, WaveFacts
    <3>6. PICK a, b \in Nat : a = Wave(cfg, d) /\ b = Wave(cfg, s[j])
      BY <3>4, <3>5, NIsNat
    <3>7. i # j /\ ~(j < i)
      BY <2>7, <3>3, <3>4, <3>6
    <3>8. i < j
      BY <2>8, <3>7
    <3> QED BY <2>8, <3>3, <3>8
  <2> QED BY <2>6, <2>9 DEF Verbs
<1> QED BY <1>1, <1>2

\* stop_all: every declared service, after all that depends on it
LEMMA StopAllPlan ==
    ASSUME IsFiniteSet(Services), NEW cfg, NEW p \in StopAll(cfg)
    PROVE  /\ p \in Seq(PlanSteps)
           /\ Verbs(p, {"stop"})
           /\ Acyclic(cfg) => /\ DependentsBefore(cfg, p, {})
                              /\ \A n \in Declared(cfg) : Todo(p, "stop", n)
<1>1. CASE ~Acyclic(cfg)
  <2>1. p = <<>> /\ DOMAIN p = {}
    BY <1>1 DEF StopAll
  <2> QED BY <1>1, <2>1 DEF Verbs
<1>2. CASE Acyclic(cfg)
  <2> DEFINE q == [k \in 1 .. N |-> Step("stop", Waves(cfg)[k])]
  <2>0. N \in Nat
    BY NIsNat
  <2>1. DOMAIN Waves(cfg) = 1 .. N
    BY DEF Waves, N
  <2>2. p = Reverse(q)
    BY <1>2, <2>1 DEF StopAll
  <2>3. \A k \in 1 .. N : Waves(cfg)[k] \in SUBSET Declared(cfg)
    <3>1. \A k \in 1 .. N : Waves(cfg)[k] \subseteq Levels(cfg)[k]
      BY DEF Waves, N
    <3>2. \A k \in 1 .. N : Levels(cfg)[k] \subseteq Declared(cfg)
      BY LevelsUnfold
    <3> QED BY <3>1, <3>2
  <2>4. \A k \in 1 .. N : /\ Step("stop", Waves(cfg)[k]) \in PlanSteps
                          /\ Step("stop", Waves(cfg)[k]).verb = "stop"
                          /\ Step("stop", Waves(cfg)[k]).names = Waves(cfg)[k]
    BY <2>3, StepType DEF Declared
  <2>5. q \in [1 .. N -> PlanSteps]
    BY <2>4
  <2>6. q \in Seq(PlanSteps) /\ Len(q) = N /\ DOMAIN q = 1 .. N
    BY <2>0, <2>5
  <2>7. \A k \in 1 .. N : q[k].verb = "stop" /\ q[k].names = Waves(cfg)[k]
    BY <2>4
  <2> HIDE DEF q
  <2>8. /\ p \in Seq(PlanSteps) /\ DOMAIN p = 1 .. N
        /\ \A i \in 1 .. N : (N - i) + 1 \in 1 .. N /\ p[i] = q[(N - i) + 1]
    BY <2>2, <2>6, ReverseFacts
  <2>9. \A i \in 1 .. N : p[i].verb = "stop" /\ p[i].names = Waves(cfg)[(N - i) + 1]
    BY <2>7, <2>8
  <2>10. ASSUME NEW n \in Declared(cfg)
         PROVE  LET w == Wave(cfg, n) IN
                /\ w \in 1 .. N /\ (N - w) + 1 \in 1 .. N
                /\ p[(N - w) + 1].verb = "stop" /\ n \in p[(N - w) + 1].names
    <3>1. PICK w \in 1 .. N : w = Wave(cfg, n) /\ n \in Waves(cfg)[w]
      BY <1>2, WaveFacts
    <3>2. (N - w) + 1 \in 1 .. N /\ (N - ((N - w) + 1)) + 1 = w
      BY <2>0
    <3> QED BY <2>9, <3>1, <3>2
  <2>11. \A n \in Declared(cfg) : Todo(p, "stop", n)
    BY <2>8, <2>10 DEF Todo, At
  <2>12. DependentsBefore(cfg, p, {})
    <3> SUFFICES ASSUME NEW j \in 1 .. N, NEW n \in Services, n \in p[j].names, NEW m \in Dependents(cfg, n)
                 PROVE  \E i \in 1 .. N : i < j /\ p[i].verb = "stop" /\ m \in p[i].names
      BY <2>8 DEF DependentsBefore, At
    <3>1. m \in Declared(cfg) /\ n \in cfg[m].deps
      BY DEF Dependents
    <3>2. n \in Declared(cfg) /\ n \in Waves(cfg)[(N - j) + 1]
      BY <2>3, <2>8, <2>9
    <3>3. Wave(cfg, n) = (N - j) + 1
      BY <1>2, <2>8, <3>2, WaveFacts
    <3>4. PICK w \in 1 .. N : w = Wave(cfg, m)
      BY <1>2, <3>1, WaveFacts
    <3>5. Wave(cfg, n) < w
      BY <1>2, <3>1, <3>4, WaveFacts
    <3>6. (N - w) + 1 < j
      BY <2>0, <3>3, <3>5
    <3> QED BY <2>10, <3>1, <3>4, <3>6
  <2> QED BY <2>8, <2>9, <2>11, <2>12 DEF Verbs
<1> QED BY <1>1, <1>2

\* transitive_dependents_stop_order: everything after all that depends on it
LEMMA DependentsOrderPlan ==
    ASSUME IsFiniteSet(Services), NEW cfg, Acyclic(cfg),
           NEW A \in SUBSET Services, NEW s \in DependentsOrder(cfg, A)
    PROVE  /\ s \in Seq(Services)
           /\ OneByOne("stop", s) \in Seq(PlanSteps)
           /\ Verbs(OneByOne("stop", s), {"stop"})
           /\ DependentsBefore(cfg, OneByOne("stop", s), {})
           /\ WithDependents(cfg, A) \in SUBSET Declared(cfg)
           /\ Reverse(s) \in Ordered(cfg, WithDependents(cfg, A))
<1> DEFINE edges == [n \in Services |-> Dependents(cfg, n)]
           R == Reach(edges, A)
           S == WithDependents(cfg, A)
           p == OneByOne("stop", s)
<1>1. S = R \cap Declared(cfg)
  BY DEF WithDependents
<1>2. S \in SUBSET Declared(cfg) /\ S \in SUBSET Services
  BY <1>1 DEF Declared
<1>3. IsFiniteSet(S)
  BY <1>2, FS_Subset
<1>4. \A n \in Services : edges[n] \subseteq Services /\ edges[n] = Dependents(cfg, n)
  BY DEF Dependents, Declared
<1>5. \A n \in R : edges[n] \subseteq R
  <2> HIDE DEF edges
  <2> QED BY <1>4, ReachClosed
<1>6. \A n \in S : Dependents(cfg, n) \subseteq S
  <2> HIDE DEF edges, R
  <2> QED BY <1>1, <1>2, <1>4, <1>5 DEF Dependents
<1>7. PICK t \in Ordered(cfg, S) : s = Reverse(t)
  BY DEF DependentsOrder
<1> HIDE DEF S
<1>8. /\ t \in Seq(S)
      /\ \A n \in S : \E i \in DOMAIN t : t[i] = n
      /\ \A i, j \in DOMAIN t : i < j => Wave(cfg, t[i]) <= Wave(cfg, t[j])
  BY <1>3, WaveOrder
<1>9. /\ s \in Seq(S) /\ DOMAIN s = 1 .. Len(t) /\ Len(s) = Len(t)
      /\ Len(t) \in Nat /\ DOMAIN t = 1 .. Len(t)
      /\ \A i \in 1 .. Len(t) : (Len(t) - i) + 1 \in 1 .. Len(t) /\ s[i] = t[(Len(t) - i) + 1]
  BY <1>7, <1>8, ReverseFacts
<1>10. s \in Seq(Services)
  BY <1>2, <1>9
<1>11. /\ p \in Seq(PlanSteps) /\ DOMAIN p = DOMAIN s
       /\ \A i \in DOMAIN s : p[i].verb = "stop" /\ p[i].names = {s[i]}
  BY <1>10, OneByOneFacts
<1> HIDE DEF p
<1>12. Reverse(s) = t
  <2>1. /\ Reverse(s) \in Seq(S) /\ DOMAIN Reverse(s) = DOMAIN t
        /\ \A i \in DOMAIN t : Reverse(s)[i] = s[(Len(t) - i) + 1]
    BY <1>9, ReverseFacts
  <2>2. ASSUME NEW i \in DOMAIN t PROVE Reverse(s)[i] = t[i]
    <3>1. (Len(t) - i) + 1 \in 1 .. Len(t) /\ (Len(t) - ((Len(t) - i) + 1)) + 1 = i
      BY <1>9
    <3> QED BY <1>9, <2>1, <3>1
  <2>3. Len(Reverse(s)) = Len(t)
    BY <1>9, ReverseFacts
  <2>4. PICK r : r = Reverse(s)
    OBVIOUS
  <2>5. r \in Seq(S) /\ Len(r) = Len(t) /\ \A i \in 1 .. Len(r) : r[i] = t[i]
    BY <1>9, <2>1, <2>2, <2>3, <2>4
  <2>6. r = t
    BY <1>8, <2>5, SeqEqual
  <2> QED BY <2>4, <2>6
<1>13. DependentsBefore(cfg, p, {})
  <2> SUFFICES ASSUME NEW j \in DOMAIN s, NEW m \in Dependents(cfg, s[j])
               PROVE  \E i \in DOMAIN s : i < j /\ p[i].verb = "stop" /\ m \in p[i].names
    BY <1>11 DEF DependentsBefore, At
  <2>1. s[j] \in S
    BY <1>9
  <2>2. m \in S /\ s[j] \in cfg[m].deps /\ m \in Declared(cfg)
    BY <1>6, <2>1 DEF Dependents
  <2>3. PICK k \in 1 .. Len(t) : t[k] = m
    BY <1>8, <1>9, <2>2
  <2> DEFINE h == (Len(t) - j) + 1
  <2>4. h \in 1 .. Len(t) /\ s[j] = t[h]
    BY <1>9
  <2>5. Wave(cfg, s[j]) < Wave(cfg, m) /\ Wave(cfg, m) \in 1 .. N
    BY <2>2, WaveFacts
  <2>6. Wave(cfg, s[j]) \in 1 .. N
    BY <1>2, <2>1, WaveFacts
  <2>7. PICK a, b \in Nat : a = Wave(cfg, s[j]) /\ b = Wave(cfg, m)
    BY <2>5, <2>6, NIsNat
  <2>8. ~(k < h) /\ k # h
    <3> HIDE DEF h
    <3>1. CASE k < h
      <4>1. Wave(cfg, t[k]) <= Wave(cfg, t[h])
        BY <1>8, <1>9, <2>4, <3>1
      <4>2. b <= a /\ a < b
        BY <2>3, <2>4, <2>5, <2>7, <4>1
      <4> QED BY <4>2
    <3>2. CASE k = h
      <4>1. a = b /\ a < b
        BY <2>3, <2>4, <2>5, <2>7, <3>2
      <4> QED BY <4>1
    <3> QED BY <3>1, <3>2
  <2> DEFINE i == (Len(t) - k) + 1
  <2>9. i \in 1 .. Len(t) /\ i < j /\ (Len(t) - i) + 1 = k
    BY <1>9, <2>8
  <2>10. s[i] = m
    BY <1>9, <2>3, <2>9
  <2> QED BY <1>9, <1>11, <2>9, <2>10
<1>14. Verbs(p, {"stop"})
  BY <1>11 DEF Verbs
<1> QED BY <1>2, <1>10, <1>11, <1>12, <1>13, <1>14 DEF p, S
\* stop_named: every service after all that depends on it
LEMMA StopNamedPlan ==
    ASSUME IsFiniteSet(Services), NEW cfg, NEW A \in SUBSET Services, NEW p \in StopNamed(cfg, A)
    PROVE  /\ p \in Seq(PlanSteps)
           /\ Verbs(p, {"stop"})
           /\ Acyclic(cfg) => DependentsBefore(cfg, p, {})
<1>1. CASE ~Acyclic(cfg)
  <2>1. PICK s \in SetToSeqs(A) : p = OneByOne("stop", s)
    BY <1>1 DEF StopNamed
  <2>2. IsFiniteSet(A)
    BY FS_Subset
  <2>3. s \in Seq(A)
    BY <2>2, SetOrder
  <2>4. s \in Seq(Services)
    BY <2>3
  <2> QED BY <1>1, <2>1, <2>4, OneByOneFacts DEF Verbs
<1>2. CASE Acyclic(cfg)
  <2>1. PICK s \in DependentsOrder(cfg, A) : p = OneByOne("stop", s)
    BY <1>2 DEF StopNamed
  <2> QED BY <1>2, <2>1, DependentsOrderPlan
<1> QED BY <1>1, <1>2

\* two plans, one after the other
LEMMA ConcatFacts ==
    ASSUME NEW S, NEW p \in Seq(S), NEW q \in Seq(S)
    PROVE  /\ p \o q \in Seq(S)
           /\ Len(p) \in Nat /\ Len(q) \in Nat
           /\ Len(p \o q) = Len(p) + Len(q)
           /\ DOMAIN p = 1 .. Len(p) /\ DOMAIN q = 1 .. Len(q)
           /\ DOMAIN (p \o q) = 1 .. (Len(p) + Len(q))
           /\ \A i \in 1 .. Len(p) : (p \o q)[i] = p[i]
           /\ \A i \in 1 .. Len(q) : (p \o q)[Len(p) + i] = q[i]
           /\ \A i \in 1 .. (Len(p) + Len(q)) :
                \/ i \in 1 .. Len(p)
                \/ i > Len(p) /\ i - Len(p) \in 1 .. Len(q) /\ (p \o q)[i] = q[i - Len(p)]
<1>1. /\ p \o q \in Seq(S) /\ Len(p) \in Nat /\ Len(q) \in Nat
      /\ Len(p \o q) = Len(p) + Len(q)
      /\ DOMAIN p = 1 .. Len(p) /\ DOMAIN q = 1 .. Len(q)
  OBVIOUS
<1>2. DOMAIN (p \o q) = 1 .. (Len(p) + Len(q))
  BY <1>1
<1>3. \A i \in 1 .. Len(p) : (p \o q)[i] = p[i]
  OBVIOUS
<1>4. \A i \in 1 .. Len(q) : (p \o q)[Len(p) + i] = q[i]
  OBVIOUS
<1>5. ASSUME NEW i \in 1 .. (Len(p) + Len(q)), ~(i \in 1 .. Len(p))
      PROVE  i > Len(p) /\ i - Len(p) \in 1 .. Len(q) /\ (p \o q)[i] = q[i - Len(p)]
  <2>1. i > Len(p) /\ i - Len(p) \in 1 .. Len(q) /\ Len(p) + (i - Len(p)) = i
    BY <1>1, <1>5
  <2> QED BY <1>4, <2>1
<1> QED BY <1>1, <1>2, <1>3, <1>4, <1>5

\* restart_service: stops in the order of stop_named, then starts of the
\* same services, each of them after its dependencies
LEMMA RestartPlan ==
    ASSUME IsFiniteSet(Services), NEW cfg, NEW n0 \in Services, NEW p \in Restart(cfg, n0)
    PROVE  /\ p \in Seq(PlanSteps)
           /\ Verbs(p, {"stop", "start", "fail"})
           /\ Sound(cfg, p)
           /\ Acyclic(cfg) => DependentsBefore(cfg, p, {})
           /\ StoppedBefore(p, {})
<1>1. CASE ~Acyclic(cfg)
  <2>1. p = Fails
    BY <1>1 DEF Restart
  <2> QED BY <1>1, <2>1, FailsPlan DEF Verbs
<1>2. CASE Acyclic(cfg)
  <2> DEFINE S == WithDependents(cfg, {n0})
  <2>1. PICK s \in DependentsOrder(cfg, {n0}) : p = OneByOne("stop", s) \o OneByOne("start", Reverse(s))
    BY <1>2 DEF Restart
  <2> DEFINE a == OneByOne("stop", s)
             b == OneByOne("start", Reverse(s))
  <2>2. /\ s \in Seq(Services) /\ a \in Seq(PlanSteps)
        /\ DependentsBefore(cfg, a, {})
        /\ S \in SUBSET Declared(cfg)
        /\ Reverse(s) \in Ordered(cfg, S)
    <3>1. {n0} \in SUBSET Services
      OBVIOUS
    <3> QED BY <1>2, <3>1, DependentsOrderPlan
  <2>3. /\ DOMAIN a = DOMAIN s /\ Len(a) = Len(s)
        /\ \A i \in DOMAIN s : a[i].verb = "stop" /\ a[i].names = {s[i]}
    BY <2>2, OneByOneFacts
  <2> HIDE DEF S
  <2>4. /\ b \in Seq(PlanSteps) /\ Sound(cfg, b)
    BY <1>2, <2>2, OrderedStarts
  <2>5. /\ Reverse(s) \in Seq(Services) /\ DOMAIN Reverse(s) = DOMAIN s
        /\ \A i \in DOMAIN s : (Len(s) - i) + 1 \in DOMAIN s /\ Reverse(s)[i] = s[(Len(s) - i) + 1]
    BY <2>2, ReverseFacts
  <2>6. /\ DOMAIN b = DOMAIN s
        /\ \A i \in DOMAIN s : b[i].verb = "start" /\ b[i].names = {s[(Len(s) - i) + 1]}
    BY <2>5, OneByOneFacts
  <2> HIDE DEF a, b
  <2>7. p = a \o b
    BY <2>1 DEF a, b
  <2> DEFINE L == Len(s)
  <2>8. L \in Nat /\ DOMAIN s = 1 .. L /\ DOMAIN a = 1 .. L /\ DOMAIN b = 1 .. L /\ Len(a) = L /\ Len(b) = L
    BY <2>2, <2>3, <2>4, <2>6
  <2>9. /\ p \in Seq(PlanSteps) /\ DOMAIN p = 1 .. (L + L)
        /\ \A i \in 1 .. L : p[i] = a[i]
        /\ \A i \in 1 .. (L + L) :
                \/ i \in 1 .. L
                \/ i > L /\ i - L \in 1 .. L /\ p[i] = b[i - L]
    <3>1. /\ a \o b \in Seq(PlanSteps)
          /\ DOMAIN (a \o b) = 1 .. (Len(a) + Len(b))
          /\ \A i \in 1 .. Len(a) : (a \o b)[i] = a[i]
          /\ \A i \in 1 .. (Len(a) + Len(b)) :
                \/ i \in 1 .. Len(a)
                \/ i > Len(a) /\ i - Len(a) \in 1 .. Len(b) /\ (a \o b)[i] = b[i - Len(a)]
      BY <2>2, <2>4, ConcatFacts
    <3> HIDE DEF L
    <3> QED BY <2>7, <2>8, <3>1
  <2> HIDE DEF L
  <2>10. \A i \in 1 .. (L + L) :
            \/ i \in 1 .. L /\ p[i] = a[i] /\ p[i].verb = "stop"
            \/ i > L /\ i - L \in 1 .. L /\ p[i] = b[i - L] /\ p[i].verb = "start"
    BY <2>3, <2>6, <2>8, <2>9
  <2>11. Verbs(p, {"stop", "start", "fail"})
    BY <2>9, <2>10 DEF Verbs
  <2>12. StartsInOrder(cfg, p)
    <3> SUFFICES ASSUME NEW i \in 1 .. (L + L), NEW j \in 1 .. (L + L), i <= j,
                        NEW n \in Services, NEW d \in Services,
                        At(p, i, "start", n), At(p, j, "start", d)
                 PROVE  d \notin cfg[n].deps
      BY <2>9 DEF StartsInOrder
    <3>1. i - L \in 1 .. L /\ p[i] = b[i - L] /\ j - L \in 1 .. L /\ p[j] = b[j - L] /\ i - L <= j - L
      BY <2>8, <2>10 DEF At
    <3>2. At(b, i - L, "start", n) /\ At(b, j - L, "start", d)
      BY <2>8, <3>1 DEF At
    <3> QED BY <2>4, <2>8, <3>1, <3>2 DEF Sound, StartsInOrder
  <2>13. StartsOnce(p)
    <3> SUFFICES ASSUME NEW i \in 1 .. (L + L), NEW j \in 1 .. (L + L), NEW n \in Services,
                        At(p, i, "start", n), At(p, j, "start", n)
                 PROVE  i = j
      BY <2>9 DEF StartsOnce
    <3>1. i - L \in 1 .. L /\ p[i] = b[i - L] /\ j - L \in 1 .. L /\ p[j] = b[j - L]
      BY <2>8, <2>10 DEF At
    <3>2. At(b, i - L, "start", n) /\ At(b, j - L, "start", n)
      BY <2>8, <3>1 DEF At
    <3>3. i - L = j - L
      BY <2>4, <2>8, <3>1, <3>2 DEF Sound, StartsOnce
    <3> QED BY <2>8, <3>3
  <2>14. StopsBeforeStarts(p)
    BY <2>8, <2>9, <2>10 DEF StopsBeforeStarts, At
  <2>15. SwapFirst(p) /\ FailAlone(p)
    BY <2>9, <2>10 DEF SwapFirst, FailAlone
  <2>16. DependentsBefore(cfg, p, {})
    <3> SUFFICES ASSUME NEW j \in 1 .. (L + L), NEW n \in Services, At(p, j, "stop", n),
                        NEW m \in Dependents(cfg, n)
                 PROVE  \E i \in DOMAIN p : i < j /\ At(p, i, "stop", m)
      BY <2>9 DEF DependentsBefore
    <3>1. j \in 1 .. L /\ At(a, j, "stop", n)
      BY <2>8, <2>10 DEF At
    <3>2. PICK i \in DOMAIN a : i < j /\ At(a, i, "stop", m)
      BY <2>2, <2>8, <3>1 DEF DependentsBefore
    <3>3. i \in 1 .. L /\ i \in 1 .. (L + L)
      BY <2>8
    <3>4. At(p, i, "stop", m)
      BY <2>9, <3>2, <3>3 DEF At
    <3> QED BY <2>9, <3>2, <3>3, <3>4
  <2>17. StoppedBefore(p, {})
    <3> SUFFICES ASSUME NEW j \in 1 .. (L + L), NEW n \in Services, At(p, j, "start", n)
                 PROVE  \E i \in DOMAIN p : i < j /\ At(p, i, "stop", n)
      BY <2>9 DEF StoppedBefore
    <3>1. j > L /\ j - L \in 1 .. L /\ n \in b[j - L].names
      BY <2>8, <2>10 DEF At
    <3> DEFINE i == (L - (j - L)) + 1
    <3>2. n = s[i] /\ i \in 1 .. L
      BY <2>5, <2>6, <2>8, <3>1 DEF L
    <3> HIDE DEF i
    <3>3. i \in 1 .. (L + L) /\ i < j /\ p[i] = a[i] /\ a[i].verb = "stop" /\ n \in a[i].names
      BY <2>3, <2>8, <2>9, <3>1, <3>2
    <3> QED BY <2>9, <3>3 DEF At
  <2>18. Sound(cfg, p)
    BY <2>12, <2>13, <2>14, <2>15 DEF Sound
  <2> QED BY <2>9, <2>11, <2>16, <2>17, <2>18
<1> QED BY <1>1, <1>2
------------------------------------------------------------------------------
(******************************** Reload **********************************)

\* sequences put together one after the other
LEMMA FlattenUnfolds ==
    ASSUME NEW seqs, Len(seqs) \in Nat, Len(seqs) # 0
    PROVE  \E F : /\ FlattenSeq(seqs) = F[Len(seqs)]
                  /\ F[1] = seqs[1]
                  /\ \A k \in 2 .. Len(seqs) : F[k] = F[k - 1] \o seqs[k]
<1> DEFINE c == Len(seqs)
           One(F, k) == IF k = 1 THEN seqs[1] ELSE F[k - 1] \o seqs[k]
           Eq(F, m) == F = [k \in 1 .. m |-> One(F, k)]
           T == {m \in Nat : \E F : Eq(F, m)}
<1>1. 0 \in T
  <2> DEFINE F == [k \in 1 .. 0 |-> {}]
  <2>1. F = [k \in 1 .. 0 |-> One(F, k)]
    <3> HIDE DEF One
    <3> QED OBVIOUS
  <2> QED BY <2>1
<1>2. ASSUME NEW m \in Nat, m \in T PROVE m + 1 \in T
  <2>1. PICK F : Eq(F, m)
    BY <1>2
  <2> DEFINE G == [k \in 1 .. (m + 1) |-> IF k <= m THEN F[k] ELSE One(F, m + 1)]
  <2>2. /\ \A k \in 1 .. m : G[k] = F[k]
        /\ G[m + 1] = One(F, m + 1)
        /\ G = [k \in 1 .. (m + 1) |-> G[k]]
    <3> HIDE DEF One
    <3> QED OBVIOUS
  <2>3. \A k \in 1 .. m : F[k] = One(F, k)
    <3> HIDE DEF One
    <3> QED BY <2>1
  <2> HIDE DEF G
  <2>4. ASSUME NEW k \in 1 .. (m + 1) PROVE G[k] = One(G, k)
    <3>1. G[k] = One(F, k)
      <4>1. k \in 1 .. m \/ k = m + 1
        OBVIOUS
      <4> HIDE DEF One
      <4> QED BY <2>2, <2>3, <4>1
    <3>2. One(F, k) = One(G, k)
      <4>1. CASE k = 1
        BY <4>1
      <4>2. CASE k # 1
        <5>1. k - 1 \in 1 .. m
          BY <4>2
        <5>2. G[k - 1] = F[k - 1]
          BY <2>2, <5>1
        <5> QED BY <4>2, <5>2
      <4> QED BY <4>1, <4>2
    <3> QED BY <3>1, <3>2
  <2>5. Eq(G, m + 1)
    <3> HIDE DEF One
    <3> QED BY <2>2, <2>4
  <2> HIDE DEF Eq
  <2> QED BY <2>5
<1>3. c \in T
  <2>1. \A m \in 0 .. c : m \in T
    <3> HIDE DEF T
    <3> QED BY <1>1, <1>2, Upwards
  <2>2. c \in 0 .. c
    OBVIOUS
  <2> HIDE DEF T, c
  <2> QED BY <2>1, <2>2
<1>4. PICK F : Eq(F, c)
  <2> HIDE DEF Eq
  <2> QED BY <1>3
<1>5. PICK R : Eq(R, c) /\ FlattenSeq(seqs) = R[c]
  <2>1. FlattenSeq(seqs) = (CHOOSE L : L = [i \in 1 .. c |-> IF i = 1 THEN seqs[i] ELSE L[i - 1] \o seqs[i]])[c]
    BY Zenon DEF FlattenSeq
  <2>2. ASSUME NEW L PROVE Eq(L, c) <=> L = [i \in 1 .. c |-> IF i = 1 THEN seqs[i] ELSE L[i - 1] \o seqs[i]]
    <3>1. ASSUME NEW i \in 1 .. c
          PROVE  One(L, i) = IF i = 1 THEN seqs[i] ELSE L[i - 1] \o seqs[i]
      OBVIOUS
    <3> HIDE DEF One
    <3> QED BY <3>1
  <2>3. FlattenSeq(seqs) = (CHOOSE L : Eq(L, c))[c]
    <3>1. (CHOOSE L : Eq(L, c)) = CHOOSE L : L = [i \in 1 .. c |-> IF i = 1 THEN seqs[i] ELSE L[i - 1] \o seqs[i]]
      <4> HIDE DEF Eq
      <4> QED BY <2>2, Zenon
    <3> QED BY <2>1, <3>1, Zenon
  <2> HIDE DEF Eq
  <2> QED BY <1>4, <2>3
<1>6. R[1] = seqs[1] /\ \A k \in 2 .. c : R[k] = R[k - 1] \o seqs[k]
  <2>1. \A k \in 1 .. c : R[k] = One(R, k)
    <3> HIDE DEF One
    <3> QED BY <1>5
  <2>2. 1 \in 1 .. c /\ \A k \in 2 .. c : k \in 1 .. c /\ k # 1
    OBVIOUS
  <2> QED BY <2>1, <2>2
<1> QED BY <1>5, <1>6
\* what reload does to a service that changed or is new
Renew(old, n) ==
    IF n \in Declared(old) THEN <<Step("stop", {n}), Step("start", {n})>>
    ELSE <<Step("start", {n})>>

LEMMA RenewFacts ==
    ASSUME NEW old, NEW n \in Services
    PROVE  \E M \in {1, 2} :
             /\ Renew(old, n) \in Seq(PlanSteps)
             /\ Len(Renew(old, n)) = M
             /\ \A i \in 1 .. M : Renew(old, n)[i].names = {n}
             /\ Renew(old, n)[M].verb = "start"
             /\ M = 2 => Renew(old, n)[1].verb = "stop"
             /\ n \in Declared(old) <=> M = 2
<1> DEFINE a == Step("stop", {n})
           b == Step("start", {n})
<1>1. {n} \in SUBSET Services
  OBVIOUS
<1>2. /\ a \in PlanSteps /\ a.verb = "stop" /\ a.names = {n}
      /\ b \in PlanSteps /\ b.verb = "start" /\ b.names = {n}
  BY <1>1, StepType
<1> HIDE DEF a, b
<1>3. CASE n \in Declared(old)
  <2>1. Renew(old, n) = <<a, b>>
    BY <1>3 DEF Renew, a, b
  <2>2. <<a, b>> \in Seq(PlanSteps) /\ Len(<<a, b>>) = 2 /\ <<a, b>>[1] = a /\ <<a, b>>[2] = b
    BY <1>2
  <2>3. \A i \in 1 .. 2 : <<a, b>>[i].names = {n}
    BY <1>2, <2>2
  <2> QED BY <1>2, <1>3, <2>1, <2>2, <2>3
<1>4. CASE n \notin Declared(old)
  <2>1. Renew(old, n) = <<b>>
    BY <1>4 DEF Renew, b
  <2>2. <<b>> \in Seq(PlanSteps) /\ Len(<<b>>) = 1 /\ <<b>>[1] = b
    BY <1>2
  <2>3. \A i \in 1 .. 1 : <<b>>[i].names = {n}
    BY <1>2, <2>2
  <2> QED BY <1>2, <1>4, <2>1, <2>2, <2>3
<1> QED BY <1>3, <1>4

\* q renews the services s[1], ..., s[k]
Renews(cfg, old, s, k, q) ==
    /\ q \in Seq(PlanSteps)
    /\ Verbs(q, {"stop", "start"})
    /\ \A i \in DOMAIN q : \E x \in 1 .. k : q[i].names = {s[x]}
    /\ \A i, j \in DOMAIN q : \A n \in q[i].names, m \in q[j].names :
           i <= j => Wave(cfg, n) <= Wave(cfg, m)
    /\ \A x \in 1 .. k : Todo(q, "start", s[x])
    /\ StartsOnce(q)
    /\ StopsBeforeStarts(q)
    /\ StoppedBefore(q, Services \ Declared(old))

LEMMA RenewsStep ==
    ASSUME NEW cfg, NEW old, NEW s \in Seq(Services), NEW k \in Nat, k + 1 \in DOMAIN s,
           \A i, j \in DOMAIN s : i # j => s[i] # s[j],
           \A i, j \in DOMAIN s : i <= j => Wave(cfg, s[i]) <= Wave(cfg, s[j]),
           NEW q, Renews(cfg, old, s, k, q)
    PROVE  Renews(cfg, old, s, k + 1, q \o Renew(old, s[k + 1]))
<1> DEFINE n == s[k + 1]
           w == Renew(old, n)
           r == q \o w
           L == Len(q)
<1>1. n \in Services /\ q \in Seq(PlanSteps)
  BY DEF Renews
<1>2. PICK M \in {1, 2} :
             /\ w \in Seq(PlanSteps)
             /\ Len(w) = M
             /\ \A i \in 1 .. M : w[i].names = {n}
             /\ w[M].verb = "start"
             /\ M = 2 => w[1].verb = "stop"
             /\ n \in Declared(old) <=> M = 2
  BY <1>1, RenewFacts
<1>3. /\ r \in Seq(PlanSteps) /\ L \in Nat /\ DOMAIN q = 1 .. L
      /\ DOMAIN r = 1 .. (L + M)
      /\ \A i \in 1 .. L : r[i] = q[i]
      /\ \A i \in 1 .. (L + M) :
             \/ i \in 1 .. L
             \/ i > L /\ i - L \in 1 .. M /\ r[i] = w[i - L]
  BY <1>1, <1>2, ConcatFacts
<1>4. r[L + M].verb = "start" /\ r[L + M].names = {n} /\ L + M \in DOMAIN r
  <2>1. L + M \in 1 .. (L + M) /\ ~(L + M \in 1 .. L) /\ (L + M) - L = M /\ M \in 1 .. M
    BY <1>3
  <2>2. r[L + M] = w[M]
    BY <1>3, <2>1
  <2> QED BY <1>2, <1>3, <2>1, <2>2
<1>5. \A i \in DOMAIN r : ~(i \in 1 .. L) => /\ i > L /\ i <= L + M
                                             /\ r[i].names = {n}
                                             /\ r[i].verb = "start" <=> i = L + M
                                             /\ i # L + M => i = L + 1 /\ r[i].verb = "stop"
  <2> SUFFICES ASSUME NEW i \in DOMAIN r, ~(i \in 1 .. L)
               PROVE  /\ i > L /\ i <= L + M
                      /\ r[i].names = {n}
                      /\ r[i].verb = "start" <=> i = L + M
                      /\ i # L + M => i = L + 1 /\ r[i].verb = "stop"
    OBVIOUS
  <2>1. i > L /\ i <= L + M /\ i - L \in 1 .. M /\ r[i] = w[i - L]
    BY <1>3
  <2>2. r[i].names = {n}
    BY <1>2, <2>1
  <2>3. CASE i - L = M
    <3>1. i = L + M
      BY <1>3, <2>1, <2>3
    <3> QED BY <1>4, <2>1, <2>2, <3>1
  <2>4. CASE i - L # M
    <3>1. i - L = 1 /\ M = 2 /\ i # L + M /\ i = L + 1
      BY <1>3, <2>1, <2>4
    <3>2. r[i].verb = "stop"
      BY <1>2, <2>1, <3>1
    <3> QED BY <2>1, <2>2, <3>1, <3>2
  <2> QED BY <2>3, <2>4
<1>6. M = 2 => L + 1 \in DOMAIN r /\ r[L + 1].verb = "stop" /\ r[L + 1].names = {n} /\ L + 1 < L + M
  <2> SUFFICES ASSUME M = 2 PROVE L + 1 \in DOMAIN r /\ r[L + 1].verb = "stop" /\ r[L + 1].names = {n} /\ L + 1 < L + M
    OBVIOUS
  <2>1. L + 1 \in DOMAIN r /\ ~(L + 1 \in 1 .. L) /\ L + 1 # L + M /\ L + 1 < L + M
    BY <1>3
  <2> QED BY <1>5, <2>1
<1> HIDE DEF r, w, L
<1>7. \A i \in 1 .. L : i \in DOMAIN r /\ i < L + M /\ r[i] = q[i]
  BY <1>3
<1>8. \A x \in 1 .. k : x \in DOMAIN s /\ x \in 1 .. (k + 1) /\ s[x] # n /\ Wave(cfg, s[x]) <= Wave(cfg, n)
  <2>1. DOMAIN s = 1 .. Len(s) /\ Len(s) \in Nat
    OBVIOUS
  <2>2. \A x \in 1 .. k : x \in DOMAIN s /\ x \in 1 .. (k + 1) /\ x # k + 1 /\ x <= k + 1
    BY <2>1
  <2> QED BY <2>2
<1>9. \A i \in DOMAIN q : n \notin q[i].names
  BY <1>8 DEF Renews
<1> HIDE DEF n
<1>10. Verbs(r, {"stop", "start"})
  <2>1. \A i \in DOMAIN q : q[i].verb \in {"stop", "start"}
    BY DEF Renews, Verbs
  <2> QED BY <1>3, <1>5, <1>7, <2>1 DEF Verbs
<1>11. \A i \in DOMAIN r : \E x \in 1 .. (k + 1) : r[i].names = {s[x]}
  <2> SUFFICES ASSUME NEW i \in DOMAIN r PROVE \E x \in 1 .. (k + 1) : r[i].names = {s[x]}
    OBVIOUS
  <2>1. CASE i \in 1 .. L
    <3>1. PICK x \in 1 .. k : q[i].names = {s[x]}
      BY <1>3, <2>1 DEF Renews
    <3> QED BY <1>7, <1>8, <2>1, <3>1
  <2>2. CASE ~(i \in 1 .. L)
    <3>1. r[i].names = {s[k + 1]} /\ k + 1 \in 1 .. (k + 1)
      BY <1>5, <2>2 DEF n
    <3> QED BY <3>1
  <2> QED BY <2>1, <2>2
<1>12. \A i, j \in DOMAIN r : \A a \in r[i].names, b \in r[j].names :
           i <= j => Wave(cfg, a) <= Wave(cfg, b)
  <2> SUFFICES ASSUME NEW i \in DOMAIN r, NEW j \in DOMAIN r, NEW a \in r[i].names, NEW b \in r[j].names,
                      i <= j
               PROVE  Wave(cfg, a) <= Wave(cfg, b)
    OBVIOUS
  <2>1. CASE j \in 1 .. L
    <3>1. i \in 1 .. L
      BY <1>3, <2>1
    <3> QED BY <1>3, <1>7, <2>1, <3>1 DEF Renews
  <2>2. CASE i \in 1 .. L /\ ~(j \in 1 .. L)
    <3>1. b = n
      BY <1>5, <2>2
    <3>2. PICK x \in 1 .. k : q[i].names = {s[x]}
      BY <1>3, <2>2 DEF Renews
    <3>3. a = s[x]
      BY <1>7, <2>2, <3>2
    <3> QED BY <1>8, <3>1, <3>3
  <2>3. CASE ~(i \in 1 .. L) /\ ~(j \in 1 .. L)
    <3>1. a = n /\ b = n
      BY <1>5, <2>3
    <3> QED BY <3>1 DEF n
  <2> QED BY <2>1, <2>2, <2>3
<1>13. \A x \in 1 .. (k + 1) : Todo(r, "start", s[x])
  <2> SUFFICES ASSUME NEW x \in 1 .. (k + 1) PROVE Todo(r, "start", s[x])
    OBVIOUS
  <2>1. CASE x = k + 1
    BY <1>4, <2>1 DEF Todo, At, n
  <2>2. CASE x # k + 1
    <3>1. x \in 1 .. k
      BY <2>2
    <3>2. PICK i \in DOMAIN q : At(q, i, "start", s[x])
      BY <3>1 DEF Renews, Todo
    <3> QED BY <1>3, <1>7, <3>2 DEF Todo, At
  <2> QED BY <2>1, <2>2
<1>14. StartsOnce(r)
  <2> SUFFICES ASSUME NEW i \in DOMAIN r, NEW j \in DOMAIN r, NEW a \in Services,
                      At(r, i, "start", a), At(r, j, "start", a)
               PROVE  i = j
    BY DEF StartsOnce
  <2>1. CASE a = n
    BY <1>3, <1>5, <1>7, <1>9, <2>1 DEF At
  <2>2. CASE a # n
    <3>1. i \in 1 .. L /\ j \in 1 .. L
      BY <1>5, <2>2 DEF At
    <3>2. At(q, i, "start", a) /\ At(q, j, "start", a)
      BY <1>3, <1>7, <3>1 DEF At
    <3> QED BY <1>3, <3>1, <3>2 DEF Renews, StartsOnce
  <2> QED BY <2>1, <2>2
<1>15. StopsBeforeStarts(r)
  <2> SUFFICES ASSUME NEW i \in DOMAIN r, NEW j \in DOMAIN r, NEW a \in Services,
                      At(r, i, "stop", a), At(r, j, "start", a)
               PROVE  i < j
    BY DEF StopsBeforeStarts
  <2>1. CASE a = n
    <3>1. ~(i \in 1 .. L) /\ ~(j \in 1 .. L)
      BY <1>3, <1>7, <1>9, <2>1 DEF At
    <3>2. j = L + M /\ i # L + M /\ i <= L + M
      BY <1>5, <3>1 DEF At
    <3> QED BY <1>3, <3>2
  <2>2. CASE a # n
    <3>1. i \in 1 .. L /\ j \in 1 .. L
      BY <1>5, <2>2 DEF At
    <3>2. At(q, i, "stop", a) /\ At(q, j, "start", a)
      BY <1>3, <1>7, <3>1 DEF At
    <3> QED BY <1>3, <3>1, <3>2 DEF Renews, StopsBeforeStarts
  <2> QED BY <2>1, <2>2
<1>16. StoppedBefore(r, Services \ Declared(old))
  <2> SUFFICES ASSUME NEW j \in DOMAIN r, NEW a \in Services, At(r, j, "start", a), a \in Declared(old)
               PROVE  \E i \in DOMAIN r : i < j /\ At(r, i, "stop", a)
    BY DEF StoppedBefore
  <2>1. CASE a = n
    <3>1. ~(j \in 1 .. L)
      BY <1>3, <1>7, <1>9, <2>1 DEF At
    <3>2. j = L + M
      BY <1>5, <3>1 DEF At
    <3>3. M = 2
      BY <1>2, <2>1
    <3> QED BY <1>6, <2>1, <3>2, <3>3 DEF At
  <2>2. CASE a # n
    <3>1. j \in 1 .. L
      BY <1>5, <2>2 DEF At
    <3>2. At(q, j, "start", a)
      BY <1>3, <1>7, <3>1 DEF At
    <3>3. PICK i \in DOMAIN q : i < j /\ At(q, i, "stop", a)
      BY <1>3, <3>1, <3>2 DEF Renews, StoppedBefore
    <3> QED BY <1>3, <1>7, <3>3 DEF At
  <2> QED BY <2>1, <2>2
<1>17. Renews(cfg, old, s, k + 1, r)
  BY <1>3, <1>10, <1>11, <1>12, <1>13, <1>14, <1>15, <1>16 DEF Renews
<1> QED BY <1>17 DEF r, w, n
\* the part of reload's plan after the swap
LEMMA RenewsAll ==
    ASSUME NEW cfg, NEW old, NEW s \in Seq(Services),
           \A i, j \in DOMAIN s : i # j => s[i] # s[j],
           \A i, j \in DOMAIN s : i <= j => Wave(cfg, s[i]) <= Wave(cfg, s[j])
    PROVE  Renews(cfg, old, s, Len(s), FlattenSeq([i \in DOMAIN s |-> Renew(old, s[i])]))
<1> DEFINE seqs == [i \in DOMAIN s |-> Renew(old, s[i])]
           c == Len(s)
<1>1. c \in Nat /\ DOMAIN s = 1 .. c
  OBVIOUS
<1>2. Len(seqs) = c /\ \A i \in 1 .. c : seqs[i] = Renew(old, s[i])
  <2>1. \A i \in 1 .. c : Renew(old, s[i]) \in Seq(PlanSteps)
    BY <1>1, RenewFacts
  <2>2. seqs \in Seq(Seq(PlanSteps))
    BY <1>1, <2>1
  <2> QED BY <1>1, <2>2
<1>3. Renews(cfg, old, s, 0, <<>>)
  <2>1. <<>> \in Seq(PlanSteps) /\ DOMAIN <<>> = {} /\ 1 .. 0 = {}
    OBVIOUS
  <2> QED BY <2>1 DEF Renews, Verbs, StartsOnce, StopsBeforeStarts, StoppedBefore
<1>4. CASE c = 0
  <2>1. seqs = <<>>
    BY <1>1, <1>2, <1>4
  <2> HIDE DEF seqs
  <2>2. FlattenSeq(seqs) = <<>>
    BY <1>2, <1>4, <2>1, Zenon DEF FlattenSeq
  <2> QED BY <1>3, <1>4, <2>2 DEF seqs
<1>5. CASE c # 0
  <2> HIDE DEF seqs, c
  <2>1. PICK F : /\ FlattenSeq(seqs) = F[c]
                 /\ F[1] = seqs[1]
                 /\ \A k \in 2 .. c : F[k] = F[k - 1] \o seqs[k]
    <3>1. Len(seqs) \in Nat /\ Len(seqs) # 0 /\ Len(seqs) = c
      BY <1>1, <1>2, <1>5
    <3>2. PICK F : /\ FlattenSeq(seqs) = F[Len(seqs)]
                   /\ F[1] = seqs[1]
                   /\ \A k \in 2 .. Len(seqs) : F[k] = F[k - 1] \o seqs[k]
      BY <3>1, FlattenUnfolds
    <3> QED BY <3>1, <3>2
  <2> DEFINE T == {m \in 0 .. c : m # 0 => Renews(cfg, old, s, m, F[m])}
  <2>2. 0 \in T
    BY <1>1
  <2>3. ASSUME NEW m \in Nat, m < c, m \in T PROVE m + 1 \in T
    <3>1. m + 1 \in 1 .. c /\ m + 1 \in DOMAIN s /\ m + 1 \in 0 .. c
      BY <1>1, <2>3
    <3>2. CASE m = 0
      <4>1. Renews(cfg, old, s, 0 + 1, <<>> \o Renew(old, s[0 + 1]))
        BY <1>3, <3>1, <3>2, RenewsStep
      <4>2. 0 + 1 = 1 /\ <<>> \o Renew(old, s[1]) = Renew(old, s[1])
        <5>1. s[1] \in Services
          BY <3>1, <3>2
        <5>2. Renew(old, s[1]) \in Seq(PlanSteps)
          BY <5>1, RenewFacts
        <5> QED BY <5>2
      <4>3. F[1] = Renew(old, s[1])
        BY <1>2, <2>1, <3>1, <3>2
      <4>4. Renews(cfg, old, s, 1, F[1])
        BY <4>1, <4>2, <4>3
      <4> QED BY <3>1, <3>2, <4>4
    <3>3. CASE m # 0
      <4>1. Renews(cfg, old, s, m, F[m])
        BY <2>3, <3>3
      <4>2. Renews(cfg, old, s, m + 1, F[m] \o Renew(old, s[m + 1]))
        BY <3>1, <4>1, RenewsStep
      <4>3. m + 1 \in 2 .. c /\ (m + 1) - 1 = m
        BY <1>1, <2>3, <3>3
      <4>4. F[m + 1] = F[m] \o Renew(old, s[m + 1])
        BY <1>2, <2>1, <3>1, <4>3
      <4>5. Renews(cfg, old, s, m + 1, F[m + 1])
        BY <4>2, <4>4
      <4> QED BY <3>1, <4>5
    <3> QED BY <3>2, <3>3
  <2>4. c \in T
    <3>1. \A m \in 0 .. c : m \in T
      <4> HIDE DEF T
      <4> QED BY <1>1, <2>2, <2>3, Upwards
    <3> QED BY <3>1, <1>1
  <2>5. Renews(cfg, old, s, c, F[c])
    BY <1>5, <2>4
  <2> QED BY <2>1, <2>5 DEF seqs, c
<1> QED BY <1>4, <1>5

\* the services that reload must start
Touched(old, new) == {n \in Enabled(new) : old[n] # new[n]}

\* what comes after the swap, with a start order
LEMMA ReloadTail ==
    ASSUME IsFiniteSet(Services), NEW old, NEW new, Acyclic(new),
           NEW s \in Ordered(new, Touched(old, new)),
           NEW t, t = FlattenSeq([i \in DOMAIN s |-> Renew(old, s[i])])
    PROVE  /\ t \in Seq(PlanSteps)
           /\ Verbs(t, {"stop", "start"})
           /\ StartsInOrder(new, t)
           /\ StartsOnce(t)
           /\ StopsBeforeStarts(t)
           /\ StoppedBefore(t, Services \ Declared(old))
           /\ \A i \in DOMAIN t : t[i].names \subseteq Touched(old, new)
           /\ \A n \in Touched(old, new) : Todo(t, "start", n)
<1> DEFINE S == Touched(old, new)
<1>1. S \in SUBSET Services /\ S \in SUBSET Declared(new)
  BY DEF Touched, Enabled, Declared
<1>2. IsFiniteSet(S)
  BY <1>1, FS_Subset
<1>3. /\ s \in Seq(S)
      /\ \A i, j \in DOMAIN s : i # j => s[i] # s[j]
      /\ \A n \in S : \E i \in DOMAIN s : s[i] = n
      /\ \A i, j \in DOMAIN s : i < j => Wave(new, s[i]) <= Wave(new, s[j])
  BY <1>2, WaveOrder
<1> HIDE DEF S
<1>4. s \in Seq(Services) /\ DOMAIN s = 1 .. Len(s) /\ Len(s) \in Nat /\ \A i \in DOMAIN s : s[i] \in S
  BY <1>1, <1>3
<1>5. ASSUME NEW i \in DOMAIN s, NEW j \in DOMAIN s, i <= j PROVE Wave(new, s[i]) <= Wave(new, s[j])
  <2>1. s[i] \in Declared(new)
    BY <1>1, <1>4
  <2>2. PICK w \in Nat : w = Wave(new, s[i])
    BY <2>1, WaveFacts, NIsNat
  <2>3. i = j \/ i < j
    BY <1>4, <1>5
  <2>4. CASE i = j
    BY <2>2, <2>4
  <2>5. CASE i < j
    BY <1>3, <2>5
  <2> QED BY <2>3, <2>4, <2>5
<1>6. Renews(new, old, s, Len(s), t)
  BY <1>3, <1>4, <1>5, RenewsAll, ZenonT(30)
<1>7. \A i \in DOMAIN t : t[i].names \subseteq S
  <2> SUFFICES ASSUME NEW i \in DOMAIN t PROVE t[i].names \subseteq S
    OBVIOUS
  <2>1. PICK x \in 1 .. Len(s) : t[i].names = {s[x]}
    BY <1>6 DEF Renews
  <2> QED BY <1>4, <2>1
<1>8. \A n \in S : Todo(t, "start", n)
  BY <1>3, <1>4, <1>6 DEF Renews
<1>9. StartsInOrder(new, t)
  <2> SUFFICES ASSUME NEW i \in DOMAIN t, NEW j \in DOMAIN t, i <= j,
                      NEW n \in t[i].names, NEW d \in t[j].names, d \in new[n].deps
               PROVE  FALSE
    BY DEF StartsInOrder, At
  <2>1. n \in Declared(new) /\ d \in Declared(new)
    BY <1>1, <1>7
  <2>2. Wave(new, n) <= Wave(new, d)
    BY <1>6 DEF Renews
  <2>3. Wave(new, d) < Wave(new, n) /\ Wave(new, n) \in 1 .. N /\ Wave(new, d) \in 1 .. N
    BY <2>1, WaveFacts
  <2>4. PICK a, b \in Nat : a = Wave(new, n) /\ b = Wave(new, d)
    BY <2>3, NIsNat
  <2> QED BY <2>2, <2>3, <2>4
<1> QED BY <1>6, <1>7, <1>8, <1>9 DEF Renews, S

\* the steps of reload's plan: stops, the swap, and the tail
LEMMA ReloadParts ==
    ASSUME IsFiniteSet(Services), NEW old, NEW new, NEW p \in Reload(old, new)
    PROVE  \E g \in SetToSeqs(Gone(old, new)) :
             \E t : /\ p = OneByOne("stop", g) \o <<Step("swap", {})>> \o t
                    /\ \/ ~Acyclic(new) /\ t = Fails
                       \/ /\ Acyclic(new)
                          /\ \E s \in Ordered(new, Touched(old, new)) :
                               t = FlattenSeq([i \in DOMAIN s |-> Renew(old, s[i])])
<1> DEFINE Tails == IF ~Acyclic(new) THEN {Fails}
                    ELSE {FlattenSeq([i \in DOMAIN s |-> Renew(old, s[i])]) : s \in Ordered(new, Touched(old, new))}
<1>1. Reload(old, new) = {OneByOne("stop", g) \o <<Step("swap", {})>> \o t :
                            g \in SetToSeqs(Gone(old, new)), t \in Tails}
  BY DEF Reload, Renew, Touched
<1>2. PICK g \in SetToSeqs(Gone(old, new)), t \in Tails :
         p = OneByOne("stop", g) \o <<Step("swap", {})>> \o t
  <2> HIDE DEF Tails
  <2> QED BY <1>1
<1>3. \/ ~Acyclic(new) /\ t = Fails
      \/ /\ Acyclic(new)
         /\ \E s \in Ordered(new, Touched(old, new)) :
              t = FlattenSeq([i \in DOMAIN s |-> Renew(old, s[i])])
  <2>1. CASE ~Acyclic(new)
    BY <2>1
  <2>2. CASE Acyclic(new)
    BY <2>2
  <2> QED BY <2>1, <2>2
<1> QED BY <1>2, <1>3
\* reload: stops what is gone before the swap, then renews what is touched,
\* in the order of the new configuration, or fails
LEMMA ReloadPlan ==
    ASSUME IsFiniteSet(Services), NEW old, NEW new, NEW p \in Reload(old, new)
    PROVE  /\ p \in Seq(PlanSteps)
           /\ Sound(new, p)
           /\ StoppedBefore(p, Services \ Declared(old))
           /\ Has(p, "swap")
           /\ \A n \in Gone(old, new) :
                \E i, j \in DOMAIN p : i < j /\ At(p, i, "stop", n) /\ p[j].verb = "swap"
           /\ \A n \in Services : Todo(p, "start", n) => n \in Enabled(new)
           /\ ~Has(p, "fail") => \A n \in Touched(old, new) : Todo(p, "start", n)
<1>1. PICK g \in SetToSeqs(Gone(old, new)) :
        \E t : /\ p = OneByOne("stop", g) \o <<Step("swap", {})>> \o t
               /\ \/ ~Acyclic(new) /\ t = Fails
                  \/ /\ Acyclic(new)
                     /\ \E s \in Ordered(new, Touched(old, new)) :
                          t = FlattenSeq([i \in DOMAIN s |-> Renew(old, s[i])])
  BY ReloadParts
<1>2. PICK t :
        /\ p = OneByOne("stop", g) \o <<Step("swap", {})>> \o t
        /\ \/ ~Acyclic(new) /\ t = Fails
           \/ /\ Acyclic(new)
              /\ \E s \in Ordered(new, Touched(old, new)) :
                   t = FlattenSeq([i \in DOMAIN s |-> Renew(old, s[i])])
  BY <1>1
\* the facts about the tail that both cases share
<1>3. /\ t \in Seq(PlanSteps)
      /\ StartsInOrder(new, t) /\ StartsOnce(t) /\ StopsBeforeStarts(t)
      /\ StoppedBefore(t, Services \ Declared(old))
      /\ \A i \in DOMAIN t : t[i].verb = "start" => t[i].names \subseteq Touched(old, new)
      /\ \A i \in DOMAIN t : t[i].verb # "swap" /\ (t[i].verb = "fail" => i = 1)
      /\ ~Has(t, "fail") => \A n \in Touched(old, new) : Todo(t, "start", n)
  <2>1. CASE ~Acyclic(new) /\ t = Fails
    <3>1. /\ t \in Seq(PlanSteps) /\ Sound(new, t) /\ StoppedBefore(t, Services \ Declared(old))
          /\ DOMAIN t = {1} /\ t[1].verb = "fail"
      BY <2>1, FailsPlan
    <3>2. Has(t, "fail") /\ \A i \in DOMAIN t : i = 1 /\ t[i].verb = "fail"
      BY <3>1 DEF Has
    <3> QED BY <3>1, <3>2 DEF Sound
  <2>2. CASE /\ Acyclic(new)
             /\ \E s \in Ordered(new, Touched(old, new)) :
                  t = FlattenSeq([i \in DOMAIN s |-> Renew(old, s[i])])
    <3>1. PICK s \in Ordered(new, Touched(old, new)) :
             t = FlattenSeq([i \in DOMAIN s |-> Renew(old, s[i])])
      BY <2>2
    <3>2. /\ t \in Seq(PlanSteps)
          /\ Verbs(t, {"stop", "start"})
          /\ StartsInOrder(new, t)
          /\ StartsOnce(t)
          /\ StopsBeforeStarts(t)
          /\ StoppedBefore(t, Services \ Declared(old))
          /\ \A i \in DOMAIN t : t[i].names \subseteq Touched(old, new)
          /\ \A n \in Touched(old, new) : Todo(t, "start", n)
      BY <2>2, <3>1, ReloadTail
    <3>3. \A i \in DOMAIN t : t[i].verb \in {"stop", "start"}
      BY <3>2 DEF Verbs
    <3> QED BY <3>2, <3>3
  <2> QED BY <1>2, <2>1, <2>2
<1> DEFINE a == OneByOne("stop", g)
           z == <<Step("swap", {})>>
           G == Len(g)
           b == a \o z
<1>4. /\ g \in Seq(Services) /\ G \in Nat /\ DOMAIN g = 1 .. G
      /\ \A n \in Gone(old, new) : \E i \in 1 .. G : g[i] = n
  <2>1. Gone(old, new) \in SUBSET Services
    BY DEF Gone, Declared
  <2>2. IsFiniteSet(Gone(old, new))
    BY <2>1, FS_Subset
  <2>3. g \in Seq(Gone(old, new)) /\ \A n \in Gone(old, new) : \E i \in DOMAIN g : g[i] = n
    BY <2>2, SetOrder
  <2>4. g \in Seq(Services)
    BY <2>1, <2>3
  <2> QED BY <2>3, <2>4
<1>5. /\ a \in Seq(PlanSteps) /\ Len(a) = G
      /\ \A i \in 1 .. G : a[i].verb = "stop" /\ a[i].names = {g[i]}
  BY <1>4, OneByOneFacts
<1>6. z \in Seq(PlanSteps) /\ Len(z) = 1 /\ z[1].verb = "swap"
  <2>1. Step("swap", {}) \in PlanSteps /\ Step("swap", {}).verb = "swap"
    BY StepType
  <2> QED BY <2>1
<1> HIDE DEF a, z
<1>7. /\ b \in Seq(PlanSteps) /\ Len(b) = G + 1
      /\ \A i \in 1 .. G : b[i] = a[i]
      /\ b[G + 1] = z[1]
  <2>1. 1 \in 1 .. Len(z)
    BY <1>6
  <2>2. /\ a \o z \in Seq(PlanSteps)
        /\ Len(a \o z) = Len(a) + Len(z)
        /\ \A i \in 1 .. Len(a) : (a \o z)[i] = a[i]
        /\ \A i \in 1 .. Len(z) : (a \o z)[Len(a) + i] = z[i]
    <3>1. a \in Seq(PlanSteps) /\ z \in Seq(PlanSteps)
      BY <1>5, <1>6
    <3> QED BY <3>1, ConcatFacts
  <2> HIDE DEF G
  <2>3. (a \o z)[Len(a) + 1] = z[1]
    BY <2>1, <2>2
  <2> QED BY <1>5, <1>6, <2>2, <2>3
<1> HIDE DEF G
<1>8. p = b \o t
  BY <1>2 DEF a, z
<1> HIDE DEF b
<1> DEFINE K == G + 1
<1>9. K \in Nat /\ Len(b) = K
  BY <1>4, <1>7
<1>10. PICK M \in Nat : M = Len(t) /\ DOMAIN t = 1 .. M
  BY <1>3
<1>11. /\ p \in Seq(PlanSteps)
       /\ DOMAIN p = 1 .. (K + M)
       /\ \A i \in 1 .. K : p[i] = b[i]
       /\ \A i \in 1 .. M : p[K + i] = t[i]
       /\ \A i \in 1 .. (K + M) :
            \/ i \in 1 .. K
            \/ i > K /\ i - K \in 1 .. M /\ p[i] = t[i - K]
  <2>1. /\ b \o t \in Seq(PlanSteps)
        /\ DOMAIN (b \o t) = 1 .. (Len(b) + Len(t))
        /\ \A i \in 1 .. Len(b) : (b \o t)[i] = b[i]
        /\ \A i \in 1 .. Len(t) : (b \o t)[Len(b) + i] = t[i]
        /\ \A i \in 1 .. (Len(b) + Len(t)) :
             \/ i \in 1 .. Len(b)
             \/ i > Len(b) /\ i - Len(b) \in 1 .. Len(t) /\ (b \o t)[i] = t[i - Len(b)]
    <3>1. b \in Seq(PlanSteps) /\ t \in Seq(PlanSteps)
      BY <1>3, <1>7
    <3> QED BY <3>1, ConcatFacts
  <2> HIDE DEF K
  <2> QED BY <1>8, <1>9, <1>10, <2>1
\* the three parts
<1>12. \A i \in 1 .. (K + M) :
         \/ i < K /\ i \in 1 .. G /\ p[i].verb = "stop" /\ p[i].names = {g[i]}
         \/ i = K /\ p[i].verb = "swap"
         \/ i > K /\ i - K \in 1 .. M /\ p[i] = t[i - K]
  <2> SUFFICES ASSUME NEW i \in 1 .. (K + M), ~(i > K)
               PROVE  \/ i < K /\ i \in 1 .. G /\ p[i].verb = "stop" /\ p[i].names = {g[i]}
                      \/ i = K /\ p[i].verb = "swap"
    BY <1>9, <1>11
  <2>1. i \in 1 .. K /\ (i = K \/ (i < K /\ i \in 1 .. G))
    BY <1>4, <1>9
  <2>2. p[i] = b[i]
    BY <1>11, <2>1
  <2> QED BY <1>5, <1>6, <1>7, <2>1, <2>2
<1>13. K \in 1 .. (K + M) /\ p[K].verb = "swap"
  BY <1>4, <1>9, <1>10, <1>12
<1>14. \A i \in 1 .. G : i \in 1 .. (K + M) /\ i < K /\ p[i].verb = "stop" /\ p[i].names = {g[i]}
  <2>1. \A i \in 1 .. G : i \in 1 .. (K + M) /\ i < K /\ ~(i = K) /\ ~(i > K)
    BY <1>4, <1>9, <1>10
  <2> QED BY <1>12, <2>1
<1>15. \A i \in 1 .. M : K + i \in 1 .. (K + M) /\ K + i > K /\ (K + i) - K = i /\ p[K + i] = t[i]
  <2>1. \A i \in 1 .. M : K + i \in 1 .. (K + M) /\ K + i > K /\ (K + i) - K = i
    BY <1>9, <1>10
  <2> QED BY <1>11, <2>1
<1> HIDE DEF K
<1>16. ASSUME NEW i \in DOMAIN p, NEW n, At(p, i, "start", n)
       PROVE  i > K /\ i - K \in DOMAIN t /\ At(t, i - K, "start", n)
  BY <1>10, <1>11, <1>12, <1>16 DEF At
<1>17. StartsInOrder(new, p)
  <2> SUFFICES ASSUME NEW i \in DOMAIN p, NEW j \in DOMAIN p, NEW n \in Services, NEW d \in Services,
                      i <= j, At(p, i, "start", n), At(p, j, "start", d)
               PROVE  d \notin new[n].deps
    BY DEF StartsInOrder
  <2>1. /\ i - K \in DOMAIN t /\ At(t, i - K, "start", n)
        /\ j - K \in DOMAIN t /\ At(t, j - K, "start", d)
    BY <1>16
  <2>2. i - K <= j - K
    BY <1>9, <1>11
  <2> QED BY <1>3, <2>1, <2>2 DEF StartsInOrder
<1>18. StartsOnce(p)
  <2> SUFFICES ASSUME NEW i \in DOMAIN p, NEW j \in DOMAIN p, NEW n \in Services,
                      At(p, i, "start", n), At(p, j, "start", n)
               PROVE  i = j
    BY DEF StartsOnce
  <2>1. /\ i - K \in DOMAIN t /\ At(t, i - K, "start", n)
        /\ j - K \in DOMAIN t /\ At(t, j - K, "start", n)
    BY <1>16
  <2>2. i - K = j - K
    BY <1>3, <2>1 DEF StartsOnce
  <2> QED BY <1>9, <1>11, <2>2
<1>19. StopsBeforeStarts(p)
  <2> SUFFICES ASSUME NEW i \in DOMAIN p, NEW j \in DOMAIN p, NEW n \in Services,
                      At(p, i, "stop", n), At(p, j, "start", n)
               PROVE  i < j
    BY DEF StopsBeforeStarts
  <2>1. j > K /\ j - K \in DOMAIN t /\ At(t, j - K, "start", n)
    BY <1>16
  <2>2. CASE i > K
    <3>1. i - K \in DOMAIN t /\ At(t, i - K, "stop", n)
      BY <1>9, <1>10, <1>11, <1>12, <2>2 DEF At
    <3>2. i - K < j - K
      BY <1>3, <2>1, <3>1 DEF StopsBeforeStarts
    <3> QED BY <1>9, <1>11, <3>2
  <2>3. CASE ~(i > K)
    BY <1>9, <1>11, <2>1, <2>3
  <2> QED BY <2>2, <2>3
<1>20. SwapFirst(p)
  <2>1. \A i \in DOMAIN p : p[i].verb = "swap" => i = K
    BY <1>3, <1>10, <1>11, <1>12
  <2>2. \A j \in DOMAIN p : p[j].verb = "start" => j > K
    BY <1>11, <1>12
  <2> QED BY <2>1, <2>2, <1>9, <1>11 DEF SwapFirst
<1>21. FailAlone(p)
  <2> SUFFICES ASSUME NEW j \in DOMAIN p, p[j].verb = "fail" PROVE p[j - 1].verb = "swap"
    BY DEF FailAlone
  <2>1. j - K \in 1 .. M /\ p[j] = t[j - K]
    BY <1>11, <1>12
  <2>2. j - K = 1
    BY <1>3, <1>10, <2>1
  <2>3. j - 1 = K
    BY <1>9, <1>11, <2>2
  <2> QED BY <1>13, <2>3
<1>22. StoppedBefore(p, Services \ Declared(old))
  <2> SUFFICES ASSUME NEW j \in DOMAIN p, NEW n \in Services, At(p, j, "start", n), n \in Declared(old)
               PROVE  \E i \in DOMAIN p : i < j /\ At(p, i, "stop", n)
    BY DEF StoppedBefore
  <2>1. j > K /\ j - K \in DOMAIN t /\ At(t, j - K, "start", n)
    BY <1>16
  <2>2. PICK i \in 1 .. M : i < j - K /\ At(t, i, "stop", n)
    BY <1>3, <1>10, <2>1 DEF StoppedBefore
  <2>3. K + i < j /\ K + i \in DOMAIN p /\ At(p, K + i, "stop", n)
    BY <1>9, <1>11, <1>15, <2>2 DEF At
  <2> QED BY <2>3
<1>23. ASSUME NEW n \in Gone(old, new)
       PROVE  \E i, j \in DOMAIN p : i < j /\ At(p, i, "stop", n) /\ p[j].verb = "swap"
  <2>1. PICK i \in 1 .. G : g[i] = n
    BY <1>4
  <2> QED BY <1>11, <1>13, <1>14, <2>1 DEF At
<1>24. ASSUME NEW n \in Services, Todo(p, "start", n) PROVE n \in Enabled(new)
  <2>1. PICK i \in DOMAIN p : At(p, i, "start", n)
    BY <1>24 DEF Todo
  <2>2. At(t, i - K, "start", n)
    BY <1>16, <2>1
  <2> QED BY <1>3, <2>2 DEF At, Touched
<1>25. ASSUME ~Has(p, "fail"), NEW n \in Touched(old, new) PROVE Todo(p, "start", n)
  <2>1. ~Has(t, "fail")
    BY <1>10, <1>11, <1>15, <1>25 DEF Has
  <2>2. PICK i \in 1 .. M : At(t, i, "start", n)
    BY <1>3, <1>10, <2>1 DEF Todo
  <2> QED BY <1>11, <1>15, <2>2 DEF Todo, At
<1>26. Has(p, "swap")
  BY <1>11, <1>13 DEF Has
<1>27. Sound(new, p)
  BY <1>17, <1>18, <1>19, <1>20, <1>21 DEF Sound
<1> QED BY <1>11, <1>22, <1>23, <1>24, <1>25, <1>26, <1>27

------------------------------------------------------------------------------
(************************** The rest of a plan ****************************)

LEMMA TailFacts ==
    ASSUME NEW p \in Seq(PlanSteps), p # <<>>
    PROVE  /\ Head(p) = p[1] /\ 1 \in DOMAIN p /\ Head(p) \in PlanSteps
           /\ Tail(p) \in Seq(PlanSteps)
           /\ \A i \in DOMAIN p : i \in Nat /\ 1 <= i
           /\ \A i \in DOMAIN Tail(p) : i \in Nat /\ i + 1 \in DOMAIN p /\ Tail(p)[i] = p[i + 1]
           /\ \A i \in DOMAIN p : i = 1 \/ (i - 1 \in DOMAIN Tail(p) /\ Tail(p)[i - 1] = p[i])
<1>1. PICK n \in Nat : n = Len(p) /\ n # 0 /\ DOMAIN p = 1 .. n
  OBVIOUS
<1>2. Tail(p) \in Seq(PlanSteps) /\ Len(Tail(p)) = n - 1 /\ \A i \in 1 .. (n - 1) : Tail(p)[i] = p[i + 1]
  BY <1>1
<1>3. DOMAIN Tail(p) = 1 .. (n - 1)
  BY <1>2
<1>4. \A i \in 1 .. (n - 1) : i \in Nat /\ i + 1 \in 1 .. n
  BY <1>1
<1>5. \A i \in 1 .. n : i = 1 \/ (i - 1 \in 1 .. (n - 1) /\ (i - 1) + 1 = i)
  BY <1>1
<1>6. Head(p) = p[1] /\ 1 \in DOMAIN p /\ p[1] \in PlanSteps
  BY <1>1
<1>7. \A i \in 1 .. n : i \in Nat /\ 1 <= i
  BY <1>1
<1> QED BY <1>1, <1>2, <1>3, <1>4, <1>5, <1>6, <1>7

LEMMA AtTail ==
    ASSUME NEW p \in Seq(PlanSteps), p # <<>>, NEW v, NEW n
    PROVE  /\ \A i : At(Tail(p), i, v, n) => i \in Nat /\ i + 1 \in DOMAIN p /\ At(p, i + 1, v, n)
           /\ \A i : At(p, i, v, n) => i = 1 \/ (i \in Nat /\ i - 1 \in DOMAIN Tail(p) /\ At(Tail(p), i - 1, v, n))
           /\ Todo(p, v, n) <=> At(p, 1, v, n) \/ Todo(Tail(p), v, n)
<1>1. \A i : At(Tail(p), i, v, n) => i \in Nat /\ i + 1 \in DOMAIN p /\ At(p, i + 1, v, n)
  BY TailFacts DEF At
<1>2. \A i : At(p, i, v, n) => i = 1 \/ (i \in Nat /\ i - 1 \in DOMAIN Tail(p) /\ At(Tail(p), i - 1, v, n))
  BY TailFacts DEF At
<1>3. Todo(Tail(p), v, n) => Todo(p, v, n)
  BY <1>1 DEF Todo
<1>4. At(p, 1, v, n) => Todo(p, v, n)
  BY DEF Todo, At
<1>5. Todo(p, v, n) => At(p, 1, v, n) \/ Todo(Tail(p), v, n)
  BY <1>2 DEF Todo
<1> QED BY <1>1, <1>2, <1>3, <1>4, <1>5

LEMMA HasTail ==
    ASSUME NEW p \in Seq(PlanSteps), p # <<>>, NEW v
    PROVE  Has(p, v) <=> p[1].verb = v \/ Has(Tail(p), v)
<1>1. Has(Tail(p), v) => Has(p, v)
  BY TailFacts DEF Has
<1>2. p[1].verb = v => Has(p, v)
  BY TailFacts DEF Has
<1>3. ASSUME Has(p, v), p[1].verb # v PROVE Has(Tail(p), v)
  <2>1. PICK i \in DOMAIN p : p[i].verb = v
    BY <1>3 DEF Has
  <2>2. i - 1 \in DOMAIN Tail(p) /\ Tail(p)[i - 1] = p[i]
    BY <1>3, <2>1, TailFacts
  <2> QED BY <2>1, <2>2 DEF Has
<1> QED BY <1>1, <1>2, <1>3

LEMMA VerbsTail ==
    ASSUME NEW p \in Seq(PlanSteps), p # <<>>, NEW V, Verbs(p, V)
    PROVE  Verbs(Tail(p), V)
  BY TailFacts DEF Verbs

LEMMA SoundTail ==
    ASSUME NEW p \in Seq(PlanSteps), p # <<>>, NEW cfg, Sound(cfg, p)
    PROVE  Sound(cfg, Tail(p))
<1> DEFINE q == Tail(p)
<1>1. \A i \in DOMAIN q : i \in Nat /\ i + 1 \in DOMAIN p /\ q[i] = p[i + 1]
  BY TailFacts
<1>2. \A i \in DOMAIN q : \A v, n : At(q, i, v, n) => At(p, i + 1, v, n)
  BY <1>1 DEF At
<1> HIDE DEF q
<1>3. StartsInOrder(cfg, q)
  <2> SUFFICES ASSUME NEW i \in DOMAIN q, NEW j \in DOMAIN q, NEW n \in Services, NEW d \in Services,
                      i <= j, At(q, i, "start", n), At(q, j, "start", d)
               PROVE  d \notin cfg[n].deps
    BY DEF StartsInOrder
  <2>1. /\ i + 1 \in DOMAIN p /\ At(p, i + 1, "start", n)
        /\ j + 1 \in DOMAIN p /\ At(p, j + 1, "start", d) /\ i + 1 <= j + 1
    BY <1>1, <1>2
  <2> QED BY <2>1 DEF Sound, StartsInOrder
<1>4. StartsOnce(q)
  <2> SUFFICES ASSUME NEW i \in DOMAIN q, NEW j \in DOMAIN q, NEW n \in Services,
                      At(q, i, "start", n), At(q, j, "start", n)
               PROVE  i = j
    BY DEF StartsOnce
  <2>1. i + 1 \in DOMAIN p /\ At(p, i + 1, "start", n) /\ j + 1 \in DOMAIN p /\ At(p, j + 1, "start", n)
    BY <1>1, <1>2
  <2>2. i + 1 = j + 1
    BY <2>1 DEF Sound, StartsOnce
  <2> QED BY <1>1, <2>2
<1>5. StopsBeforeStarts(q)
  <2> SUFFICES ASSUME NEW i \in DOMAIN q, NEW j \in DOMAIN q, NEW n \in Services,
                      At(q, i, "stop", n), At(q, j, "start", n)
               PROVE  i < j
    BY DEF StopsBeforeStarts
  <2>1. i + 1 \in DOMAIN p /\ At(p, i + 1, "stop", n) /\ j + 1 \in DOMAIN p /\ At(p, j + 1, "start", n)
    BY <1>1, <1>2
  <2>2. i + 1 < j + 1
    BY <2>1 DEF Sound, StopsBeforeStarts
  <2> QED BY <1>1, <2>2
<1>6. SwapFirst(q)
  <2> SUFFICES ASSUME NEW i \in DOMAIN q, NEW j \in DOMAIN q, q[i].verb = "swap"
               PROVE  (q[j].verb = "start" => i < j) /\ (q[j].verb = "swap" => i = j)
    BY DEF SwapFirst
  <2>1. i + 1 \in DOMAIN p /\ p[i + 1].verb = "swap" /\ j + 1 \in DOMAIN p /\ p[j + 1] = q[j]
    BY <1>1
  <2>2. (q[j].verb = "start" => i + 1 < j + 1) /\ (q[j].verb = "swap" => i + 1 = j + 1)
    BY <2>1 DEF Sound, SwapFirst
  <2> QED BY <1>1, <2>2
<1>7. FailAlone(q)
  <2> SUFFICES ASSUME NEW j \in DOMAIN q, q[j].verb = "fail", j # 1
               PROVE  q[j - 1].verb = "swap"
    BY DEF FailAlone
  <2>1. j \in Nat /\ j + 1 \in DOMAIN p /\ p[j + 1].verb = "fail" /\ j + 1 # 1 /\ (j + 1) - 1 = j
    <3>1. \A i \in DOMAIN q : 1 <= i
      BY TailFacts DEF q
    <3> QED BY <1>1, <3>1
  <2>2. p[j].verb = "swap"
    BY <2>1 DEF Sound, FailAlone
  <2>3. j - 1 \in DOMAIN q /\ q[j - 1] = p[j]
    <3>0. q \in Seq(PlanSteps)
      BY TailFacts DEF q
    <3>1. PICK m \in Nat : DOMAIN q = 1 .. m
      BY <3>0
    <3>2. j - 1 \in DOMAIN q /\ (j - 1) + 1 = j
      BY <3>1, <2>1
    <3> QED BY <1>1, <3>2
  <2> QED BY <2>2, <2>3
<1> QED BY <1>3, <1>4, <1>5, <1>6, <1>7 DEF Sound, q

\* the first step done, the rest still has its order
LEMMA DepsBeforeTail ==
    ASSUME NEW p \in Seq(PlanSteps), p # <<>>, NEW cfg, NEW Done, DepsBefore(cfg, p, Done),
           NEW More, Done \subseteq More, \A d : At(p, 1, "start", d) => d \in More
    PROVE  DepsBefore(cfg, Tail(p), More)
<1> SUFFICES ASSUME NEW j \in DOMAIN Tail(p), NEW n \in Services, At(Tail(p), j, "start", n),
                    NEW d \in cfg[n].deps, d \notin More
             PROVE  \E i \in DOMAIN Tail(p) : i < j /\ At(Tail(p), i, "start", d)
  BY DEF DepsBefore
<1>1. j \in Nat /\ j + 1 \in DOMAIN p /\ At(p, j + 1, "start", n)
  BY AtTail
<1>2. PICK i \in DOMAIN p : i < j + 1 /\ At(p, i, "start", d)
  BY <1>1 DEF DepsBefore
<1>3. i # 1
  BY <1>2
<1>4. i \in Nat /\ i - 1 \in DOMAIN Tail(p) /\ At(Tail(p), i - 1, "start", d)
  BY <1>2, <1>3, AtTail
<1>5. i - 1 < j
  BY <1>1, <1>2, <1>4
<1> QED BY <1>4, <1>5

LEMMA DependentsBeforeTail ==
    ASSUME NEW p \in Seq(PlanSteps), p # <<>>, NEW cfg, NEW Done, DependentsBefore(cfg, p, Done),
           NEW More, Done \subseteq More, \A m : At(p, 1, "stop", m) => m \in More
    PROVE  DependentsBefore(cfg, Tail(p), More)
<1> SUFFICES ASSUME NEW j \in DOMAIN Tail(p), NEW n \in Services, At(Tail(p), j, "stop", n),
                    NEW m \in Dependents(cfg, n), m \notin More
             PROVE  \E i \in DOMAIN Tail(p) : i < j /\ At(Tail(p), i, "stop", m)
  BY DEF DependentsBefore
<1>1. j \in Nat /\ j + 1 \in DOMAIN p /\ At(p, j + 1, "stop", n)
  BY AtTail
<1>2. PICK i \in DOMAIN p : i < j + 1 /\ At(p, i, "stop", m)
  BY <1>1 DEF DependentsBefore
<1>3. i # 1
  BY <1>2
<1>4. i \in Nat /\ i - 1 \in DOMAIN Tail(p) /\ At(Tail(p), i - 1, "stop", m)
  BY <1>2, <1>3, AtTail
<1>5. i - 1 < j
  BY <1>1, <1>2, <1>4
<1> QED BY <1>4, <1>5

LEMMA StoppedBeforeTail ==
    ASSUME NEW p \in Seq(PlanSteps), p # <<>>, NEW Done, StoppedBefore(p, Done),
           NEW More, Done \subseteq More, \A m : At(p, 1, "stop", m) => m \in More
    PROVE  StoppedBefore(Tail(p), More)
<1> SUFFICES ASSUME NEW j \in DOMAIN Tail(p), NEW n \in Services, At(Tail(p), j, "start", n), n \notin More
             PROVE  \E i \in DOMAIN Tail(p) : i < j /\ At(Tail(p), i, "stop", n)
  BY DEF StoppedBefore
<1>1. j \in Nat /\ j + 1 \in DOMAIN p /\ At(p, j + 1, "start", n)
  BY AtTail
<1>2. PICK i \in DOMAIN p : i < j + 1 /\ At(p, i, "stop", n)
  BY <1>1 DEF StoppedBefore
<1>3. i # 1
  BY <1>2
<1>4. i \in Nat /\ i - 1 \in DOMAIN Tail(p) /\ At(Tail(p), i - 1, "stop", n)
  BY <1>2, <1>3, AtTail
<1>5. i - 1 < j
  BY <1>1, <1>2, <1>4
<1> QED BY <1>4, <1>5

\* the first step of a plan
LEMMA FirstStep ==
    ASSUME NEW p \in Seq(PlanSteps), p # <<>>, NEW cfg, Sound(cfg, p), NEW n \in Services
    PROVE  /\ At(p, 1, "start", n) =>
                /\ ~Todo(Tail(p), "start", n) /\ ~Todo(Tail(p), "stop", n)
                /\ \A d \in Services : d \in cfg[n].deps =>
                        ~At(p, 1, "start", d) /\ ~Todo(Tail(p), "start", d)
           /\ \A Done : DepsBefore(cfg, p, Done) /\ At(p, 1, "start", n) => cfg[n].deps \subseteq Done
           /\ \A Done : DependentsBefore(cfg, p, Done) /\ At(p, 1, "stop", n) => Dependents(cfg, n) \subseteq Done
           /\ \A Done : StoppedBefore(p, Done) /\ At(p, 1, "start", n) => n \in Done
<1>0. 1 \in DOMAIN p /\ \A i \in DOMAIN p : i \in Nat /\ 1 <= i
  BY TailFacts
<1>1. \A i \in DOMAIN p : ~(i < 1)
  BY <1>0
<1>2. ASSUME At(p, 1, "start", n) PROVE ~Todo(Tail(p), "start", n)
  <2> SUFFICES ASSUME NEW i \in DOMAIN Tail(p), At(Tail(p), i, "start", n) PROVE FALSE
    BY DEF Todo
  <2>1. i \in Nat /\ i + 1 \in DOMAIN p /\ At(p, i + 1, "start", n)
    BY AtTail
  <2>2. 1 = i + 1
    BY <1>0, <1>2, <2>1 DEF Sound, StartsOnce
  <2>3. 1 <= i
    BY TailFacts
  <2> QED BY <2>1, <2>2, <2>3
<1>3. ASSUME At(p, 1, "start", n) PROVE ~Todo(Tail(p), "stop", n)
  <2> SUFFICES ASSUME NEW i \in DOMAIN Tail(p), At(Tail(p), i, "stop", n) PROVE FALSE
    BY DEF Todo
  <2>1. i \in Nat /\ i + 1 \in DOMAIN p /\ At(p, i + 1, "stop", n)
    BY AtTail
  <2>2. i + 1 < 1
    BY <1>0, <1>3, <2>1 DEF Sound, StopsBeforeStarts
  <2> QED BY <2>1, <2>2
<1>4. ASSUME At(p, 1, "start", n), NEW d \in Services, d \in cfg[n].deps
      PROVE  ~At(p, 1, "start", d) /\ ~Todo(Tail(p), "start", d)
  <2>1. ~At(p, 1, "start", d)
    BY <1>0, <1>4 DEF Sound, StartsInOrder
  <2>2. ASSUME NEW i \in DOMAIN Tail(p), At(Tail(p), i, "start", d) PROVE FALSE
    <3>1. i \in Nat /\ i + 1 \in DOMAIN p /\ At(p, i + 1, "start", d)
      BY <2>2, AtTail
    <3>2. 1 <= i + 1
      BY <3>1
    <3> QED BY <1>0, <1>4, <3>1, <3>2 DEF Sound, StartsInOrder
  <2> QED BY <2>1, <2>2 DEF Todo
<1>5. \A Done : DepsBefore(cfg, p, Done) /\ At(p, 1, "start", n) => cfg[n].deps \subseteq Done
  BY <1>0, <1>1 DEF DepsBefore
<1>6. \A Done : DependentsBefore(cfg, p, Done) /\ At(p, 1, "stop", n) => Dependents(cfg, n) \subseteq Done
  BY <1>0, <1>1 DEF DependentsBefore
<1>7. \A Done : StoppedBefore(p, Done) /\ At(p, 1, "start", n) => n \in Done
  BY <1>0, <1>1 DEF StoppedBefore
<1> QED BY <1>2, <1>3, <1>4, <1>5, <1>6, <1>7

\* a start comes after the swap, and a failing step does not follow a start
\* or a stop
LEMMA FirstSwap ==
    ASSUME NEW p \in Seq(PlanSteps), p # <<>>, NEW cfg, Sound(cfg, p)
    PROVE  /\ p[1].verb = "start" => ~Has(p, "swap")
           /\ p[1].verb = "swap" => ~Has(Tail(p), "swap")
           /\ \A j \in DOMAIN p : p[1].verb = "swap" /\ p[j].verb = "swap" => j = 1
           /\ p[1].verb # "swap" /\ Tail(p) # <<>> => Tail(p)[1].verb # "fail"
<1>0. 1 \in DOMAIN p /\ \A i \in DOMAIN p : i \in Nat /\ 1 <= i
  BY TailFacts
<1>1. p[1].verb = "start" => ~Has(p, "swap")
  <2> SUFFICES ASSUME p[1].verb = "start", NEW i \in DOMAIN p, p[i].verb = "swap" PROVE FALSE
    BY DEF Has
  <2>1. i < 1
    BY <1>0 DEF Sound, SwapFirst
  <2> QED BY <1>0, <2>1
<1>2. \A j \in DOMAIN p : p[1].verb = "swap" /\ p[j].verb = "swap" => j = 1
  BY <1>0 DEF Sound, SwapFirst
<1>3. p[1].verb = "swap" => ~Has(Tail(p), "swap")
  <2> SUFFICES ASSUME p[1].verb = "swap", NEW i \in DOMAIN Tail(p), Tail(p)[i].verb = "swap" PROVE FALSE
    BY DEF Has
  <2>1. i \in Nat /\ i + 1 \in DOMAIN p /\ p[i + 1].verb = "swap" /\ 1 <= i
    BY TailFacts
  <2>2. i + 1 = 1
    BY <1>2, <2>1
  <2> QED BY <2>1, <2>2
<1>4. ASSUME p[1].verb # "swap", Tail(p) # <<>> PROVE Tail(p)[1].verb # "fail"
  <2>1. 1 \in DOMAIN Tail(p)
    BY <1>4, TailFacts
  <2>2. 2 \in DOMAIN p /\ Tail(p)[1] = p[2]
    <3>1. 1 + 1 \in DOMAIN p /\ Tail(p)[1] = p[1 + 1] /\ 1 + 1 = 2
      BY <2>1, TailFacts
    <3> QED BY <3>1
  <2>3. 2 # 1 /\ 2 - 1 = 1
    OBVIOUS
  <2> QED BY <1>4, <2>2, <2>3 DEF Sound, FailAlone
<1> QED BY <1>1, <1>2, <1>3, <1>4

------------------------------------------------------------------------------
(******************* What a service needs, transitively *******************)

Under(cfg, n) == Reach([m \in Services |-> cfg[m].deps], {n})

LEMMA UnderFacts ==
    ASSUME IsFiniteSet(Services), NEW cfg, IsConfig(cfg), NEW n \in Services
    PROVE  /\ n \in Under(cfg, n)
           /\ Under(cfg, n) \subseteq Services
           /\ \A C \in SUBSET Services : n \in C /\ (\A m \in C : cfg[m].deps \subseteq C) => Under(cfg, n) \subseteq C
<1>1. PICK edges : edges = [m \in Services |-> cfg[m].deps]
  OBVIOUS
<1>2. \A m \in Services : edges[m] = cfg[m].deps /\ edges[m] \subseteq Services
  BY <1>1 DEF IsConfig
<1>3. {n} \in SUBSET Services
  OBVIOUS
<1>4. {n} \subseteq Reach(edges, {n}) /\ Reach(edges, {n}) \subseteq Services
  BY <1>2, <1>3, ReachClosed
<1>5. ASSUME NEW C \in SUBSET Services, n \in C, \A m \in C : cfg[m].deps \subseteq C
      PROVE  Reach(edges, {n}) \subseteq C
  <2>1. {n} \subseteq C /\ \A m \in C : edges[m] \subseteq C
    BY <1>2, <1>5
  <2> QED BY <1>2, <1>3, <2>1, ReachLeast
<1>6. Under(cfg, n) = Reach(edges, {n})
  BY <1>1 DEF Under
<1> QED BY <1>4, <1>5, <1>6

\* an enabled service needs enabled ones only
LEMMA UnderEnabled ==
    ASSUME IsFiniteSet(Services), NEW cfg, IsConfig(cfg), Valid(cfg), NEW n \in Enabled(cfg)
    PROVE  Under(cfg, n) \subseteq Enabled(cfg)
<1>1. Enabled(cfg) \in SUBSET Services /\ n \in Services
  BY DEF Enabled
<1>2. \A m \in Enabled(cfg) : cfg[m].deps \subseteq Enabled(cfg)
  BY DEF Valid
<1> QED BY <1>1, <1>2, UnderFacts

\* ... that are in earlier waves
LEMMA UnderWaves ==
    ASSUME IsFiniteSet(Services), NEW cfg, IsConfig(cfg), Acyclic(cfg), NEW n \in Declared(cfg)
    PROVE  \A d \in Under(cfg, n) : d # n => d \in Declared(cfg) /\ Wave(cfg, d) < Wave(cfg, n)
<1>1. PICK w \in Nat : w = Wave(cfg, n)
  BY WaveFacts, NIsNat
<1> DEFINE C == {n} \cup {d \in Declared(cfg) : Wave(cfg, d) < w}
<1>2. C \in SUBSET Services /\ n \in C /\ n \in Services
  BY DEF Declared
<1>3. ASSUME NEW m \in C, NEW e \in cfg[m].deps PROVE e \in C
  <2>1. m \in Declared(cfg)
    OBVIOUS
  <2>2. e \in Declared(cfg) /\ Wave(cfg, e) < Wave(cfg, m) /\ Wave(cfg, m) \in 1 .. N
    BY <1>3, <2>1, WaveFacts
  <2>3. PICK a, b \in Nat : a = Wave(cfg, e) /\ b = Wave(cfg, m)
    BY <2>2, WaveFacts, NIsNat
  <2>4. b <= w
    <3>1. CASE m = n
      BY <1>1, <2>3, <3>1
    <3>2. CASE m # n
      BY <1>3, <2>3, <3>2
    <3> QED BY <3>1, <3>2
  <2>5. a < w
    BY <2>2, <2>3, <2>4
  <2> QED BY <2>2, <2>3, <2>5
<1>4. Under(cfg, n) \subseteq C
  <2> HIDE DEF C
  <2>1. \A m \in C : cfg[m].deps \subseteq C
    BY <1>3
  <2> QED BY <1>2, <2>1, UnderFacts
<1> QED BY <1>1, <1>4

\* what needs a service that is restarted is restarted
LEMMA UnderDependents ==
    ASSUME IsFiniteSet(Services), NEW cfg, IsConfig(cfg), Valid(cfg), NEW n \in Enabled(cfg),
           NEW A \in SUBSET Services, NEW d \in Under(cfg, n), d \in WithDependents(cfg, A)
    PROVE  n \in WithDependents(cfg, A)
<1>1. PICK edges, R, W : /\ edges = [m \in Services |-> Dependents(cfg, m)]
                         /\ R = Reach(edges, A) /\ W = WithDependents(cfg, A)
  OBVIOUS
<1>2. \A m \in Services : edges[m] = Dependents(cfg, m) /\ edges[m] \subseteq Services
  BY <1>1 DEF Dependents, Declared
<1>3. R \subseteq Services /\ \A m \in R : edges[m] \subseteq R
  BY <1>1, <1>2, ReachClosed
<1>4. W = R \cap Declared(cfg)
  BY <1>1 DEF WithDependents
<1>5. \A e \in W : Dependents(cfg, e) \subseteq W
  BY <1>2, <1>3, <1>4 DEF Dependents
<1> DEFINE C == {m \in Enabled(cfg) : m \notin W}
<1>6. SUFFICES ASSUME n \notin W PROVE FALSE
  BY <1>1
<1>7. C \in SUBSET Services /\ n \in C /\ n \in Services
  BY <1>6 DEF Enabled
<1>8. ASSUME NEW m \in C, NEW e \in cfg[m].deps PROVE e \in C
  <2>1. m \in Enabled(cfg) /\ m \notin W /\ e \in Enabled(cfg)
    BY <1>8 DEF Valid
  <2>2. m \in Dependents(cfg, e)
    BY <1>8, <2>1 DEF Dependents, Declared, Enabled
  <2> QED BY <1>5, <2>1, <2>2
<1>9. Under(cfg, n) \subseteq C
  <2> HIDE DEF C
  <2>1. \A m \in C : cfg[m].deps \subseteq C
    BY <1>8
  <2> QED BY <1>7, <2>1, UnderFacts
<1> QED BY <1>1, <1>9

\* starts in p are in the order of the waves
WaveByWave(cfg, p) ==
    \A i, j \in DOMAIN p : \A n, d \in Services :
        i <= j /\ At(p, i, "start", n) /\ At(p, j, "start", d) =>
            n \in Declared(cfg) /\ d \in Declared(cfg) /\ Wave(cfg, n) <= Wave(cfg, d)

\* start_all starts everything that is enabled
LEMMA StartAllShape ==
    ASSUME IsFiniteSet(Services), NEW cfg, NEW p \in StartAll(cfg), Acyclic(cfg)
    PROVE  /\ Verbs(p, {"start"}) /\ StartsOnce(p)
           /\ WaveByWave(cfg, p)
           /\ \A n \in Enabled(cfg) : Todo(p, "start", n)
<1>0. N \in Nat
  BY NIsNat
<1> DEFINE S(k) == Waves(cfg)[k] \cap Enabled(cfg)
<1>1. DOMAIN Waves(cfg) = 1 .. N
  BY DEF Waves, N
<1>2. p = [k \in 1 .. N |-> Step("start", S(k))]
  BY <1>1 DEF StartAll
<1>3. \A k \in 1 .. N : S(k) \in SUBSET Services /\ S(k) \subseteq Declared(cfg)
  BY DEF Enabled, Declared
<1>4. \A n \in Enabled(cfg) : n \in Declared(cfg) /\ n \in Services
  BY DEF Enabled, Declared
<1>5. \A k \in 1 .. N : \A n \in S(k) : n \in Waves(cfg)[k] /\ n \in Enabled(cfg)
  OBVIOUS
<1>6. ASSUME NEW n \in Enabled(cfg) PROVE Wave(cfg, n) \in 1 .. N /\ n \in S(Wave(cfg, n))
  BY <1>4, WaveFacts
<1> HIDE DEF S
<1>7. \A k \in 1 .. N : Step("start", S(k)).verb = "start" /\ Step("start", S(k)).names = S(k)
  BY <1>3, StepType
<1>8. DOMAIN p = 1 .. N /\ \A k \in 1 .. N : p[k].verb = "start" /\ p[k].names = S(k)
  BY <1>2, <1>7
<1> HIDE <1>2
<1>9. ASSUME NEW k \in 1 .. N, NEW n \in S(k) PROVE n \in Declared(cfg) /\ k = Wave(cfg, n)
  <2>1. n \in Declared(cfg) /\ n \in Waves(cfg)[k]
    BY <1>4, <1>5
  <2> QED BY <2>1, WaveFacts
<1>10. StartsOnce(p) /\ WaveByWave(cfg, p)
  BY <1>8, <1>9 DEF StartsOnce, WaveByWave, At
<1>11. \A n \in Enabled(cfg) : Todo(p, "start", n)
  BY <1>6, <1>8 DEF Todo, At
<1> QED BY <1>8, <1>10, <1>11 DEF Verbs

StopsFirst(p) ==
    \A i, j \in DOMAIN p : p[i].verb = "stop" /\ p[j].verb = "start" => i < j

StopsSingly(p) ==
    \A i \in DOMAIN p : p[i].verb = "stop" => \E m \in Services : p[i].names = {m}

\* restart_service stops, one by one, all it starts, and the dependents
LEMMA RestartShape ==
    ASSUME IsFiniteSet(Services), NEW cfg, NEW n0 \in Services, NEW p \in Restart(cfg, n0), Acyclic(cfg)
    PROVE  /\ Verbs(p, {"stop", "start"})
           /\ WaveByWave(cfg, p) /\ StopsFirst(p) /\ StopsSingly(p)
           /\ \A n : Todo(p, "start", n) => n \in WithDependents(cfg, {n0})
           /\ \A n : n \in WithDependents(cfg, {n0}) => Todo(p, "stop", n)
<1>1. PICK W : W = WithDependents(cfg, {n0})
  OBVIOUS
<1>2. PICK s \in DependentsOrder(cfg, {n0}) : p = OneByOne("stop", s) \o OneByOne("start", Reverse(s))
  BY DEF Restart
<1>3. PICK a, b, t : a = OneByOne("stop", s) /\ t = Reverse(s) /\ b = OneByOne("start", t)
  OBVIOUS
<1>4. s \in Seq(Services) /\ a \in Seq(PlanSteps) /\ W \in SUBSET Declared(cfg) /\ t \in Ordered(cfg, W)
  <2>1. {n0} \in SUBSET Services
    OBVIOUS
  <2> QED BY <1>1, <1>3, <2>1, DependentsOrderPlan
<1>5. W \in SUBSET Services /\ IsFiniteSet(W)
  <2>1. W \in SUBSET Services
    BY <1>4 DEF Declared
  <2> QED BY <2>1, FS_Subset
<1>6. /\ t \in Seq(W) /\ \A n \in W : \E i \in DOMAIN t : t[i] = n
      /\ \A i, j \in DOMAIN t : i < j => Wave(cfg, t[i]) <= Wave(cfg, t[j])
  BY <1>4, <1>5, WaveOrder
<1>7. \A i \in DOMAIN t : t[i] \in W
  BY <1>6
<1>8. PICK L \in Nat : L = Len(s) /\ DOMAIN s = 1 .. L
  BY <1>4
<1>9. DOMAIN t = 1 .. L /\ t \in Seq(Services) /\ Len(t) = L
      /\ \A i \in 1 .. L : (L - i) + 1 \in 1 .. L /\ t[i] = s[(L - i) + 1]
  BY <1>3, <1>4, <1>8, ReverseFacts
<1>10. DOMAIN a = 1 .. L /\ Len(a) = L /\ \A i \in 1 .. L : a[i].verb = "stop" /\ a[i].names = {s[i]} /\ s[i] \in Services
  BY <1>3, <1>4, <1>8, OneByOneFacts
<1>11. b \in Seq(PlanSteps) /\ Len(b) = L /\ \A i \in 1 .. L : b[i].verb = "start" /\ b[i].names = {t[i]}
  BY <1>3, <1>9, OneByOneFacts
<1>12. /\ DOMAIN p = 1 .. (L + L)
       /\ \A i \in 1 .. L : p[i] = a[i]
       /\ \A i \in 1 .. (L + L) : \/ i \in 1 .. L
                                  \/ i > L /\ i - L \in 1 .. L /\ p[i] = b[i - L]
  <2>1. p = a \o b
    BY <1>2, <1>3
  <2>2. /\ DOMAIN (a \o b) = 1 .. (Len(a) + Len(b))
        /\ \A i \in 1 .. Len(a) : (a \o b)[i] = a[i]
        /\ \A i \in 1 .. (Len(a) + Len(b)) :
              \/ i \in 1 .. Len(a)
              \/ i > Len(a) /\ i - Len(a) \in 1 .. Len(b) /\ (a \o b)[i] = b[i - Len(a)]
    <3>1. a \in Seq(PlanSteps) /\ b \in Seq(PlanSteps)
      BY <1>4, <1>11
    <3> QED BY <3>1, ConcatFacts
  <2> QED BY <1>10, <1>11, <2>1, <2>2
<1>13. \A i \in 1 .. (L + L) :
            \/ i \in 1 .. L /\ p[i].verb = "stop" /\ p[i].names = {s[i]} /\ s[i] \in Services
            \/ i > L /\ i - L \in 1 .. L /\ p[i].verb = "start" /\ p[i].names = {t[i - L]}
  BY <1>10, <1>11, <1>12
<1>14. Verbs(p, {"stop", "start"}) /\ StopsFirst(p)
  BY <1>12, <1>13 DEF Verbs, StopsFirst
<1>15. StopsSingly(p)
  BY <1>12, <1>13 DEF StopsSingly
<1>16. WaveByWave(cfg, p)
  <2> SUFFICES ASSUME NEW i \in 1 .. (L + L), NEW j \in 1 .. (L + L), NEW n \in Services, NEW d \in Services,
                      i <= j, At(p, i, "start", n), At(p, j, "start", d)
               PROVE  n \in Declared(cfg) /\ d \in Declared(cfg) /\ Wave(cfg, n) <= Wave(cfg, d)
    BY <1>12 DEF WaveByWave
  <2>1. PICK x, y \in 1 .. L : x <= y /\ n = t[x] /\ d = t[y]
    <3>1. i - L \in 1 .. L /\ n = t[i - L] /\ j - L \in 1 .. L /\ d = t[j - L]
      BY <1>13 DEF At
    <3>2. i - L <= j - L
      OBVIOUS
    <3> QED BY <3>1, <3>2
  <2>2. n \in Declared(cfg) /\ d \in Declared(cfg)
    BY <1>4, <1>7, <1>9, <2>1
  <2>3. PICK w \in Nat : w = Wave(cfg, n)
    BY <2>2, WaveFacts, NIsNat
  <2>4. CASE x = y
    <3>1. n = d /\ Wave(cfg, n) = Wave(cfg, d)
      BY <2>1, <2>4
    <3> QED BY <2>2, <2>3, <3>1
  <2>5. CASE x < y
    BY <1>6, <1>9, <2>1, <2>2, <2>5
  <2> QED BY <2>1, <2>4, <2>5
<1>17. ASSUME NEW n, Todo(p, "start", n) PROVE n \in W
  <2>1. PICK i \in 1 .. (L + L) : At(p, i, "start", n)
    BY <1>12, <1>17 DEF Todo
  <2>2. i - L \in 1 .. L /\ n = t[i - L]
    BY <1>13, <2>1 DEF At
  <2> QED BY <1>7, <1>9, <2>2
<1>18. ASSUME NEW n \in W PROVE Todo(p, "stop", n)
  <2>1. PICK x \in 1 .. L : t[x] = n
    BY <1>6, <1>9
  <2>2. PICK i \in 1 .. L : i = (L - x) + 1 /\ n = s[i]
    BY <1>9, <2>1
  <2>3. i \in 1 .. (L + L)
    OBVIOUS
  <2>4. p[i].verb = "stop" /\ n \in p[i].names
    BY <1>10, <1>12, <2>2
  <2> QED BY <1>12, <2>3, <2>4 DEF Todo, At
<1> QED BY <1>1, <1>14, <1>15, <1>16, <1>17, <1>18
=============================================================================
