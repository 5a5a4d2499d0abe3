----------------------------- MODULE LogProofs -----------------------------
(***************************************************************************)
(* Proofs about the log aggregator: no viewer is shown a line twice or out *)
(* of order, the ring buffer holds what the recorder took, and the log     *)
(* file holds what its writer took, over every rotation.                   *)
(***************************************************************************)
EXTENDS LogAggregator, SequenceTheorems, FiniteSetTheorems, WellFoundedInduction, TLAPS

Lines == [id : Nat, svc : Services]

\* the lines of s come in the order in which they were produced
Rising(s) == \A i, j \in 1 .. Len(s) : i < j => s[i].id < s[j].id

\* every nonempty set of natural numbers has a least element
LEMMA NatMin ==
    ASSUME NEW T \in SUBSET Nat, T # {}
    PROVE  \E x \in T : \A y \in T : x <= y
<1> DEFINE R == {ss \in Nat \X Nat : ss[1] < ss[2]}
<1>1. IsWellFoundedOn(R, Nat)
  BY NatLessThanWellFounded, Zenon DEF OpToRel
<1> HIDE DEF R
<1>2. PICK x \in T : \A y \in T : ~(<<y, x>> \in R)
  BY <1>1, WFMin
<1>3. \A y \in T : ~(y < x)
  BY <1>2 DEF R
<1> QED BY <1>3

\* induction, for a set of natural numbers up to n
LEMMA Upwards ==
    ASSUME NEW n \in Nat, NEW T, 0 \in T,
           \A m \in Nat : m < n /\ m \in T => m + 1 \in T
    PROVE  \A m \in 0 .. n : m \in T
<1> DEFINE Bad == {m \in 0 .. n : m \notin T}
<1> SUFFICES ASSUME Bad # {} PROVE FALSE
  OBVIOUS
<1>0. Bad \in SUBSET Nat
  OBVIOUS
<1>1. PICK m \in Bad : \A y \in Bad : m <= y
  <2> HIDE DEF Bad
  <2> QED BY <1>0, NatMin
<1>2. m # 0 /\ m - 1 \in Nat /\ m - 1 < n /\ ~(m <= m - 1) /\ (m - 1) + 1 = m
  OBVIOUS
<1>3. m - 1 \in T
  BY <1>1, <1>2
<1> QED BY <1>2, <1>3

\* one step of the filter
Filtered(F, s, filter, k) ==
    IF k = 0 THEN <<>>
    ELSE IF s[k].svc \in filter THEN Append(F[k - 1], s[k]) ELSE F[k - 1]

\* the filter of the first n lines exists, for every n
LEMMA FilterExists ==
    ASSUME NEW s, NEW filter, NEW n \in Nat
    PROVE  \E F : F = [k \in 0 .. n |-> Filtered(F, s, filter, k)]
<1> DEFINE Good(m) == \E F : F = [k \in 0 .. m |-> Filtered(F, s, filter, k)]
           T == {m \in Nat : Good(m)}
<1>1. Good(0)
  <2> DEFINE F == [k \in 0 .. 0 |-> <<>>]
  <2>1. F = [k \in 0 .. 0 |-> Filtered(F, s, filter, k)]
    BY DEF Filtered
  <2> QED BY <2>1
<1>2. ASSUME NEW m \in Nat, Good(m) PROVE Good(m + 1)
  <2>1. PICK F : F = [k \in 0 .. m |-> Filtered(F, s, filter, k)]
    BY <1>2
  <2> DEFINE G == [k \in 0 .. (m + 1) |-> IF k <= m THEN F[k] ELSE Filtered(F, s, filter, m + 1)]
  <2>2. \A k \in 0 .. m : G[k] = F[k] /\ F[k] = Filtered(F, s, filter, k)
    BY <2>1
  <2>3. G[m + 1] = Filtered(F, s, filter, m + 1)
    OBVIOUS
  <2>4. G = [k \in 0 .. (m + 1) |-> G[k]]
    OBVIOUS
  <2> HIDE DEF G
  <2>5. ASSUME NEW k \in 0 .. (m + 1) PROVE G[k] = Filtered(G, s, filter, k)
    <3>1. CASE k = 0
      <4>1. G[0] = Filtered(F, s, filter, 0)
        BY <2>2
      <4>2. Filtered(F, s, filter, 0) = <<>> /\ Filtered(G, s, filter, 0) = <<>>
        BY DEF Filtered
      <4> QED BY <3>1, <4>1, <4>2
    <3>2. CASE k # 0
      <4>1. k - 1 \in 0 .. m /\ (k \in 0 .. m \/ k = m + 1)
        BY <3>2
      <4>2. G[k - 1] = F[k - 1]
        BY <2>2, <4>1
      <4>3. Filtered(G, s, filter, k) = Filtered(F, s, filter, k)
        BY <3>2, <4>2 DEF Filtered
      <4>4. G[k] = Filtered(F, s, filter, k)
        BY <2>2, <2>3, <4>1
      <4> QED BY <4>3, <4>4
    <3> QED BY <3>1, <3>2
  <2>6. G = [k \in 0 .. (m + 1) |-> Filtered(G, s, filter, k)]
    BY <2>4, <2>5
  <2> QED BY <2>6
<1> HIDE DEF Good
<1>3. \A m \in 0 .. n : m \in T
  <2>1. 0 \in T
    BY <1>1
  <2>2. \A m \in Nat : m < n /\ m \in T => m + 1 \in T
    BY <1>2
  <2> HIDE DEF T
  <2> QED BY <2>1, <2>2, Upwards
<1>4. Good(n)
  BY <1>3
<1> QED BY <1>4 DEF Good

\* ... and FilterUpTo is that function
LEMMA FilterUnfolds ==
    ASSUME NEW s, Len(s) \in Nat, NEW filter
    PROVE  \A k \in 0 .. Len(s) :
              FilterUpTo(s, filter)[k] = Filtered(FilterUpTo(s, filter), s, filter, k)
<1>1. \E F : F = [k \in 0 .. Len(s) |-> Filtered(F, s, filter, k)]
  BY FilterExists
<1>2. FilterUpTo(s, filter) = CHOOSE F : F = [k \in 0 .. Len(s) |-> Filtered(F, s, filter, k)]
  BY DEF FilterUpTo, Filtered
<1>3. FilterUpTo(s, filter) = [k \in 0 .. Len(s) |-> Filtered(FilterUpTo(s, filter), s, filter, k)]
  BY <1>1, <1>2
<1> QED BY <1>3

\* what every partial result of the filter is
Picked(r, s, k) ==
    /\ r \in Seq(Lines)
    /\ \A i \in 1 .. Len(r) : \E j \in 1 .. k : r[i] = s[j]
    /\ Rising(s) => Rising(r)

\* Of keeps lines of s, and keeps them in order
LEMMA FilterFacts ==
    ASSUME NEW s \in Seq(Lines), NEW filter
    PROVE  Picked(Of(s, filter), s, Len(s))
<1> DEFINE F == FilterUpTo(s, filter)
           T == {k \in 0 .. Len(s) : Picked(F[k], s, k)}
<1>0. Len(s) \in Nat /\ \A k \in 1 .. Len(s) : s[k] \in Lines
  OBVIOUS
<1>1. \A k \in 0 .. Len(s) : F[k] = Filtered(F, s, filter, k)
  BY <1>0, FilterUnfolds
<1> HIDE DEF F
<1>2. 0 \in T
  <2>1. F[0] = <<>>
    BY <1>0, <1>1 DEF Filtered
  <2>2. Picked(<<>>, s, 0)
    <3>1. <<>> \in Seq(Lines) /\ 1 .. Len(<<>>) = {}
      OBVIOUS
    <3> QED BY <3>1 DEF Picked, Rising
  <2> QED BY <1>0, <2>1, <2>2
<1>3. ASSUME NEW m \in Nat, m < Len(s), m \in T PROVE m + 1 \in T
  <2>1. PICK r \in Seq(Lines) : r = F[m]
    BY <1>3 DEF Picked
  <2>2. PICK l \in Lines : l = s[m + 1]
    BY <1>0, <1>3
  <2>3. Picked(r, s, m)
    BY <1>3, <2>1
  <2>4. m + 1 \in 0 .. Len(s) /\ m + 1 # 0 /\ (m + 1) - 1 = m
    BY <1>0, <1>3
  <2>5. F[m + 1] = IF l.svc \in filter THEN Append(r, l) ELSE r
    BY <1>1, <2>1, <2>2, <2>4 DEF Filtered
  <2>6. Picked(r, s, m + 1)
    BY <2>3, <2>4, <1>0 DEF Picked
  <2>7. Picked(Append(r, l), s, m + 1)
    <3>1. Append(r, l) \in Seq(Lines) /\ Len(Append(r, l)) = Len(r) + 1
          /\ Append(r, l)[Len(r) + 1] = l /\ \A i \in 1 .. Len(r) : Append(r, l)[i] = r[i]
      OBVIOUS
    <3> DEFINE q == Append(r, l)
    <3> HIDE DEF q
    <3>2. PICK n \in Nat : n = Len(r)
      OBVIOUS
    <3>3. q \in Seq(Lines) /\ Len(q) = n + 1 /\ q[n + 1] = l /\ \A i \in 1 .. n : q[i] = r[i]
      BY <3>1, <3>2 DEF q
    <3>4. \A i \in 1 .. (n + 1) : \E j \in 1 .. (m + 1) : q[i] = s[j]
      BY <2>2, <2>6, <3>2, <3>3, SMTT(30) DEF Picked
    <3>5. ASSUME Rising(s) PROVE Rising(q)
      <4>1. SUFFICES ASSUME NEW i \in 1 .. (n + 1), NEW j \in 1 .. (n + 1), i < j
                     PROVE  q[i].id < q[j].id
        BY <3>3 DEF Rising
      <4>2. CASE j \in 1 .. n
        BY <2>3, <3>2, <3>3, <3>5, <4>1, <4>2, SMTT(30) DEF Picked, Rising
      <4>3. CASE j = n + 1
        <5>1. i \in 1 .. n /\ q[i] = r[i] /\ q[j] = s[m + 1]
          BY <2>2, <3>3, <4>1, <4>3
        <5>2. PICK x \in 1 .. m : r[i] = s[x]
          BY <2>3, <3>2, <5>1 DEF Picked
        <5>3. x \in 1 .. Len(s) /\ m + 1 \in 1 .. Len(s) /\ x < m + 1
          BY <1>0, <1>3
        <5>4. s[x].id < s[m + 1].id
          BY <3>5, <5>3 DEF Rising
        <5> QED BY <5>1, <5>2, <5>4
      <4> QED BY <4>2, <4>3
    <3>6. Picked(q, s, m + 1)
      BY <3>3, <3>4, <3>5 DEF Picked
    <3> QED BY <3>6 DEF q
  <2> QED BY <2>4, <2>5, <2>6, <2>7
<1>4. \A m \in 0 .. Len(s) : m \in T
  <2> HIDE DEF T
  <2> QED BY <1>0, <1>2, <1>3, Upwards
<1> QED BY <1>0, <1>4 DEF Of, F

------------------------------------------------------------------------------
(***************************************************************************)
(* The inductive invariant.  Taken is the number of lines that the         *)
(* recorder has put into the ring buffer, or skipped.                      *)
(***************************************************************************)
Taken == recorder.next - 1 - Len(recorder.held)

Viewers == [pc : {"gone", "replayed", "live"}, kind : {"client", "print_loop"},
            filter : SUBSET Services, next : Nat, shown : Seq(Lines)]

LogType ==
    /\ runtime \in {"local", "k8s"}
    /\ made \in Nat
    /\ sent \in Seq(Lines)
    /\ history \in Seq(Lines)
    /\ pushing \in SUBSET Lines
    /\ recorder \in [next : Nat, held : Seq(Lines), lagged : BOOLEAN]
    /\ viewer \in [Readers -> Viewers]

\* the recorder holds the line before the one it reads next, or none
RecorderInv ==
    /\ Len(history) <= HistoryCap
    /\ recorder.next >= 1
    /\ recorder.next <= Len(sent) + 1
    /\ \/ recorder.held = <<>>
       \/ recorder.next >= 2 /\ recorder.held = <<sent[recorder.next - 1]>>

\* local runtime: the identity of a line is its place in the channel, and the
\* ring buffer holds lines that were taken, in their order
LocalInv ==
    runtime = "local" =>
        /\ made = Len(sent)
        /\ pushing = {}
        /\ \A i \in 1 .. Len(sent) : sent[i].id = i
        /\ Rising(history)
        /\ \A i \in 1 .. Len(history) : history[i].id <= Taken
        /\ ~recorder.lagged =>
              /\ Len(history) = IF Taken <= HistoryCap THEN Taken ELSE HistoryCap
              /\ \A i \in 1 .. Len(history) : history[i] = sent[Taken - Len(history) + i]

\* local runtime: what a viewer was shown lies before what it will receive
ViewerInv ==
    runtime = "local" =>
        \A v \in Readers :
            /\ Rising(viewer[v].shown)
            /\ \A i \in 1 .. Len(viewer[v].shown) : viewer[v].shown[i].id <= Len(sent)
            /\ viewer[v].pc = "live" =>
                  /\ viewer[v].next <= Len(sent) + 1
                  /\ \A i \in 1 .. Len(viewer[v].shown) : viewer[v].shown[i].id < viewer[v].next

Recorded(l) == \E m \in 1 .. Len(sent) : m <= Taken /\ sent[m] = l

\* every runtime: a line is sent once, and a line that is in the ring buffer
\* twice was stored by push and by the recorder, which takes it once
CopiesInv ==
    /\ \A i \in 1 .. Len(sent) : sent[i].id <= made /\ sent[i] \notin pushing
    /\ \A l \in pushing : l.id <= made
    /\ \A i, j \in 1 .. Len(sent) : i # j => sent[i] # sent[j]
    /\ \A i \in 1 .. Len(history) : history[i].id <= made
    /\ \A i, j \in 1 .. Len(history) : i < j /\ history[i] = history[j] => Recorded(history[i])
    /\ \A i, j, k \in 1 .. Len(history) :
          i < j /\ j < k /\ history[i] = history[j] => history[i] # history[k]

LogInv == LogType /\ RecorderInv /\ LocalInv /\ ViewerInv /\ CopiesInv

------------------------------------------------------------------------------
\* what the last n elements of a sequence are
LEMMA LastOfFacts ==
    ASSUME NEW S, NEW s \in Seq(S), NEW n \in Nat
    PROVE  LET r == LastOf(s, n) IN
           /\ r \in Seq(S)
           /\ Len(r) = IF Len(s) <= n THEN Len(s) ELSE n
           /\ \A i \in 1 .. Len(r) : r[i] = s[Len(s) - Len(r) + i]
<1>1. CASE Len(s) <= n
  BY <1>1 DEF LastOf
<1>2. CASE ~(Len(s) <= n)
  <2>1. PICK k \in Nat : k = Len(s)
    OBVIOUS
  <2>2. PICK r : r = SubSeq(s, k - n + 1, k)
    OBVIOUS
  <2>3. LastOf(s, n) = r
    BY <1>2, <2>1, <2>2 DEF LastOf
  <2>4. k - n + 1 \in 1 .. k + 1 /\ n < k /\ k - (k - n + 1) + 1 = n
    BY <1>2, <2>1
  <2>5. r \in Seq(S) /\ Len(r) = n /\ \A i \in 1 .. n : r[i] = s[k - n + i]
    BY <2>1, <2>2, <2>4
  <2> QED BY <1>2, <2>1, <2>3, <2>5
<1> QED BY <1>1, <1>2

\* the last n lines of lines in order are in order, and are among them
LEMMA LastOfRising ==
    ASSUME NEW s \in Seq(Lines), NEW n \in Nat
    PROVE  /\ LastOf(s, n) \in Seq(Lines)
           /\ Rising(s) => Rising(LastOf(s, n))
           /\ \A i \in 1 .. Len(LastOf(s, n)) : \E j \in 1 .. Len(s) : LastOf(s, n)[i] = s[j]
<1>1. PICK r : r = LastOf(s, n)
  OBVIOUS
<1>2. PICK k \in Nat : k = Len(s)
  OBVIOUS
<1>0. /\ r \in Seq(Lines)
      /\ Len(r) = IF Len(s) <= n THEN Len(s) ELSE n
      /\ \A i \in 1 .. Len(r) : r[i] = s[Len(s) - Len(r) + i]
  BY <1>1, LastOfFacts, Zenon
<1>3. r \in Seq(Lines) /\ Len(r) \in Nat /\ Len(r) <= k
      /\ \A i \in 1 .. Len(r) : r[i] = s[k - Len(r) + i]
  <2>1. PICK m \in Nat : m = Len(r)
    BY <1>0
  <2>2. m = IF k <= n THEN k ELSE n
    BY <1>0, <1>2, <2>1
  <2>3. m <= k
    BY <2>2
  <2>4. \A i \in 1 .. m : r[i] = s[k - m + i]
    BY <1>0, <1>2, <2>1, Zenon
  <2> QED BY <1>0, <2>1, <2>3, <2>4
<1>4. PICK d \in Nat : d = k - Len(r)
  BY <1>3
<1>5. \A i \in 1 .. Len(r) : d + i \in 1 .. k /\ r[i] = s[d + i]
  BY <1>3, <1>4
<1>6. Rising(s) => Rising(r)
  BY <1>2, <1>5 DEF Rising
<1> QED BY <1>1, <1>2, <1>3, <1>5, <1>6

\* r is h with x stored at its end and d lines dropped at its front
Stored(r, h, x, d) ==
    /\ r \in Seq(Lines)
    /\ Len(r) = Len(h) + 1 - d
    /\ r[Len(r)] = x
    /\ \A i \in 1 .. Len(r) - 1 : r[i] = h[i + d]

\* storing a line in the ring buffer
LEMMA StoreFacts ==
    ASSUME NEW h \in Seq(Lines), NEW x \in Lines, NEW cap \in Nat \ {0}, Len(h) <= cap
    PROVE  /\ Append(h, x) = h \o <<x>>
           /\ Stored(LastOf(h \o <<x>>, cap), h, x, IF Len(h) < cap THEN 0 ELSE 1)
<1>1. PICK q : q = h \o <<x>>
  OBVIOUS
<1>2. PICK k \in Nat : k = Len(h)
  OBVIOUS
<1>3. q \in Seq(Lines) /\ Len(q) = k + 1 /\ q[k + 1] = x /\ \A i \in 1 .. k : q[i] = h[i]
  BY <1>1, <1>2
<1>4. Append(h, x) = q
  BY <1>1
<1>5. PICK r : r = LastOf(q, cap)
  OBVIOUS
<1>0. cap \in Nat
  OBVIOUS
<1>6. /\ r \in Seq(Lines)
      /\ Len(r) = IF k + 1 <= cap THEN k + 1 ELSE cap
      /\ \A i \in 1 .. Len(r) : r[i] = q[k + 1 - Len(r) + i]
  <2>1. /\ r \in Seq(Lines)
        /\ Len(r) = IF Len(q) <= cap THEN Len(q) ELSE cap
        /\ \A i \in 1 .. Len(r) : r[i] = q[Len(q) - Len(r) + i]
    <3>1. q \in Seq(Lines)
      BY <1>3
    <3> QED BY <1>0, <1>5, <3>1, LastOfFacts, ZenonT(30)
  <2> QED BY <1>3, <2>1
<1>7. CASE k < cap
  <2>1. Len(r) = k + 1 /\ \A i \in 1 .. k + 1 : r[i] = q[i]
    BY <1>6, <1>7
  <2>2. Stored(r, h, x, 0)
    BY <1>2, <1>3, <1>6, <2>1 DEF Stored
  <2> QED BY <1>1, <1>2, <1>4, <1>5, <1>7, <2>2
<1>8. CASE k = cap
  <2>1. Len(r) = k /\ \A i \in 1 .. k : r[i] = q[i + 1]
    BY <1>6, <1>8
  <2>2. r[k] = x /\ \A i \in 1 .. k - 1 : r[i] = h[i + 1]
    BY <1>3, <1>8, <2>1
  <2>3. Stored(r, h, x, 1)
    BY <1>2, <1>6, <2>1, <2>2 DEF Stored
  <2> QED BY <1>1, <1>2, <1>4, <1>5, <1>8, <2>3
<1> QED BY <1>2, <1>7, <1>8

------------------------------------------------------------------------------
\* the lines of a sequence of lines
LEMMA LineFacts ==
    ASSUME NEW s \in Seq(Lines)
    PROVE  \A i \in 1 .. Len(s) : s[i] \in Lines /\ s[i].id \in Nat
<1>1. \A i \in 1 .. Len(s) : s[i] \in Lines
  OBVIOUS
<1>2. \A l \in Lines : l.id \in Nat
  BY DEF Lines
<1> QED BY <1>1, <1>2

\* the numbers that the provers compute with
LEMMA Numbers ==
    ASSUME LogType, RecorderInv
    PROVE  /\ Len(sent) \in Nat /\ Len(history) \in Nat /\ made \in Nat
           /\ recorder.next \in Nat /\ Len(recorder.held) \in {0, 1}
           /\ Taken \in Nat /\ Taken <= Len(sent)
           /\ recorder.held = <<>> => Taken = recorder.next - 1
           /\ recorder.held # <<>> => /\ Taken = recorder.next - 2
                                      /\ recorder.held = <<sent[recorder.next - 1]>>
                                      /\ Len(recorder.held) = 1
                                      /\ recorder.next - 1 \in 1 .. Len(sent)
                                      /\ recorder.next - 1 = Taken + 1
<1>1. /\ Len(sent) \in Nat /\ Len(history) \in Nat /\ made \in Nat /\ recorder.next \in Nat
      /\ recorder.next >= 1 /\ recorder.next <= Len(sent) + 1
  BY DEF LogType, RecorderInv
<1>2. CASE recorder.held = <<>>
  <2>1. Len(recorder.held) = 0
    BY <1>2
  <2> QED BY <1>1, <1>2, <2>1 DEF Taken
<1>3. CASE recorder.held # <<>>
  <2>1. recorder.next >= 2 /\ recorder.held = <<sent[recorder.next - 1]>>
    BY <1>3 DEF RecorderInv
  <2>2. Len(recorder.held) = 1
    BY <2>1
  <2> QED BY <1>1, <1>3, <2>1, <2>2 DEF Taken
<1> QED BY <1>2, <1>3

\* a line that is not among those sent is sent: what was stored and shown stays
LEMMA Sending ==
    ASSUME LogInv, NEW l \in Lines, sent' = Append(sent, l),
           UNCHANGED <<runtime, history, recorder, viewer>>,
           made' \in Nat, made <= made', pushing' \in SUBSET Lines, l.id <= made', l \notin pushing',
           \A i \in 1 .. Len(sent) : sent[i] # l /\ sent[i] \notin pushing',
           \A k \in pushing' : k.id <= made'
    PROVE  /\ LogType' /\ RecorderInv' /\ ViewerInv' /\ CopiesInv'
           /\ Len(sent') = Len(sent) + 1
           /\ sent'[Len(sent) + 1] = l
           /\ \A i \in 1 .. Len(sent) : sent'[i] = sent[i]
           /\ Taken' = Taken
<1> USE DEF LogInv
<1>1. sent \in Seq(Lines)
  BY DEF LogType
<1>2. PICK n \in Nat : n = Len(sent)
  BY <1>1
<1>3. /\ sent' \in Seq(Lines) /\ Len(sent') = n + 1 /\ sent'[n + 1] = l
      /\ \A i \in 1 .. n : sent'[i] = sent[i]
  BY <1>1, <1>2
<1>4. LogType'
  BY <1>3 DEF LogType
<1>5. RecorderInv'
  <2>1. recorder.next \in Nat
    BY DEF LogType
  <2>2. recorder.next <= n + 1
    BY <1>2 DEF RecorderInv
  <2>3. recorder.next >= 2 => sent'[recorder.next - 1] = sent[recorder.next - 1]
    BY <1>3, <2>1, <2>2
  <2>4. recorder.next' <= Len(sent') + 1
    BY <1>3, <2>1, <2>2
  <2> QED BY <2>3, <2>4 DEF RecorderInv
<1>6. ViewerInv'
  <2>1. SUFFICES ASSUME runtime = "local", NEW v \in Readers
                 PROVE  /\ Rising(viewer[v].shown)
                        /\ \A i \in 1 .. Len(viewer[v].shown) : viewer[v].shown[i].id <= n + 1
                        /\ viewer[v].pc = "live" =>
                              /\ viewer[v].next <= (n + 1) + 1
                              /\ \A i \in 1 .. Len(viewer[v].shown) :
                                    viewer[v].shown[i].id < viewer[v].next
    BY <1>3 DEF ViewerInv
  <2>2. /\ Rising(viewer[v].shown)
        /\ \A i \in 1 .. Len(viewer[v].shown) : viewer[v].shown[i].id <= n
        /\ viewer[v].pc = "live" =>
              /\ viewer[v].next <= n + 1
              /\ \A i \in 1 .. Len(viewer[v].shown) : viewer[v].shown[i].id < viewer[v].next
    BY <1>2, <2>1 DEF ViewerInv
  <2>3. viewer[v].next \in Nat /\ viewer[v].shown \in Seq(Lines)
    BY DEF LogType, Viewers
  <2>4. \A i \in 1 .. Len(viewer[v].shown) : viewer[v].shown[i].id \in Nat
    BY <2>3, LineFacts
  <2> QED BY <2>2, <2>3, <2>4
<1>7. Taken' = Taken
  BY DEF Taken
<1>8. ASSUME NEW x, Recorded(x) PROVE \E m \in 1 .. Len(sent') : m <= Taken' /\ sent'[m] = x
  <2>1. PICK m \in 1 .. n : m <= Taken /\ sent[m] = x
    BY <1>2, <1>8 DEF Recorded
  <2>2. m \in 1 .. Len(sent') /\ sent'[m] = x /\ m <= Taken'
    BY <1>3, <1>7, <2>1
  <2> QED BY <2>2
<1>9. CopiesInv'
  <2>1. \A i \in 1 .. Len(sent') : sent'[i].id <= made' /\ sent'[i] \notin pushing'
    <3>1. ASSUME NEW i \in 1 .. n PROVE sent'[i].id <= made' /\ sent'[i] \notin pushing'
      <4>1. sent'[i] = sent[i] /\ sent[i] \notin pushing' /\ sent[i].id <= made /\ sent[i].id \in Nat
        BY <1>1, <1>2, <1>3, LineFacts DEF CopiesInv
      <4> QED BY <4>1 DEF LogType
    <3> QED BY <1>3, <3>1
  <2>2. \A i, j \in 1 .. Len(sent') : i # j => sent'[i] # sent'[j]
    <3>1. \A i, j \in 1 .. n : i # j => sent[i] # sent[j]
      BY <1>2 DEF CopiesInv
    <3>2. \A i \in 1 .. n : sent[i] # l
      BY <1>2
    <3> QED BY <1>3, <3>1, <3>2
  <2>3. \A i \in 1 .. Len(history') : history'[i].id <= made'
    <3>1. \A i \in 1 .. Len(history) : history[i].id <= made /\ history[i].id \in Nat
      BY LineFacts DEF CopiesInv, LogType
    <3>2. made \in Nat
      BY DEF LogType
    <3> QED BY <3>1, <3>2
  <2>4. ASSUME NEW i \in 1 .. Len(history'), NEW j \in 1 .. Len(history'),
               i < j, history'[i] = history'[j]
        PROVE  Recorded(history[i])'
    <3>1. Recorded(history[i])
      BY <2>4 DEF CopiesInv
    <3>2. PICK x : x = history[i]
      OBVIOUS
    <3>3. \E m \in 1 .. Len(sent') : m <= Taken' /\ sent'[m] = x
      BY <1>8, <3>1, <3>2
    <3> QED BY <3>2, <3>3 DEF Recorded
  <2>5. \A i, j, k \in 1 .. Len(history') :
            i < j /\ j < k /\ history'[i] = history'[j] => history'[i] # history'[k]
    BY DEF CopiesInv
  <2> QED BY <2>1, <2>2, <2>3, <2>4, <2>5 DEF CopiesInv
<1> QED BY <1>2, <1>3, <1>4, <1>5, <1>6, <1>7, <1>9

\* the line that a service writes next
LEMMA NewLine ==
    ASSUME LogType, NEW s \in Services
    PROVE  [id |-> made + 1, svc |-> s] \in Lines
<1>1. made + 1 \in Nat
  BY DEF LogType
<1> QED BY <1>1 DEF Lines

LEMMA EmitStep ==
    ASSUME LogInv, NEW s \in Services, Emit(s)
    PROVE  LogInv'
<1>1. PICK l \in Lines : l = [id |-> made + 1, svc |-> s]
  BY NewLine DEF LogInv
<1>2. /\ runtime = "local" /\ made' = made + 1 /\ sent' = Append(sent, l)
      /\ UNCHANGED <<runtime, history, recorder, viewer, pushing>>
  BY <1>1 DEF Emit
<1>3. made \in Nat /\ l.id = made + 1 /\ sent \in Seq(Lines)
  BY <1>1 DEF LogInv, LogType
<1>4. pushing = {} /\ made = Len(sent)
  BY <1>2 DEF LogInv, LocalInv
<1>5. \A i \in 1 .. Len(sent) : sent[i] # l
  BY <1>3 DEF LogInv, CopiesInv
<1>6. /\ LogType' /\ RecorderInv' /\ ViewerInv' /\ CopiesInv'
      /\ Len(sent') = Len(sent) + 1
      /\ sent'[Len(sent) + 1] = l
      /\ \A i \in 1 .. Len(sent) : sent'[i] = sent[i]
      /\ Taken' = Taken
  <2>1. made' \in Nat /\ made <= made' /\ l.id <= made' /\ pushing' = {}
    BY <1>2, <1>3, <1>4
  <2> QED BY <1>2, <1>5, <2>1, Sending
<1>7. LocalInv'
  <2>1. \A i \in 1 .. Len(sent') : sent'[i].id = i
    <3>1. \A i \in 1 .. Len(sent) : sent[i].id = i
      BY <1>2 DEF LogInv, LocalInv
    <3> QED BY <1>3, <1>4, <1>6, <3>1
  <2>2. Taken \in Nat /\ Taken <= Len(sent) /\ Len(history) \in Nat /\ Len(sent) \in Nat
    BY Numbers DEF LogInv
  <2>3. ASSUME ~recorder.lagged
        PROVE  /\ Len(history) = IF Taken <= HistoryCap THEN Taken ELSE HistoryCap
               /\ \A i \in 1 .. Len(history) : history[i] = sent'[Taken - Len(history) + i]
    <3>1. /\ Len(history) = IF Taken <= HistoryCap THEN Taken ELSE HistoryCap
          /\ \A i \in 1 .. Len(history) : history[i] = sent[Taken - Len(history) + i]
      BY <1>2, <2>3 DEF LogInv, LocalInv
    <3>2. HistoryCap \in Nat
      BY LogAssumption
    <3>3. Len(history) <= Taken
      BY <2>2, <3>1, <3>2
    <3>4. \A i \in 1 .. Len(history) : Taken - Len(history) + i \in 1 .. Len(sent)
      BY <2>2, <3>3
    <3> QED BY <1>6, <3>1, <3>4
  <2>4. Rising(history) /\ \A i \in 1 .. Len(history) : history[i].id <= Taken
    BY <1>2 DEF LogInv, LocalInv
  <2>5. made' = Len(sent') /\ pushing' = {}
    BY <1>2, <1>4, <1>6
  <2> QED BY <1>2, <1>6, <2>1, <2>3, <2>4, <2>5 DEF LocalInv
<1> QED BY <1>6, <1>7 DEF LogInv

LEMMA PushSendStep ==
    ASSUME LogInv, NEW l \in pushing, PushSend(l)
    PROVE  LogInv'
<1>1. /\ l \in Lines /\ pushing' = pushing \ {l} /\ sent' = Append(sent, l)
      /\ UNCHANGED <<runtime, made, history, recorder, viewer>>
  BY DEF PushSend, LogInv, LogType
<1>2. made \in Nat /\ made <= made' /\ pushing' \in SUBSET Lines /\ l.id <= made'
  BY <1>1 DEF LogInv, LogType, CopiesInv
<1>3. \A i \in 1 .. Len(sent) : sent[i] # l /\ sent[i] \notin pushing'
  BY <1>1 DEF LogInv, CopiesInv
<1>4. \A k \in pushing' : k.id <= made'
  BY <1>1 DEF LogInv, CopiesInv
<1>5. LogType' /\ RecorderInv' /\ ViewerInv' /\ CopiesInv'
  BY <1>1, <1>2, <1>3, <1>4, Sending
<1>6. runtime # "local"
  BY DEF LogInv, LocalInv
<1> QED BY <1>1, <1>5, <1>6 DEF LogInv, LocalInv

\* a line is stored in the ring buffer, one that is there already only if the
\* recorder takes it now
LEMMA Storing ==
    ASSUME LogInv, NEW x \in Lines, history' = LastOf(history \o <<x>>, HistoryCap),
           made' \in Nat, made <= made', x.id <= made',
           \A y : Recorded(y) => \E m \in 1 .. Len(sent') : m <= Taken' /\ sent'[m] = y,
           \A i \in 1 .. Len(history) :
              history[i] = x => /\ ~Recorded(x)
                                /\ \E m \in 1 .. Len(sent') : m <= Taken' /\ sent'[m] = x
    PROVE  /\ Stored(history', history, x, IF Len(history) < HistoryCap THEN 0 ELSE 1)
           /\ Len(history') \in Nat /\ Len(history') <= HistoryCap
           /\ \A i \in 1 .. Len(history') : history'[i].id <= made'
           /\ \A i, j \in 1 .. Len(history') :
                 i < j /\ history'[i] = history'[j]
                 => \E m \in 1 .. Len(sent') : m <= Taken' /\ sent'[m] = history'[i]
           /\ \A i, j, k \in 1 .. Len(history') :
                 i < j /\ j < k /\ history'[i] = history'[j] => history'[i] # history'[k]
<1>1. HistoryCap \in Nat \ {0} /\ history \in Seq(Lines) /\ Len(history) <= HistoryCap
  BY LogAssumption DEF LogInv, LogType, RecorderInv
<1>2. PICK d \in Nat : d = IF Len(history) < HistoryCap THEN 0 ELSE 1
  OBVIOUS
<1>3. Stored(history', history, x, d)
  BY <1>1, <1>2, StoreFacts
<1>4. PICK n \in Nat : n = Len(history)
  BY <1>1
<1>5. PICK p \in Nat : p = n + 1 - d
  <2>1. d = 0 \/ d = 1
    BY <1>2
  <2> QED BY <2>1
<1>6. p <= HistoryCap
  BY <1>1, <1>2, <1>4, <1>5
<1>7. /\ history' \in Seq(Lines) /\ Len(history') = p
      /\ p \in 1 .. p => history'[p] = x
      /\ \A i \in 1 .. p - 1 : history'[i] = history[i + d] /\ i + d \in 1 .. n
  <2>1. /\ history' \in Seq(Lines) /\ Len(history') = p /\ history'[p] = x
        /\ \A i \in 1 .. p - 1 : history'[i] = history[i + d]
    BY <1>3, <1>4, <1>5 DEF Stored
  <2>2. \A i \in 1 .. p - 1 : i + d \in 1 .. n
    BY <1>5
  <2> QED BY <2>1, <2>2
<1>8. /\ \A i \in 1 .. n : history[i].id <= made /\ history[i].id \in Nat
      /\ \A i, j \in 1 .. n : i < j /\ history[i] = history[j] => Recorded(history[i])
      /\ \A i, j, k \in 1 .. n :
            i < j /\ j < k /\ history[i] = history[j] => history[i] # history[k]
  BY <1>1, <1>4, LineFacts DEF LogInv, CopiesInv
<1>20. ASSUME NEW i \in 1 .. p, i # p
       PROVE  i \in 1 .. p - 1 /\ history'[i] = history[i + d] /\ i + d \in 1 .. n
  <2>1. i \in 1 .. p - 1
    BY <1>20
  <2> QED BY <1>7, <2>1
<1>9. made \in Nat /\ x.id \in Nat
  BY DEF LogInv, LogType, Lines
<1>10. ASSUME NEW i \in 1 .. p PROVE history'[i].id <= made'
  <2>1. CASE i = p
    BY <1>7, <2>1
  <2>2. CASE i # p
    <3>1. history'[i] = history[i + d] /\ history[i + d].id <= made /\ history[i + d].id \in Nat
      BY <1>8, <1>20, <2>2
    <3> QED BY <1>9, <3>1
  <2> QED BY <2>1, <2>2
<1>11. ASSUME NEW i \in 1 .. p, NEW j \in 1 .. p, i < j, history'[i] = history'[j]
       PROVE  \E m \in 1 .. Len(sent') : m <= Taken' /\ sent'[m] = history'[i]
  <2>1. i \in 1 .. p - 1 /\ history'[i] = history[i + d] /\ i + d \in 1 .. n
    <3>1. i # p
      BY <1>11
    <3> QED BY <1>20, <3>1
  <2>2. CASE j = p
    <3>1. history[i + d] = x
      BY <1>7, <1>11, <2>1, <2>2
    <3>2. \E m \in 1 .. Len(sent') : m <= Taken' /\ sent'[m] = x
      BY <1>4, <2>1, <3>1
    <3> QED BY <2>1, <3>1, <3>2
  <2>3. CASE j # p
    <3>0. i + d < j + d
      BY <1>11
    <3>1. history'[j] = history[j + d] /\ j + d \in 1 .. n /\ i + d < j + d
      BY <1>20, <2>3, <3>0
    <3>2. Recorded(history[i + d])
      BY <1>8, <1>11, <2>1, <3>1
    <3> QED BY <2>1, <3>2
  <2> QED BY <2>2, <2>3
<1>12. ASSUME NEW i \in 1 .. p, NEW j \in 1 .. p, NEW k \in 1 .. p,
              i < j, j < k, history'[i] = history'[j], history'[i] = history'[k]
       PROVE  FALSE
  <2>1. /\ i \in 1 .. p - 1 /\ history'[i] = history[i + d] /\ i + d \in 1 .. n
        /\ j \in 1 .. p - 1 /\ history'[j] = history[j + d] /\ j + d \in 1 .. n
        /\ i + d < j + d
    <3>1. i # p /\ j # p /\ i + d < j + d
      BY <1>12
    <3> QED BY <1>20, <3>1
  <2>2. CASE k = p
    <3>1. history[i + d] = x
      BY <1>7, <1>12, <2>1, <2>2
    <3>2. Recorded(x)
      BY <1>8, <1>12, <2>1, <3>1
    <3> QED BY <1>4, <2>1, <3>1, <3>2
  <2>3. CASE k # p
    <3>0. j + d < k + d
      BY <1>12
    <3>1. history'[k] = history[k + d] /\ k + d \in 1 .. n /\ j + d < k + d
      BY <1>20, <2>3, <3>0
    <3> QED BY <1>8, <1>12, <2>1, <3>1
  <2> QED BY <2>2, <2>3
<1> QED BY <1>2, <1>3, <1>6, <1>7, <1>10, <1>11, <1>12

LEMMA PushStoreStep ==
    ASSUME LogInv, NEW s \in Services, PushStore(s)
    PROVE  LogInv'
<1>1. PICK l \in Lines : l = [id |-> made + 1, svc |-> s]
  BY NewLine DEF LogInv
<1>2. /\ runtime # "local" /\ made' = made + 1 /\ pushing' = pushing \cup {l}
      /\ history' = LastOf(Append(history, l), HistoryCap)
      /\ UNCHANGED <<runtime, sent, recorder, viewer>>
  BY <1>1 DEF PushStore
<1>3. made \in Nat /\ l.id = made + 1 /\ history \in Seq(Lines) /\ sent \in Seq(Lines)
  BY <1>1 DEF LogInv, LogType
<1>4. history' = LastOf(history \o <<l>>, HistoryCap)
  <2>1. Append(history, l) = history \o <<l>>
    BY <1>3, AppendIsConcat
  <2> QED BY <1>2, <2>1
<1>5. \A i \in 1 .. Len(history) : history[i] # l
  BY <1>3 DEF LogInv, CopiesInv
<1>6. Taken' = Taken
  BY <1>2 DEF Taken
<1>7. \A y : Recorded(y) => \E m \in 1 .. Len(sent') : m <= Taken' /\ sent'[m] = y
  BY <1>2, <1>6 DEF Recorded
<1>8. /\ Stored(history', history, l, IF Len(history) < HistoryCap THEN 0 ELSE 1)
      /\ Len(history') \in Nat /\ Len(history') <= HistoryCap
      /\ \A i \in 1 .. Len(history') : history'[i].id <= made'
      /\ \A i, j \in 1 .. Len(history') :
            i < j /\ history'[i] = history'[j]
            => \E m \in 1 .. Len(sent') : m <= Taken' /\ sent'[m] = history'[i]
      /\ \A i, j, k \in 1 .. Len(history') :
            i < j /\ j < k /\ history'[i] = history'[j] => history'[i] # history'[k]
  <2>1. made' \in Nat /\ made <= made' /\ l.id <= made'
    BY <1>2, <1>3
  <2> QED BY <1>4, <1>5, <1>7, <2>1, Storing
<1>9. LogType'
  BY <1>2, <1>3, <1>8 DEF LogInv, LogType, Stored
<1>10. RecorderInv'
  BY <1>2, <1>8 DEF LogInv, RecorderInv
<1>11. LocalInv' /\ ViewerInv'
  BY <1>2 DEF LocalInv, ViewerInv
<1>12. CopiesInv'
  <2>1. \A i \in 1 .. Len(sent) : sent[i].id <= made' /\ sent[i] \notin pushing'
    <3>1. \A i \in 1 .. Len(sent) : sent[i].id <= made /\ sent[i] \notin pushing /\ sent[i].id \in Nat
      BY <1>3, LineFacts DEF LogInv, CopiesInv
    <3>2. \A i \in 1 .. Len(sent) : sent[i] # l
      BY <1>3, <3>1
    <3> QED BY <1>2, <1>3, <3>1, <3>2
  <2>2. \A k \in pushing' : k.id <= made'
    <3>1. \A k \in pushing : k.id <= made /\ k.id \in Nat
      BY DEF LogInv, CopiesInv, LogType, Lines
    <3> QED BY <1>2, <1>3, <3>1
  <2>3. \A i, j \in 1 .. Len(sent) : i # j => sent[i] # sent[j]
    BY DEF LogInv, CopiesInv
  <2> QED BY <1>2, <1>8, <2>1, <2>2, <2>3 DEF CopiesInv, Recorded
<1> QED BY <1>9, <1>10, <1>11, <1>12 DEF LogInv

\* a receiver that is behind skips to a line that is there
LEMMA OldestFacts ==
    ASSUME sent \in Seq(Lines)
    PROVE  /\ Oldest \in Nat /\ Oldest >= 1 /\ Oldest <= Len(sent) + 1
           /\ \A p \in Nat : Receives(p) => p \in 1 .. Len(sent)
<1>1. ChanCap \in Nat /\ ChanCap >= 1 /\ Len(sent) \in Nat
  BY LogAssumption
<1>2. Oldest \in Nat /\ Oldest >= 1 /\ Oldest <= Len(sent) + 1
  <2>1. CASE Len(sent) > ChanCap
    BY <1>1, <2>1 DEF Oldest
  <2>2. CASE ~(Len(sent) > ChanCap)
    BY <1>1, <2>2 DEF Oldest
  <2> QED BY <2>1, <2>2
<1> QED BY <1>1, <1>2 DEF Receives

\* the recorder takes a line from the channel
LEMMA RecorderRecvStep ==
    ASSUME LogInv, RecorderRecv
    PROVE  LogInv'
<1>1. /\ recorder.held = <<>> /\ Receives(recorder.next)
      /\ recorder' = [recorder EXCEPT !.held = <<sent[recorder.next]>>, !.next = @ + 1]
      /\ UNCHANGED <<runtime, made, sent, history, pushing, viewer>>
  BY DEF RecorderRecv
<1>2. /\ recorder \in [next : Nat, held : Seq(Lines), lagged : BOOLEAN] /\ sent \in Seq(Lines)
      /\ recorder.next \in 1 .. Len(sent)
  BY <1>1, OldestFacts DEF LogInv, LogType
<1>3. PICK n \in Nat : n = recorder.next
  BY <1>2
<1>4. PICK l \in Lines : l = sent[n]
  BY <1>2, <1>3
<1>5. recorder'.next = n + 1 /\ recorder'.held = <<l>> /\ recorder'.lagged = recorder.lagged
  BY <1>1, <1>2, <1>3, <1>4
<1>6. recorder' \in [next : Nat, held : Seq(Lines), lagged : BOOLEAN]
  <2>1. <<l>> \in Seq(Lines) /\ n + 1 \in Nat
    OBVIOUS
  <2> QED BY <1>1, <1>2, <1>3, <1>4, <2>1
<1>7. LogType'
  BY <1>1, <1>6 DEF LogInv, LogType
<1>8. RecorderInv'
  <2>1. n + 1 >= 2 /\ n + 1 <= Len(sent) + 1 /\ (n + 1) - 1 = n /\ n + 1 >= 1
    BY <1>2, <1>3
  <2> QED BY <1>1, <1>4, <1>5, <2>1 DEF LogInv, RecorderInv
<1>9. Taken' = Taken
  <2>1. Taken = n - 1
    BY <1>1, <1>3, Numbers DEF LogInv
  <2>2. Taken' = (n + 1) - 1 - 1
    BY <1>5 DEF Taken
  <2> QED BY <2>1, <2>2
<1>10. LocalInv'
  BY <1>1, <1>5, <1>9 DEF LogInv, LocalInv
<1>11. ViewerInv'
  BY <1>1 DEF LogInv, ViewerInv
<1>12. CopiesInv'
  BY <1>1, <1>9 DEF LogInv, CopiesInv, Recorded
<1> QED BY <1>7, <1>8, <1>10, <1>11, <1>12 DEF LogInv

\* the recorder skips the lines that the channel has forgotten
LEMMA RecorderLaggedStep ==
    ASSUME LogInv, RecorderLagged
    PROVE  LogInv'
<1>1. /\ recorder.held = <<>> /\ Lags(recorder.next)
      /\ recorder' = [recorder EXCEPT !.next = Oldest, !.lagged = TRUE]
      /\ UNCHANGED <<runtime, made, sent, history, pushing, viewer>>
  BY DEF RecorderLagged
<1>2. /\ recorder \in [next : Nat, held : Seq(Lines), lagged : BOOLEAN] /\ sent \in Seq(Lines)
      /\ history \in Seq(Lines)
  BY DEF LogInv, LogType
<1>3. PICK n \in Nat : n = Oldest
  BY <1>2, OldestFacts
<1>4. n >= 1 /\ n <= Len(sent) + 1 /\ recorder.next < n
  BY <1>1, <1>2, <1>3, OldestFacts DEF Lags
<1>5. recorder'.next = n /\ recorder'.held = <<>> /\ recorder'.lagged = TRUE
  BY <1>1, <1>2, <1>3
<1>6. LogType'
  BY <1>1, <1>2, <1>3 DEF LogInv, LogType
<1>7. RecorderInv'
  BY <1>1, <1>4, <1>5 DEF LogInv, RecorderInv
<1>8. Taken \in Nat /\ Taken' \in Nat /\ Taken <= Taken'
  <2>1. Taken = recorder.next - 1 /\ Taken \in Nat
    BY <1>1, Numbers DEF LogInv
  <2>2. Taken' = n - 1
    <3>1. Len(recorder'.held) = 0
      BY <1>5
    <3> QED BY <1>5, <3>1 DEF Taken
  <2> QED BY <1>2, <1>4, <2>1, <2>2
<1>9. LocalInv'
  <2>1. SUFFICES ASSUME runtime = "local"
                 PROVE  \A i \in 1 .. Len(history) : history[i].id <= Taken'
    BY <1>1, <1>5 DEF LogInv, LocalInv
  <2>2. \A i \in 1 .. Len(history) : history[i].id <= Taken /\ history[i].id \in Nat
    BY <1>2, <2>1, LineFacts DEF LogInv, LocalInv
  <2> QED BY <1>8, <2>2
<1>10. ViewerInv'
  BY <1>1 DEF LogInv, ViewerInv
<1>11. CopiesInv'
  <2>1. \A m \in 1 .. Len(sent) : m <= Taken => m <= Taken'
    BY <1>8
  <2> QED BY <1>1, <2>1 DEF LogInv, CopiesInv, Recorded
<1> QED BY <1>6, <1>7, <1>9, <1>10, <1>11 DEF LogInv

\* the recorder stores the line that it holds
LEMMA RecorderStoreStep ==
    ASSUME LogInv, RecorderStore
    PROVE  LogInv'
<1>1. /\ recorder.held # <<>>
      /\ history' = LastOf(history \o recorder.held, HistoryCap)
      /\ recorder' = [recorder EXCEPT !.held = <<>>]
      /\ UNCHANGED <<runtime, made, sent, pushing, viewer>>
  BY DEF RecorderStore
<1>2. /\ recorder \in [next : Nat, held : Seq(Lines), lagged : BOOLEAN] /\ sent \in Seq(Lines)
      /\ history \in Seq(Lines) /\ made \in Nat
  BY DEF LogInv, LogType
<1>3. PICK t \in Nat : t = Taken
  BY Numbers DEF LogInv
<1>4. /\ recorder.next = t + 2 /\ recorder.held = <<sent[t + 1]>> /\ t + 1 \in 1 .. Len(sent)
      /\ Len(sent) \in Nat
  BY <1>1, <1>3, Numbers DEF LogInv
<1>5. PICK x \in Lines : x = sent[t + 1]
  BY <1>2, <1>4
<1>6. recorder'.next = t + 2 /\ recorder'.held = <<>> /\ recorder'.lagged = recorder.lagged
  BY <1>1, <1>2, <1>4
<1>7. Taken' = t + 1
  <2>1. Len(recorder'.held) = 0
    BY <1>6
  <2> QED BY <1>6, <2>1 DEF Taken
<1>8. \A y : Recorded(y) => \E m \in 1 .. Len(sent') : m <= Taken' /\ sent'[m] = y
  <2>1. \A m \in 1 .. Len(sent) : m <= t => m <= t + 1
    OBVIOUS
  <2> QED BY <1>1, <1>3, <1>7, <2>1 DEF Recorded
<1>9. ~Recorded(x) /\ \E m \in 1 .. Len(sent') : m <= Taken' /\ sent'[m] = x
  <2>1. \A i, j \in 1 .. Len(sent) : i # j => sent[i] # sent[j]
    BY DEF LogInv, CopiesInv
  <2>2. \A m \in 1 .. Len(sent) : m <= t => m # t + 1
    OBVIOUS
  <2>3. ~Recorded(x)
    BY <1>3, <1>4, <1>5, <2>1, <2>2 DEF Recorded
  <2>4. t + 1 <= Taken'
    BY <1>7
  <2> QED BY <1>1, <1>4, <1>5, <2>3, <2>4
<1>10. history' = LastOf(history \o <<x>>, HistoryCap)
  BY <1>1, <1>4, <1>5
<1>11. /\ Stored(history', history, x, IF Len(history) < HistoryCap THEN 0 ELSE 1)
       /\ Len(history') \in Nat /\ Len(history') <= HistoryCap
       /\ \A i \in 1 .. Len(history') : history'[i].id <= made'
       /\ \A i, j \in 1 .. Len(history') :
             i < j /\ history'[i] = history'[j]
             => \E m \in 1 .. Len(sent') : m <= Taken' /\ sent'[m] = history'[i]
       /\ \A i, j, k \in 1 .. Len(history') :
             i < j /\ j < k /\ history'[i] = history'[j] => history'[i] # history'[k]
  <2>1. made' \in Nat /\ made <= made' /\ x.id <= made'
    <3>1. x.id <= made
      BY <1>4, <1>5 DEF LogInv, CopiesInv
    <3> QED BY <1>1, <1>2, <3>1
  <2> QED BY <1>8, <1>9, <1>10, <2>1, Storing
<1>12. LogType'
  <2>1. recorder' \in [next : Nat, held : Seq(Lines), lagged : BOOLEAN]
    <3>1. <<>> \in Seq(Lines)
      OBVIOUS
    <3>2. PICK e \in Seq(Lines) : e = <<>>
      BY <3>1
    <3>3. recorder' = [recorder EXCEPT !.held = e]
      BY <1>1, <3>2
    <3> QED BY <1>2, <3>3
  <2>2. history' \in Seq(Lines)
    BY <1>11 DEF Stored
  <2> QED BY <1>1, <2>1, <2>2 DEF LogInv, LogType
<1>13. RecorderInv'
  <2>1. t + 2 >= 1 /\ t + 2 <= Len(sent) + 1
    BY <1>4
  <2> QED BY <1>1, <1>6, <1>11, <2>1 DEF RecorderInv
<1>14. LocalInv'
  <2>1. SUFFICES ASSUME runtime = "local"
                 PROVE  /\ Rising(history')
                        /\ \A i \in 1 .. Len(history') : history'[i].id <= Taken'
                        /\ ~recorder.lagged =>
                              /\ Len(history') = IF Taken' <= HistoryCap THEN Taken' ELSE HistoryCap
                              /\ \A i \in 1 .. Len(history') :
                                    history'[i] = sent[Taken' - Len(history') + i]
    BY <1>1, <1>6 DEF LogInv, LocalInv
  <2>2. PICK d \in Nat : d = IF Len(history) < HistoryCap THEN 0 ELSE 1
    OBVIOUS
  <2>3. PICK n \in Nat : n = Len(history)
    BY <1>2
  <2>4. d = 0 \/ d = 1
    BY <2>2
  <2>5. PICK p \in Nat : p = n + 1 - d
    BY <2>4
  <2>6. HistoryCap \in Nat /\ HistoryCap # 0 /\ n <= HistoryCap
    BY <2>3, LogAssumption DEF LogInv, RecorderInv
  <2>7. p >= 1
    BY <2>2, <2>3, <2>5, <2>6
  <2>8. /\ Len(history') = p /\ history'[p] = x
        /\ \A i \in 1 .. p - 1 : history'[i] = history[i + d]
    BY <1>11, <2>2, <2>3, <2>5 DEF Stored
  <2>9. ASSUME NEW i \in 1 .. p, i # p
        PROVE  i + d \in 1 .. n /\ history'[i] = history[i + d]
    <3>1. i \in 1 .. p - 1
      BY <2>9
    <3> QED BY <2>5, <2>8, <3>1
  <2>10. \A i \in 1 .. n : history[i].id <= t /\ history[i].id \in Nat
    BY <1>2, <1>3, <2>1, <2>3, LineFacts DEF LogInv, LocalInv
  <2>11. x.id = t + 1
    BY <1>4, <1>5, <2>1 DEF LogInv, LocalInv
  <2>12. Rising(history')
    <3>1. SUFFICES ASSUME NEW i \in 1 .. p, NEW j \in 1 .. p, i < j
                   PROVE  history'[i].id < history'[j].id
      BY <2>8 DEF Rising
    <3>2. i # p
      BY <3>1
    <3>3. i + d \in 1 .. n /\ history'[i] = history[i + d]
      BY <2>9, <3>2
    <3>4. CASE j = p
      BY <2>8, <2>10, <2>11, <3>3, <3>4
    <3>5. CASE j # p
      <4>1. j + d \in 1 .. n /\ history'[j] = history[j + d]
        BY <2>9, <3>5
      <4>2. i + d < j + d
        BY <3>1
      <4>3. Rising(history)
        BY <2>1 DEF LogInv, LocalInv
      <4>4. history[i + d].id < history[j + d].id
        BY <2>3, <3>3, <4>1, <4>2, <4>3 DEF Rising
      <4> QED BY <3>3, <4>1, <4>4
    <3> QED BY <3>4, <3>5
  <2>13. ASSUME NEW i \in 1 .. p PROVE history'[i].id <= Taken'
    <3>1. CASE i = p
      BY <1>7, <2>8, <2>11, <3>1
    <3>2. CASE i # p
      <4>1. history'[i] = history[i + d] /\ history[i + d].id <= t /\ history[i + d].id \in Nat
        BY <2>9, <2>10, <3>2
      <4> QED BY <1>7, <4>1
    <3> QED BY <3>1, <3>2
  <2>14. ASSUME ~recorder.lagged
         PROVE  /\ p = IF t + 1 <= HistoryCap THEN t + 1 ELSE HistoryCap
                /\ \A i \in 1 .. p : history'[i] = sent[t + 1 - p + i]
    <3>1. /\ n = IF t <= HistoryCap THEN t ELSE HistoryCap
          /\ \A i \in 1 .. n : history[i] = sent[t - n + i]
      BY <1>3, <2>1, <2>3, <2>14 DEF LogInv, LocalInv
    <3>2. d = IF n < HistoryCap THEN 0 ELSE 1
      BY <2>2, <2>3
    <3>3. p = IF t + 1 <= HistoryCap THEN t + 1 ELSE HistoryCap
      BY <2>5, <2>6, <3>1, <3>2
    <3>4. ASSUME NEW i \in 1 .. p PROVE history'[i] = sent[t + 1 - p + i]
      <4>1. CASE i = p
        <5>1. t + 1 - p + i = t + 1
          BY <4>1
        <5> QED BY <1>5, <2>8, <4>1, <5>1
      <4>2. CASE i # p
        <5>1. t - n + (i + d) = t + 1 - p + i
          BY <2>5
        <5>2. i + d \in 1 .. n /\ history'[i] = history[i + d]
          BY <2>9, <4>2
        <5>3. history[i + d] = sent[t - n + (i + d)]
          BY <3>1, <5>2
        <5> QED BY <5>1, <5>2, <5>3
      <4> QED BY <4>1, <4>2
    <3> QED BY <3>3, <3>4
  <2>15. \A i \in 1 .. Len(history') : history'[i].id <= Taken'
    BY <2>8, <2>13, Zenon
  <2>16. ASSUME ~recorder.lagged
         PROVE  /\ Len(history') = IF Taken' <= HistoryCap THEN Taken' ELSE HistoryCap
                /\ \A i \in 1 .. Len(history') : history'[i] = sent[Taken' - Len(history') + i]
    BY <1>7, <2>8, <2>14, <2>16
  <2> QED BY <2>12, <2>15, <2>16
<1>15. ViewerInv'
  BY <1>1 DEF LogInv, ViewerInv
<1>16. CopiesInv'
  BY <1>1, <1>11 DEF LogInv, CopiesInv, Recorded
<1> QED BY <1>12, <1>13, <1>14, <1>15, <1>16 DEF LogInv

------------------------------------------------------------------------------
\* what ViewerInv says of one viewer
Sound(r) ==
    /\ Rising(r.shown)
    /\ \A i \in 1 .. Len(r.shown) : r.shown[i].id <= Len(sent)
    /\ r.pc = "live" =>
          /\ r.next <= Len(sent) + 1
          /\ \A i \in 1 .. Len(r.shown) : r.shown[i].id < r.next

\* one viewer changes
LEMMA Viewing ==
    ASSUME LogInv, NEW v \in Readers, NEW r \in Viewers, SetViewer(v, r),
           runtime = "local" => Sound(r)
    PROVE  LogInv'
<1>1. /\ viewer' = [viewer EXCEPT ![v] = r]
      /\ UNCHANGED <<runtime, made, sent, history, pushing, recorder>>
  BY DEF SetViewer
<1>2. LogType'
  BY <1>1 DEF LogInv, LogType
<1>3. RecorderInv' /\ LocalInv' /\ CopiesInv'
  BY <1>1 DEF LogInv, RecorderInv, LocalInv, CopiesInv, Recorded, Taken
<1>4. ViewerInv'
  <2>1. SUFFICES ASSUME runtime = "local", NEW w \in Readers PROVE Sound(viewer[w])'
    BY <1>1 DEF ViewerInv, Sound
  <2>2. viewer \in [Readers -> Viewers]
    BY DEF LogInv, LogType
  <2>3. CASE w = v
    <3>1. viewer'[w] = r
      BY <1>1, <2>2, <2>3
    <3> QED BY <1>1, <2>1, <3>1 DEF Sound
  <2>4. CASE w # v
    <3>1. viewer'[w] = viewer[w]
      BY <1>1, <2>2, <2>4
    <3>2. Sound(viewer[w])
      BY <2>1 DEF LogInv, ViewerInv, Sound
    <3> QED BY <1>1, <3>1, <3>2 DEF Sound
  <2> QED BY <2>3, <2>4
<1> QED BY <1>2, <1>3, <1>4 DEF LogInv

\* the viewer before the step
LEMMA ViewerFacts ==
    ASSUME LogInv, NEW v \in Readers
    PROVE  /\ viewer[v] \in Viewers /\ viewer[v].shown \in Seq(Lines) /\ viewer[v].next \in Nat
           /\ sent \in Seq(Lines) /\ Len(sent) \in Nat
           /\ \A i \in 1 .. Len(viewer[v].shown) : viewer[v].shown[i].id \in Nat
           /\ runtime = "local" => Sound(viewer[v])
<1>1. viewer[v] \in Viewers /\ sent \in Seq(Lines)
  BY DEF LogInv, LogType
<1>2. viewer[v].shown \in Seq(Lines) /\ viewer[v].next \in Nat
  BY <1>1 DEF Viewers
<1>3. runtime = "local" => Sound(viewer[v])
  BY DEF LogInv, ViewerInv, Sound
<1> QED BY <1>1, <1>2, <1>3, LineFacts

\* the recent lines of the ring buffer are shown to a viewer that connects
LEMMA ReplayStep ==
    ASSUME LogInv, NEW v \in Readers, Replay(v)
    PROVE  LogInv'
<1>1. PICK filter \in {Services} \cup {{s} : s \in Services} :
          SetViewer(v, [Gone EXCEPT !.pc = "replayed", !.filter = filter,
                                    !.shown = recent(filter, Last)])
  BY DEF Replay
<1>2. filter \in SUBSET Services
  OBVIOUS
<1>3. history \in Seq(Lines) /\ Last \in Nat
  BY LogAssumption DEF LogInv, LogType
<1>4. PICK q : q = Of(history, filter)
  OBVIOUS
<1>5. /\ q \in Seq(Lines) /\ (Rising(history) => Rising(q))
      /\ \A i \in 1 .. Len(q) : \E j \in 1 .. Len(history) : q[i] = history[j]
  BY <1>3, <1>4, FilterFacts DEF Picked
<1>6. PICK p : p = LastOf(q, Last)
  OBVIOUS
<1>7. /\ p \in Seq(Lines) /\ (Rising(q) => Rising(p))
      /\ \A i \in 1 .. Len(p) : \E j \in 1 .. Len(q) : p[i] = q[j]
  BY <1>3, <1>5, <1>6, LastOfRising
<1>8. PICK r : r = [Gone EXCEPT !.pc = "replayed", !.filter = filter, !.shown = p]
  OBVIOUS
<1>9. r \in Viewers /\ SetViewer(v, r) /\ r.shown = p /\ r.pc # "live"
  <2>1. Gone \in Viewers
    BY DEF Gone, Viewers
  <2>2. r \in Viewers /\ r.shown = p /\ r.pc # "live"
    BY <1>2, <1>7, <1>8, <2>1 DEF Viewers
  <2>3. recent(filter, Last) = p
    BY <1>4, <1>6 DEF recent
  <2> QED BY <1>1, <1>8, <2>2, <2>3
<1>10. ASSUME runtime = "local" PROVE Sound(r)
  <2>1. Rising(p)
    <3>1. Rising(history)
      BY <1>10 DEF LogInv, LocalInv
    <3> QED BY <1>5, <1>7, <3>1
  <2>2. \A i \in 1 .. Len(history) : history[i].id <= Len(sent)
    <3>1. \A i \in 1 .. Len(history) : history[i].id <= Taken /\ history[i].id \in Nat
      BY <1>3, <1>10, LineFacts DEF LogInv, LocalInv
    <3>2. Taken \in Nat /\ Taken <= Len(sent) /\ Len(sent) \in Nat
      BY Numbers DEF LogInv
    <3> QED BY <3>1, <3>2
  <2>3. ASSUME NEW i \in 1 .. Len(p) PROVE p[i].id <= Len(sent)
    <3>1. PICK j \in 1 .. Len(q) : p[i] = q[j]
      BY <1>7
    <3>2. PICK k \in 1 .. Len(history) : q[j] = history[k]
      BY <1>5
    <3> QED BY <2>2, <3>1, <3>2
  <2> QED BY <1>9, <2>1, <2>3 DEF Sound
<1> QED BY <1>9, <1>10, Viewing

\* a viewer subscribes, skips, loses its connection or leaves: what it was
\* shown stays, or nothing is shown
LEMMA FollowStep ==
    ASSUME LogInv, NEW v \in Readers, Follow(v) \/ ViewerLagged(v) \/ Reconnect(v) \/ Leave(v)
    PROVE  LogInv'
<1>1. /\ viewer[v] \in Viewers /\ viewer[v].shown \in Seq(Lines) /\ viewer[v].next \in Nat
      /\ sent \in Seq(Lines) /\ Len(sent) \in Nat
      /\ \A i \in 1 .. Len(viewer[v].shown) : viewer[v].shown[i].id \in Nat
      /\ runtime = "local" => Sound(viewer[v])
  BY ViewerFacts
<1>2. CASE Follow(v)
  <2>1. PICK n \in Nat : n = Subscribed
    BY <1>1 DEF Subscribed
  <2>2. PICK r : r = [viewer[v] EXCEPT !.pc = "live", !.next = n]
    OBVIOUS
  <2>3. r \in Viewers /\ SetViewer(v, r) /\ r.shown = viewer[v].shown /\ r.next = n
    BY <1>1, <1>2, <2>1, <2>2 DEF Viewers, Follow
  <2>4. n <= Len(sent) + 1
    BY <1>1, <2>1 DEF Subscribed
  <2>5. ASSUME runtime = "local" PROVE Sound(r)
    <3>1. \A i \in 1 .. Len(r.shown) : r.shown[i].id < n
      BY <1>1, <2>1, <2>3, <2>5 DEF Sound, Subscribed
    <3> QED BY <1>1, <2>3, <2>4, <2>5, <3>1 DEF Sound
  <2> QED BY <2>3, <2>5, Viewing
<1>3. CASE ViewerLagged(v)
  <2>1. PICK n \in Nat : n = Oldest
    BY <1>1, OldestFacts
  <2>2. PICK r : r = [viewer[v] EXCEPT !.next = n]
    OBVIOUS
  <2>3. r \in Viewers /\ SetViewer(v, r) /\ r.shown = viewer[v].shown /\ r.next = n
    BY <1>1, <1>3, <2>1, <2>2 DEF Viewers, ViewerLagged
  <2>4. n <= Len(sent) + 1 /\ viewer[v].next < n /\ viewer[v].pc = "live"
    BY <1>1, <1>3, <2>1, OldestFacts DEF ViewerLagged, Lags
  <2>5. ASSUME runtime = "local" PROVE Sound(r)
    <3>1. \A i \in 1 .. Len(r.shown) : r.shown[i].id < n
      BY <1>1, <2>3, <2>4, <2>5 DEF Sound
    <3> QED BY <1>1, <2>3, <2>4, <2>5, <3>1 DEF Sound
  <2> QED BY <2>3, <2>5, Viewing
<1>4. CASE Reconnect(v)
  <2>1. PICK r : r = [viewer[v] EXCEPT !.pc = "replayed"]
    OBVIOUS
  <2>2. r \in Viewers /\ SetViewer(v, r) /\ r.shown = viewer[v].shown /\ r.pc # "live"
    BY <1>1, <1>4, <2>1 DEF Viewers, Reconnect
  <2>3. runtime = "local" => Sound(r)
    BY <1>1, <2>2 DEF Sound
  <2> QED BY <2>2, <2>3, Viewing
<1>5. CASE Leave(v)
  <2>1. Gone \in Viewers /\ Gone.shown = <<>> /\ Gone.pc # "live"
    BY DEF Gone, Viewers
  <2>2. 1 .. Len(<<>>) = {}
    OBVIOUS
  <2>3. Sound(Gone)
    BY <2>1, <2>2 DEF Sound, Rising
  <2>4. PICK r \in Viewers : r = Gone
    BY <2>1
  <2> QED BY <1>5, <2>3, <2>4, Viewing DEF Leave
<1> QED BY <1>2, <1>3, <1>4, <1>5

\* a viewer receives a line, and shows it if it is one that it asked for
LEMMA ViewerRecvStep ==
    ASSUME LogInv, NEW v \in Readers, ViewerRecv(v)
    PROVE  LogInv'
<1>1. /\ viewer[v] \in Viewers /\ viewer[v].shown \in Seq(Lines) /\ viewer[v].next \in Nat
      /\ sent \in Seq(Lines) /\ Len(sent) \in Nat
      /\ \A i \in 1 .. Len(viewer[v].shown) : viewer[v].shown[i].id \in Nat
      /\ runtime = "local" => Sound(viewer[v])
  BY ViewerFacts
<1>2. PICK n \in Nat : n = viewer[v].next
  BY <1>1
<1>3. n \in 1 .. Len(sent) /\ viewer[v].pc = "live"
  BY <1>1, <1>2, OldestFacts DEF ViewerRecv
<1>4. PICK l \in Lines : l = sent[n]
  BY <1>1, <1>3
<1>5. PICK one : one = <<l>>
  OBVIOUS
<1>6. one \in Seq(Lines) /\ Len(one) = 1 /\ one[1] = l
  BY <1>5
<1>7. PICK q : q = Of(one, viewer[v].filter)
  OBVIOUS
<1>8. q \in Seq(Lines) /\ Rising(q) /\ \A i \in 1 .. Len(q) : q[i] = l
  <2>1. Rising(one)
    BY <1>6 DEF Rising
  <2>2. Picked(q, one, 1)
    BY <1>6, <1>7, FilterFacts
  <2> QED BY <1>6, <2>1, <2>2 DEF Picked
<1>9. PICK s : s = viewer[v].shown
  OBVIOUS
<1>10. PICK t : t = s \o q
  OBVIOUS
<1>11. PICK a \in Nat : a = Len(s)
  BY <1>1, <1>9
<1>12. PICK b \in Nat : b = Len(q)
  BY <1>8
<1>13. /\ t \in Seq(Lines) /\ Len(t) = a + b
       /\ \A i \in 1 .. a : t[i] = s[i]
       /\ \A i \in a + 1 .. a + b : t[i] = q[i - a] /\ i - a \in 1 .. b
  BY <1>1, <1>8, <1>9, <1>10, <1>11, <1>12
<1>14. PICK r : r = [viewer[v] EXCEPT !.next = n + 1, !.shown = t]
  OBVIOUS
<1>15. r \in Viewers /\ SetViewer(v, r) /\ r.shown = t /\ r.next = n + 1
  <2>1. r = [viewer[v] EXCEPT !.next = @ + 1,
                              !.shown = @ \o Of(<<sent[viewer[v].next]>>, viewer[v].filter)]
    BY <1>2, <1>4, <1>5, <1>7, <1>9, <1>10, <1>14
  <2>2. n + 1 \in Nat
    OBVIOUS
  <2>3. r \in Viewers /\ r.shown = t /\ r.next = n + 1
    BY <1>1, <1>13, <1>14, <2>2 DEF Viewers
  <2> QED BY <2>1, <2>3 DEF ViewerRecv
<1>16. ASSUME runtime = "local" PROVE Sound(r)
  <2>1. l.id = n
    BY <1>3, <1>4, <1>16 DEF LogInv, LocalInv
  <2>2. Rising(s) /\ \A i \in 1 .. a : s[i].id < n /\ s[i].id \in Nat
    BY <1>1, <1>2, <1>3, <1>9, <1>11, <1>16 DEF Sound
  <2>3. \A i \in 1 .. a : t[i].id < n /\ t[i].id \in Nat
    BY <1>13, <2>2
  <2>4. \A i \in a + 1 .. a + b : t[i].id = n
    BY <1>8, <1>12, <1>13, <2>1
  <2>5. Rising(t)
    <3>1. SUFFICES ASSUME NEW i \in 1 .. a + b, NEW j \in 1 .. a + b, i < j
                   PROVE  t[i].id < t[j].id
      BY <1>13 DEF Rising
    <3>2. CASE i \in 1 .. a /\ j \in 1 .. a
      BY <1>11, <1>13, <2>2, <3>1, <3>2 DEF Rising
    <3>3. CASE i \in 1 .. a /\ j \in a + 1 .. a + b
      BY <2>3, <2>4, <3>3
    <3>4. CASE i \in a + 1 .. a + b
      <4>1. j \in a + 1 .. a + b
        BY <3>1, <3>4
      <4>2. /\ t[i] = q[i - a] /\ i - a \in 1 .. b
            /\ t[j] = q[j - a] /\ j - a \in 1 .. b
        BY <1>13, <3>4, <4>1
      <4>3. i - a < j - a
        BY <3>1
      <4>4. q[i - a].id < q[j - a].id
        BY <1>8, <1>12, <4>2, <4>3 DEF Rising
      <4> QED BY <4>2, <4>4
    <3> QED BY <3>1, <3>2, <3>3, <3>4
  <2>6. \A i \in 1 .. a + b : t[i].id < n + 1 /\ t[i].id <= Len(sent)
    <3>1. ASSUME NEW i \in 1 .. a + b PROVE t[i].id < n + 1 /\ t[i].id <= Len(sent)
      <4>1. CASE i \in 1 .. a
        BY <1>1, <1>3, <2>3, <4>1
      <4>2. CASE i \in a + 1 .. a + b
        BY <1>1, <1>3, <2>4, <4>2
      <4> QED BY <4>1, <4>2
    <3> QED BY <3>1
  <2>7. n + 1 <= Len(sent) + 1
    BY <1>1, <1>3
  <2> QED BY <1>13, <1>15, <2>5, <2>6, <2>7 DEF Sound
<1> QED BY <1>15, <1>16, Viewing

------------------------------------------------------------------------------
LEMMA LogInvInit ==
    ASSUME Init
    PROVE  LogInv
<1>1. /\ runtime \in {"local", "k8s"} /\ made = 0 /\ sent = <<>> /\ history = <<>> /\ pushing = {}
      /\ recorder = [next |-> 1, held |-> <<>>, lagged |-> FALSE]
      /\ viewer \in [Readers -> {Gone, Terminal}]
  BY DEF Init
<1>2. \A r \in {Gone, Terminal} : r \in Viewers /\ r.shown = <<>> /\ r.next <= 1
  <2>1. Gone \in Viewers /\ Gone.shown = <<>> /\ Gone.next = 0
    BY DEF Gone, Viewers
  <2>2. Terminal \in Viewers /\ Terminal.shown = <<>> /\ Terminal.next = 1
    BY <2>1 DEF Terminal, Viewers
  <2> QED BY <2>1, <2>2
<1>3. <<>> \in Seq(Lines) /\ Len(<<>>) = 0 /\ 1 .. 0 = {}
  OBVIOUS
<1>4. recorder \in [next : Nat, held : Seq(Lines), lagged : BOOLEAN]
      /\ recorder.next = 1 /\ recorder.held = <<>> /\ Taken = 0
  BY <1>1, <1>3 DEF Taken
<1>5. \A v \in Readers : viewer[v] \in Viewers /\ viewer[v].shown = <<>> /\ viewer[v].next <= 1
  BY <1>1, <1>2
<1>6. LogType
  <2>1. viewer \in [Readers -> Viewers]
    BY <1>1, <1>5
  <2> QED BY <1>1, <1>3, <1>4, <2>1 DEF LogType
<1>7. HistoryCap \in Nat
  BY LogAssumption
<1>8. RecorderInv
  BY <1>1, <1>3, <1>4, <1>7 DEF RecorderInv
<1>9. LocalInv
  BY <1>1, <1>3, <1>4, <1>7 DEF LocalInv, Rising
<1>10. ViewerInv
  BY <1>1, <1>3, <1>5 DEF ViewerInv, Rising
<1>11. CopiesInv
  BY <1>1, <1>3 DEF CopiesInv
<1> QED BY <1>6, <1>8, <1>9, <1>10, <1>11 DEF LogInv

LEMMA LogInvNext ==
    ASSUME LogInv, [Next]_vars
    PROVE  LogInv'
<1>1. ASSUME UNCHANGED <<runtime, made, sent, history, pushing, recorder, viewer>>
      PROVE  LogInv'
  BY <1>1 DEF LogInv, LogType, RecorderInv, LocalInv, ViewerInv, CopiesInv, Recorded, Taken
<1>2. CASE UNCHANGED vars
  BY <1>1, <1>2 DEF vars
<1>3. ASSUME NEW s \in Services, Emit(s) \/ PushStore(s) PROVE LogInv'
  BY <1>3, EmitStep, PushStoreStep
<1>4. ASSUME NEW l \in pushing, PushSend(l) PROVE LogInv'
  BY <1>4, PushSendStep
<1>5. CASE RecorderStep
  BY <1>5, RecorderRecvStep, RecorderStoreStep, RecorderLaggedStep DEF RecorderStep
<1>6. ASSUME NEW v \in Readers,
             Replay(v) \/ Follow(v) \/ ViewerStep(v) \/ Reconnect(v) \/ Leave(v)
      PROVE  LogInv'
  BY <1>6, ReplayStep, FollowStep, ViewerRecvStep DEF ViewerStep
<1>7. ASSUME NEW k \in Spawns, Register(k) \/ WriterStep(k) PROVE LogInv'
  <2>1. UNCHANGED <<runtime, made, sent, history, pushing, recorder, viewer>>
    BY <1>7 DEF Register, WriterStep, Open, WriterRecv, Rename, WriterLagged, SetWriter
  <2> QED BY <1>1, <2>1
<1> QED BY <1>2, <1>3, <1>4, <1>5, <1>6, <1>7 DEF Next

\* LogInv is an invariant of the log aggregator (attach, push, the history
\* task, recent, the loops of the viewers).
THEOREM LogInvariant == Spec => []LogInv
<1>1. Init => LogInv
  BY LogInvInit
<1>2. LogInv /\ [Next]_vars => LogInv'
  BY LogInvNext
<1> QED BY <1>1, <1>2, PTL DEF Spec

\* In the local runtime no viewer is shown a line twice or out of order,
\* however it replays, follows, lags and reconnects (recent, and the loops of
\* print_loop, of the Logs request and of the event stream).
THEOREM ShownInOrderHolds == Spec => []ShownInOrder
<1>1. LogInv => ShownInOrder
  <2>1. SUFFICES ASSUME LogInv, runtime = "local", NEW v \in Readers
                 PROVE  Increasing(Ids(viewer[v].shown))
    BY DEF ShownInOrder
  <2>2. viewer[v].shown \in Seq(Lines) /\ Rising(viewer[v].shown)
    BY <2>1, ViewerFacts DEF Sound
  <2>3. DOMAIN viewer[v].shown = 1 .. Len(viewer[v].shown)
    BY <2>2
  <2> QED BY <2>2, <2>3 DEF Increasing, Ids, Rising
<1> QED BY <1>1, LogInvariant, PTL

\* a set of numbers without three elements has at most two
LEMMA AtMostTwo ==
    ASSUME NEW C, NEW i \in C, C \subseteq Nat,
           \A a, b, c \in C : ~(a < b /\ b < c)
    PROVE  Cardinality(C) <= 2
<1>1. CASE C = {i}
  <2>1. Cardinality({i}) = 1
    BY FS_Singleton
  <2> QED BY <1>1, <2>1
<1>2. CASE C # {i}
  <2>1. PICK j \in C : j # i
    BY <1>2
  <2>2. C = {i} \cup {j}
    <3>1. ASSUME NEW x \in C, x # i, x # j PROVE FALSE
      <4>1. x \in Nat /\ i \in Nat /\ j \in Nat
        OBVIOUS
      <4>2. \/ x < i /\ i < j
            \/ x < j /\ j < i
            \/ i < x /\ x < j
            \/ j < x /\ x < i
            \/ i < j /\ j < x
            \/ j < i /\ i < x
        BY <2>1, <3>1, <4>1
      <4> QED BY <4>2
    <3> QED BY <3>1
  <2>3. IsFiniteSet({i}) /\ Cardinality({i}) = 1 /\ j \notin {i}
    BY <2>1, FS_Singleton
  <2>4. Cardinality({i} \cup {j}) = Cardinality({i}) + 1
    BY <2>3, FS_AddElement
  <2> QED BY <2>2, <2>3, <2>4
<1> QED BY <1>1, <1>2

\* The ring buffer never outgrows HISTORY_CAP.  In the local runtime it repeats
\* no line and, as long as the history task has not lagged, it is exactly the
\* last HISTORY_CAP lines that the task took; a line of an image build is in
\* it at most twice (push and the task that subscribes in LogAggregator::new).
THEOREM HistoryExactHolds == Spec => []HistoryExact
<1>1. ASSUME LogInv PROVE HistoryExact
  <2>1. /\ history \in Seq(Lines) /\ sent \in Seq(Lines) /\ Len(history) <= HistoryCap
        /\ HistoryCap \in Nat /\ DOMAIN history = 1 .. Len(history)
    BY <1>1, LogAssumption DEF LogInv, LogType, RecorderInv
  <2>2. PICK n \in Nat : n = Len(history)
    BY <1>1, Numbers DEF LogInv
  <2>3. PICK t \in Nat : t = Taken
    BY <1>1, Numbers DEF LogInv
  <2>4. ASSUME runtime = "local" PROVE Increasing(Ids(history \o recorder.held))
    <3>1. Rising(history) /\ \A i \in 1 .. n : history[i].id <= t /\ history[i].id \in Nat
      BY <1>1, <2>1, <2>2, <2>3, <2>4, LineFacts DEF LogInv, LocalInv
    <3>2. CASE recorder.held = <<>>
      <4>1. history \o <<>> = history
        BY <2>1
      <4> QED BY <2>1, <3>1, <3>2, <4>1 DEF Increasing, Ids, Rising
    <3>3. CASE recorder.held # <<>>
      <4>1. recorder.held = <<sent[t + 1]>> /\ t + 1 \in 1 .. Len(sent)
        BY <1>1, <2>3, <3>3, Numbers DEF LogInv
      <4>2. PICK x \in Lines : x = sent[t + 1]
        BY <2>1, <4>1
      <4>3. x.id = t + 1
        BY <1>1, <2>4, <4>1, <4>2 DEF LogInv, LocalInv
      <4>4. PICK q : q = history \o <<x>>
        OBVIOUS
      <4>5. /\ DOMAIN q = 1 .. n + 1 /\ q[n + 1] = x
            /\ \A i \in 1 .. n : q[i] = history[i]
        BY <2>1, <2>2, <4>4
      <4>6. ASSUME NEW i \in 1 .. n + 1, NEW j \in 1 .. n + 1, i < j
            PROVE  q[i].id < q[j].id
        <5>1. i \in 1 .. n /\ q[i] = history[i]
          BY <4>5, <4>6
        <5>2. CASE j = n + 1
          BY <3>1, <4>3, <4>5, <5>1, <5>2
        <5>3. CASE j \in 1 .. n
          BY <2>2, <3>1, <4>5, <4>6, <5>1, <5>3 DEF Rising
        <5> QED BY <5>2, <5>3
      <4>7. Increasing(Ids(q))
        BY <4>5, <4>6 DEF Increasing, Ids
      <4> QED BY <4>1, <4>2, <4>4, <4>7
    <3> QED BY <3>2, <3>3
  <2>5. ASSUME runtime = "local", ~recorder.lagged
        PROVE  history = LastOf(SubSeq(sent, 1, recorder.next - 1 - Len(recorder.held)), HistoryCap)
    <3>1. t <= Len(sent) /\ Len(sent) \in Nat
      BY <1>1, <2>3, Numbers DEF LogInv
    <3>2. PICK s : s = SubSeq(sent, 1, t)
      OBVIOUS
    <3>3. s \in Seq(Lines) /\ Len(s) = t /\ \A i \in 1 .. t : s[i] = sent[i]
      BY <2>1, <3>1, <3>2
    <3>4. PICK r : r = LastOf(s, HistoryCap)
      OBVIOUS
    <3>5. /\ r \in Seq(Lines)
          /\ Len(r) = IF Len(s) <= HistoryCap THEN Len(s) ELSE HistoryCap
          /\ \A i \in 1 .. Len(r) : r[i] = s[Len(s) - Len(r) + i]
      <4>1. s \in Seq(Lines) /\ HistoryCap \in Nat
        BY <2>1, <3>3
      <4> QED BY <3>4, <4>1, LastOfFacts, Zenon
    <3>6. /\ n = IF t <= HistoryCap THEN t ELSE HistoryCap
          /\ \A i \in 1 .. n : history[i] = sent[t - n + i]
      BY <1>1, <2>2, <2>3, <2>5 DEF LogInv, LocalInv
    <3>7. Len(r) = n /\ n <= t
      BY <2>1, <3>3, <3>5, <3>6
    <3>8. ASSUME NEW i \in 1 .. n PROVE r[i] = history[i]
      <4>1. t - n + i \in 1 .. t
        BY <3>7
      <4>2. r[i] = s[t - n + i]
        BY <3>3, <3>5, <3>7
      <4> QED BY <3>3, <3>6, <4>1, <4>2
    <3>9. r = history
      BY <2>1, <2>2, <3>5, <3>7, <3>8, SeqEqual
    <3> QED BY <2>3, <3>2, <3>4, <3>9 DEF Taken
  <2>6. ASSUME NEW i \in DOMAIN history
        PROVE  Cardinality({j \in DOMAIN history : history[j] = history[i]}) <= 2
    <3> DEFINE C == {j \in DOMAIN history : history[j] = history[i]}
    <3>1. i \in C /\ C \subseteq Nat
      BY <2>1, <2>6
    <3>2. \A a, b, c \in C : ~(a < b /\ b < c)
      BY <1>1, <2>1 DEF LogInv, CopiesInv
    <3> HIDE DEF C
    <3>3. Cardinality(C) <= 2
      BY <3>1, <3>2, AtMostTwo
    <3> QED BY <3>3 DEF C
  <2> QED BY <2>1, <2>4, <2>5, <2>6 DEF HistoryExact
<1> QED BY <1>1, LogInvariant, PTL

------------------------------------------------------------------------------
(***************************************************************************)
(* The log file.  FileInv says what one writer by itself has done: which   *)
(* files there are at each of its steps, and that they end with the lines  *)
(* it took.                                                                *)
(***************************************************************************)
IsWriter(r) ==
    /\ r = [pc |-> r.pc, next |-> r.next, from |-> r.from, bytes |-> r.bytes,
            inode |-> r.inode, lagged |-> r.lagged]
    /\ r.pc = "off" => r = NoWriter

WritersInv ==
    /\ writer = [k \in Spawns |-> writer[k]]
    /\ \A k \in Spawns : IsWriter(writer[k])

Alone == \A k \in Spawns \ {1} : writer[k].pc = "off"

Disks == [path : Inodes \cup {0}, old : Inodes \cup {0}, data : [Inodes -> Seq(Nat)]]

\* which files there are
StageInv(w, d) ==
    /\ w.pc \in {"off", "open", "recv", "rename", "reopen", "ended"}
    /\ w.pc \in {"off", "open"} =>
          d.path = 0 /\ d.old = 0 /\ \A i \in Inodes : d.data[i] = <<>>
    /\ w.pc = "open" => w.next = w.from /\ w.inode = 0
    /\ w.pc \in {"recv", "rename"} =>
          d.path # 0 /\ w.inode = d.path /\ d.old # d.path /\ w.bytes = Len(d.data[d.path])
    /\ w.pc = "recv" /\ RotateBytes > 0 => w.bytes < RotateBytes
    /\ w.pc = "rename" => RotateBytes > 0 /\ w.bytes = RotateBytes
    /\ w.pc = "reopen" => d.path = 0 /\ d.old # 0 /\ w.inode = 0
    /\ d.old # 0 => RotateBytes > 0 /\ Len(d.data[d.old]) = RotateBytes

\* the files hold lines that the writer took, and begin with different ones
FilesInv(w, d) ==
    /\ \A i \in Inodes : \A a \in 1 .. Len(d.data[i]) : 1 <= d.data[i][a] /\ d.data[i][a] < w.next
    /\ \A i, j \in Inodes : i # j /\ d.data[i] # <<>> /\ d.data[j] # <<>> => d.data[i][1] # d.data[j][1]

FileOf(d, i) == IF i = 0 THEN <<>> ELSE d.data[i]
Kept(d) == FileOf(d, d.old) \o FileOf(d, d.path)
Took(s, from, next) == Ids(Of(SubSeq(s, from, next - 1), {Logged}))

Ends(s, t) == Len(s) <= Len(t) /\ \A i \in 1 .. Len(s) : s[i] = t[Len(t) - Len(s) + i]

\* they end with the lines it took, and hold them all if none was rotated away
TailInv(w, d, took) ==
    w.pc \notin {"off", "ended"} /\ ~w.lagged =>
        /\ Ends(Kept(d), took)
        /\ d.old = 0 => Kept(d) = took

LoneWriterInv(w, d) ==
    /\ d \in Disks
    /\ w.next \in Nat /\ w.from \in Nat /\ w.bytes \in Nat
    /\ w.pc # "off" => runtime = "local" /\ 1 <= w.from /\ w.from <= w.next /\ w.next <= Len(sent) + 1
    /\ StageInv(w, d)
    /\ FilesInv(w, d)
    /\ TailInv(w, d, Took(sent, w.from, w.next))

FileInv ==
    /\ made <= MaxLines
    /\ WritersInv
    /\ Alone => LoneWriterInv(writer[1], disk)

\* the filter looks at no line beyond the one it has come to
LEMMA FilterSame ==
    ASSUME NEW s, Len(s) \in Nat, NEW t, Len(t) \in Nat, Len(s) <= Len(t), NEW filter,
           \A k \in 1 .. Len(s) : t[k] = s[k]
    PROVE  FilterUpTo(t, filter)[Len(s)] = FilterUpTo(s, filter)[Len(s)]
<1> DEFINE F == FilterUpTo(s, filter)
           G == FilterUpTo(t, filter)
           T == {k \in 0 .. Len(s) : G[k] = F[k]}
<1>1. \A k \in 0 .. Len(s) : F[k] = Filtered(F, s, filter, k)
  BY FilterUnfolds
<1>2. \A k \in 0 .. Len(t) : G[k] = Filtered(G, t, filter, k)
  BY FilterUnfolds
<1> HIDE DEF F, G
<1>3. 0 \in T
  <2>1. 0 \in 0 .. Len(s) /\ 0 \in 0 .. Len(t)
    OBVIOUS
  <2>2. F[0] = <<>> /\ G[0] = <<>>
    BY <1>1, <1>2, <2>1 DEF Filtered
  <2> QED BY <2>1, <2>2
<1>4. ASSUME NEW m \in Nat, m < Len(s), m \in T PROVE m + 1 \in T
  <2>1. /\ m + 1 \in 0 .. Len(s) /\ m + 1 \in 0 .. Len(t) /\ m + 1 # 0 /\ (m + 1) - 1 = m
        /\ m + 1 \in 1 .. Len(s)
    BY <1>4
  <2>2. G[m] = F[m] /\ t[m + 1] = s[m + 1]
    BY <1>4, <2>1
  <2>3. F[m + 1] = Filtered(F, s, filter, m + 1) /\ G[m + 1] = Filtered(G, t, filter, m + 1)
    BY <1>1, <1>2, <2>1
  <2>4. G[m + 1] = F[m + 1]
    BY <2>1, <2>2, <2>3 DEF Filtered
  <2> QED BY <2>1, <2>4
<1>5. Len(s) \in T
  <2> HIDE DEF T
  <2>1. \A m \in 0 .. Len(s) : m \in T
    BY <1>3, <1>4, Upwards
  <2> QED BY <2>1
<1> QED BY <1>5 DEF F, G

\* one more line
LEMMA OfAppend ==
    ASSUME NEW s \in Seq(Lines), NEW l \in Lines, NEW filter
    PROVE  Of(Append(s, l), filter) = IF l.svc \in filter THEN Append(Of(s, filter), l) ELSE Of(s, filter)
<1>1. PICK t : t = Append(s, l)
  OBVIOUS
<1>2. PICK n \in Nat : n = Len(s)
  OBVIOUS
<1>3. Len(t) = n + 1 /\ t[n + 1] = l /\ \A k \in 1 .. n : t[k] = s[k]
  BY <1>1, <1>2
<1>4. FilterUpTo(t, filter)[n] = Of(s, filter)
  BY <1>2, <1>3, FilterSame DEF Of
<1>5. FilterUpTo(t, filter)[n + 1] = Filtered(FilterUpTo(t, filter), t, filter, n + 1)
  <2>1. Len(t) \in Nat /\ n + 1 \in 0 .. Len(t)
    BY <1>3
  <2> QED BY <2>1, FilterUnfolds
<1>6. n + 1 # 0 /\ (n + 1) - 1 = n
  OBVIOUS
<1>7. Of(t, filter) = IF l.svc \in filter THEN Append(Of(s, filter), l) ELSE Of(s, filter)
  BY <1>3, <1>4, <1>5, <1>6 DEF Of, Filtered
<1> QED BY <1>1, <1>7

LEMMA IdsFacts ==
    ASSUME NEW s \in Seq(Lines)
    PROVE  /\ Ids(s) \in Seq(Nat) /\ Len(Ids(s)) = Len(s)
           /\ \A i \in 1 .. Len(s) : Ids(s)[i] = s[i].id
<1>1. PICK n \in Nat : n = Len(s)
  OBVIOUS
<1>2. DOMAIN s = 1 .. n
  BY <1>1
<1>3. \A i \in 1 .. n : s[i].id \in Nat
  BY <1>1, LineFacts
<1>4. Ids(s) = [i \in 1 .. n |-> s[i].id]
  BY <1>2 DEF Ids
<1>5. Ids(s) \in [1 .. n -> Nat]
  BY <1>3, <1>4
<1>6. Ids(s) \in Seq(Nat) /\ Len(Ids(s)) = n
  BY <1>5
<1> QED BY <1>1, <1>4, <1>6

LEMMA IdsAppend ==
    ASSUME NEW s \in Seq(Lines), NEW l \in Lines
    PROVE  Ids(Append(s, l)) = Append(Ids(s), l.id)
<1>1. PICK n \in Nat : n = Len(s)
  OBVIOUS
<1>2. PICK t : t = Append(s, l)
  OBVIOUS
<1>3. t \in Seq(Lines) /\ Len(t) = n + 1 /\ t[n + 1] = l /\ \A i \in 1 .. n : t[i] = s[i]
  BY <1>1, <1>2
<1>4. /\ Ids(t) \in Seq(Nat) /\ Len(Ids(t)) = n + 1
      /\ \A i \in 1 .. n + 1 : Ids(t)[i] = t[i].id
  BY <1>3, IdsFacts
<1>5. /\ Ids(s) \in Seq(Nat) /\ Len(Ids(s)) = n
      /\ \A i \in 1 .. n : Ids(s)[i] = s[i].id
  BY <1>1, IdsFacts
<1>6. PICK r : r = Append(Ids(s), l.id)
  OBVIOUS
<1>7. l.id \in Nat
  BY DEF Lines
<1>8. r \in Seq(Nat) /\ Len(r) = n + 1 /\ r[n + 1] = l.id /\ \A i \in 1 .. n : r[i] = Ids(s)[i]
  BY <1>5, <1>6, <1>7
<1>9. \A i \in 1 .. n + 1 : Ids(t)[i] = r[i]
  <2>1. ASSUME NEW i \in 1 .. n + 1 PROVE Ids(t)[i] = r[i]
    <3>1. CASE i = n + 1
      BY <1>3, <1>4, <1>8, <3>1
    <3>2. CASE i \in 1 .. n
      BY <1>3, <1>4, <1>5, <1>8, <3>2
    <3> QED BY <3>1, <3>2
  <2> QED BY <2>1
<1>10. Ids(t) = r
  BY <1>4, <1>8, <1>9, SeqEqual
<1> QED BY <1>2, <1>6, <1>10

\* what the writer took, when it takes the next line
LEMMA TookFacts ==
    ASSUME NEW s \in Seq(Lines), NEW from \in Nat, NEW next \in Nat, 1 <= from, from <= next, next <= Len(s) + 1
    PROVE  /\ Took(s, from, next) \in Seq(Nat)
           /\ from = next => Took(s, from, next) = <<>>
           /\ next <= Len(s) =>
                Took(s, from, next + 1) = IF s[next].svc = Logged THEN Append(Took(s, from, next), s[next].id)
                                          ELSE Took(s, from, next)
<1>1. PICK t : t = SubSeq(s, from, next - 1)
  OBVIOUS
<1>2. PICK n \in Nat : n = Len(s)
  OBVIOUS
<1>3. /\ t \in Seq(Lines) /\ Len(t) = next - from
      /\ \A i \in 1 .. next - from : t[i] = s[from + i - 1]
  <2>1. from \in 1 .. n + 1 /\ next - 1 \in 0 .. n /\ next - 1 \in from - 1 .. n
    BY <1>2
  <2>2. PICK m \in Nat : m = next - 1
    OBVIOUS
  <2>3. \A i \in from .. m : s[i] \in Lines
    BY <1>2, <2>1, <2>2
  <2>4. t \in Seq(Lines) /\ Len(t) = IF from <= m THEN m - from + 1 ELSE 0
    BY <1>1, <2>2, <2>3
  <2>5. \A i \in 1 .. m - from + 1 : t[i] = s[from + i - 1]
    BY <1>1, <2>2
  <2> QED BY <2>2, <2>4, <2>5
<1>4. Of(t, {Logged}) \in Seq(Lines)
  BY <1>3, FilterFacts DEF Picked
<1>5. Took(s, from, next) = Ids(Of(t, {Logged}))
  BY <1>1 DEF Took
<1>6. Took(s, from, next) \in Seq(Nat)
  BY <1>4, <1>5, IdsFacts
<1>7. ASSUME from = next PROVE Took(s, from, next) = <<>>
  <2>1. Len(t) = 0
    BY <1>3, <1>7
  <2>2. Of(t, {Logged}) = <<>>
    <3>1. FilterUpTo(t, {Logged})[0] = Filtered(FilterUpTo(t, {Logged}), t, {Logged}, 0)
      BY <2>1, FilterUnfolds
    <3> QED BY <2>1, <3>1 DEF Of, Filtered
  <2>3. Len(Ids(<<>>)) = 0 /\ Ids(<<>>) \in Seq(Nat)
    <3>1. <<>> \in Seq(Lines) /\ Len(<<>>) = 0
      OBVIOUS
    <3> QED BY <3>1, IdsFacts
  <2> QED BY <1>5, <2>2, <2>3
<1>8. ASSUME next <= Len(s)
      PROVE  Took(s, from, next + 1) = IF s[next].svc = Logged THEN Append(Took(s, from, next), s[next].id)
                                       ELSE Took(s, from, next)
  <2>1. PICK l \in Lines : l = s[next]
    BY <1>8
  <2>2. PICK u : u = SubSeq(s, from, (next + 1) - 1)
    OBVIOUS
  <2>3. /\ u \in Seq(Lines) /\ Len(u) = next - from + 1
        /\ \A i \in 1 .. next - from + 1 : u[i] = s[from + i - 1]
    <3>1. (next + 1) - 1 = next
      OBVIOUS
    <3>2. \A i \in from .. next : s[i] \in Lines
      BY <1>2, <1>8
    <3> QED BY <2>2, <3>1, <3>2
  <2>4. u = Append(t, l)
    <3>1. PICK m \in Nat : m = next - from
      OBVIOUS
    <3>2. PICK v : v = Append(t, l)
      OBVIOUS
    <3>3. v \in Seq(Lines) /\ Len(v) = m + 1 /\ v[m + 1] = l /\ \A i \in 1 .. m : v[i] = t[i]
      <4>1. t \in Seq(Lines) /\ Len(t) = m
        BY <1>3, <3>1
      <4> QED BY <3>2, <4>1
    <3>4. ASSUME NEW i \in 1 .. m + 1 PROVE u[i] = v[i]
      <4>1. CASE i = m + 1
        <5>1. from + i - 1 = next
          BY <3>1, <4>1
        <5> QED BY <2>1, <2>3, <3>1, <3>3, <4>1, <5>1
      <4>2. CASE i \in 1 .. m
        BY <1>3, <2>3, <3>1, <3>3, <4>2
      <4> QED BY <4>1, <4>2
    <3>5. u = v
      BY <2>3, <3>1, <3>3, <3>4, SeqEqual
    <3> QED BY <3>2, <3>5
  <2>5. Of(u, {Logged}) = IF l.svc \in {Logged} THEN Append(Of(t, {Logged}), l) ELSE Of(t, {Logged})
    BY <1>3, <2>4, OfAppend
  <2>6. Took(s, from, next + 1) = Ids(Of(u, {Logged}))
    BY <2>2 DEF Took
  <2>7. CASE l.svc = Logged
    BY <1>4, <1>5, <2>1, <2>5, <2>6, <2>7, IdsAppend
  <2>8. CASE l.svc # Logged
    BY <1>5, <2>1, <2>5, <2>6, <2>8
  <2> QED BY <2>7, <2>8
<1> QED BY <1>6, <1>7, <1>8

\* lines that are sent later make no difference
LEMMA TookSame ==
    ASSUME NEW s \in Seq(Lines), NEW l \in Lines, NEW from \in Nat, NEW next \in Nat,
           1 <= from, from <= next, next <= Len(s) + 1
    PROVE  Took(Append(s, l), from, next) = Took(s, from, next)
<1>1. PICK n \in Nat : n = Len(s)
  OBVIOUS
<1>2. PICK t : t = Append(s, l)
  OBVIOUS
<1>3. t \in Seq(Lines) /\ Len(t) = n + 1 /\ \A i \in 1 .. n : t[i] = s[i]
  BY <1>1, <1>2
<1>4. PICK m \in Nat : m = next - 1
  OBVIOUS
<1>5. PICK u, v : u = SubSeq(t, from, m) /\ v = SubSeq(s, from, m)
  OBVIOUS
<1>6. \A i \in from .. m : s[i] \in Lines /\ t[i] = s[i] /\ t[i] \in Lines
  BY <1>1, <1>3, <1>4
<1>7. /\ u \in Seq(Lines) /\ Len(u) = IF from <= m THEN m - from + 1 ELSE 0
      /\ \A i \in 1 .. m - from + 1 : u[i] = t[from + i - 1]
  BY <1>5, <1>6
<1>8. /\ v \in Seq(Lines) /\ Len(v) = IF from <= m THEN m - from + 1 ELSE 0
      /\ \A i \in 1 .. m - from + 1 : v[i] = s[from + i - 1]
  BY <1>5, <1>6
<1>9. ASSUME NEW i \in 1 .. Len(u) PROVE u[i] = v[i]
  <2>1. i \in 1 .. m - from + 1 /\ from + i - 1 \in from .. m
    BY <1>7
  <2> QED BY <1>6, <1>7, <1>8, <2>1
<1>10. u = v
  BY <1>7, <1>8, <1>9, SeqEqual
<1> QED BY <1>2, <1>4, <1>5, <1>10 DEF Took

\* what a sequence ends with
LEMMA EndsFacts ==
    ASSUME NEW s \in Seq(Nat), NEW t \in Seq(Nat), Ends(s, t)
    PROVE  /\ Suffix(s, t)
           /\ \A x \in Nat : Ends(Append(s, x), Append(t, x))
           /\ \A a, b \in Seq(Nat) : s = a \o b => Ends(b, t)
<1>1. PICK m \in Nat, n \in Nat : m = Len(s) /\ n = Len(t)
  OBVIOUS
<1>2. m <= n /\ \A i \in 1 .. m : s[i] = t[n - m + i]
  BY <1>1 DEF Ends
<1>3. Suffix(s, t)
  <2>1. PICK r : r = LastOf(t, m)
    OBVIOUS
  <2>2. /\ r \in Seq(Nat)
        /\ Len(r) = IF Len(t) <= m THEN Len(t) ELSE m
        /\ \A i \in 1 .. Len(r) : r[i] = t[Len(t) - Len(r) + i]
    BY <2>1, LastOfFacts, ZenonT(30)
  <2>3. Len(r) = m
    BY <1>1, <1>2, <2>2
  <2>4. \A i \in 1 .. m : r[i] = s[i]
    BY <1>1, <1>2, <2>2, <2>3
  <2>5. r = s
    BY <1>1, <2>2, <2>3, <2>4, SeqEqual
  <2> QED BY <1>1, <1>2, <2>1, <2>5 DEF Suffix
<1>4. ASSUME NEW x \in Nat PROVE Ends(Append(s, x), Append(t, x))
  <2>1. PICK q, r : q = Append(s, x) /\ r = Append(t, x)
    OBVIOUS
  <2>2. Len(q) = m + 1 /\ q[m + 1] = x /\ \A i \in 1 .. m : q[i] = s[i]
    BY <1>1, <2>1
  <2>3. Len(r) = n + 1 /\ r[n + 1] = x /\ \A i \in 1 .. n : r[i] = t[i]
    BY <1>1, <2>1
  <2>4. ASSUME NEW i \in 1 .. m + 1 PROVE q[i] = r[(n + 1) - (m + 1) + i]
    <3>1. CASE i = m + 1
      <4>1. (n + 1) - (m + 1) + i = n + 1
        BY <3>1
      <4> QED BY <2>2, <2>3, <3>1, <4>1
    <3>2. CASE i \in 1 .. m
      <4>1. (n + 1) - (m + 1) + i = n - m + i /\ n - m + i \in 1 .. n
        BY <1>2, <3>2
      <4> QED BY <1>2, <2>2, <2>3, <3>2, <4>1
    <3> QED BY <3>1, <3>2
  <2>5. Ends(q, r)
    BY <1>2, <2>2, <2>3, <2>4 DEF Ends
  <2> QED BY <2>1, <2>5
<1>5. ASSUME NEW a \in Seq(Nat), NEW b \in Seq(Nat), s = a \o b PROVE Ends(b, t)
  <2>1. PICK j \in Nat, k \in Nat : j = Len(a) /\ k = Len(b)
    OBVIOUS
  <2>2. m = j + k /\ \A i \in 1 .. k : s[j + i] = b[i]
    BY <1>1, <1>5, <2>1
  <2>3. ASSUME NEW i \in 1 .. k PROVE b[i] = t[n - k + i]
    <3>1. j + i \in 1 .. m /\ n - m + (j + i) = n - k + i
      BY <2>2
    <3> QED BY <1>2, <2>2, <3>1
  <2>4. k <= n
    BY <1>2, <2>2
  <2> QED BY <1>1, <2>1, <2>3, <2>4 DEF Ends
<1> QED BY <1>3, <1>4, <1>5

LEMMA DiskFacts ==
    ASSUME NEW d \in Disks
    PROVE  /\ d.path \in Inodes \cup {0} /\ d.old \in Inodes \cup {0} /\ d.data \in [Inodes -> Seq(Nat)]
           /\ FileOf(d, d.path) \in Seq(Nat) /\ FileOf(d, d.old) \in Seq(Nat) /\ Kept(d) \in Seq(Nat)
           /\ 0 \notin Inodes /\ Inodes \subseteq Nat
<1>1. d.path \in Inodes \cup {0} /\ d.old \in Inodes \cup {0} /\ d.data \in [Inodes -> Seq(Nat)]
  BY DEF Disks
<1>2. <<>> \in Seq(Nat)
  OBVIOUS
<1>3. FileOf(d, d.path) \in Seq(Nat) /\ FileOf(d, d.old) \in Seq(Nat)
  BY <1>1, <1>2 DEF FileOf
<1>4. PICK a \in Seq(Nat), b \in Seq(Nat) : a = FileOf(d, d.old) /\ b = FileOf(d, d.path)
  BY <1>3
<1>5. a \o b \in Seq(Nat)
  OBVIOUS
<1>6. 0 \notin Inodes /\ Inodes \subseteq Nat
  BY DEF Inodes
<1> QED BY <1>1, <1>3, <1>4, <1>5, <1>6 DEF Kept

\* there is an inode that nobody uses: every other file begins with a line of
\* its own
LEMMA InodeLeft ==
    ASSUME NEW d \in Disks, NEW n \in Nat, n <= MaxLines,
           \A i \in Inodes : \A a \in 1 .. Len(d.data[i]) : 1 <= d.data[i][a] /\ d.data[i][a] <= n,
           \A i, j \in Inodes : i # j /\ d.data[i] # <<>> /\ d.data[j] # <<>> => d.data[i][1] # d.data[j][1]
    PROVE  \E i \in Inodes : d.data[i] = <<>>
<1> SUFFICES ASSUME \A i \in Inodes : d.data[i] # <<>> PROVE FALSE
  OBVIOUS
<1>1. MaxSpawns \in Nat /\ MaxSpawns >= 1 /\ MaxLines \in Nat
  BY LogAssumption
<1>2. \A i \in Inodes : d.data[i] \in Seq(Nat)
  BY DiskFacts
<1>3. ASSUME NEW i \in Inodes PROVE d.data[i][1] \in 1 .. MaxLines
  <2>1. d.data[i] \in Seq(Nat) /\ d.data[i] # <<>>
    BY <1>2
  <2>2. 1 \in 1 .. Len(d.data[i]) /\ d.data[i][1] \in Nat
    BY <2>1
  <2>3. 1 <= d.data[i][1] /\ d.data[i][1] <= n
    BY <2>2
  <2> QED BY <1>1, <2>2, <2>3
<1>4. PICK f : f = [i \in Inodes |-> d.data[i][1]]
  OBVIOUS
<1>5. f \in [Inodes -> 1 .. MaxLines]
  BY <1>3, <1>4
<1>6. IsFiniteSet(1 .. MaxLines) /\ Cardinality(1 .. MaxLines) = MaxLines
  <2>1. 1 \in Int /\ MaxLines \in Int
    BY <1>1
  <2>2. Cardinality(1 .. MaxLines) = IF 1 > MaxLines THEN 0 ELSE MaxLines - 1 + 1
    BY <2>1, FS_Interval
  <2> QED BY <1>1, <2>1, <2>2, FS_Interval
<1>7. IsFiniteSet(Inodes) /\ Cardinality(Inodes) = MaxSpawns + MaxLines
  <2>1. PICK m \in Nat : m = MaxSpawns + MaxLines
    BY <1>1
  <2>2. 1 \in Int /\ m \in Int /\ ~(1 > m)
    BY <1>1, <2>1
  <2>3. IsFiniteSet(1 .. m) /\ Cardinality(1 .. m) = m - 1 + 1
    BY <2>2, FS_Interval
  <2> QED BY <2>1, <2>3 DEF Inodes
<1>8. Cardinality(1 .. MaxLines) < Cardinality(Inodes)
  BY <1>1, <1>6, <1>7
<1>9. \E x, y \in Inodes : x # y /\ f[x] = f[y]
  <2>1. PICK S, T : S = Inodes /\ T = 1 .. MaxLines
    OBVIOUS
  <2>2. IsFiniteSet(S) /\ IsFiniteSet(T) /\ Cardinality(T) < Cardinality(S) /\ f \in [S -> T]
    BY <1>5, <1>6, <1>7, <1>8, <2>1
  <2>3. \E x, y \in S : x # y /\ f[x] = f[y]
    BY <2>2, FS_PigeonHole
  <2> QED BY <2>1, <2>3
<1> QED BY <1>4, <1>9

------------------------------------------------------------------------------
\* a step that no writer takes part in
LEMMA FileSame ==
    ASSUME LogInv, FileInv, UNCHANGED <<writer, disk, runtime>>, made' <= MaxLines,
           sent' = sent \/ \E l \in Lines : sent' = Append(sent, l)
    PROVE  FileInv'
<1>1. WritersInv' /\ Alone' = Alone
  BY DEF FileInv, WritersInv, Alone
<1>2. ASSUME Alone PROVE LoneWriterInv(writer[1], disk)'
  <2>1. PICK w, d : w = writer[1] /\ d = disk
    OBVIOUS
  <2>2. LoneWriterInv(w, d)
    BY <1>2, <2>1 DEF FileInv
  <2>3. sent \in Seq(Lines) /\ Len(sent) \in Nat
    BY DEF LogInv, LogType
  <2>4. Len(sent') \in Nat /\ Len(sent) <= Len(sent')
    BY <2>3
  <2>5. w.pc # "off" => w.next <= Len(sent') + 1
    BY <2>2, <2>3, <2>4 DEF LoneWriterInv
  <2>6. ASSUME w.pc # "off" PROVE Took(sent', w.from, w.next) = Took(sent, w.from, w.next)
    <3>1. w.from \in Nat /\ w.next \in Nat /\ 1 <= w.from /\ w.from <= w.next /\ w.next <= Len(sent) + 1
      BY <2>2, <2>6 DEF LoneWriterInv
    <3>2. CASE sent' = sent
      BY <3>2
    <3>3. CASE \E l \in Lines : sent' = Append(sent, l)
      BY <2>3, <3>1, <3>3, TookSame
    <3> QED BY <3>2, <3>3
  <2>7. TailInv(w, d, Took(sent', w.from, w.next))
    BY <2>2, <2>6 DEF LoneWriterInv, TailInv
  <2>8. LoneWriterInv(w, d)'
    BY <2>2, <2>5, <2>7 DEF LoneWriterInv
  <2> QED BY <2>1, <2>8
<1> QED BY <1>1, <1>2 DEF FileInv

\* a step of writer k
LEMMA FileStep ==
    ASSUME FileInv, NEW k \in Spawns, NEW r, SetWriter(k, r), IsWriter(r), r.pc # "off",
           k = 1 /\ Alone => LoneWriterInv(r, disk')
    PROVE  FileInv'
<1>1. /\ writer' = [writer EXCEPT ![k] = r]
      /\ UNCHANGED <<runtime, made, sent>>
  BY DEF SetWriter
<1>2. writer = [j \in Spawns |-> writer[j]] /\ \A j \in Spawns : IsWriter(writer[j])
  BY DEF FileInv, WritersInv
<1>3. writer'[k] = r /\ \A j \in Spawns : j # k => writer'[j] = writer[j]
  BY <1>1, <1>2
<1>4. WritersInv'
  <2>1. writer' = [j \in Spawns |-> writer'[j]]
    BY <1>1, <1>2
  <2>2. \A j \in Spawns : IsWriter(writer'[j])
    BY <1>2, <1>3
  <2> QED BY <2>1, <2>2 DEF WritersInv
<1>5. ASSUME Alone' PROVE LoneWriterInv(writer[1], disk)'
  <2>1. k = 1
    BY <1>3, <1>5 DEF Alone
  <2>2. Alone
    BY <1>3, <1>5, <2>1 DEF Alone
  <2>3. LoneWriterInv(r, disk')
    BY <2>1, <2>2
  <2> QED BY <1>1, <1>3, <2>1, <2>3 DEF LoneWriterInv
<1> QED BY <1>1, <1>4, <1>5 DEF FileInv

\* what holds before a step of writer k
LEMMA WriterFacts ==
    ASSUME LogInv, FileInv, NEW k \in Spawns
    PROVE  /\ IsWriter(writer[k])
           /\ sent \in Seq(Lines) /\ Len(sent) \in Nat
           /\ k = 1 /\ Alone => LoneWriterInv(writer[1], disk)
  BY DEF FileInv, WritersInv, LogInv, LogType

LEMMA RegisterStep ==
    ASSUME LogInv, FileInv, NEW k \in Spawns, Register(k)
    PROVE  FileInv'
<1>1. PICK r : r = [NoWriter EXCEPT !.pc = "open", !.next = Subscribed, !.from = Subscribed]
  OBVIOUS
<1>2. /\ r = [pc |-> "open", next |-> Subscribed, from |-> Subscribed, bytes |-> 0, inode |-> 0, lagged |-> FALSE]
      /\ runtime = "local" /\ writer[k].pc = "off" /\ SetWriter(k, r) /\ disk' = disk
  BY <1>1 DEF Register, NoWriter
<1>3. IsWriter(r) /\ r.pc = "open"
  BY <1>2 DEF IsWriter
<1>4. ASSUME k = 1, Alone PROVE LoneWriterInv(r, disk)
  <2>1. PICK d : d = disk
    OBVIOUS
  <2>2. sent \in Seq(Lines) /\ Len(sent) \in Nat /\ LoneWriterInv(writer[1], d)
    BY <1>4, <2>1, WriterFacts
  <2>3. /\ d \in Disks /\ d.path = 0 /\ d.old = 0 /\ \A i \in Inodes : d.data[i] = <<>>
    BY <1>2, <1>4, <2>2 DEF LoneWriterInv, StageInv
  <2>4. r.next = Len(sent) + 1 /\ r.from = Len(sent) + 1 /\ r.bytes = 0 /\ r.inode = 0
    BY <1>2 DEF Subscribed
  <2>5. StageInv(r, d)
    BY <1>3, <2>3, <2>4 DEF StageInv
  <2>6. FilesInv(r, d)
    BY <2>3 DEF FilesInv
  <2>7. Took(sent, r.from, r.next) = <<>>
    BY <2>2, <2>4, TookFacts
  <2>8. Kept(d) = <<>> /\ Ends(<<>>, <<>>)
    BY <2>3 DEF Kept, FileOf, Ends
  <2>9. TailInv(r, d, Took(sent, r.from, r.next))
    BY <2>7, <2>8 DEF TailInv
  <2> QED BY <1>2, <2>1, <2>2, <2>3, <2>4, <2>5, <2>6, <2>9 DEF LoneWriterInv
<1> QED BY <1>2, <1>3, <1>4, FileStep

LEMMA OpenStep ==
    ASSUME LogInv, FileInv, NEW k \in Spawns, Open(k)
    PROVE  FileInv'
<1>1. PICK w : w = writer[k]
  OBVIOUS
<1>2. IsWriter(w) /\ w.pc \in {"open", "reopen"}
  BY <1>1, WriterFacts DEF Open
<1>3. CASE disk' = disk /\ SetWriter(k, [w EXCEPT !.pc = "ended", !.inode = 0])
  <2>1. PICK r : r = [w EXCEPT !.pc = "ended", !.inode = 0]
    OBVIOUS
  <2>2. r = [pc |-> "ended", next |-> w.next, from |-> w.from, bytes |-> w.bytes, inode |-> 0, lagged |-> w.lagged]
    BY <1>2, <2>1 DEF IsWriter
  <2>3. IsWriter(r) /\ r.pc = "ended"
    BY <2>2 DEF IsWriter
  <2>4. ASSUME k = 1, Alone PROVE LoneWriterInv(r, disk)
    <3>1. PICK d : d = disk
      OBVIOUS
    <3>2. LoneWriterInv(w, d)
      BY <1>1, <2>4, <3>1, WriterFacts
    <3>3. StageInv(r, d) /\ FilesInv(r, d)
      BY <2>2, <3>2 DEF LoneWriterInv, StageInv, FilesInv
    <3>4. TailInv(r, d, Took(sent, r.from, r.next))
      BY <2>3 DEF TailInv
    <3> QED BY <1>2, <2>2, <3>1, <3>2, <3>3, <3>4 DEF LoneWriterInv
  <2> QED BY <1>3, <2>1, <2>3, <2>4, FileStep
<1>4. CASE \E i : /\ i = IF disk.path = 0 THEN FreshInode ELSE disk.path
                  /\ disk' = [disk EXCEPT !.path = i]
                  /\ SetWriter(k, [w EXCEPT !.pc = "recv", !.inode = i, !.bytes = 0])
  <2>1. PICK i : /\ i = IF disk.path = 0 THEN FreshInode ELSE disk.path
                 /\ disk' = [disk EXCEPT !.path = i]
                 /\ SetWriter(k, [w EXCEPT !.pc = "recv", !.inode = i, !.bytes = 0])
    BY <1>4
  <2>2. PICK r : r = [w EXCEPT !.pc = "recv", !.inode = i, !.bytes = 0]
    OBVIOUS
  <2>3. r = [pc |-> "recv", next |-> w.next, from |-> w.from, bytes |-> 0, inode |-> i, lagged |-> w.lagged]
    BY <1>2, <2>2 DEF IsWriter
  <2>4. IsWriter(r) /\ r.pc = "recv"
    BY <2>3 DEF IsWriter
  <2>5. ASSUME k = 1, Alone PROVE LoneWriterInv(r, disk')
    <3>1. PICK d, e : d = disk /\ e = disk'
      OBVIOUS
    <3>2. LoneWriterInv(w, d) /\ sent \in Seq(Lines) /\ Len(sent) \in Nat
      BY <1>1, <2>5, <3>1, WriterFacts
    <3>3. d \in Disks /\ d.path = 0 /\ w.inode = 0 /\ StageInv(w, d) /\ FilesInv(w, d)
      BY <1>2, <3>2 DEF LoneWriterInv, StageInv
    <3>4. \E h \in Inodes : d.data[h] = <<>> /\ h # d.path /\ h # d.old /\ \A j \in Spawns : writer[j].inode # h
      <4>1. w.next \in Nat /\ 1 <= w.next /\ w.next <= Len(sent) + 1 /\ w.from \in Nat /\ runtime = "local"
        BY <1>2, <3>2 DEF LoneWriterInv
      <4>2. Len(sent) = made /\ made <= MaxLines
        BY <4>1 DEF LogInv, LocalInv, FileInv
      <4>3. PICK n \in Nat : n = w.next - 1
        BY <4>1
      <4>4. n <= MaxLines
        BY <3>2, <4>1, <4>2, <4>3, LogAssumption
      <4>5. ASSUME NEW h \in Inodes, NEW a \in 1 .. Len(d.data[h])
            PROVE  1 <= d.data[h][a] /\ d.data[h][a] <= n
        <5>1. d.data[h] \in Seq(Nat)
          BY <3>3, DiskFacts
        <5>2. d.data[h][a] \in Nat
          BY <5>1
        <5>3. 1 <= d.data[h][a] /\ d.data[h][a] < w.next
          BY <3>3 DEF FilesInv
        <5> QED BY <4>1, <4>3, <5>2, <5>3
      <4>6. PICK h \in Inodes : d.data[h] = <<>>
        BY <3>3, <4>4, <4>5, InodeLeft DEF FilesInv
      <4>7. h # 0 /\ h # d.path
        BY <3>3, <4>6, DiskFacts
      <4>8. h # d.old
        <5> SUFFICES ASSUME h = d.old PROVE FALSE
          OBVIOUS
        <5>1. RotateBytes > 0 /\ Len(d.data[h]) = RotateBytes
          BY <3>3, <4>7 DEF StageInv
        <5>2. Len(<<>>) = 0
          OBVIOUS
        <5> QED BY <4>6, <5>1, <5>2, LogAssumption
      <4>9. ASSUME NEW j \in Spawns PROVE writer[j].inode = 0
        <5>1. CASE j = 1
          BY <1>1, <2>5, <3>3, <5>1
        <5>2. CASE j # 1
          <6>1. writer[j].pc = "off"
            BY <2>5, <5>2 DEF Alone
          <6>2. writer[j] = NoWriter
            BY <6>1, WriterFacts DEF IsWriter
          <6> QED BY <6>2 DEF NoWriter
        <5> QED BY <5>1, <5>2
      <4> QED BY <4>6, <4>7, <4>8, <4>9
    <3>5. /\ i \in Inodes /\ d.data[i] = <<>> /\ i # d.old /\ i # 0
      <4>1. i = CHOOSE h \in Inodes : d.data[h] = <<>> /\ h # d.path /\ h # d.old
                                      /\ \A j \in Spawns : writer[j].inode # h
        BY <2>1, <3>1, <3>3 DEF FreshInode
      <4>2. i \in Inodes /\ d.data[i] = <<>> /\ i # d.old
        BY <3>4, <4>1
      <4> QED BY <3>3, <4>2, DiskFacts
    <3>6. e \in Disks /\ e.path = i /\ e.old = d.old /\ e.data = d.data
      <4>1. e = [d EXCEPT !.path = i]
        BY <2>1, <3>1
      <4> QED BY <3>3, <3>5, <4>1 DEF Disks
    <3>7. Len(e.data[e.path]) = 0
      BY <3>5, <3>6
    <3>8. StageInv(r, e)
      <4>1. d.old # 0 => RotateBytes > 0 /\ Len(d.data[d.old]) = RotateBytes
        BY <3>3 DEF StageInv
      <4>2. RotateBytes > 0 => 0 < RotateBytes
        BY LogAssumption
      <4> QED BY <2>3, <3>5, <3>6, <3>7, <4>1, <4>2 DEF StageInv
    <3>9. FilesInv(r, e)
      BY <2>3, <3>3, <3>6 DEF FilesInv
    <3>10. Kept(e) = Kept(d)
      <4>1. FileOf(d, d.path) = <<>> /\ FileOf(e, e.path) = <<>>
        BY <3>3, <3>5, <3>6 DEF FileOf
      <4>2. FileOf(e, e.old) = FileOf(d, d.old)
        BY <3>6 DEF FileOf
      <4> QED BY <4>1, <4>2 DEF Kept
    <3>11. TailInv(r, e, Took(sent, r.from, r.next))
      BY <1>2, <2>3, <3>2, <3>6, <3>10 DEF LoneWriterInv, TailInv
    <3>12. r.next = w.next /\ r.from = w.from /\ r.bytes = 0
      BY <2>3
    <3> QED BY <1>2, <3>1, <3>2, <3>6, <3>8, <3>9, <3>11, <3>12 DEF LoneWriterInv
  <2> QED BY <2>1, <2>2, <2>4, <2>5, FileStep
<1> QED BY <1>1, <1>3, <1>4 DEF Open

LEMMA AppendNat ==
    ASSUME NEW s \in Seq(Nat), NEW x \in Nat
    PROVE  Append(s, x) \in Seq(Nat)
  OBVIOUS

\* a line that goes to the second of two files
LEMMA AppendLast ==
    ASSUME NEW a \in Seq(Nat), NEW b \in Seq(Nat), NEW x \in Nat
    PROVE  a \o Append(b, x) = Append(a \o b, x)
<1>1. PICK m \in Nat, n \in Nat : m = Len(a) /\ n = Len(b)
  OBVIOUS
<1>2. PICK c, d : c = Append(b, x) /\ d = a \o b
  OBVIOUS
<1>3. c \in Seq(Nat) /\ Len(c) = n + 1 /\ c[n + 1] = x /\ \A i \in 1 .. n : c[i] = b[i]
  BY <1>1, <1>2
<1>4. /\ d \in Seq(Nat) /\ Len(d) = m + n
      /\ \A i \in 1 .. m : d[i] = a[i]
      /\ \A i \in 1 .. n : d[m + i] = b[i]
  BY <1>1, <1>2
<1>5. PICK p, q : p = a \o c /\ q = Append(d, x)
  OBVIOUS
<1>6. /\ p \in Seq(Nat) /\ Len(p) = m + n + 1
      /\ \A i \in 1 .. m : p[i] = a[i]
      /\ \A i \in 1 .. n + 1 : p[m + i] = c[i]
  <2>1. PICK h \in Nat : h = Len(c)
    BY <1>3
  <2>0. c \in Seq(Nat)
    BY <1>3
  <2>2. /\ p \in Seq(Nat) /\ Len(p) = m + h
        /\ \A i \in 1 .. m : p[i] = a[i]
        /\ \A i \in 1 .. h : p[m + i] = c[i]
    BY <1>1, <1>5, <2>0, <2>1
  <2>3. h = n + 1 /\ m + h = m + n + 1
    BY <1>3, <2>1
  <2> QED BY <2>2, <2>3
<1>7. q \in Seq(Nat) /\ Len(q) = m + n + 1 /\ q[m + n + 1] = x /\ \A i \in 1 .. m + n : q[i] = d[i]
  <2>1. q \in Seq(Nat) /\ Len(q) = (m + n) + 1 /\ q[(m + n) + 1] = x
    BY <1>4, <1>5
  <2>2. \A i \in 1 .. m + n : q[i] = d[i]
    BY <1>4, <1>5
  <2> QED BY <2>1, <2>2
<1>8. ASSUME NEW i \in 1 .. m + n + 1 PROVE p[i] = q[i]
  <2>1. CASE i \in 1 .. m
    BY <1>4, <1>6, <1>7, <2>1
  <2>2. CASE i \in m + 1 .. m + n
    <3>1. PICK j \in 1 .. n : i = m + j
      BY <2>2
    <3>2. p[m + j] = c[j] /\ c[j] = b[j]
      BY <1>3, <1>6
    <3>3. q[m + j] = d[m + j] /\ d[m + j] = b[j]
      BY <1>4, <1>7
    <3> QED BY <3>1, <3>2, <3>3
  <2>3. CASE i = m + n + 1
    <3>1. n + 1 \in 1 .. n + 1 /\ i = m + (n + 1)
      BY <2>3
    <3> QED BY <1>3, <1>6, <1>7, <2>3, <3>1
  <2> QED BY <2>1, <2>2, <2>3
<1>9. p = q
  BY <1>6, <1>7, <1>8, SeqEqual
<1> QED BY <1>2, <1>5, <1>9

\* the writer passes over a line of another service, or ends because it
\* cannot write one
LEMMA WriterPasses ==
    ASSUME LogInv, FileInv, NEW k \in Spawns, NEW r, NEW w, w = writer[k], w.pc = "recv", Receives(w.next),
           disk' = disk, SetWriter(k, r),
           \/ r = [w EXCEPT !.next = @ + 1] /\ sent[w.next].svc # Logged
           \/ r = [w EXCEPT !.next = @ + 1, !.pc = "ended", !.inode = 0]
    PROVE  FileInv'
<1>1. IsWriter(w) /\ sent \in Seq(Lines) /\ Len(sent) \in Nat
  BY WriterFacts
<1>2. /\ r = [pc |-> r.pc, next |-> w.next + 1, from |-> w.from, bytes |-> w.bytes, inode |-> r.inode,
              lagged |-> w.lagged]
      /\ \/ r.pc = "recv" /\ r.inode = w.inode /\ sent[w.next].svc # Logged
         \/ r.pc = "ended"
  BY <1>1 DEF IsWriter
<1>3. IsWriter(r) /\ r.pc # "off"
  BY <1>2 DEF IsWriter
<1>4. ASSUME k = 1, Alone PROVE LoneWriterInv(r, disk)
  <2>1. PICK d : d = disk
    OBVIOUS
  <2>2. LoneWriterInv(w, d)
    BY <1>4, <2>1, WriterFacts
  <2>3. /\ d \in Disks /\ w.next \in Nat /\ w.from \in Nat /\ w.bytes \in Nat /\ runtime = "local"
        /\ 1 <= w.from /\ w.from <= w.next /\ w.next <= Len(sent) + 1
    BY <2>2 DEF LoneWriterInv
  <2>4. w.next <= Len(sent)
    BY DEF Receives
  <2>5. StageInv(r, d)
    BY <1>2, <2>2 DEF LoneWriterInv, StageInv
  <2>6. FilesInv(r, d)
    <3>1. FilesInv(w, d)
      BY <2>2 DEF LoneWriterInv
    <3>2. ASSUME NEW i \in Inodes, NEW a \in 1 .. Len(d.data[i])
          PROVE  1 <= d.data[i][a] /\ d.data[i][a] < w.next + 1
      <4>1. d.data[i] \in Seq(Nat)
        BY <2>3, DiskFacts
      <4>2. d.data[i][a] \in Nat
        BY <4>1
      <4>3. 1 <= d.data[i][a] /\ d.data[i][a] < w.next
        BY <3>1 DEF FilesInv
      <4> QED BY <2>3, <4>2, <4>3
    <3>3. r.next = w.next + 1
      BY <1>2
    <3> QED BY <3>1, <3>2, <3>3 DEF FilesInv
  <2>7. TailInv(r, d, Took(sent, r.from, r.next))
    <3>1. CASE r.pc = "ended"
      BY <3>1 DEF TailInv
    <3>2. CASE r.pc = "recv" /\ sent[w.next].svc # Logged
      <4>1. Took(sent, w.from, w.next + 1) = Took(sent, w.from, w.next)
        BY <1>1, <2>3, <2>4, <3>2, TookFacts
      <4>2. TailInv(w, d, Took(sent, w.from, w.next))
        BY <2>2 DEF LoneWriterInv
      <4> QED BY <1>2, <4>1, <4>2 DEF TailInv
    <3> QED BY <1>2, <3>1, <3>2
  <2>8. /\ r.next \in Nat /\ r.from \in Nat /\ r.bytes \in Nat
        /\ 1 <= r.from /\ r.from <= r.next /\ r.next <= Len(sent) + 1
    BY <1>1, <1>2, <2>3, <2>4
  <2> QED BY <2>1, <2>3, <2>5, <2>6, <2>7, <2>8 DEF LoneWriterInv
<1> QED BY <1>3, <1>4, FileStep

\* the writer appends a line of its service, and rotates when the file is full
LEMMA WriterWrites ==
    ASSUME LogInv, FileInv, NEW k \in Spawns, NEW r, NEW w, w = writer[k], w.pc = "recv", Receives(w.next),
           sent[w.next].svc = Logged,
           disk' = [disk EXCEPT !.data[w.inode] = Append(@, sent[w.next].id)], SetWriter(k, r),
           r = [w EXCEPT !.next = @ + 1, !.bytes = @ + 1, !.pc = IF Full(w.bytes + 1) THEN "rename" ELSE "recv"]
    PROVE  FileInv'
<1>1. IsWriter(w) /\ sent \in Seq(Lines) /\ Len(sent) \in Nat
  BY WriterFacts
<1>2. /\ r = [pc |-> r.pc, next |-> w.next + 1, from |-> w.from, bytes |-> w.bytes + 1, inode |-> w.inode,
              lagged |-> w.lagged]
      /\ r.pc = IF Full(w.bytes + 1) THEN "rename" ELSE "recv"
  BY <1>1 DEF IsWriter
<1>3. IsWriter(r) /\ r.pc # "off"
  BY <1>2 DEF IsWriter
<1>4. ASSUME k = 1, Alone PROVE LoneWriterInv(r, disk')
  <2>1. PICK d, e : d = disk /\ e = disk'
    OBVIOUS
  <2>2. LoneWriterInv(w, d)
    BY <1>4, <2>1, WriterFacts
  <2>3. /\ d \in Disks /\ w.next \in Nat /\ w.from \in Nat /\ w.bytes \in Nat /\ runtime = "local"
        /\ 1 <= w.from /\ w.from <= w.next /\ w.next <= Len(sent) + 1
    BY <2>2 DEF LoneWriterInv
  <2>4. w.next \in 1 .. Len(sent)
    BY <1>1, <2>3, OldestFacts
  <2>5. PICK x \in Nat : x = w.next /\ sent[w.next].id = x
    BY <2>3, <2>4 DEF LogInv, LocalInv
  <2>6. /\ d.path \in Inodes /\ w.inode = d.path /\ d.old # d.path /\ w.bytes = Len(d.data[d.path])
        /\ RotateBytes > 0 => w.bytes < RotateBytes
        /\ d.old # 0 => RotateBytes > 0 /\ Len(d.data[d.old]) = RotateBytes
    <3>1. StageInv(w, d)
      BY <2>2 DEF LoneWriterInv
    <3> QED BY <2>3, <3>1, DiskFacts DEF StageInv
  <2>7. PICK f \in Seq(Nat) : f = d.data[d.path]
    BY <2>3, <2>6, DiskFacts
  <2>8. PICK g \in Seq(Nat) : g = Append(f, x)
    BY AppendNat
  <2>9. e \in Disks /\ e.path = d.path /\ e.old = d.old /\ e.data = [d.data EXCEPT ![d.path] = g]
    <3>1. e = [d EXCEPT !.data[d.path] = g]
      BY <2>1, <2>5, <2>6, <2>7, <2>8
    <3> QED BY <2>3, <2>6, <3>1 DEF Disks
  <2>10. e.data[d.path] = g /\ \A i \in Inodes : i # d.path => e.data[i] = d.data[i]
    BY <2>3, <2>6, <2>9, DiskFacts
  <2>11. Len(g) = w.bytes + 1 /\ g[w.bytes + 1] = x /\ \A a \in 1 .. w.bytes : g[a] = f[a]
    BY <2>6, <2>7, <2>8
  <2>12. StageInv(r, e)
    <3>1. d.old # 0 => d.old \in Inodes /\ e.data[d.old] = d.data[d.old]
      BY <2>3, <2>6, <2>10, DiskFacts
    <3>2. RotateBytes \in Nat /\ d.path # 0
      BY <2>3, <2>6, DiskFacts, LogAssumption
    <3>3. CASE Full(w.bytes + 1)
      <4>1. RotateBytes > 0 /\ w.bytes + 1 = RotateBytes /\ r.pc = "rename"
        BY <1>2, <2>3, <2>6, <3>2, <3>3, SMTT(30) DEF Full
      <4>2. r.inode = w.inode /\ r.bytes = w.bytes + 1
        BY <1>2
      <4> QED BY <2>6, <2>9, <2>10, <2>11, <3>1, <3>2, <4>1, <4>2 DEF StageInv
    <3>4. CASE ~Full(w.bytes + 1)
      <4>1. (RotateBytes > 0 => w.bytes + 1 < RotateBytes) /\ r.pc = "recv"
        BY <1>2, <2>3, <2>6, <3>2, <3>4 DEF Full
      <4>2. r.inode = w.inode /\ r.bytes = w.bytes + 1
        BY <1>2
      <4> QED BY <2>6, <2>9, <2>10, <2>11, <3>1, <3>2, <4>1, <4>2 DEF StageInv
    <3> QED BY <3>3, <3>4
  <2>13. FilesInv(r, e)
    <3>1. FilesInv(w, d)
      BY <2>2 DEF LoneWriterInv
    <3>2. \A i \in Inodes : d.data[i] \in Seq(Nat)
      BY <2>3, DiskFacts
    <3>3. \A i \in Inodes : \A a \in 1 .. Len(d.data[i]) :
             d.data[i][a] \in Nat /\ 1 <= d.data[i][a] /\ d.data[i][a] < x
      BY <2>5, <3>1, <3>2, SMTT(30) DEF FilesInv
    <3>4. ASSUME NEW i \in Inodes, NEW a \in 1 .. Len(e.data[i])
          PROVE  1 <= e.data[i][a] /\ e.data[i][a] < w.next + 1
      <4>1. CASE i # d.path
        <5>1. e.data[i] = d.data[i]
          BY <2>10, <4>1
        <5>2. e.data[i][a] \in Nat /\ 1 <= e.data[i][a] /\ e.data[i][a] < x
          BY <3>3, <5>1
        <5> QED BY <2>5, <5>2
      <4>2. CASE i = d.path
        <5>1. e.data[i] = g /\ a \in 1 .. w.bytes + 1
          BY <2>10, <2>11, <4>2
        <5>2. CASE a = w.bytes + 1
          BY <2>4, <2>5, <2>11, <5>1, <5>2
        <5>3. CASE a \in 1 .. w.bytes
          <6>1. g[a] = f[a] /\ f[a] \in Nat /\ 1 <= f[a] /\ f[a] < x
            BY <2>6, <2>7, <2>11, <3>3, <5>3
          <6> QED BY <2>5, <5>1, <6>1
        <5>4. a = w.bytes + 1 \/ a \in 1 .. w.bytes
          <6>1. w.bytes \in Nat
            BY <2>3
          <6> QED BY <5>1, <6>1, SMTT(30)
        <5> QED BY <5>2, <5>3, <5>4
      <4> QED BY <4>1, <4>2
    <3>5. ASSUME NEW i \in Inodes, i # d.path, e.data[i] # <<>> PROVE e.data[i][1] # g[1]
      <4>1. d.data[i] = e.data[i] /\ d.data[i] \in Seq(Nat) /\ d.data[i] # <<>>
        BY <2>10, <3>2, <3>5
      <4>2. 1 \in 1 .. Len(d.data[i])
        BY <4>1
      <4>3. CASE w.bytes = 0
        <5>1. g[1] = x
          BY <2>11, <4>3
        <5>2. d.data[i][1] \in Nat /\ d.data[i][1] < x
          BY <3>3, <4>2
        <5> QED BY <4>1, <5>1, <5>2
      <4>4. CASE w.bytes # 0
        <5>1. 1 \in 1 .. w.bytes /\ f # <<>>
          BY <2>3, <2>6, <2>7, <4>4
        <5>2. g[1] = f[1]
          BY <2>11, <5>1
        <5>3. d.data[i][1] # d.data[d.path][1]
          BY <2>6, <2>7, <3>1, <3>5, <4>1, <5>1 DEF FilesInv
        <5> QED BY <2>7, <4>1, <5>2, <5>3
      <4> QED BY <4>3, <4>4
    <3>6. ASSUME NEW i \in Inodes, NEW j \in Inodes, i # j, e.data[i] # <<>>, e.data[j] # <<>>
          PROVE  e.data[i][1] # e.data[j][1]
      <4>1. CASE i = d.path
        BY <2>10, <3>5, <3>6, <4>1
      <4>2. CASE j = d.path
        BY <2>10, <3>5, <3>6, <4>2
      <4>3. CASE i # d.path /\ j # d.path
        BY <2>10, <3>1, <3>6, <4>3 DEF FilesInv
      <4> QED BY <4>1, <4>2, <4>3
    <3>7. r.next = w.next + 1
      BY <1>2
    <3> QED BY <3>4, <3>6, <3>7 DEF FilesInv
  <2>14. TailInv(r, e, Took(sent, r.from, r.next))
    <3>1. PICK t \in Seq(Nat) : t = Took(sent, w.from, w.next)
      BY <1>1, <2>3, TookFacts
    <3>2. Took(sent, r.from, r.next) = Append(t, x)
      <4>1. Took(sent, w.from, w.next + 1) = Append(t, x)
        <5>1. w.next <= Len(sent)
          BY <2>4
        <5>2. Took(sent, w.from, w.next + 1) = Append(Took(sent, w.from, w.next), sent[w.next].id)
          BY <1>1, <2>3, <5>1, TookFacts
        <5> QED BY <2>5, <3>1, <5>2
      <4> QED BY <1>2, <4>1
    <3>3. Kept(e) = Append(Kept(d), x)
      <4>1. PICK o \in Seq(Nat) : o = FileOf(d, d.old)
        BY <2>3, DiskFacts
      <4>2. FileOf(e, e.old) = o
        BY <2>3, <2>6, <2>9, <2>10, <4>1, DiskFacts DEF FileOf
      <4>3. FileOf(d, d.path) = f /\ FileOf(e, e.path) = g
        BY <2>3, <2>6, <2>7, <2>9, <2>10, DiskFacts DEF FileOf
      <4>4. o \o Append(f, x) = Append(o \o f, x)
        BY AppendLast
      <4> QED BY <2>8, <4>1, <4>2, <4>3, <4>4 DEF Kept
    <3>4. TailInv(w, d, t)
      BY <2>2, <3>1 DEF LoneWriterInv
    <3>5. ASSUME ~w.lagged PROVE Ends(Kept(e), Append(t, x)) /\ (d.old = 0 => Kept(e) = Append(t, x))
      <4>1. Ends(Kept(d), t) /\ (d.old = 0 => Kept(d) = t)
        BY <3>4, <3>5 DEF TailInv
      <4>2. Kept(d) \in Seq(Nat)
        BY <2>3, DiskFacts
      <4> QED BY <3>1, <3>3, <4>1, <4>2, EndsFacts
    <3>6. r.lagged = w.lagged
      BY <1>2
    <3> QED BY <2>9, <3>2, <3>5, <3>6 DEF TailInv
  <2>15. /\ r.next \in Nat /\ r.from \in Nat /\ r.bytes \in Nat
         /\ 1 <= r.from /\ r.from <= r.next /\ r.next <= Len(sent) + 1
    <3>1. r.next = w.next + 1 /\ r.from = w.from /\ r.bytes = w.bytes + 1
      BY <1>2
    <3>2. w.next <= Len(sent)
      BY <2>4
    <3>3. PICK q \in Nat, u \in Nat, b \in Nat, n \in Nat : q = w.next /\ u = w.from /\ b = w.bytes /\ n = Len(sent)
      BY <1>1, <2>3
    <3>4. 1 <= u /\ u <= q /\ q <= n
      BY <2>3, <3>2, <3>3
    <3>5. q + 1 \in Nat /\ b + 1 \in Nat /\ u <= q + 1 /\ q + 1 <= n + 1
      BY <3>4
    <3> QED BY <3>1, <3>3, <3>4, <3>5
  <2> QED BY <2>1, <2>3, <2>9, <2>12, <2>13, <2>14, <2>15 DEF LoneWriterInv
<1> QED BY <1>3, <1>4, FileStep

LEMMA WriterRecvStep ==
    ASSUME LogInv, FileInv, NEW k \in Spawns, WriterRecv(k)
    PROVE  FileInv'
<1>1. PICK w : w = writer[k] /\ w.pc = "recv" /\ Receives(w.next)
  BY DEF WriterRecv
<1>2. IsWriter(w)
  BY <1>1, WriterFacts
<1>3. PICK v : v = [w EXCEPT !.next = @ + 1]
  OBVIOUS
<1>4. v.inode = w.inode /\ v.bytes = w.bytes
  BY <1>2, <1>3 DEF IsWriter
<1>5. CASE sent[w.next].svc # Logged /\ SetWriter(k, v) /\ UNCHANGED disk
  BY <1>1, <1>3, <1>5, WriterPasses
<1>6. CASE /\ sent[w.next].svc = Logged
           /\ disk' = [disk EXCEPT !.data[w.inode] = Append(@, sent[w.next].id)]
           /\ SetWriter(k, [v EXCEPT !.bytes = @ + 1, !.pc = IF Full(w.bytes + 1) THEN "rename" ELSE "recv"])
  <2>1. [v EXCEPT !.bytes = @ + 1, !.pc = IF Full(w.bytes + 1) THEN "rename" ELSE "recv"]
           = [w EXCEPT !.next = @ + 1, !.bytes = @ + 1, !.pc = IF Full(w.bytes + 1) THEN "rename" ELSE "recv"]
    BY <1>2, <1>3 DEF IsWriter
  <2> QED BY <1>1, <1>6, <2>1, WriterWrites
<1>7. CASE SetWriter(k, [v EXCEPT !.pc = "ended", !.inode = 0]) /\ UNCHANGED disk
  <2>1. [v EXCEPT !.pc = "ended", !.inode = 0] = [w EXCEPT !.next = @ + 1, !.pc = "ended", !.inode = 0]
    BY <1>2, <1>3 DEF IsWriter
  <2> QED BY <1>1, <1>7, <2>1, WriterPasses
<1> QED BY <1>1, <1>3, <1>4, <1>5, <1>6, <1>7 DEF WriterRecv

\* the file becomes the rotated one: what it holds is still what was taken last
LEMMA RenameStep ==
    ASSUME LogInv, FileInv, NEW k \in Spawns, Rename(k)
    PROVE  FileInv'
<1>1. PICK w : w = writer[k] /\ w.pc = "rename"
  BY DEF Rename
<1>2. IsWriter(w)
  BY <1>1, WriterFacts
<1>3. PICK r : r = [w EXCEPT !.pc = "reopen", !.inode = 0]
  OBVIOUS
<1>4. r = [pc |-> "reopen", next |-> w.next, from |-> w.from, bytes |-> w.bytes, inode |-> 0, lagged |-> w.lagged]
  BY <1>2, <1>3 DEF IsWriter
<1>5. SetWriter(k, r) /\ disk' = IF disk.path = 0 THEN disk ELSE [disk EXCEPT !.path = 0, !.old = disk.path]
  BY <1>1, <1>3 DEF Rename
<1>6. IsWriter(r) /\ r.pc = "reopen"
  BY <1>4 DEF IsWriter
<1>7. ASSUME k = 1, Alone PROVE LoneWriterInv(r, disk')
  <2>1. PICK d, e : d = disk /\ e = disk'
    OBVIOUS
  <2>2. LoneWriterInv(w, d) /\ sent \in Seq(Lines)
    BY <1>1, <1>7, <2>1, WriterFacts
  <2>3. d \in Disks /\ StageInv(w, d) /\ FilesInv(w, d) /\ TailInv(w, d, Took(sent, w.from, w.next))
    BY <2>2 DEF LoneWriterInv
  <2>4. /\ d.path # 0 /\ d.path \in Inodes /\ RotateBytes > 0 /\ Len(d.data[d.path]) = RotateBytes
    BY <1>1, <2>3, DiskFacts DEF StageInv
  <2>5. e \in Disks /\ e.path = 0 /\ e.old = d.path /\ e.data = d.data
    <3>1. e = [d EXCEPT !.path = 0, !.old = d.path]
      BY <1>5, <2>1, <2>4
    <3> QED BY <2>3, <2>4, <3>1 DEF Disks
  <2>6. StageInv(r, e)
    BY <1>4, <2>4, <2>5 DEF StageInv
  <2>7. FilesInv(r, e)
    BY <1>4, <2>3, <2>5 DEF FilesInv
  <2>8. TailInv(r, e, Took(sent, r.from, r.next))
    <3>1. PICK a \in Seq(Nat), b \in Seq(Nat) : a = FileOf(d, d.old) /\ b = FileOf(d, d.path)
      BY <2>3, DiskFacts
    <3>2. Kept(d) = a \o b /\ a \o b \in Seq(Nat)
      BY <2>3, <3>1, DiskFacts DEF Kept
    <3>3. Kept(e) = b
      <4>1. FileOf(e, e.old) = b /\ FileOf(e, e.path) = <<>>
        BY <2>4, <2>5, <3>1 DEF FileOf
      <4>2. b \o <<>> = b
        OBVIOUS
      <4> QED BY <4>1, <4>2 DEF Kept
    <3>4. PICK t \in Seq(Nat) : t = Took(sent, w.from, w.next)
      BY <1>1, <2>2, TookFacts DEF LoneWriterInv
    <3>5. ASSUME ~w.lagged PROVE Ends(b, t)
      <4>1. Ends(a \o b, t)
        BY <1>1, <2>3, <3>2, <3>4, <3>5 DEF TailInv
      <4> QED BY <3>1, <3>2, <3>4, <4>1, EndsFacts
    <3>6. r.lagged = w.lagged /\ r.from = w.from /\ r.next = w.next
      BY <1>4
    <3> QED BY <2>4, <2>5, <3>3, <3>4, <3>5, <3>6 DEF TailInv
  <2> QED BY <1>1, <1>4, <2>1, <2>2, <2>5, <2>6, <2>7, <2>8 DEF LoneWriterInv
<1> QED BY <1>5, <1>6, <1>7, FileStep

LEMMA WriterLaggedStep ==
    ASSUME LogInv, FileInv, NEW k \in Spawns, WriterLagged(k)
    PROVE  FileInv'
<1>1. PICK w : w = writer[k] /\ w.pc = "recv" /\ w.next < Oldest
  BY DEF WriterLagged, Lags
<1>2. IsWriter(w) /\ sent \in Seq(Lines) /\ Len(sent) \in Nat
  BY <1>1, WriterFacts
<1>3. PICK r : r = [w EXCEPT !.next = Oldest, !.lagged = TRUE]
  OBVIOUS
<1>4. r = [pc |-> w.pc, next |-> Oldest, from |-> w.from, bytes |-> w.bytes, inode |-> w.inode, lagged |-> TRUE]
  BY <1>2, <1>3 DEF IsWriter
<1>5. SetWriter(k, r) /\ disk' = disk
  BY <1>1, <1>3 DEF WriterLagged
<1>6. IsWriter(r) /\ r.pc = "recv"
  BY <1>1, <1>4 DEF IsWriter
<1>7. ASSUME k = 1, Alone PROVE LoneWriterInv(r, disk)
  <2>1. PICK d : d = disk
    OBVIOUS
  <2>2. LoneWriterInv(w, d)
    BY <1>1, <1>7, <2>1, WriterFacts
  <2>3. /\ d \in Disks /\ w.next \in Nat /\ w.from \in Nat /\ w.bytes \in Nat /\ runtime = "local"
        /\ 1 <= w.from /\ w.from <= w.next
        /\ StageInv(w, d) /\ FilesInv(w, d)
    BY <1>1, <2>2 DEF LoneWriterInv
  <2>4. PICK h \in Nat : h = Oldest /\ h <= Len(sent) + 1
    BY <1>2, OldestFacts
  <2>5. StageInv(r, d)
    BY <1>1, <1>4, <2>3 DEF StageInv
  <2>6. FilesInv(r, d)
    <3>1. ASSUME NEW i \in Inodes, NEW a \in 1 .. Len(d.data[i])
          PROVE  1 <= d.data[i][a] /\ d.data[i][a] < h
      <4>1. d.data[i] \in Seq(Nat)
        BY <2>3, DiskFacts
      <4>2. PICK x \in Nat : x = d.data[i][a]
        BY <4>1
      <4>3. 1 <= x /\ x < w.next
        BY <2>3, <4>2 DEF FilesInv
      <4>4. x < h
        BY <1>1, <2>3, <2>4, <4>3
      <4> QED BY <4>2, <4>3, <4>4
    <3>2. r.next = h
      BY <1>4, <2>4
    <3> QED BY <2>3, <3>1, <3>2 DEF FilesInv
  <2>7. TailInv(r, d, Took(sent, r.from, r.next))
    BY <1>4 DEF TailInv
  <2>8. w.from <= h
    BY <1>1, <2>3, <2>4
  <2>9. r.next = h /\ r.from = w.from /\ r.bytes = w.bytes
    BY <1>4, <2>4
  <2> QED BY <2>1, <2>3, <2>4, <2>5, <2>6, <2>7, <2>8, <2>9 DEF LoneWriterInv
<1> QED BY <1>5, <1>6, <1>7, FileStep

LEMMA FileInvInit ==
    ASSUME Init
    PROVE  FileInv
<1>1. /\ made = 0 /\ writer = [k \in Spawns |-> NoWriter]
      /\ disk = [path |-> 0, old |-> 0, data |-> [i \in Inodes |-> <<>>]]
  BY DEF Init
<1>2. 1 \in Spawns /\ MaxLines \in Nat
  BY LogAssumption DEF Spawns
<1>3. IsWriter(NoWriter)
  BY DEF IsWriter, NoWriter
<1>4. WritersInv
  BY <1>1, <1>3 DEF WritersInv
<1>5. PICK w, d : w = writer[1] /\ d = disk
  OBVIOUS
<1>6. w = NoWriter /\ w.pc = "off" /\ w.next = 0 /\ w.from = 0 /\ w.bytes = 0
  BY <1>1, <1>2, <1>5 DEF NoWriter
<1>7. /\ d \in Disks /\ d.path = 0 /\ d.old = 0 /\ \A i \in Inodes : d.data[i] = <<>>
  <2>1. <<>> \in Seq(Nat)
    OBVIOUS
  <2>2. [i \in Inodes |-> <<>>] \in [Inodes -> Seq(Nat)]
    BY <2>1
  <2> QED BY <1>1, <1>5, <2>2 DEF Disks
<1>8. StageInv(w, d)
  BY <1>6, <1>7 DEF StageInv
<1>9. FilesInv(w, d)
  BY <1>7 DEF FilesInv
<1>10. TailInv(w, d, Took(sent, w.from, w.next))
  BY <1>6 DEF TailInv
<1>11. LoneWriterInv(w, d)
  BY <1>6, <1>7, <1>8, <1>9, <1>10 DEF LoneWriterInv
<1> QED BY <1>1, <1>2, <1>4, <1>5, <1>11 DEF FileInv

LEMMA FileInvNext ==
    ASSUME LogInv, FileInv, [Next]_vars
    PROVE  FileInv'
<1>1. made \in Nat /\ made <= MaxLines /\ MaxLines \in Nat /\ pushing \in SUBSET Lines
  BY LogAssumption DEF LogInv, LogType, FileInv
<1>2. ASSUME UNCHANGED <<runtime, made, sent, writer, disk>> PROVE FileInv'
  BY <1>1, <1>2, FileSame
<1>3. CASE UNCHANGED vars
  BY <1>2, <1>3 DEF vars
<1>4. ASSUME NEW s \in Services, Emit(s) PROVE FileInv'
  <2>1. [id |-> made + 1, svc |-> s] \in Lines
    BY <1>1, <1>4 DEF Lines
  <2>2. made' <= MaxLines /\ UNCHANGED <<writer, disk, runtime>>
        /\ sent' = Append(sent, [id |-> made + 1, svc |-> s])
    BY <1>1, <1>4 DEF Emit
  <2> QED BY <2>1, <2>2, FileSame
<1>5. ASSUME NEW s \in Services, PushStore(s) PROVE FileInv'
  <2>1. made' <= MaxLines /\ UNCHANGED <<writer, disk, runtime>> /\ sent' = sent
    BY <1>1, <1>5 DEF PushStore
  <2> QED BY <2>1, FileSame
<1>6. ASSUME NEW l \in pushing, PushSend(l) PROVE FileInv'
  <2>1. l \in Lines /\ made' <= MaxLines /\ UNCHANGED <<writer, disk, runtime>> /\ sent' = Append(sent, l)
    BY <1>1, <1>6 DEF PushSend
  <2> QED BY <2>1, FileSame
<1>7. CASE RecorderStep
  <2>1. UNCHANGED <<runtime, made, sent, writer, disk>>
    BY <1>7 DEF RecorderStep, RecorderRecv, RecorderStore, RecorderLagged
  <2> QED BY <1>2, <2>1
<1>8. ASSUME NEW v \in Readers,
             Replay(v) \/ Follow(v) \/ ViewerStep(v) \/ Reconnect(v) \/ Leave(v)
      PROVE  FileInv'
  <2>1. UNCHANGED <<runtime, made, sent, writer, disk>>
    BY <1>8 DEF Replay, Follow, ViewerStep, ViewerRecv, ViewerLagged, Reconnect, Leave, SetViewer
  <2> QED BY <1>2, <2>1
<1>9. ASSUME NEW k \in Spawns, Register(k) \/ WriterStep(k) PROVE FileInv'
  BY <1>9, RegisterStep, OpenStep, WriterRecvStep, RenameStep, WriterLaggedStep DEF WriterStep
<1> QED BY <1>3, <1>4, <1>5, <1>6, <1>7, <1>8, <1>9 DEF Next

\* Whatever happens around it, one writer by itself (register_log_file) keeps
\* FileInv: its file and the rotated one end with the lines it took, the open
\* file is below the limit whenever it waits for a line, and open_file always
\* finds or creates a file that no other writer has.
THEOREM LogFileInvariant == Spec => []FileInv
<1>1. Init => FileInv
  BY FileInvInit
<1>2. LogInv /\ FileInv /\ [Next]_vars => FileInv'
  BY FileInvNext
<1> QED BY <1>1, <1>2, LogInvariant, PTL DEF Spec

\* As long as the service was spawned once and its writer has not lagged or
\* failed, the log file and its rotated predecessor hold the most recent lines
\* of the service without a gap, all of them until the first rotation, and the
\* file never outgrows the limit (register_log_file: the write, the check of
\* bytes_written, the rename and the reopening).
THEOREM LogFileTailHolds == Spec => []LogFileTail
<1>1. LogInv /\ FileInv => LogFileTail
  <2>1. PICK w, d : w = writer[1] /\ d = disk
    OBVIOUS
  <2>2. PICK took, kept, last : took = Took(sent, w.from, w.next) /\ kept = Kept(d) /\ last = FileOf(d, d.path)
    OBVIOUS
  <2>3. ASSUME LogInv, FileInv, w.pc \notin {"off", "ended"}, ~w.lagged, Alone
        PROVE  /\ Suffix(kept, took)
               /\ RotateBytes = 0 => kept = took
               /\ RotateBytes > 0 => Len(last) <= RotateBytes /\ (Len(kept) < RotateBytes => kept = took)
    <3>1. LoneWriterInv(w, d) /\ sent \in Seq(Lines)
      BY <2>1, <2>3 DEF FileInv, LogInv, LogType
    <3>2. d \in Disks /\ StageInv(w, d) /\ TailInv(w, d, took)
      BY <2>2, <3>1 DEF LoneWriterInv
    <3>3. took \in Seq(Nat)
      BY <2>2, <2>3, <3>1, TookFacts DEF LoneWriterInv
    <3>4. kept \in Seq(Nat) /\ last \in Seq(Nat)
      BY <2>2, <3>2, DiskFacts
    <3>5. Ends(kept, took) /\ (d.old = 0 => kept = took)
      BY <2>2, <2>3, <3>2 DEF TailInv
    <3>6. Suffix(kept, took)
      BY <3>3, <3>4, <3>5, EndsFacts
    <3>7. RotateBytes \in Nat
      BY LogAssumption
    <3>8. ASSUME RotateBytes = 0 PROVE kept = took
      <4>1. ~(RotateBytes > 0)
        BY <3>8
      <4> QED BY <3>2, <3>5, <4>1 DEF StageInv
    <3>9. ASSUME RotateBytes > 0 PROVE Len(last) <= RotateBytes
      <4>1. CASE d.path = 0
        <5>1. last = <<>> /\ Len(<<>>) = 0
          BY <2>2, <4>1 DEF FileOf
        <5> QED BY <3>7, <5>1
      <4>2. CASE d.path # 0
        <5>1. last = d.data[d.path] /\ w.pc \in {"recv", "rename"}
          BY <2>2, <2>3, <3>2, <4>2 DEF FileOf, StageInv
        <5>2. Len(last) = w.bytes /\ (w.bytes < RotateBytes \/ w.bytes = RotateBytes)
          BY <3>2, <3>9, <5>1 DEF StageInv
        <5>3. Len(last) \in Nat
          BY <3>4
        <5> QED BY <3>7, <5>2, <5>3
      <4> QED BY <4>1, <4>2
    <3>10. ASSUME RotateBytes > 0, Len(kept) < RotateBytes PROVE kept = took
      <4>1. d.old = 0
        <5> SUFFICES ASSUME d.old # 0 PROVE FALSE
          OBVIOUS
        <5>1. PICK a \in Seq(Nat) : a = FileOf(d, d.old)
          BY <3>2, DiskFacts
        <5>2. Len(a) = RotateBytes
          BY <3>2, <5>1 DEF StageInv, FileOf
        <5>3. Len(kept) = Len(a) + Len(last)
          BY <2>2, <3>4, <5>1 DEF Kept
        <5>4. Len(last) \in Nat
          BY <3>4
        <5> QED BY <3>7, <3>10, <5>2, <5>3, <5>4
      <4> QED BY <3>5, <4>1
    <3> QED BY <3>6, <3>8, <3>9, <3>10
  <2> QED BY <2>1, <2>2, <2>3 DEF LogFileTail, Alone, Took, Kept, FileOf
<1> QED BY <1>1, LogInvariant, LogFileInvariant, PTL
=============================================================================
