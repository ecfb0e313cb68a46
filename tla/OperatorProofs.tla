-------------------------- MODULE OperatorProofs --------------------------
(***************************************************************************)
(* Facts about the operators the models share: the SM-2 scheduler, for     *)
(* every card and every grade, and Filter, for every sequence and every    *)
(* set.                                                                    *)
(***************************************************************************)
EXTENDS SRS, SeqFilter, WellFoundedInduction, TLAPS

-----------------------------------------------------------------------------
\* The scheduler.

\* clampQuality leaves a grade of 0..5 alone and brings any other into it.
LEMMA ClampType ==
    ASSUME NEW q \in Int
    PROVE  clampQuality(q) \in Qualities
BY DEF clampQuality, Qualities

\* QualityFromLatency always returns a grade, and the grade tells a right
\* answer from a wrong one: srs.Next treats an answer as a lapse exactly when
\* it was wrong, whatever the latency.
THEOREM GradeTellsCorrectness ==
    ASSUME NEW correct \in BOOLEAN, NEW ms \in Int
    PROVE  /\ QualityFromLatency(correct, ms) \in Qualities
           /\ IsLapse(QualityFromLatency(correct, ms)) <=> ~correct
<1>1. ASSUME NEW g \in 3..5 PROVE g \in Qualities /\ ~IsLapse(g)
  BY <1>1 DEF IsLapse, clampQuality, Qualities
<1>2. ASSUME NEW g \in 0..2 PROVE g \in Qualities /\ IsLapse(g)
  BY <1>2 DEF IsLapse, clampQuality, Qualities
<1>3. CASE correct
  <2>1. QualityFromLatency(correct, ms) \in 3..5
    BY <1>3 DEF QualityFromLatency, FastLatencyMs, SlowLatencyMs
  <2> QED
    BY <1>1, <1>3, <2>1
<1>4. CASE ~correct
  <2>1. QualityFromLatency(correct, ms) \in 0..2
    BY <1>4 DEF QualityFromLatency, FastLatencyMs, SlowLatencyMs
  <2> QED
    BY <1>2, <1>4, <2>1
<1> QED
  BY <1>3, <1>4

\* A slower answer never grades better than a faster one of the same kind.
THEOREM SlowerNeverBetter ==
    ASSUME NEW correct \in BOOLEAN, NEW fast \in Int, NEW slow \in Int,
           fast <= slow
    PROVE  QualityFromLatency(correct, slow) <= QualityFromLatency(correct, fast)
<1>1. CASE correct
  BY <1>1 DEF QualityFromLatency, FastLatencyMs, SlowLatencyMs
<1>2. CASE ~correct
  BY <1>2 DEF QualityFromLatency, FastLatencyMs, SlowLatencyMs
<1> QED
  BY <1>1, <1>2

\* The rounded product of two naturals is a natural.
LEMMA RoundedType ==
    ASSUME NEW days \in Nat, NEW ease \in Nat
    PROVE  RoundedInterval(days, ease) \in Nat
<1> DEFINE p == days * ease
<1>1. p \in Nat
  OBVIOUS
<1>2. (p + 50) \div 100 \in Nat
  <2> HIDE DEF p
  <2> QED BY <1>1
<1> QED
  BY <1>2 DEF RoundedInterval

\* An ease at or above the floor never shortens an interval it multiplies.
LEMMA RoundedGrows ==
    ASSUME NEW days \in Nat, NEW ease \in Nat, ease >= 100
    PROVE  RoundedInterval(days, ease) >= days
<1> DEFINE p == days * ease
<1>1. p \in Nat /\ p >= days * 100
  OBVIOUS
<1>2. (p + 50) \div 100 >= days
  <2> HIDE DEF p
  <2> QED BY <1>1
<1> QED
  BY <1>2 DEF RoundedInterval

\* The success branch computes an interval of at least one day.
LEMMA SuccessIntervalType ==
    ASSUME NEW c \in Card
    PROVE  SuccessInterval(c) \in Nat \ {0}
<1>1. Seeded(c.ease) \in Nat /\ c.interval \in Nat /\ c.reps \in Nat
  BY DEF Card, Seeded, DefaultEase
<1>2. RoundedInterval(c.interval, Seeded(c.ease)) \in Nat
  BY <1>1, RoundedType
<1>3. AtLeastOneDay(RoundedInterval(c.interval, Seeded(c.ease))) \in Nat \ {0}
  BY <1>2 DEF AtLeastOneDay
<1> QED
  BY <1>1, <1>3 DEF SuccessInterval

\* One SM-2 step on any card yields a card at or above the ease floor that is
\* due after the day of its review; a wrong answer adds exactly one lapse and
\* restarts the streak, a right one adds exactly one success and no lapse.
THEOREM NextCardStep ==
    ASSUME NEW c \in Card, NEW q \in Int
    PROVE  /\ NextCard(c, q) \in Card
           /\ NextCard(c, q).ease >= EaseFloor
           /\ NextCard(c, q).interval >= 1
           /\ IsLapse(q) => /\ NextCard(c, q).lapses = c.lapses + 1
                            /\ NextCard(c, q).reps = 0
                            /\ NextCard(c, q).interval = 1
           /\ ~IsLapse(q) => /\ NextCard(c, q).lapses = c.lapses
                             /\ NextCard(c, q).reps = c.reps + 1
<1>1. Seeded(c.ease) \in Nat /\ c.reps \in Nat /\ c.lapses \in Nat
  BY DEF Card, Seeded, DefaultEase
<1>2. CASE IsLapse(q)
  <2>1. AtLeastFloor(Seeded(c.ease) - 20) \in Nat
        /\ AtLeastFloor(Seeded(c.ease) - 20) >= EaseFloor
    BY <1>1 DEF AtLeastFloor, EaseFloor
  <2> QED
    BY <1>1, <1>2, <2>1 DEF NextCard, Lapsed, Card
<1>3. CASE ~IsLapse(q)
  <2> DEFINE e == Seeded(c.ease) + SuccessDelta(clampQuality(q))
  <2>1. clampQuality(q) \in 0..5
    BY ClampType DEF Qualities
  <2>2. SuccessDelta(clampQuality(q)) \in Int
    <3>1. ASSUME NEW g \in 0..5 PROVE SuccessDelta(g) \in Int
      BY <3>1 DEF SuccessDelta
    <3> QED BY <2>1, <3>1
  <2>3. e \in Int
    BY <1>1, <2>2
  <2>4. AtLeastFloor(e) \in Nat /\ AtLeastFloor(e) >= EaseFloor
    <3> HIDE DEF e
    <3> QED BY <2>3 DEF AtLeastFloor, EaseFloor
  <2>5. SuccessInterval(c) \in Nat \ {0}
    BY SuccessIntervalType
  <2>6. NextCard(c, q) = [ease |-> AtLeastFloor(e),
                          interval |-> SuccessInterval(c),
                          reps |-> c.reps + 1, lapses |-> c.lapses]
    BY <1>3 DEF NextCard, Recalled
  <2> HIDE DEF e
  <2> QED
    BY <1>1, <1>3, <2>4, <2>5, <2>6 DEF Card
<1> QED
  BY <1>2, <1>3

\* For every card, a better grade leaves at least the ease and at least the
\* interval a worse one leaves, and no more lapses: the lapse branch and the
\* success branch of srs.Next agree on what "better" means.
THEOREM BetterGradeWins ==
    ASSUME NEW c \in Card, NEW p \in Qualities, NEW q \in Qualities, p <= q
    PROVE  /\ NextCard(c, p).ease <= NextCard(c, q).ease
           /\ NextCard(c, p).interval <= NextCard(c, q).interval
           /\ NextCard(c, q).lapses <= NextCard(c, p).lapses
<1>1. /\ clampQuality(p) = p /\ clampQuality(q) = q
      /\ p \in 0..5 /\ q \in 0..5
  BY DEF clampQuality, Qualities
<1>2. Seeded(c.ease) \in Nat /\ c.lapses \in Nat
  BY DEF Card, Seeded, DefaultEase
<1>3. CASE IsLapse(p) /\ IsLapse(q)
  BY <1>2, <1>3, SMT DEF NextCard, Lapsed, AtLeastFloor, EaseFloor
<1>4. CASE IsLapse(p) /\ ~IsLapse(q)
  <2>1. q \in 3..5
    BY <1>1, <1>4 DEF IsLapse
  <2>2. SuccessDelta(q) \in Int /\ SuccessDelta(q) >= -20
    BY <2>1 DEF SuccessDelta
  <2>3. AtLeastFloor(Seeded(c.ease) - 20)
          <= AtLeastFloor(Seeded(c.ease) + SuccessDelta(q))
    BY <1>2, <2>2 DEF AtLeastFloor, EaseFloor
  <2>4. SuccessInterval(c) \in Nat \ {0}
    BY SuccessIntervalType
  <2> QED
    BY <1>1, <1>2, <1>4, <2>3, <2>4 DEF NextCard, Lapsed, Recalled
<1>5. CASE ~IsLapse(p)
  <2>1. p \in 3..5 /\ q \in 3..5 /\ ~IsLapse(q)
    BY <1>1, <1>5 DEF IsLapse
  <2>2. /\ SuccessDelta(p) \in Int /\ SuccessDelta(q) \in Int
        /\ SuccessDelta(p) <= SuccessDelta(q)
    BY <2>1 DEF SuccessDelta
  <2>3. AtLeastFloor(Seeded(c.ease) + SuccessDelta(p))
          <= AtLeastFloor(Seeded(c.ease) + SuccessDelta(q))
    BY <1>2, <2>2 DEF AtLeastFloor, EaseFloor
  <2>4. SuccessInterval(c) \in Nat
    BY SuccessIntervalType
  <2> QED
    BY <1>1, <1>2, <1>5, <2>1, <2>3, <2>4 DEF NextCard, Recalled
<1> QED
  BY <1>3, <1>4, <1>5
-----------------------------------------------------------------------------
\* Filter.  The induction theorems of the library take an operator, so
\* induction is done here on a set of numbers, from the fact that a set of
\* naturals has a least element.

\* A non-empty set of naturals has a least element.
LEMMA LeastElement ==
    ASSUME NEW T, T \subseteq Nat, T # {}
    PROVE  \E x \in T : \A y \in T : x <= y
<1> DEFINE less == OpToRel(<, Nat)
<1>1. IsWellFoundedOn(less, Nat)
  BY NatLessThanWellFounded
<1>2. \A x, y \in Nat : <<y, x>> \in less <=> y < x
  BY DEF OpToRel
<1> HIDE DEF less
<1>3. PICK x \in T : \A y \in T : ~ (<<y, x>> \in less)
  BY <1>1, WFMin
<1>4. ASSUME NEW y \in T
      PROVE  x <= y
  <2>1. x \in Nat /\ y \in Nat /\ ~ (<<y, x>> \in less)
    BY <1>3
  <2>2. ~(y < x)
    BY <1>2, <2>1
  <2> QED
    BY <2>1, <2>2
<1> QED
  BY <1>4

\* A set that holds 0, and with each natural its successor, holds them all.
LEMMA SetInduction ==
    ASSUME NEW S, 0 \in S, \A n \in Nat : n \in S => n + 1 \in S
    PROVE  \A n \in Nat : n \in S
<1> DEFINE T == {n \in Nat : n \notin S}
<1> SUFFICES ASSUME T # {} PROVE FALSE
  OBVIOUS
<1>1. T \subseteq Nat
  OBVIOUS
<1>2. PICK x \in T : \A y \in T : x <= y
  <2> HIDE DEF T
  <2> QED
    BY <1>1, LeastElement
<1>3. x \in Nat /\ x # 0 /\ x \notin S
  OBVIOUS
<1>4. x - 1 \in Nat /\ ~(x <= x - 1) /\ (x - 1) + 1 = x
  BY <1>3
<1>5. x - 1 \in S
  BY <1>2, <1>4
<1> QED
  BY <1>3, <1>4, <1>5

-----------------------------------------------------------------------------
\* One line of the recursion.
Keep(g, list, keep, i) ==
    IF i = 0 THEN <<>>
    ELSE IF list[i] \in keep THEN Append(g[i - 1], list[i])
    ELSE g[i - 1]

Solves(g, list, keep, n) == g = [i \in 0..n |-> Keep(g, list, keep, i)]

\* The recursion has a solution of every length.
LEMMA RecursionHasSolution ==
    ASSUME NEW list, NEW keep
    PROVE  \A n \in Nat : \E g : Solves(g, list, keep, n)
<1> DEFINE S == {n \in Nat : \E g : Solves(g, list, keep, n)}
<1>1. 0 \in S
  <2> DEFINE g0 == [i \in 0..0 |-> <<>>]
  <2>1. Solves(g0, list, keep, 0)
    BY DEF Solves, Keep
  <2> QED
    BY <2>1
<1>2. ASSUME NEW n \in Nat, n \in S
      PROVE  n + 1 \in S
  <2>1. PICK g : Solves(g, list, keep, n)
    BY <1>2
  <2> DEFINE h == [i \in 0..(n + 1) |-> IF i <= n THEN g[i] ELSE Keep(g, list, keep, n + 1)]
  <2>2. ASSUME NEW i \in 0..(n + 1)
        PROVE  h[i] = Keep(h, list, keep, i)
    <3>1. CASE i = 0
      <4>1. h[i] = g[0]
        BY <3>1
      <4>2. g[0] = Keep(g, list, keep, 0)
        BY <2>1 DEF Solves
      <4> QED
        BY <3>1, <4>1, <4>2 DEF Keep
    <3>2. CASE i # 0
      <4>1. i - 1 \in 0..n /\ i - 1 \in 0..(n + 1) /\ i - 1 <= n
        BY <3>2
      <4>2. h[i - 1] = g[i - 1]
        BY <4>1
      <4>3. Keep(h, list, keep, i) = Keep(g, list, keep, i)
        BY <3>2, <4>2 DEF Keep
      <4>4. h[i] = Keep(g, list, keep, i)
        <5>1. CASE i <= n
          <6>1. i \in 0..n /\ h[i] = g[i]
            BY <5>1
          <6> QED
            BY <6>1, <2>1 DEF Solves
        <5>2. CASE ~(i <= n)
          <6>1. i = n + 1
            BY <5>2
          <6> QED
            BY <5>2, <6>1
        <5> QED
          BY <5>1, <5>2
      <4> QED
        BY <4>3, <4>4
    <3> QED
      BY <3>1, <3>2
  <2>3. Solves(h, list, keep, n + 1)
    <3>1. h = [i \in 0..(n + 1) |-> h[i]]
      OBVIOUS
    <3> HIDE DEF h
    <3> QED
      BY <2>2, <3>1 DEF Solves
  <2> QED
    BY <2>3
<1> HIDE DEF S
<1>3. \A n \in Nat : n \in S
  BY <1>1, <1>2, SetInduction
<1> QED
  BY <1>3 DEF S

\* Filter is the last value of a solution.
LEMMA FilterSolution ==
    ASSUME NEW list, Len(list) \in Nat, NEW keep
    PROVE  \E g : Solves(g, list, keep, Len(list)) /\ Filter(list, keep) = g[Len(list)]
<1> DEFINE n == Len(list)
           g == CHOOSE f : Solves(f, list, keep, n)
<1>1. Solves(g, list, keep, n)
  <2>1. \E f : Solves(f, list, keep, n)
    BY RecursionHasSolution
  <2> QED
    BY <2>1
<1>2. Filter(list, keep) = g[n]
  BY DEF Filter, Solves, Keep
<1> QED
  BY <1>1, <1>2

\* Two solutions agree as far as the lists they come from do.
LEMMA SolutionsAgree ==
    ASSUME NEW one, NEW two, NEW keep, NEW m \in Nat, NEW n \in Nat, m <= n,
           \A i \in 1..m : one[i] = two[i],
           NEW f, Solves(f, one, keep, m),
           NEW g, Solves(g, two, keep, n)
    PROVE  f[m] = g[m]
<1> DEFINE S == {i \in Nat : i <= m => f[i] = g[i]}
<1>1. 0 \in S
  BY DEF Solves, Keep
<1>2. ASSUME NEW i \in Nat, i \in S
      PROVE  i + 1 \in S
  <2> SUFFICES ASSUME i + 1 <= m PROVE f[i + 1] = g[i + 1]
    OBVIOUS
  <2>1. /\ i + 1 \in 0..m /\ i + 1 \in 0..n /\ i + 1 \in 1..m /\ i + 1 # 0
        /\ (i + 1) - 1 = i /\ i <= m
    OBVIOUS
  <2>2. f[i + 1] = Keep(f, one, keep, i + 1)
    BY <2>1 DEF Solves
  <2>3. g[i + 1] = Keep(g, two, keep, i + 1)
    BY <2>1 DEF Solves
  <2>4. f[i] = g[i] /\ one[i + 1] = two[i + 1]
    BY <1>2, <2>1
  <2> QED
    BY <2>1, <2>2, <2>3, <2>4 DEF Keep
<1> HIDE DEF S
<1>3. m \in S
  BY <1>1, <1>2, SetInduction
<1> QED
  BY <1>3 DEF S

\* Of an empty sequence nothing is kept.
LEMMA FilterEmpty ==
    ASSUME NEW keep
    PROVE  Filter(<<>>, keep) = <<>>
<1>1. Len(<<>>) = 0
  OBVIOUS
<1>2. PICK g : Solves(g, <<>>, keep, 0) /\ Filter(<<>>, keep) = g[0]
  BY <1>1, FilterSolution
<1> QED
  BY <1>2 DEF Solves, Keep

\* An element that is appended is kept at the end or left out.
LEMMA FilterAppend ==
    ASSUME NEW S, NEW list \in Seq(S), NEW e \in S, NEW keep
    PROVE  Filter(Append(list, e), keep) =
             IF e \in keep THEN Append(Filter(list, keep), e) ELSE Filter(list, keep)
<1> DEFINE longer == Append(list, e)
           n == Len(list)
<1>1. /\ n \in Nat /\ Len(longer) = n + 1 /\ longer[n + 1] = e
      /\ \A i \in 1..n : list[i] = longer[i]
  OBVIOUS
<1>2. PICK f : Solves(f, list, keep, n) /\ Filter(list, keep) = f[n]
  BY <1>1, FilterSolution
<1>3. PICK g : Solves(g, longer, keep, n + 1) /\ Filter(longer, keep) = g[n + 1]
  <2> HIDE DEF longer
  <2> QED
    BY <1>1, FilterSolution
<1>4. f[n] = g[n]
  <2>1. n \in Nat /\ n + 1 \in Nat /\ n <= n + 1
    BY <1>1
  <2> HIDE DEF longer, n
  <2> QED
    BY <1>1, <1>2, <1>3, <2>1, SolutionsAgree
<1>5. g[n + 1] = Keep(g, longer, keep, n + 1)
  BY <1>1, <1>3 DEF Solves
<1>6. (n + 1) - 1 = n /\ n + 1 # 0
  BY <1>1
<1> HIDE DEF longer, n
<1> QED
  BY <1>1, <1>2, <1>3, <1>4, <1>5, <1>6 DEF Keep, longer

-----------------------------------------------------------------------------
\* What holds of the empty sequence and survives an Append holds of all.
LEMMA SequenceInduction ==
    ASSUME NEW S, NEW G, <<>> \in G,
           \A s \in Seq(S), e \in S : s \in G => Append(s, e) \in G
    PROVE  \A s \in Seq(S) : s \in G
<1> DEFINE N == {n \in Nat : \A s \in Seq(S) : Len(s) = n => s \in G}
<1>1. 0 \in N
  <2>1. \A s \in Seq(S) : Len(s) = 0 => s = <<>>
    OBVIOUS
  <2> QED
    BY <2>1
<1>2. ASSUME NEW n \in Nat, n \in N
      PROVE  n + 1 \in N
  <2> SUFFICES ASSUME NEW s \in Seq(S), Len(s) = n + 1
               PROVE  s \in G
    OBVIOUS
  <2> DEFINE front == [i \in 1..n |-> s[i]]
  <2>1. front \in Seq(S) /\ Len(front) = n /\ s[n + 1] \in S
    OBVIOUS
  <2>2. s = Append(front, s[n + 1])
    OBVIOUS
  <2>3. front \in G
    BY <1>2, <2>1
  <2> HIDE DEF front
  <2> QED
    BY <2>1, <2>2, <2>3
<1> HIDE DEF N
<1>3. \A n \in Nat : n \in N
  BY <1>1, <1>2, SetInduction
<1> SUFFICES ASSUME NEW s \in Seq(S) PROVE s \in G
  OBVIOUS
<1>4. Len(s) \in N
  BY <1>3
<1> QED
  BY <1>4 DEF N

\* What is kept is a sequence of members of the set, and no longer.
LEMMA FilterType ==
    ASSUME NEW S, NEW keep
    PROVE  \A list \in Seq(S) :
             /\ Filter(list, keep) \in Seq(S \cap keep)
             /\ Len(Filter(list, keep)) <= Len(list)
<1> DEFINE G == {s \in Seq(S) : /\ Filter(s, keep) \in Seq(S \cap keep)
                                /\ Len(Filter(s, keep)) <= Len(s)}
<1>1. <<>> \in G
  <2>1. <<>> \in Seq(S) /\ <<>> \in Seq(S \cap keep) /\ Len(<<>>) <= Len(<<>>)
    OBVIOUS
  <2> QED
    BY <2>1, FilterEmpty
<1>2. ASSUME NEW s \in Seq(S), NEW e \in S, s \in G
      PROVE  Append(s, e) \in G
  <2> DEFINE kept == Filter(s, keep)
  <2>1. kept \in Seq(S \cap keep) /\ Len(kept) <= Len(s)
    BY <1>2
  <2>2. Filter(Append(s, e), keep) = IF e \in keep THEN Append(kept, e) ELSE kept
    BY FilterAppend
  <2> HIDE DEF kept
  <2>3. Append(s, e) \in Seq(S) /\ Len(Append(s, e)) = Len(s) + 1 /\ Len(s) \in Nat
    OBVIOUS
  <2>4. Len(kept) \in Nat
    BY <2>1
  <2>5. CASE e \in keep
    <3>1. /\ Append(kept, e) \in Seq(S \cap keep)
          /\ Len(Append(kept, e)) = Len(kept) + 1
      BY <2>1, <2>5
    <3> QED
      BY <2>1, <2>2, <2>3, <2>4, <2>5, <3>1
  <2>6. CASE e \notin keep
    BY <2>1, <2>2, <2>3, <2>4, <2>6
  <2> QED
    BY <2>5, <2>6
<1> HIDE DEF G
<1>3. \A s \in Seq(S) : s \in G
  BY <1>1, <1>2, SequenceInduction
<1> QED
  BY <1>3 DEF G

\* Filtering for one set and then for another is filtering for their
\* intersection, so collecting the limiter's list once more, or later, loses
\* nothing that a single collection would keep (ratelimit.go:60-69).
LEMMA FilterTwice ==
    ASSUME NEW S, NEW A, NEW B
    PROVE  \A list \in Seq(S) : Filter(Filter(list, A), B) = Filter(list, A \cap B)
<1> DEFINE G == {s \in Seq(S) : Filter(Filter(s, A), B) = Filter(s, A \cap B)}
<1>1. <<>> \in G
  BY FilterEmpty
<1>2. ASSUME NEW s \in Seq(S), NEW e \in S, s \in G
      PROVE  Append(s, e) \in G
  <2>1. Append(s, e) \in Seq(S)
    OBVIOUS
  <2>2. Filter(Append(s, e), A) = IF e \in A THEN Append(Filter(s, A), e) ELSE Filter(s, A)
    BY FilterAppend
  <2>3. Filter(Append(s, e), A \cap B) =
          IF e \in A \cap B THEN Append(Filter(s, A \cap B), e) ELSE Filter(s, A \cap B)
    BY FilterAppend
  <2>4. Filter(s, A) \in Seq(S)
    <3>1. Filter(s, A) \in Seq(S \cap A)
      BY FilterType
    <3> QED
      BY <3>1
  <2>5. Filter(Append(Filter(s, A), e), B) =
          IF e \in B THEN Append(Filter(Filter(s, A), B), e) ELSE Filter(Filter(s, A), B)
    BY <2>4, FilterAppend
  <2>6. Filter(Filter(s, A), B) = Filter(s, A \cap B)
    BY <1>2
  <2>7. Filter(Filter(Append(s, e), A), B) = Filter(Append(s, e), A \cap B)
    <3>1. CASE e \in A /\ e \in B
      BY <2>2, <2>3, <2>5, <2>6, <3>1
    <3>2. CASE e \in A /\ e \notin B
      BY <2>2, <2>3, <2>5, <2>6, <3>2
    <3>3. CASE e \notin A
      BY <2>2, <2>3, <2>6, <3>3
    <3> QED
      BY <3>1, <3>2, <3>3
  <2> QED
    BY <2>1, <2>7
<1> HIDE DEF G
<1>3. \A s \in Seq(S) : s \in G
  BY <1>1, <1>2, SequenceInduction
<1> QED
  BY <1>3 DEF G
=============================================================================
