---------------------------- MODULE SeriesProofs ----------------------------
(***************************************************************************)
(* Proofs about Series.tla: for every series and every limit, thinning out *)
(* keeps the order, the first and the last point, and loses no pick.       *)
(***************************************************************************)
EXTENDS Series, FiniteSetTheorems, TLAPS

\* One round of the loop: the picks are the rounded multiples of the step so far, and
\* there are more points than picks to make.
PicksAreRounded ==
    /\ phase = "pick" => Len(points) > maxPoints /\ maxPoints > 1
    /\ picked # <<>> => Len(points) > maxPoints /\ maxPoints > 1
    /\ \A i \in 1 .. Len(picked) : IsRound(picked[i], i - 1)

\* What the proofs need of the type invariant.
Shapes ==
    /\ answer \in Seq(Values \cup {NotFinite})
    /\ maxPoints \in Nat \ {0}
    /\ phase \in {"parse", "pick", "draw", "done"}
    /\ points \in Seq(Values)
    /\ picked \in Seq(0 .. Len(points) - 1)
    /\ phase = "parse" => picked = <<>>

Inv == Shapes /\ PicksAreRounded

\* Multiplication by a positive number keeps the order, and can be undone.
LEMMA ProductOrder ==
    ASSUME NEW a \in Int, NEW b \in Int, NEW q \in Int, q > 0, q * a > q * b
    PROVE  a > b
<1>1. CASE a <= b
  <2>1. PICK d \in Nat : b = a + d
    <3>1. b - a \in Nat /\ b = a + (b - a)
      BY <1>1
    <3> QED BY <3>1
  <2>2. q * b = q * a + q * d
    BY <2>1
  <2>3. q * d >= 0
    BY <2>1
  <2> QED BY <2>2, <2>3
<1> QED BY <1>1

\* Two neighbouring multiples of a step greater than one round to different numbers.
LEMMA RoundsAscend ==
    ASSUME NEW q \in Nat \ {0}, NEW m \in Int, m > q,
           NEW i \in Nat, NEW j \in Int, NEW k \in Int,
           2 * (j * q - i * m) <= q,
           -q <= 2 * (k * q - (i + 1) * m)
    PROVE  j < k
<1>1. (i + 1) * m = i * m + m
  OBVIOUS
<1>2. j * q \in Int /\ k * q \in Int /\ i * m \in Int
  OBVIOUS
<1>3. k * q > j * q
  BY <1>1, <1>2
<1>4. q * k > q * j
  BY <1>3
<1> QED BY <1>4, ProductOrder

\* Two multiples of q that are no further apart than half of q are equal.
LEMMA RoundIsExact ==
    ASSUME NEW q \in Nat \ {0}, NEW k \in Int, NEW m \in Int,
           -q <= 2 * (q * k - q * m), 2 * (q * k - q * m) <= q
    PROVE  k = m
<1>1. q * k \in Int /\ q * m \in Int
  OBVIOUS
<1>2. ~ k > m
  <2>1. SUFFICES ASSUME k > m PROVE FALSE
    OBVIOUS
  <2>2. ~ q * (m + 1) > q * k
    BY <2>1, ProductOrder
  <2>3. q * (m + 1) = q * m + q
    OBVIOUS
  <2> QED BY <1>1, <2>2, <2>3
<1>3. ~ k < m
  <2>1. SUFFICES ASSUME k < m PROVE FALSE
    OBVIOUS
  <2>2. ~ q * (k + 1) > q * m
    BY <2>1, ProductOrder
  <2>3. q * (k + 1) = q * k + q
    OBVIOUS
  <2> QED BY <1>1, <2>2, <2>3
<1> QED BY <1>2, <1>3

\* The gap between two neighbouring picks differs from the step by no more than one.
LEMMA GapIsAStep ==
    ASSUME NEW q \in Nat \ {0}, NEW m \in Int, NEW i \in Nat, NEW j \in Int, NEW k \in Int,
           -q <= 2 * (j * q - i * m), 2 * (j * q - i * m) <= q,
           -q <= 2 * (k * q - (i + 1) * m), 2 * (k * q - (i + 1) * m) <= q
    PROVE  q * (k - j) \in m - q .. m + q
<1> DEFINE x == j * q
           y == k * q
           z == i * m
<1>1. (i + 1) * m = z + m
  OBVIOUS
<1>2. x \in Int /\ y \in Int /\ z \in Int
  OBVIOUS
<1>3. q * (k - j) = y - x
  OBVIOUS
<1>4. /\ -q <= 2 * (x - z) /\ 2 * (x - z) <= q
      /\ -q <= 2 * (y - (z + m)) /\ 2 * (y - (z + m)) <= q
  BY <1>1
<1> HIDE DEF x, y, z
<1> QED BY <1>2, <1>3, <1>4

\* A step that is a whole number is every gap.
LEMMA WholeStep ==
    ASSUME NEW q \in Nat \ {0}, NEW s \in Int, NEW i \in Nat, NEW j \in Int, NEW k \in Int,
           -q <= 2 * (j * q - i * (q * s)), 2 * (j * q - i * (q * s)) <= q,
           -q <= 2 * (k * q - (i + 1) * (q * s)), 2 * (k * q - (i + 1) * (q * s)) <= q
    PROVE  k - j = s
<1>1. i * s \in Int /\ (i + 1) * s \in Int /\ (i + 1) * s = i * s + s
  OBVIOUS
<1>2. /\ j * q = q * j /\ i * (q * s) = q * (i * s)
      /\ k * q = q * k /\ (i + 1) * (q * s) = q * ((i + 1) * s)
  OBVIOUS
<1>3. j = i * s
  BY <1>1, <1>2, RoundIsExact
<1>4. k = (i + 1) * s
  BY <1>1, <1>2, RoundIsExact
<1> QED BY <1>1, <1>3, <1>4

\* One gap could exceed another by two only if it exceeded the step by one, and the
\* step were a whole number.
LEMMA GapsDiffer ==
    ASSUME NEW q \in Nat \ {0}, NEW m \in Int,
           NEW i \in Nat, NEW j \in Int, NEW k \in Int,
           -q <= 2 * (j * q - i * m), 2 * (j * q - i * m) <= q,
           -q <= 2 * (k * q - (i + 1) * m), 2 * (k * q - (i + 1) * m) <= q,
           NEW h \in Int, q * h \in m - q .. m + q
    PROVE  (k - j) - h <= 1
<1> DEFINE g == k - j
<1>1. SUFFICES ASSUME g - h >= 2 PROVE FALSE
  OBVIOUS
<1>2. q * g \in m - q .. m + q /\ g \in Int
  BY GapIsAStep
<1> HIDE DEF g
<1>3. q * g >= q * h + 2 * q
  <2>1. PICK n \in Nat : g = h + 2 + n
    <3>1. g - h - 2 \in Nat /\ g = h + 2 + (g - h - 2)
      BY <1>1, <1>2
    <3> QED BY <3>1
  <2>2. q * g = q * h + 2 * q + q * n /\ q * n \in Nat
    BY <2>1
  <2>3. q * h \in Int
    OBVIOUS
  <2> QED BY <2>2, <2>3
<1>4. m = q * g - q
  BY <1>2, <1>3
<1>5. q * g - q = q * (g - 1) /\ g - 1 \in Int
  BY <1>2
<1>6. k - j = g - 1
  <2> DEFINE s == g - 1
  <2>1. m = q * s /\ s \in Int
    BY <1>4, <1>5
  <2> HIDE DEF s
  <2>2. /\ -q <= 2 * (j * q - i * (q * s)) /\ 2 * (j * q - i * (q * s)) <= q
        /\ -q <= 2 * (k * q - (i + 1) * (q * s)) /\ 2 * (k * q - (i + 1) * (q * s)) <= q
    <3>1. /\ -q <= 2 * (j * q - i * m) /\ 2 * (j * q - i * m) <= q
          /\ -q <= 2 * (k * q - (i + 1) * m) /\ 2 * (k * q - (i + 1) * m) <= q
      OBVIOUS
    <3> QED BY ONLY <2>1, <3>1, Zenon
  <2>3. k - j = s
    BY <2>1, <2>2, WholeStep
  <2> QED BY <2>3 DEF s
<1> QED BY <1>2, <1>6 DEF g

LEMMA InitInv == Init => Inv
<1> SUFFICES ASSUME Init PROVE Inv
  OBVIOUS
<1>1. answer \in Seq(Values \cup {NotFinite})
  <2>1. PICK n \in 0 .. Longest : answer \in [1 .. n -> Values \cup {NotFinite}]
    BY DEF Init, AnswersUpTo
  <2> QED BY <2>1, SeriesAssumption
<1> QED BY <1>1, SeriesAssumption DEF Init, Inv, Shapes, PicksAreRounded

LEMMA StepInv == Inv /\ [Next]_vars => Inv'
<1> SUFFICES ASSUME Inv, [Next]_vars PROVE Inv'
  OBVIOUS
<1> USE DEF Inv, Shapes, PicksAreRounded
<1>1. CASE ParsePoint
  <2>1. Head(answer) \in Values \cup {NotFinite} /\ Tail(answer) \in Seq(Values \cup {NotFinite})
    BY <1>1 DEF ParsePoint
  <2>2. points' \in Seq(Values)
    BY <1>1, <2>1 DEF ParsePoint
  <2>3. picked' = <<>> /\ phase' = "parse" /\ maxPoints' = maxPoints
    BY <1>1 DEF ParsePoint
  <2> QED BY <1>1, <2>1, <2>2, <2>3 DEF ParsePoint
<1>2. CASE ThinOut
  BY <1>2 DEF ThinOut
<1>3. CASE Pick
  <2> USE <1>3
  <2>1. PICK k \in 0 .. Len(points) - 1 : IsRound(k, Len(picked)) /\ picked' = Append(picked, k)
    BY DEF Pick
  <2>2. answer' = answer /\ points' = points /\ maxPoints' = maxPoints /\ phase = "pick" /\ phase' \in {"pick", "draw"}
    BY DEF Pick
  <2>3. Shapes'
    BY <2>1, <2>2
  <2>4. Len(points) > maxPoints /\ maxPoints > 1
    BY <2>2
  <2>5. ASSUME NEW i \in 1 .. Len(picked') PROVE IsRound(picked'[i], i - 1)
    <3>1. CASE i <= Len(picked)
      <4>1. picked'[i] = picked[i] /\ i \in 1 .. Len(picked)
        BY <2>1, <2>5, <3>1
      <4> QED BY <4>1
    <3>2. CASE i = Len(picked) + 1
      <4>1. picked'[i] = k /\ i - 1 = Len(picked)
        BY <2>1, <3>2
      <4> QED BY <2>1, <4>1
    <3> QED BY <2>1, <2>5, <3>1, <3>2
  <2>6. \A x, y : IsRound(x, y)' <=> IsRound(x, y)
    BY <2>2 DEF IsRound
  <2> QED BY <2>2, <2>3, <2>4, <2>5, <2>6 DEF IsRound
<1>4. CASE Draw
  BY <1>4 DEF Draw, IsRound
<1>5. CASE UNCHANGED vars
  BY <1>5 DEF vars, IsRound
<1> QED BY <1>1, <1>2, <1>3, <1>4, <1>5 DEF Next

LEMMA Invariance == Spec => []Inv
BY InitInv, StepInv, PTL DEF Spec

LEMMA InvAscends == Inv => PicksAscend
<1> SUFFICES ASSUME Inv, NEW i \in 1 .. Len(picked) - 1 PROVE picked[i] < picked[i + 1]
  BY DEF PicksAscend
<1> USE DEF Inv, Shapes, PicksAreRounded
<1>1. i \in 1 .. Len(picked) /\ i + 1 \in 1 .. Len(picked) /\ i - 1 \in Nat
  OBVIOUS
<1>2. picked[i] \in Int /\ picked[i + 1] \in Int /\ picked # <<>>
  BY <1>1
<1>3. IsRound(picked[i], i - 1) /\ IsRound(picked[i + 1], i)
  BY <1>1
<1> DEFINE q == maxPoints - 1
           m == Len(points) - 1
<1>4. q \in Nat \ {0} /\ m \in Int /\ m > q
  BY <1>2
<1>5. 2 * (picked[i] * q - (i - 1) * m) <= q /\ -q <= 2 * (picked[i + 1] * q - i * m)
  BY <1>3 DEF IsRound
<1>6. (i - 1) + 1 = i
  OBVIOUS
<1> HIDE DEF q, m
<1> QED BY <1>1, <1>2, <1>4, <1>5, <1>6, RoundsAscend

LEMMA InvEnds == Inv => EndsArePicked
<1> SUFFICES ASSUME Inv PROVE EndsArePicked
  OBVIOUS
<1> USE DEF Inv, Shapes, PicksAreRounded
<1> DEFINE q == maxPoints - 1
           m == Len(points) - 1
<1>1. ASSUME Len(picked) > 0 PROVE picked[1] = 0
  <2>1. IsRound(picked[1], 0) /\ picked[1] \in Int /\ q \in Nat \ {0} /\ m \in Int
    BY <1>1
  <2>2. -q <= 2 * (picked[1] * q - 0 * m) /\ 2 * (picked[1] * q - 0 * m) <= q
    BY <2>1 DEF IsRound
  <2> HIDE DEF q, m
  <2>3. picked[1] * q - 0 * m = q * picked[1] - q * 0
    BY <2>1
  <2>4. -q <= 2 * (q * picked[1] - q * 0) /\ 2 * (q * picked[1] - q * 0) <= q
    BY <2>2, <2>3
  <2>5. 0 \in Int
    OBVIOUS
  <2> QED BY ONLY <2>1, <2>4, <2>5, RoundIsExact
<1>2. ASSUME Len(picked) = maxPoints, maxPoints > 1 PROVE picked[maxPoints] = m
  <2>1. IsRound(picked[maxPoints], q) /\ picked[maxPoints] \in Int /\ q \in Nat \ {0} /\ m \in Int
    BY <1>2
  <2>2. -q <= 2 * (picked[maxPoints] * q - q * m) /\ 2 * (picked[maxPoints] * q - q * m) <= q
    BY <2>1 DEF IsRound
  <2> HIDE DEF q, m
  <2>3. picked[maxPoints] * q = q * picked[maxPoints]
    BY <2>1
  <2> QED BY <2>1, <2>2, <2>3, RoundIsExact
<1> QED BY <1>1, <1>2 DEF EndsArePicked

LEMMA InvEven == Inv => GapsAreEven
<1> SUFFICES ASSUME Inv, NEW i \in 1 .. Len(picked) - 1, NEW j \in 1 .. Len(picked) - 1
             PROVE  (picked[i + 1] - picked[i]) - (picked[j + 1] - picked[j]) \in -1 .. 1
  BY DEF GapsAreEven
<1>0. \A x \in 1 .. Len(picked) : picked[x] \in Int
  BY DEF Inv, Shapes
<1> USE DEF Inv, Shapes, PicksAreRounded
<1> DEFINE q == maxPoints - 1
           m == Len(points) - 1
<1>1. q \in Nat \ {0} /\ m \in Int
  OBVIOUS
<1>2. ASSUME NEW n \in 1 .. Len(picked) - 1
      PROVE  /\ n - 1 \in Nat /\ (n - 1) + 1 = n
             /\ picked[n] \in Int /\ picked[n + 1] \in Int
             /\ -q <= 2 * (picked[n] * q - (n - 1) * m)
             /\ 2 * (picked[n] * q - (n - 1) * m) <= q
             /\ -q <= 2 * (picked[n + 1] * q - n * m)
             /\ 2 * (picked[n + 1] * q - n * m) <= q
  <2>1. n \in 1 .. Len(picked) /\ n + 1 \in 1 .. Len(picked) /\ (n + 1) - 1 = n
    OBVIOUS
  <2>2. IsRound(picked[n], n - 1) /\ IsRound(picked[n + 1], n)
    BY <2>1
  <2>3. picked[n] \in Int /\ picked[n + 1] \in Int
    BY ONLY <1>0, <2>1
  <2> QED BY <2>2, <2>3 DEF IsRound
<1> HIDE DEF q, m
<1>3. ASSUME NEW n \in 1 .. Len(picked) - 1
      PROVE  q * (picked[n + 1] - picked[n]) \in m - q .. m + q
  BY ONLY <1>1, <1>2, GapIsAStep
<1>4. ASSUME NEW n \in 1 .. Len(picked) - 1, NEW o \in 1 .. Len(picked) - 1
      PROVE  (picked[n + 1] - picked[n]) - (picked[o + 1] - picked[o]) <= 1
  <2> DEFINE h == picked[o + 1] - picked[o]
  <2>1. h \in Int /\ q * h \in m - q .. m + q
    BY ONLY <1>2, <1>3, <1>4
  <2> HIDE DEF h
  <2>2. (picked[n + 1] - picked[n]) - h <= 1
    BY ONLY <1>1, <1>2, <1>4, <2>1, GapsDiffer
  <2> QED BY ONLY <2>2 DEF h
<1>5. /\ (picked[i + 1] - picked[i]) - (picked[j + 1] - picked[j]) <= 1
      /\ (picked[j + 1] - picked[j]) - (picked[i + 1] - picked[i]) <= 1
  BY ONLY <1>4, i \in 1 .. Len(picked) - 1, j \in 1 .. Len(picked) - 1
<1>6. /\ picked[i + 1] \in Int /\ picked[i] \in Int
      /\ picked[j + 1] \in Int /\ picked[j] \in Int
  BY ONLY <1>2, i \in 1 .. Len(picked) - 1, j \in 1 .. Len(picked) - 1
<1> QED BY ONLY <1>5, <1>6

\* For every answer and every limit, and however the halves are rounded, the picks
\* ascend strictly: the chart draws the points in their order, each of them once, and
\* sorted(set(...)) loses none (series.py:36-37).
THEOREM PicksInOrder == Spec => []PicksAscend
BY Invariance, InvAscends, PTL

\* The first pick is the oldest point, and the last of max_points picks the newest
\* (series.py:28).
THEOREM EndsKept == Spec => []EndsArePicked
BY Invariance, InvEnds, PTL

\* No two gaps between picks differ by more than one point (series.py:28).
THEOREM PicksAreEven == Spec => []GapsAreEven
BY Invariance, InvEven, PTL
-----------------------------------------------------------------------------
(* The legend *)

\* Every finite set in which any two elements can be compared has a least element.
LEMMA FiniteLeast ==
    ASSUME NEW S, IsFiniteSet(S), S # {}, NEW R,
           \A x, y \in S : <<x, y>> \in R \/ <<y, x>> \in R,
           \A x, y, z \in S : <<x, y>> \in R /\ <<y, z>> \in R => <<x, z>> \in R
    PROVE  \E x \in S : \A y \in S : <<x, y>> \in R
<1> DEFINE upTo(x) == {z \in S : <<z, x>> \in R}
           F       == {upTo(x) : x \in S}
<1>1. F \in SUBSET FiniteSubsetsOf(S) /\ F # {}
  <2>1. ASSUME NEW x \in S PROVE upTo(x) \in FiniteSubsetsOf(S)
    <3>1. upTo(x) \in SUBSET S
      OBVIOUS
    <3> QED BY <3>1, FS_Subset DEF FiniteSubsetsOf
  <2>2. PICK x \in S : TRUE
    OBVIOUS
  <2>3. upTo(x) \in F
    BY <2>2
  <2> QED BY <2>1, <2>3
<1>2. PICK T \in F : \A U \in F : ~(<<U, T>> \in StrictSubsetOrdering(S))
  BY <1>1, FS_StrictSubsetOrderingWellFounded, WFMin
<1>3. PICK x \in S : T = upTo(x)
  BY <1>2
<1>4. ASSUME NEW y \in S, ~(<<x, y>> \in R) PROVE FALSE
  <2>1. <<y, x>> \in R
    BY <1>4
  <2>2. upTo(y) \in SUBSET T
    BY <1>3, <2>1
  <2>3. x \in T /\ x \notin upTo(y)
    BY <1>3, <1>4
  <2>4. T \in SUBSET S /\ upTo(y) \in F
    BY <1>3
  <2>5. <<upTo(y), T>> \in StrictSubsetOrdering(S)
    BY ONLY <2>2, <2>3, <2>4 DEF StrictSubsetOrdering
  <2> QED BY <1>2, <2>4, <2>5
<1> QED BY <1>4

\* A chart with a point has a lowest and a highest one.
LEMMA ExtremesExist ==
    ASSUME NEW list \in Seq(Int), list # <<>>
    PROVE  /\ \E x \in ToSet(list) : \A y \in ToSet(list) : x <= y
           /\ \E x \in ToSet(list) : \A y \in ToSet(list) : x >= y
<1> DEFINE S == ToSet(list)
           U == {p \in S \X S : p[1] <= p[2]}
           D == {p \in S \X S : p[1] >= p[2]}
<1>1. S \in SUBSET Int /\ S # {}
  <2>1. 1 \in DOMAIN list /\ \A i \in DOMAIN list : list[i] \in Int
    OBVIOUS
  <2> QED BY <2>1 DEF ToSet
<1>2. IsFiniteSet(S)
  <2>1. Len(list) \in Nat /\ list \in Surjection(1 .. Len(list), S)
    BY DEF Surjection, ToSet
  <2>2. IsFiniteSet(1 .. Len(list))
    BY <2>1, FS_Interval
  <2> QED BY <2>1, <2>2, FS_Surjection
<1> HIDE DEF S
<1>3. \A x, y \in S : (<<x, y>> \in U <=> x <= y) /\ (<<x, y>> \in D <=> x >= y)
  OBVIOUS
<1> HIDE DEF U, D
<1>4. \E x \in S : \A y \in S : <<x, y>> \in U
  <2>1. ASSUME NEW x \in S, NEW y \in S PROVE <<x, y>> \in U \/ <<y, x>> \in U
    <3>1. x <= y \/ y <= x
      BY <1>1
    <3> QED BY <1>3, <3>1
  <2>2. \A x, y, z \in S : <<x, y>> \in U /\ <<y, z>> \in U => <<x, z>> \in U
    BY <1>1, <1>3
  <2> QED BY <1>1, <1>2, <2>1, <2>2, FiniteLeast
<1>5. \E x \in S : \A y \in S : <<x, y>> \in D
  <2>1. ASSUME NEW x \in S, NEW y \in S PROVE <<x, y>> \in D \/ <<y, x>> \in D
    <3>1. x >= y \/ y >= x
      BY <1>1
    <3> QED BY <1>3, <3>1
  <2>2. \A x, y, z \in S : <<x, y>> \in D /\ <<y, z>> \in D => <<x, z>> \in D
    BY <1>1, <1>3
  <2> QED BY <1>1, <1>2, <2>1, <2>2, FiniteLeast
<1>6. (\E x \in S : \A y \in S : x <= y) /\ (\E x \in S : \A y \in S : x >= y)
  BY <1>3, <1>4, <1>5
<1> QED BY <1>6 DEF S

LEMMA StatsLemma ==
    ASSUME NEW list \in Seq(Int), list # <<>>
    PROVE  /\ {Stats(list).min, Stats(list).max} \subseteq ToSet(list)
           /\ \A v \in ToSet(list) : Stats(list).min <= v /\ v <= Stats(list).max
           /\ Stats(list).last = list[Len(list)]
<1> DEFINE S == ToSet(list)
<1>1. Stats(list) = [min |-> Min(S), max |-> Max(S), last |-> list[Len(list)]]
  BY DEF Stats
<1>2. (\E x \in S : \A y \in S : x <= y) /\ (\E x \in S : \A y \in S : x >= y)
  BY ExtremesExist
<1>3. S \in SUBSET Int
  BY DEF ToSet
<1> HIDE DEF S
<1>4. Min(S) \in S /\ \A y \in S : Min(S) <= y
  BY <1>2 DEF Min
<1>5. Max(S) \in S /\ \A y \in S : Max(S) >= y
  BY <1>2 DEF Max
<1>6. \A y \in S : y <= Max(S)
  BY <1>3, <1>5
<1> QED BY <1>1, <1>4, <1>5, <1>6 DEF S

\* What holds of neighbours holds of any two.
LEMMA AscendsPairwise ==
    ASSUME NEW s \in Seq(Int), \A i \in 1 .. Len(s) - 1 : s[i] < s[i + 1]
    PROVE  \A i, j \in 1 .. Len(s) : i < j => s[i] < s[j]
<1> SUFFICES ASSUME NEW i \in 1 .. Len(s), NEW j \in 1 .. Len(s), i < j, ~(s[i] < s[j]) PROVE FALSE
  OBVIOUS
<1> DEFINE bad == {d \in Nat : d > 0 /\ i + d <= Len(s) /\ ~(s[i] < s[i + d])}
           R   == OpToRel(<, Nat)
<1>1. j - i \in bad
  OBVIOUS
<1>2. \A x, y \in Nat : y < x => <<y, x>> \in R
  BY DEF OpToRel
<1> HIDE DEF R
<1>3. IsWellFoundedOn(R, Nat)
  BY NatLessThanWellFounded DEF R
<1> HIDE DEF bad
<1>4. PICK d \in bad : \A e \in bad : ~(<<e, d>> \in R)
  <2>1. bad \subseteq Nat /\ bad # {}
    BY <1>1 DEF bad
  <2> QED BY <1>3, <2>1, WFMin
<1>5. d \in Nat /\ d > 0 /\ i + d <= Len(s) /\ ~(s[i] < s[i + d])
  BY <1>4 DEF bad
<1>6. s[i + (d - 1)] < s[i + d]
  <2>1. i + (d - 1) \in 1 .. Len(s) - 1 /\ (i + (d - 1)) + 1 = i + d
    BY <1>5
  <2> QED BY <2>1
<1>7. d # 1
  BY <1>5, <1>6
<1>8. d - 1 \in bad
  <2>1. d - 1 \in Nat /\ d - 1 > 0 /\ i + (d - 1) <= Len(s)
    BY <1>5, <1>7
  <2>2. s[i] \in Int /\ s[i + (d - 1)] \in Int /\ s[i + d] \in Int
    BY <1>5, <2>1
  <2>3. ~(s[i] < s[i + (d - 1)])
    BY <1>5, <1>6, <2>2
  <2> QED BY <2>1, <2>3 DEF bad
<1>9. <<d - 1, d>> \in R
  BY <1>2, <1>5, <1>8 DEF bad
<1> QED BY <1>4, <1>8, <1>9

\* A sequence of numbers that ascends strictly has as many elements as places, and
\* i - 1 of them are below the i-th.
LEMMA AscendingCounts ==
    ASSUME NEW s \in Seq(Int), \A i, j \in 1 .. Len(s) : i < j => s[i] < s[j]
    PROVE  /\ Cardinality(ToSet(s)) = Len(s)
           /\ \A i \in 1 .. Len(s) : Cardinality({y \in ToSet(s) : y < s[i]}) = i - 1
<1> DEFINE n == Len(s)
           T == ToSet(s)
<1>1. n \in Nat /\ DOMAIN s = 1 .. n
  OBVIOUS
<1>2. T = {s[i] : i \in 1 .. n}
  BY <1>1 DEF ToSet
<1>3. \A i, j \in 1 .. n : s[i] \in Int /\ (i < j <=> s[i] < s[j]) /\ (s[i] = s[j] => i = j)
  <2>1. \A i \in 1 .. n : s[i] \in Int
    OBVIOUS
  <2>2. \A i, j \in 1 .. n : i < j => s[i] < s[j]
    OBVIOUS
  <2> HIDE DEF n
  <2> QED BY ONLY <1>1, <2>1, <2>2
<1> HIDE DEF n, T
<1>4. ASSUME NEW m \in 0 .. n, NEW U, U = {s[i] : i \in 1 .. m}
      PROVE  Cardinality(U) = m
  <2> DEFINE f == [i \in 1 .. m |-> s[i]]
  <2>1. m \in Nat /\ \A i \in 1 .. m : i \in 1 .. n
    BY <1>1
  <2>2. f \in [1 .. m -> U] /\ DOMAIN f = 1 .. m /\ \A i \in 1 .. m : f[i] = s[i]
    BY <1>4
  <2> HIDE DEF f
  <2>3. \A i, j \in 1 .. m : f[i] = f[j] => i = j
    BY <1>3, <2>1, <2>2
  <2>4. \A u \in U : \E i \in 1 .. m : f[i] = u
    BY <1>4, <2>2
  <2>5. f \in Bijection(1 .. m, U)
    BY ONLY <2>2, <2>3, <2>4 DEF Bijection, Injection, Surjection, IsInjective
  <2> QED BY <2>1, <2>5, FS_CountingElements DEF ExistsBijection
<1>5. Cardinality(T) = n
  BY <1>1, <1>2, <1>4
<1>6. ASSUME NEW i \in 1 .. n PROVE Cardinality({y \in T : y < s[i]}) = i - 1
  <2>1. i - 1 \in 0 .. n /\ \A j \in 1 .. n : j < i <=> j \in 1 .. i - 1
    BY <1>1
  <2>2. {y \in T : y < s[i]} = {s[j] : j \in 1 .. i - 1}
    BY <1>2, <1>3, <2>1, <1>1
  <2> QED BY <1>4, <2>1, <2>2
<1> QED BY <1>5, <1>6 DEF n, T

\* sorted(set(...)) of picks that ascend strictly returns them as they are.
LEMMA SortedPicks ==
    ASSUME NEW s \in Seq(Int), \A i, j \in 1 .. Len(s) : i < j => s[i] < s[j]
    PROVE  SortedBy(ToSet(s), <) = s
<1> DEFINE n     == Len(s)
           T     == ToSet(s)
           ahead == [x \in T |-> Cardinality({y \in T : y < x})]
           order == [k \in 1 .. n |-> CHOOSE x \in T : ahead[x] = k - 1]
<1>1. n \in Nat /\ DOMAIN s = 1 .. n /\ T = {s[i] : i \in 1 .. n}
  BY DEF ToSet
<1>2. Cardinality(T) = n /\ \A i \in 1 .. n : ahead[s[i]] = i - 1
  BY <1>1, AscendingCounts
<1>3. SortedBy(T, <) = order
  BY <1>2 DEF SortedBy
<1> HIDE DEF ahead, T
<1>4. ASSUME NEW k \in 1 .. n PROVE order[k] = s[k]
  <2>1. s[k] \in T /\ ahead[s[k]] = k - 1
    BY <1>1, <1>2
  <2>2. ASSUME NEW x \in T, ahead[x] = k - 1 PROVE x = s[k]
    <3>1. PICK i \in 1 .. n : x = s[i]
      BY <1>1, <2>2
    <3>2. i - 1 = k - 1
      BY <1>2, <2>2, <3>1
    <3>3. i = k
      BY <3>2
    <3> QED BY <3>1, <3>3
  <2> QED BY <2>1, <2>2
<1>5. order = s
  BY <1>1, <1>4
<1> QED BY <1>3, <1>5 DEF T
\* As many points as the limit allows, the newest of them the last.
IsChart(list) ==
    /\ list \in Seq(Int) /\ list # <<>>
    /\ Len(list) = Min({Len(points), maxPoints})
    /\ list[Len(list)] = points[Len(points)]

DrawnInv ==
    /\ phase = "draw" /\ Len(points) > maxPoints /\ maxPoints > 1
          => Len(picked) = maxPoints
    /\ phase = "done" /\ points # <<>>
          => IsChart(drawn) /\ legend = Stats(drawn)

\* The chart has as many points as the limit allows, and the newest is its last.
LEMMA KeptLemma ==
    ASSUME Inv, points # <<>>,
           Len(points) > maxPoints /\ maxPoints > 1 => Len(picked) = maxPoints
    PROVE  IsChart(Kept)
<1> USE DEF IsChart
<1> DEFINE n == Len(points)
<1>1. n \in Nat \ {0} /\ maxPoints \in Nat \ {0} /\ points \in Seq(Int)
  <2>1. points \in Seq(Values) /\ maxPoints \in Nat \ {0}
    BY DEF Inv, Shapes
  <2>2. points \in Seq(Int)
    <3>1. \A i \in 1 .. Len(points) : points[i] \in Values
      BY <2>1
    <3>2. \A i \in 1 .. Len(points) : points[i] \in Int
      BY ONLY <3>1, SeriesAssumption
    <3> QED BY <2>1, <3>2
  <2> QED BY <2>1, <2>2
<1>2. Min({n, maxPoints}) = IF n <= maxPoints THEN n ELSE maxPoints
  <2> HIDE DEF n
  <2> QED BY <1>1 DEF Min
<1>3. CASE n <= maxPoints
  BY <1>1, <1>2, <1>3 DEF Kept
<1>4. CASE n > maxPoints /\ maxPoints = 1
  <2>1. Kept = <<points[n]>> /\ points[n] \in Int
    BY <1>1, <1>4 DEF Kept
  <2> QED BY <1>2, <1>4, <2>1
<1>5. CASE n > maxPoints /\ maxPoints > 1
  <2>1. Len(picked) = maxPoints /\ picked \in Seq(0 .. n - 1)
    BY <1>5 DEF Inv, Shapes
  <2>2. picked \in Seq(Int) /\ \A i \in 1 .. maxPoints : picked[i] \in 0 .. n - 1
    BY <2>1
  <2>3. \A i, j \in 1 .. Len(picked) : i < j => picked[i] < picked[j]
    BY <2>2, InvAscends, AscendsPairwise DEF PicksAscend
  <2>4. SortedBy(ToSet(picked), <) = picked
    BY <2>2, <2>3, SortedPicks
  <2>5. picked[maxPoints] = n - 1
    BY <2>1, <1>5, InvEnds DEF EndsArePicked
  <2>6. Kept = [j \in 1 .. maxPoints |-> points[picked[j] + 1]]
    <3>1. ~(Len(points) <= maxPoints) /\ ~(maxPoints <= 1)
      BY <1>1, <1>5
    <3>2. Kept = [j \in DOMAIN picked |-> points[picked[j] + 1]]
      BY ONLY <2>4, <3>1, Zenon DEF Kept
    <3>3. DOMAIN picked = 1 .. maxPoints
      BY <2>1
    <3> QED BY <3>2, <3>3
  <2>7. \A i \in 1 .. maxPoints : picked[i] + 1 \in 1 .. n
    BY <2>2, <1>1
  <2>8. Kept \in Seq(Int) /\ Len(Kept) = maxPoints
    BY <1>1, <2>6, <2>7
  <2>9. Kept[maxPoints] = points[n]
    BY <1>1, <2>5, <2>6
  <2> QED BY <1>1, <1>2, <1>5, <2>8, <2>9
<1> QED BY <1>1, <1>3, <1>4, <1>5

LEMMA StepDrawn == Inv /\ DrawnInv /\ [Next]_vars => DrawnInv'
<1> SUFFICES ASSUME Inv, DrawnInv, [Next]_vars PROVE DrawnInv'
  OBVIOUS
<1> USE DEF Inv, Shapes, DrawnInv
<1>1. CASE ParsePoint
  BY <1>1 DEF ParsePoint
<1>2. CASE ThinOut
  BY <1>2 DEF ThinOut
<1>3. CASE Pick
  BY <1>3 DEF Pick
<1>4. CASE Draw
  <2>1. /\ phase = "draw" /\ phase' = "done" /\ points' = points /\ maxPoints' = maxPoints
        /\ drawn' = Kept /\ legend' = Stats(drawn')
    BY <1>4 DEF Draw
  <2>2. points # <<>> => IsChart(Kept)
    BY <2>1, KeptLemma
  <2>3. points' # <<>> => IsChart(drawn)'
    BY ONLY <2>1, <2>2 DEF IsChart
  <2> QED BY <2>1, <2>3
<1>5. CASE UNCHANGED vars
  BY <1>5 DEF vars, IsChart
<1> QED BY <1>1, <1>2, <1>3, <1>4, <1>5 DEF Next

LEMMA InvLegend == DrawnInv => LegendIsOfTheChart
<1> SUFFICES ASSUME DrawnInv, phase = "done", points # <<>> PROVE LegendIsOfTheChart
  BY DEF LegendIsOfTheChart
<1>1. IsChart(drawn) /\ legend = Stats(drawn)
  BY DEF DrawnInv
<1>2. /\ {legend.min, legend.max} \subseteq ToSet(drawn)
      /\ \A v \in ToSet(drawn) : legend.min <= v /\ v <= legend.max
      /\ legend.last = drawn[Len(drawn)]
  BY <1>1, StatsLemma DEF IsChart
<1> QED BY <1>1, <1>2 DEF LegendIsOfTheChart, IsChart

\* For every answer and every limit, the legend speaks of the points that are drawn, which
\* are as many as the limit allows, and its "last" is the newest finite value
\* (collector.py:142-143).
THEOREM LegendSpeaksOfTheChart == Spec => []LegendIsOfTheChart
<1>1. Init => DrawnInv
  BY DEF Init, DrawnInv
<1> QED BY <1>1, Invariance, StepDrawn, InvLegend, PTL DEF Spec
=============================================================================
