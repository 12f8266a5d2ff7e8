----------------------------- MODULE RecordProofs ------------------------------
(* What is proved of what a record says: of its verdict about the two result  *)
(* sets, for any rows, and of the samples, predictions and reports made of    *)
(* its numbers, for samples of any length and sweeps of any number of runs.   *)
(* The order statistics are chosen by counting, so their proofs count; the    *)
(* verdict compares sorted canonical rows, so its proofs are about what       *)
(* rounding keeps, about the order of the JSON texts, and about sorting.      *)
EXTENDS Reports, Equivalence, FiniteSetTheorems, FunctionTheorems, TLAPS

-------------------------------------------------------------------------------
(* Numbers and finite sets.                                                 *)

\* A set of natural numbers has a least element.
LEMMA LeastOfNaturals ==
  ASSUME NEW S \in SUBSET Nat, S # {}
  PROVE  \E m \in S : \A k \in S : m <= k
<1> DEFINE R == OpToRel(<, Nat)
<1>1. IsWellFoundedOn(R, Nat)
  BY NatLessThanWellFounded
<1>2. \A x, y \in Nat : <<x, y>> \in R <=> x < y
  BY DEF OpToRel
<1> HIDE DEF R
<1>3. PICK m \in S : \A k \in S : ~ (<<k, m>> \in R)
  BY <1>1, WFMin
<1>4. \A k \in S : ~ (k < m)
  BY <1>2, <1>3
<1>5. \A k \in S : m <= k
  BY <1>4
<1> QED BY <1>5

\* A smaller set has fewer elements; one of the same size is the same.
LEMMA Fewer ==
  ASSUME NEW S, NEW T, IsFiniteSet(T), S \subseteq T
  PROVE  /\ IsFiniteSet(S) /\ Cardinality(S) \in Nat /\ Cardinality(T) \in Nat
         /\ Cardinality(S) <= Cardinality(T)
         /\ S # T => Cardinality(S) < Cardinality(T)
<1>1. S \in SUBSET T
  OBVIOUS
<1>2. IsFiniteSet(S) /\ Cardinality(S) <= Cardinality(T) /\ (Cardinality(T) = Cardinality(S) => T = S)
  BY <1>1, FS_Subset
<1>3. Cardinality(S) \in Nat /\ Cardinality(T) \in Nat
  BY <1>2, FS_CardinalityType
<1> QED BY <1>2, <1>3

\* A measure has a greatest value on a finite set: where the fewest are greater.
LEMMA GreatestMeasure ==
  ASSUME NEW I, IsFiniteSet(I), I # {}, NEW f, \A i \in I : f[i] \in Nat
  PROVE  \E i \in I : \A j \in I : f[j] <= f[i]
<1> DEFINE More(i) == {j \in I : f[j] > f[i]}
           counts == {Cardinality(More(i)) : i \in I}
<1>1. ASSUME NEW i \in I PROVE IsFiniteSet(More(i)) /\ Cardinality(More(i)) \in Nat
  <2>1. More(i) \subseteq I
    OBVIOUS
  <2> QED BY <2>1, Fewer
<1>2. counts \in SUBSET Nat /\ counts # {}
  BY <1>1
<1>3. PICK c \in counts : \A d \in counts : c <= d
  <2> HIDE DEF counts
  <2> QED BY <1>2, LeastOfNaturals
<1>4. PICK i \in I : c = Cardinality(More(i))
  BY <1>3
<1>5. ASSUME NEW k \in I, f[k] > f[i] PROVE FALSE
  <2>1. f[k] \in Nat /\ f[i] \in Nat
    OBVIOUS
  <2>2. More(k) \subseteq More(i)
    <3> SUFFICES ASSUME NEW j \in I, f[j] > f[k] PROVE f[j] > f[i]
      OBVIOUS
    <3>1. f[j] \in Nat
      OBVIOUS
    <3> QED BY <1>5, <2>1, <3>1
  <2>3. k \in More(i) /\ k \notin More(k)
    BY <1>5, <2>1
  <2>4. Cardinality(More(i)) <= Cardinality(More(k))
    BY <1>3, <1>4
  <2> HIDE DEF More
  <2>5. Cardinality(More(k)) < Cardinality(More(i))
    BY <1>1, <2>2, <2>3, Fewer
  <2> QED BY <1>1, <2>4, <2>5
<1>6. ASSUME NEW j \in I PROVE f[j] <= f[i]
  BY <1>5
<1> QED BY <1>6

-------------------------------------------------------------------------------
(* sorted(values)[k].                                                       *)

Smaller(values, v) == {i \in DOMAIN values : values[i] < v}
UpTo(values, v) == {i \in DOMAIN values : values[i] <= v}
IsKth(values, k, v) ==
  /\ \E i \in DOMAIN values : v = values[i]
  /\ Cardinality(Smaller(values, v)) <= k /\ Cardinality(UpTo(values, v)) > k

LEMMA TimesAreNaturals ==
  ASSUME NEW values \in Seq(Nat)
  PROVE  \A i \in DOMAIN values : values[i] \in Nat
OBVIOUS

LEMMA Positions ==
  ASSUME NEW values \in Seq(Nat), NEW v
  PROVE  /\ DOMAIN values = 1 .. Len(values) /\ Len(values) \in Nat
         /\ IsFiniteSet(DOMAIN values) /\ Cardinality(DOMAIN values) = Len(values)
         /\ IsFiniteSet(Smaller(values, v)) /\ Cardinality(Smaller(values, v)) \in Nat
         /\ IsFiniteSet(UpTo(values, v)) /\ Cardinality(UpTo(values, v)) \in Nat
<1>1. DOMAIN values = 1 .. Len(values) /\ Len(values) \in Nat
  OBVIOUS
<1>2. IsFiniteSet(1 .. Len(values)) /\ Cardinality(1 .. Len(values)) = Len(values)
  <2>1. ASSUME NEW n \in Nat PROVE IsFiniteSet(1 .. n) /\ Cardinality(1 .. n) = n
    BY ONLY <2>1, FS_Interval
  <2> QED BY ONLY <1>1, <2>1
<1>3. Smaller(values, v) \subseteq DOMAIN values /\ UpTo(values, v) \subseteq DOMAIN values
  BY DEF Smaller, UpTo
<1> QED BY <1>1, <1>2, <1>3, Fewer

\* Of the times of some executions there is a greatest.
LEMMA GreatestTime ==
  ASSUME NEW values \in Seq(Nat), NEW I \in SUBSET DOMAIN values, I # {}
  PROVE  \E i \in I : \A j \in I : values[j] <= values[i]
<1>1. IsFiniteSet(I)
  BY Positions, Fewer
<1>2. \A i \in I : values[i] \in Nat
  BY TimesAreNaturals
<1> QED BY <1>1, <1>2, GreatestMeasure

LEMMA KthExists ==
  ASSUME NEW values \in Seq(Nat), NEW k \in 0 .. Len(values) - 1
  PROVE  \E v \in Nat : IsKth(values, k, v)
<1> DEFINE D == DOMAIN values
           reached == {v \in {values[i] : i \in D} : Cardinality(UpTo(values, v)) > k}
<1>1. D # {} /\ Len(values) \in Nat /\ k \in Nat /\ k < Len(values) /\ \A i \in D : values[i] \in Nat
  <2>1. D = 1 .. Len(values) /\ Len(values) \in Nat
    OBVIOUS
  <2>2. 1 \in D /\ k \in Nat /\ k < Len(values)
    BY <2>1
  <2> QED BY <2>1, <2>2, TimesAreNaturals
<1>2. reached \in SUBSET Nat
  OBVIOUS
<1>3. reached # {}
  <2>1. PICK i \in D : \A j \in D : values[j] <= values[i]
    BY <1>1, GreatestTime
  <2>2. UpTo(values, values[i]) = D
    BY <2>1 DEF UpTo
  <2>3. Cardinality(UpTo(values, values[i])) > k
    BY <1>1, <2>2, Positions
  <2> QED BY <2>3
<1>4. PICK v \in reached : \A w \in reached : v <= w
  <2> HIDE DEF reached
  <2> QED BY <1>2, <1>3, LeastOfNaturals
<1>5. v \in Nat /\ (\E i \in D : v = values[i]) /\ Cardinality(UpTo(values, v)) > k
  BY <1>1
<1>6. Cardinality(Smaller(values, v)) <= k
  <2>1. CASE Smaller(values, v) = {}
    BY <1>1, <2>1, FS_EmptySet
  <2>2. CASE Smaller(values, v) # {}
    <3>1. Smaller(values, v) \in SUBSET D
      BY DEF Smaller
    <3>2. PICK i \in Smaller(values, v) : \A j \in Smaller(values, v) : values[j] <= values[i]
      BY <2>2, <3>1, GreatestTime
    <3>3. i \in D /\ values[i] \in Nat /\ values[i] < v
      BY <1>1, <3>2 DEF Smaller
    <3>4. UpTo(values, values[i]) = Smaller(values, v)
      <4>1. ASSUME NEW j \in D PROVE values[j] <= values[i] <=> values[j] < v
        <5>1. values[j] < v => values[j] <= values[i]
          BY <3>2 DEF Smaller
        <5>2. values[j] \in Nat
          BY <1>1, TimesAreNaturals
        <5>3. ASSUME NEW a \in Nat, NEW b \in Nat, NEW c \in Nat, b < c, a < c => a <= b
              PROVE  a <= b <=> a < c
          BY ONLY <5>3
        <5> QED BY ONLY <1>5, <3>3, <5>1, <5>2, <5>3
      <4> QED BY <4>1 DEF UpTo, Smaller
    <3>5. values[i] \notin reached
      <4> HIDE DEF reached
      <4> QED BY <1>4, <1>5, <3>3
    <3>6. ~(Cardinality(Smaller(values, v)) > k)
      BY <3>3, <3>4, <3>5
    <3> QED BY <1>1, <3>6, Positions
  <2> QED BY <2>1, <2>2
<1> QED BY <1>5, <1>6 DEF IsKth

\* Kth is what it says, for samples of any length and order.
LEMMA KthIsKth ==
  ASSUME NEW values \in Seq(Nat), NEW k \in 0 .. Len(values) - 1
  PROVE  Kth(values, k) \in Nat /\ IsKth(values, k, Kth(values, k))
<1>1. PICK v \in Nat : IsKth(values, k, v)
  BY KthExists
<1>2. Kth(values, k) = CHOOSE w \in {values[i] : i \in DOMAIN values} :
                         /\ Cardinality(Smaller(values, w)) <= k
                         /\ Cardinality(UpTo(values, w)) > k
  BY DEF Kth, Smaller, UpTo
<1>3. v \in {values[i] : i \in DOMAIN values}
  BY <1>1 DEF IsKth
<1>4. /\ Kth(values, k) \in {values[i] : i \in DOMAIN values}
      /\ Cardinality(Smaller(values, Kth(values, k))) <= k
      /\ Cardinality(UpTo(values, Kth(values, k))) > k
  BY <1>1, <1>2, <1>3 DEF IsKth
<1> QED BY <1>4 DEF IsKth

\* A later place holds no smaller time; a slower sample has no smaller one in any place.
LEMMA KthGrows ==
  ASSUME NEW values \in Seq(Nat), NEW others \in Seq(Nat), Len(others) = Len(values),
         \A i \in DOMAIN values : values[i] <= others[i],
         NEW k \in 0 .. Len(values) - 1, NEW l \in 0 .. Len(values) - 1, k <= l
  PROVE  Kth(values, k) <= Kth(others, l)
<1> DEFINE v == Kth(values, k)
           w == Kth(others, l)
<1>1. v \in Nat /\ IsKth(values, k, v) /\ w \in Nat /\ IsKth(others, l, w)
  BY KthIsKth
<1> HIDE DEF v, w
<1>2. ASSUME w < v PROVE FALSE
  <2>1. DOMAIN others = DOMAIN values /\ \A i \in DOMAIN values : values[i] \in Nat /\ others[i] \in Nat
    BY TimesAreNaturals
  <2>2. UpTo(others, w) \subseteq Smaller(values, v)
    BY <1>1, <1>2, <2>1 DEF UpTo, Smaller
  <2>3. Cardinality(UpTo(others, w)) <= Cardinality(Smaller(values, v))
    BY <2>2, Positions, Fewer
  <2>4. Cardinality(UpTo(others, w)) \in Nat /\ Cardinality(Smaller(values, v)) \in Nat
    BY Positions
  <2> QED BY <1>1, <2>3, <2>4 DEF IsKth
<1>3. v <= w
  BY <1>1, <1>2
<1> QED BY <1>3 DEF v, w

-------------------------------------------------------------------------------
(* percentile, summarize.                                                   *)

LEMMA TimesGrow ==
  ASSUME NEW a \in Nat, NEW b \in Nat, a <= b, NEW c \in Nat
  PROVE  a * c <= b * c /\ c * a <= c * b /\ a * c \in Nat /\ c * a = a * c
OBVIOUS

\* The place of a percentile, what is left to interpolate, and the neighbours.
RankAt(values, q) == q * (Len(values) - 1)
Lo(values, q) == RankAt(values, q) \div 100
Rest(values, q) == RankAt(values, q) % 100
Low(values, q) == Kth(values, Lo(values, q))
High(values, q) == IF Rest(values, q) = 0 THEN Low(values, q) ELSE Kth(values, Lo(values, q) + 1)
Step(values, q) == Rest(values, q) * (High(values, q) - Low(values, q))

LEMMA DivideByHundred ==
  ASSUME NEW rank \in Nat, NEW m \in Nat, rank <= 100 * m
  PROVE  /\ rank \div 100 \in 0 .. m /\ rank % 100 < 100 /\ rank % 100 \in Nat
         /\ rank = 100 * (rank \div 100) + (rank % 100)
         /\ rank % 100 # 0 => rank \div 100 + 1 \in 0 .. m
OBVIOUS

LEMMA RankOf ==
  ASSUME NEW values \in Seq(Nat), values # <<>>, NEW q \in 0 .. 100
  PROVE  /\ Len(values) \in Nat /\ Lo(values, q) \in Nat /\ Rest(values, q) \in Nat /\ RankAt(values, q) \in Nat
         /\ Lo(values, q) \in 0 .. Len(values) - 1 /\ Rest(values, q) < 100
         /\ RankAt(values, q) = 100 * Lo(values, q) + Rest(values, q)
         /\ Rest(values, q) # 0 => Lo(values, q) + 1 \in 0 .. Len(values) - 1
<1>1. Len(values) - 1 \in Nat /\ q \in Nat /\ q <= 100
  OBVIOUS
<1>2. RankAt(values, q) \in Nat /\ RankAt(values, q) <= 100 * (Len(values) - 1)
  BY <1>1, TimesGrow DEF RankAt
<1>3. Lo(values, q) \in Nat /\ Rest(values, q) \in Nat
  BY <1>2 DEF Lo, Rest
<1>4. /\ RankAt(values, q) \div 100 \in 0 .. Len(values) - 1 /\ RankAt(values, q) % 100 < 100
      /\ RankAt(values, q) = 100 * (RankAt(values, q) \div 100) + (RankAt(values, q) % 100)
      /\ RankAt(values, q) % 100 # 0 => RankAt(values, q) \div 100 + 1 \in 0 .. Len(values) - 1
  BY ONLY <1>1, <1>2, DivideByHundred
<1>5. Len(values) \in Nat
  OBVIOUS
<1> QED BY ONLY <1>2, <1>3, <1>4, <1>5 DEF Lo, Rest

LEMMA Neighbours ==
  ASSUME NEW values \in Seq(Nat), values # <<>>, NEW q \in 0 .. 100
  PROVE  /\ Low(values, q) \in Nat /\ High(values, q) \in Nat /\ Low(values, q) <= High(values, q)
<1>1. \A i \in DOMAIN values : values[i] <= values[i]
  BY TimesAreNaturals
<1>2. Low(values, q) \in Nat
  BY RankOf, KthIsKth DEF Low
<1>3. ASSUME Rest(values, q) # 0
      PROVE  Kth(values, Lo(values, q) + 1) \in Nat /\ Low(values, q) <= Kth(values, Lo(values, q) + 1)
  <2>1. /\ Lo(values, q) \in 0 .. Len(values) - 1 /\ Lo(values, q) + 1 \in 0 .. Len(values) - 1
        /\ Lo(values, q) <= Lo(values, q) + 1
    <3>1. Lo(values, q) \in Nat
      BY RankOf
    <3>2. Lo(values, q) \in 0 .. Len(values) - 1
      BY RankOf
    <3>3. Lo(values, q) + 1 \in 0 .. Len(values) - 1
      BY <1>3, RankOf
    <3> QED BY <3>1, <3>2, <3>3
  <2> QED BY <1>1, <2>1, KthIsKth, KthGrows DEF Low
<1> QED BY <1>2, <1>3 DEF High

\* Interpolation stays between the neighbours of the place.
LEMMA PercentileBetween ==
  ASSUME NEW values \in Seq(Nat), values # <<>>, NEW q \in 0 .. 100
  PROVE  /\ Percentile(values, q) = 100 * Low(values, q) + Step(values, q)
         /\ 100 * Low(values, q) <= Percentile(values, q)
         /\ Percentile(values, q) <= 100 * High(values, q)
         /\ Percentile(values, q) \in Nat
<1>1. /\ Low(values, q) \in Nat /\ High(values, q) \in Nat /\ Low(values, q) <= High(values, q)
      /\ Rest(values, q) \in Nat /\ Rest(values, q) <= 100
  <2>1. Rest(values, q) \in Nat /\ Rest(values, q) < 100
    BY RankOf
  <2>2. Low(values, q) \in Nat /\ High(values, q) \in Nat /\ Low(values, q) <= High(values, q)
    BY Neighbours
  <2> QED BY ONLY <2>1, <2>2
<1>2. Step(values, q) \in Nat /\ Step(values, q) <= 100 * (High(values, q) - Low(values, q))
  <2>1. High(values, q) - Low(values, q) \in Nat
    BY <1>1
  <2> QED BY <1>1, <2>1, TimesGrow DEF Step
<1>3. Percentile(values, q) = 100 * Low(values, q) + Step(values, q)
  <2>1. CASE Rest(values, q) = 0
    <3>1. Percentile(values, q) = 100 * Low(values, q) /\ High(values, q) = Low(values, q)
      BY <2>1 DEF Percentile, High, Low, Rest, Lo, RankAt
    <3>2. Step(values, q) = 0
      BY <1>1, <2>1, <3>1 DEF Step
    <3> QED BY <1>1, <3>1, <3>2
  <2>2. CASE Rest(values, q) # 0
    <3>1. High(values, q) = Kth(values, Lo(values, q) + 1)
      BY <2>2 DEF High
    <3>2. Percentile(values, q) = 100 * Low(values, q) + Rest(values, q) * (Kth(values, Lo(values, q) + 1) - Low(values, q))
      BY <2>2 DEF Percentile, Low, Rest, Lo, RankAt
    <3> QED BY <3>1, <3>2 DEF Step
  <2> QED BY <2>1, <2>2
<1> QED BY ONLY <1>1, <1>2, <1>3

\* A higher percentile of a sample is no smaller.
LEMMA PercentileGrows ==
  ASSUME NEW values \in Seq(Nat), values # <<>>, NEW p \in 0 .. 100, NEW q \in 0 .. 100, p <= q
  PROVE  Percentile(values, p) <= Percentile(values, q)
<1>1. Len(values) - 1 \in Nat /\ \A i \in DOMAIN values : values[i] <= values[i]
  BY TimesAreNaturals
<1>2. RankAt(values, p) <= RankAt(values, q)
  <2>1. p \in Nat /\ q \in Nat
    OBVIOUS
  <2> QED BY ONLY <1>1, <2>1, p <= q, TimesGrow DEF RankAt
<1>3. /\ Lo(values, p) \in Nat /\ Rest(values, p) \in Nat /\ Rest(values, p) < 100
      /\ RankAt(values, p) = 100 * Lo(values, p) + Rest(values, p)
  BY RankOf
<1>4. /\ Lo(values, q) \in Nat /\ Rest(values, q) \in Nat /\ Rest(values, q) < 100
      /\ RankAt(values, q) = 100 * Lo(values, q) + Rest(values, q)
  BY RankOf
<1>5. /\ Low(values, p) \in Nat /\ High(values, p) \in Nat
      /\ Percentile(values, p) = 100 * Low(values, p) + Step(values, p)
      /\ Percentile(values, p) <= 100 * High(values, p) /\ Percentile(values, p) \in Nat
  <2>1. Low(values, p) \in Nat /\ High(values, p) \in Nat /\ Low(values, p) <= High(values, p)
    BY Neighbours
  <2>2. /\ Percentile(values, p) = 100 * Low(values, p) + Step(values, p)
        /\ Percentile(values, p) <= 100 * High(values, p) /\ Percentile(values, p) \in Nat
    BY PercentileBetween
  <2> QED BY ONLY <2>1, <2>2
<1>6. /\ Low(values, q) \in Nat /\ High(values, q) - Low(values, q) \in Nat
      /\ Percentile(values, q) = 100 * Low(values, q) + Step(values, q)
      /\ 100 * Low(values, q) <= Percentile(values, q) /\ Percentile(values, q) \in Nat
  <2>1. Low(values, q) \in Nat /\ High(values, q) \in Nat /\ Low(values, q) <= High(values, q)
    BY Neighbours
  <2>2. /\ Percentile(values, q) = 100 * Low(values, q) + Step(values, q)
        /\ 100 * Low(values, q) <= Percentile(values, q) /\ Percentile(values, q) \in Nat
    BY PercentileBetween
  <2> QED BY ONLY <2>1, <2>2
<1>7. CASE Lo(values, p) = Lo(values, q)
  <2>1. Rest(values, p) <= Rest(values, q) /\ Low(values, p) = Low(values, q)
    BY <1>2, <1>3, <1>4, <1>7 DEF Low
  <2>2. CASE Rest(values, p) = 0
    <3>1. Percentile(values, p) = 100 * Low(values, p)
      BY ONLY <1>3, <1>5, <2>2 DEF Step
    <3> QED BY ONLY <1>5, <1>6, <2>1, <3>1
  <2>3. CASE Rest(values, p) # 0
    <3>1. High(values, p) = High(values, q)
      BY <1>3, <1>4, <1>7, <2>1, <2>3 DEF High
    <3>2. Step(values, p) <= Step(values, q)
      <4>1. Low(values, p) = Low(values, q) /\ High(values, p) = High(values, q)
        BY <2>1, <3>1
      <4>2. Rest(values, p) \in Nat /\ Rest(values, q) \in Nat /\ Rest(values, p) <= Rest(values, q)
        BY <1>3, <1>4, <2>1
      <4>3. High(values, q) - Low(values, q) \in Nat
        BY <1>6
      <4>4. Rest(values, p) * (High(values, q) - Low(values, q)) <= Rest(values, q) * (High(values, q) - Low(values, q))
        BY ONLY <4>2, <4>3, TimesGrow
      <4> QED BY ONLY <4>1, <4>4 DEF Step
    <3>3. 100 * Low(values, p) = 100 * Low(values, q)
      BY <2>1
    <3>4. Step(values, p) \in Int /\ Step(values, q) \in Int
      <4>1. High(values, p) - Low(values, p) \in Int /\ High(values, q) - Low(values, q) \in Int
        BY <1>5, <1>6
      <4>2. Rest(values, p) \in Int /\ Rest(values, q) \in Int
        BY <1>3, <1>4
      <4> QED BY ONLY <4>1, <4>2 DEF Step
    <3>5. ASSUME NEW a \in Int, NEW b \in Int, NEW s \in Int, NEW t \in Int, a = b, s <= t
          PROVE  a + s <= b + t
      BY ONLY <3>5
    <3>6. 100 * Low(values, p) \in Int /\ 100 * Low(values, q) \in Int
      BY <1>5, <1>6
    <3>7. 100 * Low(values, p) + Step(values, p) <= 100 * Low(values, q) + Step(values, q)
      BY ONLY <3>2, <3>3, <3>4, <3>5, <3>6
    <3> QED BY ONLY <1>5, <1>6, <3>7
  <2> QED BY <2>2, <2>3
<1>8. CASE Lo(values, p) # Lo(values, q)
  <2>1. Lo(values, p) < Lo(values, q)
    <3>1. ASSUME NEW k \in Nat, NEW l \in Nat, NEW r \in Nat, r < 100, NEW s \in Nat, s < 100,
                 100 * k + r <= 100 * l + s, k # l
          PROVE  k < l
      BY ONLY <3>1
    <3> QED BY ONLY <1>2, <1>3, <1>4, <1>8, <3>1
  <2>2. High(values, p) <= Low(values, q)
    <3>1. Lo(values, p) \in 0 .. Len(values) - 1 /\ Lo(values, q) \in 0 .. Len(values) - 1
      BY RankOf
    <3>2. CASE Rest(values, p) = 0
      <4>1. High(values, p) = Kth(values, Lo(values, p)) /\ Low(values, q) = Kth(values, Lo(values, q))
        BY ONLY <3>2 DEF High, Low
      <4>2. Lo(values, p) <= Lo(values, q)
        BY <1>3, <1>4, <2>1
      <4> QED BY <1>1, <3>1, <4>1, <4>2, KthGrows
    <3>3. CASE Rest(values, p) # 0
      <4>1. Lo(values, p) + 1 \in 0 .. Len(values) - 1 /\ Lo(values, p) + 1 <= Lo(values, q)
        <5>1. Lo(values, p) + 1 \in 0 .. Len(values) - 1
          BY <3>3, RankOf
        <5>2. Lo(values, p) + 1 <= Lo(values, q)
          BY ONLY <1>3, <1>4, <2>1
        <5> QED BY <5>1, <5>2
      <4> QED BY <1>1, <3>1, <3>3, <4>1, KthGrows DEF High, Low
    <3> QED BY <3>2, <3>3
  <2> QED BY <1>5, <1>6, <2>2
<1> QED BY <1>7, <1>8
\* A percentile of a slower sample is no smaller.
LEMMA PercentileOfSlower ==
  ASSUME NEW values \in Seq(Nat), NEW others \in Seq(Nat), Len(others) = Len(values), values # <<>>,
         \A i \in DOMAIN values : values[i] <= others[i], NEW q \in 0 .. 100
  PROVE  Percentile(values, q) <= Percentile(others, q)
<1>1. others # <<>> /\ Lo(others, q) = Lo(values, q) /\ Rest(others, q) = Rest(values, q)
  BY DEF Lo, Rest, RankAt
<1>2. Low(values, q) <= Low(others, q) /\ High(values, q) <= High(others, q)
  <2>1. Lo(values, q) \in 0 .. Len(values) - 1 /\ Lo(values, q) <= Lo(values, q)
    <3>1. Lo(values, q) \in 0 .. Len(values) - 1
      BY RankOf
    <3> QED BY <3>1
  <2>2. Low(values, q) <= Low(others, q)
    BY <1>1, <2>1, KthGrows DEF Low
  <2>3. CASE Rest(values, q) = 0
    BY <1>1, <2>2, <2>3 DEF High
  <2>4. CASE Rest(values, q) # 0
    <3>1. Lo(values, q) + 1 \in 0 .. Len(values) - 1 /\ Lo(values, q) + 1 <= Lo(values, q) + 1
      <4>1. Lo(values, q) + 1 \in 0 .. Len(values) - 1
        BY <2>4, RankOf
      <4> QED BY <4>1
    <3>2. Kth(values, Lo(values, q) + 1) <= Kth(others, Lo(values, q) + 1)
      BY <3>1, KthGrows
    <3> QED BY <1>1, <2>2, <2>4, <3>2 DEF High
  <2> QED BY <2>2, <2>3, <2>4
<1>3. Low(values, q) \in Nat /\ High(values, q) \in Nat /\ Rest(values, q) \in Nat /\ Rest(values, q) < 100
  <2>1. Rest(values, q) \in Nat /\ Rest(values, q) < 100
    BY RankOf
  <2> QED BY <2>1, Neighbours
<1>4. Low(others, q) \in Nat /\ High(others, q) \in Nat
  BY <1>1, Neighbours
<1>5. Percentile(values, q) = 100 * Low(values, q) + Step(values, q)
  BY PercentileBetween
<1>6. Percentile(others, q) = 100 * Low(others, q) + Step(others, q)
  BY <1>1, PercentileBetween
<1> DEFINE r == Rest(values, q)
           a == Low(values, q)
           b == High(values, q)
           c == Low(others, q)
           d == High(others, q)
<1>7. Step(values, q) = r * (b - a) /\ Step(others, q) = r * (d - c)
  BY <1>1 DEF Step
<1>8. a \in Nat /\ b \in Nat /\ c \in Nat /\ d \in Nat /\ r \in Nat /\ r < 100 /\ a <= c /\ b <= d
  BY <1>2, <1>3, <1>4
<1> HIDE DEF r, a, b, c, d
<1>9. r * b <= r * d /\ (100 - r) * a <= (100 - r) * c
  <2>1. 100 - r \in Nat
    BY <1>8
  <2>2. r * b <= r * d
    BY ONLY <1>8, TimesGrow
  <2>3. (100 - r) * a <= (100 - r) * c
    BY ONLY <1>8, <2>1, TimesGrow
  <2> QED BY <2>2, <2>3
<1>10. 100 * a + r * (b - a) <= 100 * c + r * (d - c)
  <2>1. 100 * a + r * (b - a) = (100 - r) * a + r * b /\ 100 * c + r * (d - c) = (100 - r) * c + r * d
    BY ONLY <1>8
  <2>2. r * b \in Int /\ r * d \in Int /\ (100 - r) * a \in Int /\ (100 - r) * c \in Int
    BY ONLY <1>8
  <2> QED BY ONLY <1>9, <2>1, <2>2
<1> QED BY <1>5, <1>6, <1>7, <1>10 DEF a, c

\* A percentile stands between the least and the greatest time.
LEMMA PercentileInside ==
  ASSUME NEW values \in Seq(Nat), values # <<>>, NEW q \in 0 .. 100
  PROVE  /\ Kth(values, 0) \in Nat /\ Kth(values, Len(values) - 1) \in Nat
         /\ 100 * Kth(values, 0) <= Percentile(values, q)
         /\ Percentile(values, q) <= 100 * Kth(values, Len(values) - 1)
<1>1. \A i \in DOMAIN values : values[i] <= values[i]
  BY TimesAreNaturals
<1>2. Len(values) - 1 \in Nat /\ 0 \in 0 .. Len(values) - 1 /\ Len(values) - 1 \in 0 .. Len(values) - 1
  OBVIOUS
<1>3. Lo(values, q) \in 0 .. Len(values) - 1
  BY RankOf
<1>4. Kth(values, 0) \in Nat /\ Kth(values, Len(values) - 1) \in Nat
  BY <1>2, KthIsKth
<1>5. Kth(values, 0) <= Low(values, q)
  <2>1. 0 <= Lo(values, q)
    BY <1>3
  <2> QED BY <1>1, <1>2, <1>3, <2>1, KthGrows DEF Low
<1>6. High(values, q) <= Kth(values, Len(values) - 1)
  <2>1. CASE Rest(values, q) = 0
    <3>1. Lo(values, q) <= Len(values) - 1
      BY <1>2, <1>3
    <3> QED BY <1>1, <1>2, <1>3, <2>1, <3>1, KthGrows DEF High, Low
  <2>2. CASE Rest(values, q) # 0
    <3>1. Lo(values, q) + 1 \in 0 .. Len(values) - 1
      BY <2>2, RankOf
    <3>2. Lo(values, q) + 1 <= Len(values) - 1
      BY <1>2, <3>1
    <3> QED BY <1>1, <1>2, <2>2, <3>1, <3>2, KthGrows DEF High
  <2> QED BY <2>1, <2>2
<1>7. Low(values, q) \in Nat /\ High(values, q) \in Nat
  BY Neighbours
<1>8. /\ 100 * Low(values, q) <= Percentile(values, q) /\ Percentile(values, q) <= 100 * High(values, q)
      /\ Percentile(values, q) \in Nat
  BY PercentileBetween
<1> QED BY ONLY <1>4, <1>5, <1>6, <1>7, <1>8

Ordered(s) ==
  /\ s.min <= s.p50 /\ s.p50 <= s.p95 /\ s.p95 <= s.p99 /\ s.p99 <= s.max
  /\ 0 <= s.iqr /\ s.iqr <= s.max - s.min

LEMMA SummaryOrdered ==
  ASSUME NEW values \in Seq(Nat)
  PROVE  /\ Ordered(Summary(values)) /\ Summary(values).p50 \in Nat
         /\ values # <<>> => {Summary(values).min, Summary(values).max} \subseteq {100 * values[i] : i \in DOMAIN values}
<1>1. CASE values = <<>>
  BY <1>1 DEF Summary, Nothing, Ordered
<1>2. CASE values # <<>>
  <2> DEFINE s == Summary(values)
             least == Kth(values, 0)
             greatest == Kth(values, Len(values) - 1)
             p25 == Percentile(values, 25)
             p75 == Percentile(values, 75)
  <2>1. /\ s.p50 = Percentile(values, 50) /\ s.p95 = Percentile(values, 95) /\ s.p99 = Percentile(values, 99)
        /\ s.iqr = p75 - p25 /\ s.min = 100 * least /\ s.max = 100 * greatest
    BY <1>2 DEF Summary
  <2>2. /\ 25 \in 0 .. 100 /\ 50 \in 0 .. 100 /\ 75 \in 0 .. 100 /\ 95 \in 0 .. 100 /\ 99 \in 0 .. 100
        /\ 25 <= 75 /\ 50 <= 95 /\ 95 <= 99
    OBVIOUS
  <2>3. /\ s.p50 \in Nat /\ s.p95 \in Nat /\ s.p99 \in Nat /\ p25 \in Nat /\ p75 \in Nat
    <3>1. \A q \in 0 .. 100 : Percentile(values, q) \in Nat
      BY <1>2, PercentileBetween
    <3> QED BY <2>1, <2>2, <3>1
  <2>4. p25 <= p75 /\ s.p50 <= s.p95 /\ s.p95 <= s.p99
    <3>1. \A p, q \in 0 .. 100 : p <= q => Percentile(values, p) <= Percentile(values, q)
      BY <1>2, PercentileGrows
    <3> QED BY <2>1, <2>2, <3>1
  <2>5. /\ least \in Nat /\ greatest \in Nat
        /\ 100 * least <= s.p50 /\ s.p99 <= 100 * greatest /\ 100 * least <= p25 /\ p75 <= 100 * greatest
    <3>1. \A q \in 0 .. 100 : /\ Kth(values, 0) \in Nat /\ Kth(values, Len(values) - 1) \in Nat
                              /\ 100 * Kth(values, 0) <= Percentile(values, q)
                              /\ Percentile(values, q) <= 100 * Kth(values, Len(values) - 1)
      BY <1>2, PercentileInside
    <3> QED BY <2>1, <2>2, <3>1
  <2>6. {s.min, s.max} \subseteq {100 * values[i] : i \in DOMAIN values}
    <3>1. 0 \in 0 .. Len(values) - 1 /\ Len(values) - 1 \in 0 .. Len(values) - 1
      BY <1>2
    <3>2. (\E i \in DOMAIN values : least = values[i]) /\ (\E i \in DOMAIN values : greatest = values[i])
      BY <3>1, KthIsKth DEF IsKth
    <3> HIDE DEF s, least, greatest
    <3> QED BY <2>1, <3>2
  <2> HIDE DEF s, least, greatest, p25, p75
  <2>7. Ordered(s)
    BY ONLY <2>1, <2>3, <2>4, <2>5 DEF Ordered
  <2> QED BY <2>3, <2>6, <2>7 DEF s
<1> QED BY <1>1, <1>2

\* Halfway between two of three or more times lies below the last but one.
LEMMA HalfWay ==
  ASSUME NEW n \in Nat, n >= 3, NEW l \in Nat, NEW r \in Nat, r # 0, 50 * (n - 1) = 100 * l + r
  PROVE  l + 1 <= n - 2
<1>1. 100 * l < 50 * (n - 1)
  OBVIOUS
<1>2. 2 * l < n - 1
  BY <1>1
<1> QED BY <1>2

\* From three measurements on, changing one leaves the median among the others.
LEMMA MedianStays ==
  ASSUME NEW values \in Seq(Nat), Len(values) >= 3, NEW i \in DOMAIN values, NEW t \in Nat
  PROVE  \E j \in DOMAIN values \ {i} : Summary([values EXCEPT ![i] = t]).p50 <= 100 * values[j]
<1> DEFINE others == [values EXCEPT ![i] = t]
           n == Len(values)
           D == DOMAIN values
<1>1. /\ others \in Seq(Nat) /\ Len(others) = n /\ DOMAIN others = D /\ others # <<>> /\ n \in Nat /\ D = 1 .. n
      /\ \A l \in D \ {i} : others[l] = values[l]
  OBVIOUS
<1>2. D \ {i} # {}
  <2>1. 1 \in D /\ 2 \in D
    BY <1>1
  <2> QED BY <2>1
<1>3. PICK j \in D \ {i} : \A l \in D \ {i} : values[l] <= values[j]
  BY <1>2, GreatestTime
<1>4. Summary(others).p50 = Percentile(others, 50)
  BY <1>1 DEF Summary
<1> HIDE DEF others
<1>5. \E k \in Nat : k <= n - 2 /\ High(others, 50) = Kth(others, k) /\ k \in 0 .. n - 1
  <2>1. /\ Lo(others, 50) \in Nat /\ Rest(others, 50) \in Nat /\ Rest(others, 50) < 100
        /\ 50 * (n - 1) = 100 * Lo(others, 50) + Rest(others, 50)
    <3>1. Lo(others, 50) \in Nat /\ Rest(others, 50) \in Nat /\ Rest(others, 50) < 100
      BY <1>1, RankOf
    <3>2. RankAt(others, 50) = 100 * Lo(others, 50) + Rest(others, 50)
      BY <1>1, RankOf
    <3> QED BY <1>1, <3>1, <3>2 DEF RankAt
  <2>2. CASE Rest(others, 50) = 0
    <3>1. Lo(others, 50) <= n - 2
      BY ONLY <1>1, <2>1, <2>2, Len(values) >= 3
    <3>2. High(others, 50) = Kth(others, Lo(others, 50))
      BY <2>2 DEF High, Low
    <3>3. Lo(others, 50) \in 0 .. n - 1
      BY ONLY <1>1, <2>1, <3>1
    <3> QED BY ONLY <2>1, <3>1, <3>2, <3>3
  <2>3. CASE Rest(others, 50) # 0
    <3>1. Lo(others, 50) + 1 <= n - 2
      <4>1. n \in Nat /\ n >= 3
        BY <1>1
      <4> HIDE DEF n
      <4> QED BY ONLY <4>1, <2>1, <2>3, HalfWay
    <3>2. High(others, 50) = Kth(others, Lo(others, 50) + 1)
      BY <2>3 DEF High
    <3>3. Lo(others, 50) + 1 \in 0 .. n - 1 /\ Lo(others, 50) + 1 \in Nat
      <4>1. Lo(others, 50) \in Nat /\ n \in Nat
        BY <1>1, <2>1
      <4> HIDE DEF n
      <4> QED BY ONLY <4>1, <3>1
    <3> QED BY ONLY <3>1, <3>2, <3>3
  <2> QED BY <2>2, <2>3
<1>6. PICK k \in Nat : k <= n - 2 /\ High(others, 50) = Kth(others, k) /\ k \in 0 .. n - 1
  BY <1>5
<1>7. Kth(others, k) \in Nat /\ IsKth(others, k, Kth(others, k))
  BY <1>1, <1>6, KthIsKth
<1>8. values[j] \in Nat
  BY TimesAreNaturals
<1>9. ASSUME Kth(others, k) > values[j] PROVE FALSE
  <2>1. D \ {i} \subseteq Smaller(others, Kth(others, k))
    <3> SUFFICES ASSUME NEW l \in D \ {i} PROVE others[l] < Kth(others, k) /\ l \in DOMAIN others
      BY DEF Smaller
    <3>1. others[l] = values[l] /\ values[l] \in Nat /\ values[l] <= values[j]
      BY <1>1, <1>3, TimesAreNaturals
    <3> QED BY ONLY <1>1, <1>7, <1>8, <1>9, <3>1
  <2>2. Cardinality(D \ {i}) = n - 1
    <3>1. IsFiniteSet(D) /\ Cardinality(D) = n
      BY Positions
    <3> QED BY <3>1, FS_RemoveElement
  <2>3. /\ IsFiniteSet(Smaller(others, Kth(others, k)))
        /\ Cardinality(Smaller(others, Kth(others, k))) \in Nat
    BY <1>1, Positions
  <2>4. n - 1 <= Cardinality(Smaller(others, Kth(others, k)))
    BY <2>1, <2>2, <2>3, Fewer
  <2>5. Cardinality(Smaller(others, Kth(others, k))) <= k
    BY <1>7 DEF IsKth
  <2> QED BY ONLY <1>1, <1>6, <2>3, <2>4, <2>5
<1>10. Percentile(others, 50) <= 100 * Kth(others, k) /\ Percentile(others, 50) \in Nat
  BY <1>1, <1>6, PercentileBetween
<1>11. Percentile(others, 50) <= 100 * values[j]
  BY ONLY <1>7, <1>8, <1>9, <1>10
<1> QED BY <1>4, <1>11 DEF others

-------------------------------------------------------------------------------
(* The verdict on the first prediction.                                     *)

AllRuns ==
  [variant : Variants, mongo : Seq(Nat), oracle : Seq(Nat), mongoErrors : Nat, oracleErrors : Nat, match : BOOLEAN]

\* Every registered prediction is about a whole number of tenths.
LEMMA PredictionsAreTenths ==
  ASSUME NEW variant \in Variants PROVE FirstPrediction(variant).value[1] \in Int
<1>1. PICK id \in DOMAIN Scenarios : variant \in {<<id, label>> : label \in DOMAIN Scenarios[id]}
  BY DEF Variants
<1>2. PICK label \in DOMAIN Scenarios[id] : variant = <<id, label>>
  BY <1>1
<1>3. FirstPrediction(variant) = Scenarios[id][label]
  BY <1>2 DEF FirstPrediction
<1>4. id \in {"S01", "S02", "S03", "S04", "S05", "S06", "S07", "S08", "S09", "S10", "S12", "S13", "S14"}
  BY <1>1 DEF Scenarios
<1> DEFINE Tenths(scenario) == \A l \in DOMAIN scenario : scenario[l].value[1] \in Int
<1>5. Tenths(S01) /\ Tenths(S02) /\ Tenths(S03)
  BY DEF S01, S02, S03, RatioIn, RatioAtLeast, Predict
<1>6. Tenths(S04) /\ Tenths(S05) /\ Tenths(S06)
  BY DEF S04, S05, S06, RatioIn, RatioAtLeast, Predict, Spills
<1>7. Tenths(S07) /\ Tenths(S08)
  BY DEF S07, S08, RatioIn, RatioAtLeast, Predict
<1>8. Tenths(S09) /\ Tenths(S10)
  BY DEF S09, S10, RatioIn, RatioAtLeast, Predict
<1>9. Tenths(S12) /\ Tenths(S13) /\ Tenths(S14)
  BY DEF S12, S13, S14, RatioIn, RatioAtLeast, Predict
<1>10. /\ Scenarios["S01"] = S01 /\ Scenarios["S02"] = S02 /\ Scenarios["S03"] = S03 /\ Scenarios["S04"] = S04
       /\ Scenarios["S05"] = S05 /\ Scenarios["S06"] = S06 /\ Scenarios["S07"] = S07 /\ Scenarios["S08"] = S08
       /\ Scenarios["S09"] = S09 /\ Scenarios["S10"] = S10 /\ Scenarios["S12"] = S12 /\ Scenarios["S13"] = S13
       /\ Scenarios["S14"] = S14
  BY DEF Scenarios
<1>11. Tenths(Scenarios[id])
  <2> HIDE DEF Tenths
  <2> QED BY <1>4, <1>5, <1>6, <1>7, <1>8, <1>9, <1>10
<1> QED BY <1>2, <1>3, <1>11

\* One of Mongo's times grew: a ratio that was large enough still is.
LEMMA SlowerPasses ==
  ASSUME NEW run \in AllRuns, run.mongo # <<>>, Passes(run),
         FirstPrediction(run.variant).metric = "ratio_mongo_to_oracle",
         FirstPrediction(run.variant).operator = ">=",
         NEW i \in DOMAIN run.mongo, NEW t \in Nat, t >= run.mongo[i]
  PROVE  Passes([run EXCEPT !.mongo[i] = t])
<1> DEFINE slower == [run EXCEPT !.mongo[i] = t]
           m == Summary(run.mongo).p50
           o == Summary(run.oracle).p50
           w == Summary(slower.mongo).p50
           tenths == FirstPrediction(run.variant).value[1]
<1>1. run.mongo \in Seq(Nat) /\ run.oracle \in Seq(Nat) /\ run.variant \in Variants
  BY DEF AllRuns
<1>2. slower.variant = run.variant /\ slower.oracle = run.oracle /\ slower.mongo = [run.mongo EXCEPT ![i] = t]
  BY DEF AllRuns
<1>3. m \in Nat /\ o \in Nat
  BY <1>1, SummaryOrdered
<1>4. tenths \in Int
  BY <1>1, PredictionsAreTenths
<1>5. slower.mongo \in Seq(Nat) /\ Len(slower.mongo) = Len(run.mongo) /\ slower.mongo # <<>>
      /\ \A l \in DOMAIN run.mongo : run.mongo[l] <= slower.mongo[l]
  <2>1. \A l \in DOMAIN run.mongo : run.mongo[l] \in Nat
    BY <1>1, TimesAreNaturals
  <2> HIDE DEF slower
  <2> QED BY <1>1, <1>2, <2>1
<1>6. w \in Nat /\ m <= w
  <2>1. m = Percentile(run.mongo, 50) /\ w = Percentile(slower.mongo, 50)
    BY <1>5 DEF Summary
  <2>2. w \in Nat
    BY <1>5, SummaryOrdered
  <2>3. 50 \in 0 .. 100
    OBVIOUS
  <2> HIDE DEF slower
  <2>4. Percentile(run.mongo, 50) <= Percentile(slower.mongo, 50)
    BY <1>1, <1>5, <2>3, PercentileOfSlower
  <2> QED BY <2>1, <2>2, <2>4
<1>7. /\ Observed(run, "ratio_mongo_to_oracle") = IF o > 0 THEN <<m, o>> ELSE Infinite
      /\ Observed(slower, "ratio_mongo_to_oracle") = IF o > 0 THEN <<w, o>> ELSE Infinite
  <2> HIDE DEF slower
  <2> QED BY <1>2 DEF Observed, Metrics
<1>8. AtLeast(Observed(run, "ratio_mongo_to_oracle"), tenths)
  BY DEF Passes, CheckPrediction
<1>9. AtLeast(Observed(slower, "ratio_mongo_to_oracle"), tenths)
  <2> HIDE DEF slower, m, o, w, tenths
  <2>1. CASE o > 0
    <3>1. 10 * m >= tenths * o
      BY <1>7, <1>8, <2>1 DEF AtLeast
    <3>2. tenths * o \in Int
      BY <1>3, <1>4
    <3>3. 10 * w >= tenths * o
      BY ONLY <1>3, <1>6, <3>1, <3>2
    <3> QED BY <1>7, <2>1, <3>3 DEF AtLeast
  <2>2. CASE ~(o > 0)
    BY <1>7, <1>8, <2>2
  <2> QED BY <2>1, <2>2
<1>10. Observed(slower, "ratio_mongo_to_oracle") # Missing
  <2> HIDE DEF slower, m, o, w
  <2>1. \A a, b : Len(<<a, b>>) = 2 /\ Len(<<>>) = 0
    OBVIOUS
  <2>2. \A a, b : <<a, b>> # <<>>
    BY <2>1
  <2> QED BY <1>7, <2>2 DEF Missing, Infinite
<1> HIDE DEF slower
<1>11. CheckPrediction(FirstPrediction(run.variant), Observed(slower, "ratio_mongo_to_oracle"))
  BY <1>9, <1>10 DEF CheckPrediction
<1>12. Passes(slower)
  BY <1>2, <1>11 DEF Passes
<1> QED BY <1>12 DEF slower

-------------------------------------------------------------------------------
(* The last run, and theorems about its samples.                            *)

MeasuredOK == measured # None => measured \in AllRuns

LEMMA RunsOfAreRuns ==
  ASSUME NEW variants \in SUBSET Variants, NEW lengths \in SUBSET Nat, NEW failures \in SUBSET Nat
  PROVE  RunsOf(variants, lengths, failures) \subseteq AllRuns
<1> SUFFICES ASSUME NEW run \in RunsOf(variants, lengths, failures) PROVE run \in AllRuns
  OBVIOUS
<1>1. PICK n \in lengths :
        run \in [variant : variants, mongo : [1..n -> MongoTimes], oracle : [1..n -> OracleTimes],
                 mongoErrors : {f * n : f \in failures}, oracleErrors : {f * n : f \in failures},
                 match : IF n = 0 THEN {TRUE} ELSE BOOLEAN]
  BY DEF RunsOf
<1>2. n \in Nat
  OBVIOUS
<1>3. [1..n -> MongoTimes] \subseteq Seq(Nat) /\ [1..n -> OracleTimes] \subseteq Seq(Nat)
  <2>1. \A times \in SUBSET Nat : [1..n -> times] \subseteq [1..n -> Nat]
    OBVIOUS
  <2>2. [1..n -> Nat] \subseteq Seq(Nat)
    BY <1>2
  <2> QED BY <2>1, <2>2, ReportsAssumption
<1>4. {f * n : f \in failures} \subseteq Nat
  BY <1>2
<1>5. (IF n = 0 THEN {TRUE} ELSE BOOLEAN) \subseteq BOOLEAN
  OBVIOUS
<1> QED BY <1>1, <1>3, <1>4, <1>5 DEF AllRuns

LEMMA RunsAreRuns == Runs \subseteq AllRuns /\ KeptRuns \subseteq AllRuns
<1>1. {0, 1} \in SUBSET Nat /\ 0..MaxIterations \in SUBSET Nat
  BY ReportsAssumption
<1>2. Runs \subseteq AllRuns
  BY <1>1, RunsOfAreRuns DEF Runs
<1> QED BY <1>2, KeptRunsAssumption

LEMMA MeasuredIsRun == Spec => []MeasuredOK
<1>1. Init => MeasuredOK
  BY DEF Init, MeasuredOK
<1>2. MeasuredOK /\ [Next]_vars => MeasuredOK'
  <2> SUFFICES ASSUME MeasuredOK, [Next]_vars PROVE MeasuredOK'
    OBVIOUS
  <2>1. CASE Run
    BY <2>1, RunsAreRuns DEF MeasuredOK, Run
  <2>2. ASSUME NEW i \in DOMAIN records, Save(i) PROVE MeasuredOK'
    BY <2>2 DEF MeasuredOK, Save
  <2>3. CASE Restamp
    BY <2>3 DEF MeasuredOK, Restamp
  <2>4. CASE Publish
    BY <2>4 DEF MeasuredOK, Publish
  <2>5. CASE UNCHANGED vars
    BY <2>5 DEF MeasuredOK, vars
  <2> QED BY <2>1, <2>2, <2>3, <2>4, <2>5 DEF Next
<1> QED BY <1>1, <1>2, PTL DEF Spec

\* The order statistics of every sample, of any length and in any order, stand
\* in their order, between its least and its greatest time (timing.py).
THEOREM PercentilesOrdered == Spec => []PercentilesAreOrdered
<1>1. MeasuredOK => PercentilesAreOrdered
  <2> SUFFICES ASSUME measured \in AllRuns PROVE PercentilesAreOrdered
    BY DEF MeasuredOK, PercentilesAreOrdered
  <2>1. measured.mongo \in Seq(Nat)
    BY DEF AllRuns
  <2>2. /\ Ordered(Summary(measured.mongo))
        /\ measured.mongo # <<>> =>
             {Summary(measured.mongo).min, Summary(measured.mongo).max}
               \subseteq {100 * measured.mongo[i] : i \in DOMAIN measured.mongo}
    BY <2>1, SummaryOrdered
  <2> QED BY <2>2 DEF PercentilesAreOrdered, Ordered
<1> QED BY <1>1, MeasuredIsRun, PTL

\* One measurement of a sample of three or more may become as slow as it likes:
\* the median stays among the others (timing.py).
THEOREM MedianRobust == Spec => []MedianIsRobust
<1>1. MeasuredOK => MedianIsRobust
  <2> SUFFICES ASSUME measured \in AllRuns, Len(measured.mongo) >= 3, NEW i \in DOMAIN measured.mongo
               PROVE  \E j \in DOMAIN measured.mongo \ {i} :
                        Summary([measured.mongo EXCEPT ![i] = 1000000]).p50 <= 100 * measured.mongo[j]
    BY SMT DEF MeasuredOK, MedianIsRobust
  <2>1. measured.mongo \in Seq(Nat) /\ 1000000 \in Nat
    BY SMT DEF AllRuns
  <2> DEFINE values == measured.mongo
             t == 1000000
  <2>2. values \in Seq(Nat) /\ Len(values) >= 3 /\ i \in DOMAIN values /\ t \in Nat
    BY <2>1
  <2> HIDE DEF values, t
  <2>3. \E j \in DOMAIN values \ {i} : Summary([values EXCEPT ![i] = t]).p50 <= 100 * values[j]
    BY <2>2, MedianStays
  <2> QED BY <2>3 DEF values, t
<1> QED BY <1>1, MeasuredIsRun, PTL

\* A run that met "Mongo at least so many times slower" still meets it when one
\* of Mongo's measurements was slower (_build_metrics, _check_prediction).
THEOREM SlowerPassesStill == Spec => []SlowerMongoStillPasses
<1>1. MeasuredOK => SlowerMongoStillPasses
  <2> SUFFICES ASSUME measured \in AllRuns, measured.mongo # <<>>, Passes(measured),
                      FirstPrediction(measured.variant).metric = "ratio_mongo_to_oracle",
                      FirstPrediction(measured.variant).operator = ">=",
                      NEW i \in DOMAIN measured.mongo, NEW t \in MongoTimes, t >= measured.mongo[i]
               PROVE  Passes([measured EXCEPT !.mongo[i] = t])
    BY DEF MeasuredOK, SlowerMongoStillPasses
  <2>1. t \in Nat
    BY ReportsAssumption
  <2> QED BY <2>1, SlowerPasses
<1> QED BY <1>1, MeasuredIsRun, PTL

-------------------------------------------------------------------------------
(* The predictions: each can be met, and each can be failed.                *)

\* A sample of one time, of a fast and a slow one, and of two fast ones and a slow one.
LEMMA OneTime ==
  ASSUME NEW t \in Nat, NEW q \in 0 .. 100
  PROVE  Percentile(<<t>>, q) = 100 * t
<1> DEFINE values == <<t>>
<1>1. values \in Seq(Nat) /\ values # <<>> /\ Len(values) = 1 /\ \A i \in DOMAIN values : values[i] = t
  OBVIOUS
<1> HIDE DEF values
<1>2. Kth(values, 0) = t
  BY <1>1, KthIsKth DEF IsKth
<1>3. /\ 100 * Kth(values, 0) <= Percentile(values, q)
      /\ Percentile(values, q) <= 100 * Kth(values, Len(values) - 1)
  BY <1>1, PercentileInside
<1>4. Percentile(values, q) \in Nat
  BY <1>1, PercentileBetween
<1>5. Len(values) - 1 = 0
  BY <1>1
<1>6. Kth(values, Len(values) - 1) = t
  BY <1>2, <1>5
<1>7. Percentile(values, q) = 100 * t
  BY <1>2, <1>3, <1>4, <1>6
<1> QED BY <1>7 DEF values

LEMMA FastAndSlow == Percentile(<<2, 100>>, 50) = 5100
<1> DEFINE values == <<2, 100>>
<1>1. /\ values \in Seq(Nat) /\ Len(values) = 2 /\ DOMAIN values = {1, 2}
      /\ values[1] = 2 /\ values[2] = 100
  OBVIOUS
<1> HIDE DEF values
<1>2. 0 \in 0 .. Len(values) - 1 /\ 1 \in 0 .. Len(values) - 1
  BY <1>1
<1>3. Cardinality({1}) = 1
  BY FS_Singleton
<1>4. Kth(values, 0) = 2
  <2>1. IsKth(values, 0, Kth(values, 0))
    BY <1>1, <1>2, KthIsKth
  <2>2. Smaller(values, 100) = {1}
    BY <1>1 DEF Smaller
  <2>3. ~IsKth(values, 0, 100)
    BY <1>3, <2>2 DEF IsKth
  <2>4. Kth(values, 0) = 2 \/ Kth(values, 0) = 100
    BY <1>1, <2>1 DEF IsKth
  <2> QED BY <2>1, <2>3, <2>4
<1>5. Kth(values, 1) = 100
  <2>1. IsKth(values, 1, Kth(values, 1))
    BY <1>1, <1>2, KthIsKth
  <2>2. UpTo(values, 2) = {1}
    BY <1>1 DEF UpTo
  <2>3. ~IsKth(values, 1, 2)
    BY <1>3, <2>2 DEF IsKth
  <2>4. Kth(values, 1) = 2 \/ Kth(values, 1) = 100
    BY <1>1, <2>1 DEF IsKth
  <2> QED BY <2>1, <2>3, <2>4
<1>6. Percentile(values, 50) = 100 * Kth(values, 0) + 50 * (Kth(values, 1) - Kth(values, 0))
  BY <1>1 DEF Percentile
<1> QED BY <1>4, <1>5, <1>6 DEF values

LEMMA TwoElements == Cardinality({1, 2}) = 2
<1>1. {1, 2} = {1} \cup {2} /\ 2 \notin {1}
  OBVIOUS
<1>2. IsFiniteSet({1}) /\ Cardinality({1}) = 1
  BY FS_Singleton
<1> QED BY <1>1, <1>2, FS_AddElement

LEMMA FastAndSlowest ==
  Percentile(<<2, 2, 100>>, 50) = 200 /\ Percentile(<<2, 2, 100>>, 99) = 9804
<1> DEFINE values == <<2, 2, 100>>
<1>1. /\ values \in Seq(Nat) /\ Len(values) = 3 /\ DOMAIN values = {1, 2, 3}
      /\ values[1] = 2 /\ values[2] = 2 /\ values[3] = 100
  OBVIOUS
<1> HIDE DEF values
<1>2. 1 \in 0 .. Len(values) - 1 /\ 2 \in 0 .. Len(values) - 1
  BY <1>1
<1>3. Kth(values, 1) = 2
  <2>1. IsKth(values, 1, Kth(values, 1))
    BY <1>1, <1>2, KthIsKth
  <2>2. Smaller(values, 100) = {1, 2}
    BY <1>1 DEF Smaller
  <2>3. ~IsKth(values, 1, 100)
    BY <2>2, TwoElements DEF IsKth
  <2>4. Kth(values, 1) = 2 \/ Kth(values, 1) = 100
    BY <1>1, <2>1 DEF IsKth
  <2> QED BY <2>1, <2>3, <2>4
<1>4. Kth(values, 2) = 100
  <2>1. IsKth(values, 2, Kth(values, 2))
    BY <1>1, <1>2, KthIsKth
  <2>2. UpTo(values, 2) = {1, 2}
    BY <1>1 DEF UpTo
  <2>3. ~IsKth(values, 2, 2)
    BY <2>2, TwoElements DEF IsKth
  <2>4. Kth(values, 2) = 2 \/ Kth(values, 2) = 100
    BY <1>1, <2>1 DEF IsKth
  <2> QED BY <2>1, <2>3, <2>4
<1>5. Percentile(values, 50) = 100 * Kth(values, 1)
  BY <1>1 DEF Percentile
<1>6. Percentile(values, 99) = 100 * Kth(values, 1) + 98 * (Kth(values, 2) - Kth(values, 1))
  BY <1>1 DEF Percentile
<1> QED BY <1>3, <1>4, <1>5, <1>6 DEF values

\* The times may differ fifty times, in a sample of three and between the engines.
Telling ==
  /\ {2, 12, 100} \subseteq MongoTimes /\ {2, 100} \subseteq OracleTimes
  /\ MaxIterations >= 3

\* A run of some samples, in which Mongo raised in every round or in none.
RunWith(variant, ms, os, raised) ==
  [variant |-> variant, mongo |-> ms, oracle |-> os, mongoErrors |-> raised * Len(ms),
   oracleErrors |-> 0 * Len(ms), match |-> TRUE]

\* Some run meets the prediction, whatever variant it is of, and some run does not.
RunsFor(variant) == RunsOf({variant}, 1..MaxIterations, {0, 1})
Meets(prediction, run) == CheckPrediction(prediction, Observed(run, prediction.metric))
Decided(prediction) ==
  \/ prediction.metric \in
       {"mongo_has_spill", "mongo_stale_over_fresh", "oracle_with_histogram_speedup"}
  \/ \A variant : /\ \E run \in RunsFor(variant) : Meets(prediction, run)
                  /\ \E run \in RunsFor(variant) : ~Meets(prediction, run)

LEMMA RunWithIsRun ==
  ASSUME NEW variant, NEW n \in 1..MaxIterations, NEW ms \in [1..n -> MongoTimes],
         NEW os \in [1..n -> OracleTimes], NEW raised \in {0, 1}, Len(ms) = n
  PROVE  RunWith(variant, ms, os, raised) \in RunsFor(variant)
<1> DEFINE E == {f * n : f \in {0, 1}}
           B == IF n = 0 THEN {TRUE} ELSE BOOLEAN
           M == [1..n -> MongoTimes]
           O == [1..n -> OracleTimes]
           run == RunWith(variant, ms, os, raised)
<1>1. n \in Nat /\ n # 0
  BY ReportsAssumption
<1>2. raised * n \in E /\ 0 * n \in E /\ TRUE \in B
  OBVIOUS
<1>3. run = [variant |-> variant, mongo |-> ms, oracle |-> os, mongoErrors |-> raised * n,
             oracleErrors |-> 0 * n, match |-> TRUE]
  BY DEF RunWith
<1>4. run \in [variant : {variant}, mongo : M, oracle : O, mongoErrors : E, oracleErrors : E,
               match : B]
  <2> DEFINE e == raised * n
             z == 0 * n
             yes == TRUE
  <2>1. ms \in M /\ os \in O /\ e \in E /\ z \in E /\ yes \in B
    BY <1>2
  <2>2. run = [variant |-> variant, mongo |-> ms, oracle |-> os, mongoErrors |-> e,
               oracleErrors |-> z, match |-> yes]
    BY <1>3
  <2> HIDE DEF run, E, B, M, O, e, z, yes
  <2> QED BY <2>1, <2>2
<1> DEFINE Long(k) == [variant : {variant}, mongo : [1..k -> MongoTimes],
                       oracle : [1..k -> OracleTimes], mongoErrors : {f * k : f \in {0, 1}},
                       oracleErrors : {f * k : f \in {0, 1}},
                       match : IF k = 0 THEN {TRUE} ELSE BOOLEAN]
<1>5. RunsFor(variant) = UNION {Long(k) : k \in 1..MaxIterations}
  BY DEF RunsFor, RunsOf
<1>6. run \in Long(n)
  BY <1>4
<1> HIDE DEF Long, run
<1>7. run \in RunsFor(variant)
  BY <1>5, <1>6
<1> QED BY <1>7 DEF run

\* What is observed of some run of one round, and of the two other samples.
LEMMA OneRound ==
  ASSUME Telling, NEW variant, NEW m \in {2, 12, 100}, NEW raised \in {0, 1}
  PROVE  \E run \in RunsFor(variant) :
           /\ Observed(run, "ratio_mongo_to_oracle") = <<100 * m, 200>>
           /\ Observed(run, "mongo_p99_over_median") = <<100 * m, 100 * m>>
           /\ Observed(run, "mongo_error_rate") = <<raised, 1>>
<1> DEFINE run == RunWith(variant, <<m>>, <<2>>, raised)
<1>1. /\ <<m>> \in [1..1 -> MongoTimes] /\ <<2>> \in [1..1 -> OracleTimes] /\ 1 \in 1..MaxIterations
      /\ Len(<<m>>) = 1
  BY ReportsAssumption DEF Telling
<1>2. run \in RunsFor(variant)
  <2> DEFINE ms == <<m>>
             os == <<2>>
             n == 1
  <2>1. /\ ms \in [1..n -> MongoTimes] /\ os \in [1..n -> OracleTimes] /\ Len(ms) = n
        /\ n \in 1..MaxIterations
    BY <1>1
  <2> HIDE DEF ms, os, n
  <2>2. RunWith(variant, ms, os, raised) \in RunsFor(variant)
    BY <1>1, <2>1, RunWithIsRun
  <2> QED BY <2>2 DEF ms, os
<1>3. /\ Summary(run.mongo).p50 = 100 * m /\ Summary(run.mongo).p99 = 100 * m
      /\ Summary(run.mongo).n = 1 /\ Summary(run.oracle).p50 = 200
      /\ run.mongoErrors = raised
  <2>1. Percentile(<<m>>, 50) = 100 * m /\ Percentile(<<m>>, 99) = 100 * m /\ Percentile(<<2>>, 50) = 200
    BY OneTime
  <2>2. run.mongo = <<m>> /\ run.oracle = <<2>> /\ run.mongoErrors = raised * 1
    BY DEF RunWith
  <2>3. raised * 1 = raised
    OBVIOUS
  <2>4. /\ Summary(<<m>>).n = 1 /\ Summary(<<m>>).p50 = Percentile(<<m>>, 50)
        /\ Summary(<<m>>).p99 = Percentile(<<m>>, 99) /\ Summary(<<2>>).p50 = Percentile(<<2>>, 50)
    BY DEF Summary
  <2> HIDE DEF run
  <2> QED BY ONLY <2>1, <2>2, <2>3, <2>4
<1> HIDE DEF run
<1>4. /\ Observed(run, "ratio_mongo_to_oracle") = <<100 * m, 200>>
      /\ Observed(run, "mongo_p99_over_median") = <<100 * m, 100 * m>>
      /\ Observed(run, "mongo_error_rate") = <<raised, 1>>
  BY <1>3 DEF Observed, Metrics, Over
<1> QED BY <1>2, <1>4

LEMMA TwoRounds ==
  ASSUME Telling, NEW variant
  PROVE  \E run \in RunsFor(variant) : Observed(run, "ratio_mongo_to_oracle") = <<10000, 5100>>
<1> DEFINE run == RunWith(variant, <<100, 100>>, <<2, 100>>, 0)
<1>1. /\ <<100, 100>> \in [1..2 -> MongoTimes] /\ <<2, 100>> \in [1..2 -> OracleTimes]
      /\ 2 \in 1..MaxIterations /\ Len(<<100, 100>>) = 2
  BY ReportsAssumption DEF Telling
<1>2. run \in RunsFor(variant)
  BY <1>1, RunWithIsRun
<1>3. Percentile(<<100, 100>>, 50) = 10000
  <2> DEFINE values == <<100, 100>>
  <2>1. /\ values \in Seq(Nat) /\ values # <<>> /\ Len(values) = 2
        /\ \A i \in DOMAIN values : values[i] = 100
    OBVIOUS
  <2> HIDE DEF values
  <2>2. 0 \in 0 .. Len(values) - 1 /\ 1 \in 0 .. Len(values) - 1 /\ Len(values) - 1 = 1 /\ 50 \in 0 .. 100
    BY <2>1
  <2>3. Kth(values, 0) = 100 /\ Kth(values, 1) = 100
    <3>1. IsKth(values, 0, Kth(values, 0)) /\ IsKth(values, 1, Kth(values, 1))
      BY <2>1, <2>2, KthIsKth
    <3> QED BY <2>1, <3>1 DEF IsKth
  <2>4. /\ 100 * Kth(values, 0) <= Percentile(values, 50)
        /\ Percentile(values, 50) <= 100 * Kth(values, Len(values) - 1)
    BY ONLY <2>1, <2>2, PercentileInside, Zenon
  <2>5. Percentile(values, 50) \in Nat
    BY <2>1, <2>2, PercentileBetween
  <2>6. Percentile(values, 50) <= 100 * Kth(values, 1)
    BY <2>2, <2>4
  <2>7. Percentile(values, 50) = 10000
    BY <2>3, <2>4, <2>5, <2>6
  <2> QED BY <2>7 DEF values
<1>4. Summary(run.mongo).p50 = 10000 /\ Summary(run.oracle).p50 = 5100
  <2>1. run.mongo = <<100, 100>> /\ run.oracle = <<2, 100>>
    BY DEF RunWith
  <2> QED BY <1>3, <2>1, FastAndSlow DEF Summary
<1> HIDE DEF run
<1>5. Observed(run, "ratio_mongo_to_oracle") = <<10000, 5100>>
  BY <1>4 DEF Observed, Metrics
<1> QED BY <1>2, <1>5

LEMMA ThreeRounds ==
  ASSUME Telling, NEW variant
  PROVE  \E run \in RunsFor(variant) : Observed(run, "mongo_p99_over_median") = <<9804, 200>>
<1> DEFINE run == RunWith(variant, <<2, 2, 100>>, <<2, 2, 2>>, 0)
<1>1. /\ <<2, 2, 100>> \in [1..3 -> MongoTimes] /\ <<2, 2, 2>> \in [1..3 -> OracleTimes]
      /\ 3 \in 1..MaxIterations /\ Len(<<2, 2, 100>>) = 3
  BY ReportsAssumption DEF Telling
<1>2. run \in RunsFor(variant)
  BY <1>1, RunWithIsRun
<1>3. Summary(run.mongo).p50 = 200 /\ Summary(run.mongo).p99 = 9804
  <2>1. run.mongo = <<2, 2, 100>>
    BY DEF RunWith
  <2> QED BY <2>1, FastAndSlowest DEF Summary
<1> HIDE DEF run
<1>4. Observed(run, "mongo_p99_over_median") = <<9804, 200>>
  BY <1>3 DEF Observed, Metrics, Over
<1> QED BY <1>2, <1>4

\* A range of ratios that one of the runs above meets and that ends below fifty.
LEMMA RangeDecided ==
  ASSUME Telling, NEW low \in Int, NEW high \in Int, high < 500,
         \/ low <= 10 /\ 10 <= high
         \/ 51 * low <= 1000 /\ 1000 <= 51 * high
         \/ low <= 60 /\ 60 <= high
  PROVE  Decided(RatioIn(low, high))
<1> DEFINE p == RatioIn(low, high)
<1>1. /\ p.metric = "ratio_mongo_to_oracle" /\ p.operator = "in"
      /\ p.value[1] = low /\ p.value[2] = high
  BY DEF RatioIn, Predict
<1>2. \A a, b : <<a, b>> # Missing
  <2>1. \A a, b : Len(<<a, b>>) = 2 /\ Len(<<>>) = 0
    OBVIOUS
  <2> QED BY <2>1 DEF Missing
<1> HIDE DEF p
<1>3. ASSUME NEW run, NEW a \in Int, NEW b \in Int, Observed(run, "ratio_mongo_to_oracle") = <<a, b>>
      PROVE  Meets(p, run) <=> 10 * a >= low * b /\ 10 * a <= high * b
  BY <1>1, <1>2, <1>3 DEF Meets, CheckPrediction, AtLeast, AtMost
<1> SUFFICES ASSUME NEW variant
             PROVE  /\ \E run \in RunsFor(variant) : Meets(p, run)
                    /\ \E run \in RunsFor(variant) : ~Meets(p, run)
  BY DEF Decided, p
<1>4. \E run \in RunsFor(variant) : ~Meets(p, run)
  <2>1. PICK run \in RunsFor(variant) :
          Observed(run, "ratio_mongo_to_oracle") = <<100 * 100, 200>>
    BY OneRound
  <2>2. ~Meets(p, run)
    BY <1>3, <2>1
  <2> QED BY <2>2
<1>5. CASE low <= 10 /\ 10 <= high
  <2>1. PICK run \in RunsFor(variant) :
          Observed(run, "ratio_mongo_to_oracle") = <<100 * 2, 200>>
    BY OneRound
  <2>2. Meets(p, run)
    BY <1>3, <1>5, <2>1
  <2> QED BY <1>4, <2>2
<1>6. CASE 51 * low <= 1000 /\ 1000 <= 51 * high
  <2>1. PICK run \in RunsFor(variant) :
          Observed(run, "ratio_mongo_to_oracle") = <<10000, 5100>>
    BY TwoRounds
  <2>2. Meets(p, run)
    BY <1>3, <1>6, <2>1
  <2> QED BY <1>4, <2>2
<1>7. CASE low <= 60 /\ 60 <= high
  <2>1. PICK run \in RunsFor(variant) :
          Observed(run, "ratio_mongo_to_oracle") = <<100 * 12, 200>>
    BY OneRound
  <2>2. Meets(p, run)
    BY <1>3, <1>7, <2>1
  <2> QED BY <1>4, <2>2
<1> QED BY <1>5, <1>6, <1>7

\* "At least so many times": of the ratio, of the tail, and of the errors.
LEMMA AtLeastDecided ==
  ASSUME Telling, NEW tenths \in Int
  PROVE  /\ 10 < tenths /\ tenths <= 500 => Decided(RatioAtLeast(tenths))
         /\ 10 < tenths /\ tenths <= 490 =>
              Decided(Predict("mongo_p99_over_median", ">=", tenths, tenths))
         /\ 0 < tenths /\ tenths <= 10 =>
              Decided(Predict("mongo_error_rate", ">=", tenths, tenths))
<1>1. \A a, b : <<a, b>> # Missing
  <2>1. \A a, b : Len(<<a, b>>) = 2 /\ Len(<<>>) = 0
    OBVIOUS
  <2> QED BY <2>1 DEF Missing
<1>2. ASSUME NEW metric, NEW run, NEW a \in Int, NEW b \in Int, Observed(run, metric) = <<a, b>>
      PROVE  Meets(Predict(metric, ">=", tenths, tenths), run) <=> 10 * a >= tenths * b
  <2> DEFINE p == Predict(metric, ">=", tenths, tenths)
  <2>1. p.metric = metric /\ p.operator = ">=" /\ p.value[1] = tenths
    BY DEF Predict
  <2> HIDE DEF p
  <2>2. Meets(p, run) <=> 10 * a >= tenths * b
    BY <1>1, <1>2, <2>1 DEF Meets, CheckPrediction, AtLeast
  <2> QED BY <2>2 DEF p
<1>3. ASSUME NEW metric, NEW a \in Int, NEW b \in Int, NEW c \in Int, NEW d \in Int,
             \A variant : \E run \in RunsFor(variant) : Observed(run, metric) = <<a, b>>,
             \A variant : \E run \in RunsFor(variant) : Observed(run, metric) = <<c, d>>,
             10 * a >= tenths * b, 10 * c < tenths * d
      PROVE  Decided(Predict(metric, ">=", tenths, tenths))
  <2> DEFINE p == Predict(metric, ">=", tenths, tenths)
  <2>1. ASSUME NEW variant, NEW run \in RunsFor(variant), Observed(run, metric) = <<a, b>>
        PROVE  Meets(p, run)
    BY <1>2, <1>3, <2>1
  <2>2. ASSUME NEW variant, NEW run \in RunsFor(variant), Observed(run, metric) = <<c, d>>
        PROVE  ~Meets(p, run)
    <3>1. 10 * c \in Int /\ tenths * d \in Int /\ ~(10 * c >= tenths * d)
      BY <1>3
    <3> QED BY <1>2, <2>2, <3>1
  <2> HIDE DEF p
  <2>3. Decided(p)
    BY <1>3, <2>1, <2>2 DEF Decided
  <2> QED BY <2>3 DEF p
<1>4. \A variant : \E run \in RunsFor(variant) :
        /\ Observed(run, "ratio_mongo_to_oracle") = <<10000, 200>>
        /\ Observed(run, "mongo_error_rate") = <<1, 1>>
  <2> SUFFICES ASSUME NEW variant
               PROVE  \E run \in RunsFor(variant) :
                        /\ Observed(run, "ratio_mongo_to_oracle") = <<10000, 200>>
                        /\ Observed(run, "mongo_error_rate") = <<1, 1>>
    OBVIOUS
  <2>1. PICK run \in RunsFor(variant) :
          /\ Observed(run, "ratio_mongo_to_oracle") = <<100 * 100, 200>>
          /\ Observed(run, "mongo_error_rate") = <<1, 1>>
    BY OneRound
  <2> QED BY <2>1
<1>5. \A variant : \E run \in RunsFor(variant) :
        /\ Observed(run, "ratio_mongo_to_oracle") = <<200, 200>>
        /\ Observed(run, "mongo_p99_over_median") = <<200, 200>>
        /\ Observed(run, "mongo_error_rate") = <<0, 1>>
  <2> SUFFICES ASSUME NEW variant
               PROVE  \E run \in RunsFor(variant) :
                        /\ Observed(run, "ratio_mongo_to_oracle") = <<200, 200>>
                        /\ Observed(run, "mongo_p99_over_median") = <<200, 200>>
                        /\ Observed(run, "mongo_error_rate") = <<0, 1>>
    OBVIOUS
  <2>1. PICK run \in RunsFor(variant) :
          /\ Observed(run, "ratio_mongo_to_oracle") = <<100 * 2, 200>>
          /\ Observed(run, "mongo_p99_over_median") = <<100 * 2, 100 * 2>>
          /\ Observed(run, "mongo_error_rate") = <<0, 1>>
    BY OneRound
  <2> QED BY <2>1
<1>6. ASSUME 10 < tenths, tenths <= 500 PROVE Decided(RatioAtLeast(tenths))
  <2>1. 10 * 10000 >= tenths * 200 /\ 10 * 200 < tenths * 200
    BY <1>6
  <2>2. Decided(Predict("ratio_mongo_to_oracle", ">=", tenths, tenths))
    BY <1>3, <1>4, <1>5, <2>1
  <2> QED BY <2>2 DEF RatioAtLeast
<1>7. ASSUME 10 < tenths, tenths <= 490
      PROVE  Decided(Predict("mongo_p99_over_median", ">=", tenths, tenths))
  <2>1. 10 * 9804 >= tenths * 200 /\ 10 * 200 < tenths * 200
    BY <1>7
  <2> QED BY <1>3, <1>5, <2>1, ThreeRounds
<1>8. ASSUME 0 < tenths, tenths <= 10
      PROVE  Decided(Predict("mongo_error_rate", ">=", tenths, tenths))
  <2>1. 10 * 1 >= tenths * 1 /\ 10 * 0 < tenths * 1
    BY <1>8
  <2> QED BY <1>3, <1>4, <1>5, <2>1
<1> QED BY <1>6, <1>7, <1>8

\* No metric computes it.
LEMMA NotComputed ==
  ASSUME NEW operator, NEW low, NEW high,
         NEW metric \in {"mongo_has_spill", "mongo_stale_over_fresh", "oracle_with_histogram_speedup"}
  PROVE  Decided(Predict(metric, operator, low, high))
BY DEF Decided, Predict

LEMMA ScenariosDecided ==
  ASSUME Telling, NEW variant \in Variants PROVE Decided(FirstPrediction(variant))
<1>1. PICK id \in DOMAIN Scenarios : variant \in {<<id, label>> : label \in DOMAIN Scenarios[id]}
  BY DEF Variants
<1>2. PICK label \in DOMAIN Scenarios[id] : variant = <<id, label>>
  BY <1>1
<1>3. FirstPrediction(variant) = Scenarios[id][label]
  BY <1>2 DEF FirstPrediction
<1>4. id \in {"S01", "S02", "S03", "S04", "S05", "S06", "S07", "S08", "S09", "S10", "S12", "S13", "S14"}
  BY <1>1 DEF Scenarios
<1> DEFINE All(scenario) == \A l \in DOMAIN scenario : Decided(scenario[l])
<1>5. All(S01) /\ All(S02)
  BY RangeDecided DEF S01, S02
<1>6. All(S03)
  BY AtLeastDecided DEF S03
<1>7. All(S04)
  BY NotComputed DEF S04, Spills
<1>8. All(S05)
  BY AtLeastDecided DEF S05
<1>9. All(S06)
  BY RangeDecided, AtLeastDecided DEF S06
<1>10. All(S07)
  <2>1. Decided(RatioIn(3, 20)) /\ Decided(RatioIn(5, 20)) /\ Decided(RatioAtLeast(120))
    BY RangeDecided, AtLeastDecided
  <2> QED BY <2>1 DEF S07
<1>11. All(S08)
  BY RangeDecided, AtLeastDecided DEF S08
<1>12. All(S09)
  <2>1. Decided(RatioIn(30, 150)) /\ Decided(RatioAtLeast(300)) /\ Decided(RatioAtLeast(500))
    BY RangeDecided, AtLeastDecided
  <2> QED BY <2>1 DEF S09
<1>13. All(S10)
  BY RangeDecided, AtLeastDecided DEF S10
<1>14. All(S12)
  BY AtLeastDecided DEF S12
<1>15. All(S13)
  <2>1. /\ Decided(Predict("mongo_stale_over_fresh", ">=", 15, 15)) /\ Decided(RatioIn(7, 14))
        /\ Decided(Predict("oracle_with_histogram_speedup", "in", 8, 15))
        /\ Decided(Predict("oracle_with_histogram_speedup", ">=", 20, 20))
    BY RangeDecided, NotComputed
  <2> QED BY <2>1 DEF S13
<1>16. All(S14)
  BY RangeDecided, AtLeastDecided DEF S14
<1>17. /\ Scenarios["S01"] = S01 /\ Scenarios["S02"] = S02 /\ Scenarios["S03"] = S03 /\ Scenarios["S04"] = S04
       /\ Scenarios["S05"] = S05 /\ Scenarios["S06"] = S06 /\ Scenarios["S07"] = S07 /\ Scenarios["S08"] = S08
       /\ Scenarios["S09"] = S09 /\ Scenarios["S10"] = S10 /\ Scenarios["S12"] = S12 /\ Scenarios["S13"] = S13
       /\ Scenarios["S14"] = S14
  BY DEF Scenarios
<1>18. All(Scenarios[id])
  <2> HIDE DEF All
  <2> QED BY <1>4, <1>5, <1>6, <1>7, <1>8, <1>9, <1>10, <1>11, <1>12, <1>13, <1>14, <1>15, <1>16, <1>17
<1> QED BY <1>3, <1>18

\* No registered prediction is empty: as soon as the engines' times may differ
\* fifty times, there are runs of at most three rounds that meet it and runs that
\* fail it, for any times and any longer runs besides (the scenarios, _build_metrics,
\* _check_prediction).
THEOREM PredictionsFalsifiable ==
  ASSUME Telling PROVE Spec => []PredictionsAreFalsifiable
<1>1. PredictionsAreFalsifiable
  <2> SUFFICES ASSUME NEW variant \in Variants,
                      FirstPrediction(variant).metric \notin
                        {"mongo_has_spill", "mongo_stale_over_fresh", "oracle_with_histogram_speedup"}
               PROVE  /\ \E run \in RunsFor(variant) : Passes(run)
                      /\ \E run \in RunsFor(variant) : ~Passes(run)
    BY DEF PredictionsAreFalsifiable, RunsFor
  <2>1. Decided(FirstPrediction(variant))
    BY ScenariosDecided
  <2>2. \A run \in RunsFor(variant) :
          Meets(FirstPrediction(variant), run) <=> Passes(run)
    <3>1. \A run \in RunsFor(variant) : run.variant = variant
      <4> SUFFICES ASSUME NEW run \in RunsFor(variant) PROVE run.variant = variant
        OBVIOUS
      <4>1. PICK n \in 1..MaxIterations :
              run \in [variant : {variant}, mongo : [1..n -> MongoTimes],
                       oracle : [1..n -> OracleTimes], mongoErrors : {f * n : f \in {0, 1}},
                       oracleErrors : {f * n : f \in {0, 1}},
                       match : IF n = 0 THEN {TRUE} ELSE BOOLEAN]
        BY DEF RunsFor, RunsOf
      <4> QED BY <4>1
    <3> QED BY <3>1 DEF Meets, Passes
  <2>3. PICK run \in RunsFor(variant) : Meets(FirstPrediction(variant), run)
    BY <2>1 DEF Decided
  <2>4. PICK other \in RunsFor(variant) : ~Meets(FirstPrediction(variant), other)
    BY <2>1 DEF Decided
  <2>5. Passes(run) /\ ~Passes(other)
    BY <2>2, <2>3, <2>4
  <2> QED BY <2>5
<1> QED BY <1>1, PTL

-------------------------------------------------------------------------------
(* The reports.                                                             *)

RecordsOK == records \in Seq({Record(run) : run \in AllRuns})
FilesOK == Files \subseteq DOMAIN records /\ \A i \in Files : mtime[i] \in Nat
PublishedOK ==
  published # None =>
    \E rows \in SUBSET Files :
      /\ LatestByFileTime(rows)
      /\ published = [csv |-> [i \in Files |-> CsvRatio(records[i])],
                      report |-> Report(records, LatestByTimestamp),
                      dashboard |-> Dashboard(records, rows)]
IInv == RecordsOK /\ FilesOK /\ PublishedOK

LEMMA FilesInvariance == RecordsOK /\ FilesOK /\ [Next]_vars => RecordsOK' /\ FilesOK'
<1> SUFFICES ASSUME RecordsOK, FilesOK, [Next]_vars PROVE RecordsOK' /\ FilesOK'
  OBVIOUS
<1>1. CASE Run
  <2>1. PICK run \in AllRuns : records' = Append(records, Record(run))
    BY <1>1, RunsAreRuns DEF Run
  <2>2. RecordsOK'
    BY <2>1 DEF RecordsOK
  <2>3. DOMAIN records \subseteq DOMAIN records'
    BY <2>1 DEF RecordsOK
  <2> QED BY <1>1, <2>2, <2>3 DEF Run, FilesOK, Files
<1>2. ASSUME NEW i \in DOMAIN records, Save(i) PROVE RecordsOK' /\ FilesOK'
  <2>1. records' = records /\ DOMAIN mtime' = Files \cup {i}
    BY <1>2 DEF Save
  <2>2. DOMAIN records = 1 .. Len(records) /\ Len(records) \in Nat
    BY DEF RecordsOK
  <2>3. IsFiniteSet(Files)
    <3>1. IsFiniteSet(1 .. Len(records))
      BY <2>2, FS_Interval
    <3> QED BY <2>2, <3>1, Fewer DEF FilesOK
  <2>4. Cardinality(Files) + 1 \in Nat
    BY <2>3, FS_CardinalityType
  <2>5. \A j \in Files \cup {i} : mtime'[j] = IF j = i THEN Cardinality(Files) + 1 ELSE mtime[j]
    BY <1>2 DEF Save
  <2>6. \A j \in Files \cup {i} : mtime'[j] \in Nat
    BY <2>4, <2>5 DEF FilesOK
  <2> QED BY <2>1, <2>6 DEF RecordsOK, FilesOK, Files
<1>3. CASE Restamp
  BY <1>3 DEF Restamp, RecordsOK, FilesOK, Files
<1>4. CASE Publish
  BY <1>4 DEF Publish, RecordsOK, FilesOK, Files
<1>5. CASE UNCHANGED vars
  BY <1>5 DEF vars, RecordsOK, FilesOK, Files
<1> QED BY <1>1, <1>2, <1>3, <1>4, <1>5 DEF Next

LEMMA ReportsInvariance == Spec => []IInv
<1>1. Init => IInv
  <2>1. Init => RecordsOK /\ PublishedOK
    BY DEF Init, RecordsOK, PublishedOK
  <2>2. Init => FilesOK
    BY DEF Init, FilesOK, Files, NoFiles
  <2> QED BY <2>1, <2>2 DEF IInv
<1>2. PublishedOK /\ [Next]_vars => PublishedOK'
  <2> SUFFICES ASSUME PublishedOK, [Next]_vars PROVE PublishedOK'
    OBVIOUS
  <2>1. CASE Run
    BY <2>1 DEF Run, PublishedOK
  <2>2. ASSUME NEW i \in DOMAIN records, Save(i) PROVE PublishedOK'
    BY <2>2 DEF Save, PublishedOK
  <2>3. CASE Restamp
    BY <2>3 DEF Restamp, PublishedOK
  <2>4. CASE Publish
    <3>1. PICK rows \in SUBSET Files :
            /\ LatestByFileTime(rows)
            /\ published' = [csv |-> [i \in Files |-> CsvRatio(records[i])],
                             report |-> Report(records, LatestByTimestamp),
                             dashboard |-> Dashboard(records, rows)]
      BY <2>4 DEF Publish
    <3>2. records' = records /\ mtime' = mtime
      BY <2>4 DEF Publish
    <3>3. Files' = Files
      BY <3>2 DEF Files
    <3>4. LatestByFileTime(rows)' /\ LatestByTimestamp' = LatestByTimestamp
      BY <3>1, <3>2, <3>3 DEF LatestByFileTime, OneOfEach, LatestByTimestamp, SameVariant
    <3> QED BY <3>1, <3>2, <3>3, <3>4 DEF PublishedOK
  <2>5. CASE UNCHANGED vars
    <3>1. records' = records /\ mtime' = mtime /\ published' = published
      BY <2>5 DEF vars
    <3>2. Files' = Files
      BY <3>1 DEF Files
    <3>3. LatestByTimestamp' = LatestByTimestamp
      BY <3>1, <3>2 DEF LatestByTimestamp, SameVariant
    <3>4. ASSUME NEW rows \in SUBSET Files, LatestByFileTime(rows) PROVE LatestByFileTime(rows)'
      BY <3>1, <3>2, <3>4 DEF LatestByFileTime, OneOfEach, SameVariant
    <3> QED BY <3>1, <3>2, <3>3, <3>4 DEF PublishedOK
  <2> QED BY <2>1, <2>2, <2>3, <2>4, <2>5 DEF Next
<1> QED BY <1>1, <1>2, FilesInvariance, PTL DEF Spec, IInv

LEMMA MediansOfRecords ==
  ASSUME RecordsOK
  PROVE  /\ DOMAIN records = 1 .. Len(records) /\ Len(records) \in Nat /\ IsFiniteSet(DOMAIN records)
         /\ \A i \in DOMAIN records : records[i].mongo \in Nat /\ records[i].oracle \in Nat
<1>1. DOMAIN records = 1 .. Len(records) /\ Len(records) \in Nat
  BY DEF RecordsOK
<1>2. IsFiniteSet(1 .. Len(records))
  BY <1>1, FS_Interval
<1>3. ASSUME NEW i \in DOMAIN records PROVE records[i].mongo \in Nat /\ records[i].oracle \in Nat
  <2>1. records[i] \in {Record(run) : run \in AllRuns}
    BY DEF RecordsOK
  <2>2. PICK run \in AllRuns : records[i] = Record(run)
    BY <2>1
  <2>3. run.mongo \in Seq(Nat) /\ run.oracle \in Seq(Nat)
    BY DEF AllRuns
  <2>4. Summary(run.mongo).p50 \in Nat /\ Summary(run.oracle).p50 \in Nat
    BY <2>3, SummaryOrdered
  <2>5. records[i].mongo = Summary(run.mongo).p50 /\ records[i].oracle = Summary(run.oracle).p50
    BY <2>2 DEF Record
  <2> QED BY <2>4, <2>5
<1> QED BY <1>1, <1>2, <1>3

\* The selections by time stamp and by modification time take one file of every variant.
LEMMA TimestampsOneOfEach ==
  ASSUME RecordsOK, FilesOK
  PROVE  OneOfEach(LatestByTimestamp)
<1>1. DOMAIN records = 1 .. Len(records) /\ Len(records) \in Nat /\ IsFiniteSet(DOMAIN records)
  BY MediansOfRecords
<1>2. Files \subseteq Nat /\ IsFiniteSet(Files)
  <2>1. Files \subseteq DOMAIN records
    BY DEF FilesOK
  <2> QED BY <1>1, <2>1, Fewer
<1>3. ASSUME NEW i \in Files PROVE \E k \in LatestByTimestamp : SameVariant(i, k)
  <2> DEFINE same == {j \in Files : SameVariant(i, j)}
             place == [j \in same |-> j]
  <2>1. IsFiniteSet(same) /\ same # {} /\ \A j \in same : place[j] \in Nat
    <3>1. same \subseteq Files
      OBVIOUS
    <3>2. IsFiniteSet(same)
      BY <1>2, <3>1, Fewer
    <3>3. i \in same
      BY DEF SameVariant
    <3> QED BY <1>2, <3>2, <3>3
  <2>2. PICK k \in same : \A j \in same : place[j] <= place[k]
    <3> HIDE DEF same, place
    <3> QED BY <2>1, GreatestMeasure
  <2>3. \A j \in same : j <= k
    BY <2>2
  <2>4. \A j \in Files : SameVariant(k, j) => j \in same
    BY DEF SameVariant
  <2>5. k \in LatestByTimestamp
    BY <2>3, <2>4 DEF LatestByTimestamp
  <2> QED BY <2>5
<1>4. ASSUME NEW i \in LatestByTimestamp, NEW j \in LatestByTimestamp, SameVariant(i, j) PROVE i = j
  <2>1. i \in Files /\ j \in Files
    BY DEF LatestByTimestamp
  <2>2. j <= i /\ i <= j
    BY <1>4, <2>1 DEF LatestByTimestamp, SameVariant
  <2> QED BY <1>2, <2>1, <2>2
<1>5. LatestByTimestamp \subseteq Files
  BY DEF LatestByTimestamp
<1> QED BY <1>3, <1>4, <1>5 DEF OneOfEach

LEMMA OneRowEach ==
  ASSUME NEW rows, OneOfEach(rows), NEW i \in Files
  PROVE  Cardinality({j \in rows : SameVariant(i, j)}) = 1
<1>1. PICK k \in rows : SameVariant(i, k)
  BY DEF OneOfEach
<1>2. ASSUME NEW j \in rows, SameVariant(i, j) PROVE j = k
  <2>1. SameVariant(j, k)
    BY <1>1, <1>2 DEF SameVariant
  <2> QED BY <2>1 DEF OneOfEach
<1>3. {j \in rows : SameVariant(i, j)} = {k}
  BY <1>1, <1>2
<1> QED BY <1>3, FS_Singleton

\* Files as old as their records: both selections take the same ones.
LEMMA SelectionsAgree ==
  ASSUME RecordsOK, FilesOK, FilesFollowStamps, NEW rows, LatestByFileTime(rows)
  PROVE  rows = LatestByTimestamp
<1>1. Files \subseteq Nat /\ \A i \in Files : mtime[i] \in Nat
  <2>1. DOMAIN records \subseteq Nat
    BY MediansOfRecords
  <2> QED BY <2>1 DEF FilesOK
<1>2. rows \subseteq Files /\ \A i \in rows, j \in Files : SameVariant(i, j) => mtime[j] <= mtime[i]
  BY DEF LatestByFileTime, OneOfEach
<1>3. ASSUME NEW i \in rows, NEW j \in Files, SameVariant(i, j) PROVE j <= i
  <2>1. CASE i < j
    <3>1. mtime[i] < mtime[j] /\ mtime[j] <= mtime[i]
      BY <1>2, <1>3, <2>1 DEF FilesFollowStamps
    <3>2. mtime[i] \in Nat /\ mtime[j] \in Nat
      BY <1>1, <1>2
    <3> QED BY ONLY <3>1, <3>2
  <2>2. i \in Nat /\ j \in Nat
    BY <1>1, <1>2
  <2> QED BY <2>1, <2>2
<1>4. rows \subseteq LatestByTimestamp
  BY <1>2, <1>3 DEF LatestByTimestamp
<1>5. ASSUME NEW i \in LatestByTimestamp PROVE i \in rows
  <2>1. i \in Files
    BY DEF LatestByTimestamp
  <2>2. PICK j \in rows : SameVariant(i, j)
    BY <2>1 DEF LatestByFileTime, OneOfEach
  <2>3. SameVariant(j, i) /\ j \in Files
    BY <1>2, <2>2 DEF SameVariant
  <2>4. i <= j /\ j <= i
    BY <1>3, <2>1, <2>2, <2>3 DEF LatestByTimestamp
  <2>5. i = j
    BY <1>1, <2>1, <2>3, <2>4
  <2> QED BY <2>5
<1> QED BY <1>4, <1>5

-------------------------------------------------------------------------------
(* The tables of extremes.                                                  *)

\* The places in a strict total order of a finite set: smaller before, one first, one last.
LEMMA Places ==
  ASSUME NEW F, IsFiniteSet(F), NEW before, \A i \in F : before[i] \subseteq F /\ i \notin before[i],
         \A i, j, k \in F : j \in before[i] /\ k \in before[j] => k \in before[i],
         \A i, j \in F : i # j => i \in before[j] \/ j \in before[i]
  PROVE  /\ \A i \in F : Cardinality(before[i]) \in Nat /\ Cardinality(F) \in Nat
         /\ \A i, j \in F : j \in before[i] => Cardinality(before[j]) < Cardinality(before[i])
         /\ F # {} => /\ \E i \in F : Cardinality(before[i]) = 0
                      /\ \E i \in F : Cardinality(before[i]) = Cardinality(F) - 1
<1> DEFINE place == [i \in F |-> Cardinality(before[i])]
<1>1. ASSUME NEW i \in F PROVE IsFiniteSet(before[i]) /\ place[i] \in Nat /\ place[i] = Cardinality(before[i])
  <2>1. before[i] \subseteq F
    OBVIOUS
  <2> QED BY <2>1, Fewer
<1>2. ASSUME NEW i \in F, NEW j \in F, j \in before[i] PROVE place[j] < place[i]
  <2>1. before[j] \subseteq before[i]
    BY <1>2
  <2>2. before[j] # before[i]
    BY <1>2
  <2>3. IsFiniteSet(before[i])
    BY <1>1
  <2>4. Cardinality(before[j]) < Cardinality(before[i])
    BY <2>1, <2>2, <2>3, Fewer
  <2> QED BY <1>1, <2>4
<1>3. Cardinality(F) \in Nat
  BY FS_CardinalityType
<1> HIDE DEF place
<1>4. ASSUME F # {} PROVE \E i \in F : place[i] = 0
  <2> DEFINE places == {place[i] : i \in F}
  <2>1. places \in SUBSET Nat /\ places # {}
    BY <1>1, <1>4
  <2>2. PICK p \in places : \A q \in places : p <= q
    <3> HIDE DEF places
    <3> QED BY <2>1, LeastOfNaturals
  <2>3. PICK i \in F : p = place[i]
    BY <2>2
  <2>4. ASSUME NEW j \in before[i] PROVE FALSE
    <3>1. j \in F
      OBVIOUS
    <3>2. place[j] < place[i] /\ place[i] <= place[j]
      BY <1>2, <2>2, <2>3, <3>1
    <3> QED BY <1>1, <3>1, <3>2
  <2>5. before[i] = {}
    BY <2>4
  <2> QED BY <1>1, <2>5, FS_EmptySet
<1>5. ASSUME F # {} PROVE \E i \in F : place[i] = Cardinality(F) - 1
  <2>1. PICK i \in F : \A j \in F : place[j] <= place[i]
    BY <1>1, <1>5, GreatestMeasure
  <2>2. ASSUME NEW j \in F, j # i PROVE j \in before[i]
    <3>1. CASE i \in before[j]
      <4>1. place[i] < place[j] /\ place[j] <= place[i]
        BY <1>2, <2>1, <3>1
      <4> QED BY <1>1, <4>1
    <3> QED BY <2>2, <3>1
  <2>3. before[i] = F \ {i}
    BY <2>2
  <2> QED BY <1>1, <2>3, FS_RemoveElement
<1> QED BY <1>1, <1>2, <1>3, <1>4, <1>5

LEMMA TimesGrowStrictly ==
  ASSUME NEW a \in Nat, NEW b \in Nat, NEW c \in Nat \ {0}, a < b
  PROVE  a * c < b * c
OBVIOUS

\* Fractions compared by cross-multiplication are in order.
LEMMA FractionsInOrder ==
  ASSUME NEW a \in Nat, NEW b \in Nat, NEW c \in Nat,
         NEW x \in Nat \ {0}, NEW y \in Nat \ {0}, NEW z \in Nat \ {0},
         b * x <= a * y, c * y <= b * z
  PROVE  /\ c * x <= a * z
         /\ b * x < a * y \/ c * y < b * z => c * x < a * z
<1>1. a * y \in Nat /\ b * x \in Nat /\ b * z \in Nat /\ c * y \in Nat /\ a * z \in Nat /\ c * x \in Nat
  OBVIOUS
<1>2. (b * x) * z <= (a * y) * z /\ (c * y) * x <= (b * z) * x
  <2>1. (b * x) * z <= (a * y) * z
    BY ONLY <1>1, TimesGrow, b * x <= a * y, z \in Nat \ {0}
  <2>2. (c * y) * x <= (b * z) * x
    BY ONLY <1>1, TimesGrow, c * y <= b * z, x \in Nat \ {0}
  <2> QED BY <2>1, <2>2
<1>3. (b * z) * x = (b * x) * z /\ (a * y) * z = (a * z) * y /\ (c * y) * x = (c * x) * y
  OBVIOUS
<1>4. (c * x) * y \in Nat /\ (a * z) * y \in Nat /\ (b * x) * z \in Nat
  BY <1>1
<1>5. (c * x) * y <= (a * z) * y
  BY ONLY <1>2, <1>3, <1>4
<1>6. c * x <= a * z
  <2>1. ASSUME a * z < c * x PROVE FALSE
    <3>1. (a * z) * y < (c * x) * y
      BY ONLY <1>1, <2>1, TimesGrowStrictly, y \in Nat \ {0}
    <3> QED BY ONLY <1>4, <1>5, <3>1
  <2> QED BY ONLY <1>1, <2>1
<1>7. ASSUME b * x < a * y \/ c * y < b * z PROVE c * x < a * z
  <2>1. (c * x) * y < (a * z) * y
    <3>1. CASE b * x < a * y
      <4>1. (b * x) * z < (a * y) * z
        BY ONLY <1>1, <3>1, TimesGrowStrictly, z \in Nat \ {0}
      <4> QED BY ONLY <1>2, <1>3, <1>4, <4>1
    <3>2. CASE c * y < b * z
      <4>1. (c * y) * x < (b * z) * x
        BY ONLY <1>1, <3>2, TimesGrowStrictly, x \in Nat \ {0}
      <4> QED BY ONLY <1>2, <1>3, <1>4, <4>1
    <3> QED BY <1>7, <3>1, <3>2
  <2>2. c * x # a * z
    BY ONLY <1>4, <2>1
  <2> QED BY ONLY <1>1, <1>6, <2>2
<1> QED BY <1>6, <1>7
\* The rows with a finite ratio, and those that come before one of them.
FiniteRows == {i \in LatestByTimestamp : records[i].oracle > 0}
Before(i) ==
  {j \in FiniteRows : \/ Above(Ratio(records[j]), Ratio(records[i]))
                      \/ ~Above(Ratio(records[i]), Ratio(records[j])) /\ j < i}

LEMMA RowsInOrder ==
  ASSUME RecordsOK, FilesOK
  PROVE  /\ IsFiniteSet(FiniteRows)
         /\ \A i \in FiniteRows : Before(i) \subseteq FiniteRows /\ i \notin Before(i)
         /\ \A i, j, k \in FiniteRows : j \in Before(i) /\ k \in Before(j) => k \in Before(i)
         /\ \A i, j \in FiniteRows : i # j => i \in Before(j) \/ j \in Before(i)
<1> DEFINE m(i) == records[i].mongo
           o(i) == records[i].oracle
<1>1. /\ IsFiniteSet(DOMAIN records) /\ DOMAIN records \subseteq Nat
      /\ \A i \in DOMAIN records : m(i) \in Nat /\ o(i) \in Nat
  BY MediansOfRecords
<1>2. FiniteRows \subseteq DOMAIN records /\ \A i \in FiniteRows : o(i) > 0
  BY DEF FiniteRows, LatestByTimestamp, FilesOK
<1>3. ASSUME NEW i \in FiniteRows
      PROVE  /\ i \in Nat /\ m(i) \in Nat /\ o(i) \in Nat \ {0} /\ Ratio(records[i]) = <<m(i), o(i)>>
  <2>1. i \in DOMAIN records /\ o(i) > 0
    BY <1>2
  <2> QED BY <1>1, <2>1 DEF Ratio
<1>4. ASSUME NEW i \in FiniteRows, NEW j \in FiniteRows
      PROVE  /\ Above(Ratio(records[i]), Ratio(records[j])) <=> m(j) * o(i) < m(i) * o(j)
             /\ j \in Before(i) <=> \/ m(i) * o(j) < m(j) * o(i)
                                    \/ m(i) * o(j) <= m(j) * o(i) /\ j < i
             /\ m(i) * o(j) \in Nat /\ m(j) * o(i) \in Nat
  <2>1. Ratio(records[i]) = <<m(i), o(i)>> /\ Ratio(records[j]) = <<m(j), o(j)>>
    BY <1>3
  <2>2. m(i) \in Nat /\ m(j) \in Nat /\ o(i) \in Nat /\ o(j) \in Nat
    BY <1>3
  <2>3. m(i) * o(j) \in Nat /\ m(j) * o(i) \in Nat
    BY <2>2
  <2>4. Above(Ratio(records[i]), Ratio(records[j])) <=> m(i) * o(j) > m(j) * o(i)
    BY <2>1 DEF Above
  <2>5. Above(Ratio(records[j]), Ratio(records[i])) <=> m(j) * o(i) > m(i) * o(j)
    BY <2>1 DEF Above
  <2> HIDE DEF m, o
  <2> QED BY <2>3, <2>4, <2>5 DEF Before
<1>5. IsFiniteSet(FiniteRows)
  BY <1>1, <1>2, Fewer
<1> HIDE DEF m, o
<1>6. ASSUME NEW i \in FiniteRows PROVE Before(i) \subseteq FiniteRows /\ i \notin Before(i)
  BY <1>3, <1>4 DEF Before
<1>7. ASSUME NEW i \in FiniteRows, NEW j \in FiniteRows, NEW k \in FiniteRows, j \in Before(i), k \in Before(j)
      PROVE  k \in Before(i)
  <2>1. i \in Nat /\ j \in Nat /\ k \in Nat
    BY <1>3
  <2>2. /\ m(i) \in Nat /\ m(j) \in Nat /\ m(k) \in Nat
        /\ o(i) \in Nat \ {0} /\ o(j) \in Nat \ {0} /\ o(k) \in Nat \ {0}
    BY <1>3
  <2>3. m(i) * o(j) <= m(j) * o(i) /\ (m(i) * o(j) < m(j) * o(i) \/ j < i)
    BY <1>4, <1>7
  <2>4. m(j) * o(k) <= m(k) * o(j) /\ (m(j) * o(k) < m(k) * o(j) \/ k < j)
    BY <1>4, <1>7
  <2>5. /\ m(i) * o(k) <= m(k) * o(i)
        /\ m(j) * o(k) < m(k) * o(j) \/ m(i) * o(j) < m(j) * o(i) => m(i) * o(k) < m(k) * o(i)
    BY ONLY <2>2, <2>3, <2>4, FractionsInOrder
  <2>6. m(i) * o(k) < m(k) * o(i) \/ k < i
    BY ONLY <2>1, <2>3, <2>4, <2>5
  <2> QED BY <1>4, <2>5, <2>6
<1>8. ASSUME NEW i \in FiniteRows, NEW j \in FiniteRows, i # j PROVE i \in Before(j) \/ j \in Before(i)
  <2>1. i \in Nat /\ j \in Nat
    BY <1>3
  <2>2. m(i) * o(j) \in Nat /\ m(j) * o(i) \in Nat
    BY <1>4
  <2>3. \/ m(i) * o(j) < m(j) * o(i) \/ m(j) * o(i) < m(i) * o(j)
        \/ m(i) * o(j) = m(j) * o(i) /\ (i < j \/ j < i)
    BY ONLY <1>8, <2>1, <2>2
  <2> QED BY <1>4, <2>2, <2>3
<1> QED BY <1>5, <1>6, <1>7, <1>8

\* The first of the finite ratios has nothing before it and is in the table of Oracle's wins.
LEMMA FirstRow ==
  ASSUME RecordsOK, FilesOK, FiniteRows # {}
  PROVE  \E i \in FiniteRows : Before(i) = {}
<1> DEFINE before == [i \in FiniteRows |-> Before(i)]
<1>1. /\ IsFiniteSet(FiniteRows)
      /\ \A i \in FiniteRows : before[i] \subseteq FiniteRows /\ i \notin before[i]
      /\ \A i, j, k \in FiniteRows : j \in before[i] /\ k \in before[j] => k \in before[i]
      /\ \A i, j \in FiniteRows : i # j => i \in before[j] \/ j \in before[i]
  BY RowsInOrder
<1>2. \A i \in FiniteRows : before[i] = Before(i)
  OBVIOUS
<1> HIDE DEF before
<1>3. PICK i \in FiniteRows : Cardinality(before[i]) = 0
  BY <1>1, Places
<1>4. IsFiniteSet(before[i])
  BY <1>1, Fewer
<1> QED BY <1>2, <1>3, <1>4, FS_EmptySet

LEMMA FiniteRowsAre ==
  ASSUME RecordsOK, FilesOK
  PROVE  {i \in LatestByTimestamp : Finite(records[i])} = FiniteRows
<1>1. ASSUME NEW i \in LatestByTimestamp PROVE Finite(records[i]) <=> records[i].oracle > 0
  <2>1. records[i].oracle \in Nat
    BY MediansOfRecords DEF LatestByTimestamp, FilesOK
  <2>2. records[i].oracle > 0 => <<records[i].mongo, records[i].oracle>> # <<1, 0>>
    BY <2>1
  <2> QED BY <2>2 DEF Finite, Ratio, Infinite
<1> QED BY <1>1 DEF FiniteRows

LEMMA FirstRowIsPeak ==
  ASSUME RecordsOK, FilesOK, NEW i \in FiniteRows, Before(i) = {}
  PROVE  /\ i \in Report(records, LatestByTimestamp).top
         /\ i \in Dashboard(records, LatestByTimestamp).peak
<1>1. i \in Report(records, LatestByTimestamp).top
  <2>1. Rank(records, FiniteRows, i) = 0
    <3>1. Rank(records, FiniteRows, i) = Cardinality(Before(i))
      BY DEF Rank, Before
    <3> QED BY <3>1, FS_EmptySet
  <2>2. Report(records, LatestByTimestamp).top = {j \in FiniteRows : Rank(records, FiniteRows, j) < TopSize}
    BY FiniteRowsAre DEF Report
  <2>3. 0 < TopSize
    BY ReportsAssumption
  <2> QED BY <2>1, <2>2, <2>3
<1>2. \A j \in LatestByTimestamp : records[j].mongo \in Nat /\ records[j].oracle \in Nat
  BY MediansOfRecords DEF LatestByTimestamp, FilesOK
<1>3. i \in LatestByTimestamp /\ records[i].oracle > 0
  BY DEF FiniteRows
<1>4. DashboardRatio(records[i]) = Ratio(records[i]) /\ Ratio(records[i]) = <<records[i].mongo, records[i].oracle>>
  BY <1>3 DEF DashboardRatio, Ratio
<1>5. ASSUME NEW j \in LatestByTimestamp
      PROVE  ~Above(DashboardRatio(records[j]), DashboardRatio(records[i]))
  <2>1. CASE records[j].oracle > 0
    <3>1. j \in FiniteRows /\ DashboardRatio(records[j]) = Ratio(records[j])
      BY <2>1 DEF FiniteRows, DashboardRatio, Ratio
    <3> QED BY <1>4, <3>1 DEF Before
  <2>2. CASE ~(records[j].oracle > 0)
    <3>1. DashboardRatio(records[j]) = <<0, 1>>
      BY <2>2 DEF DashboardRatio
    <3>2. records[i].mongo \in Nat /\ records[i].oracle \in Nat
      BY <1>2, <1>3
    <3>3. ~(0 * records[i].oracle > records[i].mongo * 1)
      BY <3>2
    <3> QED BY <1>4, <3>1, <3>3 DEF Above
  <2> QED BY <2>1, <2>2
<1>6. i \in Dashboard(records, LatestByTimestamp).peak
  BY <1>3, <1>5 DEF Dashboard
<1> QED BY <1>1, <1>6

\* REPORT.md takes records by their time stamps, the dashboard files by their
\* modification times: each has one row for every variant with a file, and if the
\* times follow the stamps both have the same rows, count the same matches, have
\* the same largest win and, with the CSV, the same ratios where they are finite.
THEOREM OneStory == Spec => []ReportsAgree
<1>1. IInv => ReportsAgree
  <2> SUFFICES ASSUME IInv, published # None PROVE ReportsAgree
    BY DEF ReportsAgree
  <2>1. RecordsOK /\ FilesOK
    BY DEF IInv
  <2>2. PICK rows \in SUBSET Files :
          /\ LatestByFileTime(rows)
          /\ published = [csv |-> [i \in Files |-> CsvRatio(records[i])],
                          report |-> Report(records, LatestByTimestamp),
                          dashboard |-> Dashboard(records, rows)]
    BY DEF IInv, PublishedOK
  <2>3. /\ published.csv = [i \in Files |-> CsvRatio(records[i])]
        /\ published.report = Report(records, LatestByTimestamp)
        /\ published.dashboard = Dashboard(records, rows)
    BY <2>2
  <2>4. published.report.rows = LatestByTimestamp /\ published.dashboard.rows = rows
    BY <2>3 DEF Report, Dashboard
  <2>5. ASSUME NEW i \in Files
        PROVE  /\ Cardinality({j \in published.report.rows : SameVariant(i, j)}) = 1
               /\ Cardinality({j \in published.dashboard.rows : SameVariant(i, j)}) = 1
    <3>1. OneOfEach(LatestByTimestamp) /\ OneOfEach(rows)
      BY <2>1, <2>2, TimestampsOneOfEach DEF LatestByFileTime
    <3>2. Cardinality({j \in LatestByTimestamp : SameVariant(i, j)}) = 1
      BY <3>1, OneRowEach
    <3>3. Cardinality({j \in rows : SameVariant(i, j)}) = 1
      BY <3>1, OneRowEach
    <3> QED BY <2>4, <3>2, <3>3
  <2>6. ASSUME FilesFollowStamps
        PROVE  /\ published.report.rows = published.dashboard.rows
               /\ published.report.matched = published.dashboard.matches
               /\ published.report.top # {} => published.report.top \cap published.dashboard.peak # {}
               /\ \A i \in published.report.rows :
                    /\ published.csv[i] = published.report.ratio[i]
                    /\ \/ published.dashboard.ratio[i] = published.report.ratio[i]
                       \/ published.dashboard.ratio[i] = <<0, 1>> /\ published.report.ratio[i] = Infinite
    <3>1. rows = LatestByTimestamp
      BY <2>1, <2>2, <2>6, SelectionsAgree
    <3>2. published.report.matched = published.dashboard.matches
      <4>1. published.report.matched = Cardinality({i \in LatestByTimestamp : records[i].match})
        BY <2>3 DEF Report
      <4>2. published.dashboard.matches = Cardinality({i \in LatestByTimestamp : Tag(records[i]) = "MATCH"})
        BY <2>3, <3>1 DEF Dashboard
      <4>3. ASSUME NEW record PROVE record.match <=> Tag(record) = "MATCH"
        BY DEF Tag
      <4>4. {i \in LatestByTimestamp : records[i].match} = {i \in LatestByTimestamp : Tag(records[i]) = "MATCH"}
        BY <4>3
      <4> QED BY <4>1, <4>2, <4>4
    <3>3. ASSUME published.report.top # {}
          PROVE  published.report.top \cap published.dashboard.peak # {}
      <4>1. published.report.top \subseteq FiniteRows
        BY <2>1, <2>3, FiniteRowsAre DEF Report
      <4>2. PICK i \in FiniteRows : Before(i) = {}
        BY <2>1, <3>3, <4>1, FirstRow
      <4> QED BY <2>1, <2>3, <3>1, <4>2, FirstRowIsPeak
    <3>4. ASSUME NEW i \in LatestByTimestamp
          PROVE  /\ published.csv[i] = published.report.ratio[i]
                 /\ \/ published.dashboard.ratio[i] = published.report.ratio[i]
                    \/ published.dashboard.ratio[i] = <<0, 1>> /\ published.report.ratio[i] = Infinite
      <4>1. i \in Files /\ records[i].oracle \in Nat
        BY <2>1, MediansOfRecords DEF LatestByTimestamp, FilesOK
      <4>2. published.csv[i] = CsvRatio(records[i])
        BY <2>3, <4>1
      <4>3. published.report.ratio[i] = Ratio(records[i])
        BY <2>3 DEF Report
      <4>4. published.dashboard.ratio[i] = DashboardRatio(records[i])
        BY <2>3, <3>1 DEF Dashboard
      <4>5. records[i].oracle > 0 <=> records[i].oracle # 0
        BY <4>1
      <4> QED BY <4>2, <4>3, <4>4, <4>5 DEF CsvRatio, Ratio, DashboardRatio
    <3> QED BY <2>4, <3>1, <3>2, <3>3, <3>4
  <2> QED BY <2>5, <2>6 DEF ReportsAgree
<1> QED BY <1>1, ReportsInvariance, PTL

\* No row of the table of Oracle's largest wins has a smaller ratio than a row with
\* a finite one that is not in it, nor the other way round for Mongo's; with enough
\* rows the tables are disjoint, and neither is empty when there is a row.
THEOREM Extremes == Spec => []ExtremesAreExtreme
<1>1. IInv => ExtremesAreExtreme
  <2> SUFFICES ASSUME IInv, published # None PROVE ExtremesAreExtreme
    BY DEF ExtremesAreExtreme
  <2> DEFINE before == [i \in FiniteRows |-> Before(i)]
             report == Report(records, LatestByTimestamp)
             place(i) == Cardinality(before[i])
             n == Cardinality(FiniteRows)
  <2>1. RecordsOK /\ FilesOK /\ published.report = Report(records, LatestByTimestamp)
    BY DEF IInv, PublishedOK
  <2>2. report.rows = LatestByTimestamp /\ \A i \in FiniteRows : report.ratio[i] = Ratio(records[i])
    BY DEF Report, FiniteRows
  <2>3. \A i \in DOMAIN records : records[i].oracle \in Nat
    BY <2>1, MediansOfRecords
  <2>4. {i \in LatestByTimestamp : Finite(records[i])} = FiniteRows
    BY <2>1, FiniteRowsAre
  <2>5. \A i \in FiniteRows : Rank(records, FiniteRows, i) = place(i)
    BY DEF Rank, Before
  <2>6. /\ report.top = {i \in FiniteRows : place(i) < TopSize}
        /\ report.bottom = {i \in FiniteRows : place(i) >= n - TopSize}
    <3>1. report.top = {i \in FiniteRows : Rank(records, FiniteRows, i) < TopSize}
      BY <2>4 DEF Report
    <3>2. report.bottom = {i \in FiniteRows : Rank(records, FiniteRows, i) >= Cardinality(FiniteRows) - TopSize}
      BY <2>4 DEF Report
    <3> HIDE DEF report, place
    <3> QED BY <2>5, <3>1, <3>2
  <2>7. /\ IsFiniteSet(FiniteRows)
        /\ \A i \in FiniteRows : before[i] \subseteq FiniteRows /\ i \notin before[i]
        /\ \A i, j, k \in FiniteRows : j \in before[i] /\ k \in before[j] => k \in before[i]
        /\ \A i, j \in FiniteRows : i # j => i \in before[j] \/ j \in before[i]
    BY <2>1, RowsInOrder
  <2>8. ASSUME NEW i \in FiniteRows, NEW j \in FiniteRows, Above(Ratio(records[j]), Ratio(records[i]))
        PROVE  j \in before[i]
    BY <2>8 DEF Before
  <2> HIDE DEF before
  <2>9. /\ \A i \in FiniteRows : place(i) \in Nat /\ n \in Nat
        /\ \A i, j \in FiniteRows : j \in before[i] => place(j) < place(i)
        /\ FiniteRows # {} => /\ \E i \in FiniteRows : place(i) = 0
                              /\ \E i \in FiniteRows : place(i) = n - 1
    BY <2>7, Places
  <2>10. n \in Nat
    BY <2>7, FS_CardinalityType
  <2>11. TopSize \in Nat /\ TopSize > 0
    BY ReportsAssumption
  <2> HIDE DEF place, n
  <2>12. ASSUME NEW i \in report.top, NEW j \in FiniteRows \ report.top PROVE ~Above(Ratio(records[j]), Ratio(records[i]))
    <3>1. i \in FiniteRows /\ j \in FiniteRows /\ place(i) < TopSize /\ ~(place(j) < TopSize)
      BY <2>6
    <3>2. place(i) \in Nat /\ place(j) \in Nat
      BY <2>9, <3>1
    <3>3. ~(place(j) < place(i))
      BY <2>11, <3>1, <3>2
    <3> QED BY <2>8, <2>9, <3>1, <3>3
  <2>13. ASSUME NEW i \in report.bottom, NEW j \in FiniteRows \ report.bottom PROVE ~Above(Ratio(records[i]), Ratio(records[j]))
    <3>1. i \in FiniteRows /\ j \in FiniteRows /\ place(i) >= n - TopSize /\ ~(place(j) >= n - TopSize)
      BY <2>6
    <3>2. place(i) \in Nat /\ place(j) \in Nat
      BY <2>9, <3>1
    <3>3. ~(place(i) < place(j))
      BY <2>10, <2>11, <3>1, <3>2
    <3> QED BY <2>8, <2>9, <3>1, <3>3
  <2>14. report.top \cap report.bottom # {} => n < 2 * TopSize
    BY <2>6, <2>9, <2>10, <2>11
  <2>15. (report.top = {} \/ report.bottom = {}) => FiniteRows = {}
    BY <2>6, <2>9, <2>10, <2>11
  <2>16. \A i \in report.top \cup report.bottom \cup FiniteRows : report.ratio[i] = Ratio(records[i])
    BY <2>2, <2>6
  <2> HIDE DEF report
  <2>17. {i \in report.rows : records[i].oracle > 0} = FiniteRows
    BY <2>2 DEF FiniteRows
  <2>18. published.report = report
    BY <2>1 DEF report
  <2> QED BY <2>12, <2>13, <2>14, <2>15, <2>16, <2>17, <2>18 DEF ExtremesAreExtreme, n
<1> QED BY <1>1, ReportsInvariance, PTL

-------------------------------------------------------------------------------
(* The verdict: induction.                                                   *)

\* A set that holds zero and the successor of each of its numbers holds them all.
LEMMA NatInd ==
  ASSUME NEW S, 0 \in S, \A n \in Nat : n \in S => n + 1 \in S
  PROVE  Nat \subseteq S
<1> SUFFICES ASSUME Nat \ S # {} PROVE FALSE
  OBVIOUS
<1>1. PICK m \in Nat \ S : \A k \in Nat \ S : m <= k
  BY LeastOfNaturals
<1>2. m # 0 /\ m \in Nat
  OBVIOUS
<1>3. m - 1 \in Nat /\ (m - 1) + 1 = m
  BY <1>2
<1>4. m - 1 \in S
  BY <1>1, <1>3
<1> QED BY <1>3, <1>4

-------------------------------------------------------------------------------
(* What a recursive function on the numbers up to n computes.               *)

\* Induction up to n.
LEMMA UpToInd ==
  ASSUME NEW n \in Nat, NEW S, 0 \in S, \A k \in Nat : k < n /\ k \in S => k + 1 \in S
  PROVE  0..n \subseteq S
<1> DEFINE T == {k \in Nat : k <= n => k \in S}
<1>1. 0 \in T
  OBVIOUS
<1>2. ASSUME NEW k \in Nat, k \in T PROVE k + 1 \in T
  BY <1>2
<1> HIDE DEF T
<1>3. Nat \subseteq T
  BY <1>1, <1>2, NatInd
<1> QED BY <1>3 DEF T

Steps(V) == [Nat \X V -> V]
Continues(F, V, x, step) ==
  F \in [Nat -> V] /\ F[0] = x /\ \A k \in Nat : F[k + 1] = step[<<k, F[k]>>]

\* There is a sequence that starts with x and goes on by step.
LEMMA Recursion ==
  ASSUME NEW V, NEW x \in V, NEW step \in Steps(V)
  PROVE  \E F : Continues(F, V, x, step)
<1>0. step \in [Nat \X V -> V]
  BY DEF Steps
<1> DEFINE Follows(f, n) == /\ f \in [0..n -> V] /\ f[0] = x
                            /\ \A k \in Nat : k < n => f[k + 1] = step[<<k, f[k]>>]
           S == {n \in Nat : \E f : Follows(f, n)}
<1>1. 0 \in S
  <2>1. Follows([k \in 0..0 |-> x], 0)
    OBVIOUS
  <2> QED BY <2>1
<1>2. ASSUME NEW n \in Nat, n \in S PROVE n + 1 \in S
  <2>1. PICK f : Follows(f, n)
    BY <1>2
  <2> DEFINE g == [k \in 0..(n + 1) |-> IF k <= n THEN f[k] ELSE step[<<n, f[n]>>]]
  <2>2. f[n] \in V /\ \A k \in 0..n : f[k] \in V
    BY <2>1
  <2>3. g \in [0..(n + 1) -> V]
    <3>1. step[<<n, f[n]>>] \in V
      BY <1>0, <2>2
    <3>2. \A k \in 0..(n + 1) : (IF k <= n THEN f[k] ELSE step[<<n, f[n]>>]) \in V
      BY <2>2, <3>1
    <3> QED BY <3>2
  <2>4. g[0] = x
    <3>1. g[0] = f[0]
      OBVIOUS
    <3>2. f[0] = x
      BY <2>1
    <3> QED BY <3>1, <3>2
  <2>5. ASSUME NEW k \in Nat, k < n + 1 PROVE g[k + 1] = step[<<k, g[k]>>]
    <3>1. g[k] = f[k] /\ g[k + 1] = IF k + 1 <= n THEN f[k + 1] ELSE step[<<n, f[n]>>]
      BY <2>5
    <3>2. CASE k = n
      BY <3>1, <3>2
    <3>3. CASE k < n
      <4>1. f[k + 1] = step[<<k, f[k]>>]
        BY <2>1, <3>3
      <4>2. g[k] = f[k] /\ g[k + 1] = f[k + 1]
        BY <3>1, <3>3
      <4> QED BY <4>1, <4>2
    <3> QED BY <2>5, <3>2, <3>3
  <2>6. Follows(g, n + 1)
    <3> HIDE DEF g
    <3> QED BY <2>3, <2>4, <2>5
  <2> HIDE DEF Follows, g
  <2> QED BY <2>6
<1> HIDE DEF S
<1>3. Nat \subseteq S
  BY <1>1, <1>2, NatInd
<1> DEFINE upto == [n \in Nat |-> CHOOSE f : Follows(f, n)]
           F == [n \in Nat |-> upto[n][n]]
<1>4. ASSUME NEW n \in Nat PROVE Follows(upto[n], n)
  <2>1. \E h : Follows(h, n)
    BY <1>3 DEF S
  <2> HIDE DEF Follows
  <2> QED BY <2>1
<1> HIDE DEF upto
<1>5. F \in [Nat -> V]
  BY <1>4
<1>6. F[0] = x
  BY <1>4
<1>7. ASSUME NEW k \in Nat PROVE F[k + 1] = step[<<k, F[k]>>]
  <2>1. Follows(upto[k], k) /\ Follows(upto[k + 1], k + 1)
    <3>1. k + 1 \in Nat
      OBVIOUS
    <3> HIDE DEF Follows
    <3> QED BY <1>4, <3>1
  <2>2. \A j \in Nat : j < k /\ upto[k][j] = upto[k + 1][j] => upto[k][j + 1] = upto[k + 1][j + 1]
    <3> SUFFICES ASSUME NEW j \in Nat, j < k, upto[k][j] = upto[k + 1][j]
                 PROVE  upto[k][j + 1] = upto[k + 1][j + 1]
      OBVIOUS
    <3>1. upto[k][j + 1] = step[<<j, upto[k][j]>>]
      BY <2>1
    <3>2. j < k + 1
      OBVIOUS
    <3>3. upto[k + 1][j + 1] = step[<<j, upto[k + 1][j]>>]
      BY <2>1, <3>2
    <3> QED BY <3>1, <3>3
  <2>3. \A j \in 0..k : upto[k][j] = upto[k + 1][j]
    <3> DEFINE T == {j \in 0..k : upto[k][j] = upto[k + 1][j]}
    <3>1. 0 \in T
      BY <2>1
    <3>2. \A j \in Nat : j < k /\ j \in T => j + 1 \in T
      BY <2>2
    <3> HIDE DEF T
    <3>3. 0..k \subseteq T
      BY <3>1, <3>2, UpToInd
    <3> QED BY <3>3 DEF T
  <2>4. upto[k + 1][k + 1] = step[<<k, upto[k + 1][k]>>]
    BY <2>1
  <2>5. F[k] = upto[k][k] /\ F[k + 1] = upto[k + 1][k + 1] /\ k \in 0..k
    OBVIOUS
  <2> HIDE DEF F, Follows
  <2> QED BY <2>3, <2>4, <2>5
<1> HIDE DEF F
<1> QED BY <1>5, <1>6, <1>7 DEF Continues

-------------------------------------------------------------------------------
(* Rounding.                                                                *)

TenTimes == [q \in Nat \X Nat |-> 10 * q[2]]

\* Tens computes the powers of ten.
LEMMA TensGrow ==
  /\ Tens[0] = 1
  /\ \A k \in Nat : Tens[k] \in Nat \ {0} /\ Tens[k + 1] = 10 * Tens[k]
<1>1. TenTimes \in Steps(Nat) /\ 1 \in Nat
  BY DEF TenTimes, Steps
<1>2. PICK F : Continues(F, Nat, 1, TenTimes)
  BY <1>1, Recursion
<1>3. F \in [Nat -> Nat] /\ F[0] = 1 /\ \A k \in Nat : F[k + 1] = 10 * F[k]
  BY <1>2 DEF Continues, TenTimes
<1> DEFINE Goes(h) == h = [k \in Nat |-> IF k = 0 THEN 1 ELSE 10 * h[k - 1]]
<1>4. Goes(F)
  <2>1. ASSUME NEW k \in Nat PROVE F[k] = IF k = 0 THEN 1 ELSE 10 * F[k - 1]
    <3>1. CASE k = 0
      BY <1>3, <3>1
    <3>2. CASE k # 0
      <4>1. k - 1 \in Nat /\ (k - 1) + 1 = k
        BY <3>2
      <4>2. F[(k - 1) + 1] = 10 * F[k - 1]
        BY <1>3, <4>1
      <4> QED BY <3>2, <4>1, <4>2
    <3> QED BY <3>1, <3>2
  <2>2. F = [k \in Nat |-> F[k]]
    BY <1>3
  <2> QED BY <2>1, <2>2
<1> DEFINE h == CHOOSE s : Goes(s)
<1>5. Goes(h)
  <2> HIDE DEF Goes
  <2> QED BY <1>4
<1>6. Tens = h
  BY DEF Tens
<1> HIDE DEF h
<1>7. Tens[0] = 1
  BY <1>5, <1>6
<1>8. ASSUME NEW k \in Nat PROVE Tens[k + 1] = 10 * Tens[k]
  <2>1. k + 1 \in Nat /\ k + 1 # 0 /\ (k + 1) - 1 = k
    OBVIOUS
  <2> QED BY <1>5, <1>6, <2>1
<1> DEFINE S == {k \in Nat : Tens[k] \in Nat \ {0}}
<1>9. 0 \in S
  BY <1>7
<1>10. ASSUME NEW k \in Nat, k \in S PROVE k + 1 \in S
  BY <1>8, <1>10
<1> HIDE DEF S
<1>11. Nat \subseteq S
  BY <1>9, <1>10, NatInd
<1> QED BY <1>7, <1>8, <1>11 DEF S

\* The power of a sum is the product of the powers.
LEMMA TensAdd ==
  ASSUME NEW a \in Nat
  PROVE  \A b \in Nat : Tens[a + b] = Tens[a] * Tens[b]
<1> DEFINE S == {b \in Nat : Tens[a + b] = Tens[a] * Tens[b]}
<1>1. 0 \in S
  BY TensGrow
<1>2. ASSUME NEW b \in Nat, b \in S PROVE b + 1 \in S
  <2>1. a + b \in Nat /\ a + (b + 1) = (a + b) + 1
    OBVIOUS
  <2>2. Tens[(a + b) + 1] = 10 * Tens[a + b] /\ Tens[b + 1] = 10 * Tens[b]
    BY <2>1, TensGrow
  <2>3. Tens[a] \in Nat /\ Tens[b] \in Nat
    BY TensGrow
  <2>4. \A x, y \in Nat : 10 * (x * y) = x * (10 * y)
    OBVIOUS
  <2>5. 10 * (Tens[a] * Tens[b]) = Tens[a] * (10 * Tens[b])
    BY <2>3, <2>4
  <2> QED BY <1>2, <2>1, <2>2, <2>5
<1> HIDE DEF S
<1>3. Nat \subseteq S
  BY <1>1, <1>2, NatInd
<1> QED BY <1>3 DEF S

\* Every positive number has digits: it lies between two powers of ten.
LEMMA DigitsOf ==
  ASSUME NEW n \in Nat \ {0}
  PROVE  /\ Digits(n) \in Nat \ {0}
         /\ Tens[Digits(n) - 1] <= n /\ n < Tens[Digits(n)]
<1> DEFINE S == {k \in Nat : k < Tens[k]}
<1>1. 0 \in S
  BY TensGrow
<1>2. ASSUME NEW k \in Nat, k \in S PROVE k + 1 \in S
  <2>1. Tens[k] \in Nat /\ Tens[k + 1] = 10 * Tens[k] /\ k < Tens[k]
    BY <1>2, TensGrow
  <2> QED BY <2>1
<1> HIDE DEF S
<1>3. Nat \subseteq S
  BY <1>1, <1>2, NatInd
<1> DEFINE above == {d \in Nat : n < Tens[d]}
<1>4. n \in above
  BY <1>3 DEF S
<1>5. PICK d \in above : \A e \in above : d <= e
  BY <1>4, LeastOfNaturals
<1>6. d # 0
  BY TensGrow
<1>7. d - 1 \in Nat /\ d - 1 \notin above /\ d \in 1 .. n
  BY <1>4, <1>5, <1>6
<1>8. Tens[d - 1] <= n /\ n < Tens[d]
  BY <1>7, TensGrow
<1>9. \E c \in 1 .. n : Tens[c - 1] <= n /\ n < Tens[c]
  BY <1>7, <1>8
<1> QED BY <1>9 DEF Digits

\* The precision kept: a number with more digits is at least so many units.
Precision == Tens[SigFigs - 1]

\* The unit of rounding is small: at least Precision units fit into the number.
LEMMA UnitOf ==
  ASSUME NEW n \in Nat \ {0}
  PROVE  /\ Unit(n) \in Nat \ {0} /\ Precision \in Nat \ {0}
         /\ Unit(n) = 1 \/ Unit(n) * Precision <= n
<1>1. SigFigs \in Nat \ {0} /\ SigFigs - 1 \in Nat
  BY EquivalenceAssumption
<1>2. Precision \in Nat \ {0}
  BY <1>1, TensGrow DEF Precision
<1>3. Digits(n) \in Nat \ {0} /\ Tens[Digits(n) - 1] <= n
  BY DigitsOf
<1> DEFINE d == Digits(n)
<1> HIDE DEF d
<1>4. CASE d <= SigFigs
  BY <1>2, <1>4 DEF Unit, d
<1>5. CASE ~(d <= SigFigs)
  <2>1. d - SigFigs \in Nat /\ (d - SigFigs) + (SigFigs - 1) = d - 1
    BY <1>1, <1>3, <1>5 DEF d
  <2>2. Unit(n) = Tens[d - SigFigs]
    BY <1>5 DEF Unit, d
  <2>3. Tens[(d - SigFigs) + (SigFigs - 1)] = Tens[d - SigFigs] * Tens[SigFigs - 1]
    BY <1>1, <2>1, TensAdd
  <2>4. Unit(n) \in Nat \ {0}
    BY <2>1, <2>2, TensGrow
  <2> QED BY <1>2, <1>3, <2>1, <2>2, <2>3, <2>4 DEF Precision, d
<1> QED BY <1>4, <1>5

\* Rounding to even moves a number by half a unit at most.
LEMMA Rounded ==
  ASSUME NEW n \in Nat, NEW u \in Nat \ {0}
  PROVE  /\ RoundHalfEven(n, u) \in Nat
         /\ 2 * Abs(RoundHalfEven(n, u) - n) <= u
         /\ u = 1 => RoundHalfEven(n, u) = n
<1> DEFINE q == n \div u
           r == n % u
<1>1. q \in Nat /\ r \in Nat /\ r < u
  OBVIOUS
<1>2. n = u * q + r
  OBVIOUS
<1>3. q * u \in Nat /\ q * u = u * q /\ (q + 1) * u = u * q + u
  BY <1>1
<1> DEFINE y == q * u
<1>4. RoundHalfEven(n, u) = y \/ RoundHalfEven(n, u) = y + u
  BY <1>3 DEF RoundHalfEven
<1>5. RoundHalfEven(n, u) = y => 2 * r <= u
  <2>1. CASE 2 * r < u \/ (2 * r = u /\ q % 2 = 0)
    BY <1>1, <2>1
  <2>2. CASE ~(2 * r < u \/ (2 * r = u /\ q % 2 = 0))
    BY <1>1, <1>3, <2>2 DEF RoundHalfEven
  <2> QED BY <2>1, <2>2
<1>6. RoundHalfEven(n, u) = y + u => 2 * r >= u
  <2>1. CASE 2 * r < u \/ (2 * r = u /\ q % 2 = 0)
    BY <1>1, <1>3, <2>1 DEF RoundHalfEven
  <2>2. CASE ~(2 * r < u \/ (2 * r = u /\ q % 2 = 0))
    BY <1>1, <2>2
  <2> QED BY <2>1, <2>2
<1>7. y \in Nat /\ n = y + r
  BY <1>2, <1>3
<1> HIDE DEF q, r, y
<1>8. CASE RoundHalfEven(n, u) = y
  BY <1>1, <1>5, <1>7, <1>8 DEF Abs
<1>9. CASE RoundHalfEven(n, u) = y + u
  BY <1>1, <1>6, <1>7, <1>9 DEF Abs
<1> QED BY <1>4, <1>8, <1>9

\* A number and its canonical form are no further apart than half a unit.
LEMMA NormalizedIsNear ==
  ASSUME NEW x \in Int
  PROVE  NormalizeFloat(x) \in Int /\ 2 * (Abs(NormalizeFloat(x) - x) * Precision) <= Abs(x)
<1>1. Abs(x) \in Nat /\ (x # 0 => Abs(x) \in Nat \ {0})
  BY DEF Abs
<1>2. \A k \in Nat : 0 * k = 0
  OBVIOUS
<1>3. Precision \in Nat \ {0}
  <2>1. 1 \in Nat \ {0}
    OBVIOUS
  <2> QED BY <2>1, UnitOf
<1>4. ASSUME NormalizeFloat(x) = x PROVE NormalizeFloat(x) \in Int /\ 2 * (Abs(NormalizeFloat(x) - x) * Precision) <= Abs(x)
  <2>1. Abs(NormalizeFloat(x) - x) = 0
    BY <1>4 DEF Abs
  <2>2. Abs(NormalizeFloat(x) - x) * Precision = 0
    BY <1>2, <1>3, <2>1
  <2> QED BY <1>1, <1>4, <2>2
<1>5. CASE x = 0
  BY <1>4, <1>5 DEF NormalizeFloat
<1>6. CASE x # 0
  <2> DEFINE n == Abs(x)
             u == Unit(n)
             y == RoundHalfEven(n, u)
  <2>1. u \in Nat \ {0} /\ (u = 1 \/ u * Precision <= n)
    BY <1>1, <1>6, UnitOf
  <2>2. y \in Nat /\ 2 * Abs(y - n) <= u /\ (u = 1 => y = n)
    <3> HIDE DEF u, n
    <3> QED BY <1>1, <2>1, Rounded DEF n
  <2>3. NormalizeFloat(x) = IF y > MaxNumber THEN x ELSE IF x < 0 THEN -y ELSE y
    BY <1>6 DEF NormalizeFloat
  <2> HIDE DEF u, y
  <2>4. CASE y > MaxNumber
    BY <1>4, <2>3, <2>4
  <2>5. CASE ~(y > MaxNumber)
    <3>1. NormalizeFloat(x) \in Int /\ Abs(NormalizeFloat(x) - x) = Abs(y - n)
      BY <2>2, <2>3, <2>5 DEF Abs
    <3>2. CASE u = 1
      <4>1. NormalizeFloat(x) = x
        BY <2>2, <2>3, <2>5, <3>2 DEF Abs
      <4> QED BY <1>4, <4>1
    <3>3. CASE u # 1
      <4> DEFINE a == Abs(y - n)
      <4>1. a \in Nat
        BY <1>1, <2>2 DEF Abs
      <4>2. \A i, j, k \in Nat : 2 * i <= j => 2 * (i * k) <= j * k
        OBVIOUS
      <4> HIDE DEF a, n
      <4>3. 2 * (a * Precision) <= u * Precision
        BY <1>3, <2>1, <2>2, <4>1, <4>2 DEF a
      <4>4. u * Precision <= n /\ u * Precision \in Nat /\ a * Precision \in Nat
        BY <1>3, <2>1, <3>3, <4>1
      <4>5. 2 * (a * Precision) <= n
        BY <1>1, <4>3, <4>4 DEF n
      <4> QED BY <3>1, <4>5 DEF a, n
    <3> QED BY <3>2, <3>3
  <2> QED BY <2>4, <2>5
<1> QED BY <1>5, <1>6

\* Numbers with the same canonical form are within the tolerance.
LEMMA SameNormalIsClose ==
  ASSUME NEW x \in Int, NEW y \in Int, NormalizeFloat(x) = NormalizeFloat(y)
  PROVE  Abs(x - y) * Precision <= Greater(Abs(x), Abs(y))
<1> DEFINE z == NormalizeFloat(x)
           a == Abs(z - x)
           b == Abs(z - y)
<1>1. z \in Int /\ 2 * (a * Precision) <= Abs(x) /\ 2 * (b * Precision) <= Abs(y)
  BY NormalizedIsNear
<1>2. Precision \in Nat
  <2>1. 1 \in Nat \ {0}
    OBVIOUS
  <2> QED BY <2>1, UnitOf
<1>3. a \in Nat /\ b \in Nat /\ Abs(x) \in Nat /\ Abs(y) \in Nat /\ Abs(x - y) \in Nat /\ Abs(x - y) <= a + b
  BY <1>1 DEF Abs
<1> HIDE DEF z, a, b
<1>4. \A i, j, k, l \in Nat : i <= j + k => i * l <= j * l + k * l
  OBVIOUS
<1>5. Abs(x - y) * Precision <= a * Precision + b * Precision
  BY <1>2, <1>3, <1>4
<1>6. a * Precision \in Nat /\ b * Precision \in Nat /\ Abs(x - y) * Precision \in Nat
  BY <1>2, <1>3
<1>7. 2 * (Abs(x - y) * Precision) <= Abs(x) + Abs(y)
  BY <1>1, <1>3, <1>5, <1>6
<1>8. Abs(x - y) * Precision <= Abs(x) \/ Abs(x - y) * Precision <= Abs(y)
  BY <1>3, <1>6, <1>7
<1> QED BY <1>3, <1>6, <1>8 DEF Greater

-------------------------------------------------------------------------------
(* The order of the JSON texts.                                             *)

\* The first place at which two texts differ.
FirstDifference(s, t, i) ==
  i \in DOMAIN s /\ i \in DOMAIN t /\ s[i] # t[i] /\ \A j \in 1 .. (i - 1) : s[j] = t[j]
Less(s, t) == \E i \in Nat \ {0} : FirstDifference(s, t, i) /\ s[i] < t[i]
Texts == Seq(Int)

\* Texts that differ somewhere both have, differ somewhere first.
LEMMA DifferFirst ==
  ASSUME NEW s \in Texts, NEW t \in Texts, NEW k, k \in DOMAIN s, k \in DOMAIN t, s[k] # t[k]
  PROVE  \E i \in Nat \ {0} : FirstDifference(s, t, i)
<1>1. DOMAIN s = 1 .. Len(s) /\ DOMAIN t = 1 .. Len(t) /\ Len(s) \in Nat /\ Len(t) \in Nat
  BY DEF Texts
<1> DEFINE D == {j \in Nat : j \in DOMAIN s /\ j \in DOMAIN t /\ s[j] # t[j]}
<1>2. k \in D
  BY <1>1
<1>3. PICK i \in D : \A j \in D : i <= j
  BY <1>2, LeastOfNaturals
<1>4. i \in Nat \ {0}
  BY <1>1
<1>5. \A j \in 1 .. (i - 1) : s[j] = t[j]
  <2> SUFFICES ASSUME NEW j \in 1 .. (i - 1) PROVE s[j] = t[j]
    OBVIOUS
  <2>1. j \in DOMAIN s /\ j \in DOMAIN t /\ j \in Nat /\ ~(i <= j)
    BY <1>1, <1>3, <1>4
  <2> QED BY <1>3, <2>1
<1> QED BY <1>4, <1>5 DEF FirstDifference

\* They do so at one place only.
LEMMA OneFirstDifference ==
  ASSUME NEW s \in Texts, NEW t \in Texts, NEW i \in Nat \ {0}, NEW j \in Nat \ {0},
         FirstDifference(s, t, i), FirstDifference(s, t, j)
  PROVE  i = j
<1>1. ~(i < j)
  <2> SUFFICES ASSUME i < j PROVE FALSE
    OBVIOUS
  <2>1. i \in 1 .. (j - 1)
    OBVIOUS
  <2> QED BY <2>1 DEF FirstDifference
<1>2. ~(j < i)
  <2> SUFFICES ASSUME j < i PROVE FALSE
    OBVIOUS
  <2>1. j \in 1 .. (i - 1)
    OBVIOUS
  <2> QED BY <2>1 DEF FirstDifference
<1> QED BY <1>1, <1>2

\* The order of texts is strict.
LEMMA LessIsOrder ==
  /\ \A s, t \in Texts : Less(s, t) => ~Less(t, s)
  /\ \A s, t, u \in Texts : Less(s, t) /\ Less(t, u) => Less(s, u)
<1>1. ASSUME NEW s \in Texts, NEW t \in Texts, Less(s, t), Less(t, s) PROVE FALSE
  <2>1. PICK i \in Nat \ {0} : FirstDifference(s, t, i) /\ s[i] < t[i]
    BY <1>1 DEF Less
  <2>2. PICK j \in Nat \ {0} : FirstDifference(t, s, j) /\ t[j] < s[j]
    BY <1>1 DEF Less
  <2>3. FirstDifference(s, t, j)
    BY <2>2 DEF FirstDifference
  <2>4. i = j
    BY <2>1, <2>3, OneFirstDifference
  <2>5. s[i] \in Int /\ t[i] \in Int
    BY <2>1 DEF FirstDifference, Texts
  <2> QED BY <2>1, <2>2, <2>4, <2>5
<1>2. ASSUME NEW s \in Texts, NEW t \in Texts, NEW u \in Texts, Less(s, t), Less(t, u) PROVE Less(s, u)
  <2>1. PICK i \in Nat \ {0} : FirstDifference(s, t, i) /\ s[i] < t[i]
    BY <1>2 DEF Less
  <2>2. PICK j \in Nat \ {0} : FirstDifference(t, u, j) /\ t[j] < u[j]
    BY <1>2 DEF Less
  <2>3. DOMAIN s = 1 .. Len(s) /\ DOMAIN t = 1 .. Len(t) /\ DOMAIN u = 1 .. Len(u)
        /\ Len(s) \in Nat /\ Len(t) \in Nat /\ Len(u) \in Nat
    BY DEF Texts
  <2>4. i \in DOMAIN s /\ i \in DOMAIN t /\ j \in DOMAIN t /\ j \in DOMAIN u
    BY <2>1, <2>2 DEF FirstDifference
  <2>5. /\ \A k \in 1 .. (i - 1) : s[k] = t[k]
        /\ \A k \in 1 .. (j - 1) : t[k] = u[k]
    BY <2>1, <2>2 DEF FirstDifference
  <2>6. s[i] \in Int /\ t[i] \in Int /\ t[j] \in Int /\ u[j] \in Int
    BY <2>4 DEF Texts
  <2>7. CASE i < j
    <3>1. i \in 1 .. (j - 1) /\ i \in DOMAIN u
      BY <2>3, <2>4, <2>7
    <3>2. \A k \in 1 .. (i - 1) : k \in 1 .. (j - 1)
      BY <2>7
    <3>3. s[i] < u[i] /\ s[i] # u[i]
      BY <2>1, <2>5, <2>6, <3>1
    <3>4. FirstDifference(s, u, i)
      BY <2>4, <2>5, <3>1, <3>2, <3>3 DEF FirstDifference
    <3> QED BY <3>3, <3>4 DEF Less
  <2>8. CASE j < i
    <3>1. j \in 1 .. (i - 1) /\ j \in DOMAIN s
      BY <2>3, <2>4, <2>8
    <3>2. \A k \in 1 .. (j - 1) : k \in 1 .. (i - 1)
      BY <2>8
    <3>3. s[j] < u[j] /\ s[j] # u[j]
      BY <2>2, <2>5, <2>6, <3>1
    <3>4. FirstDifference(s, u, j)
      BY <2>4, <2>5, <3>1, <3>2, <3>3 DEF FirstDifference
    <3> QED BY <3>3, <3>4 DEF Less
  <2>9. CASE i = j
    <3>1. s[i] < u[i] /\ s[i] # u[i]
      BY <2>1, <2>2, <2>6, <2>9
    <3>2. FirstDifference(s, u, i)
      BY <2>4, <2>5, <2>9, <3>1 DEF FirstDifference
    <3> QED BY <3>1, <3>2 DEF Less
  <2> QED BY <2>7, <2>8, <2>9
<1> QED BY <1>1, <1>2

\* Canonical scalars and values whose texts have an order.
CanonicalScalar == {v \in DOMAIN TextOf : v[1] \in {"none", "bool", "num", "text"}}
CanonicalList == {"list"} \X Seq(CanonicalScalar)
CanonicalValue == CanonicalScalar \cup CanonicalList

\* What the texts of values look like.
LEMMA TextsOf ==
  ASSUME NEW v \in CanonicalValue \cup {Absent}
  PROVE  /\ TextOfValue(v) \in Texts
         /\ v \notin CanonicalList =>
              TextOfValue(v) = <<TextOf[IF v = Absent THEN End ELSE v]>> /\ (v = Absent \/ v \in CanonicalScalar)
         /\ v \in CanonicalList =>
              LET t == TextOfValue(v)
                  n == Len(v[2])
              IN  /\ v[2] \in Seq(CanonicalScalar) /\ Len(t) = n + 2 /\ t[1] = TextOf[Open] /\ t[n + 2] = TextOf[End]
                  /\ \A i \in 1 .. n : t[i + 1] = TextOf[v[2][i]]
<1>1. /\ TextOf \in [DOMAIN TextOf -> Int] /\ Open \in DOMAIN TextOf /\ End \in DOMAIN TextOf
  BY EquivalenceAssumption
<1>2. CASE v = Absent
  <2>1. v \notin CanonicalList /\ v[1] # "list"
    <3>1. v[1] = "absent" /\ "absent" # "list"
      BY <1>2 DEF Absent
    <3>2. \A w \in CanonicalList : w[1] = "list"
      BY DEF CanonicalList
    <3> QED BY <3>1, <3>2
  <2>2. TextOfValue(v) = <<TextOf[End]>>
    BY <1>2, <2>1 DEF TextOfValue
  <2>3. TextOf[End] \in Int
    BY <1>1
  <2> QED BY <1>2, <2>1, <2>2, <2>3 DEF Texts
<1>3. CASE v \in CanonicalScalar
  <2>1. v \in DOMAIN TextOf /\ v[1] # "list" /\ v # Absent
    BY <1>3 DEF CanonicalScalar, Absent
  <2>2. v \notin CanonicalList
    BY <2>1 DEF CanonicalList
  <2>3. TextOfValue(v) = <<TextOf[v]>>
    BY <2>1 DEF TextOfValue
  <2>4. TextOf[v] \in Int
    BY <1>1, <2>1
  <2> QED BY <1>3, <2>1, <2>2, <2>3, <2>4 DEF Texts
<1>4. CASE v \in CanonicalList
  <2> DEFINE c == v[2]
             n == Len(c)
             m == [i \in DOMAIN c |-> TextOf[c[i]]]
  <2>1. v[1] = "list" /\ v # Absent /\ c \in Seq(CanonicalScalar)
    BY <1>4 DEF CanonicalList, Absent
  <2>2. DOMAIN c = 1 .. n /\ n \in Nat /\ \A i \in 1 .. n : c[i] \in CanonicalScalar
    BY <2>1
  <2>3. TextOfValue(v) = <<TextOf[Open]>> \o m \o <<TextOf[End]>>
    BY <2>1 DEF TextOfValue
  <2>4. m \in Seq(Int) /\ Len(m) = n /\ \A i \in 1 .. n : m[i] = TextOf[c[i]]
    <3>1. \A i \in 1 .. n : TextOf[c[i]] \in Int
      BY <1>1, <2>2 DEF CanonicalScalar
    <3>2. m = [i \in 1 .. n |-> TextOf[c[i]]]
      BY <2>2
    <3> HIDE DEF m, c, n
    <3>3. m \in [1 .. n -> Int]
      BY <3>1, <3>2
    <3>4. m \in Seq(Int) /\ Len(m) = n
      BY <2>2, <3>3
    <3> QED BY <3>2, <3>4
  <2> DEFINE o == TextOf[Open]
             e == TextOf[End]
             t == <<o>> \o m \o <<e>>
  <2>5. o \in Int /\ e \in Int
    BY <1>1
  <2> HIDE DEF m, o, e, c, n
  <2>6. t \in Seq(Int) /\ Len(t) = n + 2 /\ t[1] = o /\ t[n + 2] = e /\ \A i \in 1 .. n : t[i + 1] = m[i]
    <3>1. <<o>> \o m \in Seq(Int) /\ Len(<<o>> \o m) = n + 1
      BY <2>2, <2>4, <2>5
    <3>2. (<<o>> \o m)[1] = o /\ \A i \in 1 .. n : (<<o>> \o m)[i + 1] = m[i]
      BY <2>2, <2>4, <2>5
    <3>3. t \in Seq(Int) /\ Len(t) = n + 2
      BY <2>2, <2>5, <3>1
    <3>4. t[n + 2] = e
      BY <2>2, <2>5, <3>1
    <3>5. \A i \in 1 .. (n + 1) : t[i] = (<<o>> \o m)[i]
      BY <2>2, <2>5, <3>1
    <3> QED BY <2>2, <3>2, <3>3, <3>4, <3>5
  <2>7. TextOfValue(v) = t
    BY <2>3 DEF o, e
  <2> HIDE DEF t
  <2> QED BY <1>4, <2>1, <2>2, <2>4, <2>6, <2>7 DEF Texts, o, e, c, n
<1> QED BY <1>2, <1>3, <1>4 DEF CanonicalValue

\* Different scalars and brackets have different tokens.
LEMMA TokensDiffer ==
  /\ \A x, y \in CanonicalScalar : TextOf[x] = TextOf[y] => x = y
  /\ \A x \in CanonicalScalar : TextOf[x] # TextOf[Open] /\ TextOf[x] # TextOf[End]
  /\ TextOf[Open] # TextOf[End]
<1>1. \A x, y \in DOMAIN TextOf : TextOf[x] = TextOf[y] => x = y
  BY EquivalenceAssumption DEF IsInjective
<1>2. Open \in DOMAIN TextOf /\ End \in DOMAIN TextOf
  BY EquivalenceAssumption
<1>3. Open # End
  BY DEF Open, End
<1>4. \A x \in CanonicalScalar : x \in DOMAIN TextOf /\ x # Open /\ x # End
  BY DEF CanonicalScalar, Open, End
<1> QED BY <1>1, <1>2, <1>3, <1>4

\* The texts of different values differ at a place both have: no text is the
\* beginning of another.
LEMMA TextsDiffer ==
  ASSUME NEW x \in CanonicalValue \cup {Absent}, NEW y \in CanonicalValue \cup {Absent}, x # y
  PROVE  \E i \in Nat \ {0} : FirstDifference(TextOfValue(x), TextOfValue(y), i)
<1> DEFINE s == TextOfValue(x)
           t == TextOfValue(y)
<1>1. s \in Texts /\ t \in Texts
  BY TextsOf
<1>2. DOMAIN s = 1 .. Len(s) /\ DOMAIN t = 1 .. Len(t)
  BY <1>1 DEF Texts
<1> HIDE DEF s, t
<1>3. ASSUME x \notin CanonicalList, y \notin CanonicalList
      PROVE  1 \in DOMAIN s /\ 1 \in DOMAIN t /\ s[1] # t[1]
  <2> DEFINE a == IF x = Absent THEN End ELSE x
             b == IF y = Absent THEN End ELSE y
  <2>1. s = <<TextOf[a]>> /\ t = <<TextOf[b]>> /\ (x = Absent \/ x \in CanonicalScalar) /\ (y = Absent \/ y \in CanonicalScalar)
    BY <1>3, TextsOf DEF s, t
  <2>2. TextOf[a] # TextOf[b]
    <3>1. CASE x = Absent
      BY <2>1, <3>1, TokensDiffer
    <3>2. CASE y = Absent
      BY <2>1, <3>2, TokensDiffer
    <3>3. CASE x # Absent /\ y # Absent
      BY <2>1, <3>3, TokensDiffer
    <3> QED BY <3>1, <3>2, <3>3
  <2> HIDE DEF a, b
  <2> QED BY <2>1, <2>2
<1>4. ASSUME NEW v \in CanonicalValue \cup {Absent}, NEW w \in CanonicalValue \cup {Absent},
             v \in CanonicalList, w \notin CanonicalList
      PROVE  /\ 1 \in DOMAIN TextOfValue(v) /\ 1 \in DOMAIN TextOfValue(w)
             /\ TextOfValue(v)[1] # TextOfValue(w)[1]
  <2> DEFINE p == TextOfValue(v)
             q == TextOfValue(w)
             n == Len(v[2])
             b == IF w = Absent THEN End ELSE w
  <2>1. p \in Texts /\ q \in Texts /\ v[2] \in Seq(CanonicalScalar) /\ Len(p) = n + 2 /\ p[1] = TextOf[Open]
    BY <1>4, TextsOf
  <2>2. n \in Nat /\ 1 \in DOMAIN p
    <3> HIDE DEF p
    <3> QED BY <2>1 DEF Texts
  <2>3. q = <<TextOf[b]>> /\ (w = Absent \/ w \in CanonicalScalar)
    BY <1>4, TextsOf
  <2>4. TextOf[Open] # TextOf[b]
    BY <2>3, TokensDiffer
  <2> HIDE DEF p, q, b
  <2>5. 1 \in DOMAIN q /\ q[1] = TextOf[b]
    BY <2>3
  <2> QED BY <2>1, <2>2, <2>4, <2>5 DEF p, q
<1>5. ASSUME x \in CanonicalList, y \in CanonicalList
      PROVE  \E k : k \in DOMAIN s /\ k \in DOMAIN t /\ s[k] # t[k]
  <2> DEFINE a == x[2]
             b == y[2]
             m == Len(a)
             n == Len(b)
  <2>1. /\ a \in Seq(CanonicalScalar) /\ Len(s) = m + 2 /\ s[m + 2] = TextOf[End]
        /\ \A i \in 1 .. m : s[i + 1] = TextOf[a[i]]
    BY <1>5, TextsOf DEF s
  <2>2. /\ b \in Seq(CanonicalScalar) /\ Len(t) = n + 2 /\ t[n + 2] = TextOf[End]
        /\ \A i \in 1 .. n : t[i + 1] = TextOf[b[i]]
    BY <1>5, TextsOf DEF t
  <2>3. a # b
    BY <1>5 DEF CanonicalList
  <2> HIDE DEF a, b
  <2>4. /\ m \in Nat /\ n \in Nat /\ \A i \in 1 .. m : a[i] \in CanonicalScalar
        /\ \A i \in 1 .. n : b[i] \in CanonicalScalar
        /\ a = [i \in 1 .. m |-> a[i]] /\ b = [i \in 1 .. n |-> b[i]]
    BY <2>1, <2>2
  <2> HIDE DEF m, n
  <2>5. CASE m < n
    <3>1. m + 2 \in DOMAIN s /\ m + 2 \in DOMAIN t /\ m + 1 \in 1 .. n /\ (m + 1) + 1 = m + 2
      BY <1>2, <2>1, <2>2, <2>4, <2>5
    <3>2. t[(m + 1) + 1] = TextOf[b[m + 1]] /\ b[m + 1] \in CanonicalScalar
      BY <2>2, <2>4, <3>1
    <3>3. s[m + 2] # t[m + 2]
      BY <2>1, <3>1, <3>2, TokensDiffer
    <3> QED BY <3>1, <3>3
  <2>6. CASE n < m
    <3>1. n + 2 \in DOMAIN s /\ n + 2 \in DOMAIN t /\ n + 1 \in 1 .. m /\ (n + 1) + 1 = n + 2
      BY <1>2, <2>1, <2>2, <2>4, <2>6
    <3>2. s[(n + 1) + 1] = TextOf[a[n + 1]] /\ a[n + 1] \in CanonicalScalar
      BY <2>1, <2>4, <3>1
    <3>3. s[n + 2] # t[n + 2]
      BY <2>2, <3>1, <3>2, TokensDiffer
    <3> QED BY <3>1, <3>3
  <2>7. CASE m = n
    <3>1. PICK i \in 1 .. m : a[i] # b[i]
      BY <2>3, <2>4, <2>7
    <3>2. s[i + 1] = TextOf[a[i]] /\ t[i + 1] = TextOf[b[i]]
      BY <2>1, <2>2, <2>7
    <3>3. s[i + 1] # t[i + 1]
      BY <2>4, <2>7, <3>1, <3>2, TokensDiffer
    <3>4. i + 1 \in DOMAIN s /\ i + 1 \in DOMAIN t
      BY <1>2, <2>1, <2>2, <2>4, <2>7
    <3> QED BY <3>3, <3>4
  <2> QED BY <2>4, <2>5, <2>6, <2>7
<1>6. \E k : k \in DOMAIN s /\ k \in DOMAIN t /\ s[k] # t[k]
  <2>1. CASE x \in CanonicalList /\ y \notin CanonicalList
    BY <1>4, <2>1 DEF s, t
  <2>2. CASE x \notin CanonicalList /\ y \in CanonicalList
    <3>1. 1 \in DOMAIN t /\ 1 \in DOMAIN s /\ t[1] # s[1]
      BY <1>4, <2>2 DEF s, t
    <3> QED BY <3>1
  <2> QED BY <1>3, <1>5, <2>1, <2>2
<1> QED BY <1>1, <1>6, DifferFirst DEF s, t

\* Values are ordered as their texts are.
LEMMA ValueIsBefore ==
  ASSUME NEW x \in CanonicalValue \cup {Absent}, NEW y \in CanonicalValue \cup {Absent}
  PROVE  ValueBefore(x, y) <=> Less(TextOfValue(x), TextOfValue(y))
<1> DEFINE s == TextOfValue(x)
           t == TextOfValue(y)
           differ == {i \in DOMAIN s : i \in DOMAIN t /\ s[i] # t[i]}
<1>1. s \in Texts /\ t \in Texts
  BY TextsOf
<1>2. ValueBefore(x, y) <=> \E i \in differ : s[i] < t[i] /\ \A j \in differ : i <= j
  BY DEF ValueBefore
<1> HIDE DEF s, t
<1>3. DOMAIN s = 1 .. Len(s) /\ DOMAIN t = 1 .. Len(t) /\ Len(s) \in Nat /\ Len(t) \in Nat
  BY <1>1 DEF Texts
<1>4. ASSUME NEW i \in differ, s[i] < t[i], \A j \in differ : i <= j PROVE Less(s, t)
  <2>1. i \in Nat \ {0} /\ i \in DOMAIN s /\ i \in DOMAIN t /\ s[i] # t[i]
    BY <1>3
  <2>2. ASSUME NEW j \in 1 .. (i - 1) PROVE s[j] = t[j]
    <3>1. j \in DOMAIN s /\ j \in DOMAIN t /\ ~(i <= j)
      BY <1>3, <2>1
    <3> QED BY <1>4, <3>1
  <2> QED BY <1>4, <2>1, <2>2 DEF Less, FirstDifference
<1>5. ASSUME Less(s, t) PROVE \E i \in differ : s[i] < t[i] /\ \A j \in differ : i <= j
  <2>1. PICK i \in Nat \ {0} : FirstDifference(s, t, i) /\ s[i] < t[i]
    BY <1>5 DEF Less
  <2>2. i \in differ
    BY <2>1 DEF FirstDifference
  <2>3. ASSUME NEW j \in differ PROVE i <= j
    <3>1. j \in Nat /\ j >= 1 /\ s[j] # t[j]
      BY <1>3
    <3>2. j \notin 1 .. (i - 1)
      BY <2>1, <3>1 DEF FirstDifference
    <3> QED BY <3>1, <3>2
  <2> QED BY <2>1, <2>2, <2>3
<1> QED BY <1>2, <1>4, <1>5 DEF s, t

Values == CanonicalValue \cup {Absent}

\* Values are ordered strictly and totally.
LEMMA ValueOrder ==
  /\ \A x, y \in Values : ValueBefore(x, y) => ~ValueBefore(y, x)
  /\ \A x, y, z \in Values : ValueBefore(x, y) /\ ValueBefore(y, z) => ValueBefore(x, z)
  /\ \A x, y \in Values : x # y => ValueBefore(x, y) \/ ValueBefore(y, x)
<1>1. \A x, y \in Values : ValueBefore(x, y) <=> Less(TextOfValue(x), TextOfValue(y))
  BY ValueIsBefore DEF Values
<1>2. \A x \in Values : TextOfValue(x) \in Texts
  BY TextsOf DEF Values
<1>3. ASSUME NEW x \in Values, NEW y \in Values, x # y PROVE ValueBefore(x, y) \/ ValueBefore(y, x)
  <2> DEFINE s == TextOfValue(x)
             t == TextOfValue(y)
  <2>1. PICK i \in Nat \ {0} : FirstDifference(s, t, i)
    BY <1>3, TextsDiffer DEF Values
  <2>2. FirstDifference(t, s, i)
    BY <2>1 DEF FirstDifference
  <2>3. s \in Texts /\ t \in Texts
    BY <1>2
  <2>4. ValueBefore(x, y) <=> Less(s, t)
    BY <1>1
  <2>5. ValueBefore(y, x) <=> Less(t, s)
    BY <1>1
  <2> HIDE DEF s, t
  <2>6. s[i] \in Int /\ t[i] \in Int /\ s[i] # t[i]
    BY <2>1, <2>3 DEF FirstDifference, Texts
  <2>7. s[i] < t[i] \/ t[i] < s[i]
    BY <2>6
  <2> QED BY <2>1, <2>2, <2>4, <2>5, <2>7 DEF Less
<1> QED BY <1>1, <1>2, <1>3, LessIsOrder
\* The rows hashing sees, and the order they are put in.
CanonicalRow == UNION {[D -> CanonicalValue] : D \in SUBSET Range(Fields)}

\* A missing key is no value.
LEMMA AbsentIsNone == Absent \notin CanonicalValue
<1>1. \A v \in CanonicalValue : v[1] \in {"none", "bool", "num", "text", "list"}
  BY DEF CanonicalValue, CanonicalScalar, CanonicalList
<1>2. Absent[1] = "absent"
  BY DEF Absent
<1> QED BY <1>1, <1>2

\* Rows that differ, differ in the cell of a field.
LEMMA Cells ==
  /\ \A r \in CanonicalRow : \A k : At(r, k) \in Values
  /\ \A r, s \in CanonicalRow : r # s => \E i \in DOMAIN Fields : At(r, Fields[i]) # At(s, Fields[i])
<1>1. ASSUME NEW r \in CanonicalRow, NEW k PROVE At(r, k) \in Values
  BY DEF CanonicalRow, At, Values
<1>2. ASSUME NEW r \in CanonicalRow, NEW s \in CanonicalRow,
             \A i \in DOMAIN Fields : At(r, Fields[i]) = At(s, Fields[i])
      PROVE  r = s
  <2>1. PICK D \in SUBSET Range(Fields) : r \in [D -> CanonicalValue]
    BY DEF CanonicalRow
  <2>2. PICK E \in SUBSET Range(Fields) : s \in [E -> CanonicalValue]
    BY DEF CanonicalRow
  <2>3. \A k \in Range(Fields) : At(r, k) = At(s, k)
    BY <1>2 DEF Range
  <2>4. D = E
    BY <2>1, <2>2, <2>3, AbsentIsNone DEF At
  <2>5. \A k \in D : r[k] = s[k]
    BY <2>1, <2>2, <2>3, <2>4 DEF At
  <2> QED BY <2>1, <2>2, <2>4, <2>5
<1> QED BY <1>1, <1>2

\* _row_sort_key orders canonical rows strictly and totally.
LEMMA RowOrder ==
  /\ \A r, s \in CanonicalRow : RowBefore(r, s) => ~RowBefore(s, r)
  /\ \A r, s, t \in CanonicalRow : RowBefore(r, s) /\ RowBefore(s, t) => RowBefore(r, t)
  /\ \A r, s \in CanonicalRow : r # s => RowBefore(r, s) \/ RowBefore(s, r)
<1>1. \A i \in DOMAIN Fields : i \in Nat \ {0} /\ \A j \in 1 .. i : j \in DOMAIN Fields
  BY EquivalenceAssumption
<1> DEFINE Cell(r, i) == At(r, Fields[i])
           First(r, s, i) == /\ i \in DOMAIN Fields /\ ValueBefore(Cell(r, i), Cell(s, i))
                             /\ \A j \in 1 .. (i - 1) : Cell(r, j) = Cell(s, j)
<1>2. \A r, s : RowBefore(r, s) <=> \E i \in DOMAIN Fields : First(r, s, i)
  BY DEF RowBefore
<1>3. \A r \in CanonicalRow : \A i \in DOMAIN Fields : Cell(r, i) \in Values
  BY Cells
<1>4. \A r, s \in CanonicalRow : r # s => \E i \in DOMAIN Fields : Cell(r, i) # Cell(s, i)
  BY Cells
<1> HIDE DEF Cell
<1>5. ASSUME NEW r \in CanonicalRow, NEW s \in CanonicalRow, RowBefore(r, s), RowBefore(s, r) PROVE FALSE
  <2>1. PICK i \in DOMAIN Fields : First(r, s, i)
    BY <1>2, <1>5
  <2>2. PICK j \in DOMAIN Fields : First(s, r, j)
    BY <1>2, <1>5
  <2>3. i \in Nat \ {0} /\ j \in Nat \ {0}
    BY <1>1
  <2>4. CASE i < j
    <3>1. Cell(s, i) = Cell(r, i)
      BY <2>2, <2>3, <2>4
    <3> QED BY <1>3, <2>1, <3>1, ValueOrder
  <2>5. CASE j < i
    <3>1. Cell(s, j) = Cell(r, j)
      BY <2>1, <2>3, <2>5
    <3> QED BY <1>3, <2>2, <3>1, ValueOrder
  <2>6. CASE i = j
    BY <1>3, <2>1, <2>2, <2>6, ValueOrder
  <2> QED BY <2>3, <2>4, <2>5, <2>6
<1>6. ASSUME NEW r \in CanonicalRow, NEW s \in CanonicalRow, NEW t \in CanonicalRow, RowBefore(r, s), RowBefore(s, t)
      PROVE  RowBefore(r, t)
  <2>1. PICK i \in DOMAIN Fields : First(r, s, i)
    BY <1>2, <1>6
  <2>2. PICK j \in DOMAIN Fields : First(s, t, j)
    BY <1>2, <1>6
  <2>3. i \in Nat \ {0} /\ j \in Nat \ {0}
    BY <1>1
  <2>4. CASE i < j
    <3>1. Cell(s, i) = Cell(t, i) /\ \A k \in 1 .. (i - 1) : Cell(s, k) = Cell(t, k)
      BY <2>2, <2>3, <2>4
    <3>2. First(r, t, i)
      BY <2>1, <3>1
    <3> QED BY <1>2, <3>2
  <2>5. CASE j < i
    <3>1. Cell(r, j) = Cell(s, j) /\ \A k \in 1 .. (j - 1) : Cell(r, k) = Cell(s, k)
      BY <2>1, <2>3, <2>5
    <3>2. First(r, t, j)
      BY <2>2, <3>1
    <3> QED BY <1>2, <3>2
  <2>6. CASE i = j
    <3>1. ValueBefore(Cell(r, i), Cell(t, i))
      BY <1>3, <2>1, <2>2, <2>6, ValueOrder
    <3>2. First(r, t, i)
      BY <2>1, <2>2, <2>6, <3>1
    <3> QED BY <1>2, <3>2
  <2> QED BY <2>3, <2>4, <2>5, <2>6
<1>7. ASSUME NEW r \in CanonicalRow, NEW s \in CanonicalRow, r # s
      PROVE  RowBefore(r, s) \/ RowBefore(s, r)
  <2> DEFINE D == {i \in DOMAIN Fields : Cell(r, i) # Cell(s, i)}
  <2>1. D # {} /\ D \subseteq Nat
    BY <1>1, <1>4, <1>7
  <2>2. PICK i \in D : \A j \in D : i <= j
    BY <2>1, LeastOfNaturals
  <2>3. \A j \in 1 .. (i - 1) : Cell(r, j) = Cell(s, j)
    <3> SUFFICES ASSUME NEW j \in 1 .. (i - 1) PROVE Cell(r, j) = Cell(s, j)
      OBVIOUS
    <3>1. i \in Nat /\ j \in DOMAIN Fields /\ ~(i <= j)
      BY <1>1
    <3> QED BY <2>2, <3>1
  <2>4. ValueBefore(Cell(r, i), Cell(s, i)) \/ ValueBefore(Cell(s, i), Cell(r, i))
    BY <1>3, ValueOrder
  <2> HIDE DEF D
  <2>5. First(r, s, i) \/ First(s, r, i)
    BY <2>2, <2>3, <2>4 DEF D
  <2>6. i \in DOMAIN Fields
    BY DEF D
  <2> QED BY <1>2, <2>5, <2>6
<1> QED BY <1>5, <1>6, <1>7

-------------------------------------------------------------------------------
(* Sorting.  L holds the pairs of positions whose elements are in order.     *)

IsOrder(L, n) ==
  /\ \A i, j \in 1 .. n : <<i, j>> \in L => <<j, i>> \notin L
  /\ \A i, j, k \in 1 .. n : <<i, j>> \in L /\ <<j, k>> \in L => <<i, k>> \in L

\* Something comes first.
LEMMA Minimal ==
  ASSUME NEW n \in Nat, NEW L, IsOrder(L, n), NEW S \in SUBSET (1 .. n), S # {}
  PROVE  \E x \in S : \A y \in S : <<y, x>> \notin L
<1> DEFINE First(U, x) == x \in U /\ \A y \in U : <<y, x>> \notin L
           T == {m \in 0 .. n : \A U \in SUBSET (1 .. m) : U # {} => \E x : First(U, x)}
<1>1. 0 \in T
  OBVIOUS
<1>2. ASSUME NEW m \in Nat, m < n, m \in T PROVE m + 1 \in T
  <2>1. ASSUME NEW U \in SUBSET (1 .. (m + 1)), U # {} PROVE \E x : First(U, x)
    <3> DEFINE V == U \ {m + 1}
    <3>1. V \in SUBSET (1 .. m) /\ U \in SUBSET (1 .. n)
      BY <1>2
    <3>2. CASE m + 1 \notin U
      BY <1>2, <2>1, <3>1, <3>2
    <3>3. CASE m + 1 \in U /\ V = {}
      <4>1. U = {m + 1}
        BY <3>3
      <4>2. m + 1 \in 1 .. n
        BY <1>2
      <4>3. <<m + 1, m + 1>> \notin L
        BY <4>2 DEF IsOrder
      <4> QED BY <4>1, <4>3
    <3>4. CASE m + 1 \in U /\ V # {}
      <4>1. PICK x : First(V, x)
        BY <1>2, <3>1, <3>4
      <4>2. CASE <<m + 1, x>> \notin L
        <5>1. First(U, x)
          BY <4>1, <4>2
        <5> QED BY <5>1
      <4>3. CASE <<m + 1, x>> \in L
        <5>1. ASSUME NEW y \in U, <<y, m + 1>> \in L PROVE FALSE
          <6>1. y \in 1 .. n /\ x \in 1 .. n /\ m + 1 \in 1 .. n
            BY <1>2, <3>1, <3>4, <4>1
          <6>2. y # m + 1
            BY <5>1, <6>1 DEF IsOrder
          <6>3. <<y, x>> \in L
            BY <4>3, <5>1, <6>1 DEF IsOrder
          <6> QED BY <4>1, <6>2, <6>3
        <5>2. First(U, m + 1)
          BY <3>4, <5>1
        <5> QED BY <5>2
      <4> QED BY <4>2, <4>3
    <3> QED BY <3>2, <3>3, <3>4
  <2> HIDE DEF First
  <2> QED BY <1>2, <2>1
<1> HIDE DEF T
<1>3. n \in T
  BY <1>1, <1>2, UpToInd
<1> QED BY <1>3 DEF T

\* Some arrangement of the positions puts no element before an earlier one.
LEMMA Selection ==
  ASSUME NEW n \in Nat, NEW L, IsOrder(L, n)
  PROVE  \E q \in Bijection(1 .. n, 1 .. n) : \A i, j \in 1 .. n : i < j => <<q[j], q[i]>> \notin L
<1> DEFINE Chosen(f, m) ==
             /\ f \in [1 .. m -> 1 .. n]
             /\ \A i, j \in 1 .. m : f[i] = f[j] => i = j
             /\ \A i, j \in 1 .. m : i < j => <<f[j], f[i]>> \notin L
             /\ \A d \in 1 .. n : (\A i \in 1 .. m : f[i] # d) => \A i \in 1 .. m : <<d, f[i]>> \notin L
           T == {m \in 0 .. n : \E f : Chosen(f, m)}
<1>1. 0 \in T
  <2>1. Chosen([i \in 1 .. 0 |-> 1], 0)
    OBVIOUS
  <2> HIDE DEF Chosen
  <2> QED BY <2>1
<1>2. ASSUME NEW m \in Nat, m < n, m \in T PROVE m + 1 \in T
  <2>1. PICK f : Chosen(f, m)
    BY <1>2
  <2> DEFINE R == {d \in 1 .. n : \A i \in 1 .. m : f[i] # d}
  <2>2. R # {}
    <3> SUFFICES ASSUME R = {} PROVE FALSE
      OBVIOUS
    <3>1. f \in Surjection(1 .. m, 1 .. n)
      BY <2>1 DEF Surjection
    <3>2. IsFiniteSet(1 .. m) /\ Cardinality(1 .. m) = m /\ Cardinality(1 .. n) = n
      <4>1. m \in Int /\ n \in Int /\ 1 \in Int /\ m \in Nat
        BY <1>2
      <4>2. Cardinality(1 .. m) = IF 1 > m THEN 0 ELSE m - 1 + 1
        BY <4>1, FS_Interval
      <4>3. Cardinality(1 .. n) = IF 1 > n THEN 0 ELSE n - 1 + 1
        BY <4>1, FS_Interval
      <4> QED BY <4>1, <4>2, <4>3, FS_Interval
    <3>3. Cardinality(1 .. n) <= Cardinality(1 .. m)
      BY <3>1, <3>2, FS_Surjection
    <3> QED BY <1>2, <3>2, <3>3
  <2>3. PICK x \in R : \A y \in R : <<y, x>> \notin L
    BY <2>2, Minimal
  <2> DEFINE g == [i \in 1 .. (m + 1) |-> IF i <= m THEN f[i] ELSE x]
  <2>4. g \in [1 .. (m + 1) -> 1 .. n] /\ g[m + 1] = x /\ \A i \in 1 .. m : g[i] = f[i]
    BY <2>1
  <2>5. x \in 1 .. n /\ \A i \in 1 .. m : f[i] # x
    OBVIOUS
  <2>6. \A i \in 1 .. (m + 1) : i = m + 1 \/ i \in 1 .. m
    OBVIOUS
  <2> HIDE DEF g
  <2>7. \A i, j \in 1 .. (m + 1) : g[i] = g[j] => i = j
    BY <2>1, <2>4, <2>5, <2>6
  <2>8. ASSUME NEW i \in 1 .. (m + 1), NEW j \in 1 .. (m + 1), i < j PROVE <<g[j], g[i]>> \notin L
    <3>1. i \in 1 .. m
      BY <2>8
    <3>2. CASE j \in 1 .. m
      BY <2>1, <2>4, <2>8, <3>1, <3>2
    <3>3. CASE j = m + 1
      BY <2>1, <2>4, <2>5, <3>1, <3>3
    <3> QED BY <2>6, <3>2, <3>3
  <2>9. ASSUME NEW d \in 1 .. n, \A i \in 1 .. (m + 1) : g[i] # d, NEW i \in 1 .. (m + 1)
        PROVE  <<d, g[i]>> \notin L
    <3>1. d \in R
      BY <2>4, <2>9
    <3>2. CASE i \in 1 .. m
      <4>1. \A k \in 1 .. m : f[k] # d
        BY <3>1
      <4> QED BY <2>1, <2>4, <3>2, <4>1
    <3>3. CASE i = m + 1
      BY <2>3, <2>4, <3>1, <3>3
    <3> QED BY <2>6, <3>2, <3>3
  <2>10. Chosen(g, m + 1)
    BY <2>4, <2>7, <2>8, <2>9
  <2> HIDE DEF Chosen
  <2> QED BY <1>2, <2>10
<1> HIDE DEF T
<1>3. n \in T
  BY <1>1, <1>2, UpToInd
<1>4. PICK f : Chosen(f, n)
  BY <1>3 DEF T
<1>5. f \in Injection(1 .. n, 1 .. n)
  BY <1>4 DEF Injection, IsInjective
<1>6. IsFiniteSet(1 .. n)
  BY FS_Interval
<1>7. f \in Surjection(1 .. n, 1 .. n)
  BY <1>5, <1>6, FS_Injection
<1> QED BY <1>4, <1>5, <1>7 DEF Bijection
\* What sorted() gives: the rows of c in an arrangement with no row before an
\* earlier one.
ArrangesRows(q, c, n) ==
  /\ q \in Bijection(1 .. n, 1 .. n)
  /\ \A i, j \in 1 .. n : i < j => ~RowBefore(c[q[j]], c[q[i]])

LEMMA SortedRows ==
  ASSUME NEW n \in Nat, NEW c \in [1 .. n -> CanonicalRow]
  PROVE  \E q : ArrangesRows(q, c, n) /\ Sorted(c, RowBefore) = [i \in 1 .. n |-> c[q[i]]]
<1> DEFINE L == {e \in (1 .. n) \X (1 .. n) : RowBefore(c[e[1]], c[e[2]])}
<1>1. \A i, j \in 1 .. n : <<i, j>> \in L <=> RowBefore(c[i], c[j])
  OBVIOUS
<1>2. \A i \in 1 .. n : c[i] \in CanonicalRow
  OBVIOUS
<1> HIDE DEF L
<1>3. IsOrder(L, n)
  BY <1>1, <1>2, RowOrder DEF IsOrder
<1>4. PICK p \in Bijection(1 .. n, 1 .. n) : \A i, j \in 1 .. n : i < j => <<p[j], p[i]>> \notin L
  BY <1>3, Selection
<1>5. \A i \in 1 .. n : p[i] \in 1 .. n
  BY <1>4 DEF Bijection, Injection
<1>6. ArrangesRows(p, c, n)
  BY <1>1, <1>4, <1>5 DEF ArrangesRows
<1> DEFINE q == CHOOSE r \in Bijection(1 .. n, 1 .. n) :
                  \A i, j \in 1 .. n : i < j => ~RowBefore(c[r[j]], c[r[i]])
<1>7. ArrangesRows(q, c, n)
  BY <1>6 DEF ArrangesRows
<1>8. DOMAIN c = 1 .. n
  OBVIOUS
<1>9. Sorted(c, RowBefore) = [i \in 1 .. n |-> c[q[i]]]
  BY <1>8 DEF Sorted
<1> HIDE DEF q
<1> QED BY <1>7, <1>9

\* The same of the elements of an array.
ArrangesTexts(q, c, n) ==
  /\ q \in Bijection(1 .. n, 1 .. n)
  /\ \A i, j \in 1 .. n : i < j => ~TextBefore(c[q[j]], c[q[i]])

LEMMA SortedTexts ==
  ASSUME NEW n \in Nat, NEW c \in [1 .. n -> CanonicalScalar]
  PROVE  \E q : ArrangesTexts(q, c, n) /\ ByText(c) = [i \in 1 .. n |-> c[q[i]]]
<1> DEFINE L == {e \in (1 .. n) \X (1 .. n) : TextBefore(c[e[1]], c[e[2]])}
<1>1. \A i, j \in 1 .. n : <<i, j>> \in L <=> TextBefore(c[i], c[j])
  OBVIOUS
<1>2. \A i \in 1 .. n : TextOf[c[i]] \in Int
  BY EquivalenceAssumption DEF CanonicalScalar
<1> HIDE DEF L
<1>3. IsOrder(L, n)
  BY <1>1, <1>2 DEF IsOrder, TextBefore
<1>4. PICK p \in Bijection(1 .. n, 1 .. n) : \A i, j \in 1 .. n : i < j => <<p[j], p[i]>> \notin L
  BY <1>3, Selection
<1>5. \A i \in 1 .. n : p[i] \in 1 .. n
  BY <1>4 DEF Bijection, Injection
<1>6. ArrangesTexts(p, c, n)
  BY <1>1, <1>4, <1>5 DEF ArrangesTexts
<1> DEFINE q == CHOOSE r \in Bijection(1 .. n, 1 .. n) :
                  \A i, j \in 1 .. n : i < j => ~TextBefore(c[r[j]], c[r[i]])
<1>7. ArrangesTexts(q, c, n)
  BY <1>6 DEF ArrangesTexts
<1>8. DOMAIN c = 1 .. n
  OBVIOUS
<1>9. ByText(c) = [i \in 1 .. n |-> c[q[i]]]
  BY <1>8 DEF ByText, Sorted
<1> HIDE DEF q
<1> QED BY <1>7, <1>9

\* R is a strict total order on V.
Orders(R, V) ==
  /\ \A x, y \in V : <<x, y>> \in R => <<y, x>> \notin R
  /\ \A x, y, z \in V : <<x, y>> \in R /\ <<y, z>> \in R => <<x, z>> \in R
  /\ \A x, y \in V : x # y => <<x, y>> \in R \/ <<y, x>> \in R
InOrder(s, n, R) == \A i, j \in 1 .. n : i < j => <<s[j], s[i]>> \notin R

\* The elements of c and d taken by the arrangements q and r, or as they are and by p.
Twins(c, q, d, r, n) == \A i \in 1 .. n : c[q[i]] = d[r[i]]
Matches(c, d, p, n) == \A i \in 1 .. n : c[i] = d[p[i]]
Rearranges(g, c, q, d, r, n) == \A k \in 1 .. n : d[r[g[k]]] = c[q[k]]

\* If every element of s is an element of t, none comes before its place in t.
LEMMA Crowding ==
  ASSUME NEW n \in Nat, NEW V, NEW R, Orders(R, V),
         NEW s \in [1 .. n -> V], NEW t \in [1 .. n -> V], InOrder(s, n, R), InOrder(t, n, R),
         NEW g \in Injection(1 .. n, 1 .. n), Matches(s, t, g, n), NEW i \in 1 .. n
  PROVE  <<s[i], t[i]>> \notin R
<1> USE DEF Matches
<1> SUFFICES ASSUME <<s[i], t[i]>> \in R PROVE FALSE
  OBVIOUS
<1>1. g \in [1 .. n -> 1 .. n] /\ \A j, k \in 1 .. n : g[j] = g[k] => j = k
  BY DEF Injection, IsInjective
<1>2. \A k \in 1 .. n : s[k] \in V /\ t[k] \in V
  OBVIOUS
<1>3. ASSUME NEW k \in 1 .. i PROVE k \in 1 .. n /\ g[k] \in 1 .. (i - 1)
  <2>1. k \in 1 .. n /\ (k < i \/ k = i)
    OBVIOUS
  <2>2. g[k] \in 1 .. n /\ t[g[k]] = s[k]
    BY <1>1, <2>1
  <2>3. <<s[i], s[k]>> \notin R
    BY <1>2, <2>1 DEF InOrder, Orders
  <2>4. s[k] = s[i] \/ <<s[k], s[i]>> \in R
    BY <1>2, <2>1, <2>3 DEF Orders
  <2>5. <<t[g[k]], t[i]>> \in R
    BY <1>2, <2>1, <2>2, <2>4 DEF Orders
  <2>6. ~(i < g[k])
    BY <2>2, <2>5 DEF InOrder
  <2>7. g[k] # i
    BY <1>2, <2>5 DEF Orders
  <2> QED BY <2>1, <2>2, <2>6, <2>7
<1> DEFINE h == [k \in 1 .. i |-> g[k]]
<1>4. h \in [1 .. i -> 1 .. (i - 1)]
  BY <1>3
<1>5. i \in Int /\ i - 1 \in Int /\ 1 \in Int /\ i >= 1
  OBVIOUS
<1>6. Cardinality(1 .. i) = IF 1 > i THEN 0 ELSE i - 1 + 1
  BY <1>5, FS_Interval
<1>7. Cardinality(1 .. (i - 1)) = IF 1 > i - 1 THEN 0 ELSE (i - 1) - 1 + 1
  BY <1>5, FS_Interval
<1>8. IsFiniteSet(1 .. i) /\ IsFiniteSet(1 .. (i - 1))
  BY <1>5, FS_Interval
<1>9. Cardinality(1 .. (i - 1)) < Cardinality(1 .. i)
  BY <1>5, <1>6, <1>7
<1>10. PICK x, y \in 1 .. i : x # y /\ h[x] = h[y]
  <2> DEFINE S == 1 .. i
             T == 1 .. (i - 1)
  <2>1. h \in [S -> T] /\ IsFiniteSet(S) /\ IsFiniteSet(T) /\ Cardinality(T) < Cardinality(S)
    BY <1>4, <1>8, <1>9
  <2> HIDE DEF h, S, T
  <2>2. \E x, y \in S : x # y /\ h[x] = h[y]
    BY <2>1, FS_PigeonHole
  <2> QED BY <2>2 DEF S
<1> QED BY <1>1, <1>3, <1>10

\* There is one way to sort: arrangements of the same elements in order are equal.
LEMMA SortedOnce ==
  ASSUME NEW n \in Nat, NEW V, NEW R, Orders(R, V),
         NEW s \in [1 .. n -> V], NEW t \in [1 .. n -> V], InOrder(s, n, R), InOrder(t, n, R),
         NEW g \in Bijection(1 .. n, 1 .. n), Matches(s, t, g, n)
  PROVE  s = t
<1> DEFINE h == Inverse(g, 1 .. n, 1 .. n)
<1>1. h \in Bijection(1 .. n, 1 .. n) /\ \A k \in 1 .. n : h[g[k]] = k
  BY Fun_BijInverse
<1> HIDE DEF h
<1>2. /\ g \in Injection(1 .. n, 1 .. n) /\ h \in Injection(1 .. n, 1 .. n)
      /\ \A k \in 1 .. n : \E j \in 1 .. n : g[j] = k
  BY <1>1 DEF Bijection, Surjection
<1>3. Matches(t, s, h, n)
  <2> SUFFICES ASSUME NEW k \in 1 .. n PROVE t[k] = s[h[k]]
    BY DEF Matches
  <2>1. PICK j \in 1 .. n : g[j] = k
    BY <1>2
  <2> QED BY <1>1, <2>1 DEF Matches
<1>4. ASSUME NEW i \in 1 .. n PROVE s[i] = t[i]
  <2>1. <<s[i], t[i]>> \notin R
    BY <1>2, Crowding
  <2>2. <<t[i], s[i]>> \notin R
    BY <1>2, <1>3, Crowding
  <2>3. s[i] \in V /\ t[i] \in V
    OBVIOUS
  <2> QED BY <2>1, <2>2, <2>3 DEF Orders
<1> QED BY <1>4
\* Two ways to arrange the same elements pair them up one to one.
LEMMA Arrangement ==
  ASSUME NEW n \in Nat, NEW c, NEW d, NEW q \in Bijection(1 .. n, 1 .. n), NEW r \in Bijection(1 .. n, 1 .. n),
         Twins(c, q, d, r, n)
  PROVE  \E p \in Bijection(1 .. n, 1 .. n) : Matches(c, d, p, n)
<1> USE DEF Twins, Matches
<1> DEFINE h == Inverse(q, 1 .. n, 1 .. n)
           p == [i \in 1 .. n |-> r[h[i]]]
<1>1. h \in Bijection(1 .. n, 1 .. n) /\ \A k \in 1 .. n : h[q[k]] = k
  BY Fun_BijInverse
<1> HIDE DEF h
<1>2. p \in Bijection(1 .. n, 1 .. n)
  BY <1>1, Fun_BijTransitive
<1>3. ASSUME NEW i \in 1 .. n PROVE c[i] = d[p[i]]
  <2>1. PICK k \in 1 .. n : q[k] = i
    BY DEF Bijection, Surjection
  <2>2. p[i] = r[k] /\ c[q[k]] = d[r[k]]
    BY <1>1, <2>1
  <2> QED BY <2>1, <2>2
<1> HIDE DEF p
<1> QED BY <1>2, <1>3

\* Paired elements stay paired however either side is arranged.
LEMMA Rearrangement ==
  ASSUME NEW n \in Nat, NEW c, NEW d, NEW q \in Bijection(1 .. n, 1 .. n), NEW r \in Bijection(1 .. n, 1 .. n),
         NEW p \in Bijection(1 .. n, 1 .. n), Matches(c, d, p, n)
  PROVE  \E g \in Bijection(1 .. n, 1 .. n) : Rearranges(g, c, q, d, r, n)
<1> USE DEF Matches, Rearranges
<1> DEFINE h == Inverse(r, 1 .. n, 1 .. n)
           pq == [k \in 1 .. n |-> p[q[k]]]
           g == [k \in 1 .. n |-> h[pq[k]]]
<1>1. h \in Bijection(1 .. n, 1 .. n) /\ \A k \in 1 .. n : h[r[k]] = k
  BY Fun_BijInverse
<1>2. pq \in Bijection(1 .. n, 1 .. n)
  BY Fun_BijTransitive
<1> HIDE DEF h, pq
<1>3. g \in Bijection(1 .. n, 1 .. n)
  BY <1>1, <1>2, Fun_BijTransitive
<1>4. ASSUME NEW k \in 1 .. n PROVE d[r[g[k]]] = c[q[k]]
  <2>1. q[k] \in 1 .. n /\ pq[k] = p[q[k]] /\ pq[k] \in 1 .. n
    BY <1>2 DEF pq, Bijection, Injection
  <2>2. PICK j \in 1 .. n : r[j] = pq[k]
    BY <2>1 DEF Bijection, Surjection
  <2>3. g[k] = j
    BY <1>1, <2>2
  <2> QED BY <2>1, <2>2, <2>3
<1> HIDE DEF g
<1> QED BY <1>3, <1>4

-------------------------------------------------------------------------------
(* Scalars, values and rows without NaN.                                     *)

NumericScalar == {v \in Scalar : v[1] # "nan" /\ CanonicalizeScalar(v) \in DOMAIN TextOf}
NumericValue == NumericScalar \cup ({"list"} \X Seq(NumericScalar))
NumericRow == UNION {[D -> NumericValue] : D \in SUBSET Range(Fields)}

\* What canonicalize does to a scalar.
LEMMA ScalarForms ==
  ASSUME NEW x \in NumericScalar
  PROVE  /\ x[1] \in {"none", "bool", "int", "float", "decimal", "text"} /\ x[2] \in Int /\ x = <<x[1], x[2]>>
         /\ IsNumber(x) => CanonicalizeScalar(x) = <<"num", NormalizeFloat(x[2])>>
         /\ x[1] = "decimal" => CanonicalizeScalar(x) = <<"text", x[2]>>
         /\ ~IsNumber(x) /\ x[1] # "decimal" => CanonicalizeScalar(x) = x
         /\ CanonicalizeScalar(x) \in CanonicalScalar
<1>1. x[1] \in {"none", "bool", "int", "float", "decimal", "text"} /\ x[2] \in Int /\ x = <<x[1], x[2]>>
  BY DEF NumericScalar, Scalar
<1>2. /\ IsNumber(x) => CanonicalizeScalar(x) = <<"num", NormalizeFloat(x[2])>>
      /\ x[1] = "decimal" => CanonicalizeScalar(x) = <<"text", x[2]>>
      /\ ~IsNumber(x) /\ x[1] # "decimal" => CanonicalizeScalar(x) = x
  BY <1>1 DEF CanonicalizeScalar, IsNumber
<1>3. CanonicalizeScalar(x)[1] \in {"none", "bool", "num", "text"}
  BY <1>1, <1>2 DEF IsNumber
<1>4. CanonicalizeScalar(x) \in DOMAIN TextOf
  BY DEF NumericScalar
<1> QED BY <1>1, <1>2, <1>3, <1>4 DEF CanonicalScalar

\* Scalars with one canonical form are close.
LEMMA ScalarsClose ==
  ASSUME NEW x \in NumericScalar, NEW y \in NumericScalar, CanonicalizeScalar(x) = CanonicalizeScalar(y)
  PROVE  Close(x, y)
<1>1. CASE IsNumber(x) /\ IsNumber(y)
  <2>1. NormalizeFloat(x[2]) = NormalizeFloat(y[2])
    BY <1>1, ScalarForms
  <2>2. Abs(x[2] - y[2]) * Precision <= Greater(Abs(x[2]), Abs(y[2]))
    <3>1. x[2] \in Int /\ y[2] \in Int
      BY ScalarForms
    <3> QED BY <2>1, <3>1, SameNormalIsClose
  <2> QED BY <1>1, <2>2 DEF Close, Precision
<1>2. CASE ~(IsNumber(x) /\ IsNumber(y))
  <2>1. ASSUME NEW v \in NumericScalar PROVE IsNumber(v) <=> CanonicalizeScalar(v)[1] = "num"
    BY ScalarForms DEF IsNumber
  <2>2. ~IsNumber(x) /\ ~IsNumber(y)
    BY <1>2, <2>1
  <2>3. ASSUME NEW v \in NumericScalar, ~IsNumber(v)
        PROVE  v = <<v[1], v[2]>> /\ CanonicalizeScalar(v) = IF v[1] = "decimal" THEN <<"text", v[2]>> ELSE v
    <3>1. CASE v[1] = "decimal"
      BY <3>1, ScalarForms
    <3>2. CASE v[1] # "decimal"
      BY <2>3, <3>2, ScalarForms
    <3> QED BY <3>1, <3>2
  <2>4. Equal(x, y)
    <3>1. CASE x[1] = "decimal" /\ y[1] = "decimal"
      BY <2>2, <2>3, <3>1 DEF Equal
    <3>2. CASE x[1] = "decimal" /\ y[1] # "decimal"
      BY <2>2, <2>3, <3>2 DEF Equal, IsText
    <3>3. CASE x[1] # "decimal" /\ y[1] = "decimal"
      BY <2>2, <2>3, <3>3 DEF Equal, IsText
    <3>4. CASE x[1] # "decimal" /\ y[1] # "decimal"
      BY <2>2, <2>3, <3>4 DEF Equal
    <3> QED BY <3>1, <3>2, <3>3, <3>4
  <2> QED BY <1>2, <2>4 DEF Close
<1> QED BY <1>1, <1>2

\* Equal scalars have one canonical form.
LEMMA ScalarsEqual ==
  ASSUME NEW x \in NumericScalar, NEW y \in NumericScalar, Equal(x, y)
  PROVE  CanonicalizeScalar(x) = CanonicalizeScalar(y)
<1>1. CASE IsNumber(x) /\ IsNumber(y) /\ x[2] = y[2]
  BY <1>1, ScalarForms
<1>2. CASE IsText(x) /\ IsText(y) /\ x[2] = y[2]
  <2>1. /\ x = <<x[1], x[2]>> /\ y = <<y[1], y[2]>> /\ ~IsNumber(x) /\ ~IsNumber(y)
    BY <1>2, ScalarForms DEF IsText, IsNumber
  <2>2. CanonicalizeScalar(x) = <<"text", x[2]>> /\ CanonicalizeScalar(y) = <<"text", y[2]>>
    BY <1>2, <2>1, ScalarForms DEF IsText
  <2> QED BY <1>2, <2>2
<1> QED BY <1>1, <1>2 DEF Equal

\* What a cell of a canonical row holds.
Cell(v, free) ==
  LET c == Canonicalize(v)
  IN  IF free /\ c[1] = "list" THEN <<"list", ByText(c[2])>> ELSE c

\* The cell of an array is its canonical elements, arranged if they are free.
Arranged(v, free, q) ==
  LET n == Len(v[2])
  IN  /\ q \in Bijection(1 .. n, 1 .. n)
      /\ Cell(v, free) = <<"list", [i \in 1 .. n |-> CanonicalizeScalar(v[2][q[i]])]>>
      /\ \A i, j \in 1 .. n :
           IF free
           THEN i < j => ~TextBefore(CanonicalizeScalar(v[2][q[j]]), CanonicalizeScalar(v[2][q[i]]))
           ELSE q[i] = i

\* What a canonical row holds of a value.
LEMMA CellsOf ==
  ASSUME NEW v \in NumericValue, NEW free \in BOOLEAN
  PROVE  /\ v \in NumericScalar => v[1] # "list" /\ Cell(v, free) = CanonicalizeScalar(v) /\ Cell(v, free)[1] # "list"
         /\ v \notin NumericScalar => v[1] = "list" /\ v[2] \in Seq(NumericScalar) /\ \E q : Arranged(v, free, q)
         /\ Cell(v, free) \in CanonicalValue
<1>1. CASE v \in NumericScalar
  <2>1. v[1] # "list" /\ CanonicalizeScalar(v) \in CanonicalScalar
    BY <1>1, ScalarForms
  <2>2. Canonicalize(v) = CanonicalizeScalar(v)
    BY <2>1 DEF Canonicalize
  <2>3. CanonicalizeScalar(v)[1] # "list"
    BY <2>1 DEF CanonicalScalar
  <2>4. Cell(v, free) = CanonicalizeScalar(v)
    BY <2>2, <2>3 DEF Cell
  <2> QED BY <1>1, <2>1, <2>3, <2>4 DEF CanonicalValue
<1>2. CASE v \notin NumericScalar
  <2> DEFINE s == v[2]
             n == Len(s)
             c == [i \in 1 .. n |-> CanonicalizeScalar(s[i])]
  <2>1. v[1] = "list" /\ s \in Seq(NumericScalar)
    BY <1>2 DEF NumericValue
  <2>2. n \in Nat /\ DOMAIN s = 1 .. n /\ \A i \in 1 .. n : s[i] \in NumericScalar
    BY <2>1
  <2>3. Canonicalize(v) = <<"list", c>>
    BY <2>1, <2>2 DEF Canonicalize
  <2>4. \A i \in 1 .. n : CanonicalizeScalar(s[i]) \in CanonicalScalar
    BY <2>2, ScalarForms
  <2>5. c \in [1 .. n -> CanonicalScalar] /\ \A i \in 1 .. n : c[i] = CanonicalizeScalar(s[i])
    BY <2>4
  <2> HIDE DEF c, n, s
  <2>6. \E q : Arranged(v, free, q)
    <3>1. CASE free
      <4>1. PICK q : ArrangesTexts(q, c, n) /\ ByText(c) = [i \in 1 .. n |-> c[q[i]]]
        BY <2>2, <2>5, SortedTexts
      <4>2. q \in Bijection(1 .. n, 1 .. n) /\ \A i \in 1 .. n : q[i] \in 1 .. n
        BY <4>1 DEF ArrangesTexts, Bijection, Injection
      <4>3. \A i \in 1 .. n : c[q[i]] = CanonicalizeScalar(s[q[i]])
        BY <2>5, <4>2
      <4>4. Cell(v, free) = <<"list", ByText(c)>>
        BY <2>3, <3>1 DEF Cell
      <4>5. ByText(c) = [i \in 1 .. n |-> CanonicalizeScalar(s[q[i]])]
        BY <4>1, <4>3
      <4>6. \A i, j \in 1 .. n : i < j => ~TextBefore(CanonicalizeScalar(s[q[j]]), CanonicalizeScalar(s[q[i]]))
        BY <4>1, <4>3 DEF ArrangesTexts
      <4>7. Arranged(v, free, q)
        BY <3>1, <4>2, <4>4, <4>5, <4>6 DEF Arranged, n, s
      <4> QED BY <4>7
    <3>2. CASE ~free
      <4> DEFINE q == [i \in 1 .. n |-> i]
      <4>1. q \in Bijection(1 .. n, 1 .. n) /\ \A i \in 1 .. n : q[i] = i
        BY DEF Bijection, Injection, Surjection, IsInjective
      <4> HIDE DEF q
      <4>2. c = [i \in 1 .. n |-> CanonicalizeScalar(s[q[i]])]
        BY <4>1 DEF c
      <4>3. Cell(v, free) = <<"list", c>>
        BY <2>3, <3>2 DEF Cell
      <4>4. Arranged(v, free, q)
        <5>1. Cell(v, free) = <<"list", [i \in 1 .. n |-> CanonicalizeScalar(s[q[i]])]>>
          BY <4>2, <4>3
        <5> QED BY <3>2, <4>1, <5>1 DEF Arranged, n, s
      <4> QED BY <4>4
    <3> QED BY <3>1, <3>2
  <2>7. Cell(v, free) \in CanonicalValue
    <3>1. PICK q : Arranged(v, free, q)
      BY <2>6
    <3> DEFINE w == [i \in 1 .. n |-> CanonicalizeScalar(s[q[i]])]
    <3>2. Cell(v, free) = <<"list", w>> /\ q \in Bijection(1 .. n, 1 .. n)
      BY <3>1 DEF Arranged, n, s
    <3>3. \A i \in 1 .. n : CanonicalizeScalar(s[q[i]]) \in CanonicalScalar
      BY <2>4, <3>2 DEF Bijection, Injection
    <3>4. w \in Seq(CanonicalScalar)
      BY <2>2, <3>3
    <3> HIDE DEF w
    <3> QED BY <3>2, <3>4 DEF CanonicalValue, CanonicalList
  <2> QED BY <1>2, <2>1, <2>6, <2>7 DEF s
<1> QED BY <1>1, <1>2
CloseCell(x, y, free) ==
  IF x[1] = "list" /\ y[1] = "list" THEN Correspond(x[2], y[2], free, Close)
  ELSE x[1] # "list" /\ y[1] # "list" /\ Close(x, y)
EqualCell(x, y, free) ==
  IF x[1] = "list" /\ y[1] = "list" THEN Correspond(x[2], y[2], free, Equal)
  ELSE x[1] # "list" /\ y[1] # "list" /\ Equal(x, y)

\* Values with one cell are close.
LEMMA CellsClose ==
  ASSUME NEW x \in NumericValue, NEW y \in NumericValue, NEW free \in BOOLEAN, Cell(x, free) = Cell(y, free)
  PROVE  CloseCell(x, y, free)
<1>1. CASE x \in NumericScalar /\ y \in NumericScalar
  <2>1. CanonicalizeScalar(x) = CanonicalizeScalar(y) /\ x[1] # "list" /\ y[1] # "list"
    BY <1>1, CellsOf
  <2> QED BY <1>1, <2>1, ScalarsClose DEF CloseCell
<1>2. CASE x \notin NumericScalar /\ y \notin NumericScalar
  <2> DEFINE s == x[2]
             t == y[2]
             n == Len(s)
             m == Len(t)
  <2>1. x[1] = "list" /\ y[1] = "list" /\ s \in Seq(NumericScalar) /\ t \in Seq(NumericScalar)
    BY <1>2, CellsOf
  <2>2. PICK q : Arranged(x, free, q)
    BY <1>2, CellsOf
  <2>3. PICK r : Arranged(y, free, r)
    BY <1>2, CellsOf
  <2> DEFINE c == [i \in 1 .. n |-> CanonicalizeScalar(s[q[i]])]
             d == [i \in 1 .. m |-> CanonicalizeScalar(t[r[i]])]
  <2>4. q \in Bijection(1 .. n, 1 .. n) /\ r \in Bijection(1 .. m, 1 .. m) /\ c = d
    <3>1. q \in Bijection(1 .. n, 1 .. n) /\ Cell(x, free) = <<"list", c>>
      BY <2>2 DEF Arranged
    <3>2. r \in Bijection(1 .. m, 1 .. m) /\ Cell(y, free) = <<"list", d>>
      BY <2>3 DEF Arranged
    <3> HIDE DEF c, d, m, n
    <3>3. <<"list", c>> = <<"list", d>>
      BY <3>1, <3>2
    <3>4. c = d
      BY <3>3
    <3> QED BY <3>1, <3>2, <3>4
  <2>5. free \/ ((\A i \in 1 .. n : q[i] = i) /\ (\A i \in 1 .. m : r[i] = i))
    <3>1. CASE ~free
      <4>1. \A i, j \in 1 .. n : q[i] = i
        BY <2>2, <3>1 DEF Arranged
      <4>2. \A i, j \in 1 .. m : r[i] = i
        BY <2>3, <3>1 DEF Arranged
      <4> QED BY <4>1, <4>2
    <3> QED BY <3>1
  <2> HIDE DEF s, t
  <2>6. /\ n \in Nat /\ DOMAIN s = 1 .. n /\ DOMAIN t = 1 .. m /\ m \in Nat
        /\ \A i \in 1 .. n : s[i] \in NumericScalar
        /\ \A i \in 1 .. m : t[i] \in NumericScalar
    BY <2>1
  <2>7. DOMAIN c = 1 .. n /\ DOMAIN d = 1 .. m
    OBVIOUS
  <2>8. n = m
    <3> HIDE DEF c, d, n, m
    <3>1. 1 .. n = 1 .. m
      BY <2>4, <2>7
    <3>2. (n = 0 \/ n \in 1 .. n) /\ (m = 0 \/ m \in 1 .. m)
      BY <2>6
    <3>3. \A i \in 1 .. n : i >= 1 /\ i <= n
      OBVIOUS
    <3>4. \A i \in 1 .. m : i >= 1 /\ i <= m
      OBVIOUS
    <3> QED BY <2>6, <3>1, <3>2, <3>3, <3>4
  <2>9. \A i \in 1 .. n : CanonicalizeScalar(s[q[i]]) = CanonicalizeScalar(t[r[i]])
    BY <2>4, <2>8
  <2> DEFINE cs == [i \in 1 .. n |-> CanonicalizeScalar(s[i])]
             ct == [i \in 1 .. n |-> CanonicalizeScalar(t[i])]
  <2> HIDE DEF n, m
  <2>10. \A i \in 1 .. n : q[i] \in 1 .. n /\ r[i] \in 1 .. n
    BY <2>4, <2>8 DEF Bijection, Injection
  <2>11. \A i \in 1 .. n : cs[q[i]] = ct[r[i]]
    BY <2>9, <2>10
  <2>12. \A i \in 1 .. n : cs[i] = CanonicalizeScalar(s[i]) /\ ct[i] = CanonicalizeScalar(t[i])
    OBVIOUS
  <2> HIDE DEF c, d, cs, ct
  <2>13. \E p \in Bijection(1 .. n, 1 .. n) : (free \/ \A i \in 1 .. n : p[i] = i) /\ \A i \in 1 .. n : cs[i] = ct[p[i]]
    <3>1. CASE free
      <4>1. q \in Bijection(1 .. n, 1 .. n) /\ r \in Bijection(1 .. n, 1 .. n) /\ Twins(cs, q, ct, r, n)
        BY <2>4, <2>8, <2>11 DEF Twins
      <4>2. \E p \in Bijection(1 .. n, 1 .. n) : Matches(cs, ct, p, n)
        BY <2>6, <4>1, Arrangement
      <4> QED BY <3>1, <4>2 DEF Matches
    <3>2. CASE ~free
      <4>1. \A i \in 1 .. n : cs[i] = ct[q[i]]
        BY <2>5, <2>8, <2>11, <3>2
      <4> QED BY <2>4, <2>5, <3>2, <4>1
    <3> QED BY <3>1, <3>2
  <2>14. PICK p \in Bijection(1 .. n, 1 .. n) : (free \/ \A i \in 1 .. n : p[i] = i) /\ \A i \in 1 .. n : cs[i] = ct[p[i]]
    BY <2>13
  <2>15. \A i \in 1 .. n : Close(s[i], t[p[i]])
    <3> SUFFICES ASSUME NEW i \in 1 .. n PROVE Close(s[i], t[p[i]])
      OBVIOUS
    <3>1. p[i] \in 1 .. n
      BY <2>14 DEF Bijection, Injection
    <3>2. s[i] \in NumericScalar /\ t[p[i]] \in NumericScalar
      BY <2>6, <2>8, <3>1
    <3>3. CanonicalizeScalar(s[i]) = CanonicalizeScalar(t[p[i]])
      BY <2>12, <2>14, <3>1
    <3> QED BY <3>2, <3>3, ScalarsClose
  <2>16. Correspond(s, t, free, Close)
    BY <2>6, <2>8, <2>14, <2>15 DEF Correspond, n, m
  <2> QED BY <2>1, <2>16 DEF CloseCell, s, t
<1>3. ASSUME NEW v \in NumericValue, NEW w \in NumericValue, v \in NumericScalar, w \notin NumericScalar
      PROVE  Cell(v, free) # Cell(w, free)
  <2>1. Cell(v, free)[1] # "list"
    BY <1>3, CellsOf
  <2>2. PICK q : Arranged(w, free, q)
    BY <1>3, CellsOf
  <2>3. Cell(w, free)[1] = "list"
    BY <2>2 DEF Arranged
  <2> QED BY <2>1, <2>3
<1> QED BY <1>1, <1>2, <1>3

TextOrder == {e \in CanonicalScalar \X CanonicalScalar : TextBefore(e[1], e[2])}

\* _sort_key orders the elements of an array strictly and totally.
LEMMA TextsAreOrdered ==
  /\ \A x, y \in CanonicalScalar : <<x, y>> \in TextOrder <=> TextBefore(x, y)
  /\ Orders(TextOrder, CanonicalScalar)
<1>1. \A x, y \in CanonicalScalar : <<x, y>> \in TextOrder <=> TextBefore(x, y)
  BY DEF TextOrder
<1>2. \A x \in CanonicalScalar : TextOf[x] \in Int
  BY EquivalenceAssumption DEF CanonicalScalar
<1> QED BY <1>1, <1>2, TokensDiffer DEF Orders, TextBefore

\* Equal values have one cell: there is one way to sort a set-valued array.
LEMMA CellsEqual ==
  ASSUME NEW x \in NumericValue, NEW y \in NumericValue, NEW free \in BOOLEAN, EqualCell(x, y, free)
  PROVE  Cell(x, free) = Cell(y, free)
<1>1. CASE x \in NumericScalar \/ y \in NumericScalar
  <2>1. ASSUME NEW v \in NumericValue PROVE v \in NumericScalar <=> v[1] # "list"
    BY CellsOf
  <2>2. x \in NumericScalar /\ y \in NumericScalar /\ Equal(x, y)
    BY <1>1, <2>1 DEF EqualCell
  <2>3. Cell(x, free) = CanonicalizeScalar(x) /\ Cell(y, free) = CanonicalizeScalar(y)
    BY <2>2, CellsOf
  <2> QED BY <2>2, <2>3, ScalarsEqual
<1>2. CASE x \notin NumericScalar /\ y \notin NumericScalar
  <2> DEFINE s == x[2]
             t == y[2]
             n == Len(s)
  <2>1. x[1] = "list" /\ y[1] = "list" /\ s \in Seq(NumericScalar) /\ t \in Seq(NumericScalar)
    BY <1>2, CellsOf
  <2>2. Correspond(s, t, free, Equal)
    BY <1>2, <2>1 DEF EqualCell
  <2>3. PICK q : Arranged(x, free, q)
    BY <1>2, CellsOf
  <2>4. PICK r : Arranged(y, free, r)
    BY <1>2, CellsOf
  <2> HIDE DEF s, t
  <2>5. n \in Nat /\ DOMAIN s = 1 .. n /\ Len(t) = n /\ DOMAIN t = 1 .. n
    BY <2>1, <2>2 DEF Correspond
  <2> HIDE DEF n
  <2> DEFINE cs == [i \in 1 .. n |-> CanonicalizeScalar(s[i])]
             ct == [i \in 1 .. n |-> CanonicalizeScalar(t[i])]
             c == [i \in 1 .. n |-> CanonicalizeScalar(s[q[i]])]
             d == [i \in 1 .. n |-> CanonicalizeScalar(t[r[i]])]
  <2>6. q \in Bijection(1 .. n, 1 .. n) /\ r \in Bijection(1 .. n, 1 .. n)
    BY <2>3, <2>4, <2>5 DEF Arranged, n, s, t
  <2>7. Cell(x, free) = <<"list", c>> /\ Cell(y, free) = <<"list", d>>
    BY <2>3, <2>4, <2>5 DEF Arranged, n, s, t
  <2>8. PICK p \in Bijection(1 .. n, 1 .. n) :
           /\ free \/ \A i \in 1 .. n : p[i] = i
           /\ \A i \in 1 .. n : Equal(s[i], t[p[i]])
    BY <2>2, <2>5 DEF Correspond
  <2>9. \A i \in 1 .. n : q[i] \in 1 .. n /\ r[i] \in 1 .. n /\ p[i] \in 1 .. n
    BY <2>6, <2>8 DEF Bijection, Injection
  <2>10. \A i \in 1 .. n : s[i] \in NumericScalar /\ t[i] \in NumericScalar
    BY <2>1, <2>5
  <2>11. \A i \in 1 .. n : cs[i] = ct[p[i]]
    <3> SUFFICES ASSUME NEW i \in 1 .. n PROVE cs[i] = ct[p[i]]
      OBVIOUS
    <3>1. s[i] \in NumericScalar /\ t[p[i]] \in NumericScalar /\ Equal(s[i], t[p[i]])
      BY <2>8, <2>9, <2>10
    <3>2. CanonicalizeScalar(s[i]) = CanonicalizeScalar(t[p[i]])
      BY <3>1, ScalarsEqual
    <3> QED BY <2>9, <3>2
  <2>12. \A i \in 1 .. n : c[i] = cs[q[i]] /\ d[i] = ct[r[i]]
    BY <2>9
  <2>13. \A i \in 1 .. n : cs[i] \in CanonicalScalar /\ ct[i] \in CanonicalScalar
    BY <2>10, ScalarForms
  <2>14. c \in [1 .. n -> CanonicalScalar] /\ d \in [1 .. n -> CanonicalScalar]
    <3>1. c = [i \in 1 .. n |-> cs[q[i]]] /\ d = [i \in 1 .. n |-> ct[r[i]]]
      BY <2>9
    <3> HIDE DEF c, d, cs, ct
    <3> QED BY <2>9, <2>13, <3>1
  <2>15. CASE free
    <3>1. /\ \A i, j \in 1 .. n : i < j => ~TextBefore(c[j], c[i])
          /\ \A i, j \in 1 .. n : i < j => ~TextBefore(d[j], d[i])
      BY <2>3, <2>4, <2>5, <2>15 DEF Arranged, n, s, t
    <3> HIDE DEF c, d, cs, ct
    <3>2. \A i \in 1 .. n : c[i] \in CanonicalScalar /\ d[i] \in CanonicalScalar
      BY <2>14
    <3>3. InOrder(c, n, TextOrder) /\ InOrder(d, n, TextOrder)
      BY <3>1, <3>2, TextsAreOrdered DEF InOrder
    <3>4. PICK g \in Bijection(1 .. n, 1 .. n) : \A k \in 1 .. n : ct[r[g[k]]] = cs[q[k]]
      <4>1. Matches(cs, ct, p, n)
        BY <2>11 DEF Matches
      <4>2. \E g \in Bijection(1 .. n, 1 .. n) : Rearranges(g, cs, q, ct, r, n)
        BY <2>5, <2>6, <2>8, <4>1, Rearrangement
      <4> QED BY <4>2 DEF Rearranges
    <3>5. \A k \in 1 .. n : d[g[k]] = c[k]
      <4>1. \A k \in 1 .. n : g[k] \in 1 .. n
        BY <3>4 DEF Bijection, Injection
      <4> QED BY <2>12, <3>4, <4>1
    <3>6. c = d
      <4>1. Matches(c, d, g, n)
        BY <3>5 DEF Matches
      <4> QED BY <2>5, <2>14, <3>3, <3>4, <4>1, SortedOnce, TextsAreOrdered
    <3> QED BY <2>7, <3>6
  <2>16. CASE ~free
    <3>1. \A i, j \in 1 .. n : q[i] = i /\ r[i] = i
      BY <2>3, <2>4, <2>5, <2>16 DEF Arranged, n, s, t
    <3>2. \A i \in 1 .. n : p[i] = i
      BY <2>8, <2>16
    <3>3. \A i \in 1 .. n : c[i] = d[i]
      <4> HIDE DEF c, d, cs, ct
      <4> QED BY <2>11, <2>12, <3>1, <3>2
    <3>4. c = d
      BY <3>3
    <3> HIDE DEF c, d
    <3> QED BY <2>7, <3>4
  <2> QED BY <2>15, <2>16
<1> QED BY <1>1, <1>2
CloseRow(r, s, setPaths) == DOMAIN r = DOMAIN s /\ \A k \in DOMAIN r : CloseCell(r[k], s[k], k \in setPaths)
EqualRow(r, s, setPaths) == DOMAIN r = DOMAIN s /\ \A k \in DOMAIN r : EqualCell(r[k], s[k], k \in setPaths)

\* What canonicalize_row makes of a row.
LEMMA RowsOf ==
  ASSUME NEW r \in NumericRow, NEW setPaths
  PROVE  /\ DOMAIN r \subseteq Range(Fields) /\ \A k \in DOMAIN r : r[k] \in NumericValue
         /\ CanonicalizeRow(r, setPaths) = [k \in DOMAIN r |-> Cell(r[k], k \in setPaths)]
         /\ CanonicalizeRow(r, setPaths) \in CanonicalRow
<1>1. DOMAIN r \subseteq Range(Fields) /\ \A k \in DOMAIN r : r[k] \in NumericValue
  BY DEF NumericRow
<1>2. CanonicalizeRow(r, setPaths) = [k \in DOMAIN r |-> Cell(r[k], k \in setPaths)]
  BY DEF CanonicalizeRow, Cell
<1>3. ASSUME NEW k \in DOMAIN r PROVE Cell(r[k], k \in setPaths) \in CanonicalValue
  <2>1. \A free \in BOOLEAN : Cell(r[k], free) \in CanonicalValue
    BY <1>1, CellsOf
  <2>2. (k \in setPaths) \in BOOLEAN
    OBVIOUS
  <2> QED BY <2>1, <2>2
<1>4. CanonicalizeRow(r, setPaths) \in [DOMAIN r -> CanonicalValue]
  BY <1>2, <1>3
<1>5. CanonicalizeRow(r, setPaths) \in CanonicalRow
  BY <1>1, <1>4 DEF CanonicalRow
<1> QED BY <1>1, <1>2, <1>5

\* Rows with one canonical form are close.
LEMMA RowsClose ==
  ASSUME NEW r \in NumericRow, NEW s \in NumericRow, NEW setPaths,
         CanonicalizeRow(r, setPaths) = CanonicalizeRow(s, setPaths)
  PROVE  CloseRow(r, s, setPaths)
<1>1. CanonicalizeRow(r, setPaths) = [k \in DOMAIN r |-> Cell(r[k], k \in setPaths)]
  BY RowsOf
<1>2. CanonicalizeRow(s, setPaths) = [k \in DOMAIN s |-> Cell(s[k], k \in setPaths)]
  BY RowsOf
<1>3. DOMAIN r = DOMAIN s
  BY <1>1, <1>2
<1>4. ASSUME NEW k \in DOMAIN r PROVE CloseCell(r[k], s[k], k \in setPaths)
  <2>1. Cell(r[k], k \in setPaths) = Cell(s[k], k \in setPaths)
    BY <1>1, <1>2, <1>3
  <2>2. r[k] \in NumericValue /\ s[k] \in NumericValue
    BY <1>3, RowsOf
  <2>3. \A free \in BOOLEAN : Cell(r[k], free) = Cell(s[k], free) => CloseCell(r[k], s[k], free)
    BY <2>2, CellsClose
  <2>4. (k \in setPaths) \in BOOLEAN
    OBVIOUS
  <2> QED BY <2>1, <2>3, <2>4
<1> QED BY <1>3, <1>4 DEF CloseRow

\* Equal rows have one canonical form.
LEMMA RowsEqual ==
  ASSUME NEW r \in NumericRow, NEW s \in NumericRow, NEW setPaths, EqualRow(r, s, setPaths)
  PROVE  CanonicalizeRow(r, setPaths) = CanonicalizeRow(s, setPaths)
<1>1. DOMAIN r = DOMAIN s
  BY DEF EqualRow
<1>2. ASSUME NEW k \in DOMAIN r PROVE Cell(r[k], k \in setPaths) = Cell(s[k], k \in setPaths)
  <2>1. EqualCell(r[k], s[k], k \in setPaths)
    BY DEF EqualRow
  <2>2. r[k] \in NumericValue /\ s[k] \in NumericValue
    BY <1>1, RowsOf
  <2>3. \A free \in BOOLEAN : EqualCell(r[k], s[k], free) => Cell(r[k], free) = Cell(s[k], free)
    BY <2>2, CellsEqual
  <2>4. (k \in setPaths) \in BOOLEAN
    OBVIOUS
  <2> QED BY <2>1, <2>3, <2>4
<1>3. CanonicalizeRow(r, setPaths) = [k \in DOMAIN r |-> Cell(r[k], k \in setPaths)]
  BY RowsOf
<1>4. CanonicalizeRow(s, setPaths) = [k \in DOMAIN s |-> Cell(s[k], k \in setPaths)]
  BY RowsOf
<1> QED BY <1>1, <1>2, <1>3, <1>4

-------------------------------------------------------------------------------
(* Result sets.                                                              *)

\* Rows without NaN, on either side of a call.
Sides(c) == {c.mongo, c.oracle}

\* The rows of a call that raises nothing are numeric.
LEMMA RowsWithoutNan ==
  ASSUME NEW c \in Cases, NEW rows \in Sides(c), ~HasNan(rows)
  PROVE  Len(rows) \in Nat /\ rows \in [1 .. Len(rows) -> NumericRow] /\ DOMAIN rows = 1 .. Len(rows)
<1>1. /\ rows = [i \in 1 .. Len(rows) |-> rows[i]] /\ Len(rows) \in Nat
      /\ \A i \in DOMAIN rows :
           /\ IsRow(rows[i])
           /\ \A v \in ScalarsOf(rows[i]) : v[1] # "nan" => CanonicalizeScalar(v) \in DOMAIN TextOf
  BY EquivalenceAssumption DEF Sides
<1>2. ASSUME NEW i \in DOMAIN rows PROVE rows[i] \in NumericRow
  <2> DEFINE r == rows[i]
  <2>1. DOMAIN r \subseteq Range(Fields) /\ r \in [DOMAIN r -> Value]
    BY <1>1 DEF IsRow
  <2>2. \A v \in ScalarsOf(r) : v[1] # "nan" => CanonicalizeScalar(v) \in DOMAIN TextOf
    BY <1>1
  <2>3. \A k \in DOMAIN r : ~IsNan(r[k])
    BY DEF HasNan
  <2> HIDE DEF r
  <2>4. ASSUME NEW k \in DOMAIN r PROVE r[k] \in NumericValue
    <3> DEFINE v == r[k]
    <3>1. v \in Value /\ v[1] # "nan" /\ (v[1] = "list" => \A j \in DOMAIN v[2] : v[2][j][1] # "nan")
      BY <2>1, <2>3 DEF IsNan
    <3>2. \A e \in (IF v[1] = "list" THEN Range(v[2]) ELSE {v}) : e \in ScalarsOf(r)
      BY DEF ScalarsOf
    <3> HIDE DEF v
    <3>3. CASE v \in Scalar
      <4>1. v[1] # "list"
        BY <3>3 DEF Scalar
      <4>2. v \in NumericScalar
        BY <2>2, <3>1, <3>2, <3>3, <4>1 DEF NumericScalar
      <4> QED BY <4>2 DEF NumericValue, v
    <3>4. CASE v \in {"list"} \X Seq(Scalar)
      <4> DEFINE s == v[2]
                 n == Len(s)
      <4>1. v[1] = "list" /\ s \in Seq(Scalar) /\ v = <<"list", s>>
        BY <3>4
      <4> HIDE DEF s
      <4>2. n \in Nat /\ DOMAIN s = 1 .. n /\ s = [j \in 1 .. n |-> s[j]] /\ \A j \in 1 .. n : s[j] \in Scalar
        BY <4>1
      <4> HIDE DEF n
      <4>3. ASSUME NEW j \in 1 .. n PROVE s[j] \in NumericScalar
        <5>1. s[j] \in Range(s)
          BY <4>2 DEF Range
        <5>2. s[j] \in ScalarsOf(r) /\ s[j][1] # "nan"
          BY <3>1, <3>2, <4>1, <4>2, <5>1 DEF s
        <5> QED BY <2>2, <4>2, <5>2 DEF NumericScalar
      <4>4. s \in Seq(NumericScalar)
        BY <4>2, <4>3
      <4> QED BY <4>1, <4>4 DEF NumericValue, v
    <3> QED BY <3>1, <3>3, <3>4 DEF Value
  <2>5. r \in [DOMAIN r -> NumericValue]
    BY <2>1, <2>4
  <2>6. r \in NumericRow
    BY <2>1, <2>5 DEF NumericRow
  <2> QED BY <2>6 DEF r
<1>3. DOMAIN rows = 1 .. Len(rows)
  BY <1>1
<1> QED BY <1>1, <1>2, <1>3

\* The rows hashing walks: all canonical rows, in an arrangement.
Canonical(rows, setPaths) == [i \in DOMAIN rows |-> CanonicalizeRow(rows[i], setPaths)]
Walks(q, rows, setPaths, sortRows) ==
  LET n == Len(rows)
      c == Canonical(rows, setPaths)
  IN  /\ q \in Bijection(1 .. n, 1 .. n)
      /\ CanonicalRows(rows, setPaths, sortRows) = [i \in 1 .. n |-> c[q[i]]]
      /\ IF sortRows THEN \A i, j \in 1 .. n : i < j => ~RowBefore(c[q[j]], c[q[i]])
         ELSE \A i \in 1 .. n : q[i] = i

\* Hashing walks every canonical row once, in order if rows are sorted.
LEMMA CanonicalRowsOf ==
  ASSUME NEW c \in Cases, NEW rows \in Sides(c), ~HasNan(rows)
  PROVE  /\ Canonical(rows, c.setPaths) \in [1 .. Len(rows) -> CanonicalRow]
         /\ \E q : Walks(q, rows, c.setPaths, c.sortRows)
<1> DEFINE n == Len(rows)
           d == Canonical(rows, c.setPaths)
<1>1. n \in Nat /\ rows \in [1 .. n -> NumericRow] /\ DOMAIN rows = 1 .. n
  BY RowsWithoutNan
<1>2. c.sortRows \in BOOLEAN
  BY EquivalenceAssumption
<1>3. \A r \in NumericRow : CanonicalizeRow(r, c.setPaths) \in CanonicalRow
  BY RowsOf
<1>4. d \in [1 .. n -> CanonicalRow]
  BY <1>1, <1>3 DEF Canonical
<1>5. CanonicalRows(rows, c.setPaths, c.sortRows) = IF c.sortRows THEN Sorted(d, RowBefore) ELSE d
  BY DEF CanonicalRows, Canonical
<1> HIDE DEF n, d
<1>6. CASE c.sortRows
  <2>1. PICK q : ArrangesRows(q, d, n) /\ Sorted(d, RowBefore) = [i \in 1 .. n |-> d[q[i]]]
    BY <1>1, <1>4, SortedRows
  <2>2. Walks(q, rows, c.setPaths, c.sortRows)
    BY <1>5, <1>6, <2>1 DEF Walks, ArrangesRows, n, d
  <2> QED BY <1>4, <2>2 DEF n, d
<1>7. CASE ~c.sortRows
  <2> DEFINE q == [i \in 1 .. n |-> i]
  <2>1. q \in Bijection(1 .. n, 1 .. n) /\ \A i \in 1 .. n : q[i] = i
    BY DEF Bijection, Injection, Surjection, IsInjective
  <2> HIDE DEF q
  <2>2. d = [i \in 1 .. n |-> d[q[i]]]
    BY <1>4, <2>1
  <2>3. Walks(q, rows, c.setPaths, c.sortRows)
    <3>1. CanonicalRows(rows, c.setPaths, c.sortRows) = [i \in 1 .. n |-> d[q[i]]]
      BY <1>5, <1>7, <2>2
    <3> QED BY <1>7, <2>1, <3>1 DEF Walks, n, d
  <2> QED BY <1>4, <2>3 DEF n, d
<1> QED BY <1>2, <1>6, <1>7
\* The rows of both engines correspond, one to one.
Paired(c, Same(_, _, _)) ==
  LET n == Len(c.mongo)
  IN  /\ Len(c.mongo) = Len(c.oracle)
      /\ \E p \in Bijection(1 .. n, 1 .. n) :
           /\ c.sortRows \/ \A i \in 1 .. n : p[i] = i
           /\ \A i \in 1 .. n : Same(c.mongo[i], c.oracle[p[i]], c.setPaths)

\* What the properties say of two results, row by row.
LEMMA SameResultIsPaired ==
  ASSUME NEW c, DOMAIN c.mongo = 1 .. Len(c.mongo)
  PROVE  /\ SameResult(c, Close) <=> Paired(c, CloseRow)
         /\ SameResult(c, Equal) <=> Paired(c, EqualRow)
<1>1. SameResult(c, Close) <=> Paired(c, CloseRow)
  BY DEF SameResult, Correspond, SameRow, Paired, CloseRow, CloseCell
<1>2. SameResult(c, Equal) <=> Paired(c, EqualRow)
  BY DEF SameResult, Correspond, SameRow, Paired, EqualRow, EqualCell
<1> QED BY <1>1, <1>2

\* A sequence has one length.
LEMMA SameLengths ==
  ASSUME NEW m \in Nat, NEW n \in Nat, 1 .. m = 1 .. n
  PROVE  m = n
<1>1. (m = 0 \/ m \in 1 .. m) /\ (n = 0 \/ n \in 1 .. n)
  OBVIOUS
<1>2. \A i \in 1 .. m : i >= 1 /\ i <= m
  OBVIOUS
<1>3. \A i \in 1 .. n : i >= 1 /\ i <= n
  OBVIOUS
<1> QED BY <1>1, <1>2, <1>3

Walk(c, rows) == CanonicalRows(rows, c.setPaths, c.sortRows)

\* Equal hashes: the rows are close, one to one.
LEMMA MatchMeansClose ==
  ASSUME NEW c \in Cases, ~HasNan(c.mongo), ~HasNan(c.oracle), Walk(c, c.mongo) = Walk(c, c.oracle)
  PROVE  SameResult(c, Close)
<1> DEFINE m == c.mongo
           o == c.oracle
           n == Len(m)
           k == Len(o)
           cm == Canonical(m, c.setPaths)
           co == Canonical(o, c.setPaths)
<1>1. n \in Nat /\ m \in [1 .. n -> NumericRow] /\ DOMAIN m = 1 .. n
  BY RowsWithoutNan DEF Sides
<1>2. k \in Nat /\ o \in [1 .. k -> NumericRow] /\ DOMAIN o = 1 .. k
  BY RowsWithoutNan DEF Sides
<1>3. PICK q : Walks(q, m, c.setPaths, c.sortRows)
  BY CanonicalRowsOf DEF Sides
<1>4. PICK r : Walks(r, o, c.setPaths, c.sortRows)
  BY CanonicalRowsOf DEF Sides
<1>5. q \in Bijection(1 .. n, 1 .. n) /\ r \in Bijection(1 .. k, 1 .. k)
      /\ [i \in 1 .. n |-> cm[q[i]]] = [i \in 1 .. k |-> co[r[i]]]
  <2>1. q \in Bijection(1 .. n, 1 .. n) /\ Walk(c, m) = [i \in 1 .. n |-> cm[q[i]]]
    BY <1>3 DEF Walks, Walk
  <2>2. r \in Bijection(1 .. k, 1 .. k) /\ Walk(c, o) = [i \in 1 .. k |-> co[r[i]]]
    BY <1>4 DEF Walks, Walk
  <2> QED BY <2>1, <2>2
<1>6. c.sortRows \/ ((\A i \in 1 .. n : q[i] = i) /\ (\A i \in 1 .. k : r[i] = i))
  <2>1. CASE ~c.sortRows
    BY <1>3, <1>4, <2>1 DEF Walks
  <2> QED BY <2>1
<1>7. \A i \in 1 .. n : cm[i] = CanonicalizeRow(m[i], c.setPaths)
  BY <1>1 DEF Canonical
<1>8. \A i \in 1 .. k : co[i] = CanonicalizeRow(o[i], c.setPaths)
  BY <1>2 DEF Canonical
<1> HIDE DEF cm, co
<1>9. n = k
  <2> HIDE DEF n, k
  <2>1. DOMAIN [i \in 1 .. n |-> cm[q[i]]] = 1 .. n /\ DOMAIN [i \in 1 .. k |-> co[r[i]]] = 1 .. k
    OBVIOUS
  <2>2. 1 .. n = 1 .. k
    BY <1>5, <2>1
  <2> QED BY <1>1, <1>2, <2>2, SameLengths
<1>10. Twins(cm, q, co, r, n)
  <2> HIDE DEF n, k
  <2> QED BY <1>5, <1>9 DEF Twins
<1> HIDE DEF n, k
<1>11. PICK p \in Bijection(1 .. n, 1 .. n) : (c.sortRows \/ \A i \in 1 .. n : p[i] = i) /\ Matches(cm, co, p, n)
  <2>1. q \in Bijection(1 .. n, 1 .. n) /\ r \in Bijection(1 .. n, 1 .. n)
    BY <1>5, <1>9
  <2>2. CASE c.sortRows
    <3>1. \E p \in Bijection(1 .. n, 1 .. n) : Matches(cm, co, p, n)
      BY <1>1, <1>10, <2>1, Arrangement
    <3> QED BY <2>2, <3>1
  <2>3. CASE ~c.sortRows
    <3>1. Matches(cm, co, q, n)
      BY <1>6, <1>9, <1>10, <2>3 DEF Twins, Matches
    <3> QED BY <1>6, <2>1, <2>3, <3>1
  <2> QED BY <2>2, <2>3
<1>12. \A i \in 1 .. n : CloseRow(m[i], o[p[i]], c.setPaths)
  <2> SUFFICES ASSUME NEW i \in 1 .. n PROVE CloseRow(m[i], o[p[i]], c.setPaths)
    OBVIOUS
  <2>1. p[i] \in 1 .. n
    BY <1>11 DEF Bijection, Injection
  <2>2. m[i] \in NumericRow /\ o[p[i]] \in NumericRow
    BY <1>1, <1>2, <1>9, <2>1
  <2>3. CanonicalizeRow(m[i], c.setPaths) = CanonicalizeRow(o[p[i]], c.setPaths)
    BY <1>7, <1>8, <1>9, <1>11, <2>1 DEF Matches
  <2> QED BY <2>2, <2>3, RowsClose
<1>13. Paired(c, CloseRow)
  BY <1>9, <1>11, <1>12 DEF Paired, n, k
<1> QED BY <1>1, <1>13, SameResultIsPaired DEF n

RowOrdering == {e \in CanonicalRow \X CanonicalRow : RowBefore(e[1], e[2])}

\* The order of rows, as a set of pairs.
LEMMA RowsAreOrdered ==
  /\ \A x, y \in CanonicalRow : <<x, y>> \in RowOrdering <=> RowBefore(x, y)
  /\ Orders(RowOrdering, CanonicalRow)
<1>1. \A x, y \in CanonicalRow : <<x, y>> \in RowOrdering <=> RowBefore(x, y)
  BY DEF RowOrdering
<1> QED BY <1>1, RowOrder DEF Orders

\* Equal rows, one to one: the hashes are equal.
LEMMA EqualMeansMatch ==
  ASSUME NEW c \in Cases, ~HasNan(c.mongo), ~HasNan(c.oracle), SameResult(c, Equal)
  PROVE  Walk(c, c.mongo) = Walk(c, c.oracle)
<1> DEFINE m == c.mongo
           o == c.oracle
           n == Len(m)
           cm == Canonical(m, c.setPaths)
           co == Canonical(o, c.setPaths)
<1>1. n \in Nat /\ m \in [1 .. n -> NumericRow] /\ DOMAIN m = 1 .. n
  BY RowsWithoutNan DEF Sides
<1>2. Paired(c, EqualRow)
  BY <1>1, SameResultIsPaired
<1>3. Len(o) = n
  BY <1>2 DEF Paired
<1>4. o \in [1 .. n -> NumericRow] /\ DOMAIN o = 1 .. n
  BY <1>3, RowsWithoutNan DEF Sides
<1>5. PICK p \in Bijection(1 .. n, 1 .. n) :
         /\ c.sortRows \/ \A i \in 1 .. n : p[i] = i
         /\ \A i \in 1 .. n : EqualRow(m[i], o[p[i]], c.setPaths)
  BY <1>2 DEF Paired
<1>6. PICK q : Walks(q, m, c.setPaths, c.sortRows)
  BY CanonicalRowsOf DEF Sides
<1>7. PICK r : Walks(r, o, c.setPaths, c.sortRows)
  BY CanonicalRowsOf DEF Sides
<1> DEFINE s == [i \in 1 .. n |-> cm[q[i]]]
           t == [i \in 1 .. n |-> co[r[i]]]
<1>8. q \in Bijection(1 .. n, 1 .. n) /\ Walk(c, m) = s
  BY <1>6 DEF Walks, Walk
<1>9. r \in Bijection(1 .. n, 1 .. n) /\ Walk(c, o) = t
  BY <1>3, <1>7 DEF Walks, Walk
<1>10. \A i \in 1 .. n : q[i] \in 1 .. n /\ r[i] \in 1 .. n /\ p[i] \in 1 .. n
  BY <1>5, <1>8, <1>9 DEF Bijection, Injection
<1>11. \A i \in 1 .. n : cm[i] = CanonicalizeRow(m[i], c.setPaths) /\ co[i] = CanonicalizeRow(o[i], c.setPaths)
  BY <1>1, <1>4 DEF Canonical
<1>12. cm \in [1 .. n -> CanonicalRow] /\ co \in [1 .. n -> CanonicalRow]
  BY <1>3, CanonicalRowsOf DEF Sides
<1>13. c.sortRows => /\ \A i, j \in 1 .. n : i < j => ~RowBefore(s[j], s[i])
                     /\ \A i, j \in 1 .. n : i < j => ~RowBefore(t[j], t[i])
  BY <1>3, <1>6, <1>7 DEF Walks
<1>14. ~c.sortRows => \A i \in 1 .. n : q[i] = i /\ r[i] = i
  BY <1>3, <1>6, <1>7 DEF Walks
<1> HIDE DEF n, cm, co, m, o
<1>15. Matches(cm, co, p, n)
  <2> SUFFICES ASSUME NEW i \in 1 .. n PROVE cm[i] = co[p[i]]
    BY DEF Matches
  <2>1. p[i] \in 1 .. n /\ m[i] \in NumericRow /\ o[p[i]] \in NumericRow
    BY <1>1, <1>4, <1>10
  <2>2. CanonicalizeRow(m[i], c.setPaths) = CanonicalizeRow(o[p[i]], c.setPaths)
    BY <1>5, <2>1, RowsEqual
  <2> QED BY <1>11, <2>1, <2>2
<1>16. s \in [1 .. n -> CanonicalRow] /\ t \in [1 .. n -> CanonicalRow]
  BY <1>10, <1>12
<1>17. \A i \in 1 .. n : s[i] = cm[q[i]] /\ t[i] = co[r[i]]
  OBVIOUS
<1> HIDE DEF s, t
<1>18. s = t
  <2>1. CASE c.sortRows
    <3>1. \A i \in 1 .. n : s[i] \in CanonicalRow /\ t[i] \in CanonicalRow
      BY <1>16
    <3>2. InOrder(s, n, RowOrdering) /\ InOrder(t, n, RowOrdering)
      BY <1>13, <2>1, <3>1, RowsAreOrdered DEF InOrder
    <3>3. PICK g \in Bijection(1 .. n, 1 .. n) : Rearranges(g, cm, q, co, r, n)
      BY <1>1, <1>5, <1>8, <1>9, <1>15, Rearrangement
    <3>4. Matches(s, t, g, n)
      <4> SUFFICES ASSUME NEW i \in 1 .. n PROVE s[i] = t[g[i]]
        BY DEF Matches
      <4>1. g[i] \in 1 .. n
        BY <3>3 DEF Bijection, Injection
      <4>2. s[i] = cm[q[i]] /\ t[g[i]] = co[r[g[i]]]
        BY <1>17, <4>1
      <4>3. co[r[g[i]]] = cm[q[i]]
        BY <3>3 DEF Rearranges
      <4> QED BY <4>2, <4>3
    <3> QED BY <1>1, <1>16, <3>2, <3>3, <3>4, SortedOnce, RowsAreOrdered
  <2>2. CASE ~c.sortRows
    <3>1. \A i \in 1 .. n : s[i] = t[i]
      BY <1>5, <1>14, <1>15, <1>17, <2>2 DEF Matches
    <3>2. s = [i \in 1 .. n |-> s[i]] /\ t = [i \in 1 .. n |-> t[i]]
      BY <1>16
    <3>3. [i \in 1 .. n |-> s[i]] = [i \in 1 .. n |-> t[i]]
      BY <3>1
    <3> QED BY <3>2, <3>3
  <2> QED BY <2>1, <2>2
<1> QED BY <1>8, <1>9, <1>18 DEF m, o

-------------------------------------------------------------------------------
(* Where the results differ first.                                           *)

\* Arranging positions keeps how many there are of a kind.
LEMMA CountArranged ==
  ASSUME NEW n \in Nat, NEW q \in Bijection(1 .. n, 1 .. n), NEW S \in SUBSET (1 .. n)
  PROVE  Cardinality({k \in 1 .. n : q[k] \in S}) = Cardinality(S)
<1> DEFINE T == {k \in 1 .. n : q[k] \in S}
           f == [k \in T |-> q[k]]
<1>1. /\ \A k \in 1 .. n : q[k] \in 1 .. n
      /\ \A j, k \in 1 .. n : q[j] = q[k] => j = k
      /\ \A k \in 1 .. n : \E j \in 1 .. n : q[j] = k
  BY DEF Bijection, Injection, Surjection, IsInjective
<1>2. f \in [T -> S] /\ \A j, k \in T : f[j] = f[k] => j = k
  BY <1>1
<1>3. \A x \in S : \E k \in T : f[k] = x
  BY <1>1
<1>4. T \in SUBSET (1 .. n) /\ IsFiniteSet(1 .. n)
  BY FS_Interval
<1>5. IsFiniteSet(T)
  BY <1>4, FS_Subset
<1> HIDE DEF f, T
<1>6. f \in Bijection(T, S)
  BY <1>2, <1>3, Fun_IsBij
<1>7. Cardinality(S) = Cardinality(T)
  BY <1>5, <1>6, FS_Bijection DEF ExistsBijection
<1> QED BY <1>7 DEF T

\* Two sequences in order that agree up to i, where the first has the smaller
\* element or goes on alone.
PartAt(i, s, m, t, k, R) ==
  /\ i \in 1 .. m
  /\ \A j \in 1 .. (i - 1) : j <= k /\ s[j] = t[j]
  /\ i <= k => <<s[i], t[i]>> \in R

Parted(i, s, m, t, k, V, R) ==
  LET v == s[i]
      sv == {x \in 1 .. m : s[x] = v}
      tv == {x \in 1 .. k : t[x] = v}
      sb == {x \in 1 .. m : <<s[x], v>> \in R}
      tb == {x \in 1 .. k : <<t[x], v>> \in R}
  IN  /\ v \in V
      /\ i \in sv /\ tv \subseteq sv \ {i}
      /\ \A w \in V : <<w, v>> \in R => {x \in 1 .. m : s[x] = w} = {x \in 1 .. k : t[x] = w}
      /\ sb = tb /\ tb \cup tv = 1 .. (i - 1) /\ tb \cap tv = {}

\* Both then have the same elements before that one, and they are all there is before i.
LEMMA Parting ==
  ASSUME NEW m \in Nat, NEW k \in Nat, NEW V, NEW R, Orders(R, V),
         NEW s \in [1 .. m -> V], NEW t \in [1 .. k -> V], InOrder(s, m, R), InOrder(t, k, R),
         NEW i, PartAt(i, s, m, t, k, R)
  PROVE  Parted(i, s, m, t, k, V, R)
<1> DEFINE v == s[i]
<1>1. i \in 1 .. m /\ i \in Nat /\ (\A j \in 1 .. (i - 1) : j <= k /\ s[j] = t[j]) /\ (i <= k => <<s[i], t[i]>> \in R)
  BY DEF PartAt
<1>2. v \in V /\ \A x \in 1 .. m : s[x] \in V
  BY <1>1
<1>3. \A x \in 1 .. k : t[x] \in V
  OBVIOUS
<1> HIDE DEF v
<1>4. ASSUME NEW x \in 1 .. m, i <= x PROVE <<s[x], v>> \notin R
  BY <1>1, <1>2, <1>4 DEF InOrder, Orders, v
<1>5. ASSUME NEW x \in 1 .. k, i <= x PROVE <<v, t[x]>> \in R
  <2>1. i \in 1 .. k /\ <<v, t[i]>> \in R
    BY <1>1, <1>5 DEF v
  <2>2. CASE x = i
    BY <2>1, <2>2
  <2>3. CASE i < x
    <3>1. <<t[x], t[i]>> \notin R
      BY <2>1, <2>3 DEF InOrder
    <3>2. t[x] = t[i] \/ <<t[i], t[x]>> \in R
      BY <1>3, <2>1, <3>1 DEF Orders
    <3>3. t[x] \in V /\ t[i] \in V
      BY <1>3, <2>1
    <3> QED BY <1>2, <2>1, <3>2, <3>3 DEF Orders
  <2> QED BY <1>1, <1>5, <2>2, <2>3
<1>6. ASSUME NEW x \in 1 .. k, i <= x PROVE t[x] # v /\ <<t[x], v>> \notin R
  BY <1>2, <1>3, <1>5, <1>6 DEF Orders
<1>7. \A x \in 1 .. m : x < i => x \in 1 .. (i - 1) /\ x \in 1 .. k /\ s[x] = t[x]
  BY <1>1
<1>8. \A x \in 1 .. k : x < i => x \in 1 .. (i - 1) /\ x \in 1 .. m /\ s[x] = t[x]
  BY <1>1
<1>9. \A x \in 1 .. m : x < i \/ i <= x
  BY <1>1
<1>10. \A x \in 1 .. k : x < i \/ i <= x
  BY <1>1
<1>11. \A x \in 1 .. (i - 1) : x \in 1 .. m /\ x \in 1 .. k /\ s[x] = t[x] /\ x # i
  BY <1>1
<1>12. ASSUME NEW x \in 1 .. (i - 1) PROVE t[x] = v \/ <<t[x], v>> \in R
  <2>1. x \in 1 .. m /\ x < i /\ s[x] = t[x]
    BY <1>1, <1>11
  <2>2. <<v, s[x]>> \notin R
    BY <1>1, <2>1 DEF InOrder, v
  <2> QED BY <1>2, <2>1, <2>2 DEF Orders
<1>13. i \in {x \in 1 .. m : s[x] = v}
  BY <1>1 DEF v
<1>14. {x \in 1 .. k : t[x] = v} \subseteq {x \in 1 .. m : s[x] = v} \ {i}
  BY <1>6, <1>8, <1>10, <1>11
<1>15. ASSUME NEW w \in V, <<w, v>> \in R
       PROVE  {x \in 1 .. m : s[x] = w} = {x \in 1 .. k : t[x] = w}
  <2>1. ASSUME NEW x \in 1 .. m, s[x] = w PROVE x \in 1 .. k /\ t[x] = w
    <3>1. ~(i <= x)
      BY <1>4, <1>15, <2>1
    <3> QED BY <1>7, <1>9, <2>1, <3>1
  <2>2. ASSUME NEW x \in 1 .. k, t[x] = w PROVE x \in 1 .. m /\ s[x] = w
    <3>1. ~(i <= x)
      BY <1>6, <1>15, <2>2
    <3> QED BY <1>8, <1>10, <2>2, <3>1
  <2> QED BY <2>1, <2>2
<1>16. {x \in 1 .. m : <<s[x], v>> \in R} = {x \in 1 .. k : <<t[x], v>> \in R}
  <2>1. ASSUME NEW x \in 1 .. m, <<s[x], v>> \in R PROVE x \in 1 .. k /\ <<t[x], v>> \in R
    BY <1>4, <1>7, <1>9, <2>1
  <2>2. ASSUME NEW x \in 1 .. k, <<t[x], v>> \in R PROVE x \in 1 .. m /\ <<s[x], v>> \in R
    BY <1>6, <1>8, <1>10, <2>2
  <2> QED BY <2>1, <2>2
<1>17. {x \in 1 .. k : <<t[x], v>> \in R} \cup {x \in 1 .. k : t[x] = v} = 1 .. (i - 1)
  <2>1. ASSUME NEW x \in 1 .. k, <<t[x], v>> \in R \/ t[x] = v PROVE x \in 1 .. (i - 1)
    BY <1>6, <1>8, <1>10, <2>1
  <2>2. \A x \in 1 .. (i - 1) : x \in 1 .. k /\ (<<t[x], v>> \in R \/ t[x] = v)
    BY <1>11, <1>12
  <2> QED BY <2>1, <2>2
<1>18. {x \in 1 .. k : <<t[x], v>> \in R} \cap {x \in 1 .. k : t[x] = v} = {}
  BY <1>2, <1>3 DEF Orders
<1> QED BY <1>2, <1>13, <1>14, <1>15, <1>16, <1>17, <1>18 DEF v, Parted

\* What _find_first_divergence returns of two walks m and o: the first place where
\* Python's == calls them different, and the first field it calls different there.
Pointed(d, m, o) ==
  /\ d.row \in Nat \ {0} /\ (d.row <= Len(m) \/ d.row <= Len(o))
  /\ \A k \in 1 .. (d.row - 1) : k <= Len(m) /\ k <= Len(o) /\ PyEqualRows(m[k], o[k])
  /\ ~(d.row <= Len(m) /\ d.row <= Len(o)) => d.field = NoField /\ Len(m) # Len(o)
  /\ d.row <= Len(m) /\ d.row <= Len(o) =>
       /\ ~PyEqualRows(m[d.row], o[d.row])
       /\ d.field # NoField => ~SameField(m[d.row], o[d.row], d.field)
       /\ \A f \in DOMAIN Fields : f < d.field \/ d.field = NoField => SameField(m[d.row], o[d.row], f)

LEMMA LocateSays ==
  ASSUME NEW m \in Seq(CanonicalRow), NEW o \in Seq(CanonicalRow)
  PROVE  \/ /\ Locate(m, o) = NoDivergence
            /\ Len(m) = Len(o) /\ \A k \in 1 .. Len(m) : PyEqualRows(m[k], o[k])
         \/ Locate(m, o) # NoDivergence /\ Pointed(Locate(m, o), m, o)
<1> DEFINE shorter == IF Len(m) < Len(o) THEN Len(m) ELSE Len(o)
           differ == {i \in 1 .. shorter : ~PyEqualRows(m[i], o[i])}
           first == CHOOSE i \in differ : \A j \in differ : i <= j
           wrong == {f \in DOMAIN Fields : ~PyEqual(Get(m[first], Fields[f]), Get(o[first], Fields[f]))}
           field == CHOOSE f \in wrong : \A g \in wrong : f <= g
<1>1. Locate(m, o) = CASE differ # {} /\ wrong # {} -> [row |-> first, field |-> field]
                      [] differ # {} /\ wrong = {} -> [row |-> first, field |-> NoField]
                      [] differ = {} /\ Len(m) # Len(o) -> [row |-> shorter + 1, field |-> NoField]
                      [] OTHER -> NoDivergence
  BY DEF Locate
<1>2. PICK a \in Nat : a = Len(m)
  OBVIOUS
<1>3. PICK b \in Nat : b = Len(o)
  OBVIOUS
<1>4. /\ shorter \in Nat /\ shorter <= a /\ shorter <= b /\ (shorter = a \/ shorter = b)
      /\ \A j \in Nat : j <= a /\ j <= b => j <= shorter
  BY <1>2, <1>3
<1>5. \A f \in wrong : f \in Nat \ {0}
  BY EquivalenceAssumption
<1>6. \A f \in DOMAIN Fields : f \in wrong <=> ~SameField(m[first], o[first], f)
  BY DEF SameField
<1>7. \A i \in 1 .. shorter : i \in differ <=> ~PyEqualRows(m[i], o[i])
  OBVIOUS
<1>8. differ \subseteq 1 .. shorter
  OBVIOUS
<1>9. wrong \subseteq DOMAIN Fields
  OBVIOUS
<1> HIDE DEF shorter, wrong
<1>10. CASE differ # {}
  <2>1. first \in differ /\ \A j \in differ : first <= j
    <3>1. differ \in SUBSET Nat
      BY <1>4, <1>8
    <3> HIDE DEF differ
    <3> QED BY <1>10, <3>1, LeastOfNaturals
  <2> HIDE DEF differ, first
  <2>2. first \in 1 .. shorter /\ first \in Nat \ {0} /\ first <= a /\ first <= b
    <3>1. first \in 1 .. shorter
      BY ONLY <1>8, <2>1
    <3> QED BY ONLY <1>4, <3>1
  <2>3. \A k \in 1 .. (first - 1) : k <= a /\ k <= b /\ k \in 1 .. shorter /\ ~(first <= k)
    BY ONLY <1>4, <2>2
  <2>4. \A k \in 1 .. (first - 1) : k <= a /\ k <= b /\ PyEqualRows(m[k], o[k])
    BY ONLY <1>7, <2>1, <2>3
  <2>5. ~PyEqualRows(m[first], o[first])
    BY ONLY <1>7, <2>1, <2>2
  <2>6. CASE wrong # {}
    <3>1. Locate(m, o) = [row |-> first, field |-> field]
      BY ONLY <1>1, <1>10, <2>6
    <3>2. field \in wrong /\ \A g \in wrong : field <= g
      <4>1. wrong \in SUBSET Nat
        BY <1>5
      <4> QED BY ONLY <2>6, <4>1, LeastOfNaturals
    <3> HIDE DEF field
    <3>3. field \in DOMAIN Fields /\ field \in Nat \ {0}
      BY ONLY <1>5, <1>9, <3>2
    <3>4. ~SameField(m[first], o[first], field)
      BY ONLY <1>6, <3>2, <3>3
    <3>5. ASSUME NEW f \in DOMAIN Fields, f < field PROVE SameField(m[first], o[first], f)
      <4>1. f \in Nat
        BY EquivalenceAssumption
      <4>2. ~(field <= f)
        BY ONLY <3>3, <3>5, <4>1
      <4> QED BY ONLY <1>6, <3>2, <3>5, <4>2
    <3> DEFINE d == Locate(m, o)
    <3>6. d.row = first /\ d.field = field /\ d # NoDivergence
      BY ONLY <2>2, <3>1 DEF NoDivergence
    <3> HIDE DEF d
    <3>7. Pointed(d, m, o)
      BY ONLY <1>2, <1>3, <2>2, <2>4, <2>5, <3>3, <3>4, <3>5, <3>6 DEF Pointed, NoField
    <3> QED BY ONLY <3>6, <3>7 DEF d
  <2>7. CASE wrong = {}
    <3>1. Locate(m, o) = [row |-> first, field |-> NoField]
      BY ONLY <1>1, <1>10, <2>7
    <3>2. \A f \in DOMAIN Fields : SameField(m[first], o[first], f)
      BY ONLY <1>6, <2>7
    <3> DEFINE d == Locate(m, o)
    <3>3. d.row = first /\ d.field = NoField /\ d # NoDivergence
      BY ONLY <2>2, <3>1 DEF NoDivergence
    <3> HIDE DEF d
    <3>4. Pointed(d, m, o)
      BY ONLY <1>2, <1>3, <2>2, <2>4, <2>5, <3>2, <3>3 DEF Pointed
    <3> QED BY ONLY <3>3, <3>4 DEF d
  <2> QED BY ONLY <2>6, <2>7
<1>11. CASE differ = {}
  <2>1. \A k \in 1 .. shorter : PyEqualRows(m[k], o[k])
    BY ONLY <1>7, <1>11
  <2> HIDE DEF differ
  <2>2. CASE a = b
    <3>1. Locate(m, o) = NoDivergence
      BY ONLY <1>1, <1>2, <1>3, <1>11, <2>2
    <3>2. shorter = a
      BY ONLY <1>4, <2>2
    <3> QED BY ONLY <1>2, <1>3, <2>1, <2>2, <3>1, <3>2
  <2>3. CASE a # b
    <3>1. Locate(m, o) = [row |-> shorter + 1, field |-> NoField]
      BY ONLY <1>1, <1>2, <1>3, <1>11, <2>3
    <3> DEFINE d == Locate(m, o)
               r == shorter + 1
    <3>2. /\ r \in Nat \ {0} /\ (r <= a \/ r <= b) /\ ~(r <= a /\ r <= b)
          /\ \A k \in 1 .. (r - 1) : k \in 1 .. shorter /\ k <= a /\ k <= b
      BY ONLY <1>4, <2>3
    <3> HIDE DEF r
    <3>3. d.row = r /\ d.field = NoField /\ d # NoDivergence
      BY ONLY <3>1, <3>2 DEF NoDivergence, r
    <3> HIDE DEF d
    <3>4. Pointed(d, m, o)
      BY ONLY <1>2, <1>3, <2>1, <2>3, <3>2, <3>3 DEF Pointed
    <3> QED BY ONLY <3>3, <3>4 DEF d
  <2> QED BY ONLY <2>2, <2>3
<1> QED BY <1>10, <1>11

\* _find_first_divergence, unless == confuses rows, stops where two different walks
\* first differ.
LEMMA LocatesFirst ==
  ASSUME NEW m \in Seq(CanonicalRow), NEW o \in Seq(CanonicalRow),
         \A i \in DOMAIN m : i \in DOMAIN o /\ PyEqualRows(m[i], o[i]) => m[i] = o[i],
         m # o
  PROVE  LET i == Locate(m, o).row
         IN  /\ i \in Nat \ {0} /\ (i <= Len(m) \/ i <= Len(o))
             /\ \A j \in 1 .. (i - 1) : j <= Len(m) /\ j <= Len(o) /\ m[j] = o[j]
             /\ i <= Len(m) /\ i <= Len(o) => m[i] # o[i]
<1>1. \A x : PyEqual(x, x)
  BY DEF PyEqual, PyEqualScalar
<1>2. \A r : PyEqualRows(r, r)
  BY <1>1 DEF PyEqualRows
<1>3. DOMAIN m = 1 .. Len(m) /\ DOMAIN o = 1 .. Len(o) /\ Len(m) \in Nat /\ Len(o) \in Nat
  OBVIOUS
<1>4. Pointed(Locate(m, o), m, o)
  <2> SUFFICES ASSUME Len(m) = Len(o), \A k \in 1 .. Len(m) : PyEqualRows(m[k], o[k]) PROVE FALSE
    BY LocateSays
  <2>1. \A k \in 1 .. Len(m) : m[k] = o[k]
    BY <1>3
  <2>2. m = o
    BY <2>1
  <2> QED BY <2>2
<1> DEFINE i == Locate(m, o).row
<1> HIDE DEF i
<1>5. /\ i \in Nat \ {0} /\ (i <= Len(m) \/ i <= Len(o))
      /\ \A k \in 1 .. (i - 1) : k <= Len(m) /\ k <= Len(o) /\ PyEqualRows(m[k], o[k])
      /\ i <= Len(m) /\ i <= Len(o) => ~PyEqualRows(m[i], o[i])
  BY ONLY <1>4 DEF Pointed, i
<1>6. ASSUME NEW j \in 1 .. (i - 1) PROVE j <= Len(m) /\ j <= Len(o) /\ m[j] = o[j]
  <2>1. j <= Len(m) /\ j <= Len(o) /\ PyEqualRows(m[j], o[j])
    BY ONLY <1>5, <1>6
  <2>2. j \in DOMAIN m /\ j \in DOMAIN o
    BY ONLY <1>3, <1>5, <2>1
  <2> QED BY <2>1, <2>2
<1>7. i <= Len(m) /\ i <= Len(o) => m[i] # o[i]
  BY ONLY <1>2, <1>5
<1> QED BY ONLY <1>5, <1>6, <1>7 DEF i

\* How often the canonical row r is among rows, and how many come before it.
Count(r, rows, setPaths) == Cardinality({i \in DOMAIN rows : CanonicalizeRow(rows[i], setPaths) = r})
Below(r, rows, setPaths) == Cardinality({i \in DOMAIN rows : RowBefore(CanonicalizeRow(rows[i], setPaths), r)})

\* The walk holds the canonical rows, each as often as it is there.
LEMMA WalkOf ==
  ASSUME NEW c \in Cases, NEW rows \in Sides(c), ~HasNan(rows)
  PROVE  LET n == Len(rows)
             s == Walk(c, rows)
         IN  /\ n \in Nat /\ s \in Seq(CanonicalRow) /\ s \in [1 .. n -> CanonicalRow] /\ Len(s) = n
             /\ c.sortRows => InOrder(s, n, RowOrdering)
             /\ \A x \in 1 .. n : \E i \in DOMAIN rows : s[x] = CanonicalizeRow(rows[i], c.setPaths)
             /\ \A i \in DOMAIN rows : CanonicalizeRow(rows[i], c.setPaths) \in CanonicalRow
             /\ \A r : Count(r, rows, c.setPaths) = Cardinality({x \in 1 .. n : s[x] = r})
             /\ \A r \in CanonicalRow :
                  Below(r, rows, c.setPaths) = Cardinality({x \in 1 .. n : <<s[x], r>> \in RowOrdering})
<1> DEFINE n == Len(rows)
           s == Walk(c, rows)
           d == Canonical(rows, c.setPaths)
<1>1. n \in Nat /\ DOMAIN rows = 1 .. n
  BY RowsWithoutNan
<1>2. d \in [1 .. n -> CanonicalRow] /\ \A i \in 1 .. n : d[i] = CanonicalizeRow(rows[i], c.setPaths)
  BY <1>1, CanonicalRowsOf DEF Canonical
<1>3. PICK q : Walks(q, rows, c.setPaths, c.sortRows)
  BY CanonicalRowsOf
<1>4. /\ q \in Bijection(1 .. n, 1 .. n) /\ s = [x \in 1 .. n |-> d[q[x]]]
      /\ c.sortRows => \A i, j \in 1 .. n : i < j => ~RowBefore(d[q[j]], d[q[i]])
  BY <1>3 DEF Walks, Walk
<1>5. \A x \in 1 .. n : q[x] \in 1 .. n
  BY <1>4 DEF Bijection, Injection
<1> HIDE DEF n, s, d
<1>6. \A x \in 1 .. n : s[x] = d[q[x]] /\ s[x] \in CanonicalRow
  BY <1>2, <1>4, <1>5
<1>7. s \in [1 .. n -> CanonicalRow]
  BY <1>2, <1>4, <1>5
<1>8. s \in Seq(CanonicalRow) /\ Len(s) = n
  BY <1>1, <1>7
<1>9. c.sortRows => InOrder(s, n, RowOrdering)
  BY <1>4, <1>6, RowsAreOrdered DEF InOrder
<1>10. \A x \in 1 .. n : \E i \in DOMAIN rows : s[x] = CanonicalizeRow(rows[i], c.setPaths)
  BY <1>1, <1>2, <1>5, <1>6
<1>11. ASSUME NEW r PROVE Count(r, rows, c.setPaths) = Cardinality({x \in 1 .. n : s[x] = r})
  <2> DEFINE S == {i \in 1 .. n : d[i] = r}
  <2>1. {i \in DOMAIN rows : CanonicalizeRow(rows[i], c.setPaths) = r} = S
    BY <1>1, <1>2
  <2>2. {x \in 1 .. n : s[x] = r} = {x \in 1 .. n : q[x] \in S}
    BY <1>5, <1>6
  <2>3. S \in SUBSET (1 .. n)
    OBVIOUS
  <2> HIDE DEF S
  <2>4. Cardinality({x \in 1 .. n : q[x] \in S}) = Cardinality(S)
    BY <1>1, <1>4, <2>3, CountArranged
  <2> QED BY <2>1, <2>2, <2>4 DEF Count
<1>12. ASSUME NEW r \in CanonicalRow
       PROVE  Below(r, rows, c.setPaths) = Cardinality({x \in 1 .. n : <<s[x], r>> \in RowOrdering})
  <2> DEFINE S == {i \in 1 .. n : RowBefore(d[i], r)}
  <2>1. {i \in DOMAIN rows : RowBefore(CanonicalizeRow(rows[i], c.setPaths), r)} = S
    BY <1>1, <1>2
  <2>2. {x \in 1 .. n : <<s[x], r>> \in RowOrdering} = {x \in 1 .. n : q[x] \in S}
    <3>1. \A x \in 1 .. n : <<s[x], r>> \in RowOrdering <=> RowBefore(s[x], r)
      BY <1>6, RowsAreOrdered
    <3> QED BY <1>5, <1>6, <3>1
  <2>3. S \in SUBSET (1 .. n)
    OBVIOUS
  <2> HIDE DEF S
  <2>4. Cardinality({x \in 1 .. n : q[x] \in S}) = Cardinality(S)
    BY <1>1, <1>4, <2>3, CountArranged
  <2> QED BY <2>1, <2>2, <2>4 DEF Below
<1>13. \A i \in DOMAIN rows : CanonicalizeRow(rows[i], c.setPaths) \in CanonicalRow
  BY <1>1, <1>2
<1> QED BY <1>1, <1>7, <1>8, <1>9, <1>10, <1>11, <1>12, <1>13 DEF n, s

\* Where the walks of x and y part and x has the smaller row, or the only one:
\* that row is the least of which x has more, and the walks were equal so far.
Leads(c, x, y, v, i) ==
  /\ \E j \in DOMAIN x : v = CanonicalizeRow(x[j], c.setPaths)
  /\ v \in CanonicalRow
  /\ Count(v, x, c.setPaths) \in Nat /\ Count(v, y, c.setPaths) \in Nat
  /\ Count(v, y, c.setPaths) < Count(v, x, c.setPaths)
  /\ \A w \in CanonicalRow : RowBefore(w, v) => Count(w, x, c.setPaths) = Count(w, y, c.setPaths)
  /\ Below(v, x, c.setPaths) = Below(v, y, c.setPaths) /\ Below(v, x, c.setPaths) \in Nat
  /\ i - 1 = Below(v, x, c.setPaths) + Count(v, y, c.setPaths)

\* Where the walks part, one side leads.
LEMMA Leading ==
  ASSUME NEW c \in Cases, NEW x \in Sides(c), NEW y \in Sides(c), ~HasNan(x), ~HasNan(y), c.sortRows,
         NEW i, PartAt(i, Walk(c, x), Len(x), Walk(c, y), Len(y), RowOrdering)
  PROVE  Leads(c, x, y, Walk(c, x)[i], i)
<1> DEFINE m == Len(x)
           k == Len(y)
           s == Walk(c, x)
           t == Walk(c, y)
           v == s[i]
           sv == {e \in 1 .. m : s[e] = v}
           tv == {e \in 1 .. k : t[e] = v}
           sb == {e \in 1 .. m : <<s[e], v>> \in RowOrdering}
           tb == {e \in 1 .. k : <<t[e], v>> \in RowOrdering}
<1>1. /\ m \in Nat /\ s \in [1 .. m -> CanonicalRow] /\ InOrder(s, m, RowOrdering)
      /\ \A e \in 1 .. m : \E j \in DOMAIN x : s[e] = CanonicalizeRow(x[j], c.setPaths)
      /\ \A r : Count(r, x, c.setPaths) = Cardinality({e \in 1 .. m : s[e] = r})
      /\ \A r \in CanonicalRow : Below(r, x, c.setPaths) = Cardinality({e \in 1 .. m : <<s[e], r>> \in RowOrdering})
  BY WalkOf
<1>2. /\ k \in Nat /\ t \in [1 .. k -> CanonicalRow] /\ InOrder(t, k, RowOrdering)
      /\ \A r : Count(r, y, c.setPaths) = Cardinality({e \in 1 .. k : t[e] = r})
      /\ \A r \in CanonicalRow : Below(r, y, c.setPaths) = Cardinality({e \in 1 .. k : <<t[e], r>> \in RowOrdering})
  BY WalkOf
<1>3. PartAt(i, s, m, t, k, RowOrdering)
  OBVIOUS
<1> HIDE DEF s, t, m, k
<1>4. /\ v \in CanonicalRow
      /\ i \in sv /\ tv \subseteq sv \ {i}
      /\ \A w \in CanonicalRow : <<w, v>> \in RowOrdering => {e \in 1 .. m : s[e] = w} = {e \in 1 .. k : t[e] = w}
      /\ sb = tb /\ tb \cup tv = 1 .. (i - 1) /\ tb \cap tv = {}
  <2>1. Orders(RowOrdering, CanonicalRow)
    BY RowsAreOrdered
  <2>2. Parted(i, s, m, t, k, CanonicalRow, RowOrdering)
    BY <1>1, <1>2, <1>3, <2>1, Parting
  <2> QED BY <2>2 DEF Parted
<1>5. i \in 1 .. m
  BY <1>3 DEF PartAt
<1>6. \E j \in DOMAIN x : v = CanonicalizeRow(x[j], c.setPaths)
  BY <1>1, <1>5
<1>7. /\ Count(v, x, c.setPaths) = Cardinality(sv) /\ Count(v, y, c.setPaths) = Cardinality(tv)
      /\ Below(v, x, c.setPaths) = Cardinality(sb) /\ Below(v, y, c.setPaths) = Cardinality(tb)
  BY <1>1, <1>2, <1>4
<1>8. sv \in SUBSET (1 .. m) /\ tv \in SUBSET (1 .. k) /\ tb \in SUBSET (1 .. k)
  OBVIOUS
<1>9. \A w \in CanonicalRow : RowBefore(w, v) => Count(w, x, c.setPaths) = Count(w, y, c.setPaths)
  <2> SUFFICES ASSUME NEW w \in CanonicalRow, RowBefore(w, v) PROVE Count(w, x, c.setPaths) = Count(w, y, c.setPaths)
    OBVIOUS
  <2>1. <<w, v>> \in RowOrdering
    BY <1>4, RowsAreOrdered
  <2>2. {e \in 1 .. m : s[e] = w} = {e \in 1 .. k : t[e] = w}
    BY <1>4, <2>1
  <2> QED BY <1>1, <1>2, <2>2
<1> HIDE DEF sv, tv, sb, tb, v
<1>10. IsFiniteSet(sv) /\ IsFiniteSet(tv) /\ IsFiniteSet(tb)
  <2>1. IsFiniteSet(1 .. m) /\ IsFiniteSet(1 .. k)
    BY <1>1, <1>2, FS_Interval
  <2> QED BY <1>8, <2>1, FS_Subset
<1>11. Cardinality(sv) \in Nat /\ Cardinality(tv) \in Nat /\ Cardinality(tb) \in Nat
  BY <1>10, FS_CardinalityType
<1>12. Cardinality(tv) < Cardinality(sv)
  <2>1. Cardinality(sv \ {i}) = Cardinality(sv) - 1 /\ IsFiniteSet(sv \ {i})
    BY <1>4, <1>10, FS_RemoveElement
  <2>2. Cardinality(tv) <= Cardinality(sv \ {i})
    BY <1>4, <2>1, FS_Subset
  <2> QED BY <1>11, <2>1, <2>2
<1>13. i - 1 = Cardinality(tb) + Cardinality(tv)
  <2>1. Cardinality(tb \cup tv) = Cardinality(tb) + Cardinality(tv) - Cardinality(tb \cap tv)
    BY <1>10, FS_Union
  <2>2. tb \cap tv = {} /\ Cardinality(tb \cap tv) = 0
    BY <1>4, FS_EmptySet
  <2>6. tb \cup tv = 1 .. (i - 1)
    BY <1>4
  <2>3. i \in Int /\ i - 1 \in Int /\ i >= 1 /\ 1 \in Int
    BY <1>5
  <2>4. Cardinality(1 .. (i - 1)) = IF 1 > i - 1 THEN 0 ELSE (i - 1) - 1 + 1
    BY <2>3, FS_Interval
  <2>5. Cardinality(1 .. (i - 1)) = i - 1
    BY <2>3, <2>4
  <2>7. Cardinality(tb \cup tv) = i - 1
    BY <2>5, <2>6
  <2> QED BY ONLY <1>11, <2>1, <2>2, <2>3, <2>7
<1>14. Leads(c, x, y, v, i)
  BY <1>4, <1>6, <1>7, <1>9, <1>11, <1>12, <1>13 DEF Leads
<1> QED BY <1>14 DEF v, s
\* The claim of DivergenceIsFirst about one call, with the rows it counts.
AllRows(c) == {CanonicalizeRow(c.mongo[i], c.setPaths) : i \in DOMAIN c.mongo}
                \cup {CanonicalizeRow(c.oracle[i], c.setPaths) : i \in DOMAIN c.oracle}
Uneven(c) == {r \in AllRows(c) : Count(r, c.mongo, c.setPaths) # Count(r, c.oracle, c.setPaths)}
Least(c) == CHOOSE r \in Uneven(c) : \A s \in Uneven(c) \ {r} : RowBefore(r, s)
Copies(c, r) == {Count(r, c.mongo, c.setPaths), Count(r, c.oracle, c.setPaths)}

\* The pointer is one behind the rows before the least uneven one and its shared copies.
LEMMA PointsBehind ==
  ASSUME NEW c \in Cases, ~HasNan(c.mongo), ~HasNan(c.oracle), c.sortRows,
         Walk(c, c.mongo) # Walk(c, c.oracle),
         ~(\E r, s \in AllRows(c) : r # s /\ PyEqualRows(r, s))
  PROVE  FindFirstDivergence(c).row =
           Below(Least(c), c.mongo, c.setPaths) + 1 +
             (CHOOSE n \in Copies(c, Least(c)) : \A k \in Copies(c, Least(c)) : n <= k)
<1> DEFINE m == c.mongo
           o == c.oracle
           s == Walk(c, m)
           t == Walk(c, o)
           i == Locate(s, t).row
<1>1. m \in Sides(c) /\ o \in Sides(c)
  BY DEF Sides
<1>2. FindFirstDivergence(c) = Locate(s, t)
  BY DEF FindFirstDivergence, Walk
<1>3. /\ Len(m) \in Nat /\ s \in Seq(CanonicalRow) /\ s \in [1 .. Len(m) -> CanonicalRow] /\ Len(s) = Len(m)
      /\ \A x \in 1 .. Len(m) : \E j \in DOMAIN m : s[x] = CanonicalizeRow(m[j], c.setPaths)
      /\ \A j \in DOMAIN m : CanonicalizeRow(m[j], c.setPaths) \in CanonicalRow
  BY <1>1, WalkOf
<1>4. /\ Len(o) \in Nat /\ t \in Seq(CanonicalRow) /\ t \in [1 .. Len(o) -> CanonicalRow] /\ Len(t) = Len(o)
      /\ \A x \in 1 .. Len(o) : \E j \in DOMAIN o : t[x] = CanonicalizeRow(o[j], c.setPaths)
      /\ \A j \in DOMAIN o : CanonicalizeRow(o[j], c.setPaths) \in CanonicalRow
  BY <1>1, WalkOf
<1>5. /\ \A x \in 1 .. Len(m) : s[x] \in AllRows(c)
      /\ \A x \in 1 .. Len(o) : t[x] \in AllRows(c)
      /\ AllRows(c) \subseteq CanonicalRow
  BY <1>3, <1>4 DEF AllRows
<1> HIDE DEF s, t, i
<1>6. DOMAIN s = 1 .. Len(m) /\ DOMAIN t = 1 .. Len(o)
  BY <1>3, <1>4
<1>7. \A x \in DOMAIN s : x \in DOMAIN t /\ PyEqualRows(s[x], t[x]) => s[x] = t[x]
  BY <1>5, <1>6
<1>8. /\ i \in Nat \ {0} /\ (i <= Len(m) \/ i <= Len(o))
      /\ \A j \in 1 .. (i - 1) : j <= Len(m) /\ j <= Len(o) /\ s[j] = t[j]
      /\ i <= Len(m) /\ i <= Len(o) => s[i] # t[i]
  <2>1. s # t
    BY DEF s, t
  <2>2. LET j == Locate(s, t).row
        IN  /\ j \in Nat \ {0} /\ (j <= Len(s) \/ j <= Len(t))
            /\ \A x \in 1 .. (j - 1) : x <= Len(s) /\ x <= Len(t) /\ s[x] = t[x]
            /\ j <= Len(s) /\ j <= Len(t) => s[j] # t[j]
    BY <1>3, <1>4, <1>7, <2>1, LocatesFirst
  <2> QED BY <1>3, <1>4, <2>2 DEF i
<1>9. PartAt(i, s, Len(m), t, Len(o), RowOrdering) \/ PartAt(i, t, Len(o), s, Len(m), RowOrdering)
  <2>1. i <= Len(m) => i \in 1 .. Len(m) /\ s[i] \in CanonicalRow
    BY <1>3, <1>8
  <2>2. i <= Len(o) => i \in 1 .. Len(o) /\ t[i] \in CanonicalRow
    BY <1>4, <1>8
  <2>3. CASE i <= Len(m) /\ ~(i <= Len(o))
    BY <1>8, <2>1, <2>3 DEF PartAt
  <2>4. CASE i <= Len(o) /\ ~(i <= Len(m))
    <3>1. \A j \in 1 .. (i - 1) : j <= Len(m) /\ t[j] = s[j]
      BY <1>8
    <3> QED BY <2>2, <2>4, <3>1 DEF PartAt
  <2>5. CASE i <= Len(m) /\ i <= Len(o)
    <3>1. <<s[i], t[i]>> \in RowOrdering \/ <<t[i], s[i]>> \in RowOrdering
      BY <1>8, <2>1, <2>2, <2>5, RowsAreOrdered DEF Orders
    <3>2. \A j \in 1 .. (i - 1) : j <= Len(m) /\ j <= Len(o) /\ s[j] = t[j] /\ t[j] = s[j]
      BY <1>8
    <3> QED BY <2>1, <2>2, <2>5, <3>1, <3>2 DEF PartAt
  <2> QED BY <1>8, <2>3, <2>4, <2>5
<1>10. \E v : Leads(c, m, o, v, i) \/ Leads(c, o, m, v, i)
  <2>1. CASE PartAt(i, s, Len(m), t, Len(o), RowOrdering)
    BY <1>1, <2>1, Leading DEF s, t
  <2>2. CASE PartAt(i, t, Len(o), s, Len(m), RowOrdering)
    BY <1>1, <2>2, Leading DEF s, t
  <2> QED BY <1>9, <2>1, <2>2
<1>11. PICK v : Leads(c, m, o, v, i) \/ Leads(c, o, m, v, i)
  BY <1>10
<1> DEFINE a == Count(v, m, c.setPaths)
           b == Count(v, o, c.setPaths)
           below == Below(v, m, c.setPaths)
<1>12. /\ v \in AllRows(c) /\ v \in CanonicalRow /\ a \in Nat /\ b \in Nat /\ a # b /\ below \in Nat
       /\ \A w \in CanonicalRow : RowBefore(w, v) => Count(w, m, c.setPaths) = Count(w, o, c.setPaths)
       /\ i - 1 = below + (IF a < b THEN a ELSE b)
  <2>1. CASE Leads(c, m, o, v, i)
    BY <2>1 DEF Leads, AllRows
  <2>2. CASE Leads(c, o, m, v, i)
    BY <2>2 DEF Leads, AllRows
  <2> QED BY <1>11, <2>1, <2>2
<1>13. v \in Uneven(c)
  BY <1>12 DEF Uneven
<1>14. ASSUME NEW w \in Uneven(c), w # v PROVE RowBefore(v, w) /\ ~RowBefore(w, v)
  <2>1. w \in CanonicalRow /\ Count(w, m, c.setPaths) # Count(w, o, c.setPaths)
    BY <1>5 DEF Uneven
  <2>2. ~RowBefore(w, v)
    BY <1>12, <2>1
  <2> QED BY <1>12, <1>14, <2>1, <2>2, RowOrder
<1>15. Least(c) = v
  <2>1. \A r \in Uneven(c) : (\A w \in Uneven(c) \ {r} : RowBefore(r, w)) <=> r = v
    <3> SUFFICES ASSUME NEW r \in Uneven(c) PROVE (\A w \in Uneven(c) \ {r} : RowBefore(r, w)) <=> r = v
      OBVIOUS
    <3>1. CASE r = v
      BY <1>14, <3>1
    <3>2. CASE r # v
      <4>1. v \in Uneven(c) \ {r} /\ ~RowBefore(r, v)
        BY <1>13, <1>14, <3>2
      <4> QED BY <3>2, <4>1
    <3> QED BY <3>1, <3>2
  <2> QED BY <1>13, <2>1 DEF Least
<1>16. Copies(c, Least(c)) = {a, b}
  BY <1>15 DEF Copies
<1>17. (CHOOSE n \in Copies(c, Least(c)) : \A k \in Copies(c, Least(c)) : n <= k) = IF a < b THEN a ELSE b
  <2> DEFINE S == Copies(c, Least(c))
  <2> HIDE DEF a, b, S
  <2>1. a \in Nat /\ b \in Nat
    BY <1>12 DEF a, b
  <2>2. S = {a, b}
    BY <1>16 DEF S
  <2>3. \A n \in S : (\A k \in S : n <= k) <=> n = IF a < b THEN a ELSE b
    BY <2>1, <2>2
  <2>4. (IF a < b THEN a ELSE b) \in S
    BY <2>2
  <2>5. (CHOOSE n \in S : \A k \in S : n <= k) = IF a < b THEN a ELSE b
    BY <2>3, <2>4
  <2> QED BY <2>5 DEF S
<1>18. i = below + 1 + (IF a < b THEN a ELSE b)
  <2> HIDE DEF a, b, below
  <2>1. a \in Nat /\ b \in Nat /\ below \in Nat /\ i \in Nat /\ i - 1 = below + (IF a < b THEN a ELSE b)
    BY <1>8, <1>12 DEF a, b, below
  <2> QED BY <2>1
<1> HIDE DEF a, b, below
<1>19. FindFirstDivergence(c).row = i
  BY <1>2 DEF i
<1>20. Below(Least(c), c.mongo, c.setPaths) = below
  BY <1>15 DEF below
<1> DEFINE least == CHOOSE n \in Copies(c, Least(c)) : \A k \in Copies(c, Least(c)) : n <= k
<1>21. least = IF a < b THEN a ELSE b
  BY <1>17
<1> HIDE DEF least
<1>22. FindFirstDivergence(c).row = Below(Least(c), c.mongo, c.setPaths) + 1 + least
  BY <1>18, <1>19, <1>20, <1>21
<1> QED BY <1>22 DEF least

-------------------------------------------------------------------------------
(* The theorems.                                                             *)

\* A verdict is pending or what verify_equivalence says of the call.
VInv == call \in Cases /\ verdict \in {Pending, VerifyEquivalence(call)}

\* The verdict is always pending or that of verify_equivalence.
LEMMA VerdictIsVerifys == Verification => []VInv
<1>1. Called => VInv
  BY DEF Called, VInv
<1>2. VInv /\ [Verify]_verification => VInv'
  BY DEF VInv, Verify, verification
<1> QED BY <1>1, <1>2, PTL DEF Verification

\* What a result says of the two walks.
LEMMA Verdicts ==
  ASSUME VInv, verdict.kind = "result"
  PROVE  /\ call \in Cases /\ ~HasNan(call.mongo) /\ ~HasNan(call.oracle)
         /\ verdict.match = (Walk(call, call.mongo) = Walk(call, call.oracle))
         /\ verdict.divergence = IF Walk(call, call.mongo) = Walk(call, call.oracle)
                                 THEN NoDivergence ELSE FindFirstDivergence(call)
<1>1. verdict # Pending /\ verdict = VerifyEquivalence(call)
  BY DEF VInv, Pending
<1>2. ~HasNan(call.mongo) /\ ~HasNan(call.oracle)
  BY <1>1 DEF VerifyEquivalence, Raised
<1> QED BY <1>1, <1>2 DEF VInv, VerifyEquivalence, Walk

\* verify_equivalence: a reported match is never a coincidence of rounding, sorting
\* or hashing; the rows correspond, and their numbers are within the tolerance.
THEOREM MatchIsClose == Verification => []MatchedRowsAreClose
<1>1. VInv => MatchedRowsAreClose
  BY Verdicts, MatchMeansClose DEF MatchedRowsAreClose
<1> QED BY <1>1, VerdictIsVerifys, PTL

\* verify_equivalence: results that differ only in what the scenario declares free,
\* or in the types drivers return, are reported to match.
THEOREM EqualIsMatch == Verification => []EqualRowsMatch
<1>1. VInv => EqualRowsMatch
  BY Verdicts, EqualMeansMatch DEF EqualRowsMatch
<1> QED BY <1>1, VerdictIsVerifys, PTL

\* _find_first_divergence: a mismatch has a pointer, behind the rows that come before
\* the least row of which the engines return different numbers.
THEOREM PointerIsFirst == Verification => []DivergenceIsFirst
<1>1. VInv => DivergenceIsFirst
  <2> SUFFICES ASSUME VInv, verdict.kind = "result", ~verdict.match, call.sortRows,
                      ~(\E r, s \in AllRows(call) : r # s /\ PyEqualRows(r, s))
               PROVE  verdict.divergence.row =
                        Below(Least(call), call.mongo, call.setPaths) + 1 +
                          (CHOOSE n \in Copies(call, Least(call)) : \A k \in Copies(call, Least(call)) : n <= k)
    BY DEF DivergenceIsFirst, AllRows, CanonicalOf, Uneven, Least, Copies, Count, Below, Times
  <2>1. /\ call \in Cases /\ ~HasNan(call.mongo) /\ ~HasNan(call.oracle)
        /\ Walk(call, call.mongo) # Walk(call, call.oracle)
        /\ verdict.divergence = FindFirstDivergence(call)
    BY Verdicts
  <2> QED BY <2>1, PointsBehind
<1> QED BY <1>1, VerdictIsVerifys, PTL

\* The k-th row of a side, counted by the rows before it, is the k-th of its walk.
LEMMA RowOfWalk ==
  ASSUME VInv, NEW rows \in Sides(call), ~HasNan(rows), NEW k \in Int,
         NEW r \in CanonicalOf(rows), RowAt(rows, k, r)
  PROVE  k \in 1 .. Len(rows) /\ Walk(call, rows)[k] = r
<1> DEFINE n == Len(rows)
           s == Walk(call, rows)
           B == {x \in 1 .. n : <<s[x], r>> \in RowOrdering}
           E == {x \in 1 .. n : s[x] = r}
<1>1. call \in Cases
  BY DEF VInv
<1>2. /\ n \in Nat /\ s \in [1 .. n -> CanonicalRow]
      /\ call.sortRows => InOrder(s, n, RowOrdering)
      /\ \A i \in DOMAIN rows : CanonicalizeRow(rows[i], call.setPaths) \in CanonicalRow
      /\ Count(r, rows, call.setPaths) = Cardinality(E)
      /\ \A q \in CanonicalRow :
           Below(q, rows, call.setPaths) = Cardinality({x \in 1 .. n : <<s[x], q>> \in RowOrdering})
  <2>1. /\ n \in Nat /\ s \in [1 .. n -> CanonicalRow]
        /\ call.sortRows => InOrder(s, n, RowOrdering)
        /\ \A i \in DOMAIN rows : CanonicalizeRow(rows[i], call.setPaths) \in CanonicalRow
    BY <1>1, WalkOf
  <2>2. \A q : Count(q, rows, call.setPaths) = Cardinality({x \in 1 .. n : s[x] = q})
    BY <1>1, WalkOf
  <2>3. \A q \in CanonicalRow :
          Below(q, rows, call.setPaths) = Cardinality({x \in 1 .. n : <<s[x], q>> \in RowOrdering})
    BY <1>1, WalkOf
  <2> QED BY ONLY <2>1, <2>2, <2>3
<1>3. r \in CanonicalRow
  BY <1>2 DEF CanonicalOf
<1>4. Below(r, rows, call.setPaths) = Cardinality(B)
  BY <1>2, <1>3
<1>5. DOMAIN rows = 1 .. n
  BY <1>1, RowsWithoutNan
<1>6. CASE ~call.sortRows
  <2>1. s = [i \in 1 .. n |-> CanonicalizeRow(rows[i], call.setPaths)]
    BY <1>5, <1>6 DEF Walk, CanonicalRows
  <2>2. k \in 1 .. n /\ r = CanonicalizeRow(rows[k], call.setPaths)
    BY <1>5, <1>6 DEF RowAt
  <2> QED BY <2>1, <2>2
<1>7. CASE call.sortRows
  <2>1. Cardinality(B) < k /\ k <= Cardinality(B) + Cardinality(E)
    BY <1>2, <1>4, <1>7 DEF RowAt, Below, Count, Times
  <2>2. InOrder(s, n, RowOrdering)
    BY <1>2, <1>7
  <2>3. Orders(RowOrdering, CanonicalRow)
    BY RowsAreOrdered
  <2> HIDE DEF n, s
  <2>4. \A x \in 1 .. n : s[x] \in CanonicalRow
    BY <1>2
  <2>5. \A x : x \in B <=> x \in 1 .. n /\ <<s[x], r>> \in RowOrdering
    OBVIOUS
  <2>6. \A x : x \in E <=> x \in 1 .. n /\ s[x] = r
    OBVIOUS
  <2> HIDE DEF B, E
  <2>7. B \in SUBSET (1 .. n) /\ E \in SUBSET (1 .. n) /\ B \cap E = {}
    <3>1. <<r, r>> \notin RowOrdering
      BY ONLY <1>3, <2>3 DEF Orders
    <3> QED BY ONLY <2>5, <2>6, <3>1
  <2>8. /\ IsFiniteSet(B) /\ IsFiniteSet(E) /\ Cardinality(B) \in Nat /\ Cardinality(E) \in Nat
        /\ Cardinality(B \cup E) = Cardinality(B) + Cardinality(E)
    <3>1. IsFiniteSet(1 .. n)
      BY <1>2, FS_Interval
    <3>2. IsFiniteSet(B) /\ IsFiniteSet(E)
      BY <2>7, <3>1, FS_Subset
    <3>3. Cardinality(B \cup E) = Cardinality(B) + Cardinality(E) - Cardinality(B \cap E)
      BY <3>2, FS_Union
    <3>4. Cardinality(B \cap E) = 0
      BY <2>7, FS_EmptySet
    <3>5. Cardinality(B) \in Nat /\ Cardinality(E) \in Nat
      BY <3>2, FS_CardinalityType
    <3> QED BY ONLY <3>2, <3>3, <3>4, <3>5
  <2>9. ASSUME NEW j \in Nat, B \cup E \subseteq 1 .. j PROVE Cardinality(B) + Cardinality(E) <= j
    <3>1. IsFiniteSet(1 .. j) /\ Cardinality(1 .. j) = j
      BY FS_Interval
    <3>2. Cardinality(B \cup E) <= Cardinality(1 .. j)
      BY ONLY <2>9, <3>1, FS_Subset
    <3> QED BY ONLY <2>8, <3>1, <3>2
  <2>10. k \in 1 .. n
    <3>1. n \in Nat
      BY <1>2
    <3>2. Cardinality(B) + Cardinality(E) <= n
      BY ONLY <2>7, <2>9, <3>1
    <3> QED BY ONLY <2>1, <2>8, <3>1, <3>2
  <2>11. ASSUME <<s[k], r>> \in RowOrdering PROVE FALSE
    <3>1. ASSUME NEW x \in 1 .. k PROVE x \in B
      <4>1. x \in 1 .. n /\ (x = k \/ x < k)
        <5>1. n \in Nat
          BY <1>2
        <5> QED BY ONLY <2>10, <3>1, <5>1
      <4>2. CASE x = k
        BY <2>5, <2>11, <4>1, <4>2
      <4>3. CASE x < k
        <5>1. <<s[k], s[x]>> \notin RowOrdering
          BY <2>2, <2>10, <4>1, <4>3 DEF InOrder
        <5>2. s[x] = s[k] \/ <<s[x], s[k]>> \in RowOrdering
          BY <2>3, <2>4, <2>10, <4>1, <5>1 DEF Orders
        <5>3. <<s[x], r>> \in RowOrdering
          BY <1>3, <2>3, <2>4, <2>10, <2>11, <4>1, <5>2 DEF Orders
        <5> QED BY <2>5, <4>1, <5>3
      <4> QED BY <4>1, <4>2, <4>3
    <3>2. IsFiniteSet(1 .. k) /\ Cardinality(1 .. k) = k /\ k \in Nat
      <4>1. k \in Nat /\ k >= 1
        BY ONLY <2>10
      <4> QED BY <4>1, FS_Interval
    <3>3. Cardinality(1 .. k) <= Cardinality(B)
      BY ONLY <2>8, <3>1, FS_Subset
    <3> QED BY ONLY <2>1, <2>8, <3>2, <3>3
  <2>12. ASSUME <<r, s[k]>> \in RowOrdering PROVE FALSE
    <3>1. ASSUME NEW x \in B \cup E PROVE x \in 1 .. (k - 1)
      <4>1. x \in 1 .. n /\ (s[x] = r \/ <<s[x], r>> \in RowOrdering)
        BY ONLY <2>5, <2>6, <3>1
      <4>2. <<s[x], s[k]>> \in RowOrdering
        BY <1>3, <2>3, <2>4, <2>10, <2>12, <4>1 DEF Orders
      <4>3. x # k
        <5>1. <<s[k], s[k]>> \notin RowOrdering
          BY <2>3, <2>4, <2>10 DEF Orders
        <5> QED BY <4>2, <5>1
      <4>4. ~(k < x)
        BY <2>2, <2>10, <4>1, <4>2 DEF InOrder
      <4> QED BY ONLY <2>10, <4>1, <4>3, <4>4
    <3>2. k - 1 \in Nat
      BY ONLY <2>10
    <3>3. Cardinality(B) + Cardinality(E) <= k - 1
      BY ONLY <2>9, <3>1, <3>2
    <3> QED BY ONLY <2>1, <2>8, <2>10, <3>3
  <2>13. s[k] = r
    BY <1>3, <2>3, <2>4, <2>10, <2>11, <2>12 DEF Orders
  <2> QED BY ONLY <2>10, <2>13 DEF n, s
<1> QED BY <1>6, <1>7

\* _find_first_divergence: the pointer names the first field that differs in the
\* first rows that differ, on both sides, and is withheld only when Python's ==
\* sees no difference at all.
THEOREM PointerNamesField == Verification => []DivergenceNamesField
<1>1. ASSUME VInv, verdict.kind = "result", ~verdict.match PROVE DivergenceNamesField
  <2> DEFINE d == verdict.divergence
             s == Walk(call, call.mongo)
             t == Walk(call, call.oracle)
  <2>1. /\ call \in Cases /\ ~HasNan(call.mongo) /\ ~HasNan(call.oracle)
        /\ d = Locate(s, t)
    BY <1>1, Verdicts DEF FindFirstDivergence, Walk
  <2>2. call.mongo \in Sides(call) /\ call.oracle \in Sides(call)
    BY DEF Sides
  <2>3. /\ s \in Seq(CanonicalRow) /\ Len(s) = Len(call.mongo)
        /\ t \in Seq(CanonicalRow) /\ Len(t) = Len(call.oracle)
    BY <2>1, <2>2, WalkOf
  <2>4. DOMAIN call.mongo = 1 .. Len(call.mongo) /\ Len(call.mongo) \in Nat
    BY <2>1, <2>2, RowsWithoutNan
  <2>5. ASSUME NEW k \in Int, NEW r \in CanonicalOf(call.mongo), NEW q \in CanonicalOf(call.oracle),
               RowAt(call.mongo, k, r), RowAt(call.oracle, k, q)
        PROVE  r = s[k] /\ q = t[k] /\ k \in 1 .. Len(s) /\ k \in 1 .. Len(t)
    BY <1>1, <2>1, <2>2, <2>3, <2>5, RowOfWalk
  <2> HIDE DEF d, s, t
  <2>6. CASE d = NoDivergence
    <3>1. Len(s) = Len(t) /\ \A k \in 1 .. Len(s) : PyEqualRows(s[k], t[k])
      <4>1. ~Pointed(d, s, t)
        BY <2>6 DEF Pointed, NoDivergence
      <4> QED BY <2>1, <2>3, <4>1, LocateSays
    <3>2. ASSUME NEW k \in DOMAIN call.mongo, NEW r \in CanonicalOf(call.mongo), NEW q \in CanonicalOf(call.oracle),
                 RowAt(call.mongo, k, r), RowAt(call.oracle, k, q)
          PROVE  PyEqualRows(r, q)
      <4>1. k \in Int
        BY <2>4
      <4>2. r = s[k] /\ q = t[k] /\ k \in 1 .. Len(s)
        BY <2>5, <3>2, <4>1
      <4> QED BY <3>1, <4>2
    <3>3. Len(call.mongo) = Len(call.oracle) /\ \A k \in DOMAIN call.mongo : AtRow(k, PyEqualRows)
      BY <2>3, <3>1, <3>2 DEF AtRow
    <3> QED BY <2>6, <3>3 DEF DivergenceNamesField, d
  <2>7. CASE d # NoDivergence
    <3>1. Pointed(d, s, t)
      BY <2>1, <2>3, <2>7, LocateSays
    <3>2. d.row \in Nat \ {0}
      BY <3>1 DEF Pointed
    <3>3. ASSUME NEW k \in 1 .. d.row - 1, NEW r \in CanonicalOf(call.mongo), NEW q \in CanonicalOf(call.oracle),
                 RowAt(call.mongo, k, r), RowAt(call.oracle, k, q)
          PROVE  PyEqualRows(r, q)
      <4>1. r = s[k] /\ q = t[k]
        BY <2>5, <3>3
      <4> QED BY <3>1, <4>1 DEF Pointed
    <3>4. ~(d.row <= Len(call.mongo) /\ d.row <= Len(call.oracle)) =>
            d.field = NoField /\ Len(call.mongo) # Len(call.oracle)
      BY <2>3, <3>1 DEF Pointed
    <3>5. ASSUME NEW r \in CanonicalOf(call.mongo), NEW q \in CanonicalOf(call.oracle),
                 RowAt(call.mongo, d.row, r), RowAt(call.oracle, d.row, q)
          PROVE  /\ ~PyEqualRows(r, q)
                 /\ d.field # NoField => ~SameField(r, q, d.field)
                 /\ \A f \in DOMAIN Fields : f < d.field \/ d.field = NoField => SameField(r, q, f)
      <4>1. r = s[d.row] /\ q = t[d.row] /\ d.row \in 1 .. Len(s) /\ d.row \in 1 .. Len(t)
        BY <2>5, <3>2, <3>5
      <4>2. d.row <= Len(s) /\ d.row <= Len(t)
        BY <4>1
      <4> QED BY ONLY <3>1, <4>1, <4>2 DEF Pointed
    <3>6. \A k \in 1 .. d.row - 1 : AtRow(k, PyEqualRows)
      BY <3>3 DEF AtRow
    <3>7. AtRow(d.row, LAMBDA r, q :
                  /\ ~PyEqualRows(r, q)
                  /\ d.field # NoField => ~SameField(r, q, d.field)
                  /\ \A f \in DOMAIN Fields : f < d.field \/ d.field = NoField => SameField(r, q, f))
      BY <3>5 DEF AtRow
    <3> QED BY <2>7, <3>4, <3>6, <3>7 DEF DivergenceNamesField, AtRow, d
  <2> QED BY <2>6, <2>7
<1>2. VInv => DivergenceNamesField
  BY <1>1 DEF DivergenceNamesField
<1> QED BY <1>2, VerdictIsVerifys, PTL
================================================================================
