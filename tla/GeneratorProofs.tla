---------------------------- MODULE GeneratorProofs ----------------------------
(* What is proved of the generated rows: for every scale whose sizes are as   *)
(* CountsAssumption and StrataAssumption say, whatever the draws.  What a     *)
(* recursive function computes is proved by induction over its argument:      *)
(* NatInd is induction for sets, a consequence of the order of the naturals.  *)
EXTENDS OrgTraversal, FiniteSetTheorems, TLAPS

-------------------------------------------------------------------------------
(* Numbers and finite sets.                                                 *)

\* A set of natural numbers has a least element.
LEMMA LeastOfNaturals ==
  ASSUME NEW S \in SUBSET Nat, S # {}
  PROVE  \E m \in S : \A k \in S : m <= k
<1> DEFINE R == OpToRel(<, Nat)
<1>1. IsWellFoundedOn(R, Nat)
  BY NatLessThanWellFounded
<1>2. \A x, y \in Nat : <<x, y>> \in R <=> x < y
  BY DEF OpToRel
<1> HIDE DEF R
<1>3. PICK m \in S : \A k \in S : ~ (<<k, m>> \in R)
  BY <1>1, WFMin
<1>4. \A k \in S : ~ (k < m)
  BY <1>2, <1>3
<1>5. \A k \in S : m <= k
  BY <1>4
<1> QED BY <1>5

\* A set that holds zero and the successor of each of its numbers holds them all.
LEMMA NatInd ==
  ASSUME NEW S, 0 \in S, \A n \in Nat : n \in S => n + 1 \in S
  PROVE  Nat \subseteq S
<1> SUFFICES ASSUME Nat \ S # {} PROVE FALSE
  OBVIOUS
<1>1. PICK m \in Nat \ S : \A k \in Nat \ S : m <= k
  BY LeastOfNaturals
<1>2. m # 0 /\ m \in Nat
  OBVIOUS
<1>3. m - 1 \in Nat /\ (m - 1) + 1 = m
  BY <1>2
<1>4. m - 1 \in S
  BY <1>1, <1>3
<1> QED BY <1>3, <1>4

LEMMA Quotient ==
  ASSUME NEW a \in Nat, NEW b \in Nat \ {0}
  PROVE  a \div b \in Nat /\ a \div b <= a
<1>1. a \div b \in Nat
  OBVIOUS
<1>2. a \div b <= a
  OBVIOUS
<1> QED BY <1>1, <1>2

-------------------------------------------------------------------------------
(* What a recursive function on the numbers up to n computes.               *)

\* Induction up to n.
LEMMA UpToInd ==
  ASSUME NEW n \in Nat, NEW S, 0 \in S, \A k \in Nat : k < n /\ k \in S => k + 1 \in S
  PROVE  0..n \subseteq S
<1> DEFINE T == {k \in Nat : k <= n => k \in S}
<1>1. 0 \in T
  OBVIOUS
<1>2. ASSUME NEW k \in Nat, k \in T PROVE k + 1 \in T
  BY <1>2
<1> HIDE DEF T
<1>3. Nat \subseteq T
  BY <1>1, <1>2, NatInd
<1> QED BY <1>3 DEF T

Steps(V) == [Nat \X V -> V]
Continues(F, V, x, step) ==
  F \in [Nat -> V] /\ F[0] = x /\ \A k \in Nat : F[k + 1] = step[<<k, F[k]>>]

\* There is a sequence that starts with x and goes on by step.
LEMMA Recursion ==
  ASSUME NEW V, NEW x \in V, NEW step \in Steps(V)
  PROVE  \E F : Continues(F, V, x, step)
<1>0. step \in [Nat \X V -> V]
  BY DEF Steps
<1> DEFINE Follows(f, n) == /\ f \in [0..n -> V] /\ f[0] = x
                            /\ \A k \in Nat : k < n => f[k + 1] = step[<<k, f[k]>>]
           S == {n \in Nat : \E f : Follows(f, n)}
<1>1. 0 \in S
  <2>1. Follows([k \in 0..0 |-> x], 0)
    OBVIOUS
  <2> QED BY <2>1
<1>2. ASSUME NEW n \in Nat, n \in S PROVE n + 1 \in S
  <2>1. PICK f : Follows(f, n)
    BY <1>2
  <2> DEFINE g == [k \in 0..(n + 1) |-> IF k <= n THEN f[k] ELSE step[<<n, f[n]>>]]
  <2>2. f[n] \in V /\ \A k \in 0..n : f[k] \in V
    BY <2>1
  <2>3. g \in [0..(n + 1) -> V]
    <3>1. step[<<n, f[n]>>] \in V
      BY <1>0, <2>2
    <3>2. \A k \in 0..(n + 1) : (IF k <= n THEN f[k] ELSE step[<<n, f[n]>>]) \in V
      BY <2>2, <3>1
    <3> QED BY <3>2
  <2>4. g[0] = x
    <3>1. g[0] = f[0]
      OBVIOUS
    <3>2. f[0] = x
      BY <2>1
    <3> QED BY <3>1, <3>2
  <2>5. ASSUME NEW k \in Nat, k < n + 1 PROVE g[k + 1] = step[<<k, g[k]>>]
    <3>1. g[k] = f[k] /\ g[k + 1] = IF k + 1 <= n THEN f[k + 1] ELSE step[<<n, f[n]>>]
      BY <2>5
    <3>2. CASE k = n
      BY <3>1, <3>2
    <3>3. CASE k < n
      <4>1. f[k + 1] = step[<<k, f[k]>>]
        BY <2>1, <3>3
      <4>2. g[k] = f[k] /\ g[k + 1] = f[k + 1]
        BY <3>1, <3>3
      <4> QED BY <4>1, <4>2
    <3> QED BY <2>5, <3>2, <3>3
  <2>6. Follows(g, n + 1)
    <3> HIDE DEF g
    <3> QED BY <2>3, <2>4, <2>5
  <2> HIDE DEF Follows, g
  <2> QED BY <2>6
<1> HIDE DEF S
<1>3. Nat \subseteq S
  BY <1>1, <1>2, NatInd
<1> DEFINE upto == [n \in Nat |-> CHOOSE f : Follows(f, n)]
           F == [n \in Nat |-> upto[n][n]]
<1>4. ASSUME NEW n \in Nat PROVE Follows(upto[n], n)
  <2>1. \E h : Follows(h, n)
    BY <1>3 DEF S
  <2> HIDE DEF Follows
  <2> QED BY <2>1
<1> HIDE DEF upto
<1>5. F \in [Nat -> V]
  BY <1>4
<1>6. F[0] = x
  BY <1>4
<1>7. ASSUME NEW k \in Nat PROVE F[k + 1] = step[<<k, F[k]>>]
  <2>1. Follows(upto[k], k) /\ Follows(upto[k + 1], k + 1)
    <3>1. k + 1 \in Nat
      OBVIOUS
    <3> HIDE DEF Follows
    <3> QED BY <1>4, <3>1
  <2>2. \A j \in Nat : j < k /\ upto[k][j] = upto[k + 1][j] => upto[k][j + 1] = upto[k + 1][j + 1]
    <3> SUFFICES ASSUME NEW j \in Nat, j < k, upto[k][j] = upto[k + 1][j]
                 PROVE  upto[k][j + 1] = upto[k + 1][j + 1]
      OBVIOUS
    <3>1. upto[k][j + 1] = step[<<j, upto[k][j]>>]
      BY <2>1
    <3>2. j < k + 1
      OBVIOUS
    <3>3. upto[k + 1][j + 1] = step[<<j, upto[k + 1][j]>>]
      BY <2>1, <3>2
    <3> QED BY <3>1, <3>3
  <2>3. \A j \in 0..k : upto[k][j] = upto[k + 1][j]
    <3> DEFINE T == {j \in 0..k : upto[k][j] = upto[k + 1][j]}
    <3>1. 0 \in T
      BY <2>1
    <3>2. \A j \in Nat : j < k /\ j \in T => j + 1 \in T
      BY <2>2
    <3> HIDE DEF T
    <3>3. 0..k \subseteq T
      BY <3>1, <3>2, UpToInd
    <3> QED BY <3>3 DEF T
  <2>4. upto[k + 1][k + 1] = step[<<k, upto[k + 1][k]>>]
    BY <2>1
  <2>5. F[k] = upto[k][k] /\ F[k + 1] = upto[k + 1][k + 1] /\ k \in 0..k
    OBVIOUS
  <2> HIDE DEF F, Follows
  <2> QED BY <2>3, <2>4, <2>5
<1> HIDE DEF F
<1> QED BY <1>5, <1>6, <1>7 DEF Continues

\* Total adds up the first k numbers.
LEMMA TotalAdds ==
  ASSUME NEW n \in Nat, NEW f \in [1..n -> Int]
  PROVE  /\ Total(f, 0) = 0
         /\ \A k \in 0..n : Total(f, k) \in Int
         /\ \A k \in 1..n : Total(f, k) = f[k] + Total(f, k - 1)
<1> DEFINE step == [p \in Nat \X Int |-> IF p[1] + 1 \in 1..n THEN f[p[1] + 1] + p[2] ELSE p[2]]
<1>1. step \in [Nat \X Int -> Int]
  OBVIOUS
<1>2. \A k \in Nat, v \in Int : k + 1 \in 1..n => step[<<k, v>>] = f[k + 1] + v
  OBVIOUS
<1> HIDE DEF step
<1>3. PICK F : Continues(F, Int, 0, step)
  <2>1. 0 \in Int
    OBVIOUS
  <2>2. step \in Steps(Int)
    BY <1>1 DEF Steps
  <2> QED BY <2>1, <2>2, Recursion
<1> USE <1>3 DEF Continues
<1>4. \A k \in 1..n : F[k] = f[k] + F[k - 1]
  <2> SUFFICES ASSUME NEW k \in 1..n PROVE F[k] = f[k] + F[k - 1]
    OBVIOUS
  <2>1. k - 1 \in Nat /\ (k - 1) + 1 = k
    OBVIOUS
  <2>2. F[(k - 1) + 1] = step[<<k - 1, F[k - 1]>>] /\ F[k - 1] \in Int
    BY <1>3, <2>1
  <2> QED BY <1>2, <2>1, <2>2
<1>5. ASSUME NEW k \in 0..n PROVE Total(f, k) = F[k]
  <2> DEFINE Sums(h) == h = [i \in 0..k |-> IF i = 0 THEN 0 ELSE f[i] + h[i - 1]]
             g == [i \in 0..k |-> F[i]]
  <2>1. Sums(g)
    <3>1. ASSUME NEW i \in 0..k PROVE F[i] = IF i = 0 THEN 0 ELSE f[i] + g[i - 1]
      <4>1. CASE i = 0
        BY <1>3, <4>1
      <4>2. CASE i # 0
        <5>1. i \in 1..n /\ i - 1 \in 0..k
          BY <4>2
        <5> QED BY <1>4, <4>2, <5>1
      <4> QED BY <4>1, <4>2
    <3> QED BY <3>1
  <2> DEFINE h == CHOOSE s : Sums(s)
  <2>2. Sums(h)
    <3> HIDE DEF Sums, g
    <3> QED BY <2>1
  <2>3. Total(f, k) = h[k]
    BY DEF Total
  <2> HIDE DEF h
  <2>4. h[0] = F[0]
    BY <1>3, <2>2
  <2>5. ASSUME NEW j \in Nat, j < k, h[j] = F[j] PROVE h[j + 1] = F[j + 1]
    <3>1. h[j + 1] = f[j + 1] + h[j]
      BY <2>2, <2>5
    <3>2. j + 1 \in 1..n /\ (j + 1) - 1 = j
      BY <2>5
    <3>3. F[j + 1] = f[j + 1] + F[j]
      BY <1>4, <3>2
    <3> QED BY <2>5, <3>1, <3>3
  <2> HIDE DEF Sums
  <2>6. \A j \in 0..k : h[j] = F[j]
    <3> DEFINE T == {j \in 0..k : h[j] = F[j]}
    <3>1. 0 \in T
      BY <2>4
    <3>2. \A j \in Nat : j < k /\ j \in T => j + 1 \in T
      BY <2>5
    <3>3. k \in Nat
      OBVIOUS
    <3> HIDE DEF T
    <3>4. 0..k \subseteq T
      BY <3>1, <3>2, <3>3, UpToInd
    <3> QED BY <3>4 DEF T
  <2> QED BY <2>3, <2>6
<1>6. \A k \in 1..n : k \in 0..n /\ k - 1 \in 0..n
  OBVIOUS
<1>7. \A k \in 0..n : F[k] \in Int
  OBVIOUS
<1> QED BY <1>3, <1>4, <1>5, <1>6, <1>7
-------------------------------------------------------------------------------
(* The strata of the bill of materials.                                     *)

\* The strata of a scale share out its parts.
LEMMA StrataShare ==
  ASSUME NEW s \in Scales
  PROVE  LET n      == Counts[s].parts
             levels == Counts[s].bom_levels
             st     == Strata(n, levels)
         IN  /\ n \in Nat \ {0} /\ levels \in Nat \ {0}
             /\ st \in [1..levels -> Nat \ {0}] /\ Total(st, 0) = 0 /\ Total(st, levels) = n
             /\ \A k \in 0..levels : Total(st, k) \in Int
             /\ \A k \in 1..levels : Total(st, k) = st[k] + Total(st, k - 1)
<1> DEFINE n == Counts[s].parts
           levels == Counts[s].bom_levels
           st == Strata(n, levels)
           even == [l \in 1..levels |-> Share(n, l, levels)]
<1>1. n \in Nat \ {0} /\ levels \in Nat \ {0}
  <2>1. Counts[s]["parts"] \in Nat \ {0} /\ Counts[s]["bom_levels"] \in Nat \ {0}
    BY CountsAssumption
  <2> QED BY <2>1
<1>2. \A l \in 1..levels : Share(n, l, levels) \in Nat /\ st[l] \in Nat \ {0}
  BY StrataAssumption
<1>3. even \in [1..levels -> Int]
  BY <1>2
<1>4. st = [even EXCEPT ![levels] = even[levels] + n - Total(even, levels)]
  BY <1>1, <1>3 DEF Strata
<1> HIDE DEF n, levels, even, st
<1>5. st \in [1..levels -> Nat \ {0}] /\ st \in [1..levels -> Int]
  <2>1. DOMAIN st = 1..levels /\ st = [l \in 1..levels |-> st[l]]
    BY <1>3, <1>4
  <2> QED BY <1>2, <2>1
<1>6. /\ Total(even, 0) = 0 /\ \A k \in 0..levels : Total(even, k) \in Int
      /\ \A k \in 1..levels : Total(even, k) = even[k] + Total(even, k - 1)
  BY <1>1, <1>3, TotalAdds
<1>7. /\ Total(st, 0) = 0 /\ \A k \in 0..levels : Total(st, k) \in Int
      /\ \A k \in 1..levels : Total(st, k) = st[k] + Total(st, k - 1)
  BY <1>1, <1>5, TotalAdds
<1>8. \A k \in 0..(levels - 1) : Total(st, k) = Total(even, k)
  <2> DEFINE S == {k \in 0..(levels - 1) : Total(st, k) = Total(even, k)}
  <2>1. 0 \in S
    BY <1>1, <1>6, <1>7
  <2>2. ASSUME NEW k \in Nat, k < levels - 1, k \in S PROVE k + 1 \in S
    <3>1. k + 1 \in 1..levels /\ k + 1 # levels /\ (k + 1) - 1 = k /\ k + 1 \in 0..(levels - 1)
      BY <1>1, <2>2
    <3>2. st[k + 1] = even[k + 1]
      BY <1>3, <1>4, <3>1
    <3>3. Total(st, k + 1) = st[k + 1] + Total(st, (k + 1) - 1) /\ Total(even, k + 1) = even[k + 1] + Total(even, (k + 1) - 1)
      BY <1>6, <1>7, <3>1
    <3>4. Total(st, k) = Total(even, k)
      BY <2>2
    <3> QED BY <3>1, <3>2, <3>3, <3>4
  <2> HIDE DEF S
  <2>3. levels - 1 \in Nat
    BY <1>1
  <2>4. 0..(levels - 1) \subseteq S
    BY <2>1, <2>2, <2>3, UpToInd
  <2> QED BY <2>4 DEF S
<1>9. Total(st, levels) = n
  <2>1. levels \in 1..levels /\ levels - 1 \in 0..(levels - 1) /\ levels - 1 \in 0..levels /\ levels \in 0..levels
    BY <1>1
  <2>2. Total(st, levels) = st[levels] + Total(even, levels - 1)
    BY <1>7, <1>8, <2>1
  <2>3. Total(even, levels) = even[levels] + Total(even, levels - 1)
    BY <1>6, <2>1
  <2>4. st[levels] = even[levels] + n - Total(even, levels)
    BY <1>3, <1>4, <2>1
  <2>5. even[levels] \in Int /\ Total(even, levels) \in Int /\ Total(even, levels - 1) \in Int /\ n \in Int
    BY <1>1, <1>3, <1>6, <2>1
  <2> QED BY ONLY <2>2, <2>3, <2>4, <2>5
<1> QED BY <1>1, <1>5, <1>7, <1>9 DEF n, levels, st

StrataOK == scale \in Scales /\ strata = Strata(Count("parts"), Count("bom_levels"))

\* The strata of parts are consecutive, not empty, and make up all parts.
LEMMA StrataFollow ==
  ASSUME StrataOK
  PROVE  /\ Len(strata) \in Nat /\ Len(strata) >= 1 /\ Len(strata) = Count("bom_levels")
         /\ \A l \in 1..Len(strata) : Stratum(l) # {} /\ Stratum(l) \subseteq 1..Count("parts")
         /\ \A k, l \in 1..Len(strata) : k # l => Stratum(k) \cap Stratum(l) = {}
<1> DEFINE n == Count("parts")
           levels == Count("bom_levels")
<1>1. /\ n \in Nat \ {0} /\ levels \in Nat \ {0}
      /\ strata \in [1..levels -> Nat \ {0}] /\ Total(strata, 0) = 0 /\ Total(strata, levels) = n
      /\ \A k \in 0..levels : Total(strata, k) \in Int
      /\ \A k \in 1..levels : Total(strata, k) = strata[k] + Total(strata, k - 1)
  <2>1. n = Counts[scale].parts /\ levels = Counts[scale].bom_levels
    BY DEF Count
  <2>2. scale \in Scales /\ strata = Strata(n, levels)
    BY DEF StrataOK
  <2> HIDE DEF n, levels
  <2> QED BY <2>1, <2>2, StrataShare
<1> HIDE DEF n, levels
<1>2. Len(strata) = levels
  BY <1>1
<1>3. \A k \in 1..levels : Total(strata, k - 1) < Total(strata, k)
  <2> SUFFICES ASSUME NEW k \in 1..levels PROVE Total(strata, k - 1) < Total(strata, k)
    OBVIOUS
  <2>1. strata[k] \in Nat \ {0} /\ Total(strata, k - 1) \in Int /\ Total(strata, k) = strata[k] + Total(strata, k - 1)
    <3>1. k - 1 \in 0..levels
      BY <1>1
    <3>2. strata[k] \in Nat \ {0} /\ Total(strata, k - 1) \in Int
      BY <1>1, <3>1
    <3> QED BY <1>1, <3>2
  <2> QED BY ONLY <2>1
<1>4. ASSUME NEW k \in 0..levels PROVE \A l \in k..levels : Total(strata, k) <= Total(strata, l)
  <2> DEFINE S == {d \in Nat : k + d <= levels => Total(strata, k) <= Total(strata, k + d)}
  <2>1. 0 \in S
    BY <1>1
  <2>2. ASSUME NEW d \in Nat, d \in S PROVE d + 1 \in S
    <3>1. CASE k + (d + 1) <= levels
      <4>1. k + (d + 1) \in 1..levels /\ k + d <= levels /\ (k + (d + 1)) - 1 = k + d /\ k + d \in 0..levels /\ k + (d + 1) \in 0..levels
        BY <1>1, <3>1
      <4>2. Total(strata, k + d) < Total(strata, k + (d + 1))
        BY <1>3, <4>1
      <4>3. Total(strata, k) <= Total(strata, k + d)
        BY <2>2, <4>1
      <4>4. Total(strata, k) \in Int /\ Total(strata, k + d) \in Int /\ Total(strata, k + (d + 1)) \in Int
        BY <1>1, <4>1
      <4>5. Total(strata, k) <= Total(strata, k + (d + 1))
        BY ONLY <4>2, <4>3, <4>4
      <4> QED BY <4>5
    <3> QED BY <3>1
  <2> HIDE DEF S
  <2>3. Nat \subseteq S
    BY <2>1, <2>2, NatInd
  <2>4. ASSUME NEW l \in k..levels PROVE Total(strata, k) <= Total(strata, l)
    <3>1. l - k \in Nat /\ k + (l - k) = l /\ l <= levels
      BY <1>1
    <3>2. l - k \in S
      BY <2>3, <3>1
    <3> QED BY <3>1, <3>2 DEF S
  <2> QED BY <2>4
<1>5. ASSUME NEW l \in 1..levels
      PROVE  Stratum(l) # {} /\ Stratum(l) \subseteq 1..n
  <2>1. l - 1 \in 0..levels /\ l \in 0..levels /\ l - 1 \in 0..levels /\ levels \in l..levels /\ l - 1 \in 0..levels /\ 0 \in 0..levels
    BY <1>1
  <2>2. Total(strata, l - 1) \in Int /\ Total(strata, l) \in Int /\ Total(strata, l - 1) < Total(strata, l)
    BY <1>1, <1>3, <2>1
  <2>3. 0 <= Total(strata, l - 1)
    BY <1>1, <1>4, <2>1
  <2>4. Total(strata, l) <= n
    BY <1>1, <1>4, <2>1
  <2>5. Total(strata, l) \in Stratum(l)
    BY <2>2 DEF Stratum
  <2>6. ASSUME NEW a \in Int, NEW b \in Int, 0 <= a, b <= n PROVE (a + 1)..b \subseteq 1..n
    BY <1>1, <2>6
  <2>7. Stratum(l) \subseteq 1..n
    BY ONLY <2>2, <2>3, <2>4, <2>6 DEF Stratum
  <2> QED BY ONLY <2>5, <2>7
<1>6. ASSUME NEW k \in 1..levels, NEW l \in 1..levels, k < l PROVE Stratum(k) \cap Stratum(l) = {}
  <2>1. k \in 0..levels /\ l - 1 \in k..levels /\ l - 1 \in 0..levels /\ l \in 0..levels
    BY <1>1, <1>6
  <2>2. Total(strata, k) <= Total(strata, l - 1) /\ Total(strata, k) \in Int /\ Total(strata, l - 1) \in Int
    BY <1>1, <1>4, <2>1
  <2>3. ASSUME NEW p \in Stratum(k), p \in Stratum(l) PROVE FALSE
    <3>1. p \in Int /\ p <= Total(strata, k) /\ Total(strata, l - 1) + 1 <= p
      BY <2>3 DEF Stratum
    <3> QED BY ONLY <2>2, <3>1
  <2> QED BY <2>3
<1>7. \A k, l \in 1..levels : k # l => Stratum(k) \cap Stratum(l) = {}
  <2> SUFFICES ASSUME NEW k \in 1..levels, NEW l \in 1..levels, k # l PROVE Stratum(k) \cap Stratum(l) = {}
    OBVIOUS
  <2>1. k < l \/ l < k
    OBVIOUS
  <2> QED BY <1>6, <2>1
<1> QED BY <1>1, <1>2, <1>5, <1>7 DEF n, levels
-------------------------------------------------------------------------------
(* The inductive invariant: what is there when generate() reaches a phase.  *)

BeforeProducts == {"regions", "suppliers", "categories", "products"}
BeforeCustomers == BeforeProducts \cup {"customers"}
BeforeOrders == BeforeCustomers \cup {"orders"}
BeforeEmployees == BeforeOrders \cup {"employees"}
BeforeParts == BeforeEmployees \cup {"parts"}
BeforeReferrals == BeforeParts \cup {"bom", "referrals"}

AheadEmpty ==
  /\ phase \in BeforeReferrals \cup {"rewire", "built"}
  /\ phase \in BeforeProducts => products = <<>>
  /\ phase \in BeforeCustomers => customers = <<>>
  /\ phase \in BeforeOrders => orders = <<>>
  /\ phase \in BeforeReferrals => referred_by = <<>>
  /\ phase # "built" => rewired = {}

CategoriesOK == \A c \in DOMAIN categories : c \in Nat \ {0} /\ categories[c] \in 0..(c - 1)

EmployeesOK ==
  /\ phase \in BeforeEmployees => employees = <<>>
  /\ phase \notin BeforeEmployees =>
       employees = [i \in 1..Count("employees") |-> Manager(i, Count("branching"))]

CustomersOK == DOMAIN customers = 1..Len(customers) /\ Len(customers) \in Nat

\* Referrals lead to earlier customers, but for the rewired ones.
ReferralsOK ==
  /\ DOMAIN referred_by = {} \/ DOMAIN referred_by = 1..Len(customers)
  /\ referred_by = [i \in DOMAIN referred_by |-> referred_by[i]]
  /\ \A i \in DOMAIN referred_by :
       IF i \in rewired THEN referred_by[i] \in Later(i) ELSE referred_by[i] \in 0..(i - 1)
  /\ IsFiniteSet(rewired) /\ Cardinality(rewired) <= Count("referral_cycles")

\* The first m levels have their edges, each to the level below.
EdgesThrough(m) ==
  /\ \A e \in edges : \E l \in 1..m : e \in Stratum(l) \X Stratum(l + 1)
  /\ \A l \in 1..m : \A p \in Stratum(l) : \E c \in Stratum(l + 1) : <<p, c>> \in edges

BomOK ==
  /\ phase \in BeforeParts => strata = <<>> /\ edges = {}
  /\ phase \notin BeforeParts => StrataOK
  /\ phase = "bom" => \E m \in 0..(Len(strata) - 2) : EdgesThrough(m)
  /\ phase \in {"referrals", "rewire", "built"} => EdgesThrough(Len(strata) - 1)

IInv ==
  /\ TypeOK /\ AheadEmpty /\ CategoriesOK /\ EmployeesOK /\ CustomersOK
  /\ ReferralsOK /\ BomOK
LEMMA CountsAre ==
  ASSUME scale \in Scales
  PROVE  /\ \A k \in {"regions", "suppliers", "category_roots", "category_per_level", "customers",
                      "products", "orders", "branching", "bom_levels", "parts"} : Count(k) \in Nat \ {0}
         /\ Count("employees") \in Nat \ {0, 1}
         /\ Count("category_levels") \in Nat /\ Count("referral_cycles") \in Nat
BY CountsAssumption DEF Count

\* The phases in their order.
LEMMA AheadStep ==
  ASSUME AheadEmpty, [Next]_vars PROVE AheadEmpty'
<1> USE DEF AheadEmpty, BeforeProducts, BeforeCustomers, BeforeOrders, BeforeEmployees, BeforeParts, BeforeReferrals
<1>1. CASE GenRegions \/ GenSuppliers \/ GenCategories
  BY <1>1 DEF GenRegions, GenSuppliers, GenCategories
<1>2. CASE GenProducts \/ GenCustomers \/ GenOrders
  BY <1>2 DEF GenProducts, GenCustomers, GenOrders
<1>3. CASE GenEmployees \/ GenParts \/ GenBomLevel
  BY <1>3 DEF GenEmployees, GenParts, GenBomLevel, shop
<1>4. CASE InjectReferrals \/ RewireReferrals
  BY <1>4 DEF InjectReferrals, RewireReferrals, shop
<1>5. CASE Built \/ UNCHANGED vars
  BY <1>5 DEF Built, vars, shop
<1> QED BY <1>1, <1>2, <1>3, <1>4, <1>5 DEF Next

\* A parent is before its children.
LEMMA CategoriesStep ==
  ASSUME TypeOK, CategoriesOK, [Next]_vars PROVE CategoriesOK'
<1>1. CASE GenCategories
  <2> DEFINE roots == Count("category_roots")
             per == Count("category_per_level")
             levels == Count("category_levels")
  <2>1. roots \in Nat \ {0} /\ per \in Nat \ {0} /\ levels \in Nat
    BY CountsAre DEF TypeOK
  <2>2. categories' = IF levels <= 1 THEN [c \in 1..roots |-> None] ELSE LevelParents(roots, per, levels)
    BY <1>1 DEF GenCategories
  <2> HIDE DEF roots, per, levels
  <2>3. CASE levels <= 1
    BY <2>1, <2>2, <2>3 DEF CategoriesOK, None
  <2>4. CASE ~(levels <= 1)
    <3> DEFINE last == LevelEnd(roots, per, levels)[levels - 1]
    <3>1. categories' = [c \in 1..last |-> IF c <= roots THEN None ELSE (c - roots - 1) \div per + 1]
      BY <2>2, <2>4 DEF LevelParents
    <3> HIDE DEF last
    <3>2. ASSUME NEW c \in 1..last
          PROVE  c \in Nat \ {0} /\ (IF c <= roots THEN None ELSE (c - roots - 1) \div per + 1) \in 0..(c - 1)
      <4>1. c \in Nat \ {0}
        OBVIOUS
      <4>2. CASE c <= roots
        BY <4>1, <4>2 DEF None
      <4>3. CASE ~(c <= roots)
        <5>1. c - roots - 1 \in Nat
          BY <2>1, <4>1, <4>3
        <5>2. (c - roots - 1) \div per \in Nat /\ (c - roots - 1) \div per <= c - roots - 1
          BY <2>1, <5>1, Quotient
        <5>3. (c - roots - 1) \div per + 1 \in 0..(c - 1)
          BY ONLY <2>1, <4>1, <5>2
        <5> QED BY <4>1, <4>3, <5>3
      <4> QED BY <4>2, <4>3
    <3> QED BY <3>1, <3>2 DEF CategoriesOK
  <2> QED BY <2>3, <2>4
<1>2. CASE UNCHANGED categories
  BY <1>2 DEF CategoriesOK
<1>3. [Next]_vars => GenCategories \/ UNCHANGED categories
  BY DEF Next, vars, shop, Built, GenRegions, GenSuppliers, GenProducts, GenCustomers, GenOrders, GenEmployees,
         GenParts, GenBomLevel, InjectReferrals, RewireReferrals
<1> QED BY <1>1, <1>2, <1>3

LEMMA EmployeesStep ==
  ASSUME AheadEmpty, EmployeesOK, [Next]_vars PROVE EmployeesOK'
<1> USE DEF AheadEmpty, EmployeesOK, Count, BeforeProducts, BeforeCustomers, BeforeOrders, BeforeEmployees, BeforeParts, BeforeReferrals
<1>1. CASE GenRegions \/ GenSuppliers \/ GenCategories
  BY <1>1 DEF GenRegions, GenSuppliers, GenCategories
<1>2. CASE GenProducts \/ GenCustomers \/ GenOrders
  BY <1>2 DEF GenProducts, GenCustomers, GenOrders
<1>3. CASE GenEmployees \/ GenParts \/ GenBomLevel
  BY <1>3 DEF GenEmployees, GenParts, GenBomLevel, shop
<1>4. CASE InjectReferrals \/ RewireReferrals
  BY <1>4 DEF InjectReferrals, RewireReferrals, shop
<1>5. CASE Built \/ UNCHANGED vars
  BY <1>5 DEF Built, vars, shop
<1> QED BY <1>1, <1>2, <1>3, <1>4, <1>5 DEF Next

LEMMA CustomersStep ==
  ASSUME TypeOK, CustomersOK, [Next]_vars PROVE CustomersOK'
<1>1. CASE GenCustomers
  <2> DEFINE n == Count("customers")
  <2>1. customers' \in [1..n -> 1..regions]
    BY <1>1 DEF GenCustomers
  <2>2. n \in Nat
    BY CountsAre DEF TypeOK
  <2> HIDE DEF n
  <2>3. Len(customers') = n /\ DOMAIN customers' = 1..n
    BY <2>1, <2>2
  <2> QED BY <2>2, <2>3 DEF CustomersOK
<1>2. CASE UNCHANGED customers
  BY <1>2 DEF CustomersOK
<1>3. [Next]_vars => GenCustomers \/ UNCHANGED customers
  BY DEF Next, vars, shop, Built, GenRegions, GenSuppliers, GenCategories, GenProducts, GenOrders, GenEmployees,
         GenParts, GenBomLevel, InjectReferrals, RewireReferrals
<1> QED BY <1>1, <1>2, <1>3

\* Each referral goes to an earlier customer, a rewired one to a later.
LEMMA ReferralsStep ==
  ASSUME TypeOK, AheadEmpty, CustomersOK, ReferralsOK, [Next]_vars PROVE ReferralsOK'
<1>1. CASE InjectReferrals
  <2>1. rewired' = {} /\ rewired = {} /\ UNCHANGED <<scale, customers>> /\ phase = "referrals" /\ referred_by = <<>>
    BY <1>1 DEF InjectReferrals, AheadEmpty, BeforeReferrals, shop
  <2>2. CASE Len(customers) < 2
    BY <1>1, <2>1, <2>2 DEF InjectReferrals, ReferralsOK, Count
  <2>3. CASE ~(Len(customers) < 2)
    <3>1. /\ referred_by' \in [1..Len(customers) -> 0..Len(customers)]
          /\ \A i \in 1..Len(customers) : referred_by'[i] \in Earlier(i)
      BY <1>1, <2>3 DEF InjectReferrals
    <3>2. \A i \in 1..Len(customers) : referred_by'[i] \in 0..(i - 1)
      BY <3>1 DEF Earlier, None, CustomersOK
    <3>3. DOMAIN referred_by' = 1..Len(customers') /\ referred_by' = [i \in DOMAIN referred_by' |-> referred_by'[i]]
      BY <2>1, <3>1
    <3>4. (IsFiniteSet(rewired) /\ Cardinality(rewired) <= Count("referral_cycles"))'
      BY <2>1 DEF ReferralsOK, Count
    <3> QED BY <2>1, <3>2, <3>3, <3>4 DEF ReferralsOK
  <2> QED BY <2>2, <2>3
<1>2. CASE RewireReferrals
  <2>1. PICK picked \in Rewirings :
          /\ rewired' = picked
          /\ \E to \in [picked -> UNION {Later(i) : i \in picked}] :
               /\ \A i \in picked : to[i] \in Later(i)
               /\ referred_by' = [i \in DOMAIN referred_by |-> IF i \in picked THEN to[i] ELSE referred_by[i]]
    BY <1>2 DEF RewireReferrals
  <2>2. PICK to : /\ \A i \in picked : to[i] \in Later(i)
                  /\ referred_by' = [i \in DOMAIN referred_by |-> IF i \in picked THEN to[i] ELSE referred_by[i]]
    BY <2>1
  <2>3. rewired = {} /\ UNCHANGED <<scale, customers>>
    BY <1>2 DEF RewireReferrals, AheadEmpty, shop
  <2>4. \A i \in DOMAIN referred_by' :
          IF i \in rewired' THEN referred_by'[i] \in Later(i)' ELSE referred_by'[i] \in 0..(i - 1)
    BY <2>1, <2>2, <2>3 DEF ReferralsOK, Later
  <2>5. /\ DOMAIN referred_by' = {} \/ DOMAIN referred_by' = 1..Len(customers')
        /\ referred_by' = [i \in DOMAIN referred_by' |-> referred_by'[i]]
    BY <2>2, <2>3 DEF ReferralsOK
  <2>6. IsFiniteSet(picked) /\ Cardinality(picked) <= Count("referral_cycles")
    <3> DEFINE n == Len(customers)
    <3>1. Count("referral_cycles") \in Nat /\ n \in Nat
      BY CountsAre DEF TypeOK, CustomersOK
    <3>2. CASE Count("referral_cycles") = 0 \/ n <= ReferralTail
      <4>1. picked = {}
        BY <3>2 DEF Rewirings
      <4> QED BY <3>1, <4>1, FS_EmptySet
    <3>3. CASE ~(Count("referral_cycles") = 0 \/ n <= ReferralTail)
      <4>1. /\ picked \in SUBSET (1..(n - ReferralTail))
            /\ Cardinality(picked) = Least(Count("referral_cycles"), n \div ReferralShare)
        BY <3>3 DEF Rewirings
      <4>2. n - ReferralTail \in Int /\ n \div ReferralShare \in Nat
        <5>1. ReferralTail \in Nat /\ ReferralShare \in Nat \ {0}
          BY CountsAssumption
        <5>2. n \div ReferralShare \in Nat
          BY <3>1, <5>1, Quotient
        <5> QED BY <3>1, <5>1, <5>2
      <4>3. IsFiniteSet(1..(n - ReferralTail))
        BY <4>2, FS_Interval
      <4>4. IsFiniteSet(picked)
        BY <4>1, <4>3, FS_Subset
      <4>5. Least(Count("referral_cycles"), n \div ReferralShare) <= Count("referral_cycles")
        BY <3>1, <4>2 DEF Least
      <4> QED BY <4>1, <4>4, <4>5
    <3> QED BY <3>2, <3>3
  <2>7. (IsFiniteSet(rewired) /\ Cardinality(rewired) <= Count("referral_cycles"))'
    BY <2>1, <2>3, <2>6 DEF Count
  <2> QED BY <2>4, <2>5, <2>7 DEF ReferralsOK
<1>3. CASE GenCustomers
  <2>1. referred_by = <<>> /\ rewired = {} /\ UNCHANGED <<scale, referred_by, rewired>>
    BY <1>3 DEF GenCustomers, AheadEmpty, BeforeReferrals, BeforeParts, BeforeEmployees, BeforeOrders, BeforeCustomers
  <2> QED BY <2>1 DEF ReferralsOK, Count
<1>4. CASE UNCHANGED <<scale, customers, referred_by, rewired>>
  BY <1>4 DEF ReferralsOK, Count, Later
<1>5. [Next]_vars =>
        InjectReferrals \/ RewireReferrals \/ GenCustomers \/ UNCHANGED <<scale, customers, referred_by, rewired>>
  BY DEF Next, vars, shop, Built, GenRegions, GenSuppliers, GenCategories, GenProducts, GenOrders, GenEmployees,
         GenParts, GenBomLevel
<1> QED BY <1>1, <1>2, <1>3, <1>4, <1>5
LEMMA TypeStep ==
  ASSUME TypeOK, AheadEmpty, CustomersOK, CategoriesOK', ReferralsOK, [Next]_vars PROVE TypeOK'
<1> USE DEF AheadEmpty, BeforeProducts, BeforeCustomers, BeforeOrders, BeforeEmployees, BeforeParts, BeforeReferrals
<1> USE DEF TypeOK
<1>1. CASE GenRegions
  <2>1. regions' \in Nat
    BY <1>1, CountsAre DEF GenRegions
  <2> QED BY <1>1, <2>1 DEF GenRegions, None
<1>2. CASE GenSuppliers
  <2>1. suppliers' \in Nat
    BY <1>2, CountsAre DEF GenSuppliers
  <2> QED BY <1>2, <2>1 DEF GenSuppliers, None
<1>3. CASE GenCategories
  <2>1. \A c \in DOMAIN categories' : categories'[c] \in Nat
    BY DEF CategoriesOK
  <2> QED BY <1>3, <2>1 DEF GenCategories, None
<1>4. CASE GenProducts
  BY <1>4 DEF GenProducts, None
<1>5. CASE GenCustomers
  BY <1>5 DEF GenCustomers, None
<1>6. CASE GenOrders
  <2>1. \A o \in DOMAIN orders' : orders'[o].customer \in DOMAIN customers /\ orders'[o].products \subseteq DOMAIN products
    BY <1>6 DEF GenOrders, LineItems
  <2> QED BY <1>6, <2>1 DEF GenOrders, None
<1>7. CASE GenEmployees
  <2>1. \A i \in DOMAIN employees' : employees'[i] \in Nat
    <3>1. employees' = [i \in 1..Count("employees") |-> Manager(i, Count("branching"))]
      BY <1>7 DEF GenEmployees
    <3>2. Count("branching") \in Nat \ {0}
      BY CountsAre
    <3>3. ASSUME NEW i \in 1..Count("employees") PROVE Manager(i, Count("branching")) \in Nat
      <4>1. i # 1 => i - 2 \in Nat
        OBVIOUS
      <4> QED BY <3>2, <4>1, Quotient DEF Manager, None
    <3> QED BY <3>1, <3>3
  <2> QED BY <1>7, <2>1 DEF GenEmployees, None, shop
<1>8. CASE GenParts \/ GenBomLevel \/ Built \/ UNCHANGED vars
  BY <1>8 DEF GenParts, GenBomLevel, Built, vars, shop, None
<1>9. CASE InjectReferrals
  <2>1. \A i \in DOMAIN referred_by' : referred_by'[i] \in {None} \cup DOMAIN customers
    <3>1. CASE Len(customers) < 2
      BY <1>9, <3>1 DEF InjectReferrals
    <3>2. CASE ~(Len(customers) < 2)
      <4>1. referred_by' \in [1..Len(customers) -> 0..Len(customers)]
        BY <1>9, <3>2 DEF InjectReferrals
      <4> QED BY <4>1 DEF None, CustomersOK
    <3> QED BY <3>1, <3>2
  <2> QED BY <1>9, <2>1 DEF InjectReferrals, shop
<1>10. CASE RewireReferrals
  <2>1. ReferralsOK' /\ UNCHANGED customers
    BY <1>10, ReferralsStep DEF Next, RewireReferrals, shop
  <2>2. \A i \in DOMAIN referred_by' : referred_by'[i] \in {None} \cup DOMAIN customers
    <3> SUFFICES ASSUME NEW i \in DOMAIN referred_by' PROVE referred_by'[i] \in {None} \cup DOMAIN customers
      OBVIOUS
    <3>1. i \in 1..Len(customers) /\ Len(customers) \in Nat /\ DOMAIN customers = 1..Len(customers)
      BY <2>1 DEF ReferralsOK, CustomersOK
    <3>2. referred_by'[i] \in (i + 1)..Len(customers) \/ referred_by'[i] \in 0..(i - 1)
      BY <2>1 DEF ReferralsOK, Later
    <3> QED BY <3>1, <3>2 DEF None
  <2>3. rewired' \subseteq DOMAIN customers
    <3>1. PICK picked \in Rewirings : rewired' = picked
      BY <1>10 DEF RewireReferrals
    <3>2. picked \subseteq 1..(Len(customers) - ReferralTail)
      BY DEF Rewirings
    <3>3. ReferralTail \in Nat /\ Len(customers) \in Nat /\ DOMAIN customers = 1..Len(customers)
      BY CountsAssumption DEF CustomersOK
    <3> QED BY <3>1, <3>2, <3>3
  <2> QED BY <1>10, <2>2, <2>3 DEF RewireReferrals, shop
<1> QED BY <1>1, <1>2, <1>3, <1>4, <1>5, <1>6, <1>7, <1>8, <1>9, <1>10 DEF Next

\* The levels whose edges are there are counted right.
LEMMA LevelsAre ==
  ASSUME StrataOK, NEW m \in Nat, m < Len(strata), EdgesThrough(m)
  PROVE  Cardinality(LevelsWithEdges) = m
<1> DEFINE deep == Len(strata)
<1>1. /\ deep \in Nat /\ \A l \in 1..deep : Stratum(l) # {}
      /\ \A k, l \in 1..deep : k # l => Stratum(k) \cap Stratum(l) = {}
  BY StrataFollow
<1> HIDE DEF deep
<1>2. ASSUME NEW l \in 1..deep, NEW e \in edges, e[1] \in Stratum(l) PROVE l \in 1..m
  <2>1. PICK k \in 1..m : e \in Stratum(k) \X Stratum(k + 1)
    BY DEF EdgesThrough
  <2>2. e[1] \in Stratum(k) /\ k \in 1..deep
    BY <2>1 DEF deep
  <2>3. k = l
    BY <1>1, <1>2, <2>2
  <2> QED BY <2>3
<1>3. ASSUME NEW l \in 1..m PROVE \E e \in edges : e[1] \in Stratum(l)
  <2>1. l \in 1..deep
    BY DEF deep
  <2>2. PICK p : p \in Stratum(l)
    BY <1>1, <2>1
  <2>3. PICK c : <<p, c>> \in edges
    BY <2>2 DEF EdgesThrough
  <2>4. <<p, c>>[1] = p
    OBVIOUS
  <2> QED BY <2>2, <2>3, <2>4
<1>4. 1..m \subseteq 1..deep
  BY <1>1 DEF deep
<1>5. LevelsWithEdges = 1..m
  BY <1>2, <1>3, <1>4 DEF LevelsWithEdges, deep
<1> QED BY <1>5, FS_Interval
\* A level of assemblies gets its edges, all of them to the level below.
LEMMA LevelStep ==
  ASSUME AheadEmpty, BomOK, GenBomLevel PROVE BomOK'
<1>1. PICK m \in 0..(Len(strata) - 2) : EdgesThrough(m)
  BY DEF GenBomLevel, BomOK
<1>2. phase = "bom" /\ StrataOK
  BY DEF GenBomLevel, BomOK, BeforeParts, BeforeEmployees, BeforeOrders, BeforeCustomers, BeforeProducts
<1>3. /\ Len(strata) \in Nat /\ m \in Nat /\ m + 1 < Len(strata) /\ m + 1 \in 1..Len(strata) /\ m + 2 \in 1..Len(strata)
  BY <1>1, <1>2, StrataFollow
<1> DEFINE l == m + 1
<1>4. Cardinality(LevelsWithEdges) + 1 = l
  BY <1>1, <1>2, <1>3, LevelsAre
<1>5. PICK kids \in [Stratum(l) -> Picks(l)] :
        edges' = edges \cup {e \in Stratum(l) \X ChildPool(l) : e[2] \in kids[e[1]]}
  BY <1>4 DEF GenBomLevel
<1>6. UNCHANGED <<scale, strata>> /\ phase' = IF l = Len(strata) - 1 THEN "referrals" ELSE "bom"
  BY <1>4 DEF GenBomLevel
<1>7. ChildPool(l) = Stratum(m + 2)
  BY <1>3 DEF ChildPool
<1>8. ASSUME NEW p \in Stratum(l) PROVE \E c \in Stratum(l + 1) : <<p, c>> \in edges'
  <2>1. kids[p] \in Picks(l)
    OBVIOUS
  <2>2. PICK k \in 2..5 : Cardinality(kids[p]) = Least(k, Cardinality(ChildPool(l)))
    BY <2>1 DEF Picks
  <2>3. kids[p] \subseteq ChildPool(l)
    BY <2>1 DEF Picks
  <2>4. Cardinality(ChildPool(l)) \in Nat /\ Cardinality(ChildPool(l)) # 0
    <3>1. IsFiniteSet(Stratum(m + 2))
      <4>1. Stratum(m + 2) \subseteq 1..Count("parts") /\ scale \in Scales
        BY <1>2, <1>3, StrataFollow DEF StrataOK
      <4>2. Count("parts") \in Nat
        BY <4>1, CountsAre
      <4>3. IsFiniteSet(1..Count("parts"))
        BY <4>2, FS_Interval
      <4> QED BY <4>1, <4>3, FS_Subset
    <3>2. Stratum(m + 2) # {}
      BY <1>2, <1>3, StrataFollow
    <3> QED BY <1>7, <3>1, <3>2, FS_EmptySet, FS_CardinalityType
  <2>5. kids[p] # {}
    <3>1. Cardinality(kids[p]) # 0
      BY <2>2, <2>4 DEF Least
    <3> QED BY <3>1, FS_EmptySet
  <2>6. PICK c \in kids[p] : c \in ChildPool(l)
    BY <2>3, <2>5
  <2>7. <<p, c>> \in edges'
    BY <1>5, <2>6
  <2>8. l + 1 = m + 2
    BY <1>3
  <2> QED BY <1>7, <2>6, <2>7, <2>8
<1>9. ASSUME NEW e \in edges' PROVE \E k \in 1..(m + 1) : e \in Stratum(k) \X Stratum(k + 1)
  <2>1. CASE e \in edges
    <3>1. PICK k \in 1..m : e \in Stratum(k) \X Stratum(k + 1)
      BY <1>1, <2>1 DEF EdgesThrough
    <3>2. k \in 1..(m + 1)
      BY <1>3
    <3> QED BY <3>1, <3>2
  <2>2. CASE e \notin edges
    <3>1. e \in Stratum(l) \X ChildPool(l)
      BY <1>5, <2>2
    <3>2. l \in 1..(m + 1) /\ l + 1 = m + 2
      BY <1>3
    <3> QED BY <1>7, <3>1, <3>2
  <2> QED BY <2>1, <2>2
<1>10. ASSUME NEW k \in 1..(m + 1), NEW p \in Stratum(k) PROVE \E c \in Stratum(k + 1) : <<p, c>> \in edges'
  <2>1. CASE k = l
    BY <1>8, <2>1
  <2>2. CASE k # l
    <3>1. k \in 1..m
      BY <1>3, <2>2
    <3> QED BY <1>1, <1>5, <3>1 DEF EdgesThrough
  <2> QED BY <2>1, <2>2
<1>11. Len(strata)' = Len(strata) /\ \A k : Stratum(k)' = Stratum(k)
  BY <1>6 DEF Stratum
<1>12. EdgesThrough(m + 1)'
  BY <1>9, <1>10, <1>11 DEF EdgesThrough
<1>13. StrataOK'
  BY <1>2, <1>6 DEF StrataOK, Count
<1>14. CASE l = Len(strata) - 1
  <2>1. phase' = "referrals" /\ (Len(strata) - 1)' = m + 1
    BY <1>3, <1>6, <1>14
  <2> QED BY <1>12, <1>13, <2>1 DEF BomOK, BeforeParts, BeforeEmployees, BeforeOrders, BeforeCustomers, BeforeProducts
<1>15. CASE l # Len(strata) - 1
  <2>1. phase' = "bom" /\ m + 1 \in 0..(Len(strata') - 2)
    BY <1>3, <1>6, <1>15
  <2> QED BY <1>12, <1>13, <2>1 DEF BomOK, BeforeParts, BeforeEmployees, BeforeOrders, BeforeCustomers, BeforeProducts
<1> QED BY <1>14, <1>15

LEMMA BomStep ==
  ASSUME TypeOK, AheadEmpty, BomOK, [Next]_vars PROVE BomOK'
<1>1. CASE GenBomLevel
  BY <1>1, LevelStep
<1>2. CASE GenParts
  <2>1. edges = {} /\ UNCHANGED <<scale, edges>> /\ phase \in BeforeParts
    BY <1>2 DEF GenParts, BomOK, BeforeParts
  <2>2. StrataOK'
    BY <1>2, <2>1 DEF GenParts, StrataOK, Count, TypeOK
  <2>3. Len(strata)' \in Nat /\ Len(strata)' = Count("bom_levels") /\ Len(strata)' >= 1
    <3> DEFINE n == Counts[scale].parts
               levels == Counts[scale].bom_levels
    <3>1. scale \in Scales /\ strata' = Strata(n, levels) /\ levels = Count("bom_levels")
      BY <1>2 DEF GenParts, TypeOK, Count
    <3>2. levels \in Nat \ {0} /\ Strata(n, levels) \in [1..levels -> Nat \ {0}]
      BY <3>1, StrataShare
    <3> HIDE DEF n, levels
    <3>3. Len(strata') = levels
      BY <3>1, <3>2
    <3> QED BY <3>1, <3>2, <3>3
  <2>4. EdgesThrough(0)'
    BY <2>1 DEF EdgesThrough
  <2>5. CASE Count("bom_levels") = 1
    <3>1. phase' = "referrals" /\ (Len(strata) - 1)' = 0
      BY <1>2, <2>3, <2>5 DEF GenParts
    <3> QED BY <2>2, <2>4, <3>1 DEF BomOK, BeforeParts, BeforeEmployees, BeforeOrders, BeforeCustomers, BeforeProducts
  <2>6. CASE Count("bom_levels") # 1
    <3>1. phase' = "bom" /\ 0 \in 0..(Len(strata)' - 2)
      BY <1>2, <2>3, <2>6 DEF GenParts
    <3> QED BY <2>2, <2>4, <3>1 DEF BomOK, BeforeParts, BeforeEmployees, BeforeOrders, BeforeCustomers, BeforeProducts
  <2> QED BY <2>5, <2>6
<1>3. CASE GenRegions \/ GenSuppliers \/ GenCategories \/ GenProducts \/ GenCustomers \/ GenOrders \/ GenEmployees
  <2>1. strata' = strata /\ edges' = edges /\ phase \in BeforeParts /\ phase' \in BeforeParts
    BY <1>3 DEF GenRegions, GenSuppliers, GenCategories, GenProducts, GenCustomers, GenOrders, GenEmployees, bom,
       BeforeParts, BeforeEmployees, BeforeOrders, BeforeCustomers, BeforeProducts
  <2> QED BY <2>1 DEF BomOK, BeforeParts, BeforeEmployees, BeforeOrders, BeforeCustomers, BeforeProducts
<1>4. CASE InjectReferrals \/ RewireReferrals \/ Built
  <2>1. /\ UNCHANGED <<scale, strata, edges>>
        /\ phase \in {"referrals", "rewire", "built"} /\ phase' \in {"referrals", "rewire", "built"}
    BY <1>4 DEF InjectReferrals, RewireReferrals, Built, vars, bom
  <2>2. StrataOK /\ EdgesThrough(Len(strata) - 1)
    BY <2>1 DEF BomOK, BeforeParts, BeforeEmployees, BeforeOrders, BeforeCustomers, BeforeProducts
  <2>3. StrataOK' /\ EdgesThrough(Len(strata) - 1)'
    BY <2>1, <2>2 DEF StrataOK, EdgesThrough, Count, Stratum
  <2> QED BY <2>1, <2>3 DEF BomOK, BeforeParts, BeforeEmployees, BeforeOrders, BeforeCustomers, BeforeProducts
<1>5. CASE UNCHANGED vars
  BY <1>5 DEF vars, bom, BomOK, StrataOK, EdgesThrough, Count, Stratum
<1> QED BY <1>1, <1>2, <1>3, <1>4, <1>5 DEF Next

\* Every employee but the first has an earlier one for a manager.
ManagersFirst ==
  /\ \E n \in Nat \ {0, 1} : DOMAIN employees = 1..n
  /\ \A e \in DOMAIN employees : employees[e] \in (IF e = Root THEN {None} ELSE 1..(e - 1))

LEMMA ManagersAreFirst ==
  ASSUME IInv, phase = "built"
  PROVE  ManagersFirst /\ 2 \in Reports({Root})
<1>1. employees = [j \in 1..Count("employees") |-> Manager(j, Count("branching"))]
  BY DEF IInv, EmployeesOK, BeforeEmployees, BeforeOrders, BeforeCustomers, BeforeProducts
<1>2. Count("branching") \in Nat \ {0} /\ Count("employees") \in Nat \ {0, 1}
  BY CountsAre DEF IInv, TypeOK
<1>3. ASSUME NEW i \in DOMAIN employees PROVE employees[i] \in (IF i = Root THEN {None} ELSE 1..(i - 1))
  <2>1. i \in 1..Count("employees") /\ employees[i] = Manager(i, Count("branching"))
    BY <1>1
  <2>2. CASE i = 1
    BY <2>1, <2>2 DEF Manager, Root
  <2>3. CASE i # 1
    <3>1. i - 2 \in Nat /\ i \in Int
      BY <2>1, <2>3
    <3>2. (i - 2) \div Count("branching") \in Nat /\ (i - 2) \div Count("branching") <= i - 2
      BY <1>2, <3>1, Quotient
    <3>3. (i - 2) \div Count("branching") + 1 \in 1..(i - 1)
      BY ONLY <3>1, <3>2
    <3> QED BY <2>1, <2>3, <3>3 DEF Manager, Root
  <2> QED BY <2>2, <2>3
<1>4. ManagersFirst
  BY <1>1, <1>2, <1>3 DEF ManagersFirst
<1>5. 2 \in DOMAIN employees
  BY <1>1, <1>2
<1>6. employees[2] = 1
  BY <1>3, <1>5 DEF Root
<1> QED BY <1>4, <1>5, <1>6 DEF Reports, Root

THEOREM GeneratorInvariance == Spec => []IInv
<1>1. Init => IInv
  <2> SUFFICES ASSUME Init PROVE IInv
    OBVIOUS
  <2>1. phase \in BeforeParts /\ phase \in BeforeReferrals /\ phase \in BeforeEmployees /\ phase \notin {"bom", "referrals", "rewire", "built"}
    BY DEF Init, BeforeReferrals, BeforeParts, BeforeEmployees, BeforeOrders, BeforeCustomers, BeforeProducts
  <2>2. TypeOK /\ CategoriesOK /\ CustomersOK
    BY DEF Init, TypeOK, CategoriesOK, CustomersOK
  <2>3. AheadEmpty /\ EmployeesOK /\ BomOK
    BY <2>1 DEF Init, AheadEmpty, EmployeesOK, BomOK
  <2>4. Count("referral_cycles") \in Nat
    BY <2>2, CountsAre DEF TypeOK
  <2>5. ReferralsOK
    BY <2>4, FS_EmptySet DEF Init, ReferralsOK
  <2> QED BY <2>2, <2>3, <2>5 DEF IInv
<1>2. IInv /\ [Next]_vars => IInv'
  <2> SUFFICES ASSUME IInv, [Next]_vars PROVE IInv'
    OBVIOUS
  <2>1. TypeOK /\ AheadEmpty /\ CategoriesOK /\ EmployeesOK /\ CustomersOK /\ ReferralsOK /\ BomOK
    BY DEF IInv
  <2>2. AheadEmpty'
    BY <2>1, AheadStep
  <2>3. CategoriesOK'
    BY <2>1, CategoriesStep
  <2>4. EmployeesOK'
    BY <2>1, EmployeesStep
  <2>5. CustomersOK'
    BY <2>1, CustomersStep
  <2>6. ReferralsOK'
    BY <2>1, ReferralsStep
  <2>7. BomOK'
    BY <2>1, BomStep
  <2>8. TypeOK'
    BY <2>1, <2>3, TypeStep
  <2> QED BY <2>2, <2>3, <2>4, <2>5, <2>6, <2>7, <2>8 DEF IInv
<1> QED BY <1>1, <1>2, PTL DEF Spec
\* Every row refers to a row of an earlier file or an earlier line of its own
\* (load_oracle inserts line by line under foreign keys), at every scale.
THEOREM RowsLoad == Spec => []RowsLoadInFileOrder
<1>1. IInv => RowsLoadInFileOrder
  <2> SUFFICES ASSUME IInv, phase = "built" PROVE RowsLoadInFileOrder
    BY DEF RowsLoadInFileOrder
  <2>1. \A c \in DOMAIN categories : categories[c] \in 0..(c - 1)
    BY DEF IInv, CategoriesOK
  <2>2. \A i \in DOMAIN employees : employees[i] \in (IF i = 1 THEN {None} ELSE 1..(i - 1))
    BY ManagersAreFirst DEF ManagersFirst, Root
  <2>3. \A p \in DOMAIN products : products[p].category \in DOMAIN categories
    BY DEF IInv, TypeOK
  <2>4. ASSUME NEW i \in DOMAIN referred_by PROVE referred_by[i] \in 0..Len(customers) \ {i}
    <3>1. i \in 1..Len(customers) /\ Len(customers) \in Nat
      BY DEF IInv, ReferralsOK, CustomersOK
    <3>2. referred_by[i] \in Later(i) \/ referred_by[i] \in 0..(i - 1)
      BY DEF IInv, ReferralsOK
    <3>3. CASE referred_by[i] \in Later(i)
      BY <3>1, <3>3 DEF Later
    <3>4. CASE referred_by[i] \in 0..(i - 1)
      BY <3>1, <3>4
    <3> QED BY <3>2, <3>3, <3>4
  <2>5. ASSUME NEW e \in edges PROVE {e[1], e[2]} \subseteq 1..Count("parts")
    <3>1. StrataOK /\ EdgesThrough(Len(strata) - 1)
      BY DEF IInv, BomOK, BeforeParts, BeforeEmployees, BeforeOrders, BeforeCustomers, BeforeProducts
    <3>2. PICK l \in 1..(Len(strata) - 1) : e \in Stratum(l) \X Stratum(l + 1)
      BY <3>1 DEF EdgesThrough
    <3>3. l \in 1..Len(strata) /\ l + 1 \in 1..Len(strata)
      BY <3>1, StrataFollow
    <3>4. Stratum(l) \subseteq 1..Count("parts") /\ Stratum(l + 1) \subseteq 1..Count("parts")
      BY <3>1, <3>3, StrataFollow
    <3> QED BY <3>2, <3>4
  <2> QED BY <2>1, <2>2, <2>3, <2>4, <2>5 DEF RowsLoadInFileOrder
<1> QED BY <1>1, GeneratorInvariance, PTL

-------------------------------------------------------------------------------
(* Explosions of the bill of materials.                                     *)

Children(parts) == {e[2] : e \in {f \in edges : f[1] \in parts}}

LEMMA BelowGoesOn ==
  ASSUME NEW p
  PROVE  Below(p, 0) = {p} /\ \A k \in Nat : Below(p, k + 1) = Children(Below(p, k))
<1> DEFINE V == SUBSET ({p} \cup {e[2] : e \in edges})
           step == [q \in Nat \X V |-> Children(q[2])]
<1>1. \A v \in V : Children(v) \in V
  BY DEF Children
<1>2. {p} \in V
  OBVIOUS
<1> HIDE DEF V
<1>3. step \in Steps(V)
  BY <1>1 DEF Steps
<1>4. \A k \in Nat, v \in V : step[<<k, v>>] = Children(v)
  OBVIOUS
<1> HIDE DEF step
<1>5. PICK F : Continues(F, V, {p}, step)
  BY <1>2, <1>3, Recursion
<1>6. F[0] = {p} /\ \A k \in Nat : F[k] \in V /\ F[k + 1] = Children(F[k])
  BY <1>4, <1>5 DEF Continues
<1>7. ASSUME NEW k \in Nat PROVE Below(p, k) = F[k]
  <2> DEFINE Goes(h) == h = [j \in 0..k |-> IF j = 0 THEN {p} ELSE Children(h[j - 1])]
             g == [j \in 0..k |-> F[j]]
  <2>1. Goes(g)
    <3>1. ASSUME NEW j \in 0..k PROVE F[j] = IF j = 0 THEN {p} ELSE Children(g[j - 1])
      <4>1. CASE j = 0
        BY <1>6, <4>1
      <4>2. CASE j # 0
        <5>1. j - 1 \in Nat /\ (j - 1) + 1 = j /\ j - 1 \in 0..k
          BY <4>2
        <5>2. F[(j - 1) + 1] = Children(F[j - 1])
          BY <1>6, <5>1
        <5> QED BY <4>2, <5>1, <5>2
      <4> QED BY <4>1, <4>2
    <3> QED BY <3>1
  <2> DEFINE h == CHOOSE s : Goes(s)
  <2>2. Goes(h)
    <3> HIDE DEF Goes, g
    <3> QED BY <2>1
  <2>3. Below(p, k) = h[k]
    BY DEF Below, Children
  <2> HIDE DEF h
  <2> DEFINE T == {j \in 0..k : h[j] = F[j]}
  <2>4. 0 \in T
    BY <1>6, <2>2
  <2>5. ASSUME NEW j \in Nat, j < k, j \in T PROVE j + 1 \in T
    <3>1. j + 1 \in 0..k /\ (j + 1) - 1 = j /\ j + 1 # 0
      BY <2>5
    <3>2. h[j + 1] = Children(h[(j + 1) - 1])
      BY <2>2, <3>1
    <3>3. h[j] = F[j] /\ F[j + 1] = Children(F[j])
      BY <1>6, <2>5
    <3> QED BY <3>1, <3>2, <3>3
  <2> HIDE DEF T
  <2>6. 0..k \subseteq T
    BY <2>4, <2>5, UpToInd
  <2>7. k \in 0..k
    OBVIOUS
  <2> QED BY <2>3, <2>6, <2>7 DEF T
<1>8. \A k \in Nat : Below(p, k + 1) = F[k + 1] /\ Below(p, k) = F[k]
  BY <1>7
<1> QED BY <1>6, <1>7, <1>8

\* From a part of level l the parts k levels below are parts of level l + k, there
\* are some down to the deepest level, and none below it (_gen_parts_and_bom).
THEOREM LeavesAtTheEnd == Spec => []AssembliesEndInLeaves
<1>1. IInv => AssembliesEndInLeaves
  <2> DEFINE deep == Len(strata)
  <2> SUFFICES ASSUME IInv, phase = "built", NEW l \in 1..deep, NEW p \in Stratum(l)
               PROVE  /\ \A k \in 0..(deep - l) : Below(p, k) # {} /\ Below(p, k) \subseteq Stratum(l + k)
                      /\ Below(p, deep - l + 1) = {}
    BY DEF AssembliesEndInLeaves
  <2>1. StrataOK /\ EdgesThrough(deep - 1)
    BY DEF IInv, BomOK, BeforeParts, BeforeEmployees, BeforeOrders, BeforeCustomers, BeforeProducts
  <2>2. deep \in Nat /\ \A k, j \in 1..deep : k # j => Stratum(k) \cap Stratum(j) = {}
    BY <2>1, StrataFollow
  <2>3. /\ \A e \in edges : \E k \in 1..(deep - 1) : e \in Stratum(k) \X Stratum(k + 1)
        /\ \A k \in 1..(deep - 1) : \A q \in Stratum(k) : \E c \in Stratum(k + 1) : <<q, c>> \in edges
    BY <2>1 DEF EdgesThrough
  <2> HIDE DEF deep
  <2> DEFINE In(k) == Below(p, k) # {} /\ Below(p, k) \subseteq Stratum(l + k)
             T == {k \in 0..(deep - l) : In(k)}
  <2>4. 0 \in T
    BY <2>2, BelowGoesOn
  <2>5. ASSUME NEW k \in Nat, k < deep - l, k \in T PROVE k + 1 \in T
    <3>1. l + k \in 1..(deep - 1) /\ l + (k + 1) = (l + k) + 1 /\ k + 1 \in 0..(deep - l) /\ l + k \in 1..deep
      BY <2>2, <2>5
    <3>2. In(k)
      BY <2>5
    <3>3. Below(p, k + 1) = Children(Below(p, k))
      BY BelowGoesOn
    <3>4. Children(Below(p, k)) # {}
      <4>1. PICK q \in Below(p, k) : q \in Stratum(l + k)
        BY <3>2
      <4>2. PICK c : <<q, c>> \in edges
        BY <2>3, <3>1, <4>1
      <4>3. <<q, c>>[1] = q
        OBVIOUS
      <4>4. <<q, c>>[2] \in Children(Below(p, k))
        BY <4>1, <4>2, <4>3 DEF Children
      <4> QED BY <4>4
    <3>5. Children(Below(p, k)) \subseteq Stratum((l + k) + 1)
      <4> SUFFICES ASSUME NEW e \in edges, e[1] \in Below(p, k) PROVE e[2] \in Stratum((l + k) + 1)
        BY DEF Children
      <4>1. PICK j \in 1..(deep - 1) : e \in Stratum(j) \X Stratum(j + 1)
        BY <2>3
      <4>2. e[1] \in Stratum(l + k) /\ e[1] \in Stratum(j) /\ e[2] \in Stratum(j + 1)
        BY <3>2, <4>1
      <4>3. j \in 1..deep
        BY <2>2
      <4>4. j = l + k
        BY <2>2, <3>1, <4>2, <4>3
      <4> QED BY <4>2, <4>4
    <3> QED BY <3>1, <3>3, <3>4, <3>5
  <2>6. deep - l \in Nat
    BY <2>2
  <2> HIDE DEF T
  <2>7. 0..(deep - l) \subseteq T
    BY <2>4, <2>5, <2>6, UpToInd
  <2>8. \A k \in 0..(deep - l) : In(k)
    BY <2>7 DEF T
  <2>9. Below(p, deep - l + 1) = {}
    <3>1. deep - l \in 0..(deep - l) /\ l + (deep - l) = deep /\ deep \in 1..deep
      BY <2>2, <2>6
    <3>2. Below(p, deep - l) \subseteq Stratum(deep)
      BY <2>8, <3>1
    <3>3. ASSUME NEW e \in edges, e[1] \in Stratum(deep) PROVE FALSE
      <4>1. PICK j \in 1..(deep - 1) : e \in Stratum(j) \X Stratum(j + 1)
        BY <2>3
      <4>2. e[1] \in Stratum(j) /\ j \in 1..deep /\ j # deep
        BY <2>2, <4>1
      <4> QED BY <2>2, <3>1, <3>3, <4>2
    <3>4. Children(Below(p, deep - l)) = {}
      BY <3>2, <3>3 DEF Children
    <3> QED BY <2>6, <3>4, BelowGoesOn
  <2> QED BY <2>8, <2>9
<1> QED BY <1>1, GeneratorInvariance, PTL
-------------------------------------------------------------------------------
(* Referral cycles.                                                         *)

Referrer(c) == IF c = None THEN None ELSE referred_by[c]
Customers == 1..Len(customers)
EachReferred == Len(customers) \in Nat /\ referred_by \in [Customers -> 0..Len(customers)]

\* The customers met from customer i on, without end.
ReferrerStep == [q \in Nat \X (0..Len(customers)) |-> Referrer(q[2])]
Walk(i) == CHOOSE F : Continues(F, 0..Len(customers), i, ReferrerStep)

LEMMA WalkGoesOn ==
  ASSUME EachReferred, NEW i \in 0..Len(customers)
  PROVE  /\ Walk(i)[0] = i
         /\ \A k \in Nat : Walk(i)[k] \in 0..Len(customers) /\ Walk(i)[k + 1] = Referrer(Walk(i)[k])
<1> DEFINE V == 0..Len(customers)
<1>1. \A v \in V : Referrer(v) \in V
  <2> SUFFICES ASSUME NEW v \in V PROVE Referrer(v) \in V
    OBVIOUS
  <2>1. v # None => v \in Customers
    BY DEF None, Customers, EachReferred
  <2>2. v # None => referred_by[v] \in V
    BY <2>1 DEF EachReferred
  <2>3. None \in V
    BY DEF None, EachReferred
  <2> QED BY <2>2, <2>3 DEF Referrer
<1>2. i \in V
  OBVIOUS
<1>3. ReferrerStep = [q \in Nat \X V |-> Referrer(q[2])]
  BY DEF ReferrerStep
<1>4. Walk(i) = CHOOSE F : Continues(F, V, i, ReferrerStep)
  BY DEF Walk
<1> HIDE DEF V
<1>5. ReferrerStep \in Steps(V)
  BY <1>1, <1>3 DEF Steps
<1>6. \A k \in Nat, v \in V : ReferrerStep[<<k, v>>] = Referrer(v)
  BY <1>3
<1>7. \E F : Continues(F, V, i, ReferrerStep)
  BY <1>2, <1>5, Recursion
<1>8. Continues(Walk(i), V, i, ReferrerStep)
  BY <1>4, <1>7
<1>9. Walk(i)[0] = i /\ \A k \in Nat : Walk(i)[k] \in V /\ Walk(i)[k + 1] = Referrer(Walk(i)[k])
  BY <1>6, <1>8 DEF Continues
<1> QED BY <1>9 DEF V

\* The chain of a customer is the start of its walk.
LEMMA ChainWalks ==
  ASSUME EachReferred, NEW i \in 0..Len(customers), NEW n \in Nat
  PROVE  Chain(i, n) = {Walk(i)[j] : j \in 1..n}
<1> DEFINE Goes(h) == h = [j \in 0..n |-> IF j = 0 THEN i ELSE Referrer(h[j - 1])]
           w == Walk(i)
           g == [j \in 0..n |-> w[j]]
<1>1. w[0] = i /\ \A k \in Nat : w[k + 1] = Referrer(w[k])
  BY WalkGoesOn
<1> HIDE DEF w
<1>2. Goes(g)
  <2>1. ASSUME NEW j \in 0..n PROVE w[j] = IF j = 0 THEN i ELSE Referrer(g[j - 1])
    <3>1. CASE j = 0
      BY <1>1, <3>1
    <3>2. CASE j # 0
      <4>1. j - 1 \in Nat /\ (j - 1) + 1 = j /\ j - 1 \in 0..n
        BY <3>2
      <4>2. w[(j - 1) + 1] = Referrer(w[j - 1])
        BY <1>1, <4>1
      <4> QED BY <3>2, <4>1, <4>2
    <3> QED BY <3>1, <3>2
  <2> QED BY <2>1
<1> DEFINE h == CHOOSE s : Goes(s)
<1>3. Goes(h)
  <2> HIDE DEF Goes, g
  <2> QED BY <1>2
<1>4. Chain(i, n) = {h[j] : j \in 1..n}
  BY DEF Chain, Referrer
<1> HIDE DEF h
<1> DEFINE T == {j \in 0..n : h[j] = w[j]}
<1>5. 0 \in T
  <2>1. 0 \in 0..n
    OBVIOUS
  <2>2. h[0] = i
    BY <1>3, <2>1
  <2>3. h[0] = w[0]
    BY <1>1, <2>2
  <2> HIDE DEF Goes, g
  <2> QED BY <2>1, <2>3
<1>6. ASSUME NEW j \in Nat, j < n, j \in T PROVE j + 1 \in T
  <2>1. j + 1 \in 0..n /\ (j + 1) - 1 = j /\ j + 1 # 0
    BY <1>6
  <2>2. h[j + 1] = Referrer(h[(j + 1) - 1])
    BY <1>3, <2>1
  <2>3. h[j] = w[j] /\ w[j + 1] = Referrer(w[j])
    BY <1>1, <1>6
  <2> QED BY <2>1, <2>2, <2>3
<1> HIDE DEF T
<1>7. 0..n \subseteq T
  BY <1>5, <1>6, UpToInd
<1>8. \A j \in 1..n : h[j] = w[j]
  BY <1>7 DEF T
<1> QED BY <1>4, <1>8 DEF w

\* A walk from a customer met on a walk is the rest of it.
LEMMA WalkAdds ==
  ASSUME EachReferred, NEW i \in 0..Len(customers), NEW a \in Nat
  PROVE  \A b \in Nat : Walk(i)[a + b] = Walk(Walk(i)[a])[b]
<1> DEFINE x == Walk(i)[a]
           S == {b \in Nat : Walk(i)[a + b] = Walk(x)[b]}
<1>1. x \in 0..Len(customers)
  BY WalkGoesOn
<1> HIDE DEF x
<1>2. 0 \in S
  <2>1. Walk(x)[0] = x
    BY <1>1, WalkGoesOn
  <2> QED BY <2>1 DEF x
<1>3. ASSUME NEW b \in Nat, b \in S PROVE b + 1 \in S
  <2>1. a + b \in Nat /\ a + (b + 1) = (a + b) + 1
    OBVIOUS
  <2>2. Walk(i)[(a + b) + 1] = Referrer(Walk(i)[a + b])
    BY <2>1, WalkGoesOn
  <2>3. Walk(x)[b + 1] = Referrer(Walk(x)[b])
    BY <1>1, WalkGoesOn
  <2> QED BY <1>3, <2>1, <2>2, <2>3
<1> HIDE DEF S
<1>4. Nat \subseteq S
  BY <1>2, <1>3, NatInd
<1> QED BY <1>4 DEF S, x
\* On a cycle every customer has the whole cycle for its chain.
LEMMA CycleOf ==
  ASSUME EachReferred, NEW i \in Customers, i \in Chain(i, Len(customers)), NEW x \in Chain(i, Len(customers))
  PROVE  Chain(x, Len(customers)) = Chain(i, Len(customers))
<1> DEFINE n == Len(customers)
           w == Walk(i)
           v == Walk(x)
<1>1. n \in Nat /\ i \in 0..n
  BY DEF EachReferred, Customers
<1>2. w[0] = i /\ \A k \in Nat : w[k] \in 0..n /\ w[k + 1] = Referrer(w[k])
  BY <1>1, WalkGoesOn
<1>3. Chain(i, n) = {w[s] : s \in 1..n}
  BY <1>1, ChainWalks
<1>4. PICK j \in 1..n : w[j] = i
  BY <1>3
<1> DEFINE S == {s \in Nat : \E t \in 1..j : w[s] = w[t]}
<1> HIDE DEF w
<1>5. \A s \in Nat : \E t \in 1..j : w[s] = w[t]
  <2>1. 0 \in S
    <3>1. j \in 1..j
      BY <1>1
    <3> QED BY <1>2, <1>4, <3>1
  <2>2. ASSUME NEW s \in Nat, s \in S PROVE s + 1 \in S
    <3>1. PICK t \in 1..j : w[s] = w[t]
      BY <2>2
    <3>2. w[s + 1] = Referrer(w[t])
      BY <1>2, <3>1
    <3>3. CASE t < j
      <4>1. t + 1 \in 1..j /\ w[t + 1] = Referrer(w[t])
        BY <1>1, <1>2, <3>3
      <4> QED BY <3>2, <4>1
    <3>4. CASE ~(t < j)
      <4>1. t = j /\ 1 \in 1..j
        BY <1>1, <3>4
      <4>2. w[0 + 1] = Referrer(w[0])
        BY <1>2
      <4>3. Referrer(w[t]) = Referrer(w[0])
        BY <1>2, <1>4, <4>1
      <4>4. w[s + 1] = w[1]
        BY <3>2, <4>2, <4>3
      <4> QED BY <4>1, <4>4
    <3> QED BY <3>3, <3>4
  <2> HIDE DEF S
  <2>3. Nat \subseteq S
    BY <2>1, <2>2, NatInd
  <2> QED BY <2>3 DEF S
<1> HIDE DEF S
<1>6. PICK t \in 1..j : x = w[t]
  <2>1. PICK s \in 1..n : x = w[s]
    BY <1>3
  <2> QED BY <1>5, <2>1
<1>7. t \in Nat /\ j \in Nat /\ t <= j /\ j <= n /\ t >= 1 /\ x \in 0..n
  BY <1>1, <1>2, <1>6
<1>8. \A b \in Nat : w[t + b] = v[b]
  <2>1. \A b \in Nat : Walk(i)[t + b] = Walk(Walk(i)[t])[b]
    BY <1>1, <1>7, WalkAdds
  <2> QED BY <1>6, <2>1 DEF w
<1>9. Chain(x, n) = {v[s] : s \in 1..n}
  BY <1>1, <1>7, ChainWalks
<1> HIDE DEF v, n
<1>10. ASSUME NEW s \in 1..n PROVE v[s] \in Chain(i, n)
  <2>1. s \in Nat /\ t + s \in Nat
    BY <1>7
  <2>2. PICK u \in 1..j : w[t + s] = w[u]
    BY <1>5, <2>1
  <2>3. u \in 1..n
    BY <1>1, <1>7
  <2> QED BY <1>3, <1>8, <2>1, <2>2, <2>3
<1>11. ASSUME NEW s \in 1..j PROVE w[s] \in Chain(x, n)
  <2>1. CASE s > t
    <3>1. s - t \in Nat /\ t + (s - t) = s /\ s - t \in 1..n
      BY <1>1, <1>7, <2>1
    <3>2. w[t + (s - t)] = v[s - t]
      BY <1>8, <3>1
    <3> QED BY <1>9, <3>1, <3>2
  <2>2. CASE ~(s > t)
    <3>1. j - t \in Nat /\ s \in Nat /\ t + (j - t) = j /\ (j - t) + s \in 1..n /\ (j - t) + s \in Nat
      BY <1>1, <1>7, <2>2
    <3>2. v[j - t] = i
      <4>1. w[t + (j - t)] = v[j - t]
        BY <1>8, <3>1
      <4> QED BY <1>4, <3>1, <4>1
    <3>3. v[(j - t) + s] = w[s]
      <4>1. Walk(x)[(j - t) + s] = Walk(Walk(x)[j - t])[s]
        BY <1>7, <3>1, WalkAdds DEF n
      <4> QED BY <3>2, <4>1 DEF v, w
    <3> QED BY <1>9, <3>1, <3>3
  <2> QED BY <2>1, <2>2
<1>12. ASSUME NEW s \in 1..n PROVE w[s] \in Chain(x, n)
  <2>1. PICK u \in 1..j : w[s] = w[u]
    BY <1>1, <1>5
  <2> QED BY <1>11, <2>1
<1>13. Chain(x, n) = Chain(i, n)
  BY <1>3, <1>9, <1>10, <1>12
<1> QED BY <1>13 DEF n

\* A cycle goes up somewhere, and only a rewired customer has a later referrer.
LEMMA CycleIsRewired ==
  ASSUME EachReferred, NEW i \in Customers, i \in Chain(i, Len(customers)),
         \A c \in Customers : IF c \in rewired THEN referred_by[c] \in Later(c) ELSE referred_by[c] \in 0..(c - 1)
  PROVE  \E c \in Chain(i, Len(customers)) \cap rewired : referred_by[c] > c
<1> DEFINE n == Len(customers)
           w == Walk(i)
<1>1. n \in Nat /\ i \in 0..n /\ i \in Nat /\ i >= 1
  BY DEF EachReferred, Customers
<1>2. w[0] = i /\ \A k \in Nat : w[k] \in 0..n /\ w[k + 1] = Referrer(w[k])
  BY <1>1, WalkGoesOn
<1>3. Chain(i, n) = {w[s] : s \in 1..n}
  BY <1>1, ChainWalks
<1>4. PICK j \in 1..n : w[j] = i
  BY <1>3
<1> HIDE DEF w
<1> SUFFICES ASSUME \A c \in Chain(i, n) \cap rewired : ~(referred_by[c] > c) PROVE FALSE
  OBVIOUS
<1>5. ASSUME NEW c \in Chain(i, n), c # None PROVE referred_by[c] < c /\ referred_by[c] \in Nat
  <2>1. c \in Customers
    <3>1. PICK s \in 1..n : c = w[s]
      BY <1>3, <1>5
    <3>2. c \in 0..n
      BY <1>1, <1>2, <3>1
    <3> QED BY <1>1, <1>5, <3>2 DEF Customers, None
  <2>2. c \in rewired => referred_by[c] \in Later(c)
    BY <2>1
  <2>3. c \in rewired => referred_by[c] > c
    BY <2>1, <2>2 DEF Later, Customers
  <2>4. c \notin rewired
    BY <2>3
  <2>5. referred_by[c] \in 0..(c - 1)
    BY <2>1, <2>4
  <2> QED BY <2>1, <2>5 DEF Customers
<1> HIDE DEF n
<1>6. i \in Chain(i, n) /\ i # None
  BY <1>1 DEF n, None
<1> DEFINE T == {s \in 0..(n - 1) : w[s + 1] < i}
<1>7. 0 \in T
  <2>1. w[0 + 1] = Referrer(w[0])
    BY <1>2
  <2>2. w[1] = referred_by[i]
    BY <1>2, <1>6, <2>1 DEF Referrer
  <2>3. 0 \in 0..(n - 1)
    BY <1>1
  <2> QED BY <1>5, <1>6, <2>2, <2>3
<1>8. ASSUME NEW s \in Nat, s < n - 1, s \in T PROVE s + 1 \in T
  <2>1. s + 1 \in 1..n /\ s + 1 \in Nat /\ s + 1 \in 0..(n - 1)
    BY <1>1, <1>8
  <2>2. w[(s + 1) + 1] = Referrer(w[s + 1]) /\ w[s + 1] \in Chain(i, n) /\ w[s + 1] \in Nat /\ w[s + 1] < i
    <3>1. w[(s + 1) + 1] = Referrer(w[s + 1]) /\ w[s + 1] \in 0..n
      BY <1>2, <2>1
    <3>2. w[s + 1] \in Chain(i, n)
      BY <1>3, <2>1
    <3>3. w[s + 1] < i
      BY <1>8
    <3> QED BY <3>1, <3>2, <3>3
  <2>3. CASE w[s + 1] = None
    <3>1. w[(s + 1) + 1] = 0
      BY <2>2, <2>3 DEF Referrer, None
    <3> QED BY <1>1, <2>1, <3>1
  <2>4. CASE w[s + 1] # None
    <3>1. w[(s + 1) + 1] = referred_by[w[s + 1]]
      BY <2>2, <2>4 DEF Referrer
    <3>2. referred_by[w[s + 1]] < w[s + 1] /\ referred_by[w[s + 1]] \in Nat
      BY <1>5, <2>2, <2>4
    <3>3. w[(s + 1) + 1] < i
      BY <1>1, <2>2, <3>1, <3>2
    <3> QED BY <2>1, <3>3
  <2> QED BY <2>3, <2>4
<1> HIDE DEF T
<1>9. n - 1 \in Nat
  BY <1>1
<1>10. 0..(n - 1) \subseteq T
  BY <1>7, <1>8, <1>9, UpToInd
<1>11. j - 1 \in 0..(n - 1) /\ (j - 1) + 1 = j
  BY <1>1
<1>12. w[j] < i
  BY <1>10, <1>11 DEF T
<1> QED BY <1>1, <1>4, <1>12

\* Each cycle of the referral graph runs through a rewired customer, and there are
\* at most referral_cycle_count of them (_inject_customer_referrals).
THEOREM CyclesInjected == Spec => []CyclesAreInjected
<1>1. IInv => CyclesAreInjected
  <2> SUFFICES ASSUME IInv, phase = "built"
               PROVE  /\ \A cycle \in Cycles : \E c \in cycle \cap rewired : referred_by[c] > c
                      /\ Cardinality(Cycles) <= Count("referral_cycles")
    BY DEF CyclesAreInjected
  <2> DEFINE n == Len(customers)
             onCycle == {i \in DOMAIN referred_by : i \in Chain(i, n)}
  <2>1. Cycles = {Chain(i, n) : i \in onCycle}
    BY DEF Cycles
  <2>2. /\ n \in Nat /\ Count("referral_cycles") \in Nat
        /\ IsFiniteSet(rewired) /\ Cardinality(rewired) <= Count("referral_cycles")
    BY CountsAre DEF IInv, TypeOK, CustomersOK, ReferralsOK
  <2>3. CASE DOMAIN referred_by = {}
    <3>1. Cycles = {}
      BY <2>1, <2>3
    <3> QED BY <2>2, <3>1, FS_EmptySet
  <2>4. CASE DOMAIN referred_by # {}
    <3>1. DOMAIN referred_by = Customers
      BY <2>4 DEF IInv, ReferralsOK, Customers
    <3>2. \A c \in Customers : IF c \in rewired THEN referred_by[c] \in Later(c) ELSE referred_by[c] \in 0..(c - 1)
      BY <3>1 DEF IInv, ReferralsOK
    <3>3. EachReferred
      <4>1. \A c \in DOMAIN referred_by : referred_by[c] \in 0..n
        <5>1. DOMAIN customers = 1..n
          BY DEF IInv, CustomersOK
        <5> QED BY <2>2, <5>1 DEF IInv, TypeOK, None
      <4>2. referred_by = [c \in DOMAIN referred_by |-> referred_by[c]]
        BY DEF IInv, ReferralsOK
      <4> QED BY <2>2, <3>1, <4>1, <4>2 DEF EachReferred
    <3>4. ASSUME NEW i \in onCycle PROVE \E c \in Chain(i, n) \cap rewired : referred_by[c] > c
      <4>1. i \in Customers /\ i \in Chain(i, n)
        BY <3>1
      <4> QED BY <3>2, <3>3, <4>1, CycleIsRewired
    <3>5. \A cycle \in Cycles : \E c \in cycle \cap rewired : referred_by[c] > c
      BY <2>1, <3>4
    <3>6. ASSUME NEW i \in onCycle, NEW x \in Chain(i, n) PROVE Chain(x, n) = Chain(i, n)
      <4>1. i \in Customers /\ i \in Chain(i, n)
        BY <3>1
      <4> QED BY <3>3, <4>1, CycleOf
    <3> DEFINE first == [cycle \in Cycles |-> CHOOSE c \in cycle \cap rewired : TRUE]
    <3>7. ASSUME NEW cycle \in Cycles PROVE first[cycle] \in cycle /\ first[cycle] \in rewired
      BY <3>5
    <3> HIDE DEF onCycle
    <3>8. ASSUME NEW c \in Cycles, NEW d \in Cycles, first[c] = first[d] PROVE c = d
      <4>1. PICK i \in onCycle : c = Chain(i, n)
        BY <2>1
      <4>2. PICK k \in onCycle : d = Chain(k, n)
        BY <2>1
      <4>3. first[c] \in c /\ first[c] \in d
        BY <3>7, <3>8
      <4> HIDE DEF first, n
      <4>4. Chain(first[c], n) = c
        BY <3>6, <4>1, <4>3
      <4>5. Chain(first[d], n) = d
        BY <3>6, <4>2, <4>3, <3>8
      <4> QED BY <3>8, <4>4, <4>5
    <3>9. first \in Injection(Cycles, rewired)
      <4>1. first = [cycle \in Cycles |-> first[cycle]]
        OBVIOUS
      <4> HIDE DEF first
      <4> QED BY <3>7, <3>8, <4>1 DEF Injection, IsInjective
    <3>10. Cardinality(Cycles) <= Cardinality(rewired) /\ IsFiniteSet(Cycles)
      <4> HIDE DEF first
      <4> QED BY <2>2, <3>9, FS_Injection
    <3>11. Cardinality(Cycles) \in Nat /\ Cardinality(rewired) \in Nat
      BY <2>2, <3>10, FS_CardinalityType
    <3>12. Cardinality(Cycles) <= Count("referral_cycles")
      BY ONLY <2>2, <3>10, <3>11
    <3> QED BY <3>5, <3>12
  <2> QED BY <2>3, <2>4
<1> QED BY <1>1, GeneratorInvariance, PTL
-------------------------------------------------------------------------------
(* The reporting tree, level by level.                                      *)

ReportsStep == [q \in Nat \X SUBSET DOMAIN employees |-> Reports(q[2])]
Tree == CHOOSE F : Continues(F, SUBSET DOMAIN employees, {Root}, ReportsStep)

LEMMA TreeGoesOn ==
  ASSUME ManagersFirst
  PROVE  /\ Tree[0] = {Root}
         /\ \A k \in Nat : Tree[k] \subseteq DOMAIN employees /\ Tree[k + 1] = Reports(Tree[k])
<1> DEFINE V == SUBSET DOMAIN employees
<1>1. \A v \in V : Reports(v) \in V
  BY DEF Reports
<1>2. {Root} \in V
  BY DEF ManagersFirst, Root
<1>3. ReportsStep = [q \in Nat \X V |-> Reports(q[2])] /\ Tree = CHOOSE F : Continues(F, V, {Root}, ReportsStep)
  BY DEF ReportsStep, Tree
<1> HIDE DEF V
<1>4. ReportsStep \in Steps(V)
  BY <1>1, <1>3 DEF Steps
<1>5. \A k \in Nat, v \in V : ReportsStep[<<k, v>>] = Reports(v)
  BY <1>3
<1>6. \E F : Continues(F, V, {Root}, ReportsStep)
  BY <1>2, <1>4, Recursion
<1>7. Continues(Tree, V, {Root}, ReportsStep)
  BY <1>3, <1>6
<1>8. Tree[0] = {Root} /\ \A k \in Nat : Tree[k] \in V /\ Tree[k + 1] = Reports(Tree[k])
  BY <1>5, <1>7 DEF Continues
<1> QED BY <1>8 DEF V

\* A member of a later level has its manager in the level before.
LEMMA TreeLevel ==
  ASSUME ManagersFirst, NEW k \in Nat, k # 0
  PROVE  Tree[k] = Reports(Tree[k - 1]) /\ Root \notin Tree[k]
<1>1. k - 1 \in Nat /\ (k - 1) + 1 = k
  OBVIOUS
<1>2. Tree[(k - 1) + 1] = Reports(Tree[k - 1])
  BY <1>1, TreeGoesOn
<1>3. Tree[k] = Reports(Tree[k - 1]) /\ Tree[k - 1] \subseteq DOMAIN employees
  BY <1>1, <1>2, TreeGoesOn
<1>4. None \notin DOMAIN employees
  BY DEF ManagersFirst, None
<1>5. Root \in DOMAIN employees => employees[Root] = None
  BY DEF ManagersFirst
<1> QED BY <1>3, <1>4, <1>5 DEF Reports

\* The levels have no employee in common.
LEMMA TreeDisjoint ==
  ASSUME ManagersFirst
  PROVE  \A j, k \in Nat : j # k => Tree[j] \cap Tree[k] = {}
<1> DEFINE S == {k \in Nat : \A j \in Nat : j > k => Tree[j] \cap Tree[k] = {}}
<1>1. 0 \in S
  <2>1. ASSUME NEW j \in Nat, j > 0 PROVE Tree[j] \cap Tree[0] = {}
    <3>1. Root \notin Tree[j] /\ Tree[0] = {Root}
      BY <2>1, TreeLevel, TreeGoesOn
    <3> QED BY <3>1
  <2> QED BY <2>1
<1>2. ASSUME NEW k \in Nat, k \in S PROVE k + 1 \in S
  <2>1. ASSUME NEW j \in Nat, j > k + 1 PROVE Tree[j] \cap Tree[k + 1] = {}
    <3>1. j - 1 \in Nat /\ j - 1 > k /\ j # 0
      BY <2>1
    <3>2. Tree[j - 1] \cap Tree[k] = {}
      BY <1>2, <3>1
    <3>3. Tree[j] = Reports(Tree[j - 1]) /\ Tree[k + 1] = Reports(Tree[k])
      BY <3>1, TreeLevel, TreeGoesOn
    <3> QED BY <3>2, <3>3 DEF Reports
  <2> QED BY <2>1
<1> HIDE DEF S
<1>3. Nat \subseteq S
  BY <1>1, <1>2, NatInd
<1>4. ASSUME NEW j \in Nat, NEW k \in Nat, j # k PROVE Tree[j] \cap Tree[k] = {}
  <2>1. CASE j > k
    BY <1>3, <2>1 DEF S
  <2>2. CASE k > j
    BY <1>3, <2>2 DEF S
  <2> QED BY <1>4, <2>1, <2>2
<1> QED BY <1>4

\* The levels from the first reports to level k + 1.
Through(k) == UNION {Tree[j] : j \in 1..(k + 1)}

LEMMA ThroughGoesOn ==
  ASSUME ManagersFirst
  PROVE  /\ Through(0) = Reports({Root})
         /\ \A k \in Nat : Through(k + 1) = Through(k) \cup Reports(Through(k))
         /\ \A k \in Nat \ {0} : Through(k) \ Through(k - 1) = Tree[k + 1]
<1>1. Through(0) = Reports({Root})
  <2>1. Tree[0 + 1] = Reports({Root})
    BY TreeGoesOn
  <2>2. 1..(0 + 1) = {1}
    OBVIOUS
  <2>3. Tree[1] = Reports({Root})
    BY <2>1
  <2> QED BY <2>2, <2>3 DEF Through
<1>2. ASSUME NEW k \in Nat PROVE Through(k + 1) = Through(k) \cup Reports(Through(k))
  <2>1. \A e : e \in Through(k) <=> \E j \in Nat : 1 <= j /\ j <= k + 1 /\ e \in Tree[j]
    BY DEF Through
  <2>2. \A e : e \in Through(k + 1) <=> \E j \in Nat : 1 <= j /\ j <= k + 2 /\ e \in Tree[j]
    BY DEF Through
  <2>3. ASSUME NEW e \in Reports(Through(k)) PROVE e \in Through(k + 1)
    <3>1. PICK j \in Nat : 1 <= j /\ j <= k + 1 /\ employees[e] \in Tree[j]
      BY <2>1, <2>3 DEF Reports
    <3>2. e \in Tree[j + 1]
      <4>1. Tree[j + 1] = Reports(Tree[j])
        BY TreeGoesOn
      <4> QED BY <2>3, <3>1, <4>1 DEF Reports
    <3>3. j + 1 \in Nat /\ 1 <= j + 1 /\ j + 1 <= k + 2
      BY <3>1
    <3> QED BY <2>2, <3>2, <3>3
  <2>4. Through(k) \subseteq Through(k + 1)
    BY <2>1, <2>2
  <2>5. ASSUME NEW e \in Through(k + 1) PROVE e \in Through(k) \/ e \in Reports(Through(k))
    <3>1. PICK j \in Nat : 1 <= j /\ j <= k + 2 /\ e \in Tree[j]
      BY <2>2
    <3>2. CASE j <= k + 1
      BY <2>1, <3>1, <3>2
    <3>3. CASE ~(j <= k + 1)
      <4>1. j = k + 2 /\ j - 1 = k + 1 /\ j # 0 /\ k + 1 \in Nat /\ 1 <= k + 1
        BY <3>1, <3>3
      <4>2. e \in Reports(Tree[k + 1])
        BY <3>1, <4>1, TreeLevel
      <4>3. Tree[k + 1] \subseteq Through(k)
        BY <2>1, <4>1
      <4> QED BY <4>2, <4>3 DEF Reports
    <3> QED BY <3>2, <3>3
  <2> QED BY <2>3, <2>4, <2>5
<1>3. ASSUME NEW k \in Nat \ {0} PROVE Through(k) \ Through(k - 1) = Tree[k + 1]
  <2>1. \A e : e \in Through(k) <=> \E j \in Nat : 1 <= j /\ j <= k + 1 /\ e \in Tree[j]
    BY DEF Through
  <2>2. \A e : e \in Through(k - 1) <=> \E j \in Nat : 1 <= j /\ j <= k /\ e \in Tree[j]
    BY DEF Through
  <2>3. ASSUME NEW e \in Tree[k + 1] PROVE e \in Through(k) /\ e \notin Through(k - 1)
    <3>1. k + 1 \in Nat /\ 1 <= k + 1 /\ k + 1 <= k + 1
      OBVIOUS
    <3>2. \A j \in Nat : j <= k => e \notin Tree[j]
      <4>1. \A j \in Nat : j <= k => j # k + 1
        OBVIOUS
      <4> QED BY <2>3, <3>1, <4>1, TreeDisjoint
    <3> QED BY <2>1, <2>2, <2>3, <3>1, <3>2
  <2>4. ASSUME NEW e \in Through(k), e \notin Through(k - 1) PROVE e \in Tree[k + 1]
    <3>1. PICK j \in Nat : 1 <= j /\ j <= k + 1 /\ e \in Tree[j]
      BY <2>1
    <3>2. ~(j <= k)
      BY <2>2, <2>4, <3>1
    <3>3. j = k + 1
      BY <3>1, <3>2
    <3> QED BY <3>1, <3>3
  <2> QED BY <2>3, <2>4
<1> QED BY <1>1, <1>2, <1>3

\* $graphLookup has found the levels through k + 1 after depth k.
LEMMA LookupFinds ==
  ASSUME ManagersFirst, NEW m \in Nat
  PROVE  \A k \in 0..m : GraphLookup(m)[k] = Through(k) /\ FoundAt(GraphLookup(m), k) = Tree[k + 1]
<1> DEFINE Goes(h) == h = [k \in 0..m |-> IF k = 0 THEN Reports({Root}) ELSE h[k - 1] \cup Reports(h[k - 1])]
           g == [k \in 0..m |-> Through(k)]
<1>1. Goes(g)
  <2>1. ASSUME NEW k \in 0..m
        PROVE  Through(k) = IF k = 0 THEN Reports({Root}) ELSE g[k - 1] \cup Reports(g[k - 1])
    <3>1. CASE k = 0
      BY <3>1, ThroughGoesOn
    <3>2. CASE k # 0
      <4>1. k - 1 \in Nat /\ (k - 1) + 1 = k /\ k - 1 \in 0..m
        BY <3>2
      <4>2. Through((k - 1) + 1) = Through(k - 1) \cup Reports(Through(k - 1))
        BY <4>1, ThroughGoesOn
      <4> QED BY <3>2, <4>1, <4>2
    <3> QED BY <3>1, <3>2
  <2> QED BY <2>1
<1> DEFINE h == CHOOSE s : Goes(s)
<1>2. Goes(h)
  <2> HIDE DEF Goes, g
  <2> QED BY <1>1
<1>3. GraphLookup(m) = h
  BY DEF GraphLookup
<1> HIDE DEF h
<1> DEFINE T == {k \in 0..m : h[k] = Through(k)}
<1>4. 0 \in T
  <2>1. 0 \in 0..m
    OBVIOUS
  <2>2. h[0] = Through(0)
    BY <1>2, <2>1, ThroughGoesOn
  <2> HIDE DEF Goes, g
  <2> QED BY <2>1, <2>2
<1>5. ASSUME NEW k \in Nat, k < m, k \in T PROVE k + 1 \in T
  <2>1. k + 1 \in 0..m /\ (k + 1) - 1 = k /\ k + 1 # 0
    BY <1>5
  <2>2. h[k + 1] = h[k] \cup Reports(h[k])
    BY <1>2, <2>1
  <2>3. h[k] = Through(k) /\ Through(k + 1) = Through(k) \cup Reports(Through(k))
    BY <1>5, ThroughGoesOn
  <2> HIDE DEF Goes, g
  <2> QED BY <2>1, <2>2, <2>3
<1> HIDE DEF T
<1>6. 0..m \subseteq T
  BY <1>4, <1>5, UpToInd
<1>7. \A k \in 0..m : GraphLookup(m)[k] = Through(k)
  BY <1>3, <1>6 DEF T
<1>8. ASSUME NEW k \in 0..m PROVE FoundAt(GraphLookup(m), k) = Tree[k + 1]
  <2>1. CASE k = 0
    <3>1. FoundAt(GraphLookup(m), k) = Reports({Root})
      BY <1>7, <2>1, ThroughGoesOn DEF FoundAt
    <3>2. Tree[0 + 1] = Reports({Root})
      BY TreeGoesOn
    <3> QED BY <2>1, <3>1, <3>2
  <2>2. CASE k # 0
    <3>1. k - 1 \in 0..m /\ k \in Nat \ {0}
      BY <2>2
    <3>2. FoundAt(GraphLookup(m), k) = Through(k) \ Through(k - 1)
      BY <1>7, <2>2, <3>1 DEF FoundAt
    <3> QED BY <3>1, <3>2, ThroughGoesOn
  <2> QED BY <2>1, <2>2
<1> QED BY <1>7, <1>8
-------------------------------------------------------------------------------
(* The paths of the reporting tree.                                         *)

\* The children that CONNECT BY NOCYCLE adds to a path.
Continuations(p) == {c \in Reports({p[Len(p)]}) : \A i \in DOMAIN p : p[i] # c}
Grow(R) == UNION {{Append(p, e) : e \in Continuations(p)} : p \in R}

GrowStep == [q \in Nat \X SUBSET Seq(DOMAIN employees) |-> Grow(q[2])]
Paths == CHOOSE F : Continues(F, SUBSET Seq(DOMAIN employees), {<<Root>>}, GrowStep)

LEMMA GrowMember ==
  ASSUME NEW R, NEW q
  PROVE  q \in Grow(R) <=> \E p \in R : \E c \in Continuations(p) : q = Append(p, c)
BY DEF Grow

LEMMA PathsGoOn ==
  ASSUME ManagersFirst
  PROVE  /\ Paths[0] = {<<Root>>}
         /\ \A k \in Nat : Paths[k] \subseteq Seq(DOMAIN employees) /\ Paths[k + 1] = Grow(Paths[k])
<1> DEFINE D == DOMAIN employees
           V == SUBSET Seq(D)
<1>1. ASSUME NEW v \in V PROVE Grow(v) \in V
  <2>1. ASSUME NEW q \in Grow(v) PROVE q \in Seq(D)
    <3>1. PICK p \in v : \E c \in Continuations(p) : q = Append(p, c)
      BY <2>1, GrowMember
    <3>2. PICK c \in Continuations(p) : q = Append(p, c)
      BY <3>1
    <3>3. c \in D
      BY DEF Continuations, Reports
    <3>4. p \in Seq(D)
      BY <1>1, <3>1
    <3> HIDE DEF D
    <3> QED BY <3>2, <3>3, <3>4
  <2> QED BY <2>1
<1>2. {<<Root>>} \in V
  <2>1. Root \in D
    BY DEF ManagersFirst, Root
  <2> HIDE DEF D
  <2> QED BY <2>1
<1>3. GrowStep = [q \in Nat \X V |-> Grow(q[2])] /\ Paths = CHOOSE F : Continues(F, V, {<<Root>>}, GrowStep)
  BY DEF GrowStep, Paths
<1> HIDE DEF V
<1>4. GrowStep \in Steps(V)
  BY <1>1, <1>3 DEF Steps
<1>5. \A k \in Nat, v \in V : GrowStep[<<k, v>>] = Grow(v)
  BY <1>3
<1>6. \E F : Continues(F, V, {<<Root>>}, GrowStep)
  BY <1>2, <1>4, Recursion
<1>7. Continues(Paths, V, {<<Root>>}, GrowStep)
  BY <1>3, <1>6
<1>8. Paths[0] = {<<Root>>} /\ \A k \in Nat : Paths[k] \in V /\ Paths[k + 1] = Grow(Paths[k])
  BY <1>5, <1>7 DEF Continues
<1> QED BY <1>8 DEF V

\* One path to each employee of level k, through earlier and earlier employees.
PathTo(p, k) == Len(p) = k + 1 /\ p[k + 1] \in Tree[k] /\ \A i \in 1..(k + 1) : p[i] <= p[k + 1]
OnePathEach(k) ==
  /\ \A p \in Paths[k] : PathTo(p, k)
  /\ \A e \in Tree[k] : \E p \in Paths[k] : p[k + 1] = e
  /\ \A p, q \in Paths[k] : p[k + 1] = q[k + 1] => p = q

\* A path to level k goes on to every report of its last employee: none of
\* them is on the path.
LEMMA PathGrows ==
  ASSUME ManagersFirst, NEW k \in Nat, NEW p \in Seq(DOMAIN employees), PathTo(p, k)
  PROVE  /\ Continuations(p) = Reports({p[k + 1]})
         /\ \A c \in Continuations(p) :
              LET q == Append(p, c)
              IN  PathTo(q, k + 1) /\ q[k + 2] = c /\ employees[c] = p[k + 1]
<1> DEFINE D == DOMAIN employees
<1>1. Len(p) = k + 1 /\ p[k + 1] \in Tree[k] /\ \A i \in 1..(k + 1) : p[i] <= p[k + 1]
  BY DEF PathTo
<1>2. D \subseteq Nat \ {0}
  BY DEF ManagersFirst
<1>3. \A i \in 1..(k + 1) : p[i] \in D
  <2> HIDE DEF D
  <2> QED BY <1>1 DEF D
<1>4. DOMAIN p = 1..(k + 1)
  BY <1>1
<1>5. k + 1 \in 1..(k + 1) /\ p[k + 1] \in Nat \ {0}
  BY <1>2, <1>3
<1>6. ASSUME NEW c \in Reports({p[k + 1]})
      PROVE  c \in Nat /\ p[k + 1] < c /\ employees[c] = p[k + 1] /\ c \in D
  <2>1. c \in D /\ employees[c] = p[k + 1]
    BY DEF Reports
  <2>2. c # Root
    BY <1>5, <2>1 DEF ManagersFirst, None
  <2>3. employees[c] \in 1..(c - 1)
    BY <2>1, <2>2 DEF ManagersFirst
  <2> QED BY <1>2, <2>1, <2>3
<1>7. ASSUME NEW c \in Reports({p[k + 1]}), NEW i \in 1..(k + 1) PROVE p[i] # c /\ p[i] <= c /\ p[i] \in Nat
  <2>1. p[i] \in Nat /\ p[i] <= p[k + 1]
    BY <1>1, <1>2, <1>3
  <2>2. p[k + 1] < c /\ c \in Nat /\ p[k + 1] \in Nat
    BY <1>5, <1>6
  <2> QED BY ONLY <2>1, <2>2
<1>8. Continuations(p) = Reports({p[k + 1]})
  BY <1>1, <1>4, <1>7 DEF Continuations
<1>9. ASSUME NEW c \in Continuations(p)
      PROVE  PathTo(Append(p, c), k + 1) /\ Append(p, c)[k + 2] = c /\ employees[c] = p[k + 1]
  <2>1. c \in Reports({p[k + 1]})
    BY <1>8
  <2>2. c \in D /\ c \in Nat
    BY <1>6, <2>1
  <2> DEFINE q == Append(p, c)
  <2>3. Len(q) = k + 2 /\ q[k + 2] = c /\ \A i \in 1..(k + 1) : q[i] = p[i]
    <3> HIDE DEF D
    <3> QED BY <1>1, <2>2 DEF D
  <2>4. c \in Tree[k + 1]
    <3>1. Tree[k + 1] = Reports(Tree[k])
      BY TreeGoesOn
    <3> QED BY <1>1, <2>1, <3>1 DEF Reports
  <2> HIDE DEF q
  <2>5. ASSUME NEW i \in 1..(k + 2) PROVE q[i] <= c
    <3>1. CASE i = k + 2
      BY <2>2, <2>3, <3>1
    <3>2. CASE i # k + 2
      BY <1>7, <2>1, <2>3, <3>2
    <3> QED BY <3>1, <3>2
  <2>6. (k + 1) + 1 = k + 2
    OBVIOUS
  <2>7. PathTo(q, k + 1)
    BY <2>3, <2>4, <2>5, <2>6 DEF PathTo
  <2> QED BY <1>6, <2>1, <2>3, <2>7 DEF q
<1> QED BY <1>8, <1>9

LEMMA OnePathToEach ==
  ASSUME ManagersFirst
  PROVE  \A k \in Nat : OnePathEach(k)
<1> DEFINE S == {k \in Nat : OnePathEach(k)}
<1>1. OnePathEach(0)
  <2>1. Paths[0] = {<<Root>>} /\ Tree[0] = {Root}
    BY PathsGoOn, TreeGoesOn
  <2>2. Len(<<Root>>) = 1 /\ <<Root>>[1] = Root /\ Root <= Root /\ 0 + 1 = 1 /\ \A i \in 1..1 : i = 1
    BY DEF Root
  <2>3. \A p \in Paths[0] : p = <<Root>>
    BY <2>1
  <2>4. \A p \in Paths[0] : PathTo(p, 0)
    BY <2>1, <2>2, <2>3 DEF PathTo
  <2>5. \A e \in Tree[0] : \E p \in Paths[0] : p[0 + 1] = e
    BY <2>1, <2>2
  <2> QED BY <2>3, <2>4, <2>5 DEF OnePathEach
<1>2. ASSUME NEW k \in Nat, OnePathEach(k) PROVE OnePathEach(k + 1)
  <2>1. /\ Paths[k] \subseteq Seq(DOMAIN employees) /\ Paths[k + 1] = Grow(Paths[k])
        /\ Tree[k + 1] = Reports(Tree[k])
    BY PathsGoOn, TreeGoesOn
  <2>2. \A p \in Paths[k] : PathTo(p, k)
    BY <1>2 DEF OnePathEach
  <2>3. ASSUME NEW q \in Paths[k + 1]
        PROVE  PathTo(q, k + 1) /\ \E p \in Paths[k] : q = Append(p, q[k + 2]) /\ employees[q[k + 2]] = p[k + 1]
    <3>1. PICK p \in Paths[k] : \E c \in Continuations(p) : q = Append(p, c)
      BY <2>1, GrowMember
    <3>2. PICK c \in Continuations(p) : q = Append(p, c)
      BY <3>1
    <3>3. PathTo(p, k) /\ p \in Seq(DOMAIN employees)
      BY <2>1, <2>2
    <3>4. PathTo(q, k + 1) /\ q[k + 2] = c /\ employees[c] = p[k + 1]
      BY <3>2, <3>3, PathGrows
    <3> QED BY <3>2, <3>4
  <2>4. ASSUME NEW e \in Tree[k + 1] PROVE \E q \in Paths[k + 1] : q[k + 2] = e
    <3>1. PICK p \in Paths[k] : p[k + 1] = employees[e]
      BY <1>2, <2>1 DEF OnePathEach, Reports
    <3>2. PathTo(p, k) /\ p \in Seq(DOMAIN employees)
      BY <2>1, <2>2
    <3>3. e \in Reports({p[k + 1]})
      BY <2>1, <3>1 DEF Reports
    <3>4. e \in Continuations(p)
      BY <3>2, <3>3, PathGrows
    <3>5. PICK q : q = Append(p, e)
      OBVIOUS
    <3>6. q[k + 2] = e
      BY <3>2, <3>4, <3>5, PathGrows
    <3>7. q \in Paths[k + 1]
      <4>1. q \in Grow(Paths[k])
        BY ONLY <3>1, <3>4, <3>5, GrowMember
      <4> QED BY <2>1, <4>1
    <3> QED BY <3>6, <3>7
  <2>5. ASSUME NEW q \in Paths[k + 1], NEW r \in Paths[k + 1], q[k + 2] = r[k + 2] PROVE q = r
    <3>1. PICK p \in Paths[k] : q = Append(p, q[k + 2]) /\ employees[q[k + 2]] = p[k + 1]
      BY <2>3
    <3>2. PICK o \in Paths[k] : r = Append(o, r[k + 2]) /\ employees[r[k + 2]] = o[k + 1]
      BY <2>3
    <3>3. p[k + 1] = o[k + 1]
      BY <2>5, <3>1, <3>2
    <3>4. p = o
      BY <1>2, <3>3 DEF OnePathEach
    <3> QED BY <2>5, <3>1, <3>2, <3>4
  <2>6. (k + 1) + 1 = k + 2
    OBVIOUS
  <2> QED BY <2>3, <2>4, <2>5, <2>6 DEF OnePathEach
<1>3. 0 \in S
  BY <1>1
<1>4. ASSUME NEW k \in Nat, k \in S PROVE k + 1 \in S
  BY <1>2, <1>4
<1> HIDE DEF S
<1>5. Nat \subseteq S
  BY <1>3, <1>4, NatInd
<1> QED BY <1>5 DEF S

\* The rows of LEVEL l are the paths to the level l - 1 of the tree.
LEMMA RowsArePaths ==
  ASSUME ManagersFirst, NEW n \in Nat
  PROVE  \A l \in 1..n : ConnectBy(n)[l] = Paths[l - 1]
<1> DEFINE Goes(h) == h = [l \in 1..n |-> IF l = 1 THEN {<<Root>>} ELSE Grow(h[l - 1])]
           g == [l \in 1..n |-> Paths[l - 1]]
<1>1. Goes(g)
  <2>1. ASSUME NEW l \in 1..n PROVE Paths[l - 1] = IF l = 1 THEN {<<Root>>} ELSE Grow(g[l - 1])
    <3>1. CASE l = 1
      BY <3>1, PathsGoOn
    <3>2. CASE l # 1
      <4>1. l - 2 \in Nat /\ (l - 2) + 1 = l - 1 /\ l - 1 \in 1..n /\ (l - 1) - 1 = l - 2
        BY <3>2
      <4>2. Paths[(l - 2) + 1] = Grow(Paths[l - 2])
        BY <4>1, PathsGoOn
      <4> QED BY <3>2, <4>1, <4>2
    <3> QED BY <3>1, <3>2
  <2> QED BY <2>1
<1> DEFINE h == CHOOSE s : Goes(s)
<1>2. Goes(h)
  <2> HIDE DEF Goes, g
  <2> QED BY <1>1
<1>3. ConnectBy(n) = h
  BY DEF ConnectBy, Grow, Continuations
<1> HIDE DEF h
<1> DEFINE T == {k \in Nat : k + 1 \in 1..n => h[k + 1] = Paths[k]}
<1>4. 0 \in T
  <2>1. ASSUME 0 + 1 \in 1..n PROVE h[1] = Paths[0]
    <3>1. h[1] = {<<Root>>}
      BY <1>2, <2>1
    <3> QED BY <3>1, PathsGoOn
  <2> HIDE DEF Goes, g
  <2> QED BY <2>1
<1>5. ASSUME NEW k \in Nat, k \in T PROVE k + 1 \in T
  <2>1. ASSUME (k + 1) + 1 \in 1..n PROVE h[(k + 1) + 1] = Paths[k + 1]
    <3>1. k + 1 \in 1..n /\ ((k + 1) + 1) - 1 = k + 1 /\ (k + 1) + 1 # 1
      BY <2>1
    <3>2. h[(k + 1) + 1] = Grow(h[k + 1])
      BY <1>2, <2>1, <3>1
    <3>3. h[k + 1] = Paths[k]
      BY <1>5, <3>1
    <3>4. Paths[k + 1] = Grow(Paths[k])
      BY PathsGoOn
    <3> QED BY <3>2, <3>3, <3>4
  <2> HIDE DEF Goes, g
  <2> QED BY <2>1
<1> HIDE DEF T
<1>6. Nat \subseteq T
  BY <1>4, <1>5, NatInd
<1>7. ASSUME NEW l \in 1..n PROVE h[l] = Paths[l - 1]
  <2>1. l - 1 \in Nat /\ (l - 1) + 1 = l
    OBVIOUS
  <2> QED BY <1>6, <2>1 DEF T
<1> QED BY <1>3, <1>7
\* The last employees of a set of paths, each reached by one path of the set.
LastOf(p) == p[Len(p)]
OneEach(R) == \A p, q \in R : LastOf(p) = LastOf(q) => p = q
LastsOf(R) == {LastOf(p) : p \in R}

LEMMA AsManyPaths ==
  ASSUME NEW R, NEW E, OneEach(R), LastsOf(R) = E, IsFiniteSet(E)
  PROVE  /\ Cardinality(R) = Cardinality(E)
         /\ \A e \in E : Cardinality({p \in R : LastOf(p) = e}) = 1
<1> DEFINE pathTo == [e \in E |-> CHOOSE p \in R : LastOf(p) = e]
<1>1. ASSUME NEW e \in E PROVE pathTo[e] \in R /\ LastOf(pathTo[e]) = e
  <2>1. \E p \in R : LastOf(p) = e
    BY DEF LastsOf
  <2> QED BY <2>1
<1>2. pathTo = [e \in E |-> pathTo[e]]
  OBVIOUS
<1> HIDE DEF pathTo
<1>3. ASSUME NEW d \in E, NEW e \in E, pathTo[d] = pathTo[e] PROVE d = e
  BY <1>1, <1>3
<1>4. ASSUME NEW p \in R PROVE \E e \in E : pathTo[e] = p
  <2>1. LastOf(p) \in E
    BY DEF LastsOf
  <2>2. pathTo[LastOf(p)] = p
    BY <1>1, <2>1 DEF OneEach
  <2> QED BY <2>1, <2>2
<1>5. pathTo \in [E -> R]
  BY <1>1, <1>2
<1>6. pathTo \in Bijection(E, R)
  BY <1>3, <1>4, <1>5 DEF Bijection, Injection, Surjection, IsInjective
<1>7. Cardinality(R) = Cardinality(E)
  BY <1>6, FS_Bijection DEF ExistsBijection
<1>8. ASSUME NEW e \in E PROVE Cardinality({p \in R : LastOf(p) = e}) = 1
  <2>1. {p \in R : LastOf(p) = e} = {pathTo[e]}
    BY <1>1 DEF OneEach
  <2> QED BY <2>1, FS_Singleton
<1> QED BY <1>7, <1>8

\* The rows below the root reach the employees of the levels below it, one each.
LEMMA PathsReachLevels ==
  ASSUME ManagersFirst
  PROVE  /\ \A k \in Nat : /\ OneEach(Paths[k]) /\ LastsOf(Paths[k]) = Tree[k]
                           /\ IsFiniteSet(Tree[k])
         /\ \A k \in Nat : LET R == UNION {Paths[j] : j \in 1..(k + 1)}
                           IN  OneEach(R) /\ LastsOf(R) = Through(k) /\ IsFiniteSet(Through(k))
<1>1. IsFiniteSet(DOMAIN employees)
  <2>1. PICK n \in Nat : DOMAIN employees = 1..n
    BY DEF ManagersFirst
  <2> QED BY <2>1, FS_Interval
<1>2. ASSUME NEW k \in Nat, NEW p \in Paths[k] PROVE LastOf(p) = p[k + 1] /\ LastOf(p) \in Tree[k]
  <2>1. PathTo(p, k)
    BY OnePathToEach DEF OnePathEach
  <2> QED BY <2>1 DEF PathTo, LastOf
<1>3. ASSUME NEW k \in Nat PROVE OneEach(Paths[k]) /\ LastsOf(Paths[k]) = Tree[k] /\ IsFiniteSet(Tree[k])
  <2>1. OnePathEach(k)
    BY OnePathToEach
  <2>2. OneEach(Paths[k])
    BY <1>2, <2>1 DEF OnePathEach, OneEach
  <2>3. ASSUME NEW e \in Tree[k] PROVE e \in LastsOf(Paths[k])
    <3>1. PICK p \in Paths[k] : p[k + 1] = e
      BY <2>1 DEF OnePathEach
    <3>2. LastOf(p) = e
      BY <1>2, <3>1
    <3> QED BY <3>2 DEF LastsOf
  <2>4. LastsOf(Paths[k]) = Tree[k]
    BY <1>2, <2>3 DEF LastsOf
  <2>5. IsFiniteSet(Tree[k])
    BY <1>1, TreeGoesOn, FS_Subset
  <2> QED BY <2>2, <2>4, <2>5
<1>4. ASSUME NEW k \in Nat
      PROVE  LET R == UNION {Paths[j] : j \in 1..(k + 1)}
             IN  OneEach(R) /\ LastsOf(R) = Through(k) /\ IsFiniteSet(Through(k))
  <2> DEFINE R == UNION {Paths[j] : j \in 1..(k + 1)}
  <2>1. \A p : p \in R <=> \E j \in 1..(k + 1) : p \in Paths[j]
    OBVIOUS
  <2>2. \A e : e \in Through(k) <=> \E j \in 1..(k + 1) : e \in Tree[j]
    BY DEF Through
  <2>3. 1..(k + 1) \subseteq Nat
    OBVIOUS
  <2> HIDE DEF R
  <2>4. ASSUME NEW p \in R, NEW q \in R, LastOf(p) = LastOf(q) PROVE p = q
    <3>1. PICK i \in 1..(k + 1) : p \in Paths[i]
      BY <2>1
    <3>2. PICK j \in 1..(k + 1) : q \in Paths[j]
      BY <2>1
    <3>3. LastOf(p) \in Tree[i] /\ LastOf(q) \in Tree[j] /\ i \in Nat /\ j \in Nat
      BY <1>2, <2>3, <3>1, <3>2
    <3>4. i = j
      BY <2>4, <3>3, TreeDisjoint
    <3>5. OneEach(Paths[i])
      BY <1>3, <3>3
    <3> QED BY <2>4, <3>1, <3>2, <3>4, <3>5 DEF OneEach
  <2>5. ASSUME NEW p \in R PROVE LastOf(p) \in Through(k)
    <3>1. PICK j \in 1..(k + 1) : p \in Paths[j]
      BY <2>1
    <3> QED BY <1>2, <2>2, <2>3, <3>1
  <2>6. ASSUME NEW e \in Through(k) PROVE e \in LastsOf(R)
    <3>1. PICK j \in 1..(k + 1) : e \in Tree[j]
      BY <2>2
    <3>2. e \in LastsOf(Paths[j])
      BY <1>3, <2>3, <3>1
    <3>3. PICK p \in Paths[j] : e = LastOf(p)
      BY <3>2 DEF LastsOf
    <3> QED BY <2>1, <3>1, <3>3 DEF LastsOf
  <2>7. LastsOf(R) = Through(k)
    BY <2>5, <2>6 DEF LastsOf
  <2>8. Through(k) \subseteq DOMAIN employees
    BY <2>2, <2>3, TreeGoesOn
  <2> QED BY <1>1, <2>4, <2>7, <2>8, FS_Subset DEF OneEach, R
<1> QED BY <1>3, <1>4

\* The two statements of an org variant give the same row.
LEMMA OrgAgrees ==
  ASSUME ManagersFirst, 2 \in Reports({Root}), NEW d \in Nat \ {0}
  PROVE  MongoOrg(d) = OracleOrg(d)
<1> DEFINE found == GraphLookup(MaxDepth(d))[MaxDepth(d)]
           Rows  == ConnectBy(Levels(d))
           under == UNION {Rows[l] : l \in 2..Levels(d)}
           last  == {p[Len(p)] : p \in under}
<1>1. d - 1 \in Nat /\ d - 1 \in 0..(d - 1) /\ MaxDepth(d) = d - 1 /\ Levels(d) = d + 1 /\ (d - 1) + 1 = d
  BY DEF MaxDepth, Levels
<1>2. found = Through(d - 1)
  BY <1>1, LookupFinds
<1>3. under = UNION {Paths[j] : j \in 1..((d - 1) + 1)}
  <2>1. \A l \in 1..(d + 1) : Rows[l] = Paths[l - 1]
    BY <1>1, RowsArePaths
  <2> HIDE DEF Rows
  <2>2. ASSUME NEW l \in 2..(d + 1) PROVE l - 1 \in 1..d /\ Rows[l] = Paths[l - 1]
    BY <2>1
  <2>3. ASSUME NEW j \in 1..d PROVE j + 1 \in 2..(d + 1) /\ Rows[j + 1] = Paths[j]
    <3>1. j + 1 \in 1..(d + 1) /\ (j + 1) - 1 = j /\ j + 1 \in 2..(d + 1)
      OBVIOUS
    <3> QED BY <2>1, <3>1
  <2>4. under = UNION {Rows[l] : l \in 2..(d + 1)}
    BY <1>1
  <2>5. UNION {Rows[l] : l \in 2..(d + 1)} = UNION {Paths[j] : j \in 1..d}
    BY <2>2, <2>3
  <2> QED BY <1>1, <2>4, <2>5
<1> HIDE DEF found, under, Rows
<1>4. OneEach(under) /\ LastsOf(under) = Through(d - 1) /\ IsFiniteSet(Through(d - 1))
  BY <1>1, <1>3, PathsReachLevels
<1>5. last = found
  BY <1>2, <1>4 DEF LastsOf, LastOf
<1>6. Cardinality(under) = Cardinality(found)
  BY <1>2, <1>4, AsManyPaths
<1>7. \A e \in found : Cardinality({p \in under : LastOf(p) = e}) = 1
  BY <1>2, <1>4, AsManyPaths
<1>8. \A e \in found : Cardinality({p \in under : p[Len(p)] = e}) = 1
  BY <1>7 DEF LastOf
<1>9. under # {}
  <2>1. 1 \in 1..((d - 1) + 1) /\ Tree[0 + 1] = Reports({Root})
    BY TreeGoesOn
  <2>2. 2 \in Through(d - 1)
    BY <2>1 DEF Through
  <2> QED BY <1>4, <2>2 DEF LastsOf
<1> HIDE DEF last
<1>10. [e \in found |-> 1] = [e \in last |-> Cardinality({p \in under : p[Len(p)] = e})]
  BY <1>5, <1>8
<1>11. MongoOrg(d) = [subordinate_count |-> Cardinality(found), subtree_salary |-> {[e \in found |-> 1]}]
  BY DEF MongoOrg, found
<1>12. OracleOrg(d) = [subordinate_count |-> Cardinality(under),
                       subtree_salary |->
                         IF under = {} THEN {}
                         ELSE {[e \in last |-> Cardinality({p \in under : p[Len(p)] = e})]}]
  BY DEF OracleOrg, under, last, Rows
<1> QED BY <1>6, <1>9, <1>10, <1>11, <1>12

\* The two statements of a path variant give the same rows.
LEMMA PathAgrees ==
  ASSUME ManagersFirst, NEW d \in Nat \ {0}
  PROVE  MongoPath(d) = OraclePath(d)
<1> DEFINE Seen == GraphLookup(MaxDepth(d))
           Rows == ConnectBy(Levels(d))
<1>1. d - 1 \in Nat /\ MaxDepth(d) = d - 1 /\ Levels(d) = d + 1
  BY DEF MaxDepth, Levels
<1>2. \A k \in 0..(d - 1) : FoundAt(Seen, k) = Tree[k + 1]
  BY <1>1, LookupFinds
<1>3. \A l \in 1..(d + 1) : Rows[l] = Paths[l - 1]
  BY <1>1, RowsArePaths
<1>4. MongoPath(d) = {<<k + 1, Cardinality(FoundAt(Seen, k))>> : k \in {j \in 0..(d - 1) : FoundAt(Seen, j) # {}}}
  BY <1>1 DEF MongoPath
<1>5. OraclePath(d) = {<<l - 1, Cardinality(Rows[l])>> : l \in {j \in 2..(d + 1) : Rows[j] # {}}}
  BY <1>1 DEF OraclePath
<1> HIDE DEF Seen, Rows
<1>6. ASSUME NEW k \in 0..(d - 1)
      PROVE  /\ k + 2 \in 2..(d + 1) /\ k + 2 - 1 = k + 1
             /\ Cardinality(FoundAt(Seen, k)) = Cardinality(Rows[k + 2])
             /\ FoundAt(Seen, k) # {} <=> Rows[k + 2] # {}
  <2>1. k + 2 \in 2..(d + 1) /\ k + 2 \in 1..(d + 1) /\ k + 2 - 1 = k + 1 /\ k + 1 \in Nat
    OBVIOUS
  <2>2. FoundAt(Seen, k) = Tree[k + 1] /\ Rows[k + 2] = Paths[k + 1]
    BY <1>2, <1>3, <2>1
  <2>3. OneEach(Paths[k + 1]) /\ LastsOf(Paths[k + 1]) = Tree[k + 1] /\ IsFiniteSet(Tree[k + 1])
    BY <2>1, PathsReachLevels
  <2>4. Cardinality(Paths[k + 1]) = Cardinality(Tree[k + 1])
    BY <2>3, AsManyPaths
  <2>5. Paths[k + 1] # {} <=> Tree[k + 1] # {}
    BY <2>3 DEF LastsOf
  <2> QED BY <2>1, <2>2, <2>4, <2>5
<1>7. ASSUME NEW l \in 2..(d + 1) PROVE \E k \in 0..(d - 1) : l = k + 2
  <2>1. l - 2 \in 0..(d - 1) /\ l = (l - 2) + 2
    OBVIOUS
  <2> QED BY <2>1
<1>8. ASSUME NEW x \in MongoPath(d) PROVE x \in OraclePath(d)
  <2>1. PICK k \in 0..(d - 1) : FoundAt(Seen, k) # {} /\ x = <<k + 1, Cardinality(FoundAt(Seen, k))>>
    BY <1>4
  <2>2. /\ k + 2 \in 2..(d + 1) /\ Rows[k + 2] # {}
        /\ x = <<k + 2 - 1, Cardinality(Rows[k + 2])>>
    BY <1>6, <2>1
  <2> QED BY <1>5, <2>2
<1>9. ASSUME NEW x \in OraclePath(d) PROVE x \in MongoPath(d)
  <2>1. PICK l \in 2..(d + 1) : Rows[l] # {} /\ x = <<l - 1, Cardinality(Rows[l])>>
    BY <1>5
  <2>2. PICK k \in 0..(d - 1) : l = k + 2
    BY <1>7
  <2>3. FoundAt(Seen, k) # {} /\ x = <<k + 1, Cardinality(FoundAt(Seen, k))>>
    BY <1>6, <2>1, <2>2
  <2> QED BY <1>4, <2>3
<1> QED BY <1>8, <1>9

\* $graphLookup and CONNECT BY NOCYCLE give the same answers on the generated
\* employees, at every depth (S07, the org and path variants).
THEOREM SameAnswers == Spec => []EnginesAgree
<1>1. IInv => EnginesAgree
  <2> SUFFICES ASSUME IInv, phase = "built", NEW d \in Depths
               PROVE  MongoOrg(d) = OracleOrg(d) /\ MongoPath(d) = OraclePath(d)
    BY DEF EnginesAgree
  <2>1. ManagersFirst /\ 2 \in Reports({Root})
    BY ManagersAreFirst
  <2>2. d \in Nat \ {0}
    BY DepthsAssumption
  <2> QED BY <2>1, <2>2, OrgAgrees, PathAgrees
<1> QED BY <1>1, GeneratorInvariance, PTL
================================================================================
