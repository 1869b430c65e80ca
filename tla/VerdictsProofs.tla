--------------------------- MODULE VerdictsProofs ---------------------------
(***************************************************************************)
(* Proofs about Verdicts: that what a verdict says of a latency lies       *)
(* between the exact 99th percentile and its double, though it sees only   *)
(* the counts of log2 buckets; that its findings are ranked and none is    *)
(* cut off from the one it explains; and that advice never takes from a VM *)
(* what it needs.  And about Contention: that whoever is said to have      *)
(* taken a VM's CPU took it.  Both rest on the sums of Sums.               *)
(***************************************************************************)
EXTENDS Verdicts, Contention, FiniteSetTheorems, SequenceTheorems, WellFoundedInduction, TLAPS

LEMMA Smallest ==
  ASSUME NEW S \in SUBSET Nat, S # {}
  PROVE  Min(S) \in S /\ \A j \in S : Min(S) <= j
<1>1. \E m \in S : \A k \in S : ~(<<k, m>> \in OpToRel(<, Nat))
  BY NatLessThanWellFounded, WFMin
<1>2. PICK m \in S : \A k \in S : ~(k < m)
  BY <1>1 DEF OpToRel
<1>3. m \in Nat /\ \A k \in S : k \in Nat /\ m <= k
  BY <1>2
<1> QED BY <1>3 DEF Min

LEMMA Greatest ==
  ASSUME NEW n \in Nat, NEW S \in SUBSET (0..n), S # {}
  PROVE  \E i \in S : \A j \in S : j <= i
<1> DEFINE B == {m \in Nat : \A j \in S : j <= m}
<1>1. B \subseteq Nat /\ n \in B
  OBVIOUS
<1>2. \E m \in B : \A k \in B : ~(<<k, m>> \in OpToRel(<, Nat))
  BY <1>1, NatLessThanWellFounded, WFMin
<1>3. PICK m \in B : \A k \in B : ~(k < m)
  BY <1>1, <1>2 DEF OpToRel
<1>4. m \in Nat /\ \A j \in S : j <= m
  OBVIOUS
<1>5. m \in S
  <2> SUFFICES ASSUME m \notin S PROVE FALSE
    OBVIOUS
  <2>1. \A j \in S : j \in Nat /\ j < m
    BY <1>4
  <2>2. PICK k : k \in S
    OBVIOUS
  <2>3. m - 1 \in Nat /\ \A j \in S : j <= m - 1
    BY <1>4, <2>1, <2>2
  <2>4. m - 1 \in B
    BY <2>3
  <2> HIDE DEF B
  <2> QED BY <1>3, <1>4, <2>4
<1> QED BY <1>4, <1>5

LEMMA Largest ==
  ASSUME NEW n \in Nat, NEW S \in SUBSET (0..n), S # {}
  PROVE  Max(S) \in S /\ \A j \in S : j <= Max(S)
<1>1. \E i \in S : \A j \in S : i >= j
  BY Greatest
<1> QED BY <1>1 DEF Max

-----------------------------------------------------------------------------
(* Powers, buckets and their edges.                                        *)

LEMMA Powers ==
  /\ \A i \in 0..9 : 2^i \in Nat /\ 2^i >= 1
  /\ \A i \in 0..8 : 2^(i + 1) = 2 * 2^i
  /\ \A i, j \in 0..9 : i <= j => 2^i <= 2^j
<1>1. 2^0 = 1 /\ 2^1 = 2 /\ 2^2 = 4 /\ 2^3 = 8 /\ 2^4 = 16 /\ 2^5 = 32 /\ 2^6 = 64 /\ 2^7 = 128 /\ 2^8 = 256 /\ 2^9 = 512
  OBVIOUS
<1>2. PICK f : f = [i \in 0..9 |-> 2^i]
  OBVIOUS
<1>3. f[0] = 1 /\ f[1] = 2 /\ f[2] = 4 /\ f[3] = 8 /\ f[4] = 16 /\ f[5] = 32 /\ f[6] = 64 /\ f[7] = 128 /\ f[8] = 256 /\ f[9] = 512
  BY <1>1, <1>2
<1>4. \A i \in 0..9 : 2^i = f[i]
  BY <1>2
<1>5. \A i \in 0..9 : i = 0 \/ i = 1 \/ i = 2 \/ i = 3 \/ i = 4 \/ i = 5 \/ i = 6 \/ i = 7 \/ i = 8 \/ i = 9
  OBVIOUS
<1>6. /\ \A i \in 0..9 : f[i] \in Nat /\ f[i] >= 1
      /\ \A i \in 0..8 : f[i + 1] = 2 * f[i]
      /\ \A i, j \in 0..9 : i <= j => f[i] <= f[j]
  BY <1>3, <1>5
<1>7. \A i \in 0..8 : i \in 0..9 /\ i + 1 \in 0..9
  OBVIOUS
<1> QED BY <1>4, <1>6, <1>7

LEMMA BucketIs ==
  ASSUME NEW x \in Latencies
  PROVE  /\ Bucket(x) \in Buckets
         /\ x = 0 => Bucket(x) = 0
         /\ x # 0 => 2^Bucket(x) <= x /\ x < 2^(Bucket(x) + 1)
<1>1. x \in 0..511
  BY VerdictsAssumption
<1>2. CASE x = 0
  BY <1>2 DEF Bucket, BucketOf, Buckets
<1>3. CASE x # 0
  <2> DEFINE Fits(b) == 2^b <= x /\ x < 2^(b + 1)
  <2>1. 2^0 = 1 /\ 2^1 = 2 /\ 2^2 = 4 /\ 2^3 = 8 /\ 2^4 = 16 /\ 2^5 = 32 /\ 2^6 = 64 /\ 2^7 = 128 /\ 2^8 = 256 /\ 2^9 = 512
    OBVIOUS
  <2>2. \E b \in 0..8 : Fits(b)
    <3>1. /\ Fits(0) <=> x < 2
          /\ Fits(1) <=> 2 <= x /\ x < 4
          /\ Fits(2) <=> 4 <= x /\ x < 8
          /\ Fits(3) <=> 8 <= x /\ x < 16
          /\ Fits(4) <=> 16 <= x /\ x < 32
          /\ Fits(5) <=> 32 <= x /\ x < 64
          /\ Fits(6) <=> 64 <= x /\ x < 128
          /\ Fits(7) <=> 128 <= x /\ x < 256
          /\ Fits(8) <=> 256 <= x /\ x < 512
      BY <1>1, <1>3, <2>1
    <3> HIDE DEF Fits
    <3>2. Fits(0) \/ Fits(1) \/ Fits(2) \/ Fits(3) \/ Fits(4) \/ Fits(5) \/ Fits(6) \/ Fits(7) \/ Fits(8)
      BY <1>1, <1>3, <3>1
    <3> QED BY <3>2
  <2>3. Bucket(x) = CHOOSE b \in Buckets : Fits(b)
    BY <1>3 DEF Bucket, BucketOf
  <2> HIDE DEF Fits
  <2>4. Bucket(x) \in Buckets /\ Fits(Bucket(x))
    BY <2>2, <2>3 DEF Buckets
  <2> QED BY <1>3, <2>4 DEF Fits
<1> QED BY <1>2, <1>3

\* A bucket's upper edge is above what is in it, and at most twice it.
LEMMA EdgeIs ==
  ASSUME NEW x \in Latencies
  PROVE  /\ edge(Bucket(x)) \in Nat /\ x < edge(Bucket(x))
         /\ edge(Bucket(x)) <= 2 * x \/ edge(Bucket(x)) = 2
         /\ edge(Bucket(x)) >= 2
<1>1. x \in Nat /\ Bucket(x) \in 0..8
  BY VerdictsAssumption, BucketIs DEF Buckets
<1>2. PICK b, e : b = 2^Bucket(x) /\ e = 2^(Bucket(x) + 1)
  OBVIOUS
<1>3. e = 2 * b /\ b \in Nat /\ b >= 1
  <2>1. PICK k \in 0..8 : k = Bucket(x)
    BY <1>1
  <2>2. 2^(k + 1) = 2 * 2^k
    BY Powers, Zenon
  <2>3. 2^k \in Nat /\ 2^k >= 1
    <3>1. k \in 0..9
      OBVIOUS
    <3> QED BY <3>1, Powers
  <2> QED BY <1>2, <2>1, <2>2, <2>3
<1>4. x = 0 => b = 1
  <2>1. 2^0 = 1
    OBVIOUS
  <2> QED BY <1>2, <2>1, BucketIs
<1>5. x # 0 => b <= x /\ x < e
  BY <1>2, BucketIs
<1> QED BY <1>1, <1>2, <1>3, <1>4, <1>5 DEF edge

LEMMA BucketsInOrder ==
  ASSUME NEW x \in Latencies, NEW y \in Latencies, x <= y
  PROVE  Bucket(x) <= Bucket(y)
<1>1. x \in Nat /\ y \in Nat /\ Bucket(x) \in 0..8 /\ Bucket(y) \in 0..8
  BY VerdictsAssumption, BucketIs DEF Buckets
<1>2. SUFFICES ASSUME Bucket(y) + 1 <= Bucket(x) PROVE FALSE
  BY <1>1
<1>3. x # 0 /\ y # 0
  BY <1>1, <1>2, BucketIs
<1>4. PICK i, j \in 0..9 : i = Bucket(y) + 1 /\ j = Bucket(x)
  BY <1>1
<1>5. 2^i <= 2^j /\ 2^i \in Nat /\ 2^j \in Nat
  BY <1>2, <1>4, Powers
<1>6. y < 2^(Bucket(y) + 1) /\ 2^Bucket(x) <= x
  BY <1>3, BucketIs
<1>7. y < 2^i /\ 2^j <= x
  BY <1>4, <1>6
<1> QED BY <1>1, <1>5, <1>7

-----------------------------------------------------------------------------
(* Sums of buckets.                                                        *)

Histograms == [Buckets -> Nat]

\* The sum up to a bucket is the sum up to the one before it and its own count.
LEMMA CumIs ==
  ASSUME NEW c \in Histograms
  PROVE  \A b \in Buckets : Cum(c)[b] = c[b] + IF b = 0 THEN 0 ELSE Cum(c)[b - 1]
<1> DEFINE at(i, b) == IF i <= b THEN c[i] ELSE 0
           f == [b \in Buckets |-> at(0, b) + at(1, b) + at(2, b) + at(3, b) + at(4, b) + at(5, b) + at(6, b)
                                     + at(7, b) + at(8, b)]
           Adds(g) == g = [b \in Buckets |-> c[b] + IF b = 0 THEN 0 ELSE g[b - 1]]
<1>1. Adds(f)
  <2>1. \A b \in Buckets : f[b] = c[b] + IF b = 0 THEN 0 ELSE f[b - 1]
    BY DEF Buckets, Histograms
  <2> QED BY <2>1
<1>2. Cum(c) = CHOOSE g : Adds(g)
  BY DEF Cum
<1>3. \E g : Adds(g)
  BY <1>1
<1>4. Adds(Cum(c))
  <2> HIDE DEF Adds
  <2> QED BY <1>2, <1>3, Zenon
<1> QED BY <1>4

LEMMA CumType ==
  ASSUME NEW c \in Histograms
  PROVE  \A b \in Buckets : Cum(c)[b] \in Nat
<1> DEFINE bad == {b \in Buckets : Cum(c)[b] \notin Nat}
<1>1. SUFFICES ASSUME bad # {} PROVE FALSE
  OBVIOUS
<1>2. PICK m : m = Min(bad)
  OBVIOUS
<1>3. m \in bad /\ \A j \in bad : m <= j
  BY <1>1, <1>2, Smallest DEF Buckets
<1>4. m \in 0..8 /\ c[m] \in Nat /\ Cum(c)[m] = c[m] + (IF m = 0 THEN 0 ELSE Cum(c)[m - 1])
  BY <1>3, CumIs DEF Buckets, Histograms
<1>5. m # 0 => m - 1 \in Buckets /\ m - 1 \notin bad
  BY <1>3, <1>4 DEF Buckets
<1>6. m # 0 => Cum(c)[m - 1] \in Nat
  BY <1>5
<1> QED BY <1>3, <1>4, <1>6

\* More in one bucket is as much more from there on.
Bumped(c, k, n, d) == d = [c EXCEPT ![k] = @ + n]
LEMMA CumBump ==
  ASSUME NEW c \in Histograms, NEW k \in Buckets, NEW n \in Nat, NEW d, Bumped(c, k, n, d)
  PROVE  d \in Histograms /\ \A b \in Buckets : Cum(d)[b] = Cum(c)[b] + IF k <= b THEN n ELSE 0
<1>1. d \in Histograms /\ \A b \in Buckets : c[b] \in Nat /\ d[b] = IF b = k THEN c[b] + n ELSE c[b]
  BY DEF Histograms, Bumped
<1> DEFINE bad == {b \in Buckets : Cum(d)[b] # Cum(c)[b] + IF k <= b THEN n ELSE 0}
<1>2. SUFFICES ASSUME bad # {} PROVE FALSE
  BY <1>1
<1>3. PICK m : m = Min(bad)
  OBVIOUS
<1>4. m \in bad /\ \A j \in bad : m <= j
  <2>1. bad \in SUBSET Nat
    BY DEF Buckets
  <2> HIDE DEF bad
  <2> QED BY <1>2, <1>3, <2>1, Smallest
<1>5. m \in 0..8 /\ Cum(c)[m] = c[m] + (IF m = 0 THEN 0 ELSE Cum(c)[m - 1])
      /\ Cum(d)[m] = d[m] + (IF m = 0 THEN 0 ELSE Cum(d)[m - 1])
  BY <1>1, <1>4, CumIs DEF Buckets
<1>6. m # 0 => m - 1 \in Buckets /\ m - 1 \notin bad
  <2>1. m # 0 => m - 1 \in Buckets /\ ~(m <= m - 1)
    BY <1>5 DEF Buckets
  <2> HIDE DEF bad
  <2> QED BY <1>4, <2>1
<1>7. m # 0 => Cum(d)[m - 1] = Cum(c)[m - 1] + (IF k <= m - 1 THEN n ELSE 0) /\ Cum(c)[m - 1] \in Nat
  BY <1>6, CumType
<1>8. k \in 0..8 /\ d[m] = (IF m = k THEN c[m] + n ELSE c[m]) /\ c[m] \in Nat
  BY <1>1, <1>4 DEF Buckets
<1>9. Cum(d)[m] # Cum(c)[m] + IF k <= m THEN n ELSE 0
  BY <1>4
<1> QED BY <1>5, <1>7, <1>8, <1>9

LEMMA CumGrows ==
  ASSUME NEW c \in Histograms, NEW a \in Buckets, NEW b \in Buckets, a <= b
  PROVE  Cum(c)[a] <= Cum(c)[b]
<1> DEFINE bad == {j \in Buckets : a <= j /\ ~(Cum(c)[a] <= Cum(c)[j])}
<1>1. SUFFICES ASSUME bad # {} PROVE FALSE
  OBVIOUS
<1>2. PICK m : m = Min(bad)
  OBVIOUS
<1>3. m \in bad /\ \A j \in bad : m <= j
  BY <1>1, <1>2, Smallest DEF Buckets
<1>4. m \in 0..8 /\ a \in 0..8 /\ Cum(c)[a] \in Nat /\ m # a
  BY <1>3, CumType DEF Buckets
<1>5. m # 0 /\ m - 1 \in Buckets /\ m - 1 \notin bad /\ a <= m - 1
  BY <1>3, <1>4 DEF Buckets
<1>6. Cum(c)[m] = c[m] + Cum(c)[m - 1] /\ c[m] \in Nat /\ Cum(c)[m - 1] \in Nat
  BY <1>3, <1>5, CumIs, CumType DEF Histograms
<1>7. Cum(c)[a] <= Cum(c)[m - 1]
  BY <1>5
<1> QED BY <1>3, <1>4, <1>6, <1>7

-----------------------------------------------------------------------------
(* Sums over the keys of a map.                                            *)

Addable(f) == IsFiniteSet(DOMAIN f) /\ \A t \in DOMAIN f : f[t] \in Nat
Pairs(f) == UNION {{t} \X (1..f[t]) : t \in DOMAIN f}

LEMMA PairsAre ==
  ASSUME NEW f
  PROVE  /\ \A u, k : <<u, k>> \in Pairs(f) <=> u \in DOMAIN f /\ k \in 1..f[u]
         /\ \A p \in Pairs(f) : \E u, k : p = <<u, k>>
<1>1. ASSUME NEW p \in Pairs(f) PROVE \E t \in DOMAIN f : \E k \in 1..f[t] : p = <<t, k>>
  <2>1. PICK t \in DOMAIN f : p \in {t} \X (1..f[t])
    BY <1>1 DEF Pairs
  <2>2. PICK u \in {t}, k \in 1..f[t] : p = <<u, k>>
    BY <2>1
  <2> QED BY <2>2
<1>2. ASSUME NEW u \in DOMAIN f, NEW k \in 1..f[u] PROVE <<u, k>> \in Pairs(f)
  <2>1. <<u, k>> \in {u} \X (1..f[u])
    OBVIOUS
  <2> QED BY <2>1 DEF Pairs
<1>3. ASSUME NEW u, NEW k, <<u, k>> \in Pairs(f) PROVE u \in DOMAIN f /\ k \in 1..f[u]
  <2>1. PICK t \in DOMAIN f : \E j \in 1..f[t] : <<u, k>> = <<t, j>>
    BY <1>1, <1>3
  <2>2. PICK j \in 1..f[t] : <<u, k>> = <<t, j>>
    BY <2>1
  <2>3. u = t /\ k = j
    BY <2>2
  <2> QED BY <2>3
<1> QED BY <1>1, <1>2, <1>3

\* The total of finitely many counts is a number, and none of them is more than it.
LEMMA TotalOf ==
  ASSUME NEW c, Addable(c)
  PROVE  /\ IsFiniteSet(Pairs(c)) /\ Total(c) = Cardinality(Pairs(c))
         /\ Total(c) \in Nat /\ \A t \in DOMAIN c : c[t] <= Total(c)
<1> DEFINE Of(t) == {t} \X (1..c[t])
           All == {Of(t) : t \in DOMAIN c}
<1>2. \A t \in DOMAIN c : IsFiniteSet(Of(t)) /\ Cardinality(Of(t)) = c[t]
  <2> SUFFICES ASSUME NEW t \in DOMAIN c PROVE IsFiniteSet(Of(t)) /\ Cardinality(Of(t)) = c[t]
    OBVIOUS
  <2>1. IsFiniteSet({t}) /\ Cardinality({t}) = 1
    BY FS_Singleton
  <2>2. c[t] \in Nat
    BY DEF Addable
  <2>3. IsFiniteSet(1..c[t]) /\ Cardinality(1..c[t]) = c[t]
    BY <2>2, FS_Interval
  <2>4. PICK A, B : A = {t} /\ B = 1..c[t]
    OBVIOUS
  <2>5. IsFiniteSet(A) /\ IsFiniteSet(B) /\ Cardinality(A) = 1 /\ Cardinality(B) = c[t]
    BY <2>1, <2>3, <2>4
  <2>6. IsFiniteSet(A \X B) /\ Cardinality(A \X B) = Cardinality(A) * Cardinality(B)
    BY <2>5, FS_Product
  <2>7. Cardinality(A \X B) = c[t]
    BY <2>2, <2>5, <2>6
  <2> QED BY <2>4, <2>6, <2>7
<1>3. IsFiniteSet(DOMAIN c)
  BY DEF Addable
<1>4. IsFiniteSet(All)
  <2> HIDE DEF Of
  <2>1. [t \in DOMAIN c |-> Of(t)] \in Surjection(DOMAIN c, All)
    BY DEF Surjection
  <2> HIDE DEF All
  <2> QED BY <1>3, <2>1, FS_Surjection
<1>5. IsFiniteSet(UNION All)
  <2>1. \A T \in All : IsFiniteSet(T)
    BY <1>2
  <2> HIDE DEF All
  <2> QED BY <1>4, <2>1, FS_UNION
<1>6. Total(c) = Cardinality(UNION All) /\ Pairs(c) = UNION All
  BY DEF Total, Pairs
<1>7. ASSUME NEW t \in DOMAIN c PROVE c[t] <= Total(c)
  <2>1. Of(t) \subseteq UNION All
    <3> HIDE DEF Of
    <3> QED OBVIOUS
  <2> HIDE DEF Of, All
  <2> QED BY <1>2, <1>5, <1>6, <2>1, FS_Subset
<1> QED BY <1>5, <1>6, <1>7, FS_CardinalityType

\* More of one is as much more in all.
LEMMA TotalBump ==
  ASSUME NEW f, Addable(f), NEW t \in DOMAIN f, NEW n \in Nat, NEW g,
         DOMAIN g = DOMAIN f, \A u \in DOMAIN f : g[u] = IF u = t THEN f[u] + n ELSE f[u]
  PROVE  Addable(g) /\ Total(g) = Total(f) + n
<1>1. f[t] \in Nat /\ Addable(g) /\ \A u \in DOMAIN f : f[u] \in Nat
  BY DEF Addable
<1> DEFINE more == {t} \X ((f[t] + 1)..(f[t] + n))
<1>2. IsFiniteSet(more) /\ Cardinality(more) = n
  <2>1. IsFiniteSet({t}) /\ Cardinality({t}) = 1
    BY FS_Singleton
  <2>2. PICK lo \in Int, hi \in Int : lo = f[t] + 1 /\ hi = f[t] + n
    BY <1>1
  <2>3. IsFiniteSet(lo..hi) /\ Cardinality(lo..hi) = n
    BY <1>1, <2>2, FS_Interval
  <2>4. IsFiniteSet({t} \X (lo..hi)) /\ Cardinality({t} \X (lo..hi)) = 1 * n
    BY <2>1, <2>3, FS_Product
  <2> QED BY <2>2, <2>4
<1>3. /\ \A u, k : <<u, k>> \in more <=> u = t /\ k \in (f[t] + 1)..(f[t] + n)
      /\ \A p \in more : \E u, k : p = <<u, k>>
  OBVIOUS
<1> HIDE DEF more
<1>4. \A u, k : <<u, k>> \in Pairs(g) <=> <<u, k>> \in Pairs(f) \/ <<u, k>> \in more
  <2> SUFFICES ASSUME NEW u, NEW k
               PROVE  u \in DOMAIN f /\ k \in 1..g[u] <=>
                        (u \in DOMAIN f /\ k \in 1..f[u]) \/ (u = t /\ k \in (f[t] + 1)..(f[t] + n))
    BY <1>3, PairsAre
  <2> QED BY <1>1
<1>5. Pairs(g) = Pairs(f) \cup more
  <2>1. ASSUME NEW p \in Pairs(g) PROVE p \in Pairs(f) \cup more
    <3>1. PICK u, k : p = <<u, k>>
      BY PairsAre
    <3> QED BY <1>4, <3>1
  <2>2. ASSUME NEW p \in Pairs(f) \cup more PROVE p \in Pairs(g)
    <3>1. PICK u, k : p = <<u, k>>
      BY <1>3, PairsAre
    <3> QED BY <1>4, <3>1
  <2> QED BY <2>1, <2>2
<1>9. Pairs(f) \cap more = {}
  <2> SUFFICES ASSUME NEW p \in Pairs(f), p \in more PROVE FALSE
    OBVIOUS
  <2>1. PICK u, k : p = <<u, k>>
    BY PairsAre
  <2>2. u = t /\ k \in 1..f[t] /\ k \in (f[t] + 1)..(f[t] + n)
    BY <1>3, <2>1, PairsAre
  <2> QED BY <1>1, <2>2
<1>6. IsFiniteSet(Pairs(f)) /\ Total(f) = Cardinality(Pairs(f)) /\ Total(g) = Cardinality(Pairs(g)) /\ Total(f) \in Nat
  BY <1>1, TotalOf
<1>7. Cardinality(Pairs(f) \cup more) = Cardinality(Pairs(f)) + Cardinality(more) - Cardinality(Pairs(f) \cap more)
  BY <1>2, <1>6, FS_Union
<1>8. Cardinality(Pairs(f) \cap more) = 0
  BY <1>9, FS_EmptySet
<1> QED BY <1>1, <1>2, <1>5, <1>6, <1>7, <1>8

LEMMA TotalZero ==
  ASSUME NEW f, IsFiniteSet(DOMAIN f), \A t \in DOMAIN f : f[t] = 0
  PROVE  Total(f) = 0
<1>1. Addable(f)
  BY DEF Addable
<1>3. Pairs(f) = {}
  <2> SUFFICES ASSUME NEW p \in Pairs(f) PROVE FALSE
    OBVIOUS
  <2>1. PICK u, k : p = <<u, k>>
    BY PairsAre
  <2>2. u \in DOMAIN f /\ k \in 1..f[u]
    BY <2>1, PairsAre
  <2> QED BY <2>2
<1> QED BY <1>1, <1>3, TotalOf, FS_EmptySet

\* What holds of no elements, and of one more whenever it holds of some, holds of all of a finite set.
LEMMA OneByOne ==
  ASSUME NEW S, IsFiniteSet(S), NEW G, {} \in G,
         \A T \in SUBSET S : \A x \in S \ T : T \in G => T \cup {x} \in G
  PROVE  S \in G
<1> DEFINE H == {T \in SUBSET S : T \in G}
           sizes == {Cardinality(T) : T \in H}
<1>1. PICK n \in Nat : n = Cardinality(S)
  BY FS_CardinalityType
<1>2. \A T \in H : IsFiniteSet(T) /\ Cardinality(T) \in Nat /\ Cardinality(T) <= n
  BY <1>1, FS_Subset, FS_CardinalityType
<1>3. sizes \in SUBSET (0..n)
  BY <1>2
<1>4. {} \in H
  OBVIOUS
<1>5. PICK i \in sizes : \A j \in sizes : j <= i
  <2>1. sizes # {}
    BY <1>4
  <2> HIDE DEF sizes
  <2> QED BY <1>3, <2>1, Greatest
<1>6. PICK T \in H : Cardinality(T) = i
  OBVIOUS
<1>7. SUFFICES ASSUME T # S PROVE FALSE
  BY <1>6
<1>8. PICK x \in S : x \notin T
  BY <1>6, <1>7
<1>9. T \cup {x} \in H
  BY <1>6, <1>8
<1>10. Cardinality(T \cup {x}) = Cardinality(T) + 1
  BY <1>2, <1>6, <1>8, FS_AddElement
<1>11. Cardinality(T \cup {x}) <= i
  BY <1>5, <1>9
<1> QED BY <1>2, <1>6, <1>10, <1>11

\* Keys that count nothing do not matter.
LEMMA TotalSame ==
  ASSUME NEW f, NEW g, Addable(f), Addable(g),
         \A u \in DOMAIN f : f[u] > 0 => u \in DOMAIN g /\ g[u] = f[u],
         \A u \in DOMAIN g : g[u] > 0 => u \in DOMAIN f /\ f[u] = g[u]
  PROVE  Total(f) = Total(g)
<1>1. \A u, k : <<u, k>> \in Pairs(f) <=> <<u, k>> \in Pairs(g)
  <2> SUFFICES ASSUME NEW u, NEW k
               PROVE  u \in DOMAIN f /\ k \in 1..f[u] <=> u \in DOMAIN g /\ k \in 1..g[u]
    BY PairsAre
  <2>1. /\ u \in DOMAIN f => f[u] \in Nat
        /\ u \in DOMAIN g => g[u] \in Nat
    BY DEF Addable
  <2>2. ASSUME u \in DOMAIN f, k \in 1..f[u] PROVE u \in DOMAIN g /\ k \in 1..g[u]
    <3>1. f[u] > 0
      BY <2>1, <2>2
    <3> QED BY <2>2, <3>1
  <2>3. ASSUME u \in DOMAIN g, k \in 1..g[u] PROVE u \in DOMAIN f /\ k \in 1..f[u]
    <3>1. g[u] > 0
      BY <2>1, <2>3
    <3> QED BY <2>3, <3>1
  <2> QED BY <2>2, <2>3
<1>2. ASSUME NEW p \in Pairs(f) PROVE p \in Pairs(g)
  <2>1. PICK u, k : p = <<u, k>>
    BY PairsAre
  <2> QED BY <1>1, <2>1
<1>3. ASSUME NEW p \in Pairs(g) PROVE p \in Pairs(f)
  <2>1. PICK u, k : p = <<u, k>>
    BY PairsAre
  <2> QED BY <1>1, <2>1
<1>4. Pairs(f) = Pairs(g)
  BY <1>2, <1>3
<1> QED BY <1>4, TotalOf

\* One more key adds its count.
LEMMA TotalWith ==
  ASSUME NEW f, Addable(f), NEW x, x \notin DOMAIN f, NEW g,
         DOMAIN g = DOMAIN f \cup {x}, g[x] \in Nat, \A u \in DOMAIN f : g[u] = f[u]
  PROVE  Addable(g) /\ Total(g) = Total(f) + g[x]
<1> DEFINE e == [u \in DOMAIN g |-> IF u = x THEN 0 ELSE f[u]]
<1>1. IsFiniteSet(DOMAIN g)
  BY FS_AddElement DEF Addable
<1>2. DOMAIN e = DOMAIN g /\ e[x] = 0 /\ \A u \in DOMAIN f : e[u] = f[u]
  OBVIOUS
<1>3. \A u \in DOMAIN e : e[u] \in Nat
  BY DEF Addable
<1> HIDE DEF e
<1>4. Addable(e)
  BY <1>1, <1>2, <1>3 DEF Addable
<1>5. Total(e) = Total(f)
  <2>1. \A u \in DOMAIN f : f[u] > 0 => u \in DOMAIN e /\ e[u] = f[u]
    BY <1>2
  <2>2. \A u \in DOMAIN e : e[u] > 0 => u \in DOMAIN f /\ f[u] = e[u]
    BY <1>2
  <2> QED BY <1>4, <2>1, <2>2, TotalSame
<1>6. DOMAIN g = DOMAIN e /\ x \in DOMAIN e /\ \A u \in DOMAIN e : g[u] = IF u = x THEN e[u] + g[x] ELSE e[u]
  BY <1>2
<1>7. PICK n \in Nat : n = g[x]
  OBVIOUS
<1>8. DOMAIN g = DOMAIN e /\ x \in DOMAIN e /\ \A u \in DOMAIN e : g[u] = IF u = x THEN e[u] + n ELSE e[u]
  BY <1>6, <1>7
<1>9. Addable(g) /\ Total(g) = Total(e) + n
  BY <1>4, <1>8, TotalBump
<1> QED BY <1>5, <1>7, <1>9

\* Counts on the keys of S.
CountsOn(S) == [S -> Nat]
LEMMA Countable ==
  ASSUME NEW S, IsFiniteSet(S), NEW f \in CountsOn(S)
  PROVE  DOMAIN f = S /\ Addable(f) /\ Total(f) \in Nat
<1>1. DOMAIN f = S /\ Addable(f)
  BY DEF CountsOn, Addable
<1> QED BY <1>1, TotalOf

\* Sums of sums, key by key.
LEMMA TotalPlus ==
  ASSUME NEW S, IsFiniteSet(S), NEW f \in CountsOn(S), NEW g \in CountsOn(S), NEW h \in CountsOn(S),
         \A u \in S : h[u] = f[u] + g[u]
  PROVE  Total(h) = Total(f) + Total(g)
<1> DEFINE on(e, T) == [u \in T |-> e[u]]
           G == {T \in SUBSET S : Total(on(h, T)) = Total(on(f, T)) + Total(on(g, T))}
<1>1. \A u \in S : f[u] \in Nat /\ g[u] \in Nat /\ h[u] \in Nat
  BY DEF CountsOn
<1>2. ASSUME NEW T \in SUBSET S
      PROVE  /\ on(f, T) \in CountsOn(T) /\ on(g, T) \in CountsOn(T) /\ on(h, T) \in CountsOn(T) /\ IsFiniteSet(T)
  BY <1>1, FS_Subset DEF CountsOn
<1>3. {} \in G
  <2>1. IsFiniteSet({})
    BY FS_EmptySet
  <2>2. Total(on(f, {})) = 0 /\ Total(on(g, {})) = 0 /\ Total(on(h, {})) = 0
    BY <2>1, TotalZero
  <2> HIDE DEF on
  <2> QED BY <2>2
<1>4. ASSUME NEW T \in SUBSET S, NEW x \in S \ T, T \in G PROVE T \cup {x} \in G
  <2> DEFINE U == T \cup {x}
  <2>1. U \in SUBSET S /\ x \notin T
    OBVIOUS
  <2>2. ASSUME NEW e \in CountsOn(S) PROVE Total(on(e, U)) = Total(on(e, T)) + e[x] /\ Total(on(e, T)) \in Nat
    <3>1. on(e, T) \in CountsOn(T) /\ IsFiniteSet(T)
      BY FS_Subset DEF CountsOn
    <3>2. PICK p, q : p = on(e, T) /\ q = on(e, U)
      OBVIOUS
    <3>3. DOMAIN p = T /\ Addable(p) /\ Total(p) \in Nat
      BY <3>1, <3>2, Countable
    <3>4. DOMAIN q = T \cup {x} /\ q[x] = e[x] /\ \A u \in T : q[u] = p[u]
      BY <3>2
    <3>5. e[x] \in Nat
      BY DEF CountsOn
    <3>6. Total(q) = Total(p) + q[x]
      <4>1. x \notin DOMAIN p /\ DOMAIN q = DOMAIN p \cup {x} /\ q[x] \in Nat /\ \A u \in DOMAIN p : q[u] = p[u]
        BY <2>1, <3>3, <3>4, <3>5
      <4>2. Addable(p)
        BY <3>3
      <4> HIDE DEF on, U, G
      <4> QED BY <4>1, <4>2, TotalWith, ZenonT(60)
    <3> QED BY <3>2, <3>3, <3>4, <3>6
  <2>3. Total(on(h, T)) = Total(on(f, T)) + Total(on(g, T))
    BY <1>4
  <2>4. h[x] = f[x] + g[x] /\ f[x] \in Nat /\ g[x] \in Nat
    BY <1>1
  <2> HIDE DEF on, U
  <2>5. Total(on(h, U)) = Total(on(f, U)) + Total(on(g, U))
    BY <2>2, <2>3, <2>4
  <2>6. U \in G
    BY <2>1, <2>5
  <2> QED BY <2>6 DEF U
<1>5. S \in G
  <2> HIDE DEF G
  <2> QED BY <1>3, <1>4, OneByOne
<1>6. on(f, S) = f /\ on(g, S) = g /\ on(h, S) = h
  BY DEF CountsOn
<1> HIDE DEF on
<1> QED BY <1>5, <1>6

LEMMA TotalLess ==
  ASSUME NEW S, IsFiniteSet(S), NEW f \in CountsOn(S), NEW h \in CountsOn(S), \A u \in S : f[u] <= h[u],
         NEW g, g = [u \in S |-> h[u] - f[u]]
  PROVE  g \in CountsOn(S) /\ Total(f) <= Total(h) /\ Total(g) = Total(h) - Total(f)
<1>1. \A u \in S : f[u] \in Nat /\ h[u] \in Nat
  BY DEF CountsOn
<1>2. \A u \in S : g[u] \in Nat /\ h[u] = f[u] + g[u]
  BY <1>1
<1>3. g \in CountsOn(S)
  BY <1>2 DEF CountsOn
<1>4. Total(h) = Total(f) + Total(g)
  BY <1>2, <1>3, TotalPlus
<1>5. Total(f) \in Nat /\ Total(g) \in Nat /\ Total(h) \in Nat
  BY <1>3, Countable
<1> QED BY <1>3, <1>4, <1>5

\* The sum over two disjoint sets of keys.
LEMMA TotalSplit ==
  ASSUME NEW S, IsFiniteSet(S), NEW f \in CountsOn(S), NEW A, NEW B, A \cup B = S, A \cap B = {}
  PROVE  /\ Total(f) = Total([u \in A |-> f[u]]) + Total([u \in B |-> f[u]])
         /\ Total([u \in A |-> f[u]]) \in Nat /\ Total([u \in B |-> f[u]]) \in Nat
<1>1. \A u \in S : f[u] \in Nat
  BY DEF CountsOn
<1>2. IsFiniteSet(A) /\ IsFiniteSet(B) /\ A \subseteq S /\ B \subseteq S
  <2>1. A \subseteq S /\ B \subseteq S
    OBVIOUS
  <2> QED BY <2>1, FS_Subset
<1>3. PICK a, b : a = [u \in A |-> f[u]] /\ b = [u \in B |-> f[u]]
  OBVIOUS
<1>4. PICK p, q : p = [u \in S |-> IF u \in A THEN f[u] ELSE 0] /\ q = [u \in S |-> IF u \in A THEN 0 ELSE f[u]]
  OBVIOUS
<1>5. a \in CountsOn(A) /\ b \in CountsOn(B)
  BY <1>1, <1>2, <1>3 DEF CountsOn
<1>6. p \in CountsOn(S) /\ q \in CountsOn(S) /\ \A u \in S : f[u] = p[u] + q[u]
  BY <1>1, <1>4 DEF CountsOn
<1>7. Total(f) = Total(p) + Total(q)
  BY <1>6, TotalPlus
<1>8. DOMAIN a = A /\ DOMAIN b = B /\ DOMAIN p = S /\ DOMAIN q = S
      /\ Addable(a) /\ Addable(b) /\ Addable(p) /\ Addable(q) /\ Total(a) \in Nat /\ Total(b) \in Nat
  BY <1>2, <1>5, <1>6, Countable
<1>9. Total(a) = Total(p)
  <2>1. \A u \in A : u \in S /\ p[u] = a[u]
    BY <1>2, <1>3, <1>4
  <2>2. \A u \in S : u \notin A => ~(p[u] > 0)
    BY <1>4
  <2> QED BY <1>8, <2>1, <2>2, TotalSame
<1>10. Total(b) = Total(q)
  <2>1. \A u \in B : u \in S /\ q[u] = b[u]
    BY <1>2, <1>3, <1>4
  <2>2. \A u \in S : u \notin B => ~(q[u] > 0)
    BY <1>4
  <2> QED BY <1>8, <2>1, <2>2, TotalSame
<1> QED BY <1>3, <1>7, <1>8, <1>9, <1>10

\* A table of counts adds up to the same by its rows and by its columns.
TablesOn(V, S) == [V -> CountsOn(S)]
ByRows(V, S, F) == Total([v \in V |-> Total([u \in S |-> F[v][u]])])
ByColumns(V, S, F) == Total([u \in S |-> Total([v \in V |-> F[v][u]])])
LEMMA RowsAndColumns ==
  ASSUME NEW V, IsFiniteSet(V), NEW S, IsFiniteSet(S), NEW F \in TablesOn(V, S)
  PROVE  ByRows(V, S, F) = ByColumns(V, S, F)
<1> DEFINE row(v) == Total([u \in S |-> F[v][u]])
           col(T, u) == Total([v \in T |-> F[v][u]])
           rows(T) == [v \in T |-> row(v)]
           cols(T) == [u \in S |-> col(T, u)]
           G == {T \in SUBSET V : Total(rows(T)) = Total(cols(T))}
<1>1. \A v \in V : F[v] \in CountsOn(S) /\ \A u \in S : F[v][u] \in Nat
  BY DEF TablesOn, CountsOn
<1>2. ASSUME NEW v \in V PROVE row(v) = Total(F[v]) /\ row(v) \in Nat
  <2>1. [u \in S |-> F[v][u]] = F[v]
    BY <1>1 DEF CountsOn
  <2>2. PICK f \in CountsOn(S) : f = F[v]
    BY <1>1
  <2>3. Total(f) \in Nat
    BY Countable
  <2> QED BY <2>1, <2>2, <2>3
<1>3. ASSUME NEW T \in SUBSET V, NEW u \in S PROVE [v \in T |-> F[v][u]] \in CountsOn(T) /\ col(T, u) \in Nat
  <2>1. [v \in T |-> F[v][u]] \in CountsOn(T)
    BY <1>1 DEF CountsOn
  <2>2. IsFiniteSet(T)
    BY FS_Subset
  <2> QED BY <2>1, <2>2, Countable
<1>4. ASSUME NEW T \in SUBSET V PROVE rows(T) \in CountsOn(T) /\ cols(T) \in CountsOn(S) /\ IsFiniteSet(T)
  <2> HIDE DEF row, col
  <2> QED BY <1>2, <1>3, FS_Subset DEF CountsOn
<1>5. {} \in G
  <2>1. IsFiniteSet({})
    BY FS_EmptySet
  <2>2. Total(rows({})) = 0
    BY <2>1, TotalZero
  <2>3. \A u \in S : col({}, u) = 0
    BY <2>1, TotalZero
  <2>4. Total(cols({})) = 0
    <3> HIDE DEF col
    <3> QED BY <2>3, TotalZero
  <2> QED BY <2>2, <2>4
<1>6. ASSUME NEW T \in SUBSET V, NEW x \in V \ T, T \in G PROVE T \cup {x} \in G
  <2> DEFINE U == T \cup {x}
  <2>1. U \in SUBSET V /\ x \notin T /\ x \in V
    OBVIOUS
  <2>2. Total(rows(U)) = Total(rows(T)) + row(x)
    <3> HIDE DEF row
    <3>1. PICK p, q : p = rows(T) /\ q = rows(U)
      OBVIOUS
    <3>2. DOMAIN p = T /\ Addable(p)
      BY <1>4, <3>1, Countable
    <3>3. x \notin DOMAIN p /\ DOMAIN q = DOMAIN p \cup {x} /\ q[x] = row(x) /\ \A u \in DOMAIN p : q[u] = p[u]
      BY <2>1, <3>1, <3>2
    <3>4. q[x] \in Nat
      BY <1>2, <2>1, <3>3
    <3>5. Total(q) = Total(p) + q[x]
      BY <3>2, <3>3, <3>4, TotalWith
    <3> QED BY <3>1, <3>3, <3>5
  <2>3. ASSUME NEW u \in S PROVE col(U, u) = col(T, u) + F[x][u]
    <3>1. PICK p, q : p = [v \in T |-> F[v][u]] /\ q = [v \in U |-> F[v][u]]
      OBVIOUS
    <3>2. DOMAIN p = T /\ Addable(p)
      <4>1. p \in CountsOn(T) /\ IsFiniteSet(T)
        BY <1>3, <1>4, <3>1
      <4> QED BY <4>1, Countable
    <3>3. x \notin DOMAIN p /\ DOMAIN q = DOMAIN p \cup {x} /\ q[x] = F[x][u] /\ \A v \in DOMAIN p : q[v] = p[v]
      BY <2>1, <3>1, <3>2
    <3>4. q[x] \in Nat
      BY <1>1, <2>1, <3>3
    <3>5. Total(q) = Total(p) + q[x]
      BY <3>2, <3>3, <3>4, TotalWith
    <3> QED BY <3>1, <3>3, <3>5
  <2>4. Total(cols(U)) = Total(cols(T)) + Total(F[x])
    <3>1. PICK p, q, f : p = cols(T) /\ q = cols(U) /\ f = F[x]
      OBVIOUS
    <3>2. p \in CountsOn(S) /\ q \in CountsOn(S) /\ f \in CountsOn(S)
      BY <1>1, <1>4, <2>1, <3>1
    <3>3. \A u \in S : q[u] = p[u] + f[u]
      <4> HIDE DEF col, U
      <4> QED BY <2>3, <3>1
    <3>4. Total(q) = Total(p) + Total(f)
      BY <3>2, <3>3, TotalPlus
    <3> QED BY <3>1, <3>4
  <2>5. Total(rows(T)) = Total(cols(T)) /\ row(x) = Total(F[x])
    BY <1>2, <1>6
  <2> HIDE DEF rows, cols, row, U
  <2>6. Total(rows(U)) = Total(cols(U))
    BY <2>2, <2>4, <2>5
  <2>7. U \in G
    BY <2>1, <2>6
  <2> QED BY <2>7 DEF U
<1>7. V \in G
  <2> HIDE DEF G
  <2> QED BY <1>5, <1>6, OneByOne
<1> QED BY <1>7 DEF ByRows, ByColumns

\* What is added up by label is what there is, if whatever counts has one of the labels.
LEMMA ByLabel ==
  ASSUME NEW S, IsFiniteSet(S), NEW f \in CountsOn(S), NEW lab, NEW W, IsFiniteSet(W),
         \A u \in S : f[u] > 0 => lab[u] \in W
  PROVE  /\ Total([w \in W |-> Total([u \in {x \in S : lab[x] = w} |-> f[u]])]) = Total(f)
         /\ \A w \in W : Total([u \in {x \in S : lab[x] = w} |-> f[u]]) \in Nat
<1> DEFINE F == [w \in W |-> [u \in S |-> IF lab[u] = w THEN f[u] ELSE 0]]
           of(w) == [u \in {x \in S : lab[x] = w} |-> f[u]]
<1>1. \A u \in S : f[u] \in Nat
  BY DEF CountsOn
<1>2. F \in TablesOn(W, S)
  BY <1>1 DEF TablesOn, CountsOn
<1>3. Total([w \in W |-> Total([u \in S |-> F[w][u]])]) = Total([u \in S |-> Total([w \in W |-> F[w][u]])])
  <2> HIDE DEF F
  <2>1. ByRows(W, S, F) = ByColumns(W, S, F)
    BY <1>2, RowsAndColumns
  <2> QED BY <2>1 DEF ByRows, ByColumns
<1>4. ASSUME NEW w \in W PROVE Total([u \in S |-> F[w][u]]) = Total(of(w)) /\ Total(of(w)) \in Nat
  <2>1. PICK T : T = {x \in S : lab[x] = w}
    OBVIOUS
  <2>2. T \subseteq S /\ IsFiniteSet(T)
    BY <2>1, FS_Subset
  <2>3. PICK p, q : p = [u \in S |-> F[w][u]] /\ q = of(w)
    OBVIOUS
  <2>4. q \in CountsOn(T) /\ p \in CountsOn(S)
    BY <1>1, <2>1, <2>3 DEF CountsOn
  <2>5. DOMAIN p = S /\ DOMAIN q = T /\ Addable(p) /\ Addable(q) /\ Total(q) \in Nat
    BY <2>2, <2>4, Countable
  <2>6. \A u \in T : u \in S /\ p[u] = q[u]
    BY <2>1, <2>3
  <2>7. \A u \in S : u \notin T => ~(p[u] > 0)
    BY <2>1, <2>3
  <2>8. Total(p) = Total(q)
    BY <2>5, <2>6, <2>7, TotalSame
  <2> QED BY <2>3, <2>5, <2>8
<1>5. ASSUME NEW u \in S PROVE Total([w \in W |-> F[w][u]]) = f[u]
  <2>1. PICK p : p = [w \in W |-> F[w][u]]
    OBVIOUS
  <2>2. DOMAIN p = W /\ \A w \in W : p[w] = IF lab[u] = w THEN f[u] ELSE 0
    BY <2>1
  <2>3. CASE lab[u] \in W
    <3>0. PICK t \in W, n \in Nat : t = lab[u] /\ n = f[u]
      BY <1>1, <2>3
    <3>1. PICK z : z = [w \in W |-> 0]
      OBVIOUS
    <3>2. Addable(z) /\ DOMAIN z = W
      BY <3>1 DEF Addable
    <3>3. Total(z) = 0
      BY <3>1, TotalZero
    <3>4. \A w \in W : p[w] = IF w = t THEN z[w] + n ELSE z[w]
      BY <2>2, <3>0, <3>1
    <3>5. Total(p) = Total(z) + n
      BY <2>2, <3>2, <3>4, TotalBump
    <3> QED BY <2>1, <3>0, <3>3, <3>5
  <2>4. CASE lab[u] \notin W
    <3>1. f[u] = 0
      BY <1>1, <2>4
    <3>2. \A w \in W : p[w] = 0
      BY <2>2, <3>1
    <3>3. Total(p) = 0
      BY <2>2, <3>2, TotalZero
    <3> QED BY <2>1, <3>1, <3>3
  <2> QED BY <2>3, <2>4
<1>6. [u \in S |-> Total([w \in W |-> F[w][u]])] = f
  <2> DEFINE c(u) == Total([w \in W |-> F[w][u]])
  <2>1. \A u \in S : c(u) = f[u]
    BY <1>5
  <2> HIDE DEF c
  <2>2. [u \in S |-> c(u)] = f
    BY <2>1 DEF CountsOn
  <2> QED BY <2>2 DEF c
<1>7. [w \in W |-> Total([u \in S |-> F[w][u]])] = [w \in W |-> Total(of(w))]
  BY <1>4
<1> QED BY <1>3, <1>4, <1>6, <1>7

LEMMA TotalOne ==
  ASSUME NEW x, NEW f, DOMAIN f = {x}, f[x] \in Nat
  PROVE  Total(f) = f[x]
<1>1. PICK e : e = [u \in {} |-> 0]
  OBVIOUS
<1>2. DOMAIN e = {} /\ IsFiniteSet({})
  BY <1>1, FS_EmptySet
<1>3. Addable(e) /\ Total(e) = 0
  BY <1>2, TotalZero DEF Addable
<1>4. x \notin DOMAIN e /\ DOMAIN f = DOMAIN e \cup {x} /\ \A u \in DOMAIN e : f[u] = e[u]
  BY <1>2
<1>5. Total(f) = Total(e) + f[x]
  BY <1>3, <1>4, TotalWith
<1> QED BY <1>3, <1>5

-----------------------------------------------------------------------------
(* A histogram tells, of each bucket, how many occurred in it and below.   *)

Rows == [Latencies -> Nat]
Below(b) == {x \in Latencies : Bucket(x) <= b}
Tells(counts, row) ==
  /\ \A x, y \in Latencies : x <= y => row[x] <= row[y]
  /\ \A b \in Buckets : Below(b) = {} => Cum(counts)[b] = 0
  /\ \A b \in Buckets : \A x \in Below(b) : (\A y \in Below(b) : y <= x) => Cum(counts)[b] = row[x]

LEMMA TellsMore ==
  ASSUME NEW c \in Histograms, NEW row \in Rows, Tells(c, row), NEW x \in Latencies, NEW n \in Nat, NEW d, NEW more,
         Bumped(c, Bucket(x), n, d),
         more = [y \in Latencies |-> IF x <= y THEN row[y] + n ELSE row[y]]
  PROVE  d \in Histograms /\ more \in Rows /\ Tells(d, more)
<1>1. PICK k \in Buckets : k = Bucket(x)
  BY BucketIs
<1>2. d \in Histograms /\ \A b \in Buckets : Cum(d)[b] = Cum(c)[b] + (IF k <= b THEN n ELSE 0)
  <2>1. Bumped(c, k, n, d)
    BY <1>1
  <2> QED BY <2>1, CumBump
<1>3. \A y \in Latencies : row[y] \in Nat /\ y \in Nat
  BY VerdictsAssumption DEF Rows
<1>4. more \in Rows
  BY <1>3 DEF Rows
<1>5. \A y, z \in Latencies : y <= z => more[y] <= more[z]
  <2> SUFFICES ASSUME NEW y \in Latencies, NEW z \in Latencies, y <= z PROVE more[y] <= more[z]
    OBVIOUS
  <2>1. row[y] <= row[z]
    BY DEF Tells
  <2> QED BY <1>3, <2>1
<1>6. \A b \in Buckets : Cum(c)[b] \in Nat
  BY CumType
<1>7. ASSUME NEW b \in Buckets, Below(b) = {} PROVE Cum(d)[b] = 0
  <2>1. ~(k <= b) /\ Cum(c)[b] = 0
    BY <1>1, <1>7 DEF Below, Tells
  <2>2. Cum(d)[b] = Cum(c)[b] + (IF k <= b THEN n ELSE 0)
    BY <1>2
  <2> QED BY <2>1, <2>2
<1>8. ASSUME NEW b \in Buckets, NEW z \in Below(b), \A y \in Below(b) : y <= z PROVE Cum(d)[b] = more[z]
  <2>1. z \in Latencies /\ Bucket(z) <= b
    BY DEF Below
  <2>2. Cum(c)[b] = row[z]
    BY <1>8 DEF Tells
  <2>3. x <= z <=> Bucket(x) <= b
    <3>1. CASE Bucket(x) <= b
      BY <1>8, <3>1 DEF Below
    <3>2. CASE x <= z
      <4>1. Bucket(x) <= Bucket(z)
        BY <2>1, <3>2, BucketsInOrder
      <4>2. Bucket(z) \in Buckets
        BY <2>1, BucketIs
      <4> QED BY <1>1, <2>1, <3>2, <4>1, <4>2 DEF Buckets
    <3> QED BY <3>1, <3>2
  <2>4. row[z] \in Nat /\ more[z] = IF x <= z THEN row[z] + n ELSE row[z]
    BY <1>3, <2>1
  <2>5. Cum(d)[b] = Cum(c)[b] + (IF k <= b THEN n ELSE 0)
    BY <1>2
  <2> QED BY <1>1, <2>2, <2>3, <2>4, <2>5
<1>9. Tells(d, more)
  BY <1>5, <1>7, <1>8 DEF Tells
<1> QED BY <1>2, <1>4, <1>9

LEMMA TellsNothing ==
  ASSUME NEW c, c = [b \in Buckets |-> 0], NEW row, row = [x \in Latencies |-> 0]
  PROVE  c \in Histograms /\ row \in Rows /\ Tells(c, row)
<1>1. c \in Histograms /\ row \in Rows
  BY DEF Histograms, Rows
<1> DEFINE bad == {b \in Buckets : Cum(c)[b] # 0}
<1>2. bad = {}
  <2> SUFFICES ASSUME bad # {} PROVE FALSE
    OBVIOUS
  <2>1. PICK m : m = Min(bad)
    OBVIOUS
  <2>2. m \in bad /\ \A j \in bad : m <= j
    <3>1. bad \in SUBSET Nat
      BY DEF Buckets
    <3> HIDE DEF bad
    <3> QED BY <2>1, <3>1, Smallest
  <2>3. m \in 0..8 /\ Cum(c)[m] = 0 + (IF m = 0 THEN 0 ELSE Cum(c)[m - 1]) /\ Cum(c)[m] # 0
    BY <1>1, <2>2, CumIs DEF Buckets
  <2>4. m # 0 /\ m - 1 \in Buckets /\ ~(m <= m - 1)
    BY <2>3 DEF Buckets
  <2>5. Cum(c)[m - 1] = 0
    BY <2>2, <2>4
  <2> QED BY <2>3, <2>4, <2>5
<1>3. \A b \in Buckets : Cum(c)[b] = 0
  BY <1>2
<1>4. \A x \in Latencies : row[x] = 0
  OBVIOUS
<1>5. Tells(c, row)
  BY <1>3, <1>4 DEF Tells, Below
<1> QED BY <1>1, <1>5

LEMMA TopIs ==
  /\ Max(Latencies) \in Latencies /\ \A x \in Latencies : x <= Max(Latencies)
  /\ Max(Buckets) = 8 /\ Below(8) = Latencies
<1>1. Max(Latencies) \in Latencies /\ \A x \in Latencies : x <= Max(Latencies)
  <2>1. PICK n \in Nat : n = 511
    OBVIOUS
  <2>2. Latencies \in SUBSET (0..n) /\ Latencies # {}
    BY <2>1, VerdictsAssumption
  <2> QED BY <2>2, Largest
<1>2. Max(0..8) \in 0..8 /\ \A x \in 0..8 : x <= Max(0..8)
  BY Largest
<1>3. Max(0..8) = 8
  BY <1>2
<1>4. \A x \in Latencies : Bucket(x) <= 8
  BY BucketIs DEF Buckets
<1> QED BY <1>1, <1>3, <1>4 DEF Buckets, Below

\* The percentile that the buckets give is the upper edge of the bucket of the exact one.
LEMMA PercentileIs ==
  ASSUME NEW c \in Histograms, NEW row \in Rows, Tells(c, row), NEW top, top = row[Max(Latencies)]
  PROVE  /\ top \in Nat
         /\ top = 0 => Percentile(c, 99) = 0
         /\ top # 0 => LET xm == Min({x \in Latencies : 100 * (top - row[x]) <= top})
                       IN  xm \in Latencies /\ Percentile(c, 99) = edge(Bucket(xm))
<1>1. top \in Nat /\ \A x \in Latencies : x \in Nat /\ row[x] \in Nat /\ row[x] <= top
  <2>1. PICK m \in Latencies : m = Max(Latencies) /\ \A x \in Latencies : x <= m
    BY TopIs
  <2>2. \A x \in Latencies : x \in Nat /\ row[x] \in Nat
    BY VerdictsAssumption DEF Rows
  <2>3. \A x \in Latencies : row[x] <= row[m]
    BY <2>1 DEF Tells
  <2> QED BY <2>1, <2>2, <2>3
<1>2. Cum(c)[8] = top
  <2>1. 8 \in Buckets
    BY DEF Buckets
  <2> QED BY <2>1, TopIs DEF Tells
<1>3. \A b \in Buckets : Cum(c)[b] \in Nat
  BY CumType
<1>4. PICK target : target = (top * 99 + 100 - 1) \div 100
  OBVIOUS
<1> DEFINE S == {b \in Buckets : Cum(c)[b] >= target}
           X == {x \in Latencies : 100 * (top - row[x]) <= top}
<1>5. Percentile(c, 99) = IF top = 0 THEN 0 ELSE edge(Min(S))
  <2>1. Max(Buckets) = 8
    BY TopIs
  <2>2. PICK cum : cum = Cum(c)
    OBVIOUS
  <2>3. Percentile(c, 99) = IF cum[8] = 0 THEN 0 ELSE edge(Min({b \in Buckets : cum[b] >= CeilDiv(cum[8] * 99, 100)}))
    BY <2>1, <2>2 DEF Percentile
  <2>4. CeilDiv(top * 99, 100) = target
    BY <1>4 DEF CeilDiv
  <2> QED BY <1>2, <2>2, <2>3, <2>4
<1>6. CASE top = 0
  BY <1>1, <1>5, <1>6
<1>7. CASE top # 0
  <2>1. target \in Nat /\ target >= 1 /\ \A k \in Nat : k >= target <=> 100 * k >= 99 * top
    BY <1>1, <1>4, <1>7
  <2>2. \A b \in Buckets : b \in S <=> 100 * Cum(c)[b] >= 99 * top
    BY <1>3, <2>1
  <2>3. \A x \in Latencies : x \in X <=> 100 * row[x] >= 99 * top
    BY <1>1
  <2>4. 8 \in S /\ Max(Latencies) \in X
    <3>1. 8 \in Buckets
      BY DEF Buckets
    <3> QED BY <1>1, <1>2, <2>2, <2>3, <3>1, TopIs
  <2>5. S \in SUBSET Nat /\ X \in SUBSET Nat
    BY <1>1 DEF Buckets
  <2>6. S \subseteq Buckets /\ X \subseteq Latencies
    OBVIOUS
  <2> HIDE DEF S, X
  <2>7. PICK bm, xm : bm = Min(S) /\ xm = Min(X)
    OBVIOUS
  <2>8. bm \in S /\ xm \in X /\ (\A b \in S : bm <= b) /\ (\A x \in X : xm <= x)
    BY <2>4, <2>5, <2>7, Smallest
  <2>9. bm \in Buckets /\ xm \in Latencies /\ Bucket(xm) \in Buckets
    BY <2>6, <2>8, BucketIs
  <2>10. \A b \in Buckets : Below(b) # {} => \E z \in Below(b) : (\A y \in Below(b) : y <= z) /\ Cum(c)[b] = row[z]
    <3> SUFFICES ASSUME NEW b \in Buckets, Below(b) # {}
                 PROVE  \E z \in Below(b) : (\A y \in Below(b) : y <= z) /\ Cum(c)[b] = row[z]
      OBVIOUS
    <3>1. PICK n \in Nat : n = 511
      OBVIOUS
    <3>2. Below(b) \in SUBSET (0..n)
      <4>1. Latencies \subseteq 0..n
        BY <3>1, VerdictsAssumption
      <4>2. Below(b) \subseteq Latencies
        BY DEF Below
      <4> QED BY <4>1, <4>2
    <3>3. PICK z \in Below(b) : \A y \in Below(b) : y <= z
      BY <3>2, Greatest
    <3> QED BY <3>3 DEF Tells
  <2>11. bm <= Bucket(xm)
    <3>1. xm \in Below(Bucket(xm))
      BY <2>9 DEF Below, Buckets
    <3>2. PICK z \in Below(Bucket(xm)) : (\A y \in Below(Bucket(xm)) : y <= z) /\ Cum(c)[Bucket(xm)] = row[z]
      BY <2>9, <2>10, <3>1
    <3>3. z \in Latencies /\ xm <= z
      BY <3>1, <3>2 DEF Below
    <3>4. row[xm] <= row[z]
      BY <2>9, <3>3 DEF Tells
    <3>5. 100 * row[xm] >= 99 * top
      BY <2>3, <2>8, <2>9
    <3>6. 100 * row[z] >= 99 * top
      BY <1>1, <2>9, <3>3, <3>4, <3>5
    <3> QED BY <2>2, <2>8, <2>9, <3>2, <3>6
  <2>12. Bucket(xm) <= bm
    <3>1. Cum(c)[bm] # 0
      BY <1>1, <1>3, <1>7, <2>2, <2>8, <2>9
    <3>2. Below(bm) # {}
      BY <2>9, <3>1 DEF Tells
    <3>3. PICK z \in Below(bm) : (\A y \in Below(bm) : y <= z) /\ Cum(c)[bm] = row[z]
      BY <2>9, <2>10, <3>2
    <3>4. z \in Latencies /\ Bucket(z) <= bm /\ Bucket(z) \in Buckets
      BY BucketIs DEF Below
    <3>5. z \in X
      BY <2>2, <2>3, <2>8, <2>9, <3>3, <3>4
    <3>6. Bucket(xm) <= Bucket(z)
      BY <2>8, <2>9, <3>4, <3>5, BucketsInOrder
    <3> QED BY <2>9, <3>4, <3>6 DEF Buckets
  <2>13. bm = Bucket(xm)
    BY <2>9, <2>11, <2>12 DEF Buckets
  <2> QED BY <1>1, <1>5, <1>7, <2>7, <2>9, <2>13 DEF X
<1> QED BY <1>6, <1>7

-----------------------------------------------------------------------------
(* What happens to the VM, and what is kept of it.                         *)

OfAll(h) == [b \in Buckets |-> Total([t \in VMTids |-> h[t][b]])]
Kept(h, o) == IF o = "vm" THEN OfAll(h) ELSE h[o]
Kepts == [Sources -> Histograms]

VMTypes ==
  /\ subject \in Subjects /\ batches \in 0..MaxBatches[subject] /\ seen \subseteq {"sched", "kvm", "block"}
  /\ count \in [Counts -> Nat] /\ size \in [vcpus : Sizes, named : BOOLEAN]
  /\ span \in 0..MaxSpan /\ use \in [on : Nat, byVM : Nat, byHost : Nat, halt : Nat] /\ asleep \in Nat
Told == \A o \in Observed : Tells(Kept(hist, o), lat[o])
Measuring == \A o \in Observed : Often(o) > 0 => ProgramOf(o) \in seen

\* The inductive invariant.
VerdInv == VMTypes /\ hist \in Kepts /\ lat \in [Observed -> Rows] /\ Told /\ Measuring

LEMMA TidsAre ==
  /\ IsFiniteSet(VMTids) /\ VMTids \subseteq Sources /\ Sources \subseteq Observed
  /\ "vm" \notin Sources /\ "vm" \in Observed /\ Observed = Sources \cup {"vm"}
<1>1. IsFiniteSet(VThreads \cup {"io"})
  BY VerdictsAssumption, FS_AddElement
<1> QED BY <1>1, VerdictsAssumption DEF VMTids, Sources, Observed

LEMMA InAllAddable ==
  ASSUME NEW h \in Kepts, NEW b \in Buckets
  PROVE  Addable([t \in VMTids |-> h[t][b]])
<1>1. \A t \in VMTids : h[t][b] \in Nat
  BY TidsAre DEF Kepts, Histograms
<1> QED BY <1>1, TidsAre DEF Addable

LEMMA OfAllType ==
  ASSUME NEW h \in Kepts
  PROVE  OfAll(h) \in Histograms /\ \A b \in Buckets : OfAll(h)[b] = Total([t \in VMTids |-> h[t][b]])
<1>1. \A b \in Buckets : Total([t \in VMTids |-> h[t][b]]) \in Nat
  BY InAllAddable, TotalOf
<1> QED BY <1>1 DEF OfAll, Histograms

LEMMA KeptType ==
  ASSUME NEW h \in Kepts, NEW o \in Observed
  PROVE  Kept(h, o) \in Histograms
BY OfAllType, TidsAre DEF Kept, Kepts

\* One more of a thread is one more of the VM's threads together.
LEMMA OfAllMore ==
  ASSUME NEW h \in Kepts, NEW s \in VMTids, NEW k \in Buckets, NEW n \in Nat, NEW g \in Kepts,
         Bumped(h[s], k, n, g[s]), \A t \in VMTids : t # s => g[t] = h[t]
  PROVE  Bumped(OfAll(h), k, n, OfAll(g))
<1>1. \A t \in VMTids : h[t] \in Histograms /\ g[t] \in Histograms
  BY TidsAre DEF Kepts
<1>2. ASSUME NEW b \in Buckets PROVE OfAll(g)[b] = IF b = k THEN OfAll(h)[b] + n ELSE OfAll(h)[b]
  <2>1. PICK f : f = [t \in VMTids |-> h[t][b]]
    OBVIOUS
  <2>2. PICK e : e = [t \in VMTids |-> g[t][b]]
    OBVIOUS
  <2>3. OfAll(h)[b] = Total(f) /\ OfAll(g)[b] = Total(e)
    BY <2>1, <2>2, OfAllType
  <2>4. CASE b = k
    <3>1. \A u \in VMTids : e[u] = IF u = s THEN f[u] + n ELSE f[u]
      BY <1>1, <2>1, <2>2, <2>4 DEF Bumped, Histograms
    <3>2. Addable(f) /\ DOMAIN f = VMTids /\ DOMAIN e = VMTids
      BY <2>1, <2>2, InAllAddable
    <3>3. Total(e) = Total(f) + n
      BY <3>1, <3>2, TotalBump
    <3> QED BY <2>3, <2>4, <3>3
  <2>5. CASE b # k
    <3>1. \A u \in VMTids : g[u][b] = h[u][b]
      BY <1>1, <2>5 DEF Bumped, Histograms
    <3>2. e = f
      BY <2>1, <2>2, <3>1
    <3> QED BY <2>3, <2>5, <3>2
  <2> QED BY <2>4, <2>5
<1>3. OfAll(h) \in Histograms /\ OfAll(g) \in Histograms
  BY OfAllType
<1> QED BY <1>2, <1>3 DEF Bumped, Histograms

LEMMA OccursStep ==
  ASSUME VerdInv, NEW s \in Sources, NEW x \in Latencies, NEW n \in Batch, Occurs(s, x, n)
  PROVE  VerdInv'
<1>1. /\ Batches /\ seen' = seen \cup {ProgramOf(s)} /\ UNCHANGED <<subject, count, size, span, use, asleep>>
      /\ hist' = [hist EXCEPT ![s][Bucket(x)] = @ + n]
      /\ lat' = [o \in Observed |-> IF o = s \/ (o = "vm" /\ s \in VMTids)
                                    THEN [y \in Latencies |-> IF x <= y THEN lat[o][y] + n ELSE lat[o][y]]
                                    ELSE lat[o]]
  BY DEF Occurs
<1>2. n \in Nat
  BY VerdictsAssumption
<1>3. PICK k \in Buckets : k = Bucket(x)
  BY BucketIs
<1>4. /\ Bumped(hist[s], k, n, hist'[s])
      /\ \A t \in Sources : t # s => hist'[t] = hist[t]
  <2>1. hist \in Kepts /\ hist[s] \in Histograms
    BY DEF VerdInv, Kepts
  <2>2. hist' = [hist EXCEPT ![s] = [hist[s] EXCEPT ![k] = hist[s][k] + n]]
    BY <1>1, <1>3
  <2>3. hist'[s] = [hist[s] EXCEPT ![k] = hist[s][k] + n] /\ \A t \in Sources : t # s => hist'[t] = hist[t]
    BY <2>1, <2>2 DEF Kepts
  <2> QED BY <2>3 DEF Bumped
<1>5. hist[s] \in Histograms /\ hist'[s] \in Histograms
  BY <1>2, <1>4, CumBump DEF VerdInv, Kepts
<1>6. hist' \in Kepts
  BY <1>1, <1>4, <1>5 DEF VerdInv, Kepts
<1>7. \A o \in Observed : lat[o] \in Rows
  BY DEF VerdInv
<1>8. ASSUME NEW o \in Observed PROVE lat'[o] \in Rows /\ Tells(Kept(hist', o), lat'[o])
  <2>1. Tells(Kept(hist, o), lat[o]) /\ Kept(hist, o) \in Histograms /\ lat[o] \in Rows
    BY <1>7, KeptType DEF VerdInv, Told
  <2>2. CASE o = s \/ (o = "vm" /\ s \in VMTids)
    <3>1. lat'[o] = [y \in Latencies |-> IF x <= y THEN lat[o][y] + n ELSE lat[o][y]]
      BY <1>1, <2>2
    <3>2. Bumped(Kept(hist, o), k, n, Kept(hist', o))
      <4>1. CASE o = s
        BY <1>4, <4>1, TidsAre DEF Kept
      <4>2. CASE o = "vm" /\ s \in VMTids
        <5>1. \A t \in VMTids : t # s => hist'[t] = hist[t]
          BY <1>4, TidsAre
        <5>2. hist \in Kepts
          BY DEF VerdInv
        <5>3. Bumped(OfAll(hist), k, n, OfAll(hist'))
          BY <1>2, <1>4, <1>6, <4>2, <5>1, <5>2, OfAllMore
        <5> QED BY <4>2, <5>3 DEF Kept
      <4> QED BY <2>2, <4>1, <4>2
    <3> QED BY <1>2, <1>3, <2>1, <3>1, <3>2, TellsMore
  <2>3. CASE ~(o = s \/ (o = "vm" /\ s \in VMTids))
    <3>1. lat'[o] = lat[o]
      BY <1>1, <2>3
    <3>2. Kept(hist', o) = Kept(hist, o)
      <4>1. CASE o # "vm"
        BY <1>4, <2>3, <4>1, TidsAre DEF Kept
      <4>2. CASE o = "vm"
        <5>1. \A t \in VMTids : hist'[t] = hist[t]
          BY <1>4, <2>3, <4>2, TidsAre
        <5>2. OfAll(hist') = OfAll(hist)
          BY <5>1 DEF OfAll
        <5> QED BY <4>2, <5>2 DEF Kept
      <4> QED BY <4>1, <4>2
    <3> QED BY <2>1, <3>1, <3>2
  <2> QED BY <2>2, <2>3
<1>9. Told' /\ lat' \in [Observed -> Rows]
  <2>1. lat' = [o \in Observed |-> lat'[o]]
    BY <1>1
  <2> QED BY <1>8, <2>1 DEF Told
<1>10. Measuring'
  <2> SUFFICES ASSUME NEW o \in Observed, Often(o)' > 0 PROVE ProgramOf(o) \in seen'
    BY DEF Measuring
  <2>1. CASE o = s \/ (o = "vm" /\ s \in VMTids)
    BY <1>1, <2>1, VerdictsAssumption DEF ProgramOf, VMTids
  <2>2. CASE ~(o = s \/ (o = "vm" /\ s \in VMTids))
    BY <1>1, <2>2 DEF Often, VerdInv, Measuring
  <2> QED BY <2>1, <2>2
<1>11. VMTypes'
  <2>1. batches' \in 0..MaxBatches[subject]
    BY <1>1, VerdictsAssumption DEF Batches, VerdInv, VMTypes
  <2>2. ProgramOf(s) \in {"sched", "kvm", "block"}
    BY DEF ProgramOf
  <2> QED BY <1>1, <2>1, <2>2 DEF VerdInv, VMTypes
<1> QED BY <1>6, <1>9, <1>10, <1>11 DEF VerdInv

\* A window in which nothing was measured yet.
LEMMA NothingTold ==
  /\ NoneKept \in Kepts /\ NoneYet \in [Observed -> Rows]
  /\ \A o \in Observed : Tells(Kept(NoneKept, o), NoneYet[o]) /\ NoneYet[o][Max(Latencies)] = 0
<1>1. PICK z : z = [b \in Buckets |-> 0]
  OBVIOUS
<1>2. PICK row : row = [x \in Latencies |-> 0]
  OBVIOUS
<1>3. z \in Histograms /\ row \in Rows /\ Tells(z, row)
  BY <1>1, <1>2, TellsNothing
<1>4. NoneKept = [s \in Sources |-> z] /\ NoneYet = [o \in Observed |-> row]
  BY <1>1, <1>2 DEF NoneKept, NoneYet
<1>5. NoneKept \in Kepts /\ NoneYet \in [Observed -> Rows]
  BY <1>3, <1>4 DEF Kepts
<1>6. OfAll(NoneKept) = z
  <2>1. ASSUME NEW b \in Buckets PROVE Total([t \in VMTids |-> NoneKept[t][b]]) = 0
    <3>1. PICK f : f = [t \in VMTids |-> NoneKept[t][b]]
      OBVIOUS
    <3>2. IsFiniteSet(DOMAIN f) /\ \A t \in DOMAIN f : f[t] = 0
      BY <1>1, <1>4, <3>1, TidsAre
    <3> QED BY <3>1, <3>2, TotalZero
  <2> QED BY <1>1, <2>1 DEF OfAll
<1>7. \A o \in Observed : Kept(NoneKept, o) = z
  BY <1>4, <1>6, TidsAre DEF Kept
<1>8. row[Max(Latencies)] = 0
  BY <1>2, TopIs
<1> QED BY <1>3, <1>4, <1>5, <1>7, <1>8

LEMMA VerdInitInv == VerdInit => VerdInv
<1> SUFFICES ASSUME VerdInit PROVE VerdInv
  OBVIOUS
<1>1. VMTypes
  <2>1. count \in [Counts -> Nat]
    BY DEF VerdInit
  <2>2. use \in [on : Nat, byVM : Nat, byHost : Nat, halt : Nat]
    BY DEF VerdInit, None3
  <2>3. batches \in 0..MaxBatches[subject] /\ span \in 0..MaxSpan /\ asleep \in Nat /\ subject \in Subjects
    BY VerdictsAssumption DEF VerdInit
  <2>4. seen \subseteq {"sched", "kvm", "block"} /\ size \in [vcpus : Sizes, named : BOOLEAN]
    BY DEF VerdInit
  <2> QED BY <2>1, <2>2, <2>3, <2>4 DEF VMTypes
<1>2. hist = NoneKept /\ lat = NoneYet
  BY DEF VerdInit
<1>3. Told /\ Measuring
  BY <1>2, NothingTold DEF Told, Measuring, Often
<1> QED BY <1>1, <1>2, <1>3, NothingTold DEF VerdInv

LEMMA WindowStep ==
  ASSUME VerdInv, WindowMoves
  PROVE  VerdInv'
<1>1. /\ Batches /\ lat' = NoneYet /\ hist' = NoneKept /\ count' = [c \in Counts |-> 0] /\ span' = 0 /\ use' = None3
      /\ UNCHANGED <<subject, seen, size, asleep>>
  BY DEF WindowMoves
<1>2. VMTypes'
  <2>1. count' \in [Counts -> Nat]
    BY <1>1
  <2>2. use' \in [on : Nat, byVM : Nat, byHost : Nat, halt : Nat]
    BY <1>1 DEF None3
  <2>3. batches' \in 0..MaxBatches[subject] /\ span' \in 0..MaxSpan
    BY <1>1, VerdictsAssumption DEF Batches, VerdInv, VMTypes
  <2> QED BY <1>1, <2>1, <2>2, <2>3 DEF VerdInv, VMTypes
<1>3. Told' /\ Measuring'
  BY <1>1, NothingTold DEF Told, Measuring, Often
<1> QED BY <1>1, <1>2, <1>3, NothingTold DEF VerdInv

\* Counts, ticks and halts leave the histograms alone.
LEMMA OtherStep ==
  ASSUME VerdInv, UNCHANGED <<lat, hist>>, seen \subseteq seen', VMTypes'
  PROVE  VerdInv'
BY DEF VerdInv, Told, Measuring, Often

LEMMA VerdNextInv == VerdInv /\ [VerdNext]_verdVars => VerdInv'
<1> SUFFICES ASSUME VerdInv, [VerdNext]_verdVars PROVE VerdInv'
  OBVIOUS
<1>1. CASE UNCHANGED verdVars
  <2>1. VMTypes' /\ UNCHANGED <<lat, hist>> /\ seen \subseteq seen'
    BY <1>1 DEF verdVars, VerdInv, VMTypes
  <2> QED BY <2>1, OtherStep
<1>2. ASSUME NEW c \in Counts, Happened(c, 5) PROVE VerdInv'
  <2>1. count' \in [Counts -> Nat] /\ Batches /\ UNCHANGED <<subject, seen, lat, hist, size, span, use, asleep>>
    BY <1>2 DEF Happened, VerdInv, VMTypes
  <2>2. batches' \in 0..MaxBatches[subject]
    BY <2>1, VerdictsAssumption DEF Batches, VerdInv, VMTypes
  <2>3. VMTypes'
    BY <2>1, <2>2 DEF VerdInv, VMTypes
  <2> QED BY <2>1, <2>3, OtherStep
<1>3. ASSUME NEW t \in Ticks, VTick(t) PROVE VerdInv'
  <2>1. /\ span < MaxSpan /\ span' = span + 1 /\ asleep' = asleep + t.halt /\ seen' = seen \cup {"sched", "kvm"}
        /\ use' = [use EXCEPT !.on = @ + t.on, !.byVM = @ + t.byVM, !.byHost = @ + t.byHost]
        /\ UNCHANGED <<subject, batches, lat, hist, count, size>>
    BY <1>3 DEF VTick
  <2>2. t \in [on : Nat, byVM : Nat, byHost : Nat, halt : Nat] /\ MaxSpan \in Nat
    BY VerdictsAssumption
  <2>3. use' \in [on : Nat, byVM : Nat, byHost : Nat, halt : Nat]
    <3>1. t.on \in Nat /\ t.byVM \in Nat /\ t.byHost \in Nat
      BY <2>2
    <3>2. PICK a, b, c \in Nat : a = t.on /\ b = t.byVM /\ c = t.byHost
      BY <3>1
    <3>3. PICK u \in [on : Nat, byVM : Nat, byHost : Nat, halt : Nat] : u = use
      BY DEF VerdInv, VMTypes
    <3>4. PICK d, e, f \in Nat : d = u.on + a /\ e = u.byVM + b /\ f = u.byHost + c
      OBVIOUS
    <3>5. use' = [[[u EXCEPT !.on = d] EXCEPT !.byVM = e] EXCEPT !.byHost = f]
      BY <2>1, <3>2, <3>3, <3>4
    <3>6. \A r \in [on : Nat, byVM : Nat, byHost : Nat, halt : Nat], j \in Nat :
            /\ [r EXCEPT !.on = j] \in [on : Nat, byVM : Nat, byHost : Nat, halt : Nat]
            /\ [r EXCEPT !.byVM = j] \in [on : Nat, byVM : Nat, byHost : Nat, halt : Nat]
            /\ [r EXCEPT !.byHost = j] \in [on : Nat, byVM : Nat, byHost : Nat, halt : Nat]
      OBVIOUS
    <3> QED BY <3>5, <3>6
  <2>4. span' \in 0..MaxSpan /\ asleep' \in Nat
    BY <2>1, <2>2 DEF VerdInv, VMTypes
  <2>5. VMTypes'
    BY <2>1, <2>3, <2>4 DEF VerdInv, VMTypes
  <2> QED BY <2>1, <2>5, OtherStep
<1>4. CASE HaltsEnd
  <2>1. /\ use' = [use EXCEPT !.halt = @ + asleep] /\ asleep' = 0
        /\ UNCHANGED <<subject, batches, seen, lat, hist, count, size, span>>
    BY <1>4 DEF HaltsEnd
  <2>2. use' \in [on : Nat, byVM : Nat, byHost : Nat, halt : Nat]
    BY <2>1 DEF VerdInv, VMTypes
  <2>3. VMTypes'
    BY <2>1, <2>2 DEF VerdInv, VMTypes
  <2> QED BY <2>1, <2>3, OtherStep
<1> QED BY <1>1, <1>2, <1>3, <1>4, OccursStep, WindowStep DEF VerdNext

LEMMA VerdInvariant == VerdSpec => []VerdInv
BY VerdInitInv, VerdNextInv, PTL DEF VerdSpec

-----------------------------------------------------------------------------
(* Lists of findings.                                                      *)

Confs == {"low", "medium", "high"}
Causes == {"not_measured", "no_host_cause", "host_cpu_contention", "cpu_preempted", "noisy_neighbour", "storage_latency",
           "kvm_exit_handling", "tcp_retransmits", "guest_traffic_dropped", "guest_not_reading_nic",
           "guest_connects_failing"}
Findings == [cause : Causes, conf : Confs]
ListOf(list) == {list[i] : i \in DOMAIN list}
EachOnce(list) == \A i, j \in DOMAIN list : list[i].cause = list[j].cause => i = j
\* The neighbour is named right after the preemption it explains, and as surely.
Explained(list) ==
  \A i \in DOMAIN list : list[i].cause = "noisy_neighbour" =>
    i > 1 /\ list[i - 1].cause = "cpu_preempted" /\ list[i - 1].conf = list[i].conf
WellMade(list) == list \in Seq(Findings) /\ EachOnce(list) /\ Explained(list)

LEMMA RankIs ==
  /\ \A c \in Confs : Rank[c] \in 1..3
  /\ \A c, d \in Confs : Rank[c] = Rank[d] => c = d
  /\ Rank["none"] = 0 /\ Rank["low"] = 1 /\ Rank["medium"] = 2 /\ Rank["high"] = 3
<1>1. Rank["none"] = 0 /\ Rank["low"] = 1 /\ Rank["medium"] = 2 /\ Rank["high"] = 3
  BY DEF Rank
<1> QED BY <1>1 DEF Confs

LEMMA ListIs ==
  ASSUME NEW list \in Seq(Findings)
  PROVE  /\ Len(list) \in Nat /\ DOMAIN list = 1..Len(list)
         /\ \A i \in 1..Len(list) : list[i] \in Findings /\ list[i].cause \in Causes /\ list[i].conf \in Confs
         /\ CausesIn(list) = {f.cause : f \in ListOf(list)}
<1>1. Len(list) \in Nat /\ DOMAIN list = 1..Len(list) /\ \A i \in 1..Len(list) : list[i] \in Findings
  OBVIOUS
<1>2. \A i \in 1..Len(list) : list[i].cause \in Causes /\ list[i].conf \in Confs
  BY <1>1 DEF Findings
<1>3. CausesIn(list) = {f.cause : f \in ListOf(list)}
  BY DEF CausesIn, ListOf
<1> QED BY <1>1, <1>2, <1>3

LEMMA MaybeIs ==
  ASSUME NEW holds \in BOOLEAN, NEW cause \in Causes, NEW conf, holds => conf \in Confs
  PROVE  /\ Maybe(holds, cause, conf) \in Seq(Findings) /\ EachOnce(Maybe(holds, cause, conf))
         /\ cause # "noisy_neighbour" => WellMade(Maybe(holds, cause, conf))
         /\ ListOf(Maybe(holds, cause, conf)) = IF holds THEN {[cause |-> cause, conf |-> conf]} ELSE {}
<1>1. CASE ~holds
  <2>1. Maybe(holds, cause, conf) = <<>>
    BY <1>1 DEF Maybe
  <2> QED BY <1>1, <2>1 DEF EachOnce, Explained, WellMade, ListOf
<1>2. CASE holds
  <2>1. PICK f \in Findings : f = [cause |-> cause, conf |-> conf]
    BY <1>2 DEF Findings
  <2>2. Maybe(holds, cause, conf) = <<f>> /\ f.cause = cause
    BY <1>2, <2>1 DEF Maybe
  <2>3. <<f>> \in Seq(Findings) /\ DOMAIN <<f>> = {1} /\ <<f>>[1] = f
    OBVIOUS
  <2>4. EachOnce(<<f>>)
    BY <2>3 DEF EachOnce
  <2>5. cause # "noisy_neighbour" => Explained(<<f>>)
    BY <2>2, <2>3 DEF Explained
  <2>6. ListOf(<<f>>) = {f}
    BY <2>3 DEF ListOf
  <2> QED BY <1>2, <2>1, <2>2, <2>3, <2>4, <2>5, <2>6 DEF WellMade
<1> QED BY <1>1, <1>2

LEMMA Together ==
  ASSUME NEW a \in Seq(Findings), NEW b \in Seq(Findings)
  PROVE  /\ a \o b \in Seq(Findings) /\ ListOf(a \o b) = ListOf(a) \cup ListOf(b)
         /\ WellMade(a) /\ WellMade(b) /\ CausesIn(a) \cap CausesIn(b) = {} => WellMade(a \o b)
         /\ CausesIn(a \o b) = CausesIn(a) \cup CausesIn(b)
<1>1. PICK c : c = a \o b
  OBVIOUS
<1>2. PICK m, n \in Nat : m = Len(a) /\ n = Len(b)
  OBVIOUS
<1>3. /\ c \in Seq(Findings) /\ Len(c) = m + n
      /\ \A i \in 1..(m + n) : c[i] = IF i <= m THEN a[i] ELSE b[i - m]
  BY <1>1, <1>2
<1>4. DOMAIN a = 1..m /\ DOMAIN b = 1..n /\ DOMAIN c = 1..(m + n)
  BY <1>2, <1>3
<1>5. \A i \in 1..m : i \in 1..(m + n) /\ c[i] = a[i]
  BY <1>3
<1>6. \A i \in 1..n : m + i \in 1..(m + n) /\ c[m + i] = b[i]
  BY <1>3
<1>7. ASSUME NEW i \in 1..(m + n) PROVE i \in 1..m \/ \E k \in 1..n : i = m + k /\ c[i] = b[k]
  <2>1. CASE i <= m
    BY <2>1
  <2>2. CASE ~(i <= m)
    <3>1. i - m \in 1..n /\ i = m + (i - m)
      BY <2>2
    <3> QED BY <1>6, <3>1
  <2> QED BY <2>1, <2>2
<1>8. ListOf(c) = ListOf(a) \cup ListOf(b)
  <2>1. \A i \in 1..m : a[i] \in ListOf(c)
    BY <1>4, <1>5 DEF ListOf
  <2>2. \A i \in 1..n : b[i] \in ListOf(c)
    BY <1>4, <1>6 DEF ListOf
  <2>3. ASSUME NEW i \in 1..(m + n) PROVE c[i] \in ListOf(a) \cup ListOf(b)
    BY <1>4, <1>5, <1>7 DEF ListOf
  <2>4. ListOf(a) = {a[i] : i \in 1..m} /\ ListOf(b) = {b[i] : i \in 1..n} /\ ListOf(c) = {c[i] : i \in 1..(m + n)}
    BY <1>4 DEF ListOf
  <2> QED BY <2>1, <2>2, <2>3, <2>4
<1>9. CausesIn(c) = CausesIn(a) \cup CausesIn(b)
  <2>1. /\ CausesIn(a) = {f.cause : f \in ListOf(a)} /\ CausesIn(b) = {f.cause : f \in ListOf(b)}
        /\ CausesIn(c) = {f.cause : f \in ListOf(c)}
    BY <1>3, ListIs
  <2> QED BY <1>8, <2>1
<1>10. ASSUME WellMade(a), WellMade(b), CausesIn(a) \cap CausesIn(b) = {} PROVE WellMade(c)
  <2>1. EachOnce(c)
    <3> SUFFICES ASSUME NEW i \in 1..(m + n), NEW j \in 1..(m + n), c[i].cause = c[j].cause PROVE i = j
      BY <1>4 DEF EachOnce
    <3>1. CASE i \in 1..m /\ j \in 1..m
      BY <1>4, <1>5, <1>10, <3>1 DEF EachOnce, WellMade
    <3>2. ASSUME NEW k \in 1..n, i = m + k, NEW l \in 1..n, j = m + l PROVE i = j
      <4>1. c[i] = b[k] /\ c[j] = b[l]
        BY <1>6, <3>2
      <4>2. k = l
        BY <1>4, <1>10, <4>1 DEF EachOnce, WellMade
      <4> QED BY <3>2, <4>2
    <3>3. ASSUME NEW k \in 1..n, NEW h \in 1..m PROVE c[h].cause # c[m + k].cause
      <4>1. c[h] = a[h] /\ c[m + k] = b[k]
        BY <1>5, <1>6
      <4>2. a[h].cause \in CausesIn(a) /\ b[k].cause \in CausesIn(b)
        BY <1>4 DEF CausesIn
      <4> QED BY <1>10, <4>1, <4>2, Zenon
    <3>4. i \in 1..m \/ \E k \in 1..n : i = m + k
      BY <1>7
    <3>5. j \in 1..m \/ \E k \in 1..n : j = m + k
      BY <1>7
    <3>6. CASE i \in 1..m
      BY <3>1, <3>3, <3>5, <3>6
    <3>7. ASSUME NEW k \in 1..n, i = m + k PROVE i = j
      BY <3>2, <3>3, <3>5, <3>7
    <3> QED BY <3>4, <3>6, <3>7
  <2>2. Explained(c)
    <3> SUFFICES ASSUME NEW i \in 1..(m + n), c[i].cause = "noisy_neighbour"
                 PROVE  i > 1 /\ c[i - 1].cause = "cpu_preempted" /\ c[i - 1].conf = c[i].conf
      BY <1>4 DEF Explained
    <3>1. CASE i \in 1..m
      <4>1. i > 1 /\ a[i - 1].cause = "cpu_preempted" /\ a[i - 1].conf = a[i].conf
        BY <1>4, <1>5, <1>10, <3>1 DEF Explained, WellMade
      <4>2. i - 1 \in 1..m
        BY <3>1, <4>1
      <4> QED BY <1>5, <3>1, <4>1, <4>2
    <3>2. CASE \E k \in 1..n : i = m + k /\ c[i] = b[k]
      <4>1. PICK k \in 1..n : i = m + k /\ c[i] = b[k]
        BY <3>2
      <4>2. c[i] = b[k]
        BY <4>1
      <4>3. k > 1 /\ b[k - 1].cause = "cpu_preempted" /\ b[k - 1].conf = b[k].conf
        BY <1>4, <1>10, <4>2 DEF Explained, WellMade
      <4>4. k - 1 \in 1..n /\ m + (k - 1) = i - 1
        BY <4>1, <4>3
      <4>5. c[i - 1] = b[k - 1]
        BY <1>6, <4>4
      <4> QED BY <4>1, <4>2, <4>3, <4>5
    <3> QED BY <1>7, <3>1, <3>2
  <2> QED BY <1>3, <2>1, <2>2 DEF WellMade
<1> QED BY <1>1, <1>3, <1>8, <1>9, <1>10

Before(list, i) == {j \in DOMAIN list : ComesFirst(list, j, i)}

LEMMA BeforeIs ==
  ASSUME NEW list \in Seq(Findings), NEW i \in 1..Len(list)
  PROVE  /\ i \in Before(list, i) /\ IsFiniteSet(Before(list, i)) /\ Place(list, i) = Cardinality(Before(list, i))
         /\ Place(list, i) \in 1..Len(list)
         /\ \A j \in 1..Len(list) : j \in Before(list, i) <=>
              Rank[list[j].conf] > Rank[list[i].conf] \/ (Rank[list[j].conf] = Rank[list[i].conf] /\ j <= i)
<1>1. PICK n \in Nat : n = Len(list) /\ DOMAIN list = 1..n
  BY ListIs
<1>2. \A j \in 1..n : list[j].conf \in Confs
  BY <1>1, ListIs
<1>3. \A j \in 1..n : j \in Before(list, i) <=>
        Rank[list[j].conf] > Rank[list[i].conf] \/ (Rank[list[j].conf] = Rank[list[i].conf] /\ j <= i)
  BY <1>1, <1>2, RankIs DEF Before, ComesFirst
<1>4. i \in Before(list, i)
  BY <1>1, <1>3
<1>5. IsFiniteSet(1..n) /\ Cardinality(1..n) = n
  BY FS_Interval
<1>6. Before(list, i) \subseteq 1..n
  BY <1>1 DEF Before
<1>7. IsFiniteSet(Before(list, i)) /\ Cardinality(Before(list, i)) <= n
  BY <1>5, <1>6, FS_Subset
<1>8. Cardinality(Before(list, i)) \in Nat /\ Cardinality(Before(list, i)) # 0
  BY <1>4, <1>7, FS_CardinalityType, FS_EmptySet
<1> QED BY <1>1, <1>3, <1>4, <1>7, <1>8 DEF Place, Before

\* What comes first is put first.
LEMMA PlacesInOrder ==
  ASSUME NEW list \in Seq(Findings), NEW i \in 1..Len(list), NEW j \in 1..Len(list), i # j
  PROVE  /\ i \in Before(list, j) \/ j \in Before(list, i)
         /\ i \in Before(list, j) => Place(list, i) < Place(list, j)
<1>1. PICK n \in Nat : n = Len(list) /\ DOMAIN list = 1..n
  BY ListIs
<1>2. PICK r : r = [k \in 1..n |-> Rank[list[k].conf]]
  OBVIOUS
<1>3. \A k \in 1..n : r[k] \in Nat /\ r[k] = Rank[list[k].conf]
  <2>1. \A k \in 1..n : list[k].conf \in Confs
    BY <1>1, ListIs
  <2> QED BY <1>2, <2>1, RankIs
<1>4. \A k, l \in 1..n : l \in Before(list, k) <=> r[l] > r[k] \/ (r[l] = r[k] /\ l <= k)
  <2> SUFFICES ASSUME NEW k \in 1..n, NEW l \in 1..n
               PROVE  l \in Before(list, k) <=> r[l] > r[k] \/ (r[l] = r[k] /\ l <= k)
    OBVIOUS
  <2>1. l \in Before(list, k) <=>
          Rank[list[l].conf] > Rank[list[k].conf] \/ (Rank[list[l].conf] = Rank[list[k].conf] /\ l <= k)
    BY <1>1, BeforeIs
  <2>2. r[k] = Rank[list[k].conf] /\ r[l] = Rank[list[l].conf]
    BY <1>3
  <2> QED BY <2>1, <2>2
<1>5. \A k, l \in 1..n : l \in Before(list, k) => l \in 1..n
  OBVIOUS
<1>6. i \in Before(list, j) \/ j \in Before(list, i)
  BY <1>1, <1>3, <1>4
<1>7. ASSUME i \in Before(list, j) PROVE Place(list, i) < Place(list, j)
  <2>1. j \notin Before(list, i)
    BY <1>1, <1>3, <1>4, <1>7
  <2>2. Before(list, i) \subseteq Before(list, j)
    <3> SUFFICES ASSUME NEW k \in Before(list, i) PROVE k \in Before(list, j)
      OBVIOUS
    <3>1. k \in 1..n
      BY <1>1 DEF Before
    <3> QED BY <1>1, <1>3, <1>4, <1>7, <3>1
  <2>3. /\ j \in Before(list, j) /\ IsFiniteSet(Before(list, j)) /\ IsFiniteSet(Before(list, i))
        /\ Place(list, i) = Cardinality(Before(list, i)) /\ Place(list, j) = Cardinality(Before(list, j))
        /\ Place(list, i) \in Nat /\ Place(list, j) \in Nat
    BY <1>1, BeforeIs
  <2>4. Before(list, i) # Before(list, j)
    BY <2>1, <2>3
  <2>5. Cardinality(Before(list, i)) <= Cardinality(Before(list, j))
        /\ (Cardinality(Before(list, i)) = Cardinality(Before(list, j)) => Before(list, i) = Before(list, j))
    BY <2>2, <2>3, FS_Subset
  <2> QED BY <2>3, <2>4, <2>5
<1> QED BY <1>6, <1>7

\* Every place is taken by one finding, and the list is made of those.
LEMMA RankedIs ==
  ASSUME NEW list \in Seq(Findings)
  PROVE  /\ DOMAIN Ranked(list) = 1..Len(list)
         /\ \A i \in 1..Len(list) : Place(list, i) \in 1..Len(list) /\ Ranked(list)[Place(list, i)] = list[i]
         /\ \A k \in 1..Len(list) : \E i \in 1..Len(list) : Place(list, i) = k
<1>1. PICK n \in Nat : n = Len(list) /\ DOMAIN list = 1..n
  BY ListIs
<1>2. PICK p : p = [i \in 1..n |-> Place(list, i)]
  OBVIOUS
<1>3. p \in [1..n -> 1..n] /\ \A i \in 1..n : p[i] = Place(list, i) /\ p[i] \in 1..n
  BY <1>1, <1>2, BeforeIs
<1>4. \A i, j \in 1..n : p[i] = p[j] => i = j
  <2> SUFFICES ASSUME NEW i \in 1..n, NEW j \in 1..n, i # j PROVE p[i] # p[j]
    OBVIOUS
  <2>1. Place(list, i) < Place(list, j) \/ Place(list, j) < Place(list, i)
    BY <1>1, PlacesInOrder
  <2> QED BY <1>3, <2>1
<1>5. IsFiniteSet(1..n)
  BY FS_Interval
<1>6. p \in Injection(1..n, 1..n)
  BY <1>3, <1>4 DEF Injection, IsInjective
<1>7. p \in Surjection(1..n, 1..n)
  <2>1. Cardinality(1..n) = Cardinality(1..n)
    OBVIOUS
  <2> QED BY <1>5, <1>6, FS_Injection
<1>8. \A k \in 1..n : \E i \in 1..n : p[i] = k
  BY <1>7 DEF Surjection
<1>9. ASSUME NEW i \in 1..n PROVE Ranked(list)[p[i]] = list[i]
  <2>1. Ranked(list)[p[i]] = list[CHOOSE j \in 1..n : Place(list, j) = p[i]]
    BY <1>1, <1>3 DEF Ranked
  <2>2. PICK k : k = CHOOSE j \in 1..n : Place(list, j) = p[i]
    OBVIOUS
  <2>3. k \in 1..n /\ Place(list, k) = p[i]
    BY <1>3, <2>2
  <2>4. k = i
    BY <1>3, <1>4, <2>3
  <2> QED BY <2>1, <2>2, <2>4
<1>10. DOMAIN Ranked(list) = 1..n
  BY <1>1 DEF Ranked
<1>11. \A i \in 1..n : Place(list, i) \in 1..n /\ Ranked(list)[Place(list, i)] = list[i]
  BY <1>3, <1>9
<1>12. \A k \in 1..n : \E i \in 1..n : Place(list, i) = k
  BY <1>3, <1>8
<1> QED BY <1>1, <1>10, <1>11, <1>12

\* Ranking keeps the findings, puts the best supported first, and keeps the neighbour after the preemption.
LEMMA RankedWell ==
  ASSUME NEW list, WellMade(list)
  PROVE  /\ ListOf(Ranked(list)) = ListOf(list) /\ Ranked(list) \in Seq(Findings) /\ EachOnce(Ranked(list))
         /\ \A k, l \in DOMAIN Ranked(list) : k < l => Rank[Ranked(list)[k].conf] >= Rank[Ranked(list)[l].conf]
         /\ CulpritFollows(Ranked(list))
<1>1. PICK n \in Nat : n = Len(list) /\ DOMAIN list = 1..n /\ list \in Seq(Findings)
  BY ListIs DEF WellMade
<1>2. PICK d : d = Ranked(list)
  OBVIOUS
<1>3. PICK p : p = [i \in 1..n |-> Place(list, i)]
  OBVIOUS
<1>4. /\ DOMAIN d = 1..n
      /\ \A i \in 1..n : p[i] = Place(list, i) /\ p[i] \in 1..n /\ d[p[i]] = list[i]
      /\ \A k \in 1..n : \E i \in 1..n : p[i] = k /\ d[k] = list[i]
  <2>1. /\ DOMAIN d = 1..n
        /\ \A i \in 1..n : Place(list, i) \in 1..n /\ d[Place(list, i)] = list[i]
        /\ \A k \in 1..n : \E i \in 1..n : Place(list, i) = k
    BY <1>1, <1>2, RankedIs
  <2>2. \A i \in 1..n : p[i] = Place(list, i)
    BY <1>3
  <2>3. \A i \in 1..n : p[i] \in 1..n /\ d[p[i]] = list[i]
    BY <2>1, <2>2
  <2>4. ASSUME NEW k \in 1..n PROVE \E i \in 1..n : p[i] = k /\ d[k] = list[i]
    <3>1. PICK i \in 1..n : Place(list, i) = k
      BY <2>1
    <3> QED BY <2>2, <2>3, <3>1
  <2> QED BY <2>1, <2>2, <2>3, <2>4
<1>5. \A i \in 1..n : list[i] \in Findings /\ list[i].conf \in Confs /\ Rank[list[i].conf] \in Nat
  BY <1>1, ListIs, RankIs
<1>6. ListOf(d) = ListOf(list)
  <2>1. ListOf(d) = {d[k] : k \in 1..n} /\ ListOf(list) = {list[k] : k \in 1..n}
    BY <1>1, <1>4 DEF ListOf
  <2>2. \A k \in 1..n : d[k] \in {list[i] : i \in 1..n}
    BY <1>4
  <2>3. \A i \in 1..n : list[i] \in {d[k] : k \in 1..n}
    BY <1>4
  <2> QED BY <2>1, <2>2, <2>3
<1>7. d \in Seq(Findings)
  <2>1. d = [k \in 1..n |-> d[k]]
    BY <1>1, <1>2 DEF Ranked
  <2>2. \A k \in 1..n : d[k] \in Findings
    BY <1>4, <1>5
  <2>3. d \in [1..n -> Findings]
    BY <2>1, <2>2
  <2> QED BY <2>3, SeqDef
<1>8. EachOnce(d)
  <2> SUFFICES ASSUME NEW k \in 1..n, NEW l \in 1..n, d[k].cause = d[l].cause PROVE k = l
    BY <1>4 DEF EachOnce
  <2>1. PICK i \in 1..n : p[i] = k /\ d[k] = list[i]
    BY <1>4
  <2>2. PICK j \in 1..n : p[j] = l /\ d[l] = list[j]
    BY <1>4
  <2>3. i = j
    BY <1>1, <2>1, <2>2 DEF WellMade, EachOnce
  <2> QED BY <2>1, <2>2, <2>3
<1>9. ASSUME NEW k \in 1..n, NEW l \in 1..n, k < l PROVE Rank[d[k].conf] >= Rank[d[l].conf]
  <2>1. PICK i \in 1..n : p[i] = k /\ d[k] = list[i]
    BY <1>4
  <2>2. PICK j \in 1..n : p[j] = l /\ d[l] = list[j]
    BY <1>4
  <2>3. i # j /\ ~(Place(list, j) < Place(list, i))
    <3>1. p[i] = Place(list, i) /\ p[j] = Place(list, j)
      BY <1>4
    <3>2. k < l /\ k \in Nat /\ l \in Nat
      BY <1>9
    <3> QED BY <2>1, <2>2, <3>1, <3>2
  <2>4. i \in Before(list, j)
    BY <1>1, <2>3, PlacesInOrder
  <2>5. Rank[list[i].conf] > Rank[list[j].conf] \/ Rank[list[i].conf] = Rank[list[j].conf]
    BY <1>1, <2>4, BeforeIs
  <2> QED BY <1>5, <2>1, <2>2, <2>5
<1>10. ASSUME NEW i \in 1..n, i > 1, list[i - 1].conf = list[i].conf PROVE i - 1 \in 1..n /\ p[i] = p[i - 1] + 1
  <2>1. i - 1 \in 1..n
    BY <1>10
  <2>2. PICK h \in 1..n : h = i - 1
    BY <2>1
  <2>3. h < i /\ list[h].conf = list[i].conf /\ \A j \in 1..n : j <= i <=> j <= h \/ j = i
    BY <1>10, <2>2
  <2>4. Before(list, i) = Before(list, h) \cup {i} /\ i \notin Before(list, h)
    <3>1. \A j \in 1..n : j \in Before(list, i) <=>
            Rank[list[j].conf] > Rank[list[i].conf] \/ (Rank[list[j].conf] = Rank[list[i].conf] /\ j <= i)
      BY <1>1, BeforeIs
    <3>2. \A j \in 1..n : j \in Before(list, h) <=>
            Rank[list[j].conf] > Rank[list[i].conf] \/ (Rank[list[j].conf] = Rank[list[i].conf] /\ j <= h)
      <4>1. \A j \in 1..n : j \in Before(list, h) <=>
              Rank[list[j].conf] > Rank[list[h].conf] \/ (Rank[list[j].conf] = Rank[list[h].conf] /\ j <= h)
        BY <1>1, BeforeIs
      <4> QED BY <2>3, <4>1
    <3>3. Before(list, i) \subseteq 1..n /\ Before(list, h) \subseteq 1..n
      BY <1>1 DEF Before
    <3>4. \A j \in 1..n : j \in Before(list, i) <=> j \in Before(list, h) \/ j = i
      BY <1>5, <2>3, <3>1, <3>2
    <3>5. i \notin Before(list, h)
      BY <1>5, <2>3, <3>2
    <3> QED BY <3>3, <3>4, <3>5
  <2>5. IsFiniteSet(Before(list, h)) /\ Place(list, h) = Cardinality(Before(list, h)) /\ Place(list, h) \in Nat
        /\ Place(list, i) = Cardinality(Before(list, i))
    BY <1>1, BeforeIs
  <2>6. Cardinality(Before(list, h) \cup {i}) = Cardinality(Before(list, h)) + 1
    BY <2>4, <2>5, FS_AddElement
  <2> QED BY <1>4, <2>1, <2>2, <2>4, <2>5, <2>6
<1>11. CulpritFollows(d)
  <2> SUFFICES ASSUME NEW k \in 1..n, d[k].cause = "noisy_neighbour" PROVE k > 1 /\ d[k - 1].cause = "cpu_preempted"
    BY <1>4 DEF CulpritFollows
  <2>1. PICK i \in 1..n : p[i] = k /\ d[k] = list[i]
    BY <1>4
  <2>2. i > 1 /\ list[i - 1].cause = "cpu_preempted" /\ list[i - 1].conf = list[i].conf
    BY <1>1, <2>1 DEF WellMade, Explained
  <2>3. i - 1 \in 1..n /\ p[i] = p[i - 1] + 1
    BY <1>10, <2>2
  <2>4. p[i - 1] \in 1..n /\ d[p[i - 1]] = list[i - 1]
    BY <1>4, <2>3
  <2>5. k - 1 = p[i - 1] /\ k > 1
    BY <2>1, <2>3, <2>4
  <2> QED BY <2>2, <2>4, <2>5
<1> QED BY <1>2, <1>4, <1>6, <1>7, <1>8, <1>9, <1>11

\* The 99th percentile as the buckets give it, of a source or of the VM's threads together.
Seen99(o) == Percentile(Kept(hist, o), 99)

\* It is above the exact one, at most twice it or the edge of the lowest bucket, and nothing where nothing occurred.
LEMMA SeenIs ==
  ASSUME VerdInv, NEW o \in Observed
  PROVE  /\ Often(o) \in Nat /\ Seen99(o) \in Nat /\ Seen99(o) <= 1022 /\ ExactP99(o) \in Nat
         /\ ExactP99(o) <= Seen99(o) /\ (Seen99(o) <= 2 * ExactP99(o) \/ Seen99(o) <= 2)
         /\ Seen99(o) > 0 <=> Often(o) > 0
<1>1. PICK c, row : c = Kept(hist, o) /\ row = lat[o]
  OBVIOUS
<1>2. c \in Histograms /\ row \in Rows /\ Tells(c, row)
  BY <1>1, KeptType DEF VerdInv, Told
<1>3. PICK top : top = row[Max(Latencies)]
  OBVIOUS
<1>4. top = Often(o) /\ Seen99(o) = Percentile(c, 99)
  BY <1>1, <1>3 DEF Often, Seen99
<1>5. PICK e : e = Min({x \in Latencies : 100 * (top - row[x]) <= top})
  OBVIOUS
<1>6. /\ top \in Nat
      /\ top = 0 => Percentile(c, 99) = 0
      /\ top # 0 => e \in Latencies /\ Percentile(c, 99) = edge(Bucket(e))
  BY <1>2, <1>3, <1>5, PercentileIs
<1>7. ExactP99(o) = IF top = 0 THEN 0 ELSE e
  BY <1>1, <1>4, <1>5 DEF ExactP99
<1>8. CASE top = 0
  BY <1>4, <1>6, <1>7, <1>8
<1>9. CASE top # 0
  <2>1. e \in Latencies /\ Seen99(o) = edge(Bucket(e)) /\ ExactP99(o) = e
    BY <1>4, <1>6, <1>7, <1>9
  <2>2. e \in 0..511
    BY <2>1, VerdictsAssumption
  <2>3. /\ Seen99(o) \in Nat /\ e < Seen99(o) /\ (Seen99(o) <= 2 * e \/ Seen99(o) = 2) /\ Seen99(o) >= 2
    BY <2>1, EdgeIs
  <2> QED BY <1>4, <1>6, <1>9, <2>1, <2>2, <2>3
<1> QED BY <1>8, <1>9

\* The same of the worst of several.
WorstExact(S) == Max({ExactP99(s) : s \in S})
LEMMA LargestOf ==
  ASSUME NEW n \in Nat, NEW S, S # {}, NEW f, \A s \in S : f[s] \in 0..n, NEW w, w = Max({f[s] : s \in S})
  PROVE  w \in 0..n /\ (\E s \in S : f[s] = w) /\ \A s \in S : f[s] <= w
<1>1. PICK P : P = {f[s] : s \in S}
  OBVIOUS
<1>2. P \in SUBSET (0..n) /\ P # {} /\ n \in Nat
  BY <1>1
<1>3. Max(P) \in P /\ \A j \in P : j <= Max(P)
  BY <1>2, Largest
<1>4. w = Max(P)
  BY <1>1
<1> QED BY <1>1, <1>2, <1>3, <1>4

LEMMA WorstIs ==
  ASSUME VerdInv, NEW S \in SUBSET Sources, S # {}, NEW w, w = WorstOf(S), NEW e, e = WorstExact(S)
  PROVE  /\ w \in Nat /\ e \in Nat /\ e <= w /\ (w <= 2 * e \/ w <= 2)
         /\ w > 0 <=> \E s \in S : Often(s) > 0
<1>1. \A s \in S : s \in Observed /\ P99(s) = Seen99(s)
  BY TidsAre DEF P99, Seen99, Kept
<1>2. PICK p, x, o : p = [s \in S |-> P99(s)] /\ x = [s \in S |-> ExactP99(s)] /\ o = [s \in S |-> Often(s)]
  OBVIOUS
<1>3. \A s \in S : p[s] = P99(s) /\ x[s] = ExactP99(s) /\ o[s] = Often(s)
  BY <1>2
<1>4. \A s \in S : /\ o[s] \in Nat /\ p[s] \in Nat /\ p[s] <= 1022 /\ x[s] \in Nat
                   /\ x[s] <= p[s] /\ (p[s] <= 2 * x[s] \/ p[s] <= 2)
                   /\ p[s] > 0 <=> o[s] > 0
  BY <1>1, <1>3, SeenIs
<1>5. w = Max({p[s] : s \in S}) /\ e = Max({x[s] : s \in S})
  <2>1. {P99(s) : s \in S} = {p[s] : s \in S} /\ {ExactP99(s) : s \in S} = {x[s] : s \in S}
    BY <1>3
  <2> QED BY <2>1 DEF WorstOf, WorstExact
<1>15. PICK n \in Nat : n = 1022
  OBVIOUS
<1>16. \A s \in S : p[s] \in 0..n /\ x[s] \in 0..n
  <2> SUFFICES ASSUME NEW s \in S PROVE p[s] \in 0..n /\ x[s] \in 0..n
    OBVIOUS
  <2>1. PICK a, b \in Nat : a = p[s] /\ b = x[s]
    BY <1>4
  <2>2. b <= a /\ a <= 1022
    BY <1>4, <2>1
  <2>3. a \in 0..n /\ b \in 0..n
    BY <1>15, <2>2
  <2> QED BY <2>1, <2>3
<1>6. w \in 0..n /\ (\E s \in S : p[s] = w) /\ \A s \in S : p[s] <= w
  BY <1>5, <1>16, LargestOf
<1>7. e \in 0..n /\ (\E s \in S : x[s] = e) /\ \A s \in S : x[s] <= e
  BY <1>5, <1>16, LargestOf
<1>8. PICK sw \in S : p[sw] = w
  BY <1>6
<1>9. PICK se \in S : x[se] = e
  BY <1>7
<1>10. PICK a, b \in Nat : a = p[se] /\ b = x[sw]
  BY <1>4
<1>11. e <= a /\ a <= w
  BY <1>4, <1>6, <1>9, <1>10
<1>12. (w <= 2 * b \/ w <= 2) /\ b <= e
  BY <1>4, <1>7, <1>8, <1>10
<1>13. e <= w /\ (w <= 2 * e \/ w <= 2) /\ w \in Nat /\ e \in Nat
  BY <1>6, <1>7, <1>11, <1>12
<1>14. w > 0 <=> \E s \in S : o[s] > 0
  <2>1. ASSUME w > 0 PROVE \E s \in S : o[s] > 0
    BY <1>4, <1>8, <2>1
  <2>2. ASSUME NEW s \in S, o[s] > 0 PROVE w > 0
    <3>1. PICK c \in Nat : c = p[s]
      BY <1>4
    <3>2. c > 0 /\ c <= w
      BY <1>4, <1>6, <2>2, <3>1
    <3> QED BY <1>6, <3>2
  <2> QED BY <2>1, <2>2
<1> QED BY <1>3, <1>13, <1>14

-----------------------------------------------------------------------------
(* What is found.                                                          *)

Found == CPUContention \o Preemption \o Storage \o ExitHandling \o Traffic
One(cause, conf) == [cause |-> cause, conf |-> conf]

LEMMA AsHighIs == \A at, high : AsHigh(at, high) \in Confs
BY DEF AsHigh, Confs

\* A piece of the list: a finding of its own cause, or none.
IsPiece(list, cause) == list = <<>> \/ \E f \in Findings : f.cause = cause /\ list = <<f>>
LEMMA PieceIs ==
  ASSUME NEW list, NEW cause, cause # "noisy_neighbour", IsPiece(list, cause)
  PROVE  WellMade(list) /\ list \in Seq(Findings) /\ CausesIn(list) \subseteq {cause}
<1>1. CASE list = <<>>
  BY <1>1 DEF WellMade, EachOnce, Explained, CausesIn
<1>2. ASSUME NEW f \in Findings, f.cause = cause, list = <<f>>
      PROVE  WellMade(list) /\ list \in Seq(Findings) /\ CausesIn(list) \subseteq {cause}
  <2>1. list \in Seq(Findings) /\ DOMAIN list = {1} /\ list[1] = f
    BY <1>2
  <2> QED BY <1>2, <2>1 DEF WellMade, EachOnce, Explained, CausesIn
<1> QED BY <1>1, <1>2 DEF IsPiece

LEMMA OneIs ==
  ASSUME NEW cause \in Causes, NEW conf \in Confs
  PROVE  One(cause, conf) \in Findings /\ One(cause, conf).cause = cause /\ One(cause, conf).conf = conf
BY DEF One, Findings

LEMMA PreemptionIs ==
  /\ WellMade(Preemption) /\ Preemption \in Seq(Findings)
  /\ CausesIn(Preemption) \subseteq {"cpu_preempted", "noisy_neighbour"}
<1>1. PICK h, f, g : h = HowPreempted /\ f = One("cpu_preempted", h) /\ g = One("noisy_neighbour", h)
  OBVIOUS
<1>2. h \in Confs
  BY <1>1, AsHighIs DEF HowPreempted
<1>3. /\ f \in Findings /\ f.cause = "cpu_preempted" /\ f.conf = h
      /\ g \in Findings /\ g.cause = "noisy_neighbour" /\ g.conf = h
  <2>1. "cpu_preempted" \in Causes /\ "noisy_neighbour" \in Causes
    BY DEF Causes
  <2> QED BY <1>1, <1>2, <2>1, OneIs
<1>4. Preemption = <<>> \o <<>> \/ Preemption = <<f>> \o <<>> \/ Preemption = <<f>> \o <<g>>
  BY <1>1 DEF Preemption, Maybe, One
<1>5. <<>> \o <<>> = <<>> /\ <<f>> \o <<>> = <<f>>
  <2>1. <<>> \in Seq(Findings) /\ <<f>> \in Seq(Findings)
    BY <1>3
  <2>2. \A m \in Seq(Findings) : m \o <<>> = m
    OBVIOUS
  <2> QED BY <2>1, <2>2
<1>6. PICK l : l = <<f>> \o <<g>>
  OBVIOUS
<1>7. l \in Seq(Findings) /\ DOMAIN l = {1, 2} /\ l[1] = f /\ l[2] = g
  <2>1. l \in Seq(Findings) /\ Len(l) = 2 /\ l[1] = f /\ l[2] = g
    BY <1>3, <1>6
  <2> QED BY <2>1
<1>8. WellMade(l) /\ CausesIn(l) \subseteq {"cpu_preempted", "noisy_neighbour"}
  <2>1. EachOnce(l)
    BY <1>3, <1>7 DEF EachOnce
  <2>2. Explained(l)
    BY <1>3, <1>7 DEF Explained
  <2>3. CausesIn(l) \subseteq {"cpu_preempted", "noisy_neighbour"}
    BY <1>3, <1>7 DEF CausesIn
  <2> QED BY <1>7, <2>1, <2>2, <2>3 DEF WellMade
<1>9. CASE Preemption = <<>> \/ Preemption = <<f>>
  <2>1. IsPiece(Preemption, "cpu_preempted")
    BY <1>3, <1>9 DEF IsPiece
  <2>2. PICK p : p = Preemption
    OBVIOUS
  <2> QED BY <2>1, <2>2, PieceIs
<1>10. CASE Preemption = l
  BY <1>7, <1>8, <1>10
<1> QED BY <1>4, <1>5, <1>6, <1>9, <1>10

LEMMA TrafficIs ==
  /\ WellMade(Traffic) /\ Traffic \in Seq(Findings)
  /\ CausesIn(Traffic) \subseteq {"tcp_retransmits", "guest_traffic_dropped", "guest_not_reading_nic", "guest_connects_failing"}
<1>1. PICK p, q, r, s : /\ p = Maybe(count.retrans >= RetransFloor, "tcp_retransmits", "low")
                        /\ q = Maybe(count.other >= DropFloor, "guest_traffic_dropped", "medium")
                        /\ r = Maybe(count.full >= DropFloor, "guest_not_reading_nic", "medium")
                        /\ s = Maybe(connectFailing, "guest_connects_failing", "medium")
  OBVIOUS
<1>2. Traffic = ((p \o q) \o r) \o s
  BY <1>1 DEF Traffic
<1>3. /\ One("tcp_retransmits", "low") \in Findings /\ One("guest_traffic_dropped", "medium") \in Findings
      /\ One("guest_not_reading_nic", "medium") \in Findings /\ One("guest_connects_failing", "medium") \in Findings
  <2>1. /\ "tcp_retransmits" \in Causes /\ "guest_traffic_dropped" \in Causes
        /\ "guest_not_reading_nic" \in Causes /\ "guest_connects_failing" \in Causes
    BY DEF Causes
  <2>2. "low" \in Confs /\ "medium" \in Confs
    BY DEF Confs
  <2> QED BY <2>1, <2>2, OneIs
<1>4. /\ IsPiece(p, "tcp_retransmits") /\ IsPiece(q, "guest_traffic_dropped")
      /\ IsPiece(r, "guest_not_reading_nic") /\ IsPiece(s, "guest_connects_failing")
  <2>1. IsPiece(p, "tcp_retransmits")
    BY <1>1, <1>3 DEF IsPiece, Maybe, One
  <2>2. IsPiece(q, "guest_traffic_dropped")
    BY <1>1, <1>3 DEF IsPiece, Maybe, One
  <2>3. IsPiece(r, "guest_not_reading_nic")
    BY <1>1, <1>3 DEF IsPiece, Maybe, One
  <2>4. IsPiece(s, "guest_connects_failing")
    BY <1>1, <1>3 DEF IsPiece, Maybe, One
  <2> QED BY <2>1, <2>2, <2>3, <2>4
<1>5. /\ WellMade(p) /\ p \in Seq(Findings) /\ CausesIn(p) \subseteq {"tcp_retransmits"}
      /\ WellMade(q) /\ q \in Seq(Findings) /\ CausesIn(q) \subseteq {"guest_traffic_dropped"}
      /\ WellMade(r) /\ r \in Seq(Findings) /\ CausesIn(r) \subseteq {"guest_not_reading_nic"}
      /\ WellMade(s) /\ s \in Seq(Findings) /\ CausesIn(s) \subseteq {"guest_connects_failing"}
  BY <1>4, PieceIs
<1>6. PICK pq : pq = p \o q
  OBVIOUS
<1>7. CausesIn(p) \cap CausesIn(q) = {}
  BY <1>5
<1>8. pq \in Seq(Findings) /\ WellMade(pq) /\ CausesIn(pq) = CausesIn(p) \cup CausesIn(q)
  BY <1>5, <1>6, <1>7, Together
<1>9. PICK pqr : pqr = pq \o r
  OBVIOUS
<1>10. CausesIn(pq) \cap CausesIn(r) = {}
  BY <1>5, <1>8
<1>11. pqr \in Seq(Findings) /\ WellMade(pqr) /\ CausesIn(pqr) = CausesIn(pq) \cup CausesIn(r)
  BY <1>5, <1>8, <1>9, <1>10, Together
<1>12. PICK all : all = pqr \o s
  OBVIOUS
<1>13. CausesIn(pqr) \cap CausesIn(s) = {}
  BY <1>5, <1>8, <1>11
<1>14. all \in Seq(Findings) /\ WellMade(all) /\ CausesIn(all) = CausesIn(pqr) \cup CausesIn(s)
  BY <1>5, <1>11, <1>12, <1>13, Together
<1>15. CausesIn(all) \subseteq {"tcp_retransmits", "guest_traffic_dropped", "guest_not_reading_nic", "guest_connects_failing"}
  BY <1>5, <1>8, <1>11, <1>14
<1> QED BY <1>2, <1>6, <1>9, <1>12, <1>14, <1>15

\* How surely each cause is found, from what the buckets give: 0 where it is not.
Graded(x, medium, high) == IF x >= high THEN 3 ELSE IF x >= medium THEN 2 ELSE 0
CPULevel ==
  IF WorstOf(VThreads) > 0 THEN Graded(WorstOf(VThreads), CpuMedium, SlowWakeup)
  ELSE IF Seen99("vm") >= CpuMedium THEN 2 ELSE 0
StorageLevel == Graded(WorstOf({"read", "write"}), SlowBlock, StorageHigh)
ExitLevel == Graded(WorstOf({"exit"}), ExitMedium, ExitHigh)
Says(list, cause, level) ==
  \/ level = 0 /\ list = <<>>
  \/ level # 0 /\ \E f \in Findings : f.cause = cause /\ Rank[f.conf] = level /\ list = <<f>>

LEMMA OneSays ==
  ASSUME NEW cause \in Causes, NEW conf \in Confs, NEW level, level = Rank[conf]
  PROVE  Says(<<One(cause, conf)>>, cause, level)
<1>1. One(cause, conf) \in Findings /\ One(cause, conf).cause = cause /\ One(cause, conf).conf = conf
  BY OneIs
<1>2. level # 0
  BY RankIs
<1> QED BY <1>1, <1>2 DEF Says

\* What the four programs measure.
LEMMA NamesOf ==
  /\ VThreads \in SUBSET Sources /\ VThreads # {} /\ {"read", "write"} \in SUBSET Sources /\ {"exit"} \in SUBSET Sources
  /\ "vm" \in Observed
  /\ "host_cpu_contention" \in Causes /\ "storage_latency" \in Causes /\ "kvm_exit_handling" \in Causes
  /\ "high" \in Confs /\ "medium" \in Confs
  /\ Rank["high"] = 3 /\ Rank["medium"] = 2
BY VerdictsAssumption, RankIs DEF Sources, VMTids, Observed, Causes, Confs

LEMMA CPUIs ==
  ASSUME VerdInv
  PROVE  Says(CPUContention, "host_cpu_contention", CPULevel)
<1>1. PICK own, vm : own = WorstOf(VThreads) /\ vm = Seen99("vm")
  OBVIOUS
<1>2. own \in Nat
  BY <1>1, NamesOf, WorstIs
<1>3. vm \in Nat
  BY <1>1, NamesOf, SeenIs
<1>4. CPUContention = Maybe((IF own > 0 THEN own ELSE vm) >= 8, "host_cpu_contention",
                            IF own > 0 THEN AsHigh(own, 80) ELSE "medium")
  <2>1. VMThreads = Kept(hist, "vm")
    BY DEF VMThreads, Kept, OfAll
  <2> QED BY <1>1, <2>1 DEF CPUContention, Seen99, CpuMedium, SlowWakeup
<1>5. CPULevel = IF own > 0 THEN Graded(own, 8, 80) ELSE IF vm >= 8 THEN 2 ELSE 0
  BY <1>1 DEF CPULevel, CpuMedium, SlowWakeup
<1>6. /\ Says(<<One("host_cpu_contention", "high")>>, "host_cpu_contention", 3)
      /\ Says(<<One("host_cpu_contention", "medium")>>, "host_cpu_contention", 2)
      /\ Says(<<>>, "host_cpu_contention", 0)
  <2>1. Says(<<>>, "host_cpu_contention", 0)
    BY DEF Says
  <2> QED BY <2>1, NamesOf, OneSays
<1>7. CASE own > 0
  <2>1. CASE own >= 80
    <3>1. CPUContention = <<One("host_cpu_contention", "high")>> /\ CPULevel = 3
      BY <1>2, <1>4, <1>5, <1>7, <2>1 DEF Maybe, AsHigh, One, Graded
    <3> QED BY <1>6, <3>1
  <2>2. CASE own < 80 /\ own >= 8
    <3>1. CPUContention = <<One("host_cpu_contention", "medium")>> /\ CPULevel = 2
      BY <1>2, <1>4, <1>5, <1>7, <2>2 DEF Maybe, AsHigh, One, Graded
    <3> QED BY <1>6, <3>1
  <2>3. CASE own < 8
    <3>1. CPUContention = <<>> /\ CPULevel = 0
      BY <1>2, <1>4, <1>5, <1>7, <2>3 DEF Maybe, Graded
    <3> QED BY <1>6, <3>1
  <2> QED BY <1>2, <2>1, <2>2, <2>3
<1>8. CASE ~(own > 0)
  <2>1. CASE vm >= 8
    <3>1. CPUContention = <<One("host_cpu_contention", "medium")>> /\ CPULevel = 2
      BY <1>4, <1>5, <1>8, <2>1 DEF Maybe, One
    <3> QED BY <1>6, <3>1
  <2>2. CASE ~(vm >= 8)
    <3>1. CPUContention = <<>> /\ CPULevel = 0
      BY <1>4, <1>5, <1>8, <2>2 DEF Maybe
    <3> QED BY <1>6, <3>1
  <2> QED BY <2>1, <2>2
<1> QED BY <1>7, <1>8

\* Whose percentile is not 0 has been measured.
LEMMA SlowIsMeasured ==
  ASSUME VerdInv, NEW S \in SUBSET Sources, S # {}, NEW prog, \A s \in S : ProgramOf(s) = prog
  PROVE  WorstOf(S) > 0 => prog \in seen
<1>1. PICK w, e : w = WorstOf(S) /\ e = WorstExact(S)
  OBVIOUS
<1>2. w > 0 <=> \E s \in S : Often(s) > 0
  BY <1>1, WorstIs
<1>3. \A s \in S : s \in Observed
  BY TidsAre
<1> QED BY <1>1, <1>2, <1>3 DEF VerdInv, Measuring

LEMMA StorageIs ==
  ASSUME VerdInv
  PROVE  Says(Storage, "storage_latency", StorageLevel)
<1>1. PICK p : p = WorstOf({"read", "write"})
  OBVIOUS
<1>2. p \in Nat
  BY <1>1, NamesOf, WorstIs
<1>3. p > 0 => "block" \in seen
  <2>1. \A s \in {"read", "write"} : ProgramOf(s) = "block"
    BY DEF ProgramOf
  <2>2. {"read", "write"} # {}
    OBVIOUS
  <2> QED BY <1>1, <2>1, <2>2, NamesOf, SlowIsMeasured
<1>4. Storage = Maybe("block" \in seen /\ p >= 40, "storage_latency", AsHigh(p, 200))
  BY <1>1 DEF Storage, Slower, Measured, SlowBlock, StorageHigh
<1>5. StorageLevel = Graded(p, 40, 200)
  BY <1>1 DEF StorageLevel, SlowBlock, StorageHigh
<1>6. /\ Says(<<One("storage_latency", "high")>>, "storage_latency", 3)
      /\ Says(<<One("storage_latency", "medium")>>, "storage_latency", 2)
      /\ Says(<<>>, "storage_latency", 0)
  <2>1. Says(<<>>, "storage_latency", 0)
    BY DEF Says
  <2> QED BY <2>1, NamesOf, OneSays
<1>7. CASE p >= 200
  <2>1. Storage = <<One("storage_latency", "high")>> /\ StorageLevel = 3
    BY <1>2, <1>3, <1>4, <1>5, <1>7 DEF Maybe, AsHigh, One, Graded
  <2> QED BY <1>6, <2>1
<1>8. CASE p < 200 /\ p >= 40
  <2>1. Storage = <<One("storage_latency", "medium")>> /\ StorageLevel = 2
    BY <1>2, <1>3, <1>4, <1>5, <1>8 DEF Maybe, AsHigh, One, Graded
  <2> QED BY <1>6, <2>1
<1>9. CASE p < 40
  <2>1. Storage = <<>> /\ StorageLevel = 0
    BY <1>2, <1>4, <1>5, <1>9 DEF Maybe, Graded
  <2> QED BY <1>6, <2>1
<1> QED BY <1>2, <1>7, <1>8, <1>9

LEMMA ExitIs ==
  ASSUME VerdInv
  PROVE  Says(ExitHandling, "kvm_exit_handling", ExitLevel)
<1>1. PICK p : p = WorstOf({"exit"})
  OBVIOUS
<1>2. p \in Nat
  BY <1>1, NamesOf, WorstIs
<1>3. p > 0 => "kvm" \in seen
  <2>1. \A s \in {"exit"} : ProgramOf(s) = "kvm"
    BY DEF ProgramOf
  <2> QED BY <1>1, <2>1, NamesOf, SlowIsMeasured
<1>10. P99("exit") = p
  <2>1. PICK x : x = P99("exit")
    OBVIOUS
  <2>2. {P99(s) : s \in {"exit"}} = {x}
    BY <2>1
  <2>3. Max({x}) = x
    <3>1. x \in Nat
      <4>1. "exit" \in Observed /\ "exit" # "vm"
        BY NamesOf, TidsAre
      <4> QED BY <2>1, <4>1, SeenIs DEF Seen99, Kept, P99
    <3> QED BY <3>1 DEF Max
  <2> QED BY <1>1, <2>1, <2>2, <2>3 DEF WorstOf
<1>4. ExitHandling = Maybe("kvm" \in seen /\ p >= 4, "kvm_exit_handling", AsHigh(p, 40))
  BY <1>10 DEF ExitHandling, Measured, ExitMedium, ExitHigh
<1>5. ExitLevel = Graded(p, 4, 40)
  BY <1>1 DEF ExitLevel, ExitMedium, ExitHigh
<1>6. /\ Says(<<One("kvm_exit_handling", "high")>>, "kvm_exit_handling", 3)
      /\ Says(<<One("kvm_exit_handling", "medium")>>, "kvm_exit_handling", 2)
      /\ Says(<<>>, "kvm_exit_handling", 0)
  <2>1. Says(<<>>, "kvm_exit_handling", 0)
    BY DEF Says
  <2> QED BY <2>1, NamesOf, OneSays
<1>7. CASE p >= 40
  <2>1. ExitHandling = <<One("kvm_exit_handling", "high")>> /\ ExitLevel = 3
    BY <1>2, <1>3, <1>4, <1>5, <1>7 DEF Maybe, AsHigh, One, Graded
  <2> QED BY <1>6, <2>1
<1>8. CASE p < 40 /\ p >= 4
  <2>1. ExitHandling = <<One("kvm_exit_handling", "medium")>> /\ ExitLevel = 2
    BY <1>2, <1>3, <1>4, <1>5, <1>8 DEF Maybe, AsHigh, One, Graded
  <2> QED BY <1>6, <2>1
<1>9. CASE p < 4
  <2>1. ExitHandling = <<>> /\ ExitLevel = 0
    BY <1>2, <1>4, <1>5, <1>9 DEF Maybe, Graded
  <2> QED BY <1>6, <2>1
<1> QED BY <1>2, <1>7, <1>8, <1>9

LEMMA SaysIs ==
  ASSUME NEW list, NEW cause, cause # "noisy_neighbour", NEW level, Says(list, cause, level)
  PROVE  /\ WellMade(list) /\ list \in Seq(Findings) /\ CausesIn(list) \subseteq {cause}
         /\ level = 0 => ListOf(list) = {}
         /\ level # 0 => \E f \in Findings : f.cause = cause /\ Rank[f.conf] = level /\ ListOf(list) = {f}
<1>1. IsPiece(list, cause)
  BY DEF Says, IsPiece
<1>2. level = 0 => ListOf(list) = {}
  BY DEF Says, ListOf
<1>3. ASSUME level # 0 PROVE \E f \in Findings : f.cause = cause /\ Rank[f.conf] = level /\ ListOf(list) = {f}
  <2>1. PICK f \in Findings : f.cause = cause /\ Rank[f.conf] = level /\ list = <<f>>
    BY <1>3 DEF Says
  <2>2. DOMAIN <<f>> = {1} /\ <<f>>[1] = f
    OBVIOUS
  <2> QED BY <2>1, <2>2 DEF ListOf
<1> QED BY <1>1, <1>2, <1>3, PieceIs

\* The list before it is ranked: no cause twice, and of the three causes that stand for a latency what their pieces say.
LEMMA FoundIs ==
  ASSUME VerdInv, NEW cpu, cpu = CPUContention, NEW pre, pre = Preemption, NEW sto, sto = Storage,
         NEW ext, ext = ExitHandling, NEW tra, tra = Traffic
  PROVE  /\ Found = (((cpu \o pre) \o sto) \o ext) \o tra /\ WellMade(Found)
         /\ ListOf(Found) = ListOf(cpu) \cup ListOf(pre) \cup ListOf(sto) \cup ListOf(ext) \cup ListOf(tra)
         /\ CausesIn(cpu) \subseteq {"host_cpu_contention"} /\ CausesIn(pre) \subseteq {"cpu_preempted", "noisy_neighbour"}
         /\ CausesIn(sto) \subseteq {"storage_latency"} /\ CausesIn(ext) \subseteq {"kvm_exit_handling"}
         /\ CausesIn(tra) \subseteq {"tcp_retransmits", "guest_traffic_dropped", "guest_not_reading_nic", "guest_connects_failing"}
         /\ CausesIn(Found) = CausesIn(cpu) \cup CausesIn(pre) \cup CausesIn(sto) \cup CausesIn(ext) \cup CausesIn(tra)
<1>1. /\ WellMade(cpu) /\ cpu \in Seq(Findings) /\ CausesIn(cpu) \subseteq {"host_cpu_contention"}
  <2>1. PICK level : level = CPULevel
    OBVIOUS
  <2> QED BY <2>1, CPUIs, SaysIs
<1>2. /\ WellMade(sto) /\ sto \in Seq(Findings) /\ CausesIn(sto) \subseteq {"storage_latency"}
  <2>1. PICK level : level = StorageLevel
    OBVIOUS
  <2> QED BY <2>1, StorageIs, SaysIs
<1>3. /\ WellMade(ext) /\ ext \in Seq(Findings) /\ CausesIn(ext) \subseteq {"kvm_exit_handling"}
  <2>1. PICK level : level = ExitLevel
    OBVIOUS
  <2> QED BY <2>1, ExitIs, SaysIs
<1>4. /\ WellMade(pre) /\ pre \in Seq(Findings) /\ CausesIn(pre) \subseteq {"cpu_preempted", "noisy_neighbour"}
  BY PreemptionIs
<1>5. /\ WellMade(tra) /\ tra \in Seq(Findings)
      /\ CausesIn(tra) \subseteq {"tcp_retransmits", "guest_traffic_dropped", "guest_not_reading_nic", "guest_connects_failing"}
  BY TrafficIs
<1>6. PICK a : a = cpu \o pre
  OBVIOUS
<1>7. CausesIn(cpu) \cap CausesIn(pre) = {}
  BY <1>1, <1>4
<1>8. /\ a \in Seq(Findings) /\ WellMade(a) /\ CausesIn(a) = CausesIn(cpu) \cup CausesIn(pre)
      /\ ListOf(a) = ListOf(cpu) \cup ListOf(pre)
  BY <1>1, <1>4, <1>6, <1>7, Together
<1>9. PICK b : b = a \o sto
  OBVIOUS
<1>10. CausesIn(a) \cap CausesIn(sto) = {}
  BY <1>1, <1>2, <1>4, <1>8
<1>11. /\ b \in Seq(Findings) /\ WellMade(b) /\ CausesIn(b) = CausesIn(a) \cup CausesIn(sto)
       /\ ListOf(b) = ListOf(a) \cup ListOf(sto)
  BY <1>2, <1>8, <1>9, <1>10, Together
<1>12. PICK c : c = b \o ext
  OBVIOUS
<1>13. CausesIn(b) \cap CausesIn(ext) = {}
  BY <1>1, <1>2, <1>3, <1>4, <1>8, <1>11
<1>14. /\ c \in Seq(Findings) /\ WellMade(c) /\ CausesIn(c) = CausesIn(b) \cup CausesIn(ext)
       /\ ListOf(c) = ListOf(b) \cup ListOf(ext)
  BY <1>3, <1>11, <1>12, <1>13, Together
<1>15. PICK d : d = c \o tra
  OBVIOUS
<1>16. CausesIn(c) \cap CausesIn(tra) = {}
  BY <1>1, <1>2, <1>3, <1>4, <1>5, <1>8, <1>11, <1>14
<1>17. /\ d \in Seq(Findings) /\ WellMade(d) /\ CausesIn(d) = CausesIn(c) \cup CausesIn(tra)
       /\ ListOf(d) = ListOf(c) \cup ListOf(tra)
  BY <1>5, <1>14, <1>15, <1>16, Together
<1>18. Found = (((cpu \o pre) \o sto) \o ext) \o tra
  BY DEF Found
<1>19. Found = d
  BY <1>6, <1>9, <1>12, <1>15, <1>18
<1>20. ListOf(d) = ListOf(cpu) \cup ListOf(pre) \cup ListOf(sto) \cup ListOf(ext) \cup ListOf(tra)
  BY <1>8, <1>11, <1>14, <1>17
<1>21. CausesIn(d) = CausesIn(cpu) \cup CausesIn(pre) \cup CausesIn(sto) \cup CausesIn(ext) \cup CausesIn(tra)
  BY <1>8, <1>11, <1>14, <1>17
<1> QED BY <1>1, <1>2, <1>3, <1>4, <1>5, <1>17, <1>18, <1>19, <1>20, <1>21

\* A cause in the list has the confidence of its finding.
LEMMA ConfIs ==
  ASSUME NEW list \in Seq(Findings), EachOnce(list)
  PROVE  /\ \A f \in ListOf(list) : ConfIn(list, f.cause) = f.conf
         /\ \A cause : (\A f \in ListOf(list) : f.cause # cause) => ConfIn(list, cause) = "none"
<1>1. CausesIn(list) = {f.cause : f \in ListOf(list)}
  BY ListIs
<1>2. ASSUME NEW f \in ListOf(list) PROVE ConfIn(list, f.cause) = f.conf
  <2>1. PICK i \in DOMAIN list : list[i] = f
    BY DEF ListOf
  <2>2. PICK k : k = CHOOSE j \in DOMAIN list : list[j].cause = f.cause
    OBVIOUS
  <2>3. k \in DOMAIN list /\ list[k].cause = f.cause
    BY <2>1, <2>2
  <2>4. k = i
    BY <2>1, <2>3 DEF EachOnce
  <2>5. f.cause \in CausesIn(list)
    BY <1>1
  <2>6. ConfIn(list, f.cause) = list[k].conf
    BY <2>2, <2>5 DEF ConfIn
  <2> QED BY <2>1, <2>4, <2>6
<1>3. ASSUME NEW cause, \A f \in ListOf(list) : f.cause # cause PROVE ConfIn(list, cause) = "none"
  <2>1. cause \notin CausesIn(list)
    BY <1>1, <1>3
  <2> QED BY <2>1 DEF ConfIn
<1> QED BY <1>2, <1>3

\* A list that holds of a cause exactly what its piece says gives it the level of the piece.
LEMMA LevelOf ==
  ASSUME NEW list \in Seq(Findings), EachOnce(list), NEW cause, NEW level, NEW piece,
         cause # "noisy_neighbour", Says(piece, cause, level),
         ListOf(piece) \subseteq ListOf(list), \A f \in ListOf(list) : f.cause = cause => f \in ListOf(piece)
  PROVE  Rank[ConfIn(list, cause)] = level
<1>1. CASE level = 0
  <2>1. ListOf(piece) = {}
    BY <1>1, SaysIs
  <2>2. ConfIn(list, cause) = "none"
    BY <2>1, ConfIs
  <2> QED BY <1>1, <2>2, RankIs
<1>2. CASE level # 0
  <2>1. PICK f \in Findings : f.cause = cause /\ Rank[f.conf] = level /\ piece = <<f>>
    BY <1>2 DEF Says
  <2>4. DOMAIN <<f>> = {1} /\ <<f>>[1] = f
    OBVIOUS
  <2>2. f \in ListOf(list)
    BY <2>1, <2>4 DEF ListOf
  <2>3. ConfIn(list, f.cause) = f.conf
    BY <2>2, ConfIs
  <2> QED BY <2>1, <2>3
<1> QED BY <1>1, <1>2

Levels(list) ==
  /\ Rank[ConfIn(list, "host_cpu_contention")] = CPULevel
  /\ Rank[ConfIn(list, "storage_latency")] = StorageLevel
  /\ Rank[ConfIn(list, "kvm_exit_handling")] = ExitLevel

LEMMA FoundLevels ==
  ASSUME VerdInv, NEW list \in Seq(Findings), EachOnce(list), ListOf(list) = ListOf(Found)
  PROVE  Levels(list)
<1>1. PICK cpu, pre, sto, ext, tra : /\ cpu = CPUContention /\ pre = Preemption /\ sto = Storage
                                     /\ ext = ExitHandling /\ tra = Traffic
  OBVIOUS
<1>2. /\ ListOf(list) = ListOf(cpu) \cup ListOf(pre) \cup ListOf(sto) \cup ListOf(ext) \cup ListOf(tra)
      /\ CausesIn(cpu) \subseteq {"host_cpu_contention"} /\ CausesIn(pre) \subseteq {"cpu_preempted", "noisy_neighbour"}
      /\ CausesIn(sto) \subseteq {"storage_latency"} /\ CausesIn(ext) \subseteq {"kvm_exit_handling"}
      /\ CausesIn(tra) \subseteq {"tcp_retransmits", "guest_traffic_dropped", "guest_not_reading_nic", "guest_connects_failing"}
  BY <1>1, FoundIs
<1>3. PICK x, y, z : x = CPULevel /\ y = StorageLevel /\ z = ExitLevel
  OBVIOUS
<1>4. Says(cpu, "host_cpu_contention", x) /\ Says(sto, "storage_latency", y) /\ Says(ext, "kvm_exit_handling", z)
  BY <1>1, <1>3, CPUIs, StorageIs, ExitIs
<1>5. /\ cpu \in Seq(Findings) /\ pre \in Seq(Findings) /\ sto \in Seq(Findings) /\ ext \in Seq(Findings)
      /\ tra \in Seq(Findings)
  <2>1. cpu \in Seq(Findings) /\ sto \in Seq(Findings) /\ ext \in Seq(Findings)
    BY <1>4, SaysIs
  <2> QED BY <1>1, <2>1, PreemptionIs, TrafficIs
<1>6. /\ \A f \in ListOf(cpu) : f.cause \in CausesIn(cpu)
      /\ \A f \in ListOf(pre) : f.cause \in CausesIn(pre)
      /\ \A f \in ListOf(sto) : f.cause \in CausesIn(sto)
      /\ \A f \in ListOf(ext) : f.cause \in CausesIn(ext)
      /\ \A f \in ListOf(tra) : f.cause \in CausesIn(tra)
  <2>1. ASSUME NEW l \in Seq(Findings) PROVE \A f \in ListOf(l) : f.cause \in CausesIn(l)
    BY DEF ListOf, CausesIn
  <2> QED BY <1>5, <2>1
<1>7. \A f \in ListOf(cpu) : f.cause = "host_cpu_contention"
  BY <1>2, <1>6
<1>8. \A f \in ListOf(pre) : f.cause \in {"cpu_preempted", "noisy_neighbour"}
  BY <1>2, <1>6
<1>9. \A f \in ListOf(sto) : f.cause = "storage_latency"
  BY <1>2, <1>6
<1>10. \A f \in ListOf(ext) : f.cause = "kvm_exit_handling"
  BY <1>2, <1>6
<1>11. \A f \in ListOf(tra) : f.cause \in {"tcp_retransmits", "guest_traffic_dropped", "guest_not_reading_nic", "guest_connects_failing"}
  BY <1>2, <1>6
<1>12. /\ ListOf(cpu) \subseteq ListOf(list) /\ ListOf(sto) \subseteq ListOf(list) /\ ListOf(ext) \subseteq ListOf(list)
  BY <1>2
<1>13. \A f \in ListOf(list) : f.cause = "host_cpu_contention" => f \in ListOf(cpu)
  BY <1>2, <1>8, <1>9, <1>10, <1>11
<1>14. \A f \in ListOf(list) : f.cause = "storage_latency" => f \in ListOf(sto)
  BY <1>2, <1>7, <1>8, <1>10, <1>11
<1>15. \A f \in ListOf(list) : f.cause = "kvm_exit_handling" => f \in ListOf(ext)
  BY <1>2, <1>7, <1>8, <1>9, <1>11
<1>16. Rank[ConfIn(list, "host_cpu_contention")] = x
  BY <1>4, <1>12, <1>13, LevelOf
<1>17. Rank[ConfIn(list, "storage_latency")] = y
  BY <1>4, <1>12, <1>14, LevelOf
<1>18. Rank[ConfIn(list, "kvm_exit_handling")] = z
  BY <1>4, <1>12, <1>15, LevelOf
<1> QED BY <1>3, <1>16, <1>17, <1>18 DEF Levels

\* With nothing ever measured nothing is slow.
LEMMA UnmeasuredIsNotSlow ==
  ASSUME VerdInv, seen = {}
  PROVE  CPULevel = 0 /\ StorageLevel = 0 /\ ExitLevel = 0
<1>1. \A o \in Observed : ~(Often(o) > 0)
  BY DEF VerdInv, Measuring
<1>2. ASSUME NEW S \in SUBSET Sources, S # {} PROVE WorstOf(S) \in Nat /\ ~(WorstOf(S) > 0)
  <2>1. PICK w, e : w = WorstOf(S) /\ e = WorstExact(S)
    OBVIOUS
  <2>2. w \in Nat /\ (w > 0 <=> \E s \in S : Often(s) > 0)
    BY <1>2, <2>1, WorstIs
  <2>3. \A s \in S : ~(Often(s) > 0)
    BY <1>1, TidsAre
  <2> QED BY <2>1, <2>2, <2>3
<1>3. PICK a, b, c : a = WorstOf(VThreads) /\ b = WorstOf({"read", "write"}) /\ c = WorstOf({"exit"})
  OBVIOUS
<1>4. {"read", "write"} # {} /\ {"exit"} # {}
  OBVIOUS
<1>5. a = 0 /\ b = 0 /\ c = 0
  <2>1. a \in Nat /\ ~(a > 0)
    BY <1>2, <1>3, NamesOf
  <2>2. b \in Nat /\ ~(b > 0)
    BY <1>2, <1>3, <1>4, NamesOf
  <2>3. c \in Nat /\ ~(c > 0)
    BY <1>2, <1>3, <1>4, NamesOf
  <2> QED BY <2>1, <2>2, <2>3
<1>6. PICK v : v = Seen99("vm")
  OBVIOUS
<1>7. v = 0
  <2>1. v \in Nat /\ (v > 0 <=> Often("vm") > 0)
    BY <1>6, NamesOf, SeenIs
  <2> QED BY <1>1, <2>1, NamesOf
<1>8. CPULevel = 0
  BY <1>3, <1>5, <1>6, <1>7 DEF CPULevel, CpuMedium
<1>9. StorageLevel = 0
  BY <1>3, <1>5 DEF StorageLevel, Graded, SlowBlock, StorageHigh
<1>10. ExitLevel = 0
  BY <1>3, <1>5 DEF ExitLevel, Graded, ExitMedium, ExitHigh
<1> QED BY <1>8, <1>9, <1>10

\* The verdict: in order, no cause twice, and of each latency what the buckets make of it.
LEMMA DiagnoseIs ==
  ASSUME VerdInv, NEW d, d = diagnose
  PROVE  /\ d \in Seq(Findings) /\ EachOnce(d) /\ CulpritFollows(d) /\ Levels(d) /\ QuietIsNotDetached(d)
         /\ \A k, l \in DOMAIN d : k < l => Rank[d[k].conf] >= Rank[d[l].conf]
<1>1. d = IF seen = {} THEN <<One("not_measured", "high")>>
          ELSE IF Found = <<>> THEN <<One("no_host_cause", "low")>> ELSE Ranked(Found)
  BY DEF diagnose, Measured, Found, One
<1>2. WellMade(Found) /\ "not_measured" \notin CausesIn(Found)
  <2>1. PICK cpu, pre, sto, ext, tra : /\ cpu = CPUContention /\ pre = Preemption /\ sto = Storage
                                       /\ ext = ExitHandling /\ tra = Traffic
    OBVIOUS
  <2>2. /\ WellMade(Found)
        /\ CausesIn(Found) = CausesIn(cpu) \cup CausesIn(pre) \cup CausesIn(sto) \cup CausesIn(ext) \cup CausesIn(tra)
        /\ CausesIn(cpu) \subseteq {"host_cpu_contention"} /\ CausesIn(pre) \subseteq {"cpu_preempted", "noisy_neighbour"}
        /\ CausesIn(sto) \subseteq {"storage_latency"} /\ CausesIn(ext) \subseteq {"kvm_exit_handling"}
        /\ CausesIn(tra) \subseteq {"tcp_retransmits", "guest_traffic_dropped", "guest_not_reading_nic", "guest_connects_failing"}
    BY <2>1, FoundIs
  <2> QED BY <2>2
<1>3. ASSUME NEW f \in Findings, d = <<f>>, f.cause # "noisy_neighbour", f.cause # "host_cpu_contention",
             f.cause # "storage_latency", f.cause # "kvm_exit_handling",
             CPULevel = 0, StorageLevel = 0, ExitLevel = 0, seen # {} => f.cause # "not_measured"
      PROVE  /\ d \in Seq(Findings) /\ EachOnce(d) /\ CulpritFollows(d) /\ Levels(d) /\ QuietIsNotDetached(d)
             /\ \A k, l \in DOMAIN d : k < l => Rank[d[k].conf] >= Rank[d[l].conf]
  <2>1. d \in Seq(Findings) /\ DOMAIN d = {1} /\ d[1] = f /\ ListOf(d) = {f} /\ CausesIn(d) = {f.cause}
    <3>1. d \in Seq(Findings) /\ DOMAIN d = {1} /\ d[1] = f
      BY <1>3
    <3> QED BY <3>1 DEF ListOf, CausesIn
  <2>2. EachOnce(d)
    BY <2>1 DEF EachOnce
  <2>3. CulpritFollows(d)
    BY <1>3, <2>1 DEF CulpritFollows
  <2>4. Levels(d)
    <3>1. ConfIn(d, "host_cpu_contention") = "none"
      BY <1>3, <2>1, <2>2, ConfIs
    <3>2. ConfIn(d, "storage_latency") = "none"
      BY <1>3, <2>1, <2>2, ConfIs
    <3>3. ConfIn(d, "kvm_exit_handling") = "none"
      BY <1>3, <2>1, <2>2, ConfIs
    <3> QED BY <1>3, <3>1, <3>2, <3>3, RankIs DEF Levels
  <2>5. QuietIsNotDetached(d)
    BY <1>3, <2>1 DEF QuietIsNotDetached
  <2>6. \A k, l \in DOMAIN d : k < l => Rank[d[k].conf] >= Rank[d[l].conf]
    BY <2>1
  <2> QED BY <2>1, <2>2, <2>3, <2>4, <2>5, <2>6
<1>4. /\ "not_measured" \in Causes /\ "no_host_cause" \in Causes /\ "high" \in Confs /\ "low" \in Confs
  BY DEF Causes, Confs
<1>5. CASE seen = {}
  <2>1. PICK f : f = One("not_measured", "high")
    OBVIOUS
  <2>2. f \in Findings /\ f.cause = "not_measured"
    BY <1>4, <2>1, OneIs
  <2>3. d = <<f>>
    BY <1>1, <1>5, <2>1
  <2>4. CPULevel = 0 /\ StorageLevel = 0 /\ ExitLevel = 0
    BY <1>5, UnmeasuredIsNotSlow
  <2> QED BY <1>3, <1>5, <2>2, <2>3, <2>4
<1>6. CASE seen # {} /\ Found = <<>>
  <2>1. PICK f : f = One("no_host_cause", "low")
    OBVIOUS
  <2>2. f \in Findings /\ f.cause = "no_host_cause"
    BY <1>4, <2>1, OneIs
  <2>3. d = <<f>>
    BY <1>1, <1>6, <2>1
  <2>4. PICK e : e = <<>>
    OBVIOUS
  <2>5. e \in Seq(Findings) /\ EachOnce(e) /\ ListOf(e) = ListOf(Found) /\ ListOf(e) = {}
    BY <1>6, <2>4 DEF EachOnce, ListOf
  <2>6. Levels(e)
    BY <2>5, FoundLevels
  <2>7. Rank[ConfIn(e, "host_cpu_contention")] = 0 /\ Rank[ConfIn(e, "storage_latency")] = 0
        /\ Rank[ConfIn(e, "kvm_exit_handling")] = 0
    <3>1. \A cause : ConfIn(e, cause) = "none"
      BY <2>5, ConfIs
    <3> QED BY <3>1, RankIs
  <2>8. CPULevel = 0 /\ StorageLevel = 0 /\ ExitLevel = 0
    BY <2>6, <2>7 DEF Levels
  <2> QED BY <1>3, <2>2, <2>3, <2>8
<1>7. CASE seen # {} /\ Found # <<>>
  <2>1. PICK list : list = Found
    OBVIOUS
  <2>2. WellMade(list) /\ d = Ranked(list) /\ list \in Seq(Findings)
    BY <1>1, <1>2, <1>7, <2>1 DEF WellMade
  <2>3. /\ ListOf(d) = ListOf(list) /\ d \in Seq(Findings) /\ EachOnce(d)
        /\ \A k, l \in DOMAIN d : k < l => Rank[d[k].conf] >= Rank[d[l].conf]
        /\ CulpritFollows(d)
    BY <2>2, RankedWell
  <2>4. Levels(d)
    BY <2>1, <2>3, FoundLevels
  <2>5. CausesIn(d) = CausesIn(list)
    <3>1. CausesIn(d) = {f.cause : f \in ListOf(d)} /\ CausesIn(list) = {f.cause : f \in ListOf(list)}
      BY <2>2, <2>3, ListIs
    <3> QED BY <2>3, <3>1
  <2>6. QuietIsNotDetached(d)
    BY <1>2, <2>1, <2>5 DEF QuietIsNotDetached
  <2> QED BY <2>3, <2>4, <2>6
<1> QED BY <1>5, <1>6, <1>7

LEMMA GradedFairly ==
  ASSUME NEW w \in Nat, NEW e \in Nat, e <= w, w <= 2 * e \/ w <= 2, NEW m \in Nat, m > 2, NEW h \in Nat, h >= m
  PROVE  Graded(e, m, h) <= Graded(w, m, h) /\ Graded(w, m, h) <= Graded(2 * e, m, h)
BY DEF Graded

LEMMA LeastOfTwo == \A n \in Nat : Min({2, n}) = IF n < 2 THEN n ELSE 2
<1> SUFFICES ASSUME NEW n \in Nat PROVE Min({2, n}) = IF n < 2 THEN n ELSE 2
  OBVIOUS
<1>1. {2, n} \in SUBSET Nat /\ {2, n} # {}
  OBVIOUS
<1>2. Min({2, n}) \in {2, n} /\ \A j \in {2, n} : Min({2, n}) <= j
  BY <1>1, Smallest
<1> QED BY <1>2

\* The claims, their grades and their exact percentiles.
LEMMA ClaimsAre ==
  ASSUME NEW c \in Claims
  PROVE  /\ Exact(c) = WorstExact(c.of) /\ \A x : Level(c, x) = Graded(x, c.medium, c.high)
         /\ \/ c.cause = "host_cpu_contention" /\ c.of = VThreads /\ c.medium = 8 /\ c.high = 80
            \/ c.cause = "storage_latency" /\ c.of = {"read", "write"} /\ c.medium = 40 /\ c.high = 200
            \/ c.cause = "kvm_exit_handling" /\ c.of = {"exit"} /\ c.medium = 4 /\ c.high = 40
<1>1. Exact(c) = WorstExact(c.of)
  BY DEF Exact, WorstExact
<1>2. \A x : Level(c, x) = Graded(x, c.medium, c.high)
  BY DEF Level, Graded
<1>3. \/ c = [cause |-> "host_cpu_contention", of |-> VThreads, medium |-> 8, high |-> 80]
      \/ c = [cause |-> "storage_latency", of |-> {"read", "write"}, medium |-> 40, high |-> 200]
      \/ c = [cause |-> "kvm_exit_handling", of |-> {"exit"}, medium |-> 4, high |-> 40]
  BY DEF Claims, CpuMedium, SlowWakeup, SlowBlock, StorageHigh, ExitMedium, ExitHigh
<1>4. \/ c.cause = "host_cpu_contention" /\ c.of = VThreads /\ c.medium = 8 /\ c.high = 80
      \/ c.cause = "storage_latency" /\ c.of = {"read", "write"} /\ c.medium = 40 /\ c.high = 200
      \/ c.cause = "kvm_exit_handling" /\ c.of = {"exit"} /\ c.medium = 4 /\ c.high = 40
  BY <1>3
<1> QED BY <1>1, <1>2, <1>4

\* Of each claim, the rank of what is said lies between the grade of the exact percentile and that of its double.
Between(d, c) ==
  LET byVCPU == c.cause # "host_cpu_contention" \/ \E t \in VThreads : Often(t) > 0
      exact == IF byVCPU THEN Exact(c) ELSE ExactP99("vm")
  IN  /\ Rank[ConfIn(d, c.cause)] >= Level(c, Exact(c))
      /\ Rank[ConfIn(d, c.cause)] <= IF byVCPU THEN Level(c, 2 * exact) ELSE Min({2, Level(c, 2 * exact)})

LEMMA ClaimIsFair ==
  ASSUME VerdInv, NEW d, Levels(d), NEW c \in Claims
  PROVE  Between(d, c)
<1>1. PICK w, e, r : w = WorstOf(c.of) /\ e = WorstExact(c.of) /\ r = Rank[ConfIn(d, c.cause)]
  OBVIOUS
<1>2. PICK S, m, h : S = c.of /\ m = c.medium /\ h = c.high
  OBVIOUS
<1>3. S \in SUBSET Sources /\ S # {} /\ m \in Nat /\ h \in Nat /\ m > 2 /\ h >= m
  <2>1. {"read", "write"} # {} /\ {"exit"} # {}
    OBVIOUS
  <2> QED BY <1>2, <2>1, ClaimsAre, NamesOf
<1>4. /\ w \in Nat /\ e \in Nat /\ e <= w /\ (w <= 2 * e \/ w <= 2)
      /\ w > 0 <=> \E s \in S : Often(s) > 0
  BY <1>1, <1>2, <1>3, WorstIs
<1>5. Graded(e, m, h) <= Graded(w, m, h) /\ Graded(w, m, h) <= Graded(2 * e, m, h)
  BY <1>3, <1>4, GradedFairly
<1>6. Exact(c) = e /\ \A x : Level(c, x) = Graded(x, m, h)
  BY <1>1, <1>2, ClaimsAre
<1>7. CASE c.cause # "host_cpu_contention"
  <2>1. r = Graded(w, m, h)
    <3>1. CASE c.cause = "storage_latency" /\ c.of = {"read", "write"} /\ c.medium = 40 /\ c.high = 200
      <4>1. r = StorageLevel
        BY <1>1, <3>1 DEF Levels
      <4>2. StorageLevel = Graded(w, 40, 200)
        BY <1>1, <3>1 DEF StorageLevel, SlowBlock, StorageHigh
      <4> QED BY <1>2, <3>1, <4>1, <4>2
    <3>2. CASE c.cause = "kvm_exit_handling" /\ c.of = {"exit"} /\ c.medium = 4 /\ c.high = 40
      <4>1. r = ExitLevel
        BY <1>1, <3>2 DEF Levels
      <4>2. ExitLevel = Graded(w, 4, 40)
        BY <1>1, <3>2 DEF ExitLevel, ExitMedium, ExitHigh
      <4> QED BY <1>2, <3>2, <4>1, <4>2
    <3> QED BY <1>7, <3>1, <3>2, ClaimsAre
  <2>2. r >= Level(c, e) /\ r <= Level(c, 2 * e)
    <3>1. PICK a, b, g : a = Graded(e, m, h) /\ b = Graded(w, m, h) /\ g = Graded(2 * e, m, h)
      OBVIOUS
    <3>2. a \in Nat /\ b \in Nat /\ g \in Nat
      BY <3>1 DEF Graded
    <3> QED BY <1>5, <1>6, <2>1, <3>1, <3>2
  <2> QED BY <1>1, <1>6, <1>7, <2>2 DEF Between
<1>8. CASE c.cause = "host_cpu_contention"
  <2>1. c.of = VThreads /\ m = 8 /\ h = 80 /\ r = CPULevel
    <3>1. c.of = VThreads /\ c.medium = 8 /\ c.high = 80
      BY <1>8, ClaimsAre
    <3>2. r = CPULevel
      BY <1>1, <1>8 DEF Levels
    <3> QED BY <1>2, <3>1, <3>2
  <2>2. CASE w > 0
    <3>1. r = Graded(w, 8, 80)
      BY <1>1, <2>1, <2>2 DEF CPULevel, CpuMedium, SlowWakeup
    <3>2. \E t \in VThreads : Often(t) > 0
      BY <1>2, <1>4, <2>1, <2>2
    <3>3. r >= Level(c, e) /\ r <= Level(c, 2 * e)
      <4>1. PICK a, b, g : a = Graded(e, m, h) /\ b = Graded(w, m, h) /\ g = Graded(2 * e, m, h)
        OBVIOUS
      <4>2. a \in Nat /\ b \in Nat /\ g \in Nat
        BY <4>1 DEF Graded
      <4> QED BY <1>5, <1>6, <2>1, <3>1, <4>1, <4>2
    <3> QED BY <1>1, <1>6, <3>2, <3>3 DEF Between
  <2>3. CASE ~(w > 0)
    <3>1. ~(\E t \in VThreads : Often(t) > 0)
      BY <1>2, <1>4, <2>1, <2>3
    <3>2. PICK v, x : v = Seen99("vm") /\ x = ExactP99("vm")
      OBVIOUS
    <3>3. v \in Nat /\ x \in Nat /\ x <= v /\ (v <= 2 * x \/ v <= 2)
      BY <3>2, NamesOf, SeenIs
    <3>4. r = IF v >= 8 THEN 2 ELSE 0
      BY <1>1, <2>1, <2>3, <3>2 DEF CPULevel, CpuMedium
    <3>5. e = 0 /\ Level(c, e) = 0
      BY <1>4, <1>6, <2>1, <2>3 DEF Graded
    <3>6. PICK g : g = Level(c, 2 * x)
      OBVIOUS
    <3>7. g \in Nat /\ (v >= 8 => g >= 2)
      BY <1>6, <2>1, <3>3, <3>6 DEF Graded
    <3>8. r <= Min({2, g}) /\ r >= 0
      BY <3>4, <3>7, LeastOfTwo
    <3> QED BY <1>1, <1>6, <1>8, <3>1, <3>2, <3>5, <3>6, <3>8 DEF Between
  <2> QED BY <2>2, <2>3
<1> QED BY <1>7, <1>8

\* A verdict says what was slow, and no more than the log2 buckets make it: what it claims of a latency lies between
\* the exact 99th percentile and its double, for every history of wakeups, reads, writes and exits; its causes are
\* different and ranked, the neighbour follows the preemption it explains, and a quiet window is not a detached program.
THEOREM VerdictsAreTrue == VerdSpec => []VerdictIsTrue
<1>1. VerdInv => VerdictIsTrue
  <2> SUFFICES ASSUME VerdInv PROVE VerdictIsTrue
    OBVIOUS
  <2>1. PICK d : d = diagnose
    OBVIOUS
  <2>2. /\ d \in Seq(Findings) /\ EachOnce(d) /\ CulpritFollows(d) /\ Levels(d) /\ QuietIsNotDetached(d)
        /\ \A k, l \in DOMAIN d : k < l => Rank[d[k].conf] >= Rank[d[l].conf]
    BY <2>1, DiagnoseIs
  <2>3. VerdTypeOK(d)
    <3>1. \A i, j \in DOMAIN d : i < j => Rank[d[i].conf] >= Rank[d[j].conf] /\ d[i].cause # d[j].cause
      <4>1. \A i \in DOMAIN d : i \in Nat
        BY <2>2, ListIs
      <4>2. \A i, j \in DOMAIN d : i < j => i # j
        BY <4>1
      <4> QED BY <2>2, <4>2 DEF EachOnce
    <3>2. hist \in [Sources -> [Buckets -> Nat]] /\ lat \in [Observed -> [Latencies -> Nat]]
      BY DEF VerdInv, Kepts, Histograms, Rows
    <3> QED BY <3>1, <3>2 DEF VerdTypeOK, VerdInv, VMTypes
  <2>4. PICK exact : exact = [c \in Claims |-> Exact(c)]
    OBVIOUS
  <2>5. \A c \in Claims : exact[c] = Exact(c)
    BY <2>4
  <2>6. \A c \in Claims : Between(d, c)
    BY <2>2, ClaimIsFair
  <2>7. SlowIsFound(d, exact)
    BY <2>5, <2>6 DEF SlowIsFound, Between
  <2>8. NotMoreThanTwice(d, exact)
    BY <2>5, <2>6 DEF NotMoreThanTwice, Between
  <2> QED BY <2>1, <2>2, <2>3, <2>4, <2>7, <2>8 DEF VerdictIsTrue
<1> QED BY <1>1, VerdInvariant, PTL

-----------------------------------------------------------------------------
(* Advice.                                                                 *)

LEMMA TwoOf ==
  ASSUME NEW a, NEW b, NEW e, e = Append(<<a>>, b)
  PROVE  DOMAIN e = {1, 2} /\ e[1] = a /\ e[2] = b
<1>1. <<a>> \in Seq({a, b}) /\ Len(<<a>>) = 1 /\ <<a>>[1] = a /\ b \in {a, b}
  OBVIOUS
<1>2. PICK s \in Seq({a, b}) : s = <<a>>
  BY <1>1
<1>3. Append(s, b) \in Seq({a, b}) /\ Len(Append(s, b)) = Len(s) + 1
  BY <1>1, <1>2
<1>4. Append(s, b)[Len(s) + 1] = b /\ \A j \in 1..Len(s) : Append(s, b)[j] = s[j]
  BY <1>1, <1>2
<1> QED BY <1>1, <1>2, <1>3, <1>4

\* The causes of an advice.
LEMMA AdviceCauses ==
  /\ "overprovisioned" \in CausesIn(Advise) => HasData /\ Overprovisioned
  /\ "starved" \in CausesIn(Advise) => Starved
  /\ Starved => CausesIn(Advise) \cap {"overprovisioned", "nearly_idle", "no_change"} = {}
<1>1. PICK a, b, c, n, i, k : /\ a = One("starved", HowStarved) /\ b = One("overprovisioned", IdleConf)
                              /\ c = One("nearly_idle", IdleConf) /\ n = One("not_enough_data", "high")
                              /\ i = One("idle_unavailable", "high") /\ k = One("no_change", IdleConf)
  OBVIOUS
<1>2. /\ a.cause = "starved" /\ b.cause = "overprovisioned" /\ c.cause = "nearly_idle" /\ n.cause = "not_enough_data"
      /\ i.cause = "idle_unavailable" /\ k.cause = "no_change"
  BY <1>1 DEF One
<1>3. PICK s, o, l : /\ s = Maybe(Starved, "starved", HowStarved) /\ o = Maybe(Overprovisioned, "overprovisioned", IdleConf)
                     /\ l = Maybe(NearlyIdle, "nearly_idle", IdleConf)
  OBVIOUS
<1>4. /\ s = IF Starved THEN <<a>> ELSE <<>>
      /\ o = IF Overprovisioned THEN <<b>> ELSE <<>>
      /\ l = IF NearlyIdle THEN <<c>> ELSE <<>>
  BY <1>1, <1>3 DEF Maybe, One
<1>5. Starved => ~Overprovisioned /\ ~NearlyIdle
  BY DEF Overprovisioned, NearlyIdle, MayShrink
<1>6. Advise = IF ~HasData THEN <<n>>
               ELSE IF ~size.named THEN Append(s, i)
               ELSE IF s \o (o \o l) = <<>> THEN <<k>> ELSE s \o (o \o l)
  BY <1>1, <1>3 DEF Advise, One
<1>7. PICK R : R = {a, b, c, n, i, k}
  OBVIOUS
<1>8. s \in Seq(R) /\ o \in Seq(R) /\ l \in Seq(R)
  <2>1. a \in R /\ b \in R /\ c \in R
    BY <1>7
  <2>2. <<>> \in Seq(R) /\ <<a>> \in Seq(R) /\ <<b>> \in Seq(R) /\ <<c>> \in Seq(R)
    BY <2>1
  <2> QED BY <1>4, <2>2
<1>9. CASE Starved
  <2>1. s = <<a>> /\ o = <<>> /\ l = <<>>
    BY <1>4, <1>5, <1>9
  <2>2. s \o (o \o l) = <<a>>
    <3>1. \A m \in Seq(R) : m \o <<>> = m
      OBVIOUS
    <3> QED BY <1>8, <2>1, <3>1
  <2>5. PICK e : e = Append(s, i)
    OBVIOUS
  <2>6. DOMAIN e = {1, 2} /\ e[1] = a /\ e[2] = i
    BY <2>1, <2>5, TwoOf
  <2>3. Advise = <<n>> \/ Advise = e \/ Advise = <<a>>
    <3>2. <<a>> # <<>>
      OBVIOUS
    <3> QED BY <1>6, <2>2, <2>5, <3>2
  <2>4. CausesIn(Advise) \subseteq {"not_enough_data", "starved", "idle_unavailable"}
    <3>1. CASE Advise = e
      BY <1>2, <2>6, <3>1 DEF CausesIn
    <3>2. CASE Advise = <<n>> \/ Advise = <<a>>
      BY <1>2, <3>2 DEF CausesIn
    <3> QED BY <2>3, <3>1, <3>2
  <2> QED BY <1>9, <2>4
<1>10. CASE ~Starved
  <2>1. s = <<>>
    BY <1>4, <1>10
  <2>2. PICK e : e = o \o l
    OBVIOUS
  <2>3. s \o (o \o l) = e /\ e \in Seq(R)
    <3>1. \A m \in Seq(R) : <<>> \o m = m
      OBVIOUS
    <3>2. e \in Seq(R)
      BY <1>8, <2>2
    <3> QED BY <2>1, <2>2, <3>1, <3>2
  <2>4. \A j \in DOMAIN e : e[j] \in {b, c} /\ (e[j] = b => Overprovisioned)
    <3>1. CASE ~Overprovisioned
      <4>1. e = l
        BY <1>4, <1>8, <2>2, <3>1
      <4> QED BY <1>2, <1>4, <3>1, <4>1
    <3>2. CASE Overprovisioned
      <4>1. o = <<b>> /\ (l = <<>> \/ l = <<c>>)
        BY <1>4, <3>2
      <4>2. e = <<b>> \o <<>> \/ e = <<b>> \o <<c>>
        BY <2>2, <4>1
      <4>3. b \in R /\ c \in R
        BY <1>7
      <4>4. \A j \in DOMAIN e : e[j] \in {b, c}
        BY <4>2, <4>3
      <4> QED BY <3>2, <4>4
    <3> QED BY <3>1, <3>2
  <2>5. Append(s, i) = <<i>>
    BY <2>1
  <2>6. Advise = <<n>> \/ Advise = <<i>> \/ Advise = <<k>> \/ (Advise = e /\ HasData)
    BY <1>6, <2>3, <2>5
  <2>7. CASE Advise = <<n>> \/ Advise = <<i>> \/ Advise = <<k>>
    <3>1. CausesIn(Advise) \subseteq {"not_enough_data", "idle_unavailable", "no_change"}
      BY <1>2, <2>7 DEF CausesIn
    <3> QED BY <1>10, <3>1
  <2>8. CASE Advise = e /\ HasData
    <3>1. \A j \in DOMAIN e : e[j].cause # "starved" /\ (e[j].cause = "overprovisioned" => Overprovisioned)
      BY <1>2, <2>4
    <3>2. "starved" \notin CausesIn(e) /\ ("overprovisioned" \in CausesIn(e) => Overprovisioned)
      BY <3>1 DEF CausesIn
    <3> QED BY <1>10, <2>8, <3>2
  <2> QED BY <2>6, <2>7, <2>8
<1> QED BY <1>9, <1>10

LEMMA RoundedUp ==
  ASSUME NEW u \in Nat, NEW t \in Nat, t >= 1, NEW z \in Nat, z = u + t - 1
  PROVE  z \div t \in Nat /\ u <= (z \div t) * t
<1>1. z \div t \in Nat
  OBVIOUS
<1>2. t * (z \div t) <= z /\ z < t * (z \div t) + t
  OBVIOUS
<1>3. PICK q \in Nat : q = z \div t
  BY <1>1
<1>4. PICK p \in Nat : p = t * q /\ p = q * t
  OBVIOUS
<1>5. u + t - 1 < p + t
  BY <1>2, <1>3, <1>4
<1>6. u <= p
  BY <1>5
<1> QED BY <1>3, <1>4, <1>6

\* Advice never takes from a VM what it needs: one that waits for a CPU is not told to shrink, and what is suggested
\* leaves twice what was used, for every window, size and mix of ticks.
THEOREM AdviceAlwaysSafe == VerdSpec => []AdviceIsSafe
<1>1. VerdInv => AdviceIsSafe
  <2> SUFFICES ASSUME VerdInv PROVE AdviceIsSafe
    OBVIOUS
  <2>1. StarvedNotShrunk
    BY AdviceCauses DEF StarvedNotShrunk
  <2>2. HeadroomKept
    <3> SUFFICES ASSUME HasData, Overprovisioned PROVE Suggest \in 1..(size.vcpus - 1) /\ 2 * use.on <= Suggest * span
      BY AdviceCauses DEF HeadroomKept
    <3>1. PICK n, u : n = size.vcpus /\ u = use.on
      OBVIOUS
    <3>2. n \in Nat /\ u \in Nat
      BY <3>1, VerdictsAssumption DEF VerdInv, VMTypes
    <3>3. PICK t : t = span
      OBVIOUS
    <3>4. t \in Nat /\ t >= 1
      BY <3>3, VerdictsAssumption DEF VerdInv, VMTypes, HasData
    <3>5. PICK q : q = (2 * u + t - 1) \div t
      OBVIOUS
    <3>6. q \in Nat /\ q * t >= 2 * u
      <4>1. PICK z \in Nat : z = 2 * u + t - 1
        BY <3>2, <3>4
      <4>2. PICK v \in Nat : v = 2 * u /\ z = v + t - 1
        BY <3>2, <4>1
      <4>3. z \div t \in Nat /\ v <= (z \div t) * t
        BY <3>4, <4>2, RoundedUp
      <4>4. q = z \div t
        BY <3>5, <4>1
      <4>5. q \in Nat /\ v <= q * t /\ q * t \in Nat
        BY <3>4, <4>3, <4>4
      <4> QED BY <4>2, <4>5
    <3>7. Suggest = Max({1, q}) /\ Suggest < n
      BY <3>1, <3>3, <3>5 DEF Suggest, CeilDiv, Overprovisioned
    <3>8. PICK m \in Nat : m = IF q >= 1 THEN q ELSE 1
      BY <3>6
    <3>9. {1, q} \in SUBSET (0..m) /\ {1, q} # {}
      BY <3>6, <3>8
    <3>10. Max({1, q}) \in {1, q} /\ \A j \in {1, q} : j <= Max({1, q})
      BY <3>9, Largest
    <3>11. PICK g : g = Suggest
      OBVIOUS
    <3>12. g \in Nat /\ g >= 1 /\ g >= q /\ g < n
      BY <3>6, <3>7, <3>10, <3>11
    <3>13. g * t >= q * t
      BY <3>4, <3>6, <3>12
    <3>14. g * t \in Nat /\ q * t \in Nat
      BY <3>4, <3>6, <3>12
    <3>15. 2 * u <= g * t
      BY <3>2, <3>6, <3>13, <3>14
    <3> QED BY <3>1, <3>2, <3>3, <3>11, <3>12, <3>15
  <2> QED BY <2>1, <2>2 DEF AdviceIsSafe
<1> QED BY <1>1, VerdInvariant, PTL

-----------------------------------------------------------------------------
(* CPU contention.                                                       *)

\* preemptorLabel and readPreemptors, of any scan and any counts.
LabelBy(scan, b) == IF VMOf[b] \in scan THEN <<"vm", VMOf[b]>> ELSE <<"task", b>>
Fibre(scan, w) == {c \in Threads : LabelBy(scan, c) = w}
NamedBy(scan, p) ==
  [w \in {LabelBy(scan, b) : b \in {c \in Threads : p[c] > 0}} |-> Total([b \in Fibre(scan, w) |-> p[b]])]

LEMMA ReadIsNamed == \A v : readPreemptors(v) = NamedBy(refs, preemptBy[v])
  BY DEF readPreemptors, NamedBy, preemptorLabel, LabelBy, Fibre

LEMMA ThreadsFinite == IsFiniteSet(Threads) /\ VCPUs \subseteq Threads /\ IsFiniteSet(VCPUs)
<1>1. IsFiniteSet(Threads) /\ VCPUs \subseteq Threads
  BY ContentionAssumption
<1> QED BY <1>1, FS_Subset

\* The sum of a part of the counts.
LEMMA PartType ==
  ASSUME NEW S, IsFiniteSet(S), NEW p \in CountsOn(S), NEW T \in SUBSET S
  PROVE  [b \in T |-> p[b]] \in CountsOn(T) /\ IsFiniteSet(T) /\ Total([b \in T |-> p[b]]) \in Nat
<1>1. [b \in T |-> p[b]] \in CountsOn(T)
  BY DEF CountsOn
<1>2. IsFiniteSet(T)
  BY FS_Subset
<1> QED BY <1>1, <1>2, Countable

\* A name has the time of the threads that it stands for.
LEMMA NsNamed ==
  ASSUME NEW scan, NEW p \in CountsOn(Threads), NEW w
  PROVE  /\ NsOf(NamedBy(scan, p), w) = Total([b \in Fibre(scan, w) |-> p[b]])
         /\ w \notin DOMAIN NamedBy(scan, p) => \A b \in Fibre(scan, w) : p[b] = 0
<1>1. DOMAIN NamedBy(scan, p) = {LabelBy(scan, b) : b \in {c \in Threads : p[c] > 0}}
  BY DEF NamedBy
<1>2. w \in DOMAIN NamedBy(scan, p) => NamedBy(scan, p)[w] = Total([b \in Fibre(scan, w) |-> p[b]])
  BY DEF NamedBy
<1>3. ASSUME w \notin DOMAIN NamedBy(scan, p), NEW b \in Fibre(scan, w) PROVE p[b] = 0
  <2>1. b \in Threads /\ LabelBy(scan, b) = w
    BY DEF Fibre
  <2>2. ~(p[b] > 0)
    BY <1>1, <1>3, <2>1
  <2>3. p[b] \in Nat
    BY <2>1 DEF CountsOn
  <2> QED BY <2>2, <2>3
<1>4. ASSUME w \notin DOMAIN NamedBy(scan, p) PROVE Total([b \in Fibre(scan, w) |-> p[b]]) = 0
  <2>1. IsFiniteSet(Fibre(scan, w))
    BY ThreadsFinite, FS_Subset DEF Fibre
  <2> QED BY <1>3, <1>4, <2>1, TotalZero
<1> QED BY <1>2, <1>3, <1>4 DEF NsOf

-----------------------------------------------------------------------------
(* The invariant.                                                          *)

Grid == [VCPUs -> CountsOn(Threads)]

\* What is left of a reading's counts when the evictions so far are taken off.
Left(taken_, by_, r, v) == [b \in Threads |-> r.taken[v][b] - (taken_[v][b] - by_[v][b])]

\* A reading tells what had been taken and, unless an entry was evicted since, by whom.
Faithful(taken_, by_, lost, r) ==
  /\ r.taken \in Grid /\ r.refs \subseteq Names
  /\ \A v \in VCPUs : \A b \in Threads : r.taken[v][b] <= taken_[v][b]
  /\ \A v \in VCPUs : VMOf[v] \in r.refs => r.preempt[v] = Total(r.taken[v])
  /\ ~lost => \A v \in VCPUs : /\ Left(taken_, by_, r, v) \in CountsOn(Threads)
                               /\ VMOf[v] \in r.refs => r.by[v] = NamedBy(r.refs, Left(taken_, by_, r, v))

CountsOK(taken_, by_, off, n) ==
  /\ taken_ \in Grid /\ by_ \in Grid /\ off \in [VCPUs -> Nat]
  /\ \A v \in VCPUs : \A b \in Threads : by_[v][b] <= taken_[v][b]
  /\ \A v \in VCPUs : off[v] = Total(taken_[v]) /\ off[v] <= n

NoLater(a, b) == \A v \in VCPUs : \A t \in Threads : a.taken[v][t] <= b.taken[v][t]

ContInv ==
  /\ slices \in 0..MaxSlices /\ mishaps \in 0..MaxMishaps
  /\ up \subseteq Names /\ refs \subseteq Names /\ forgotten \in BOOLEAN
  /\ onCPU \in [VCPUs -> Nat] /\ \A v \in VCPUs : onCPU[v] <= slices
  /\ CountsOK(taken, preemptBy, preempt, slices)
  /\ reading.at => Faithful(taken, preemptBy, forgotten, reading)
  /\ earlier.at => Faithful(taken, preemptBy, forgotten, earlier)
  /\ earlier.at /\ reading.at => NoLater(earlier, reading)

LEMMA ContInitInv == ContInit => ContInv
<1> SUFFICES ASSUME ContInit PROVE ContInv
  OBVIOUS
<1> USE DEF ContInit
<1>1. 0 \in 0..MaxSlices /\ 0 \in 0..MaxMishaps
  BY ContentionAssumption
<1>2. ~reading.at /\ ~earlier.at
  BY DEF NoReading
<1>3. Nobody \in Grid /\ \A v \in VCPUs : \A b \in Threads : Nobody[v][b] = 0
  BY DEF Nobody, Grid, CountsOn
<1>4. \A v \in VCPUs : Total(Nobody[v]) = 0
  <2> SUFFICES ASSUME NEW v \in VCPUs PROVE Total(Nobody[v]) = 0
    OBVIOUS
  <2>1. PICK f : f = Nobody[v]
    OBVIOUS
  <2>2. DOMAIN f = Threads /\ \A b \in Threads : f[b] = 0
    BY <2>1 DEF Nobody
  <2>3. Total(f) = 0
    BY <2>2, ThreadsFinite, TotalZero
  <2> QED BY <2>1, <2>3
<1>5. CountsOK(taken, preemptBy, preempt, slices)
  BY <1>3, <1>4 DEF CountsOK
<1>6. onCPU \in [VCPUs -> Nat] /\ \A v \in VCPUs : onCPU[v] <= slices
  OBVIOUS
<1>7. up \subseteq Names /\ refs \subseteq Names /\ forgotten \in BOOLEAN
  OBVIOUS
<1>8. slices \in 0..MaxSlices /\ mishaps \in 0..MaxMishaps
  BY <1>1
<1> HIDE DEF ContInit
<1> QED BY <1>2, <1>5, <1>6, <1>7, <1>8 DEF ContInv

\* One more slice is taken.
LEMMA TakenMore ==
  ASSUME NEW p, NEW q, NEW off, NEW n \in Nat, CountsOK(p, q, off, n), NEW x \in VCPUs, NEW y \in Threads
  PROVE  CountsOK([p EXCEPT ![x][y] = @ + 1], [q EXCEPT ![x][y] = @ + 1], [off EXCEPT ![x] = @ + 1], n + 1)
<1> DEFINE pp == [p EXCEPT ![x][y] = @ + 1]
           qq == [q EXCEPT ![x][y] = @ + 1]
           oo == [off EXCEPT ![x] = @ + 1]
<1>1. /\ p \in Grid /\ q \in Grid /\ off \in [VCPUs -> Nat]
      /\ \A v \in VCPUs : \A b \in Threads : q[v][b] <= p[v][b] /\ q[v][b] \in Nat /\ p[v][b] \in Nat
      /\ \A v \in VCPUs : off[v] = Total(p[v]) /\ off[v] <= n
  BY DEF CountsOK, Grid, CountsOn
<1>2. /\ pp \in Grid /\ qq \in Grid /\ oo \in [VCPUs -> Nat]
  BY <1>1 DEF Grid, CountsOn
<1>3. /\ \A v \in VCPUs : \A b \in Threads : pp[v][b] = IF v = x /\ b = y THEN p[v][b] + 1 ELSE p[v][b]
      /\ \A v \in VCPUs : \A b \in Threads : qq[v][b] = IF v = x /\ b = y THEN q[v][b] + 1 ELSE q[v][b]
      /\ \A v \in VCPUs : oo[v] = IF v = x THEN off[v] + 1 ELSE off[v]
      /\ \A v \in VCPUs : v # x => pp[v] = p[v]
  BY <1>1 DEF Grid, CountsOn
<1> HIDE DEF pp, qq, oo
<1>4. \A v \in VCPUs : \A b \in Threads : qq[v][b] <= pp[v][b]
  BY <1>1, <1>3
<1>5. Total(pp[x]) = Total(p[x]) + 1
  <2>1. PICK f, g : f = p[x] /\ g = pp[x]
    OBVIOUS
  <2>2. f \in CountsOn(Threads) /\ g \in CountsOn(Threads)
    BY <1>1, <1>2, <2>1 DEF Grid
  <2>3. DOMAIN f = Threads /\ DOMAIN g = Threads /\ Addable(f)
    BY <2>2, ThreadsFinite, Countable
  <2>4. \A u \in Threads : g[u] = IF u = y THEN f[u] + 1 ELSE f[u]
    BY <1>3, <2>1
  <2>5. Total(g) = Total(f) + 1
    BY <2>3, <2>4, TotalBump
  <2> QED BY <2>1, <2>5
<1>6. ASSUME NEW v \in VCPUs PROVE oo[v] = Total(pp[v]) /\ oo[v] <= n + 1
  <2>1. off[v] \in Nat
    BY <1>1
  <2>2. CASE v = x
    BY <1>1, <1>3, <1>5, <2>1, <2>2
  <2>3. CASE v # x
    BY <1>1, <1>3, <2>1, <2>3
  <2> QED BY <2>2, <2>3
<1>7. CountsOK(pp, qq, oo, n + 1)
  BY <1>2, <1>4, <1>6 DEF CountsOK
<1> QED BY <1>7 DEF pp, qq, oo

LEMMA StillFaithful ==
  ASSUME NEW p, NEW q, NEW off, NEW n, CountsOK(p, q, off, n), NEW x \in VCPUs, NEW y \in Threads,
         NEW lost \in BOOLEAN, NEW r, Faithful(p, q, lost, r)
  PROVE  Faithful([p EXCEPT ![x][y] = @ + 1], [q EXCEPT ![x][y] = @ + 1], lost, r)
<1> DEFINE pp == [p EXCEPT ![x][y] = @ + 1]
           qq == [q EXCEPT ![x][y] = @ + 1]
<1>1. /\ p \in Grid /\ q \in Grid /\ r.taken \in Grid
      /\ \A v \in VCPUs : \A b \in Threads : q[v][b] \in Nat /\ p[v][b] \in Nat /\ r.taken[v][b] \in Nat
      /\ \A v \in VCPUs : \A b \in Threads : r.taken[v][b] <= p[v][b]
  BY DEF CountsOK, Faithful, Grid, CountsOn
<1>2. \A v \in VCPUs : \A b \in Threads : pp[v][b] >= p[v][b] /\ pp[v][b] \in Nat /\ pp[v][b] - qq[v][b] = p[v][b] - q[v][b]
  BY <1>1 DEF Grid, CountsOn
<1> HIDE DEF pp, qq
<1>3. \A v \in VCPUs : Left(pp, qq, r, v) = Left(p, q, r, v)
  BY <1>2 DEF Left
<1>4. \A v \in VCPUs : \A b \in Threads : r.taken[v][b] <= pp[v][b]
  BY <1>1, <1>2
<1>5. Faithful(pp, qq, lost, r)
  BY <1>3, <1>4 DEF Faithful
<1> QED BY <1>5 DEF pp, qq

\* A new reading is faithful.
LEMMA SampledFaithful ==
  ASSUME ContInv, NEW lost
  PROVE  Faithful(taken, preemptBy, lost, Sampled)
<1>1. /\ taken \in Grid /\ preemptBy \in Grid
      /\ \A v \in VCPUs : preempt[v] = Total(taken[v])
      /\ refs \subseteq Names
  BY DEF ContInv, CountsOK
<1>2. /\ Sampled.taken = taken /\ Sampled.refs = refs
      /\ \A v \in VCPUs : VMOf[v] \in refs => Sampled.preempt[v] = preempt[v] /\ Sampled.by[v] = readPreemptors(v)
  BY DEF Sampled, InScan
<1>3. PICK r : r = Sampled
  OBVIOUS
<1>4. /\ r.taken = taken /\ r.refs = refs
      /\ \A v \in VCPUs : VMOf[v] \in refs => r.preempt[v] = preempt[v] /\ r.by[v] = NamedBy(refs, preemptBy[v])
  BY <1>2, <1>3, ReadIsNamed
<1>5. ASSUME NEW v \in VCPUs PROVE Left(taken, preemptBy, r, v) = preemptBy[v] /\ preemptBy[v] \in CountsOn(Threads)
  <2>1. PICK f, g : f = taken[v] /\ g = preemptBy[v]
    OBVIOUS
  <2>2. f \in [Threads -> Nat] /\ g \in [Threads -> Nat]
    BY <1>1, <2>1 DEF Grid, CountsOn
  <2>3. [b \in Threads |-> f[b] - (f[b] - g[b])] = g
    BY <2>2
  <2> QED BY <1>4, <2>1, <2>2, <2>3 DEF Left, CountsOn
<1>6. \A v \in VCPUs : \A b \in Threads : taken[v][b] <= taken[v][b]
  BY <1>1 DEF Grid, CountsOn
<1>7. Faithful(taken, preemptBy, lost, r)
  BY <1>1, <1>4, <1>5, <1>6 DEF Faithful
<1> QED BY <1>3, <1>7

\* Nothing is taken, and no more of it forgotten: a reading stays what it was.
Same == UNCHANGED <<taken, preemptBy, preempt, reading, earlier, forgotten>>

LEMMA ContNextInv == ContInv /\ [ContNext]_contVars => ContInv'
<1> SUFFICES ASSUME ContInv, [ContNext]_contVars PROVE ContInv'
  OBVIOUS
<1>1. /\ slices \in Nat /\ slices <= MaxSlices /\ mishaps \in Nat /\ mishaps <= MaxMishaps
      /\ MaxSlices \in Nat /\ MaxMishaps \in Nat
      /\ up \subseteq Names /\ refs \subseteq Names /\ forgotten \in BOOLEAN
      /\ onCPU \in [VCPUs -> Nat] /\ (\A v \in VCPUs : onCPU[v] <= slices)
      /\ CountsOK(taken, preemptBy, preempt, slices)
      /\ reading.at => Faithful(taken, preemptBy, forgotten, reading)
      /\ earlier.at => Faithful(taken, preemptBy, forgotten, earlier)
      /\ earlier.at /\ reading.at => NoLater(earlier, reading)
  BY ContentionAssumption DEF ContInv
<1>2. Slice => slices' \in Nat /\ slices' = slices + 1 /\ slices' <= MaxSlices /\ mishaps' = mishaps
  BY <1>1 DEF Slice
<1>3. Mishap => mishaps' \in Nat /\ mishaps' <= MaxMishaps /\ slices' = slices
  BY <1>1 DEF Mishap
<1>4. CountsOK(taken, preemptBy, preempt, slices + 1)
  <2>1. \A v \in VCPUs : preempt[v] \in Nat /\ preempt[v] <= slices
    BY <1>1 DEF CountsOK
  <2>2. \A v \in VCPUs : preempt[v] <= slices + 1
    BY <1>1, <2>1
  <2> QED BY <1>1, <2>2 DEF CountsOK
<1>5. Same => /\ (reading.at => Faithful(taken, preemptBy, forgotten, reading))'
              /\ (earlier.at => Faithful(taken, preemptBy, forgotten, earlier))'
              /\ (earlier.at /\ reading.at => NoLater(earlier, reading))'
  BY <1>1 DEF Same
<1>6. ASSUME NEW v \in VCPUs, OnCPU(v) PROVE ContInv'
  <2>1. Slice /\ onCPU' = [onCPU EXCEPT ![v] = @ + 1] /\ Same /\ up' = up /\ refs' = refs /\ forgotten' = forgotten
    BY <1>6 DEF OnCPU, Same
  <2>2. onCPU' \in [VCPUs -> Nat] /\ \A u \in VCPUs : onCPU'[u] <= slices'
    <3>1. onCPU' \in [VCPUs -> Nat] /\ \A u \in VCPUs : onCPU'[u] <= onCPU[u] + 1 /\ onCPU[u] \in Nat
      BY <1>1, <2>1
    <3> QED BY <1>1, <1>2, <2>1, <3>1
  <2>3. CountsOK(taken, preemptBy, preempt, slices)'
    BY <1>2, <1>4, <2>1 DEF Same
  <2> QED BY <1>1, <1>2, <1>5, <2>1, <2>2, <2>3 DEF ContInv
<1>7. ASSUME NEW v \in VCPUs, NEW b \in Threads, Preempted(v, b) PROVE ContInv'
  <2>1. /\ Slice /\ preempt' = [preempt EXCEPT ![v] = @ + 1]
        /\ preemptBy' = [preemptBy EXCEPT ![v][b] = @ + 1] /\ taken' = [taken EXCEPT ![v][b] = @ + 1]
        /\ UNCHANGED <<up, refs, onCPU, reading, earlier, forgotten>>
    BY <1>7 DEF Preempted, Lost
  <2>2. onCPU' \in [VCPUs -> Nat] /\ \A u \in VCPUs : onCPU'[u] <= slices'
    <3>1. \A u \in VCPUs : onCPU[u] \in Nat
      BY <1>1
    <3> QED BY <1>1, <1>2, <2>1, <3>1
  <2>3. CountsOK(taken, preemptBy, preempt, slices)'
    <3>1. CountsOK([taken EXCEPT ![v][b] = @ + 1], [preemptBy EXCEPT ![v][b] = @ + 1], [preempt EXCEPT ![v] = @ + 1], slices + 1)
      BY <1>1, TakenMore
    <3> QED BY <1>2, <2>1, <3>1
  <2>4. ASSUME NEW r, Faithful(taken, preemptBy, forgotten, r) PROVE Faithful(taken', preemptBy', forgotten', r)
    <3>1. Faithful([taken EXCEPT ![v][b] = @ + 1], [preemptBy EXCEPT ![v][b] = @ + 1], forgotten, r)
      BY <1>1, <2>4, StillFaithful
    <3> QED BY <2>1, <3>1
  <2>5. /\ (reading.at => Faithful(taken, preemptBy, forgotten, reading))'
        /\ (earlier.at => Faithful(taken, preemptBy, forgotten, earlier))'
        /\ (earlier.at /\ reading.at => NoLater(earlier, reading))'
    BY <1>1, <2>1, <2>4
  <2> QED BY <1>1, <1>2, <2>1, <2>2, <2>3, <2>5 DEF ContInv
<1>8. ASSUME NEW v \in VCPUs, NEW b \in Threads, PreemptorEvicted(v, b) PROVE ContInv'
  <2>1. /\ Mishap /\ preemptBy' = [preemptBy EXCEPT ![v][b] = 0] /\ forgotten' = TRUE
        /\ UNCHANGED <<up, refs, onCPU, preempt, taken, reading, earlier>>
    BY <1>8 DEF PreemptorEvicted
  <2>2. CountsOK(taken, preemptBy, preempt, slices)'
    <3>1. preemptBy \in Grid /\ taken \in Grid /\ \A u \in VCPUs : \A c \in Threads : preemptBy[u][c] <= taken[u][c] /\ taken[u][c] \in Nat
      BY <1>1 DEF CountsOK, Grid, CountsOn
    <3>2. preemptBy' \in Grid /\ \A u \in VCPUs : \A c \in Threads : preemptBy'[u][c] = IF u = v /\ c = b THEN 0 ELSE preemptBy[u][c]
      BY <2>1, <3>1 DEF Grid, CountsOn
    <3>3. \A u \in VCPUs : \A c \in Threads : preemptBy'[u][c] <= taken[u][c]
      BY <3>1, <3>2
    <3> QED BY <1>1, <1>3, <2>1, <3>2, <3>3 DEF CountsOK
  <2>3. ASSUME NEW r, Faithful(taken, preemptBy, forgotten, r) PROVE Faithful(taken', preemptBy', forgotten', r)
    BY <2>1, <2>3 DEF Faithful
  <2>4. /\ (reading.at => Faithful(taken, preemptBy, forgotten, reading))'
        /\ (earlier.at => Faithful(taken, preemptBy, forgotten, earlier))'
        /\ (earlier.at /\ reading.at => NoLater(earlier, reading))'
    BY <1>1, <2>1, <2>3
  <2>5. forgotten' \in BOOLEAN /\ up' \subseteq Names /\ refs' \subseteq Names
    BY <1>1, <2>1
  <2>6. slices' \in 0..MaxSlices /\ mishaps' \in 0..MaxMishaps
    BY <1>1, <1>3, <2>1
  <2>7. onCPU' \in [VCPUs -> Nat] /\ \A u \in VCPUs : onCPU'[u] <= slices'
    BY <1>1, <1>3, <2>1
  <2> QED BY <2>2, <2>4, <2>5, <2>6, <2>7 DEF ContInv
<1>9. ASSUME NEW n \in Names, VMStarts(n) \/ ScanMissesVM(n) PROVE ContInv'
  <2>1. Mishap /\ Same /\ onCPU' = onCPU /\ forgotten' = forgotten /\ up' \subseteq Names /\ refs' \subseteq Names
    BY <1>1, <1>9 DEF VMStarts, ScanMissesVM, Same, counters
  <2>2. CountsOK(taken, preemptBy, preempt, slices)'
    BY <1>1, <1>3, <2>1 DEF Same
  <2> QED BY <1>1, <1>3, <1>5, <2>1, <2>2 DEF ContInv
<1>10. ASSUME ScanHost \/ UNCHANGED contVars PROVE ContInv'
  <2>1. /\ Same /\ onCPU' = onCPU /\ forgotten' = forgotten /\ up' \subseteq Names /\ refs' \subseteq Names
        /\ slices' = slices /\ mishaps' = mishaps
    BY <1>1, <1>10 DEF ScanHost, contVars, Same, counters
  <2>2. CountsOK(taken, preemptBy, preempt, slices)'
    BY <1>1, <2>1 DEF Same
  <2> QED BY <1>1, <1>5, <2>1, <2>2 DEF ContInv
<1>11. ASSUME NEW keep \in BOOLEAN, SampleHost(keep) PROVE ContInv'
  <2>1. /\ reading' = Sampled /\ (keep => earlier' = Sampled) /\ (~keep => earlier' = earlier)
        /\ (~keep => forgotten' = forgotten) /\ (keep => forgotten' = FALSE) /\ forgotten' \in BOOLEAN
        /\ UNCHANGED <<slices, mishaps, up, refs, onCPU, preempt, preemptBy, taken>>
    BY <1>1, <1>11, Zenon DEF SampleHost, counters
  <2>2. CountsOK(taken, preemptBy, preempt, slices)'
    BY <1>1, <2>1
  <2>3. Faithful(taken', preemptBy', forgotten', reading')
    <3>1. PICK lost : lost = forgotten'
      OBVIOUS
    <3>2. Faithful(taken, preemptBy, lost, Sampled)
      BY SampledFaithful
    <3> QED BY <2>1, <3>1, <3>2
  <2>4. earlier'.at => Faithful(taken', preemptBy', forgotten', earlier')
    <3>1. CASE keep
      BY <2>1, <2>3, <3>1
    <3>2. CASE ~keep
      BY <1>1, <2>1, <3>2
    <3> QED BY <3>1, <3>2
  <2>5. earlier'.at => NoLater(earlier', reading')
    <3>1. reading'.taken = taken
      BY <2>1 DEF Sampled
    <3>2. taken' = taken
      BY <2>1
    <3> QED BY <2>4, <3>1, <3>2 DEF NoLater, Faithful
  <2> QED BY <1>1, <2>1, <2>2, <2>3, <2>4, <2>5 DEF ContInv
<1> QED BY <1>6, <1>7, <1>8, <1>9, <1>10, <1>11 DEF ContNext

LEMMA ContInvariant == ContSpec => []ContInv
<1> QED BY ContInitInv, ContNextInv, PTL DEF ContSpec

\* What a vCPU lost in the window, by who took it.
Took(v) == [b \in Threads |-> reading.taken[v][b] - earlier.taken[v][b]]
TookAs(v, w) == Total([b \in Fibre(reading.refs, w) |-> Took(v)[b]])

LEMMA Differences ==
  ASSUME ContInv, Settled, NEW v \in VCPUs, VMOf[v] \in reading.refs
  PROVE  /\ Took(v) \in CountsOn(Threads)
         /\ \E old \in CountsOn(Threads), cur \in CountsOn(Threads) :
              /\ reading.by[v] = NamedBy(reading.refs, cur) /\ earlier.by[v] = NamedBy(reading.refs, old)
              /\ \A b \in Threads : old[b] <= cur[b] /\ Took(v)[b] = cur[b] - old[b]
         /\ earlier.preempt[v] <= reading.preempt[v]
         /\ reading.preempt[v] - earlier.preempt[v] = Total(Took(v))
         /\ reading.preempt[v] \in Nat /\ earlier.preempt[v] \in Nat
<1>1. /\ Faithful(taken, preemptBy, forgotten, reading) /\ Faithful(taken, preemptBy, forgotten, earlier)
      /\ NoLater(earlier, reading) /\ ~forgotten /\ earlier.refs = reading.refs
      /\ taken \in Grid /\ preemptBy \in Grid
  BY DEF ContInv, Settled, CountsOK
<1>2. PICK rt, et, t, p : rt = reading.taken[v] /\ et = earlier.taken[v] /\ t = taken[v] /\ p = preemptBy[v]
  OBVIOUS
<1>3. /\ rt \in CountsOn(Threads) /\ et \in CountsOn(Threads) /\ t \in CountsOn(Threads) /\ p \in CountsOn(Threads)
      /\ \A b \in Threads : et[b] <= rt[b]
  BY <1>1, <1>2 DEF Faithful, Grid, NoLater
<1>4. \A b \in Threads : rt[b] \in Nat /\ et[b] \in Nat /\ t[b] \in Nat /\ p[b] \in Nat
  BY <1>3 DEF CountsOn
<1>5. PICK old, cur : old = Left(taken, preemptBy, earlier, v) /\ cur = Left(taken, preemptBy, reading, v)
  OBVIOUS
<1>6. /\ old \in CountsOn(Threads) /\ cur \in CountsOn(Threads)
      /\ reading.by[v] = NamedBy(reading.refs, cur) /\ earlier.by[v] = NamedBy(reading.refs, old)
  BY <1>1, <1>5 DEF Faithful
<1>7. \A b \in Threads : old[b] = et[b] - (t[b] - p[b]) /\ cur[b] = rt[b] - (t[b] - p[b])
  BY <1>2, <1>5 DEF Left
<1>8. PICK d : d = Took(v)
  OBVIOUS
<1>9. d = [b \in Threads |-> rt[b] - et[b]]
  BY <1>2, <1>8 DEF Took
<1>10. \A b \in Threads : old[b] <= cur[b] /\ d[b] = cur[b] - old[b]
  BY <1>3, <1>4, <1>7, <1>9
<1>11. d \in CountsOn(Threads) /\ Total(et) <= Total(rt) /\ Total(d) = Total(rt) - Total(et)
  BY <1>3, <1>9, ThreadsFinite, TotalLess
<1>12. reading.preempt[v] = Total(rt) /\ earlier.preempt[v] = Total(et)
  BY <1>1, <1>2 DEF Faithful
<1>13. Total(rt) \in Nat /\ Total(et) \in Nat
  BY <1>3, ThreadsFinite, Countable
<1>14. \E o \in CountsOn(Threads), c \in CountsOn(Threads) :
              /\ reading.by[v] = NamedBy(reading.refs, c) /\ earlier.by[v] = NamedBy(reading.refs, o)
              /\ \A b \in Threads : o[b] <= c[b] /\ d[b] = c[b] - o[b]
  BY <1>6, <1>10
<1> QED BY <1>8, <1>11, <1>12, <1>13, <1>14

\* A vCPU's window by name has the time that the threads of the name took.
LEMMA NamesTell ==
  ASSUME ContInv, Settled, NEW v \in VCPUs, VMOf[v] \in reading.refs
  PROVE  /\ \A w : subLabels(v, w) = TookAs(v, w) /\ TookAs(v, w) \in Nat
         /\ \A w : w \notin DOMAIN reading.by[v] => TookAs(v, w) = 0
         /\ \A b \in Threads : Took(v)[b] > 0 => LabelBy(reading.refs, b) \in DOMAIN reading.by[v]
         /\ DOMAIN reading.by[v] \subseteq {LabelBy(reading.refs, b) : b \in Threads}
<1>1. PICK old \in CountsOn(Threads), cur \in CountsOn(Threads) :
              /\ reading.by[v] = NamedBy(reading.refs, cur) /\ earlier.by[v] = NamedBy(reading.refs, old)
              /\ \A b \in Threads : old[b] <= cur[b] /\ Took(v)[b] = cur[b] - old[b]
  BY Differences
<1>2. PICK d, scan : d = Took(v) /\ scan = reading.refs
  OBVIOUS
<1>3. d \in CountsOn(Threads)
  BY <1>2, Differences
<1>4. \A b \in Threads : old[b] \in Nat /\ cur[b] \in Nat /\ d[b] \in Nat /\ old[b] <= cur[b] /\ d[b] = cur[b] - old[b]
  BY <1>1, <1>2, <1>3 DEF CountsOn
<1>5. ASSUME NEW w
      PROVE  /\ subLabels(v, w) = TookAs(v, w) /\ TookAs(v, w) \in Nat
             /\ w \notin DOMAIN reading.by[v] => TookAs(v, w) = 0
  <2>1. PICK T : T = Fibre(scan, w)
    OBVIOUS
  <2>2. T \in SUBSET Threads
    BY <2>1 DEF Fibre
  <2>3. PICK f, g, h : f = [b \in T |-> old[b]] /\ g = [b \in T |-> d[b]] /\ h = [b \in T |-> cur[b]]
    OBVIOUS
  <2>4. f \in CountsOn(T) /\ g \in CountsOn(T) /\ h \in CountsOn(T) /\ IsFiniteSet(T)
    BY <1>3, <2>2, <2>3, ThreadsFinite, PartType
  <2>5. (\A b \in T : f[b] <= h[b]) /\ g = [b \in T |-> h[b] - f[b]]
    BY <1>4, <2>2, <2>3
  <2>6. Total(f) <= Total(h) /\ Total(g) = Total(h) - Total(f) /\ Total(f) \in Nat /\ Total(h) \in Nat /\ Total(g) \in Nat
    BY <2>4, <2>5, TotalLess, Countable
  <2>7. NsOf(NamedBy(scan, cur), w) = Total(h) /\ NsOf(NamedBy(scan, old), w) = Total(f)
    BY <2>1, <2>3, NsNamed
  <2>8. TookAs(v, w) = Total(g)
    BY <1>2, <2>1, <2>3 DEF TookAs
  <2>9. InBase(VMOf[v])
    BY DEF InBase, Settled
  <2>10. subLabels(v, w) = Total(h) - Total(f)
    BY <1>1, <1>2, <2>6, <2>7, <2>9 DEF subLabels, subCounter
  <2>11. w \notin DOMAIN NamedBy(scan, cur) => Total(g) = 0
    <3> SUFFICES ASSUME w \notin DOMAIN NamedBy(scan, cur) PROVE Total(g) = 0
      OBVIOUS
    <3>1. \A b \in T : cur[b] = 0
      BY <2>1, NsNamed
    <3>2. \A b \in T : h[b] = 0
      BY <2>3, <3>1
    <3>3. Total(h) = 0
      BY <2>3, <2>4, <3>2, TotalZero
    <3> QED BY <2>6, <3>3
  <2> QED BY <1>1, <1>2, <2>6, <2>8, <2>10, <2>11
<1>6. DOMAIN NamedBy(scan, cur) = {LabelBy(scan, b) : b \in {c \in Threads : cur[c] > 0}}
  BY DEF NamedBy
<1>7. \A b \in Threads : d[b] > 0 => cur[b] > 0
  BY <1>4
<1>8. \A b \in Threads : d[b] > 0 => LabelBy(scan, b) \in DOMAIN NamedBy(scan, cur)
  BY <1>6, <1>7
<1>9. DOMAIN NamedBy(scan, cur) \subseteq {LabelBy(scan, b) : b \in Threads}
  BY <1>6
<1> QED BY <1>1, <1>2, <1>5, <1>8, <1>9

LEMMA LabelsFinite == ASSUME NEW scan PROVE IsFiniteSet({LabelBy(scan, b) : b \in Threads})
<1> DEFINE W == {LabelBy(scan, b) : b \in Threads}
<1> HIDE DEF W
<1>1. [b \in Threads |-> LabelBy(scan, b)] \in Surjection(Threads, W)
  BY DEF Surjection, W
<1>2. IsFiniteSet(W)
  BY <1>1, ThreadsFinite, FS_Surjection
<1> QED BY <1>2 DEF W

\* The window of a VM, added up over its vCPUs.
TookFrom(n, w) == Total([v \in VCPUsOf(n) |-> TookAs(v, w)])

LEMMA VCPUsOfIs ==
  ASSUME NEW n
  PROVE  IsFiniteSet(VCPUsOf(n)) /\ VCPUsOf(n) \subseteq VCPUs /\ \A v \in VCPUsOf(n) : VMOf[v] = n
<1>1. VCPUsOf(n) \subseteq VCPUs /\ \A v \in VCPUsOf(n) : VMOf[v] = n
  BY DEF VCPUsOf, ThreadsOf
<1> QED BY <1>1, ThreadsFinite, FS_Subset

LEMMA AllTell ==
  ASSUME ContInv, Settled, NEW n \in reading.refs
  PROVE  /\ \A w \in Labels(n) : AllPreemptors(n)[w] = TookFrom(n, w)
         /\ \A w : NsOf(AllPreemptors(n), w) = TookFrom(n, w) /\ TookFrom(n, w) \in Nat
         /\ IsFiniteSet(Labels(n)) /\ DOMAIN AllPreemptors(n) = Labels(n)
<1>1. PICK V : V = VCPUsOf(n)
  OBVIOUS
<1>2. IsFiniteSet(V) /\ V \subseteq VCPUs /\ \A v \in V : VMOf[v] \in reading.refs
  BY <1>1, VCPUsOfIs
<1>3. /\ \A v \in V : \A w : subLabels(v, w) = TookAs(v, w) /\ TookAs(v, w) \in Nat
      /\ \A v \in V : \A w : w \notin DOMAIN reading.by[v] => TookAs(v, w) = 0
      /\ \A v \in V : DOMAIN reading.by[v] \subseteq {LabelBy(reading.refs, b) : b \in Threads}
  BY <1>2, NamesTell
<1>4. IsFiniteSet(Labels(n))
  <2>1. PICK W : W = {LabelBy(reading.refs, b) : b \in Threads}
    OBVIOUS
  <2>2. IsFiniteSet(W)
    <3>1. PICK scan : scan = reading.refs
      OBVIOUS
    <3>2. IsFiniteSet({LabelBy(scan, b) : b \in Threads})
      BY LabelsFinite
    <3> QED BY <2>1, <3>1, <3>2
  <2>3. Labels(n) \subseteq W
    BY <1>1, <1>3, <2>1 DEF Labels
  <2> QED BY <2>2, <2>3, FS_Subset
<1>5. ASSUME NEW w PROVE TookFrom(n, w) \in Nat /\ Addable([v \in V |-> TookAs(v, w)])
  <2>1. [v \in V |-> TookAs(v, w)] \in CountsOn(V)
    BY <1>3 DEF CountsOn
  <2> QED BY <1>1, <1>2, <2>1, Countable DEF TookFrom
<1>6. DOMAIN AllPreemptors(n) = Labels(n)
  BY DEF AllPreemptors
<1>7. ASSUME NEW w \in Labels(n) PROVE AllPreemptors(n)[w] = TookFrom(n, w)
  <2>1. PICK U : U = {u \in V : w \in DOMAIN reading.by[u]}
    OBVIOUS
  <2>2. AllPreemptors(n)[w] = Total([v \in U |-> subLabels(v, w)])
    BY <1>1, <2>1 DEF AllPreemptors
  <2>3. PICK f, g : f = [v \in U |-> subLabels(v, w)] /\ g = [v \in V |-> TookAs(v, w)]
    OBVIOUS
  <2>4. U \subseteq V /\ IsFiniteSet(U)
    BY <1>2, <2>1, FS_Subset
  <2>5. DOMAIN f = U /\ DOMAIN g = V /\ (\A v \in U : f[v] = g[v] /\ f[v] \in Nat) /\ Addable(g)
    BY <1>3, <1>5, <2>3, <2>4
  <2>6. Addable(f)
    BY <2>4, <2>5 DEF Addable
  <2>7. \A v \in V : v \notin U => ~(g[v] > 0)
    BY <1>3, <2>1, <2>3
  <2>8. Total(f) = Total(g)
    BY <2>4, <2>5, <2>6, <2>7, TotalSame
  <2> QED BY <1>1, <2>2, <2>3, <2>8 DEF TookFrom
<1>8. ASSUME NEW w, w \notin Labels(n) PROVE TookFrom(n, w) = 0
  <2>1. \A v \in V : w \notin DOMAIN reading.by[v]
    BY <1>1, <1>8 DEF Labels
  <2>2. \A v \in V : TookAs(v, w) = 0
    BY <1>3, <2>1
  <2>3. Total([v \in V |-> TookAs(v, w)]) = 0
    BY <1>2, <2>2, TotalZero
  <2> QED BY <1>1, <2>3 DEF TookFrom
<1>9. ASSUME NEW w PROVE NsOf(AllPreemptors(n), w) = TookFrom(n, w)
  BY <1>6, <1>7, <1>8 DEF NsOf
<1> QED BY <1>4, <1>5, <1>6, <1>7, <1>9

\* All that the vCPUs of a VM lost is charged to one name or another.
LEMMA AllIsCharged ==
  ASSUME ContInv, Settled, NEW n \in reading.refs
  PROVE  /\ Total(AllPreemptors(n)) = PreemptedNs(n)
         /\ PreemptedNs(n) = ReallyTaken(n, Threads)
         /\ AllPreemptors(n) \in CountsOn(Labels(n))
<1>1. PICK V, W, scan : V = VCPUsOf(n) /\ W = Labels(n) /\ scan = reading.refs
  OBVIOUS
<1>2. IsFiniteSet(V) /\ V \subseteq VCPUs /\ \A v \in V : VMOf[v] = n /\ VMOf[v] \in reading.refs
  BY <1>1, VCPUsOfIs
<1>3. IsFiniteSet(W)
  BY <1>1, AllTell
<1>4. ASSUME NEW v \in V
      PROVE  /\ Took(v) \in CountsOn(Threads)
             /\ subCounter(reading.preempt[v], IF InBase(n) THEN earlier.preempt[v] ELSE 0) = Total(Took(v))
  <2>1. InBase(n)
    BY DEF InBase, Settled
  <2>2. v \in VCPUs /\ VMOf[v] \in reading.refs
    BY <1>2
  <2>3. /\ Took(v) \in CountsOn(Threads) /\ earlier.preempt[v] <= reading.preempt[v]
        /\ reading.preempt[v] - earlier.preempt[v] = Total(Took(v))
        /\ reading.preempt[v] \in Nat /\ earlier.preempt[v] \in Nat
    BY <2>2, Differences
  <2> QED BY <2>1, <2>3 DEF subCounter
<1>5. PreemptedNs(n) = Total([v \in V |-> Total(Took(v))])
  <2>1. [v \in V |-> subCounter(reading.preempt[v], IF InBase(n) THEN earlier.preempt[v] ELSE 0)] = [v \in V |-> Total(Took(v))]
    BY <1>4
  <2> QED BY <1>1, <2>1 DEF PreemptedNs
<1>6. ReallyTaken(n, Threads) = Total([v \in V |-> Total(Took(v))])
  BY <1>1 DEF ReallyTaken, Took
<1>7. PICK F : F = [v \in V |-> [w \in W |-> TookAs(v, w)]]
  OBVIOUS
<1>8. \A v \in V : \A w : TookAs(v, w) \in Nat
  BY <1>2, NamesTell
<1>9. F \in TablesOn(V, W)
  BY <1>7, <1>8 DEF TablesOn, CountsOn
<1>10. Total([v \in V |-> Total([w \in W |-> F[v][w]])]) = Total([w \in W |-> Total([v \in V |-> F[v][w]])])
  <2>1. ByRows(V, W, F) = ByColumns(V, W, F)
    BY <1>2, <1>3, <1>9, RowsAndColumns
  <2> QED BY <2>1 DEF ByRows, ByColumns
<1>11. ASSUME NEW v \in V PROVE Total([w \in W |-> F[v][w]]) = Total(Took(v))
  <2>1. PICK f, lab : f = Took(v) /\ lab = [b \in Threads |-> LabelBy(scan, b)]
    OBVIOUS
  <2>2. f \in CountsOn(Threads)
    BY <1>4, <2>1
  <2>3. \A u \in Threads : f[u] > 0 => lab[u] \in W
    <3>1. v \in VCPUs /\ VMOf[v] \in reading.refs
      BY <1>2
    <3>2. \A b \in Threads : Took(v)[b] > 0 => LabelBy(reading.refs, b) \in DOMAIN reading.by[v]
      BY <3>1, NamesTell
    <3>3. DOMAIN reading.by[v] \subseteq W
      BY <1>1 DEF Labels
    <3> QED BY <1>1, <2>1, <3>2, <3>3
  <2>4. Total([w \in W |-> Total([u \in {x \in Threads : lab[x] = w} |-> f[u]])]) = Total(f)
    BY <1>3, <2>2, <2>3, ThreadsFinite, ByLabel
  <2>5. \A w : {x \in Threads : lab[x] = w} = Fibre(scan, w)
    BY <2>1 DEF Fibre
  <2>6. [w \in W |-> F[v][w]] = [w \in W |-> TookAs(v, w)]
    BY <1>7
  <2>7. [w \in W |-> TookAs(v, w)] = [w \in W |-> Total([u \in {x \in Threads : lab[x] = w} |-> f[u]])]
    BY <1>1, <2>1, <2>5 DEF TookAs
  <2> QED BY <2>1, <2>4, <2>6, <2>7
<1>12. Total([v \in V |-> Total([w \in W |-> F[v][w]])]) = Total([v \in V |-> Total(Took(v))])
  <2>1. [v \in V |-> Total([w \in W |-> F[v][w]])] = [v \in V |-> Total(Took(v))]
    BY <1>11
  <2> QED BY <2>1
<1>13. /\ AllPreemptors(n) = [w \in W |-> TookFrom(n, w)]
       /\ \A w : TookFrom(n, w) \in Nat
  <2>1. /\ \A w \in W : AllPreemptors(n)[w] = TookFrom(n, w)
        /\ \A w : TookFrom(n, w) \in Nat
        /\ DOMAIN AllPreemptors(n) = W
    BY <1>1, AllTell
  <2>2. AllPreemptors(n) = [w \in W |-> AllPreemptors(n)[w]]
    BY <1>1 DEF AllPreemptors
  <2> QED BY <2>1, <2>2
<1>14. [w \in W |-> TookFrom(n, w)] = [w \in W |-> Total([v \in V |-> F[v][w]])]
  <2>1. \A w \in W : [v \in V |-> F[v][w]] = [v \in V |-> TookAs(v, w)]
    BY <1>7
  <2> QED BY <1>1, <2>1 DEF TookFrom
<1>15. AllPreemptors(n) \in CountsOn(W)
  BY <1>13 DEF CountsOn
<1> QED BY <1>1, <1>5, <1>6, <1>10, <1>12, <1>13, <1>14, <1>15

LEMMA LabelIs ==
  ASSUME NEW scan, NEW b
  PROVE  LET x == LabelBy(scan, b) IN (x = <<"vm", x[2]>> /\ x[1] = "vm") \/ x[1] = "task"
<1>1. CASE VMOf[b] \in scan
  BY <1>1 DEF LabelBy
<1>2. CASE VMOf[b] \notin scan
  BY <1>2 DEF LabelBy
<1> QED BY <1>1, <1>2

\* The three parts of it.
LEMMA ThreeParts ==
  ASSUME ContInv, Settled, NEW n \in reading.refs
  PROVE  ByOtherVMs(n) + BySelf(n) + ByHost(n) = Total(AllPreemptors(n))
<1>1. PICK W, f, me : W = Labels(n) /\ f = AllPreemptors(n) /\ me = <<"vm", n>>
  OBVIOUS
<1>2. IsFiniteSet(W) /\ f \in CountsOn(W)
  BY <1>1, AllTell, AllIsCharged
<1>3. \A x \in W : (x = <<"vm", x[2]>> /\ x[1] = "vm") \/ x[1] = "task"
  <2> SUFFICES ASSUME NEW x \in W PROVE (x = <<"vm", x[2]>> /\ x[1] = "vm") \/ x[1] = "task"
    OBVIOUS
  <2>1. PICK v \in VCPUsOf(n) : x \in DOMAIN reading.by[v]
    BY <1>1 DEF Labels
  <2>2. v \in VCPUs /\ VMOf[v] \in reading.refs
    BY VCPUsOfIs
  <2>3. DOMAIN reading.by[v] \subseteq {LabelBy(reading.refs, b) : b \in Threads}
    BY <2>2, NamesTell
  <2>4. PICK b \in Threads : x = LabelBy(reading.refs, b)
    BY <2>1, <2>3
  <2>5. PICK scan : scan = reading.refs
    OBVIOUS
  <2>6. x = LabelBy(scan, b)
    BY <2>4, <2>5
  <2> QED BY <2>6, LabelIs
<1>4. PICK A, B, C, R : /\ A = {x \in W : x[1] = "vm" /\ x[2] # n} /\ B = {x \in W : x = me}
                        /\ C = {x \in W : x[1] = "task"} /\ R = B \cup C
  OBVIOUS
<1>5. me[1] = "vm" /\ me[2] = n
  BY <1>1
<1>6. A \cup R = W /\ A \cap R = {} /\ B \cap C = {} /\ R \subseteq W
  <2>1. A \subseteq W /\ R \subseteq W
    BY <1>4
  <2>2. ASSUME NEW x \in W PROVE x \in A \/ x \in R
    <3>1. CASE x[1] = "task"
      BY <1>4, <3>1
    <3>2. CASE x = <<"vm", x[2]>> /\ x[1] = "vm"
      <4>1. CASE x[2] = n
        BY <1>1, <1>4, <3>2, <4>1
      <4>2. CASE x[2] # n
        BY <1>4, <3>2, <4>2
      <4> QED BY <4>1, <4>2
    <3> QED BY <1>3, <3>1, <3>2
  <2>3. \A x : ~(x \in A /\ x \in R) /\ ~(x \in B /\ x \in C)
    BY <1>4, <1>5
  <2> QED BY <2>1, <2>2, <2>3
<1>7. /\ Total(f) = Total([u \in A |-> f[u]]) + Total([u \in R |-> f[u]])
      /\ Total([u \in A |-> f[u]]) \in Nat
  BY <1>2, <1>6, TotalSplit
<1>8. /\ Total([u \in R |-> f[u]]) = Total([u \in B |-> f[u]]) + Total([u \in C |-> f[u]])
      /\ Total([u \in B |-> f[u]]) \in Nat /\ Total([u \in C |-> f[u]]) \in Nat
  <2>1. PICK g : g = [u \in R |-> f[u]]
    OBVIOUS
  <2>2. g \in CountsOn(R) /\ IsFiniteSet(R)
    BY <1>2, <1>6, <2>1, PartType
  <2>3. Total(g) = Total([u \in B |-> g[u]]) + Total([u \in C |-> g[u]])
        /\ Total([u \in B |-> g[u]]) \in Nat /\ Total([u \in C |-> g[u]]) \in Nat
    <3>1. B \cup C = R /\ B \cap C = {}
      BY <1>4, <1>6
    <3> QED BY <2>2, <3>1, TotalSplit
  <2>4. [u \in B |-> g[u]] = [u \in B |-> f[u]] /\ [u \in C |-> g[u]] = [u \in C |-> f[u]]
    BY <1>4, <2>1
  <2> QED BY <2>1, <2>3, <2>4
<1>9. Total([u \in B |-> f[u]]) = BySelf(n)
  <2>1. BySelf(n) = NsOf(f, me)
    BY <1>1 DEF BySelf, Pair
  <2>2. DOMAIN f = W
    BY <1>2 DEF CountsOn
  <2>3. CASE me \in W
    <3>1. PICK g : g = [u \in B |-> f[u]]
      OBVIOUS
    <3>2. DOMAIN g = {me} /\ g[me] = f[me] /\ f[me] \in Nat
      BY <1>2, <1>4, <2>3, <3>1 DEF CountsOn
    <3>3. Total(g) = f[me]
      BY <3>2, TotalOne
    <3> QED BY <2>1, <2>2, <2>3, <3>1, <3>3 DEF NsOf
  <2>4. CASE me \notin W
    <3>1. B = {} /\ IsFiniteSet({})
      BY <1>4, <2>4, FS_EmptySet
    <3>2. Total([u \in B |-> f[u]]) = 0
      BY <3>1, TotalZero
    <3> QED BY <2>1, <2>2, <2>4, <3>2 DEF NsOf
  <2> QED BY <2>3, <2>4
<1>10. ByOtherVMs(n) = Total([u \in A |-> f[u]]) /\ ByHost(n) = Total([u \in C |-> f[u]])
  BY <1>1, <1>4 DEF ByOtherVMs, ByHost
<1> QED BY <1>1, <1>7, <1>8, <1>9, <1>10

LEMMA PairIsTrue ==
  ASSUME ContInv, Settled, NEW n \in reading.refs, NEW c \in reading.refs
  PROVE  Pair(n, c) = ReallyTaken(n, ThreadsOf(c))
<1>1. PICK w, T : w = <<"vm", c>> /\ T = ThreadsOf(c)
  OBVIOUS
<1>2. Fibre(reading.refs, w) = T
  <2>1. ASSUME NEW b \in Threads PROVE LabelBy(reading.refs, b) = w <=> VMOf[b] = c
    <3>1. CASE VMOf[b] \in reading.refs
      BY <1>1, <3>1 DEF LabelBy
    <3>2. CASE VMOf[b] \notin reading.refs
      <4>1. LabelBy(reading.refs, b) = <<"task", b>>
        BY <3>2 DEF LabelBy
      <4>2. <<"task", b>> # <<"vm", c>>
        OBVIOUS
      <4> QED BY <1>1, <3>2, <4>1, <4>2
    <3> QED BY <3>1, <3>2
  <2> QED BY <1>1, <2>1 DEF Fibre, ThreadsOf
<1>3. T \subseteq Threads
  BY <1>1 DEF ThreadsOf
<1>4. \A v : TookAs(v, w) = Total([b \in T |-> reading.taken[v][b] - earlier.taken[v][b]])
  <2>1. \A v : [b \in T |-> Took(v)[b]] = [b \in T |-> reading.taken[v][b] - earlier.taken[v][b]]
    BY <1>3 DEF Took
  <2> QED BY <1>2, <2>1 DEF TookAs
<1>5. TookFrom(n, w) = ReallyTaken(n, T)
  BY <1>4 DEF TookFrom, ReallyTaken
<1> QED BY <1>1, <1>5, AllTell DEF Pair

\* CPU contention (internal/state/contention.go, internal/state/verdict.go): whatever runs, is preempted,
\* starts, is missed by a scan or evicted, what trace contention charges to each VM, to the VM itself and to
\* the host over a settled window is what their threads took; the three parts add up to all that was lost;
\* and a VM that is named a noisy neighbour took half of it.
THEOREM ContentionTellsTheTruth == ContSpec => []ContentionIsTrue
<1>1. ContInv => ContTypeOK
  <2> SUFFICES ASSUME ContInv PROVE ContTypeOK
    OBVIOUS
  <2>1. /\ slices \in 0..MaxSlices /\ mishaps \in 0..MaxMishaps /\ MaxSlices \in Nat
        /\ up \subseteq Names /\ refs \subseteq Names /\ forgotten \in BOOLEAN
        /\ onCPU \in [VCPUs -> Nat] /\ \A v \in VCPUs : onCPU[v] <= slices
    BY ContentionAssumption DEF ContInv
  <2>2. /\ taken \in Grid /\ preemptBy \in Grid /\ preempt \in [VCPUs -> Nat]
        /\ \A v \in VCPUs : \A b \in Threads : preemptBy[v][b] <= taken[v][b]
        /\ \A v \in VCPUs : preempt[v] = Total(taken[v]) /\ preempt[v] <= slices
    BY DEF ContInv, CountsOK
  <2>3. \A v \in VCPUs : onCPU[v] \in 0..MaxSlices /\ preempt[v] \in 0..MaxSlices
    <3>1. \A v \in VCPUs : onCPU[v] \in Nat /\ preempt[v] \in Nat /\ onCPU[v] <= slices /\ preempt[v] <= slices
      BY <2>1, <2>2
    <3> QED BY <2>1, <3>1
  <2>4. ASSUME NEW v \in VCPUs PROVE Total(preemptBy[v]) <= preempt[v]
    <3>1. PICK f, h, g : f = preemptBy[v] /\ h = taken[v] /\ g = [u \in Threads |-> h[u] - f[u]]
      OBVIOUS
    <3>2. f \in CountsOn(Threads) /\ h \in CountsOn(Threads) /\ \A u \in Threads : f[u] <= h[u]
      BY <2>2, <3>1 DEF Grid
    <3>3. Total(f) <= Total(h)
      BY <3>1, <3>2, ThreadsFinite, TotalLess
    <3> QED BY <2>2, <3>1, <3>3
  <2> QED BY <2>1, <2>3, <2>4 DEF ContTypeOK
<1>2. ContInv => TakenIsTrue
  <2> SUFFICES ASSUME ContInv, Settled, NEW n \in Reported
               PROVE  /\ \A c \in Reported : Pair(n, c) = ReallyTaken(n, ThreadsOf(c))
                      /\ ByOtherVMs(n) + BySelf(n) + ByHost(n) = PreemptedNs(n)
                      /\ PreemptedNs(n) = ReallyTaken(n, Threads)
    BY DEF TakenIsTrue
  <2>1. Reported \subseteq reading.refs
    BY DEF Reported
  <2>2. n \in reading.refs
    BY <2>1
  <2>3. \A c \in Reported : Pair(n, c) = ReallyTaken(n, ThreadsOf(c))
    BY <2>1, <2>2, PairIsTrue
  <2> QED BY <2>2, <2>3, AllIsCharged, ThreeParts
<1>3. ContInv => NoisyIsTrue
  <2> SUFFICES ASSUME ContInv, Settled, NEW n \in Reported, NEW c \in NoisyNeighbours(n) \cap Reported
               PROVE  2 * ReallyTaken(n, ThreadsOf(c)) >= ReallyTaken(n, Threads)
    BY DEF NoisyIsTrue
  <2>1. n \in reading.refs /\ c \in reading.refs
    BY DEF Reported
  <2>2. PICK w : w = <<"vm", c>>
    OBVIOUS
  <2>3. w \in Labels(n) /\ MostOfIt(n, w)
    BY <2>2 DEF NoisyNeighbours
  <2>4. AllPreemptors(n)[w] = Pair(n, c)
    <3>1. NsOf(AllPreemptors(n), w) = TookFrom(n, w) /\ AllPreemptors(n)[w] = TookFrom(n, w)
      BY <2>1, <2>3, AllTell
    <3> QED BY <2>2, <3>1 DEF Pair
  <2>5. 2 * Pair(n, c) >= PreemptedNs(n)
    BY <2>3, <2>4 DEF MostOfIt
  <2>6. Pair(n, c) = ReallyTaken(n, ThreadsOf(c)) /\ PreemptedNs(n) = ReallyTaken(n, Threads)
    BY <2>1, PairIsTrue, AllIsCharged
  <2> QED BY <2>5, <2>6
<1>4. ContInv => ContentionIsTrue
  BY <1>1, <1>2, <1>3 DEF ContentionIsTrue
<1> QED BY <1>4, ContInvariant, PTL
=============================================================================
