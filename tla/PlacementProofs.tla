--------------------------- MODULE PlacementProofs --------------------------
(***************************************************************************)
(* The cut of the ranking is greedy for every tree that the range tree can *)
(* grow into, every number of folios in its ranges and every capacity.     *)
(***************************************************************************)
EXTENDS Placement, RangeTreeProofs

(* The state in which rt_rank() finds the tree.                             *)
Ranked == TypeOK /\ Tiling /\ LenExact

-----------------------------------------------------------------------------
(* Sums and sets of naturals.                                               *)

(* A bounded nonempty set of naturals has a greatest element.               *)
LEMMA GreatestNatural ==
  ASSUME NEW n \in Nat, NEW S, S \subseteq 0..n, S # {}
  PROVE  \E x \in S : \A y \in S : x >= y
<1> DEFINE T == {y \in 0..n : n - y \in S}
<1>1. PICK x \in S : TRUE
  OBVIOUS
<1>2. n - x \in T /\ T \subseteq Nat
  OBVIOUS
<1>3. PICK m \in T : \A y \in T : m <= y
  BY <1>2, LeastNatural
<1>4. n - m \in S /\ m \in Int
  BY <1>3
<1>5. ASSUME NEW y \in S PROVE n - m >= y
  <2>1. n - y \in T /\ y \in Int
    OBVIOUS
  <2>2. m <= n - y
    BY <1>3, <2>1
  <2> HIDE DEF T
  <2> QED
    BY <1>4, <2>1, <2>2
<1> QED
  BY <1>4, <1>5

(* A running total of naturals exists, and a loop that adds them up one by  *)
(* one computes it.                                                         *)
LEMMA TotalExists ==
  ASSUME NEW n \in Nat, NEW g \in [0..n -> Nat]
  PROVE  \E f \in [0..n -> Nat] :
           \A j \in 0..n : f[j] = (IF j = 0 THEN 0 ELSE f[j - 1]) + g[j]
<1> DEFINE Total(f, m) == \A j \in 0..m : f[j] = (IF j = 0 THEN 0 ELSE f[j - 1]) + g[j]
           T == {m \in 0..n : ~\E f \in [0..m -> Nat] : Total(f, m)}
<1>1. ASSUME NEW m \in T, \A k \in T : m <= k PROVE FALSE
  <2>0. m \in 0..n /\ ~\E f \in [0..m -> Nat] : Total(f, m)
    OBVIOUS
  <2>1. CASE m = 0
    <3> DEFINE h == [j \in 0..m |-> g[j]]
    <3>1. h \in [0..m -> Nat]
      BY <2>0
    <3>2. \A j \in 0..m : j = 0 /\ h[j] = g[j] /\ g[j] \in Nat
      <4>1. \A j \in 0..m : h[j] = g[j]
        OBVIOUS
      <4>2. \A j \in 0..m : j = 0 /\ j \in 0..n
        BY <2>0, <2>1
      <4> QED
        BY <4>1, <4>2
    <3>3. Total(h, m)
      <4> HIDE DEF h
      <4> QED
        BY <3>2
    <3> QED
      BY <2>0, <3>1, <3>3
  <2>2. CASE m > 0
    <3>1. m - 1 \in 0..n /\ m - 1 \notin T
      <4> HIDE DEF T
      <4> QED
        BY <1>1, <2>0, <2>2
    <3>2. PICK f \in [0..(m - 1) -> Nat] : Total(f, m - 1)
      BY <3>1
    <3> DEFINE h == [j \in 0..m |-> IF j = m THEN f[m - 1] + g[m] ELSE f[j]]
    <3>3. h \in [0..m -> Nat]
      BY <2>0, <2>2
    <3>4. Total(h, m)
      <4> SUFFICES ASSUME NEW j \in 0..m
                   PROVE  h[j] = (IF j = 0 THEN 0 ELSE h[j - 1]) + g[j]
        OBVIOUS
      <4>1. CASE j = m
        BY <2>0, <2>2, <4>1
      <4>2. CASE j # m
        BY <2>0, <2>2, <3>2, <4>2
      <4> QED
        BY <4>1, <4>2
    <3> QED
      BY <2>0, <3>3, <3>4
  <2> QED
    BY <2>0, <2>1, <2>2
<1>2. T \subseteq Nat
  OBVIOUS
<1>3. T = {}
  <2> HIDE DEF T
  <2> QED
    BY <1>1, <1>2, LeastNatural
<1>4. n \in 0..n
  OBVIOUS
<1> QED
  BY <1>3, <1>4

(* A running total of naturals is a natural throughout.                     *)
LEMMA TotalType ==
  ASSUME NEW n \in Nat, NEW g \in [0..n -> Nat], NEW f,
         \A j \in 0..n : f[j] = (IF j = 0 THEN 0 ELSE f[j - 1]) + g[j],
         NEW i \in 0..n
  PROVE  f[i] \in Nat
<1> DEFINE T == {j \in 0..n : f[j] \notin Nat}
<1>1. ASSUME NEW m \in T, \A k \in T : m <= k PROVE FALSE
  <2>0. m \in 0..n /\ f[m] \notin Nat /\ g[m] \in Nat
    OBVIOUS
  <2>1. CASE m = 0
    BY <2>0, <2>1
  <2>2. CASE m > 0
    <3>1. m - 1 \in 0..n /\ m - 1 \notin T
      BY <1>1, <2>0, <2>2
    <3>2. f[m - 1] \in Nat /\ f[m] = f[m - 1] + g[m]
      BY <2>0, <2>2, <3>1
    <3> QED
      BY <2>0, <3>2
  <2> QED
    BY <2>0, <2>1, <2>2
<1>2. T \subseteq Nat
  OBVIOUS
<1>3. T = {}
  <2> HIDE DEF T
  <2> QED
    BY <1>1, <1>2, LeastNatural
<1> QED
  BY <1>3

(* A running total never falls.                                             *)
LEMMA TotalMonotone ==
  ASSUME NEW n \in Nat, NEW g \in [0..n -> Nat], NEW f \in [0..n -> Nat],
         \A j \in 0..n : f[j] = (IF j = 0 THEN 0 ELSE f[j - 1]) + g[j],
         NEW i \in 0..n, NEW j \in 0..n, i <= j
  PROVE  f[i] <= f[j]
<1> DEFINE T == {k \in i..n : f[i] > f[k]}
<1>1. ASSUME NEW k \in T, \A l \in T : k <= l PROVE FALSE
  <2>1. k \in 0..n /\ k > i /\ f[i] > f[k] /\ f[i] \in Nat
    OBVIOUS
  <2>2. k - 1 \in i..n /\ k - 1 \notin T /\ k - 1 \in 0..n
    BY <1>1, <2>1
  <2>3. f[k] = f[k - 1] + g[k]
    BY <2>1
  <2>4. f[k - 1] \in Nat /\ g[k] \in Nat /\ f[i] <= f[k - 1]
    BY <2>1, <2>2, SMTT(30)
  <2> QED
    BY <2>1, <2>3, <2>4, SMTT(30)
<1>2. T \subseteq Nat
  OBVIOUS
<1>3. T = {}
  <2> HIDE DEF T
  <2> QED
    BY <1>1, <1>2, LeastNatural
<1>4. j \in i..n /\ f[i] \in Nat /\ f[j] \in Nat
  OBVIOUS
<1>5. ~(f[i] > f[j])
  BY <1>3, <1>4
<1> QED
  BY <1>4, <1>5

(* A set of the naturals below n that has, with each, all the smaller ones, *)
(* is an initial segment, as long as it has elements.                       *)
LEMMA Segment ==
  ASSUME NEW n \in Nat, NEW P, P \subseteq 0..(n - 1),
         \A i \in P : \A j \in 0..i : j \in P
  PROVE  Cardinality(P) \in 0..n /\ P = 0..(Cardinality(P) - 1)
<1> DEFINE T == (0..n) \ P
<1>1. T \subseteq Nat /\ n \in T
  OBVIOUS
<1>2. PICK c \in T : \A k \in T : c <= k
  BY <1>1, LeastNatural
<1>3. \A i \in 0..(c - 1) : i \in P
  BY <1>2
<1>4. \A i \in P : i < c
  BY <1>2
<1>5. P = 0..(c - 1)
  <2>1. \A i \in P : i \in 0..(c - 1)
    BY <1>2, <1>4
  <2> QED
    BY <1>3, <2>1
<1>6. Cardinality(0..(c - 1)) = c
  <2>1. 0 \in Int /\ c - 1 \in Int
    BY <1>2
  <2>2. Cardinality(0..(c - 1)) = IF 0 > c - 1 THEN 0 ELSE (c - 1) - 0 + 1
    BY <2>1, FS_Interval, Zenon
  <2> QED
    BY <1>2, <2>2
<1> QED
  BY <1>2, <1>5, <1>6

-----------------------------------------------------------------------------
(* The ranking.                                                             *)

(* The frequency of a range is a natural, and zero without accesses.        *)
LEMMA FreqFacts ==
  ASSUME Ranked, NEW s \in DOMAIN tree
  PROVE  /\ tree[s].nr \in Nat /\ tree[s].age \in Nat /\ s \in Nat
         /\ Freq(s) \in Nat /\ (tree[s].nr = 0 => Freq(s) = 0)
<1>1. /\ tree[s].nr \in Nat /\ tree[s].age \in Nat /\ s \in Nat
      /\ tree[s].end \in Nat /\ s < tree[s].end
  BY DEF Ranked, TypeOK, Tiling
<1>2. PICK d \in Nat : d = (tree[s].end - s) * Granularity + 1 /\ d > 0
  BY <1>1 DEF Granularity
<1>3. PICK x \in Nat : x = tree[s].nr * Granularity /\ (tree[s].nr = 0 => x = 0)
  BY <1>1 DEF Granularity
<1>4. x \div d \in Nat /\ (x = 0 => x \div d = 0)
  BY <1>2, SMT
<1> QED
  BY <1>1, <1>2, <1>3, <1>4 DEF Freq

(* rt_rank_cmp() is a strict total order, and a range that comes after one  *)
(* with accesses has accesses.                                              *)
LEMMA BeforeOrder ==
  ASSUME Ranked
  PROVE  /\ \A s \in DOMAIN tree : ~Before(s, s)
         /\ \A r, s \in DOMAIN tree : r = s \/ Before(r, s) \/ Before(s, r)
         /\ \A q, r, s \in DOMAIN tree : Before(q, r) /\ Before(r, s) => Before(q, s)
         /\ \A r, s \in DOMAIN tree : Before(r, s) /\ tree[r].nr > 0 => tree[s].nr > 0
<1>1. \A s \in DOMAIN tree :
        /\ tree[s].nr \in Nat /\ tree[s].age \in Nat /\ s \in Nat
        /\ Freq(s) \in Nat /\ (tree[s].nr = 0 => Freq(s) = 0)
  BY FreqFacts
<1> QED
  BY <1>1 DEF Before

Preceding(s) == {r \in DOMAIN tree : Before(r, s)}

(* As many ranges come before one as its place says: the number of those    *)
(* that precede it grows along the order and stays below self->len.         *)
LEMMA PrecedingFacts ==
  ASSUME Ranked
  PROVE  /\ \A s \in DOMAIN tree : Cardinality(Preceding(s)) \in 0..(len - 1)
         /\ \A r, s \in DOMAIN tree :
              Before(r, s) => Cardinality(Preceding(r)) < Cardinality(Preceding(s))
<1>1. IsFiniteSet(DOMAIN tree) /\ len = Cardinality(DOMAIN tree) /\ len \in Nat
  BY DEF Ranked, TypeOK, LenExact
<1>2. \A s \in DOMAIN tree :
        IsFiniteSet(Preceding(s)) /\ Cardinality(Preceding(s)) \in Nat
  <2> SUFFICES ASSUME NEW s \in DOMAIN tree
               PROVE  IsFiniteSet(Preceding(s)) /\ Cardinality(Preceding(s)) \in Nat
    OBVIOUS
  <2>1. Preceding(s) \in SUBSET DOMAIN tree
    BY DEF Preceding
  <2> QED
    BY <1>1, <2>1, FS_Subset, FS_CardinalityType
<1>3. ASSUME NEW s \in DOMAIN tree PROVE Cardinality(Preceding(s)) \in 0..(len - 1)
  <2>1. Preceding(s) \in SUBSET (DOMAIN tree \ {s})
    BY BeforeOrder DEF Preceding
  <2>2. IsFiniteSet(DOMAIN tree \ {s}) /\ Cardinality(DOMAIN tree \ {s}) = len - 1
    BY <1>1, FS_RemoveElement
  <2>3. Cardinality(Preceding(s)) <= len - 1
    BY <2>1, <2>2, FS_Subset
  <2> QED
    BY <1>1, <1>2, <2>3
<1>4. ASSUME NEW r \in DOMAIN tree, NEW s \in DOMAIN tree, Before(r, s)
      PROVE  Cardinality(Preceding(r)) < Cardinality(Preceding(s))
  <2>1. Preceding(r) \in SUBSET Preceding(s)
    BY <1>4, BeforeOrder DEF Preceding
  <2>2. Preceding(r) # Preceding(s)
    BY <1>4, BeforeOrder DEF Preceding
  <2>3. /\ Cardinality(Preceding(r)) <= Cardinality(Preceding(s))
        /\ Cardinality(Preceding(r)) # Cardinality(Preceding(s))
    BY <1>2, <2>1, <2>2, FS_Subset
  <2> QED
    BY <1>2, <2>3
<1> QED
  BY <1>3, <1>4

(* The array that rt_rank() fills has a range in every place, and sorted.   *)
LEMMA RankingFacts ==
  ASSUME Ranked
  PROVE  /\ Ranking \in [0..(len - 1) -> DOMAIN tree] /\ len \in Nat
         /\ \A i, j \in 0..(len - 1) :
              i <= j /\ tree[Ranking[i]].nr > 0 => tree[Ranking[j]].nr > 0
<1>1. IsFiniteSet(DOMAIN tree) /\ len = Cardinality(DOMAIN tree) /\ len \in Nat
  BY DEF Ranked, TypeOK, LenExact
<1> DEFINE place == [s \in DOMAIN tree |-> Cardinality(Preceding(s))]
<1>2. place \in Injection(DOMAIN tree, 0..(len - 1))
  <2>1. place \in [DOMAIN tree -> 0..(len - 1)]
    BY PrecedingFacts
  <2>2. ASSUME NEW r \in DOMAIN tree, NEW s \in DOMAIN tree, place[r] = place[s]
        PROVE  r = s
    <3>1. ~Before(r, s) /\ ~Before(s, r)
      <4>1. Cardinality(Preceding(r)) = Cardinality(Preceding(s))
        BY <2>2
      <4>2. Cardinality(Preceding(r)) \in Int
        BY PrecedingFacts
      <4> QED
        BY <4>1, <4>2, PrecedingFacts
    <3> QED
      BY <3>1, BeforeOrder
  <2> QED
    BY <2>1, <2>2 DEF Injection, IsInjective
<1>3. IsFiniteSet(0..(len - 1)) /\ Cardinality(0..(len - 1)) = len
  <2>1. 0 \in Int /\ len - 1 \in Int
    BY <1>1
  <2>2. /\ IsFiniteSet(0..(len - 1))
        /\ Cardinality(0..(len - 1)) = IF 0 > len - 1 THEN 0 ELSE (len - 1) - 0 + 1
    BY <2>1, FS_Interval, Zenon
  <2> QED
    BY <1>1, <2>2
<1>4. place \in Surjection(DOMAIN tree, 0..(len - 1))
  BY <1>1, <1>2, <1>3, FS_Injection
<1>5. \A i \in 0..(len - 1) : \E s \in DOMAIN tree : Cardinality(Preceding(s)) = i
  BY <1>4 DEF Surjection
<1>6. \A i \in 0..(len - 1) :
        Ranking[i] \in DOMAIN tree /\ Cardinality(Preceding(Ranking[i])) = i
  BY <1>5 DEF Ranking, Preceding
<1>7. Ranking \in [0..(len - 1) -> DOMAIN tree]
  BY <1>6 DEF Ranking
<1>8. ASSUME NEW i \in 0..(len - 1), NEW j \in 0..(len - 1), i <= j,
             tree[Ranking[i]].nr > 0
      PROVE  tree[Ranking[j]].nr > 0
  <2>1. ~Before(Ranking[j], Ranking[i])
    BY <1>6, <1>8, PrecedingFacts
  <2> QED
    BY <1>6, <1>8, <2>1, BeforeOrder
<1> QED
  BY <1>1, <1>7, <1>8

(* rt_rank() shortens the array, by less than its length.                   *)
LEMMA RankLenFacts ==
  ASSUME Ranked
  PROVE  RankLen(Ranking) \in 0..len
<1> DEFINE warm == {i \in DOMAIN Ranking : ~ShouldCool(Ranking[i])}
<1>1. warm \subseteq 0..(len - 1) /\ len \in Nat
  BY RankingFacts
<1>2. CASE warm = {}
  BY <1>1, <1>2 DEF RankLen
<1>3. CASE warm # {}
  <2>1. len - 1 \in Nat
    BY <1>1, <1>3
  <2>2. \E x \in warm : \A y \in warm : x >= y
    BY <1>1, <1>3, <2>1, GreatestNatural
  <2>3. Max(warm) \in warm
    BY <2>2 DEF Max
  <2>4. RankLen(Ranking) = Max(warm) + 1
    BY <1>3 DEF RankLen
  <2> QED
    BY <1>1, <2>3, <2>4
<1> QED
  BY <1>2, <1>3

-----------------------------------------------------------------------------
(* The cut.                                                                 *)

(* fmem is the running total of what the iterations add.                    *)
LEMMA FilledFacts ==
  ASSUME Ranked, NEW rlen \in 0..len, NEW inSmem \in [DOMAIN tree -> 0..MaxInSmem]
  PROVE  /\ \A i \in 0..(rlen - 1) : Filled(Ranking, rlen, inSmem)[i] \in Nat
         /\ \A i, j \in 0..(rlen - 1) :
              i <= j => Filled(Ranking, rlen, inSmem)[i] <= Filled(Ranking, rlen, inSmem)[j]
         /\ \A i \in 0..(rlen - 1) :
              Filled(Ranking, rlen, inSmem)[i] =
                (IF i = 0 THEN 0 ELSE Filled(Ranking, rlen, inSmem)[i - 1])
                  + (inSmem[Ranking[rlen - 1 - i]] + inSmem[Ranking[rlen - 1 - i]])
<1> DEFINE g == [i \in 0..(rlen - 1) |->
                   inSmem[Ranking[rlen - 1 - i]] + inSmem[Ranking[rlen - 1 - i]]]
           fmem == Filled(Ranking, rlen, inSmem)
           Total(f) == \A i \in 0..(rlen - 1) : f[i] = (IF i = 0 THEN 0 ELSE f[i - 1]) + g[i]
<1>1. Ranking \in [0..(len - 1) -> DOMAIN tree] /\ len \in Nat /\ rlen \in Nat
  BY RankingFacts
<1>2. CASE rlen = 0
  <2>1. 0..(rlen - 1) = {}
    BY <1>2
  <2> QED
    BY <2>1
<1>3. CASE rlen > 0
  <2>1. rlen - 1 \in Nat
    BY <1>1, <1>3
  <2>2. \A i \in 0..(rlen - 1) : inSmem[Ranking[rlen - 1 - i]] \in Nat
    BY <1>1, PlacementAssumption
  <2>3. g \in [0..(rlen - 1) -> Nat]
    BY <2>2
  <2>4. PICK f \in [0..(rlen - 1) -> Nat] : Total(f)
    <3> HIDE DEF g
    <3> QED
      BY <2>1, <2>3, TotalExists
  <2>5. f = [i \in 0..(rlen - 1) |->
               (IF i = 0 THEN 0 ELSE f[i - 1])
                 + (inSmem[Ranking[rlen - 1 - i]] + inSmem[Ranking[rlen - 1 - i]])]
    BY <2>4
  <2>6. fmem = [i \in 0..(rlen - 1) |->
                  (IF i = 0 THEN 0 ELSE fmem[i - 1])
                    + (inSmem[Ranking[rlen - 1 - i]] + inSmem[Ranking[rlen - 1 - i]])]
    BY <2>5 DEF Filled
  <2> HIDE DEF fmem
  <2>7. Total(fmem)
    BY <2>6
  <2>11. \A i \in 0..(rlen - 1) :
           fmem[i] = (IF i = 0 THEN 0 ELSE fmem[i - 1])
                       + (inSmem[Ranking[rlen - 1 - i]] + inSmem[Ranking[rlen - 1 - i]])
    BY <2>6
  <2> HIDE DEF g
  <2>8. \A i \in 0..(rlen - 1) : fmem[i] \in Nat
    BY <2>1, <2>3, <2>7, TotalType
  <2>9. fmem \in [0..(rlen - 1) -> Nat]
    BY <2>6, <2>8
  <2>10. \A i, j \in 0..(rlen - 1) : i <= j => fmem[i] <= fmem[j]
    BY <2>1, <2>3, <2>7, <2>9, TotalMonotone
  <2> QED
    BY <2>8, <2>10, <2>11 DEF fmem
<1> QED
  BY <1>1, <1>2, <1>3

(* The slow folios of one range of the ranking.                             *)
FoliosOf(inSmem, k) == {k} \X (1..inSmem[Ranking[k]])

LEMMA FoliosOfFacts ==
  ASSUME Ranked, NEW inSmem \in [DOMAIN tree -> 0..MaxInSmem],
         NEW k \in 0..(len - 1)
  PROVE  /\ IsFiniteSet(FoliosOf(inSmem, k))
         /\ Cardinality(FoliosOf(inSmem, k)) = inSmem[Ranking[k]]
         /\ inSmem[Ranking[k]] \in Nat /\ inSmem[Ranking[k]] <= MaxInSmem
<1>1. Ranking[k] \in DOMAIN tree
  BY RankingFacts
<1>2. PICK n \in Nat : n = inSmem[Ranking[k]] /\ n <= MaxInSmem
  BY <1>1, PlacementAssumption
<1>3. IsFiniteSet(1..n) /\ Cardinality(1..n) = n
  <2>1. 1 \in Int /\ n \in Int
    OBVIOUS
  <2>2. IsFiniteSet(1..n) /\ Cardinality(1..n) = IF 1 > n THEN 0 ELSE n - 1 + 1
    BY <2>1, FS_Interval, Zenon
  <2> QED
    BY <2>2
<1>4. IsFiniteSet({k}) /\ Cardinality({k}) = 1
  BY FS_Singleton
<1>5. IsFiniteSet({k} \X (1..n)) /\ Cardinality({k} \X (1..n)) = 1 * n
  BY <1>3, <1>4, FS_Product
<1> QED
  BY <1>2, <1>5 DEF FoliosOf

(* The loop's running total is twice the number of slow folios above.       *)
LEMMA FilledCounts ==
  ASSUME Ranked, NEW rlen \in 0..len, NEW inSmem \in [DOMAIN tree -> 0..MaxInSmem],
         NEW k \in 0..(rlen - 1)
  PROVE  Filled(Ranking, rlen, inSmem)[rlen - 1 - k]
           = 2 * Cardinality(SlowFolios(Ranking, rlen, inSmem, k))
<1> DEFINE fmem == Filled(Ranking, rlen, inSmem)
           F(j) == SlowFolios(Ranking, rlen, inSmem, rlen - 1 - j)
           Good(j) == IsFiniteSet(F(j)) /\ fmem[j] = 2 * Cardinality(F(j))
           T == {j \in 0..(rlen - 1) : ~Good(j)}
<1>1. rlen \in Nat /\ len \in Nat /\ rlen > 0 /\ rlen - 1 \in 0..(len - 1)
  BY RankingFacts
<1>2. \A j \in 0..(rlen - 1) :
        /\ fmem[j] \in Nat
        /\ fmem[j] = (IF j = 0 THEN 0 ELSE fmem[j - 1])
                      + (inSmem[Ranking[rlen - 1 - j]] + inSmem[Ranking[rlen - 1 - j]])
  BY FilledFacts
<1> HIDE DEF fmem
<1>3. \A j \in 0..(rlen - 1) :
        /\ rlen - 1 - j \in 0..(len - 1)
        /\ IsFiniteSet(FoliosOf(inSmem, rlen - 1 - j))
        /\ Cardinality(FoliosOf(inSmem, rlen - 1 - j)) = inSmem[Ranking[rlen - 1 - j]]
        /\ inSmem[Ranking[rlen - 1 - j]] \in Nat
  <2> SUFFICES ASSUME NEW j \in 0..(rlen - 1)
               PROVE  /\ rlen - 1 - j \in 0..(len - 1)
                      /\ IsFiniteSet(FoliosOf(inSmem, rlen - 1 - j))
                      /\ Cardinality(FoliosOf(inSmem, rlen - 1 - j))
                           = inSmem[Ranking[rlen - 1 - j]]
                      /\ inSmem[Ranking[rlen - 1 - j]] \in Nat
    OBVIOUS
  <2>1. rlen - 1 - j \in 0..(len - 1)
    BY <1>1
  <2> QED
    BY <2>1, FoliosOfFacts
<1>4. F(0) = FoliosOf(inSmem, rlen - 1)
  <2>1. inSmem[Ranking[rlen - 1]] \in Nat /\ inSmem[Ranking[rlen - 1]] <= MaxInSmem
    BY <1>1, FoliosOfFacts
  <2> QED
    BY <1>1, <2>1, PlacementAssumption DEF SlowFolios, FoliosOf
<1>5. ASSUME NEW j \in 1..(rlen - 1)
      PROVE  /\ F(j) = F(j - 1) \cup FoliosOf(inSmem, rlen - 1 - j)
             /\ F(j - 1) \cap FoliosOf(inSmem, rlen - 1 - j) = {}
  <2>1. rlen - 1 - j \in 0..(len - 1) /\ rlen - 1 - (j - 1) = rlen - 1 - j + 1
    BY <1>1
  <2>2. /\ inSmem[Ranking[rlen - 1 - j]] \in Nat
        /\ inSmem[Ranking[rlen - 1 - j]] <= MaxInSmem
    BY <2>1, FoliosOfFacts
  <2>3. ((rlen - 1 - j) .. (rlen - 1))
          = ((rlen - 1 - (j - 1)) .. (rlen - 1)) \cup {rlen - 1 - j}
    BY <1>1
  <2>4. rlen - 1 - j \notin ((rlen - 1 - (j - 1)) .. (rlen - 1))
    BY <1>1
  <2> QED
    BY <2>2, <2>3, <2>4, PlacementAssumption DEF SlowFolios, FoliosOf
<1> HIDE DEF F
<1>6. ASSUME NEW m \in T, \A j \in T : m <= j PROVE FALSE
  <2>0. m \in 0..(rlen - 1) /\ ~Good(m)
    OBVIOUS
  <2>1. CASE m = 0
    <3>1. Cardinality(F(0)) = inSmem[Ranking[rlen - 1 - 0]] /\ IsFiniteSet(F(0))
      BY <1>1, <1>3, <1>4, <2>0, <2>1
    <3> QED
      BY <1>2, <1>3, <2>0, <2>1, <3>1
  <2>2. CASE m > 0
    <3>1. m - 1 \in 0..(rlen - 1) /\ m - 1 \notin T /\ m \in 1..(rlen - 1)
      <4> HIDE DEF T
      <4> QED
        BY <1>1, <1>6, <2>0, <2>2
    <3>2. Good(m - 1)
      BY <3>1
    <3> DEFINE G == FoliosOf(inSmem, rlen - 1 - m)
    <3>3. IsFiniteSet(G) /\ Cardinality(G) = inSmem[Ranking[rlen - 1 - m]]
      BY <1>3, <2>0
    <3>4. F(m) = F(m - 1) \cup G /\ F(m - 1) \cap G = {}
      BY <1>5, <3>1
    <3> HIDE DEF G
    <3>5. /\ IsFiniteSet(F(m))
          /\ Cardinality(F(m)) = Cardinality(F(m - 1)) + Cardinality(G)
               - Cardinality(F(m - 1) \cap G)
      BY <3>2, <3>3, <3>4, FS_Union
    <3>6. Cardinality(F(m - 1)) \in Nat /\ Cardinality(F(m - 1) \cap G) = 0
      BY <3>2, <3>4, FS_CardinalityType, FS_EmptySet
    <3>7. fmem[m] = fmem[m - 1] + (inSmem[Ranking[rlen - 1 - m]]
                                     + inSmem[Ranking[rlen - 1 - m]])
      BY <1>2, <2>0, <2>2
    <3>8. fmem[m] = 2 * Cardinality(F(m))
      BY <1>3, <2>0, <3>2, <3>3, <3>5, <3>6, <3>7
    <3> QED
      BY <2>0, <3>5, <3>8
  <2> QED
    BY <2>0, <2>1, <2>2
<1>7. T \subseteq Nat
  OBVIOUS
<1>8. T = {}
  <2> HIDE DEF T
  <2> QED
    BY <1>6, <1>7, LeastNatural
<1>9. rlen - 1 - k \in 0..(rlen - 1) /\ rlen - 1 - (rlen - 1 - k) = k
  BY <1>1
<1>10. Good(rlen - 1 - k)
  BY <1>8, <1>9
<1> QED
  BY <1>9, <1>10 DEF F, fmem

(* Room and an access: the iterations that move the cut.                    *)
Counting(rlen, inSmem, avail) ==
  {i \in 0..(rlen - 1) : /\ avail > Filled(Ranking, rlen, inSmem)[i]
                         /\ tree[Ranking[rlen - 1 - i]].nr > 0}

(* They are the first ones: once an iteration does not move the cut, none   *)
(* of the later ones does, because the total has grown and the ranges have  *)
(* become colder.                                                           *)
LEMMA CountingFacts ==
  ASSUME Ranked, NEW rlen \in 0..len, NEW inSmem \in [DOMAIN tree -> 0..MaxInSmem],
         NEW avail \in 0..MaxAvail
  PROVE  LET c == Cardinality(Counting(rlen, inSmem, avail))
         IN  c \in 0..rlen /\ Counting(rlen, inSmem, avail) = 0..(c - 1)
<1> DEFINE P == Counting(rlen, inSmem, avail)
           fmem == Filled(Ranking, rlen, inSmem)
<1>1. rlen \in Nat /\ len \in Nat /\ avail \in Nat
  BY RankingFacts, PlacementAssumption
<1>2. P \subseteq 0..(rlen - 1)
  BY DEF Counting
<1>3. ASSUME NEW i \in P, NEW j \in 0..i PROVE j \in P
  <2>1. i \in 0..(rlen - 1) /\ avail > fmem[i] /\ tree[Ranking[rlen - 1 - i]].nr > 0
    BY DEF Counting
  <2>2. j \in 0..(rlen - 1) /\ j <= i
    BY <1>1, <2>1
  <2>3. fmem[j] <= fmem[i] /\ fmem[j] \in Nat /\ fmem[i] \in Nat
    BY <2>1, <2>2, FilledFacts
  <2>4. avail > fmem[j]
    <3> HIDE DEF fmem
    <3> QED
      BY <1>1, <2>1, <2>3
  <2>5. /\ rlen - 1 - i \in 0..(len - 1) /\ rlen - 1 - j \in 0..(len - 1)
        /\ rlen - 1 - i <= rlen - 1 - j
    BY <1>1, <2>1, <2>2
  <2>6. tree[Ranking[rlen - 1 - j]].nr > 0
    BY <2>1, <2>5, RankingFacts
  <2> QED
    BY <2>2, <2>4, <2>6 DEF Counting
<1> HIDE DEF P
<1>4. Cardinality(P) \in 0..rlen /\ P = 0..(Cardinality(P) - 1)
  BY <1>1, <1>2, <1>3, Segment
<1> QED
  BY <1>4 DEF P

(* The cut is the lowest index from which all ranges fit.                   *)
LEMMA CutIsGreedy ==
  ASSUME Ranked, NEW rlen \in 0..len, NEW inSmem \in [DOMAIN tree -> 0..MaxInSmem],
         NEW avail \in 0..MaxAvail
  PROVE  Cut(Ranking, rlen, inSmem, avail) =
           Min({k \in 0..rlen :
                  /\ \A i \in k..(rlen - 1) : tree[Ranking[i]].nr > 0
                  /\ k < rlen => Filled(Ranking, rlen, inSmem)[rlen - 1 - k] < avail})
<1> DEFINE P == Counting(rlen, inSmem, avail)
           c == Cardinality(P)
           fmem == Filled(Ranking, rlen, inSmem)
           K == {k \in 0..rlen : /\ \A i \in k..(rlen - 1) : tree[Ranking[i]].nr > 0
                                 /\ k < rlen => fmem[rlen - 1 - k] < avail}
<1>1. rlen \in Nat /\ avail \in Nat /\ c \in 0..rlen /\ P = 0..(c - 1)
  BY RankingFacts, PlacementAssumption, CountingFacts, SMTT(60)
<1>2. \A i \in 0..(rlen - 1) :
        i \in P <=> avail > fmem[i] /\ tree[Ranking[rlen - 1 - i]].nr > 0
  BY DEF Counting
<1>3. Cut(Ranking, rlen, inSmem, avail) = rlen - c
  BY DEF Cut, Counting
<1>4. \A i \in 0..(rlen - 1) : fmem[i] \in Nat
  BY FilledFacts
<1> HIDE DEF fmem, P
<1>5. ASSUME NEW k \in K PROVE k >= rlen - c
  <2>1. k \in 0..rlen
    OBVIOUS
  <2>2. CASE k = rlen
    BY <1>1, <2>2
  <2>3. CASE k < rlen
    <3>1. k \in k..(rlen - 1) /\ fmem[rlen - 1 - k] < avail /\ tree[Ranking[k]].nr > 0
      BY <1>1, <2>1, <2>3
    <3>2. rlen - 1 - k \in 0..(rlen - 1) /\ rlen - 1 - (rlen - 1 - k) = k
      BY <1>1, <2>1, <2>3
    <3>3. avail > fmem[rlen - 1 - k]
      BY <1>1, <1>4, <3>1, <3>2
    <3>4. rlen - 1 - k \in P
      BY <1>2, <3>1, <3>2, <3>3
    <3> QED
      BY <1>1, <2>1, <3>4
  <2> QED
    BY <1>1, <2>1, <2>2, <2>3
<1>6. rlen - c \in K
  <2>1. rlen - c \in 0..rlen
    BY <1>1
  <2>2. ASSUME NEW i \in (rlen - c)..(rlen - 1) PROVE tree[Ranking[i]].nr > 0
    <3>1. rlen - 1 - i \in 0..(rlen - 1) /\ rlen - 1 - i \in P /\ rlen - 1 - (rlen - 1 - i) = i
      BY <1>1
    <3> QED
      BY <1>2, <3>1
  <2>3. ASSUME rlen - c < rlen PROVE fmem[rlen - 1 - (rlen - c)] < avail
    <3>1. rlen - 1 - (rlen - c) \in 0..(rlen - 1) /\ rlen - 1 - (rlen - c) \in P
      BY <1>1, <2>3
    <3> QED
      BY <1>1, <1>2, <1>4, <3>1
  <2> QED
    BY <2>1, <2>2, <2>3
<1>7. \A k \in K : k \in Int
  OBVIOUS
<1> HIDE DEF K
<1>8. Min(K) = rlen - c
  <2>1. \A k \in K : rlen - c <= k
    BY <1>1, <1>5, <1>7
  <2>2. \A x \in K : (\A y \in K : x <= y) => x = rlen - c
    BY <1>1, <1>6, <1>7, <2>1
  <2> QED
    BY <1>6, <2>1, <2>2 DEF Min
<1> QED
  BY <1>3, <1>8 DEF K, fmem

(* Whatever accesses, splits and decays have made of the tree, whatever     *)
(* in_smem says of its ranges and however large the fast node is, the loop  *)
(* of policy_send_exch_reqs() finds the longest run of the hottest ranges   *)
(* that were all accessed and twice whose slow folios stay below the size   *)
(* of the node: counting the iterations is right because the total only     *)
(* grows and heat only falls along the way.                                 *)
THEOREM CutHolds == Spec => []CutGreedy
<1>1. Ranked => CutGreedy
  <2> SUFFICES ASSUME Ranked,
                      NEW inSmem \in [DOMAIN tree -> 0..MaxInSmem],
                      NEW avail \in 0..MaxAvail
               PROVE  Cut(Ranking, RankLen(Ranking), inSmem, avail) =
                        Min({k \in 0..RankLen(Ranking) :
                               /\ \A i \in k..(RankLen(Ranking) - 1) : tree[Ranking[i]].nr > 0
                               /\ k < RankLen(Ranking) =>
                                    2 * Cardinality(SlowFolios(Ranking, RankLen(Ranking),
                                                               inSmem, k)) < avail})
    BY DEF CutGreedy
  <2>1. PICK rlen \in 0..len : rlen = RankLen(Ranking)
    BY RankLenFacts
  <2> DEFINE Filling(k) == /\ \A i \in k..(rlen - 1) : tree[Ranking[i]].nr > 0
                           /\ k < rlen => Filled(Ranking, rlen, inSmem)[rlen - 1 - k] < avail
             Passing(k) == /\ \A i \in k..(rlen - 1) : tree[Ranking[i]].nr > 0
                           /\ k < rlen =>
                                2 * Cardinality(SlowFolios(Ranking, rlen, inSmem, k)) < avail
  <2>2. ASSUME NEW k \in 0..rlen PROVE Filling(k) <=> Passing(k)
    <3>1. CASE k < rlen
      <4>1. k \in 0..(rlen - 1)
        BY <3>1, RankingFacts
      <4> QED
        BY <4>1, FilledCounts
    <3>2. CASE ~(k < rlen)
      BY <3>2
    <3> QED
      BY <3>1, <3>2
  <2>3. {k \in 0..rlen : Filling(k)} = {k \in 0..rlen : Passing(k)}
    <3> HIDE DEF Filling, Passing
    <3> QED
      BY <2>2
  <2>4. Cut(Ranking, rlen, inSmem, avail) = Min({k \in 0..rlen : Filling(k)})
    BY CutIsGreedy
  <2> QED
    BY <2>1, <2>3, <2>4
<1>2. TypeOK /\ Shape => Ranked
  BY DEF Ranked, Shape
<1> QED
  BY <1>1, <1>2, ShapeHolds, PTL

=============================================================================
