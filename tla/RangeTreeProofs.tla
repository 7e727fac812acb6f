--------------------------- MODULE RangeTreeProofs --------------------------
(***************************************************************************)
(* The range tree stays a tiling of the two regions, and rt_split() walks  *)
(* it in order while it changes it, for regions of any size, any threshold *)
(* and any limit on the number of ranges.                                  *)
(***************************************************************************)
EXTENDS RangeTree, FiniteSetTheorems, WellFoundedInduction, TLAPS

-----------------------------------------------------------------------------
(* Facts about the helpers.                                                 *)

(* A nonempty set of naturals has a least element.                          *)
LEMMA LeastNatural ==
  ASSUME NEW S, S \subseteq Nat, S # {}
  PROVE  \E x \in S : \A y \in S : x <= y
<1>1. PICK x \in S : \A y \in S : <<y, x>> \notin OpToRel(<, Nat)
  BY NatLessThanWellFounded, WFMin
<1>2. \A y \in S : ~(y < x)
  BY <1>1 DEF OpToRel
<1> QED
  BY <1>2

(* Find() is the first range that ends above i, or None if there is none.   *)
LEMMA FindFacts ==
  ASSUME NEW t, DOMAIN t \subseteq Nat, NEW i
  PROVE  \/ From(t, i) = {} /\ Find(t, i) = None
         \/ /\ From(t, i) # {} /\ Find(t, i) \in From(t, i)
            /\ \A r \in From(t, i) : Find(t, i) <= r
<1>1. CASE From(t, i) = {}
  BY <1>1 DEF Find
<1>2. CASE From(t, i) # {}
  <2>1. \E s \in From(t, i) : \A r \in From(t, i) : s <= r
    BY <1>2, LeastNatural DEF From
  <2> QED
    BY <1>2, <2>1 DEF Find
<1> QED
  BY <1>1, <1>2

(* The middle of a range of two granules or more lies inside it, and no     *)
(* other range starts there.                                                *)
LEMMA MidFacts ==
  ASSUME TypeOK, Tiling, NEW c \in DOMAIN tree, ShouldSplit(c)
  PROVE  /\ Mid(c) \in Nat /\ c < Mid(c) /\ Mid(c) < tree[c].end
         /\ Mid(c) \notin DOMAIN tree
         /\ c \in Nat /\ tree[c].end \in Nat
<1>1. c \in Nat /\ tree[c].end \in Nat /\ tree[c].end - c >= 2
  BY DEF TypeOK, ShouldSplit, SplitN
<1>2. Mid(c) \in Nat /\ c < Mid(c) /\ Mid(c) < tree[c].end
  BY <1>1 DEF Mid, SplitN
<1>3. ASSUME Mid(c) \in DOMAIN tree PROVE FALSE
  BY <1>1, <1>2, <1>3 DEF Tiling
<1> QED
  BY <1>1, <1>2, <1>3

(* What a split makes of the tree.                                          *)
LEMMA HalvesFacts ==
  ASSUME TypeOK, NEW c \in DOMAIN tree, Mid(c) \notin DOMAIN tree
  PROVE  /\ DOMAIN Halves(c) = DOMAIN tree \cup {Mid(c)}
         /\ Halves(c)[c].end = Mid(c)
         /\ Halves(c)[Mid(c)].end = tree[c].end
         /\ \A s \in DOMAIN tree \ {c} : Halves(c)[s] = tree[s]
BY DEF Halves, Mrange


(* The two regions of a new tree.                                           *)
LEMMA TwoRegions ==
  /\ IsFiniteSet({HeapStart, MmapStart}) /\ Cardinality({HeapStart, MmapStart}) = 2
<1>1. {HeapStart, MmapStart} = {HeapStart} \cup {MmapStart} /\ MmapStart \notin {HeapStart}
  BY RegionAssumption
<1>2. IsFiniteSet({HeapStart}) /\ Cardinality({HeapStart}) = 1
  BY FS_Singleton
<1> QED
  BY <1>1, <1>2, FS_AddElement

-----------------------------------------------------------------------------
(* Types.                                                                   *)

(* The tree that worker_policy() sets up is well typed.                     *)
LEMMA TypeInit == Init => TypeOK
<1> SUFFICES ASSUME Init PROVE TypeOK
  OBVIOUS
<1>1. DOMAIN tree = {HeapStart, MmapStart}
  BY DEF Init
<1>2. DOMAIN tree \subseteq Nat /\ IsFiniteSet(DOMAIN tree)
  BY <1>1, RegionAssumption, TwoRegions
<1>3. tree \in [DOMAIN tree -> [end : Nat, age : Nat, nr : Nat]]
  BY RegionAssumption DEF Init, Mrange
<1>4. len \in Nat /\ age \in Nat /\ minRange \in Nat /\ index \in Nat /\ counted \in Nat
  BY RegionAssumption DEF Init
<1> QED
  BY <1>1, <1>2, <1>3, <1>4 DEF Init, TypeOK

(* The least range found is a range or None, and the index it leaves is one.*)
LEMMA FindType ==
  ASSUME NEW t, DOMAIN t \subseteq Nat, \A s \in DOMAIN t : t[s].end \in Nat, NEW i \in Nat
  PROVE  Find(t, i) \in DOMAIN t \cup {None} /\ Resume(t, Find(t, i), i) \in Nat
BY FindFacts DEF From, Resume

(* Splitting a range gives a well typed tree.                               *)
LEMMA SplitType ==
  ASSUME TypeOK, NEW c \in DOMAIN tree, ShouldSplit(c), Split(c)
  PROVE  /\ tree' \in [DOMAIN tree' -> [end : Nat, age : Nat, nr : Nat]]
         /\ DOMAIN tree' = DOMAIN tree \cup {Mid(c)} /\ Mid(c) \in Nat
         /\ DOMAIN tree' \subseteq Nat /\ IsFiniteSet(DOMAIN tree')
         /\ len' \in Nat /\ age' \in Nat /\ minRange' \in Nat
<1>1. /\ c \in Nat /\ tree[c].end \in Nat /\ tree[c].nr \in Nat
      /\ tree[c].end - c >= 2 /\ age \in Nat /\ len \in Nat /\ minRange \in Nat
  BY DEF TypeOK, ShouldSplit, SplitN
<1>2. Mid(c) \in Nat /\ c < Mid(c) /\ Mid(c) < tree[c].end
  BY <1>1 DEF Mid, SplitN
<1>3. Share(tree[c].nr) \in Nat
  BY <1>1 DEF Share, SplitN
<1>4. DOMAIN tree' = DOMAIN tree \cup {Mid(c)}
  BY DEF Split, Halves
<1>5. /\ Mrange(Mid(c), age + 1, Share(tree[c].nr)) \in [end : Nat, age : Nat, nr : Nat]
      /\ Mrange(tree[c].end, age + 1, Share(tree[c].nr)) \in [end : Nat, age : Nat, nr : Nat]
  BY <1>1, <1>2, <1>3 DEF Mrange
<1>6. tree' \in [DOMAIN tree' -> [end : Nat, age : Nat, nr : Nat]]
  BY <1>4, <1>5 DEF Split, Halves, TypeOK
<1>7. IsFiniteSet(DOMAIN tree')
  BY <1>4, FS_AddElement DEF TypeOK
<1>8. len' \in Nat /\ age' \in Nat /\ minRange' \in Nat
  BY <1>1, <1>2 DEF Split, SplitN, SmallerHalf, Least
<1> QED
  BY <1>2, <1>4, <1>6, <1>7, <1>8 DEF TypeOK

(* Every step keeps the types.                                              *)
LEMMA TypeStep == TypeOK /\ [Next]_vars => TypeOK'
<1> SUFFICES ASSUME TypeOK, [Next]_vars PROVE TypeOK'
  OBVIOUS
<1>0. \A s \in DOMAIN tree : tree[s] \in [end : Nat, age : Nat, nr : Nat]
  BY DEF TypeOK
<1>1. ASSUME NEW addr \in 0..MmapEnd, Count(addr) PROVE TypeOK'
  <2>1. CASE UNCHANGED <<tree, counted>>
    BY <1>1, <2>1 DEF Count, TypeOK, walkVars
  <2>2. CASE /\ Find(tree, addr) # None
             /\ tree' = [tree EXCEPT ![Find(tree, addr)].nr = @ + 1]
             /\ counted' = counted + 1
    <3>1. Find(tree, addr) \in DOMAIN tree
      BY <2>2, <1>0, RegionAssumption, FindType DEF TypeOK
    <3>2. tree' \in [DOMAIN tree -> [end : Nat, age : Nat, nr : Nat]]
      BY <1>0, <2>2, <3>1 DEF TypeOK
    <3>3. DOMAIN tree' = DOMAIN tree
      BY <3>2
    <3> QED
      BY <1>1, <2>2, <3>2, <3>3 DEF Count, TypeOK, walkVars
  <2> QED
    BY <1>1, <2>1, <2>2 DEF Count
<1>2. CASE SplitBegin
  <2>1. /\ tree' \in [DOMAIN tree -> [end : Nat, age : Nat, nr : Nat]]
        /\ DOMAIN tree' = DOMAIN tree
    BY <1>0, <1>2 DEF SplitBegin, Decay, TypeOK
  <2>2. /\ curr' \in DOMAIN tree \cup {None} /\ Resume(tree, curr', 0) \in Nat
        /\ next' \in DOMAIN tree \cup {None} /\ index' \in Nat
    BY <1>0, <1>2, FindType DEF SplitBegin, TypeOK
  <2> QED
    BY <1>2, <2>1, <2>2 DEF SplitBegin, TypeOK
<1>3. CASE SplitStep
  <2>1. curr \in DOMAIN tree
    BY <1>3 DEF SplitStep, TypeOK
  <2>2. /\ tree' \in [DOMAIN tree' -> [end : Nat, age : Nat, nr : Nat]]
        /\ DOMAIN tree \subseteq DOMAIN tree' /\ prev' \in DOMAIN tree'
        /\ DOMAIN tree' \subseteq Nat /\ IsFiniteSet(DOMAIN tree')
        /\ len' \in Nat /\ age' \in Nat /\ minRange' \in Nat
    <3>1. CASE ShouldSplit(curr)
      BY <1>3, <2>1, <3>1, SplitType DEF SplitStep, Last
    <3>2. CASE ~ShouldSplit(curr)
      BY <1>3, <2>1, <3>2 DEF SplitStep, Last, TypeOK, treeVars
    <3> QED
      BY <3>1, <3>2
  <2>3. next' \in DOMAIN tree' \cup {None} /\ index' \in Nat
    <3>1. \A s \in DOMAIN tree' : tree'[s].end \in Nat
      BY <2>2
    <3> QED
      BY <1>3, <2>2, <3>1, FindType DEF SplitStep, TypeOK
  <2> QED
    BY <1>3, <2>1, <2>2, <2>3 DEF SplitStep, TypeOK, Upcoming
<1>4. CASE SplitEnd
  BY <1>4 DEF SplitEnd, TypeOK, treeVars
<1>5. CASE UNCHANGED vars
  BY <1>5 DEF vars, treeVars, walkVars, TypeOK
<1> QED
  BY <1>1, <1>2, <1>3, <1>4, <1>5 DEF Next

(* Every variable of the range tree keeps its type: the ranges are finitely *)
(* many, with natural bounds and counts, and the loop of rt_split() only    *)
(* ever holds ranges that are in the tree.                                  *)
THEOREM TypeCorrect == Spec => []TypeOK
BY TypeInit, TypeStep, PTL DEF Spec


-----------------------------------------------------------------------------
(* The tiling, the length and the smallest range.                           *)

(* Counting and decaying leave the bounds of every range alone.             *)
SameShape ==
  /\ DOMAIN tree' = DOMAIN tree
  /\ \A s \in DOMAIN tree : tree'[s].end = tree[s].end
  /\ UNCHANGED <<len, age, minRange>>

(* The one step that changes them.                                          *)
Halving == SplitStep /\ ShouldSplit(curr)

(* The shape of the tree depends on the bounds of its ranges only.          *)
LEMMA ShapeFrame ==
  ASSUME TypeOK, [Next]_vars
  PROVE  SameShape \/ (Halving /\ curr \in DOMAIN tree /\ Split(curr))
<1>0. \A s \in DOMAIN tree : tree[s] \in [end : Nat, age : Nat, nr : Nat]
  BY DEF TypeOK
<1>1. ASSUME NEW addr \in 0..MmapEnd, Count(addr) PROVE SameShape
  <2>1. CASE UNCHANGED tree
    BY <1>1, <2>1 DEF Count, SameShape
  <2>2. CASE /\ Find(tree, addr) # None
             /\ tree' = [tree EXCEPT ![Find(tree, addr)].nr = @ + 1]
    <3>1. Find(tree, addr) \in DOMAIN tree
      BY <2>2, <1>0, RegionAssumption, FindType DEF TypeOK
    <3> QED
      BY <1>0, <1>1, <2>2, <3>1 DEF Count, SameShape, TypeOK
  <2> QED
    BY <1>1, <2>1, <2>2 DEF Count
<1>2. CASE SplitBegin
  BY <1>0, <1>2 DEF SplitBegin, SameShape, TypeOK
<1>3. CASE SplitStep
  BY <1>3 DEF SplitStep, SameShape, Halving, TypeOK, treeVars
<1>4. CASE SplitEnd \/ UNCHANGED vars
  BY <1>4 DEF SplitEnd, vars, SameShape, treeVars
<1> QED
  BY <1>1, <1>2, <1>3, <1>4 DEF Next

(* What a split does to the shape.                                          *)
LEMMA SplitShape ==
  ASSUME TypeOK, Tiling, NEW c \in DOMAIN tree, ShouldSplit(c), Split(c)
  PROVE  /\ DOMAIN tree' = DOMAIN tree \cup {Mid(c)} /\ Mid(c) \notin DOMAIN tree
         /\ tree'[c].end = Mid(c) /\ tree'[Mid(c)].end = tree[c].end
         /\ \A s \in DOMAIN tree \ {c} : tree'[s] = tree[s]
         /\ Mid(c) \in Nat /\ c < Mid(c) /\ Mid(c) < tree[c].end
         /\ DOMAIN tree \subseteq Nat /\ \A s \in DOMAIN tree : tree[s].end \in Nat
BY MidFacts, HalvesFacts DEF Split, TypeOK

Shape == Tiling /\ LenExact /\ MinRangeExact

(* The heap and mmap regions are the first two ranges.                      *)
LEMMA ShapeInit == Init => Shape
<1> SUFFICES ASSUME Init PROVE Shape
  OBVIOUS
<1>1. /\ DOMAIN tree = {HeapStart, MmapStart} /\ HeapStart # MmapStart
      /\ tree[HeapStart].end = HeapEnd /\ tree[MmapStart].end = MmapEnd
  BY RegionAssumption DEF Init, Mrange
<1>2. Tiling
  BY <1>1, RegionAssumption DEF Tiling, Coverage
<1>3. LenExact
  BY <1>1, TwoRegions, LimitAssumption DEF Init, LenExact
<1>4. MinRangeExact
  BY <1>1, RegionAssumption DEF Init, MinRangeExact
<1> QED
  BY <1>2, <1>3, <1>4 DEF Shape

(* Counting keeps the bounds, and the halves of a range tile it.            *)
LEMMA ShapeStep == TypeOK /\ Shape /\ [Next]_vars => Shape'
<1> SUFFICES ASSUME TypeOK, Shape, [Next]_vars PROVE Shape'
  OBVIOUS
<1>1. CASE SameShape
  BY <1>1 DEF SameShape, Shape, Tiling, LenExact, MinRangeExact, Coverage
<1>2. CASE Halving /\ curr \in DOMAIN tree /\ Split(curr)
  <2> DEFINE c == curr
             m == Mid(curr)
             e == tree[curr].end
  <2>1. /\ DOMAIN tree' = DOMAIN tree \cup {m} /\ m \notin DOMAIN tree
        /\ tree'[c].end = m /\ tree'[m].end = e
        /\ \A s \in DOMAIN tree \ {c} : tree'[s] = tree[s]
        /\ m \in Nat /\ c < m /\ m < e
        /\ DOMAIN tree \subseteq Nat /\ \A s \in DOMAIN tree : tree[s].end \in Nat
    BY <1>2, SplitShape DEF Halving, Shape
  <2>2. c \in DOMAIN tree /\ c \in Nat /\ e \in Nat /\ e = tree[c].end
    BY <1>2, <2>1
  <2> HIDE DEF c, m, e
  <2>3. Tiling'
    <3>1. \A s \in DOMAIN tree' : s < tree'[s].end /\ s..(tree'[s].end - 1) \subseteq Coverage
      BY <2>1, <2>2 DEF Shape, Tiling
    <3>2. \A s, t \in DOMAIN tree' : s < t => tree'[s].end <= t
      BY <2>1, <2>2 DEF Shape, Tiling
    <3>3. ASSUME NEW g \in Coverage
          PROVE  \E s \in DOMAIN tree' : s <= g /\ g < tree'[s].end
      <4>1. PICK s \in DOMAIN tree : s <= g /\ g < tree[s].end
        BY <3>3 DEF Shape, Tiling
      <4>2. g \in Nat
        BY RegionAssumption DEF Coverage
      <4> QED
        BY <2>1, <2>2, <4>1, <4>2
    <3> QED
      BY <3>1, <3>2, <3>3 DEF Tiling, Coverage
  <2>4. LenExact'
    <3>1. Cardinality(DOMAIN tree') = Cardinality(DOMAIN tree) + 1
      BY <2>1, FS_AddElement DEF TypeOK
    <3>2. len' = len + 1 /\ len < MaxSize
      BY <1>2 DEF Halving, SplitStep, Split, SplitN
    <3> QED
      BY <3>1, <3>2, LimitAssumption DEF Shape, LenExact, TypeOK
  <2>5. MinRangeExact'
    <3>1. minRange' = Least(minRange, Least(m - c, e - m))
      BY <1>2 DEF Split, SmallerHalf, c, m, e
    <3>2. /\ minRange \in Nat /\ \A s \in DOMAIN tree : minRange <= tree[s].end - s
      BY DEF Shape, MinRangeExact, TypeOK
    <3>3. \A s \in DOMAIN tree' : minRange' <= tree'[s].end - s
      BY <2>1, <2>2, <3>1, <3>2 DEF Least
    <3>4. \E s \in DOMAIN tree' : minRange' = tree'[s].end - s
      <4>1. PICK s \in DOMAIN tree : minRange = tree[s].end - s
        BY DEF Shape, MinRangeExact
      <4>2. minRange' \in {minRange, m - c, e - m}
        BY <2>1, <2>2, <3>1, <3>2 DEF Least
      <4>3. CASE minRange' = minRange /\ minRange' # m - c /\ minRange' # e - m
        BY <2>1, <2>2, <3>1, <3>2, <4>1, <4>3 DEF Least
      <4> QED
        BY <2>1, <2>2, <4>2, <4>3
    <3> QED
      BY <3>3, <3>4 DEF MinRangeExact
  <2> QED
    BY <2>3, <2>4, <2>5 DEF Shape
<1> QED
  BY <1>1, <1>2, ShapeFrame

(* The shape of the tree holds throughout.                                  *)
LEMMA ShapeHolds == Spec => [](TypeOK /\ Shape)
BY TypeInit, TypeStep, ShapeInit, ShapeStep, PTL DEF Spec

(* However samples and splits alternate, the ranges tile the heap and the   *)
(* mmap region: an inserted half never meets another range.                 *)
THEOREM TilingHolds == Spec => []Tiling
BY ShapeHolds, PTL DEF Shape

(* self->len is the number of ranges and stays within RTREE_MAX_SIZE, the   *)
(* length of the array that rt_rank() fills.                                *)
THEOREM LenHolds == Spec => []LenExact
BY ShapeHolds, PTL DEF Shape

(* self->min_range is the size of the smallest range.                       *)
THEOREM MinRangeHolds == Spec => []MinRangeExact
BY ShapeHolds, PTL DEF Shape


-----------------------------------------------------------------------------
(* The walk of rt_split().                                                  *)

(* Resuming at the end of a range means looking at the ranges after it.     *)
LEMMA AfterRange ==
  ASSUME NEW t, DOMAIN t \subseteq Nat, \A s \in DOMAIN t : t[s].end \in Nat /\ s < t[s].end,
         \A r, s \in DOMAIN t : r < s => t[r].end <= s, NEW n \in DOMAIN t
  PROVE  From(t, t[n].end) = {s \in DOMAIN t : n < s}
<1>1. ASSUME NEW s \in DOMAIN t PROVE t[s].end > t[n].end <=> n < s
  <2>1. s \in Nat /\ n \in Nat /\ t[s].end \in Nat /\ t[n].end \in Nat
    OBVIOUS
  <2>2. CASE n < s
    BY <2>1, <2>2
  <2>3. CASE s < n
    BY <2>1, <2>3
  <2>4. CASE s = n
    BY <2>1, <2>4
  <2> QED
    BY <2>1, <2>2, <2>3, <2>4
<1> QED
  BY <1>1 DEF From

(* The first range after n, as the walk finds it.                           *)
LEMMA FindAfter ==
  ASSUME NEW t, DOMAIN t \subseteq Nat, \A s \in DOMAIN t : t[s].end \in Nat /\ s < t[s].end,
         \A r, s \in DOMAIN t : r < s => t[r].end <= s, NEW n \in DOMAIN t,
         NEW x, x = Find(t, t[n].end)
  PROVE  \/ x = None /\ From(t, t[n].end) = {} /\ \A s \in DOMAIN t : s <= n
         \/ x \in DOMAIN t /\ n < x /\ \A s \in DOMAIN t : s <= n \/ x <= s
<1>1. From(t, t[n].end) = {s \in DOMAIN t : n < s}
  BY AfterRange
<1>2. n \in Nat /\ \A s \in DOMAIN t : s \in Nat
  OBVIOUS
<1> QED
  BY <1>1, <1>2, FindFacts

(* The walk's inductive invariant: next is found, the index is behind it,   *)
(* and the ranges the walk has yet to visit are old.                        *)
WalkIndex ==
  pc = "walk" =>
    /\ next # None => curr # None /\ index = tree[next].end
    /\ next = None => From(tree, index) = {}
    /\ {curr, next} \subseteq before \cup {None}
    /\ curr # None => \A s \in DOMAIN tree \ before : s < curr

WInv == WalkNeighbours /\ WalkIndex /\ PassSplitsOnce

(* No pass is under way at first.                                           *)
LEMMA WInvInit == Init => WInv
BY DEF Init, WInv, WalkNeighbours, WalkIndex, PassSplitsOnce

(* Every step of the walk keeps its place in the tree it changes.           *)
LEMMA WInvStep == TypeOK /\ Shape /\ WInv /\ [Next]_vars => WInv'
<1> SUFFICES ASSUME TypeOK, Shape, WInv, [Next]_vars PROVE WInv'
  OBVIOUS
<1>0. /\ DOMAIN tree \subseteq Nat /\ \A s \in DOMAIN tree : tree[s].end \in Nat /\ s < tree[s].end
      /\ \A r, s \in DOMAIN tree : r < s => tree[r].end <= s
  BY DEF TypeOK, Shape, Tiling
<1>1. ASSUME NEW addr \in 0..MmapEnd, Count(addr) PROVE WInv'
  <2>1. SameShape
    <3>1. ~SplitStep
      BY <1>1 DEF Count, SplitStep
    <3> QED
      BY <3>1, ShapeFrame DEF Halving
  <2>2. pc' # "walk" /\ before' = before
    BY <1>1 DEF Count, walkVars
  <2> QED
    BY <2>1, <2>2 DEF SameShape, WInv, WalkNeighbours, WalkIndex, PassSplitsOnce
<1>2. CASE SplitBegin
  <2>1. SameShape
    <3>1. ~SplitStep
      BY <1>2 DEF SplitBegin, SplitStep
    <3> QED
      BY <3>1, ShapeFrame DEF Halving
  <2>2. From(tree, 0) = DOMAIN tree /\ DOMAIN tree # {}
    <3>1. From(tree, 0) = DOMAIN tree
      BY <1>0 DEF From
    <3>2. HeapStart \in Coverage
      BY RegionAssumption DEF Coverage
    <3> QED
      BY <3>1, <3>2 DEF Shape, Tiling
  <2>3. curr' \in DOMAIN tree /\ \A s \in DOMAIN tree : curr' <= s
    BY <1>0, <1>2, <2>2, FindFacts DEF SplitBegin
  <2>4. curr' # None /\ next' = Find(tree, tree[curr'].end)
    BY <1>0, <1>2, <2>3 DEF SplitBegin, None, Resume
  <2>5. \/ next' = None /\ From(tree, tree[curr'].end) = {} /\ \A s \in DOMAIN tree : s <= curr'
        \/ /\ next' \in DOMAIN tree /\ curr' < next'
           /\ \A s \in DOMAIN tree : s <= curr' \/ next' <= s
    BY <1>0, <2>3, <2>4, FindAfter
  <2>6. From(tree', index') = From(tree, index')
    BY <2>1 DEF From, SameShape
  <2>7. index' = IF next' = None THEN tree[curr'].end ELSE tree[next'].end
    BY <1>2, <2>4 DEF SplitBegin, Resume
  <2>8. WalkNeighbours'
    <3>1. prev' = None /\ DOMAIN tree' = DOMAIN tree
      BY <1>2, <2>1 DEF SplitBegin, SameShape
    <3>2. CASE next' = None
      <4>1. \A s \in DOMAIN tree : s <= curr'
        BY <1>0, <2>5, <3>2 DEF None
      <4> QED
        BY <2>3, <3>1, <3>2, <4>1, Zenon DEF WalkNeighbours
    <3>3. CASE next' # None
      <4>1. next' \in DOMAIN tree /\ curr' < next' /\ \A s \in DOMAIN tree : s <= curr' \/ next' <= s
        BY <2>5, <3>3
      <4> QED
        BY <2>3, <3>1, <3>3, <4>1, Zenon DEF WalkNeighbours
    <3> QED
      BY <3>2, <3>3
  <2>9. before' = DOMAIN tree /\ DOMAIN tree' = DOMAIN tree
    BY <1>2, <2>1 DEF SplitBegin, SameShape
  <2>10. WalkIndex'
    <3>1. DOMAIN tree' \ before' = {}
      BY <2>9
    <3>2. CASE next' = None
      <4>1. index' = tree[curr'].end /\ From(tree, tree[curr'].end) = {}
        BY <1>0, <2>5, <2>7, <3>2 DEF None
      <4>2. From(tree', index') = {}
        BY <2>6, <4>1
      <4> QED
        BY <2>3, <2>9, <3>1, <3>2, <4>2 DEF WalkIndex
    <3>3. CASE next' # None
      <4>1. next' \in DOMAIN tree /\ index' = tree[next'].end
        BY <2>5, <2>7, <3>3
      <4>2. index' = tree'[next'].end
        BY <2>1, <4>1 DEF SameShape
      <4> QED
        BY <2>3, <2>4, <2>9, <3>1, <3>3, <4>1, <4>2 DEF WalkIndex
    <3> QED
      BY <3>2, <3>3
  <2>11. PassSplitsOnce'
    BY <2>9 DEF PassSplitsOnce
  <2> QED
    BY <2>8, <2>10, <2>11 DEF WInv
<1>3. CASE SplitStep
  <2>1. /\ pc = "walk" /\ pc' = "walk" /\ curr \in DOMAIN tree /\ curr \in Nat /\ before' = before
        /\ curr # None /\ curr' = next /\ prev' = Last(curr) /\ curr \in before
        /\ next' = Find(tree', index) /\ index' = Resume(tree', next', index)
        /\ next # None => next \in DOMAIN tree /\ next \in before
    BY <1>0, <1>3 DEF SplitStep, TypeOK, Upcoming, WInv, WalkIndex
  <2>2. /\ DOMAIN tree' = DOMAIN tree \cup {Last(curr)}
        /\ Last(curr) \in Nat /\ curr <= Last(curr) /\ Last(curr) < tree[curr].end
        /\ Last(curr) \in before => Last(curr) = curr
        /\ \A s \in DOMAIN tree \ {curr} : tree'[s].end = tree[s].end
        /\ \A s \in {curr, Last(curr)} : tree'[s].end <= tree[curr].end
    <3>1. CASE ShouldSplit(curr)
      <4>1. Split(curr) /\ Tiling /\ Last(curr) = Mid(curr)
        BY <1>3, <3>1 DEF SplitStep, Last, Shape
      <4>2. /\ DOMAIN tree' = DOMAIN tree \cup {Mid(curr)} /\ Mid(curr) \notin DOMAIN tree
            /\ tree'[curr].end = Mid(curr) /\ tree'[Mid(curr)].end = tree[curr].end
            /\ \A s \in DOMAIN tree \ {curr} : tree'[s] = tree[s]
            /\ Mid(curr) \in Nat /\ curr < Mid(curr) /\ Mid(curr) < tree[curr].end
        BY <2>1, <3>1, <4>1, SplitShape
      <4>3. before \subseteq DOMAIN tree
        BY DEF TypeOK
      <4> QED
        BY <1>0, <2>1, <4>1, <4>2, <4>3
    <3>2. CASE ~ShouldSplit(curr)
      BY <1>0, <1>3, <2>1, <3>2 DEF SplitStep, Last, treeVars
    <3> QED
      BY <3>1, <3>2
  <2>3. /\ DOMAIN tree' \subseteq Nat
        /\ \A s \in DOMAIN tree' : tree'[s].end \in Nat /\ s < tree'[s].end
        /\ \A r, s \in DOMAIN tree' : r < s => tree'[r].end <= s
    BY TypeStep, ShapeStep DEF TypeOK, Shape, Tiling
  <2>4. PassSplitsOnce'
    <3>1. \A s \in DOMAIN tree \ before : s < curr
      BY <2>1 DEF WInv, WalkIndex
    <3>2. ASSUME NEW s \in DOMAIN tree' \ before, NEW t \in DOMAIN tree' \ before, s < t
          PROVE  \E o \in before : s < o /\ o < t
      <4>1. CASE s \in DOMAIN tree /\ t \in DOMAIN tree
        BY <3>2, <4>1 DEF WInv, PassSplitsOnce
      <4>2. CASE t = Last(curr) /\ s # Last(curr)
        BY <1>0, <2>1, <2>2, <3>1, <4>2
      <4>3. CASE s = Last(curr)
        BY <1>0, <2>1, <2>2, <2>3, <3>1, <3>2, <4>3
      <4> QED
        BY <2>2, <4>1, <4>2, <4>3
    <3> QED
      BY <2>1, <3>2 DEF PassSplitsOnce
  <2>5. CASE next = None
    <3>1. From(tree, index) = {}
      BY <2>1, <2>5 DEF WInv, WalkIndex
    <3>2. From(tree', index) = {}
      <4>1. ASSUME NEW s \in DOMAIN tree', tree'[s].end > index PROVE FALSE
        <5>1. PICK r \in DOMAIN tree : tree'[s].end <= tree[r].end
          BY <1>0, <2>1, <2>2
        <5>2. index \in Nat
          BY DEF TypeOK
        <5> QED
          BY <1>0, <2>3, <3>1, <4>1, <5>1, <5>2 DEF From
      <4> QED
        BY <4>1 DEF From
    <3>3. curr' = None /\ next' = None /\ index' = index
      BY <2>1, <2>5, <3>2 DEF Find, Resume
    <3> QED
      BY <2>4, <3>2, <3>3 DEF WInv, WalkNeighbours, WalkIndex
  <2>6. CASE next # None
    <3>1. /\ curr < next /\ next \in Nat /\ index = tree[next].end
          /\ \A s \in DOMAIN tree : s <= curr \/ next <= s
      BY <1>0, <2>1, <2>6 DEF WInv, WalkNeighbours, WalkIndex
    <3>2. tree'[next].end = index /\ next \in DOMAIN tree' /\ Last(curr) < next
      BY <1>0, <2>1, <2>2, <2>6, <3>1
    <3>3. \/ next' = None /\ From(tree', index) = {} /\ \A s \in DOMAIN tree' : s <= next
          \/ /\ next' \in DOMAIN tree' /\ next < next'
             /\ \A s \in DOMAIN tree' : s <= next \/ next' <= s
      BY <2>1, <2>3, <3>2, FindAfter
    <3>4. \A s \in DOMAIN tree' : s <= Last(curr) \/ next <= s
      BY <1>0, <2>1, <2>2, <3>1
    <3>5. WalkNeighbours'
      <4>1. prev' \in DOMAIN tree' /\ prev' # None
        BY <2>1, <2>2 DEF None
      <4>2. prev' < curr' /\ curr' \in DOMAIN tree' /\ \A s \in DOMAIN tree' : s <= prev' \/ curr' <= s
        BY <2>1, <3>2, <3>4
      <4>3. CASE next' = None
        <5>1. \A s \in DOMAIN tree' : s <= curr'
          BY <2>1, <2>3, <3>3, <4>3 DEF None
        <5> QED
          BY <4>1, <4>2, <4>3, <5>1, Zenon DEF WalkNeighbours
      <4>4. CASE next' # None
        <5>1. next' \in DOMAIN tree' /\ curr' < next' /\ \A s \in DOMAIN tree' : s <= curr' \/ next' <= s
          BY <2>1, <3>3, <4>4
        <5> QED
          BY <4>1, <4>2, <4>4, <5>1, Zenon DEF WalkNeighbours
      <4> QED
        BY <4>3, <4>4
    <3>6. \A s \in DOMAIN tree' \ before : s < next
      BY <1>0, <2>1, <2>2, <3>1, <3>2 DEF WInv, WalkIndex
    <3>7. next' # None => next' \in before /\ index' = tree'[next'].end
      BY <2>1, <2>3, <3>1, <3>3, <3>6 DEF Resume
    <3>8. next' = None => index' = index
      BY <2>1 DEF Resume
    <3>9. WalkIndex'
      <4>1. next' = None => From(tree', index') = {}
        BY <2>3, <3>3, <3>8 DEF None
      <4> QED
        BY <2>1, <2>6, <3>6, <3>7, <4>1 DEF WalkIndex
    <3> QED
      BY <2>4, <3>5, <3>9 DEF WInv
  <2> QED
    BY <2>5, <2>6
<1>4. CASE SplitEnd
  BY <1>4 DEF SplitEnd, treeVars, WInv, WalkNeighbours, WalkIndex, PassSplitsOnce
<1>5. CASE UNCHANGED vars
  BY <1>5 DEF vars, treeVars, walkVars, WInv, WalkNeighbours, WalkIndex,
              PassSplitsOnce, From
<1> QED
  BY <1>1, <1>2, <1>3, <1>4, <1>5 DEF Next

(* The walk is consistent with the tree throughout.                         *)
LEMMA WalkHolds == Spec => [](TypeOK /\ Shape /\ WInv)
BY TypeInit, TypeStep, ShapeInit, ShapeStep, WInvInit, WInvStep, PTL DEF Spec

(* rt_split() compares every range with its neighbours in the tree as it is *)
(* at that moment, although the loop erases and inserts ranges as it goes.  *)
THEOREM NeighboursHold == Spec => []WalkNeighbours
BY WalkHolds, PTL DEF WInv

(* One pass of rt_split() splits a range at most once.                      *)
THEOREM SplitsOnce == Spec => []PassSplitsOnce
BY WalkHolds, PTL DEF WInv

-----------------------------------------------------------------------------
(* The access counts.  A sum over the tree is the number of elements of     *)
(* Accesses(), so a fact about sums is an injection between two such sets.  *)

(* The numbers up to n can be counted.                                      *)
LEMMA FiniteUpTo ==
  ASSUME NEW n \in Nat
  PROVE  IsFiniteSet(1 .. n)
<1>1. 1 \in Int /\ n \in Int
  OBVIOUS
<1> QED
  BY <1>1, FS_Interval, Zenon

(* The accesses of a tree can be counted.                                   *)
LEMMA AccessesFinite ==
  ASSUME NEW t, IsFiniteSet(DOMAIN t), \A s \in DOMAIN t : t[s].nr \in Nat
  PROVE  IsFiniteSet(Accesses(t)) /\ Cardinality(Accesses(t)) \in Nat
<1> DEFINE own == [s \in DOMAIN t |-> {s} \X (1 .. t[s].nr)]
           parts == {{s} \X (1 .. t[s].nr) : s \in DOMAIN t}
<1>1. own \in Surjection(DOMAIN t, parts)
  BY DEF Surjection
<1>2. IsFiniteSet(parts)
  BY <1>1, FS_Surjection
<1>3. \A s \in DOMAIN t : IsFiniteSet({s} \X (1 .. t[s].nr))
  <2> SUFFICES ASSUME NEW s \in DOMAIN t PROVE IsFiniteSet({s} \X (1 .. t[s].nr))
    OBVIOUS
  <2>1. IsFiniteSet({s})
    BY FS_Singleton
  <2>2. t[s].nr \in Nat
    OBVIOUS
  <2>3. IsFiniteSet(1 .. t[s].nr)
    BY <2>2, FiniteUpTo, Zenon
  <2> QED
    BY <2>1, <2>3, FS_Product
<1>4. IsFiniteSet(UNION parts)
  BY <1>2, <1>3, FS_UNION
<1> QED
  BY <1>4, FS_CardinalityType DEF Accesses

(* What an access is.                                                       *)
LEMMA AccessFacts ==
  ASSUME NEW t, \A s \in DOMAIN t : t[s].nr \in Nat, NEW a
  PROVE  a \in Accesses(t) <=>
           \E s \in DOMAIN t, k \in Nat : a = <<s, k>> /\ 1 <= k /\ k <= t[s].nr
BY DEF Accesses

(* A sample adds one access.                                                *)
LEMMA CountAccesses ==
  ASSUME NEW t, IsFiniteSet(DOMAIN t), \A r \in DOMAIN t : t[r].nr \in Nat,
         NEW u, DOMAIN u = DOMAIN t, NEW s \in DOMAIN t, u[s].nr = t[s].nr + 1,
         \A r \in DOMAIN t \ {s} : u[r].nr = t[r].nr
  PROVE  Cardinality(Accesses(u)) = Cardinality(Accesses(t)) + 1
<1> DEFINE a == <<s, t[s].nr + 1>>
<1>1. \A b : b \in Accesses(t) <=>
        \E r \in DOMAIN t, k \in Nat : b = <<r, k>> /\ 1 <= k /\ k <= t[r].nr
  BY AccessFacts
<1>2. \A b : b \in Accesses(u) <=>
        \E r \in DOMAIN u, k \in Nat : b = <<r, k>> /\ 1 <= k /\ k <= u[r].nr
  <2>1. \A r \in DOMAIN u : u[r].nr \in Nat
    OBVIOUS
  <2> QED
    BY <2>1, AccessFacts
<1>3. a \notin Accesses(t)
  BY <1>1
<1>4. Accesses(u) = Accesses(t) \cup {a}
  <2>1. ASSUME NEW b \in Accesses(u) PROVE b \in Accesses(t) \cup {a}
    <3>1. PICK r \in DOMAIN u, k \in Nat : b = <<r, k>> /\ 1 <= k /\ k <= u[r].nr
      BY <1>2, <2>1
    <3>2. b = a \/ k <= t[r].nr
      BY <3>1
    <3> QED
      BY <1>1, <3>1, <3>2
  <2>2. ASSUME NEW b \in Accesses(t) PROVE b \in Accesses(u)
    <3>1. PICK r \in DOMAIN t, k \in Nat : b = <<r, k>> /\ 1 <= k /\ k <= t[r].nr
      BY <1>1, <2>2
    <3>2. k <= u[r].nr
      BY <3>1
    <3> QED
      BY <1>2, <3>1, <3>2
  <2>3. a \in Accesses(u)
    <3>1. s \in DOMAIN u /\ t[s].nr + 1 \in Nat /\ 1 <= t[s].nr + 1 /\ t[s].nr + 1 <= u[s].nr
      OBVIOUS
    <3> QED
      BY <1>2, <3>1, Zenon
  <2> QED
    BY <2>1, <2>2, <2>3
<1>5. IsFiniteSet(Accesses(t)) /\ Cardinality(Accesses(t)) \in Nat
  BY AccessesFinite
<1>6. Cardinality(Accesses(t) \cup {a}) = Cardinality(Accesses(t)) + 1
  BY <1>3, <1>5, FS_AddElement, ZenonT(60)
<1> QED
  BY <1>4, <1>6, Zenon

(* The decay leaves at most half of the accesses: two old accesses of its   *)
(* range stand for each that is left.                                       *)
LEMMA DecayAccesses ==
  ASSUME TypeOK, NEW t,
         t = [s \in DOMAIN tree |-> [tree[s] EXCEPT !.nr = Decay(@)]]
  PROVE  2 * Cardinality(Accesses(t)) <= Cardinality(Accesses(tree))
<1>1. /\ DOMAIN t = DOMAIN tree /\ \A s \in DOMAIN tree : tree[s].nr \in Nat
      /\ \A s \in DOMAIN tree : t[s].nr = tree[s].nr \div 2
      /\ \A s \in DOMAIN t : t[s].nr \in Nat
  BY DEF TypeOK, Decay
<1>2. IsFiniteSet(Accesses(t)) /\ IsFiniteSet(Accesses(tree))
      /\ Cardinality(Accesses(t)) \in Nat
  BY <1>1, AccessesFinite DEF TypeOK
<1>0. \A a \in Accesses(t) :
        \E s \in DOMAIN t, k \in Nat : a = <<s, k>> /\ 1 <= k /\ k <= t[s].nr
  <2>1. \A s \in DOMAIN t : t[s].nr \in Nat
    BY <1>1
  <2> QED
    BY <2>1, AccessFacts
<1> DEFINE two == Accesses(t) \X {0, 1}
           old == [x \in two |-> <<x[1][1], 2 * x[1][2] - x[2]>>]
<1>3. old \in [two -> Accesses(tree)]
  <2> SUFFICES ASSUME NEW x \in two PROVE old[x] \in Accesses(tree)
    OBVIOUS
  <2>0. x[1] \in Accesses(t)
    OBVIOUS
  <2>1. PICK s \in DOMAIN t, k \in Nat : x[1] = <<s, k>> /\ 1 <= k /\ k <= t[s].nr
    BY <1>0, <2>0, Zenon
  <2>2. x[2] \in {0, 1} /\ old[x] = <<s, 2 * k - x[2]>>
    BY <2>1
  <2>3. 2 * k - x[2] \in Nat /\ 1 <= 2 * k - x[2] /\ 2 * k - x[2] <= tree[s].nr
    BY <1>1, <2>1, <2>2
  <2> QED
    BY <1>1, <2>2, <2>3, AccessFacts
<1>4. old \in Injection(two, Accesses(tree))
  <2> SUFFICES ASSUME NEW x \in two, NEW y \in two, old[x] = old[y] PROVE x = y
    BY <1>3, ZenonT(60) DEF Injection, IsInjective
  <2>0. x[1] \in Accesses(t) /\ y[1] \in Accesses(t)
    OBVIOUS
  <2>1. PICK s \in DOMAIN t, k \in Nat : x[1] = <<s, k>> /\ 1 <= k /\ k <= t[s].nr
    BY <1>0, <2>0, Zenon
  <2>2. PICK r \in DOMAIN t, m \in Nat : y[1] = <<r, m>> /\ 1 <= m /\ m <= t[r].nr
    BY <1>0, <2>0, Zenon
  <2>3. x[2] \in {0, 1} /\ y[2] \in {0, 1} /\ x = <<x[1], x[2]>> /\ y = <<y[1], y[2]>>
    OBVIOUS
  <2>4. s = r /\ 2 * k - x[2] = 2 * m - y[2]
    BY <2>1, <2>2
  <2>5. k = m /\ x[2] = y[2]
    BY <2>3, <2>4, SMTT(60)
  <2> QED
    BY <2>1, <2>2, <2>3, <2>4, <2>5
<1>5. Cardinality({0, 1}) = 2 /\ IsFiniteSet({0, 1})
  <2>1. {0, 1} = {0} \cup {1} /\ 1 \notin {0}
    OBVIOUS
  <2>2. IsFiniteSet({0}) /\ Cardinality({0}) = 1
    BY FS_Singleton
  <2> QED
    BY <2>1, <2>2, FS_AddElement
<1>6. Cardinality(two) = Cardinality(Accesses(t)) * 2
  BY <1>2, <1>5, FS_Product
<1>7. Cardinality(two) <= Cardinality(Accesses(tree))
  BY <1>2, <1>4, FS_Injection
<1> QED
  BY <1>2, <1>6, <1>7

(* A split hands the accesses of a range to its halves, and may lose one.   *)
LEMMA SplitAccesses ==
  ASSUME TypeOK, NEW c \in DOMAIN tree, Mid(c) \notin DOMAIN tree
  PROVE  /\ Cardinality(Accesses(Halves(c))) <= Cardinality(Accesses(tree))
         /\ Cardinality(Accesses(Halves(c))) \in Nat
<1> DEFINE t == Halves(c)
           n == tree[c].nr \div 2
           old == [a \in Accesses(t) |-> IF a[1] = Mid(c) THEN <<c, n + a[2]>> ELSE a]
<1>1. /\ DOMAIN t = DOMAIN tree \cup {Mid(c)} /\ \A s \in DOMAIN tree : tree[s].nr \in Nat
      /\ t[c].nr = n /\ t[Mid(c)].nr = n /\ n \in Nat /\ 2 * n <= tree[c].nr
      /\ \A s \in DOMAIN tree \ {c} : t[s].nr = tree[s].nr
  BY DEF TypeOK, Halves, Mrange, Share, SplitN
<1>2. \A s \in DOMAIN t : t[s].nr \in Nat
  BY <1>1
<1>3. /\ IsFiniteSet(Accesses(tree))
      /\ IsFiniteSet(Accesses(t)) /\ Cardinality(Accesses(t)) \in Nat
  <2>1. IsFiniteSet(DOMAIN t)
    BY <1>1, FS_AddElement DEF TypeOK
  <2> QED
    BY <1>1, <1>2, <2>1, AccessesFinite DEF TypeOK
<1>4. ASSUME NEW a \in Accesses(t)
      PROVE  \E s \in DOMAIN t, k \in Nat : a = <<s, k>> /\ 1 <= k /\ k <= t[s].nr
  BY <1>2, AccessFacts
<1> HIDE DEF t
<1>5. old \in [Accesses(t) -> Accesses(tree)]
  <2> SUFFICES ASSUME NEW a \in Accesses(t) PROVE old[a] \in Accesses(tree)
    OBVIOUS
  <2>1. PICK s \in DOMAIN t, k \in Nat : a = <<s, k>> /\ 1 <= k /\ k <= t[s].nr
    BY <1>4
  <2>2. CASE s = Mid(c)
    <3>1. old[a] = <<c, n + k>> /\ n + k \in Nat /\ 1 <= n + k /\ n + k <= tree[c].nr
      BY <1>1, <2>1, <2>2
    <3> QED
      BY <1>1, <3>1, AccessFacts
  <2>3. CASE s # Mid(c)
    <3>1. old[a] = <<s, k>> /\ s \in DOMAIN tree /\ k <= tree[s].nr
      BY <1>1, <2>1, <2>3
    <3> QED
      BY <1>1, <2>1, <3>1, AccessFacts
  <2> QED
    BY <2>2, <2>3
<1>6. old \in Injection(Accesses(t), Accesses(tree))
  <2> SUFFICES ASSUME NEW a \in Accesses(t), NEW b \in Accesses(t), old[a] = old[b]
               PROVE  a = b
    BY <1>5 DEF Injection, IsInjective
  <2>1. PICK s \in DOMAIN t, k \in Nat : a = <<s, k>> /\ 1 <= k /\ k <= t[s].nr
    BY <1>4
  <2>2. PICK r \in DOMAIN t, m \in Nat : b = <<r, m>> /\ 1 <= m /\ m <= t[r].nr
    BY <1>4
  <2>3. /\ old[a] = IF s = Mid(c) THEN <<c, n + k>> ELSE <<s, k>>
        /\ old[b] = IF r = Mid(c) THEN <<c, n + m>> ELSE <<r, m>>
    BY <2>1, <2>2
  <2> HIDE DEF old
  <2>4. s = r /\ k = m
    BY <1>1, <2>1, <2>2, <2>3
  <2> QED
    BY <2>1, <2>2, <2>4
<1> QED
  BY <1>3, <1>6, FS_Injection DEF t

(* A new tree has seen no access.                                           *)
LEMMA AccessesInit == Init => AccessesConserved
<1> SUFFICES ASSUME Init PROVE AccessesConserved
  OBVIOUS
<1>1. \A s \in DOMAIN tree : tree[s].nr = 0
  BY DEF Init, Mrange
<1>2. Accesses(tree) = {}
  BY <1>1, AccessFacts
<1> QED
  BY <1>2, FS_EmptySet DEF Init, AccessesConserved

(* Every step keeps the counts below the samples.                           *)
LEMMA AccessesStep ==
  /\ TypeOK /\ Shape /\ AccessesConserved /\ [Next]_vars
  => AccessesConserved'
<1> SUFFICES ASSUME TypeOK, Shape, AccessesConserved, [Next]_vars
             PROVE  AccessesConserved'
  OBVIOUS
<1>0. counted \in Nat /\ Cardinality(Accesses(tree)) \in Nat
  BY AccessesFinite DEF TypeOK
<1>1. ASSUME NEW addr \in 0..MmapEnd, Count(addr) PROVE AccessesConserved'
  <2>1. pc = "idle" /\ pc' = "idle"
    BY <1>1 DEF Count, walkVars
  <2>2. CASE UNCHANGED <<tree, counted>>
    BY <2>1, <2>2 DEF AccessesConserved
  <2>3. CASE ~UNCHANGED <<tree, counted>>
    <3>1. PICK s \in DOMAIN tree : /\ tree' = [tree EXCEPT ![s].nr = @ + 1]
                                   /\ counted' = counted + 1
      <4>1. Find(tree, addr) # None /\ Find(tree, addr) \in DOMAIN tree
        BY <1>1, <2>3, FindType DEF Count, TypeOK
      <4> QED
        BY <1>1, <2>3, <4>1 DEF Count
    <3>2. Cardinality(Accesses(tree')) = Cardinality(Accesses(tree)) + 1
      <4>1. /\ IsFiniteSet(DOMAIN tree) /\ DOMAIN tree' = DOMAIN tree
            /\ \A r \in DOMAIN tree : tree[r].nr \in Nat
            /\ tree'[s].nr = tree[s].nr + 1
            /\ \A r \in DOMAIN tree \ {s} : tree'[r].nr = tree[r].nr
        BY <3>1 DEF TypeOK
      <4> QED
        BY <4>1, CountAccesses
    <3> QED
      BY <1>0, <2>1, <3>1, <3>2 DEF AccessesConserved
  <2> QED
    BY <2>2, <2>3
<1>2. CASE SplitBegin
  <2>1. /\ pc = "idle" /\ pc' = "walk" /\ counted' = counted
        /\ 2 * Cardinality(Accesses(tree')) <= Cardinality(Accesses(tree))
    BY <1>2, DecayAccesses DEF SplitBegin
  <2>2. Cardinality(Accesses(tree')) \in Nat
    <3>1. TypeOK'
      BY TypeStep
    <3> QED
      BY <3>1, AccessesFinite DEF TypeOK
  <2> QED
    BY <1>0, <2>1, <2>2 DEF AccessesConserved
<1>3. CASE SplitStep
  <2>1. pc = "walk" /\ pc' = "walk" /\ counted' = counted
    BY <1>3 DEF SplitStep
  <2>2. CASE UNCHANGED tree
    BY <2>1, <2>2 DEF AccessesConserved
  <2>3. CASE ~UNCHANGED tree
    <3>1. curr \in DOMAIN tree /\ ShouldSplit(curr) /\ tree' = Halves(curr)
      BY <1>3, <2>3 DEF SplitStep, Split, treeVars, TypeOK
    <3>2. Mid(curr) \notin DOMAIN tree
      BY <3>1, MidFacts DEF Shape
    <3>3. /\ Cardinality(Accesses(tree')) <= Cardinality(Accesses(tree))
          /\ Cardinality(Accesses(tree')) \in Nat
      BY <3>1, <3>2, SplitAccesses
    <3> QED
      BY <1>0, <2>1, <3>3 DEF AccessesConserved
  <2> QED
    BY <2>2, <2>3
<1>4. CASE SplitEnd
  <2>1. tree' = tree /\ counted' = counted /\ pc = "walk" /\ pc' = "idle"
    BY <1>4 DEF SplitEnd, treeVars
  <2> QED
    BY <1>0, <2>1 DEF AccessesConserved
<1>5. CASE UNCHANGED vars
  BY <1>5 DEF vars, treeVars, walkVars, AccessesConserved
<1> QED
  BY <1>1, <1>2, <1>3, <1>4, <1>5 DEF Next

(* However samples and split passes alternate, the counts of the ranges add *)
(* up to no more than the samples that were counted: halving a range and    *)
(* the decay round down, so neither invents heat.                           *)
THEOREM AccessesSafe == Spec => []AccessesConserved
<1>1. Init => AccessesConserved
  BY AccessesInit
<1> QED
  BY <1>1, AccessesStep, ShapeHolds, PTL DEF Spec

=============================================================================
