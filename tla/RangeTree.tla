----------------------------- MODULE RangeTree ------------------------------
(***************************************************************************)
(* The range tree of the policy worker (mm/demeter/range_tree.h): the      *)
(* ranges of the victim's address space whose accesses are counted, split  *)
(* in two where one is much hotter than its neighbours.                    *)
(*                                                                         *)
(* Addresses are in units of RTREE_GRANULARITY: every bound is rounded to  *)
(* it, so a range that starts at s is an entry s of the tree, and its      *)
(* start is its identity.  The tree is private to the policy worker, which *)
(* interleaves nothing with it; rt_split() is one step per iteration       *)
(* because its loop changes the tree it is walking over.                   *)
(***************************************************************************)
EXTENDS Integers, FiniteSets

CONSTANTS
  HeapStart, HeapEnd,  \* [start_brk, start_brk + coverage), aligned
  MmapStart, MmapEnd,  \* [mmap_base - coverage, mmap_base), aligned
  MaxSize,             \* RTREE_MAX_SIZE
  SplitThresh,         \* rtree_split_thresh * num_online_cpus()
  MaxSamples           \* bound: samples counted in a behaviour

SplitN             == 2   \* RTREE_SPLIT_N
SignificanceFactor == 2   \* RTREE_SIGNIFICANCE_FACTOR
None               == -1  \* a NULL struct mrange *

(* worker_policy() gives both regions the same coverage.                    *)
ASSUME RegionAssumption ==
  /\ HeapStart \in Nat /\ HeapEnd \in Nat /\ MmapStart \in Nat /\ MmapEnd \in Nat
  /\ HeapStart < HeapEnd /\ HeapEnd <= MmapStart
  /\ MmapEnd - MmapStart = HeapEnd - HeapStart

ASSUME LimitAssumption ==
  /\ MaxSize \in Nat /\ MaxSize >= 2
  /\ SplitThresh \in Nat /\ MaxSamples \in Nat

VARIABLES
  tree,      \* self->tree: start of a range -> its end, age and nr_access
  len, age, minRange,       \* self->len, self->age, self->min_range
  pc,        \* "idle", or "walk" inside the second loop of rt_split()
  index,     \* where mt_find_after() resumes
  prev, curr, next,         \* the loop's three ranges
  counted,   \* samples that hit a range so far
  before     \* the ranges there were when the pass began

treeVars == <<tree, len, age, minRange>>
walkVars == <<pc, index, prev, curr, next>>
vars     == <<treeVars, walkVars, counted, before>>

Mrange(end, a, n) == [end |-> end, age |-> a, nr |-> n]

(* mt_find(): the first range that ends above i.                            *)
From(t, i) == {s \in DOMAIN t : t[s].end > i}
Find(t, i) ==
  IF From(t, i) = {} THEN None
  ELSE CHOOSE s \in From(t, i) : \A r \in From(t, i) : s <= r

(* Faulty: the index is left at the start of the range that was found.      *)
ResumeAtStart(t, s, i) == IF s = None THEN i ELSE s

(* What it leaves in its index argument: the end of the range it found.     *)
Resume(t, s, i) == IF s = None THEN i ELSE t[s].end

(* rt_init() on the heap, then rt_insert() of the mmap region.              *)
Init ==
  /\ tree = [s \in {HeapStart, MmapStart} |->
               Mrange(IF s = HeapStart THEN HeapEnd ELSE MmapEnd, 0, 0)]
  /\ len = 2 /\ age = 0 /\ minRange = HeapEnd - HeapStart
  /\ pc = "idle" /\ index = 0 /\ prev = None /\ curr = None /\ next = None
  /\ counted = 0 /\ before = {HeapStart, MmapStart}

(* rt_count(): a sample at addr, which may lie outside every range.         *)
Count(addr) ==
  /\ pc = "idle" /\ counted < MaxSamples
  /\ LET s == Find(tree, addr) IN
       IF s = None \/ s > addr
       THEN UNCHANGED <<tree, counted>>
       ELSE /\ tree' = [tree EXCEPT ![s].nr = @ + 1]
            /\ counted' = counted + 1
  /\ UNCHANGED <<len, age, minRange, walkVars, before>>

(* Faulty: the decay is a decrement, which passes below zero.               *)
DecayByOne(n) == n - 1

(* The decaying factor of the first loop of rt_split().                     *)
Decay(n) == n \div 2

(* rt_split() decays every count, then looks for ranges to split.           *)
SplitBegin ==
  /\ pc = "idle" /\ pc' = "walk"
  /\ tree' = [s \in DOMAIN tree |-> [tree[s] EXCEPT !.nr = Decay(@)]]
  /\ prev' = None
  /\ curr' = Find(tree, 0)
  /\ next' = Find(tree, Resume(tree, curr', 0))
  /\ index' = Resume(tree, next', Resume(tree, curr', 0))
  /\ before' = DOMAIN tree
  /\ UNCHANGED <<len, age, minRange, counted>>

(* n is significantly below the count of the range c.                       *)
Below(n, c) ==
  n # None /\ tree[n].nr + SplitThresh * SignificanceFactor < tree[c].nr

ShouldSplit(c) ==
  /\ tree[c].end - c >= SplitN
  /\ tree[c].nr >= SplitThresh
  /\ \/ prev = None /\ next = None
     \/ Below(prev, c) \/ Below(next, c)

(* Faulty: the edge is rounded up past the middle.                          *)
MidRoundedUp(c) == c + (tree[c].end - c) \div SplitN + 1

(* edges[1]: the middle, rounded down to the granularity.                   *)
Mid(c) == c + (tree[c].end - c) \div SplitN

(* Faulty: each half keeps all the accesses.                                *)
ShareAll(n) == n

Share(n) == n \div SplitN

(* Erase the range and insert its halves, each with half of the accesses.   *)
Halves(c) ==
  [s \in DOMAIN tree \cup {Mid(c)} |->
     IF s = c THEN Mrange(Mid(c), age + 1, Share(tree[c].nr))
     ELSE IF s = Mid(c) THEN Mrange(tree[c].end, age + 1, Share(tree[c].nr))
     ELSE tree[s]]

Least(x, y) == IF x <= y THEN x ELSE y

SmallerHalf(c) == Least(Mid(c) - c, tree[c].end - Mid(c))

(* Faulty: the smallest range of this split replaces the smallest so far.   *)
SplitForgetsMin(c) ==
  /\ tree' = Halves(c) /\ age' = age + 1 /\ len' = len + (SplitN - 1)
  /\ minRange' = SmallerHalf(c)

(* Faulty: both halves are counted, the range they replace is not deducted. *)
SplitCountsBoth(c) ==
  /\ tree' = Halves(c) /\ age' = age + 1 /\ len' = len + SplitN
  /\ minRange' = Least(minRange, SmallerHalf(c))

Split(c) ==
  /\ tree' = Halves(c)
  /\ age' = age + 1 /\ len' = len + (SplitN - 1)
  /\ minRange' = Least(minRange, SmallerHalf(c))

(* Faulty: the loop stays on the range it has split.                        *)
LastStale(c) == c

(* "Prevent stuck at splitting the same range": where the loop stands at    *)
(* the end of an iteration, the second half after a split.                  *)
Last(c) == IF ShouldSplit(c) THEN Mid(c) ELSE c

(* Faulty: after a split the loop looks at the first half again.           *)
UpcomingIsHalf == IF ShouldSplit(curr) THEN curr ELSE next

(* The range the next iteration looks at.                                   *)
Upcoming == next

(* One iteration of the second loop of rt_split().                          *)
SplitStep ==
  /\ pc = "walk" /\ curr # None /\ len < MaxSize
  /\ IF ShouldSplit(curr) THEN Split(curr) ELSE UNCHANGED treeVars
  /\ prev' = Last(curr) /\ curr' = Upcoming
  /\ next' = Find(tree', index)
  /\ index' = Resume(tree', next', index)
  /\ UNCHANGED <<pc, counted, before>>

SplitEnd ==
  /\ pc = "walk" /\ (curr = None \/ len >= MaxSize)
  /\ pc' = "idle" /\ prev' = None /\ curr' = None /\ next' = None /\ index' = 0
  /\ UNCHANGED <<treeVars, counted, before>>

Next == (\E addr \in 0..MmapEnd : Count(addr)) \/ SplitBegin \/ SplitStep \/ SplitEnd

Spec == Init /\ [][Next]_vars

(* The worker runs rt_split() to its end.                                   *)
FairSpec == Spec /\ WF_vars(SplitStep \/ SplitEnd)

-----------------------------------------------------------------------------
(* Properties.                                                              *)

(* Every variable of the tree stays in its type.                            *)
TypeOK ==
  /\ tree \in [DOMAIN tree -> [end : Nat, age : Nat, nr : Nat]]
  /\ DOMAIN tree \subseteq Nat /\ IsFiniteSet(DOMAIN tree)
  /\ len \in Nat /\ age \in Nat /\ minRange \in Nat
  /\ pc \in {"idle", "walk"} /\ index \in Nat
  /\ {prev, curr, next} \subseteq DOMAIN tree \cup {None}
  /\ counted \in Nat /\ before \subseteq DOMAIN tree

Coverage == (HeapStart .. (HeapEnd - 1)) \cup (MmapStart .. (MmapEnd - 1))

(* Through every split the ranges tile the heap and mmap regions: none is   *)
(* empty, no two overlap, and an address is in a range exactly when it is   *)
(* covered.  So mtree_insert_range() never finds its place taken, and the   *)
(* BUG_ON() on the edges of a split never fires.                            *)
Tiling ==
  /\ \A s \in DOMAIN tree : s < tree[s].end /\ s..(tree[s].end - 1) \subseteq Coverage
  /\ \A s, t \in DOMAIN tree : s < t => tree[s].end <= t
  /\ \A g \in Coverage : \E s \in DOMAIN tree : s <= g /\ g < tree[s].end

(* self->len is the number of ranges, which callers use to size and index   *)
(* the array of RTREE_MAX_SIZE pointers that rt_rank() fills.               *)
LenExact == len = Cardinality(DOMAIN tree) /\ len <= MaxSize

(* self->min_range, which opens the gate to exchanges, is the size of the   *)
(* smallest range.                                                          *)
MinRangeExact ==
  /\ \A s \in DOMAIN tree : minRange <= tree[s].end - s
  /\ \E s \in DOMAIN tree : minRange = tree[s].end - s

(* While rt_split() walks and splits, prev and next are the neighbours of   *)
(* curr in the tree as it is now, never a range that was erased, so a range *)
(* is compared with its real neighbours.                                    *)
WalkNeighbours ==
  pc = "walk" /\ curr # None =>
    /\ curr \in DOMAIN tree
    /\ IF prev = None THEN \A s \in DOMAIN tree : curr <= s
       ELSE prev \in DOMAIN tree /\ prev < curr
            /\ \A s \in DOMAIN tree : s <= prev \/ curr <= s
    /\ IF next = None THEN \A s \in DOMAIN tree : s <= curr
       ELSE next \in DOMAIN tree /\ curr < next
            /\ \A s \in DOMAIN tree : s <= curr \/ next <= s

(* A pass splits each range at most once: between two ranges that are new   *)
(* since it began there is one that is not, so a hot range is halved and    *)
(* its halves wait for samples of their own before they are split.          *)
PassSplitsOnce ==
  \A s, t \in DOMAIN tree \ before :
    s < t => \E o \in before : s < o /\ o < t

(* One element for each access that a range accounts for, so their number   *)
(* is the sum of the counts.                                                *)
Accesses(t) == UNION {{s} \X (1 .. t[s].nr) : s \in DOMAIN t}

(* The counts of the ranges never add up to more than the samples that were *)
(* counted, and to half of them while rt_split() walks: the decay and the   *)
(* splits lose accesses but never invent any, so a range is hot only        *)
(* because of samples.                                                      *)
AccessesConserved ==
  Cardinality(Accesses(tree)) <= IF pc = "walk" THEN counted \div 2 ELSE counted

(* rt_split() returns.                                                      *)
PassEnds == pc = "walk" ~> pc = "idle"

=============================================================================
