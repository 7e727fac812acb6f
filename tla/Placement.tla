----------------------------- MODULE Placement ------------------------------
(***************************************************************************)
(* Which ranges belong in fast memory: rt_rank() and the first half of     *)
(* policy_send_exch_reqs(), as functions of the tree that a split pass     *)
(* leaves behind.  The walk of the page tables that fills in_smem is left  *)
(* open: it may leave any number in a range, also because rt_rank() adds   *)
(* to the numbers of the ranking before.                                   *)
(***************************************************************************)
EXTENDS RangeTree, FiniteSetsExt

CONSTANTS ExchThresh,  \* rtree_exch_thresh, in granules
          MaxInSmem,   \* bound: folios of a range in slow memory
          MaxAvail     \* bound: node_avail_pages() of fast memory

ASSUME PlacementAssumption ==
  ExchThresh \in Nat /\ MaxInSmem \in Nat /\ MaxAvail \in Nat

Granularity == 2097152      \* RTREE_GRANULARITY
CoolAge     == 3            \* RTREE_COOL_AGE
UlongMax    == 2147483647   \* stands for ULONG_MAX, far above every index

(* mrange_freq()                                                            *)
Freq(s) == (tree[s].nr * Granularity) \div ((tree[s].end - s) * Granularity + 1)

(* rt_rank_cmp(): by frequency, then count, then age.  The comments beside  *)
(* it and at its call say "freq >> age", and that at rt_rank() "sorted by   *)
(* the access count": the code has all three, in the order given here, and  *)
(* it is the code's order that is checked.  The comparison returns an int   *)
(* of unsigned differences, which is exact as long as they stay far below   *)
(* 2^31; a count is at most the number of samples (AccessesConserved),      *)
(* which MaxSamples bounds.  Ranges that are equal in all three come out in *)
(* either order; their start decides here.                                  *)
Before(r, s) ==
  \/ Freq(r) < Freq(s)
  \/ /\ Freq(r) = Freq(s)
     /\ \/ tree[r].nr < tree[s].nr
        \/ tree[r].nr = tree[s].nr /\ tree[r].age < tree[s].age
        \/ tree[r].nr = tree[s].nr /\ tree[r].age = tree[s].age /\ r < s

(* The array mrs that rt_rank() fills, in ascending order.                  *)
Ranking ==
  [i \in 0 .. (len - 1) |->
     CHOOSE s \in DOMAIN tree : Cardinality({r \in DOMAIN tree : Before(r, s)}) = i]

ShouldCool(s) == tree[s].age + CoolAge > age

(* What rt_rank() leaves in *len: the hottest ranges are cut off as long as *)
(* they are young, unless all of them are.                                  *)
RankLen(mrs) ==
  LET warm == {i \in DOMAIN mrs : ~ShouldCool(mrs[i])}
  IN  IF warm = {} THEN len ELSE Max(warm) + 1

(* Faulty: the range at the other end of the ranking is added, as for smem. *)
FilledFromColdest(mrs, rlen, inSmem) ==
  LET fmem[i \in 0 .. (rlen - 1)] ==
        (IF i = 0 THEN 0 ELSE fmem[i - 1]) + (inSmem[mrs[i]] + inSmem[mrs[i]])
  IN  fmem

(* fmem after each iteration of the loop that cuts the ranking, from its    *)
(* hottest range down.  The code adds in_smem twice and in_fmem not at all. *)
Filled(mrs, rlen, inSmem) ==
  LET fmem[i \in 0 .. (rlen - 1)] ==
        (IF i = 0 THEN 0 ELSE fmem[i - 1])
          + (inSmem[mrs[rlen - 1 - i]] + inSmem[mrs[rlen - 1 - i]])
  IN  fmem

(* f: rlen less the number of iterations that found room and an access.     *)
Cut(mrs, rlen, inSmem, avail) ==
  LET fmem == Filled(mrs, rlen, inSmem)
  IN  rlen - Cardinality({i \in 0 .. (rlen - 1) :
                            avail > fmem[i] /\ tree[mrs[rlen - 1 - i]].nr > 0})

(* The decrement of an unsigned index.                                      *)
Decrement(i) == IF i = 0 THEN UlongMax ELSE i - 1

(* The indexes that the promotion loop reads, counting down while i >= f.   *)
PromotionReads(rlen, f) ==
  (f .. (rlen - 1)) \cup {i \in {Decrement(f)} : i >= f}

(* policy_handle_splt_reqs() plans an exchange after a pass that has split  *)
(* a range, and policy_send_exch_reqs() goes on if a range is small enough. *)
Planning ==
  /\ pc = "walk" /\ (curr = None \/ len >= MaxSize)
  /\ DOMAIN tree # before
  /\ minRange <= ExchThresh

-----------------------------------------------------------------------------
(* The folios in slow memory of the ranges from place k of the ranking up.  *)
SlowFolios(mrs, rlen, inSmem, k) ==
  {x \in (k .. (rlen - 1)) \X (1..MaxInSmem) : x[2] <= inSmem[mrs[x[1]]]}

(* The cut is a number, counted by a loop that goes on when a range does    *)
(* not pass its test, and the ranges above it are then all promoted.  They  *)
(* are the longest run of the hottest ranges that were all accessed and of  *)
(* whose folios in slow memory twice as many as there are stay below the    *)
(* size of the node: no range without an access is promoted because a       *)
(* hotter one was passed over, whatever the folios in the ranges.  It does  *)
(* not say that they find room: the code counts the folios to be moved      *)
(* twice, those already in fast memory not at all, and compares them with   *)
(* node_avail_pages(), which is the node without its balloon, not what is   *)
(* free of it.                                                              *)
CutGreedy ==
  Planning =>
    LET mrs == Ranking
        rlen == RankLen(mrs)
        Passes(inSmem, avail, k) ==
          /\ \A i \in k .. (rlen - 1) : tree[mrs[i]].nr > 0
          /\ k < rlen => 2 * Cardinality(SlowFolios(mrs, rlen, inSmem, k)) < avail
    IN  \A inSmem \in [DOMAIN tree -> 0..MaxInSmem] : \A avail \in 0..MaxAvail :
          Cut(mrs, rlen, inSmem, avail)
            = Min({k \in 0..rlen : Passes(inSmem, avail, k)})

(* "r is assumed to be an output array to store self->len elements": the    *)
(* promotion loop of policy_send_exch_reqs() reads no other element of it.  *)
PromotionInBounds ==
  Planning =>
    LET mrs == Ranking
        rlen == RankLen(mrs)
    IN  \A inSmem \in [DOMAIN tree -> 0..MaxInSmem] : \A avail \in 0..MaxAvail :
          PromotionReads(rlen, Cut(mrs, rlen, inSmem, avail)) \subseteq DOMAIN mrs

=============================================================================
