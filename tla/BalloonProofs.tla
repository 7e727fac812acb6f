--------------------------- MODULE BalloonProofs ----------------------------
(***************************************************************************)
(* The safety of a sub-balloon for any number of pages, any size of the    *)
(* pfns buffer and any sequence of resizes and OOM notifications.          *)
(***************************************************************************)
EXTENDS Balloon, FiniteSetTheorems, TLAPS

(* Where each process can be.                                               *)
Procs ==
  /\ pc["inflate"] \in {"idle", "diff", "alloc", "lock", "wait"}
  /\ pc["deflate"] \in {"idle", "diff", "clamp", "lock", "wait", "overrun",
                        "bug"}
  /\ pc["oom"] \in {"idle", "clamp", "lock", "wait", "overrun", "bug"}
  /\ pc["remove"] \in {"idle", "cancel_inflate", "cancel_deflate", "clamp",
                       "lock", "wait", "overrun", "gone"}

(* The lock is held exactly by the process that waits for the host or was   *)
(* stopped by an error under it, and a buffer is in a queue exactly while   *)
(* its sender waits; it names the pages that the sender holds.              *)
Locking ==
  /\ \A p \in Proc : lock = p <=> pc[p] \in {"wait", "overrun", "bug"}
  /\ vq["inflate"] # "empty" <=> lock = "inflate"
  /\ vq["deflate"] # "empty" <=> \E p \in Deflater : lock = p /\ pc[p] = "wait"
  /\ \A p \in Proc : pc[p] = "wait" => pfns = batch[p]

(* A process holds pages only while it has a use for them.  Pages that are  *)
(* free, in the balloon or held by a process make up the node and are kept  *)
(* apart, but for a batch that was tracked and awaits the host's answer.    *)
Pages ==
  /\ pc["inflate"] \in {"idle", "diff"} => batch["inflate"] = {}
  /\ \A p \in Deflater : lock # p => batch[p] = {}
  /\ pc["inflate"] = "wait" => batch["inflate"] \subseteq tracking
  /\ pc["inflate"] # "wait" => batch["inflate"] \cap tracking = {}
  /\ free \cap tracking = {}
  /\ \A p \in Proc : free \cap batch[p] = {}
  /\ \A p \in Deflater : batch[p] \cap (tracking \cup batch["inflate"]) = {}
  /\ \A g \in Page : g \in free \/ g \in tracking \/ \E p \in Proc : g \in batch[p]

(* By how much len differs from the pages in the balloon.                   *)
Sizes ==
  /\ actual = len
  /\ lock = NoOne => len = Cardinality(tracking)
  /\ lock = "inflate" => len + Size("inflate") = Cardinality(tracking)
  /\ \A p \in Deflater : lock = p => len = Cardinality(tracking) + Size(p)

(* Pages outside the balloon have host memory; those that leave it have it  *)
(* again once the host has answered.                                        *)
Backing ==
  /\ free \subseteq backed
  /\ pc["inflate"] # "wait" => batch["inflate"] \subseteq backed
  /\ \A p \in Deflater :
       pc[p] = "wait" /\ vq["deflate"] = "used" => batch[p] \subseteq backed

(* How far remove() has come: what it has stopped stays stopped, so that    *)
(* the size it reads is the size it deflates.                               *)
Stopping ==
  /\ pc["remove"] # "idle" => pc["oom"] = "idle" /\ "inflate" \notin pending
  /\ pc["remove"] \notin {"idle", "cancel_inflate"} =>
       pc["inflate"] = "idle" /\ "deflate" \notin pending
  /\ pc["remove"] \notin {"idle", "cancel_inflate", "cancel_deflate"} =>
       pc["deflate"] = "idle"
  /\ pc["remove"] = "clamp" => want["remove"] = len
  /\ pc["remove"] = "lock" => todo["remove"] = len
  /\ pc["remove"] \in {"wait", "overrun", "gone"} => tracking = {}

(* Without an OOM notification nobody deflates beside the work item, so the  *)
(* limit it has read stays within the balloon.                              *)
Limits ==
  ooms = 0 => /\ pc["oom"] = "idle"
              /\ pc["deflate"] = "lock" => todo["deflate"] <= len
              /\ pc["deflate"] # "bug"

BInv == TypeOK /\ Procs /\ Locking /\ Pages /\ Sizes /\ Backing /\ Stopping /\ Limits

-----------------------------------------------------------------------------
(* The steps, one disjunct for each action.                                 *)
LEMMA StepCases ==
  [Next]_vars =>
    \/ \E n \in Target : Resize(n)
    \/ HostProcess("inflate")
    \/ HostProcess("deflate")
    \/ HostFail
    \/ ConfigChanged
    \/ \E w \in Work : WorkBegin(w)
    \/ \E w \in Work : WorkDiff(w)
    \/ InflateAlloc
    \/ InflateAllocEnd
    \/ InflateSend
    \/ InflateAcked
    \/ \E p \in Deflater : DeflateClamp(p)
    \/ \E p \in Deflater : DeflateSend(p)
    \/ \E p \in Deflater : DeflateAcked(p)
    \/ Oom
    \/ Remove
    \/ RemoveCancelInflate
    \/ RemoveCancelDeflate
    \/ \E w \in Work : HandlerSpins(w)
    \/ UNCHANGED vars
BY DEF Next, Host, Inflate, Deflate, DeflateBy, Stop, Quiet, Work, Deflater

(* Sets of pages are finite; a batch adds to the balloon or leaves it.      *)
LEMMA PageCounts ==
  ASSUME NEW s \in SUBSET Page, NEW t \in SUBSET Page
  PROVE  /\ Cardinality(s) \in Nat
         /\ s \cap t = {} => Cardinality(s \cup t) = Cardinality(s) + Cardinality(t)
         /\ s \subseteq t => /\ Cardinality(t \ s) = Cardinality(t) - Cardinality(s)
                             /\ Cardinality(s) <= Cardinality(t)
                             /\ Cardinality(s) = Cardinality(t) => s = t
<1>1. IsFiniteSet(s) /\ IsFiniteSet(t)
  BY PageAssumption, FS_Subset
<1>2. Cardinality(s) \in Nat /\ Cardinality(t) \in Nat
  BY <1>1, FS_CardinalityType
<1>3. ASSUME s \cap t = {} PROVE Cardinality(s \cup t) = Cardinality(s) + Cardinality(t)
  BY <1>1, <1>2, <1>3, FS_Union, FS_EmptySet
<1>4. ASSUME s \subseteq t
      PROVE  /\ Cardinality(t \ s) = Cardinality(t) - Cardinality(s)
             /\ Cardinality(s) <= Cardinality(t)
             /\ Cardinality(s) = Cardinality(t) => s = t
  <2>1. t \cap s = s
    BY <1>4
  <2> QED
    BY <1>1, <1>4, <2>1, FS_Subset, FS_Difference
<1> QED
  BY <1>2, <1>3, <1>4

(* Where a deflation goes with the lock; it meets BUG() only if the balloon *)
(* holds less than the limit it has read.                                   *)
LEMMA SendEnds ==
  ASSUME BInv, NEW p \in Deflater, DeflateSend(p)
  PROVE  /\ \E l \in {"overrun", "bug", "wait"} : pc' = [pc EXCEPT ![p] = l]
         /\ pc[p] = "lock" /\ (pc'[p] = "bug" => len < todo[p])
<1> USE DEF BInv, TypeOK, Proc, Deflater, Work
<1>1. pc[p] = "lock" /\ lock = NoOne /\ pc \in [Proc -> Label]
  BY DEF DeflateSend, At
<1>2. PICK s \in SUBSET tracking :
        /\ Cardinality(s) = Least(todo[p], Cardinality(tracking))
        /\ \/ pc' = [pc EXCEPT ![p] = "overrun"]
           \/ pc' = [pc EXCEPT ![p] = "bug"] /\ Cardinality(s) < todo[p]
           \/ pc' = [pc EXCEPT ![p] = "wait"]
  BY DEF DeflateSend, Goto
<1>3. len = Cardinality(tracking) /\ todo[p] \in Nat /\ len \in Nat
  BY <1>1 DEF Sizes
<1>4. pc'[p] = "bug" => Cardinality(s) < todo[p]
  BY <1>1, <1>2
<1>5. pc'[p] = "bug" => len < todo[p]
  BY <1>2, <1>3, <1>4 DEF Least
<1> QED
  BY <1>1, <1>2, <1>5

(* Each process follows its own sequence of steps.                          *)
LEMMA ProcsStep == BInv /\ [Next]_vars => Procs'
<1> SUFFICES ASSUME BInv, [Next]_vars PROVE Procs'
  OBVIOUS
<1> USE DEF BInv, TypeOK, Procs, Proc, Work, Deflater, devVars, innerVars,
        procVars, vars, Goto, At
<1>1. CASE \E n \in Target : Resize(n)
  BY <1>1 DEF Resize
<1>2. CASE HostProcess("inflate")
  BY <1>2 DEF HostProcess, Available
<1>3. CASE HostProcess("deflate")
  BY <1>3 DEF HostProcess, Available
<1>4. CASE HostFail
  BY <1>4 DEF HostFail
<1>5. CASE ConfigChanged
  BY <1>5 DEF ConfigChanged
<1>6. CASE \E w \in Work : WorkBegin(w)
  BY <1>6 DEF WorkBegin
<1>7. CASE \E w \in Work : WorkDiff(w)
  BY <1>7 DEF WorkDiff
<1>8. CASE InflateAlloc
  BY <1>8 DEF InflateAlloc
<1>9. CASE InflateAllocEnd
  BY <1>9 DEF InflateAllocEnd
<1>10. CASE InflateSend
  BY <1>10 DEF InflateSend
<1>11. CASE InflateAcked
  BY <1>11 DEF InflateAcked
<1>12. CASE \E p \in Deflater : DeflateClamp(p)
  BY <1>12 DEF DeflateClamp
<1>13. CASE \E p \in Deflater : DeflateSend(p)
  <2>1. PICK p \in Deflater : DeflateSend(p)
    BY <1>13
  <2>2. PICK l \in {"overrun", "bug", "wait"} : pc' = [pc EXCEPT ![p] = l]
    BY <2>1, SendEnds
  <2>3. pc'["remove"] # "bug"
    <3>1. CASE p = "remove"
      BY <2>1, <3>1, SendEnds DEF Stopping
    <3>2. CASE p # "remove"
      BY <2>2, <3>2
    <3> QED
      BY <3>1, <3>2
  <2>4. \A q \in Proc : q # p => pc'[q] = pc[q]
    BY <2>2
  <2>5. pc'[p] = l
    BY <2>2
  <2> QED
    BY <2>3, <2>4, <2>5
<1>14. CASE \E p \in Deflater : DeflateAcked(p)
  BY <1>14 DEF DeflateAcked
<1>15. CASE Oom
  BY <1>15 DEF Oom
<1>16. CASE Remove
  BY <1>16 DEF Remove
<1>17. CASE RemoveCancelInflate
  BY <1>17 DEF RemoveCancelInflate
<1>18. CASE RemoveCancelDeflate
  BY <1>18 DEF RemoveCancelDeflate
<1>19. CASE \E w \in Work : HandlerSpins(w)
  BY <1>19 DEF HandlerSpins
<1>20. CASE UNCHANGED vars
  BY <1>20 DEF vars
<1> QED
  BY <1>1, <1>2, <1>3, <1>4, <1>5, <1>6, <1>7, <1>8, <1>9, <1>10, <1>11,
     <1>12, <1>13, <1>14, <1>15, <1>16, <1>17, <1>18, <1>19, <1>20,
     StepCases

(* A process takes the lock to send and gives it up when it is answered.    *)
LEMMA LockingStep == BInv /\ [Next]_vars => Locking'
<1> SUFFICES ASSUME BInv, [Next]_vars PROVE Locking'
  OBVIOUS
<1> USE DEF BInv, TypeOK, Procs, Proc, Work, Deflater, Locking, NoOne,
        GiveBack, devVars, innerVars, procVars, vars, Goto, At
<1>1. CASE \E n \in Target : Resize(n)
  BY <1>1 DEF Resize
<1>2. CASE HostProcess("inflate")
  BY <1>2 DEF HostProcess, Available
<1>3. CASE HostProcess("deflate")
  BY <1>3 DEF HostProcess, Available
<1>4. CASE HostFail
  BY <1>4 DEF HostFail
<1>5. CASE ConfigChanged
  BY <1>5 DEF ConfigChanged
<1>6. CASE \E w \in Work : WorkBegin(w)
  BY <1>6 DEF WorkBegin
<1>7. CASE \E w \in Work : WorkDiff(w)
  BY <1>7 DEF WorkDiff
<1>8. CASE InflateAlloc
  BY <1>8 DEF InflateAlloc
<1>9. CASE InflateAllocEnd
  BY <1>9 DEF InflateAllocEnd
<1>10. CASE InflateSend
  BY <1>10 DEF InflateSend
<1>11. CASE InflateAcked
  BY <1>11 DEF InflateAcked
<1>12. CASE \E p \in Deflater : DeflateClamp(p)
  BY <1>12 DEF DeflateClamp
<1>13. CASE \E p \in Deflater : DeflateSend(p)
  BY <1>13 DEF DeflateSend
<1>14. CASE \E p \in Deflater : DeflateAcked(p)
  BY <1>14 DEF DeflateAcked
<1>15. CASE Oom
  BY <1>15 DEF Oom
<1>16. CASE Remove
  BY <1>16 DEF Remove
<1>17. CASE RemoveCancelInflate
  BY <1>17 DEF RemoveCancelInflate
<1>18. CASE RemoveCancelDeflate
  BY <1>18 DEF RemoveCancelDeflate
<1>19. CASE \E w \in Work : HandlerSpins(w)
  BY <1>19 DEF HandlerSpins
<1>20. CASE UNCHANGED vars
  BY <1>20 DEF vars
<1> QED
  BY <1>1, <1>2, <1>3, <1>4, <1>5, <1>6, <1>7, <1>8, <1>9, <1>10, <1>11,
     <1>12, <1>13, <1>14, <1>15, <1>16, <1>17, <1>18, <1>19, <1>20,
     StepCases

(* Pages move between the allocator, a batch and the balloon.               *)
LEMMA PagesStep == BInv /\ [Next]_vars => Pages'
<1> SUFFICES ASSUME BInv, [Next]_vars PROVE Pages'
  OBVIOUS
<1> USE DEF BInv, TypeOK, Procs, Proc, Work, Deflater, Locking, Pages, NoOne,
        GiveBack, devVars, innerVars, procVars, vars, Goto, At
<1>1. CASE \E n \in Target : Resize(n)
  BY <1>1 DEF Resize
<1>2. CASE HostProcess("inflate")
  BY <1>2 DEF HostProcess, Available
<1>3. CASE HostProcess("deflate")
  BY <1>3 DEF HostProcess, Available
<1>4. CASE HostFail
  BY <1>4 DEF HostFail
<1>5. CASE ConfigChanged
  BY <1>5 DEF ConfigChanged
<1>6. CASE \E w \in Work : WorkBegin(w)
  BY <1>6 DEF WorkBegin
<1>7. CASE \E w \in Work : WorkDiff(w)
  BY <1>7 DEF WorkDiff
<1>8. CASE InflateAlloc
  BY <1>8 DEF InflateAlloc
<1>9. CASE InflateAllocEnd
  BY <1>9 DEF InflateAllocEnd
<1>10. CASE InflateSend
  BY <1>10 DEF InflateSend
<1>11. CASE InflateAcked
  BY <1>11 DEF InflateAcked
<1>12. CASE \E p \in Deflater : DeflateClamp(p)
  BY <1>12 DEF DeflateClamp
<1>13. CASE \E p \in Deflater : DeflateSend(p)
  <2>1. PICK p \in Deflater : DeflateSend(p)
    BY <1>13
  <2>2. PICK s \in SUBSET tracking :
          tracking' = tracking \ s /\ batch' = [batch EXCEPT ![p] = s]
    BY <2>1 DEF DeflateSend
  <2>3. /\ lock = NoOne /\ lock' = p /\ UNCHANGED free
        /\ pc["inflate"] # "wait" /\ UNCHANGED <<pc["inflate"], batch["inflate"]>>
        /\ \A q \in Proc : q # p => batch'[q] = batch[q]
        /\ batch'[p] = s /\ batch[p] = {}
    BY <2>1, <2>2 DEF DeflateSend
  <2>4. \A g \in Page : g \in free \/ g \in tracking' \/ \E q \in Proc : g \in batch'[q]
    BY <2>2, <2>3
  <2> QED
    BY <2>2, <2>3, <2>4
<1>14. CASE \E p \in Deflater : DeflateAcked(p)
  BY <1>14 DEF DeflateAcked
<1>15. CASE Oom
  BY <1>15 DEF Oom
<1>16. CASE Remove
  BY <1>16 DEF Remove
<1>17. CASE RemoveCancelInflate
  BY <1>17 DEF RemoveCancelInflate
<1>18. CASE RemoveCancelDeflate
  BY <1>18 DEF RemoveCancelDeflate
<1>19. CASE \E w \in Work : HandlerSpins(w)
  BY <1>19 DEF HandlerSpins
<1>20. CASE UNCHANGED vars
  BY <1>20 DEF vars
<1> QED
  BY <1>1, <1>2, <1>3, <1>4, <1>5, <1>6, <1>7, <1>8, <1>9, <1>10, <1>11,
     <1>12, <1>13, <1>14, <1>15, <1>16, <1>17, <1>18, <1>19, <1>20,
     StepCases

(* The host discards only what an inflation named, and restores what leaves. *)
LEMMA BackingStep == BInv /\ [Next]_vars => Backing'
<1> SUFFICES ASSUME BInv, [Next]_vars PROVE Backing'
  OBVIOUS
<1> USE DEF BInv, TypeOK, Procs, Proc, Work, Deflater, Locking, Pages,
        Backing, NoOne, GiveBack, devVars, innerVars, procVars, vars, Goto, At
<1>1. CASE \E n \in Target : Resize(n)
  BY <1>1 DEF Resize
<1>2. CASE HostProcess("inflate")
  BY <1>2 DEF HostProcess, Available
<1>3. CASE HostProcess("deflate")
  BY <1>3 DEF HostProcess, Available
<1>4. CASE HostFail
  BY <1>4 DEF HostFail
<1>5. CASE ConfigChanged
  BY <1>5 DEF ConfigChanged
<1>6. CASE \E w \in Work : WorkBegin(w)
  BY <1>6 DEF WorkBegin
<1>7. CASE \E w \in Work : WorkDiff(w)
  BY <1>7 DEF WorkDiff
<1>8. CASE InflateAlloc
  BY <1>8 DEF InflateAlloc
<1>9. CASE InflateAllocEnd
  BY <1>9 DEF InflateAllocEnd
<1>10. CASE InflateSend
  BY <1>10 DEF InflateSend
<1>11. CASE InflateAcked
  BY <1>11 DEF InflateAcked
<1>12. CASE \E p \in Deflater : DeflateClamp(p)
  BY <1>12 DEF DeflateClamp
<1>13. CASE \E p \in Deflater : DeflateSend(p)
  BY <1>13 DEF DeflateSend
<1>14. CASE \E p \in Deflater : DeflateAcked(p)
  BY <1>14 DEF DeflateAcked
<1>15. CASE Oom
  BY <1>15 DEF Oom
<1>16. CASE Remove
  BY <1>16 DEF Remove
<1>17. CASE RemoveCancelInflate
  BY <1>17 DEF RemoveCancelInflate
<1>18. CASE RemoveCancelDeflate
  BY <1>18 DEF RemoveCancelDeflate
<1>19. CASE \E w \in Work : HandlerSpins(w)
  BY <1>19 DEF HandlerSpins
<1>20. CASE UNCHANGED vars
  BY <1>20 DEF vars
<1> QED
  BY <1>1, <1>2, <1>3, <1>4, <1>5, <1>6, <1>7, <1>8, <1>9, <1>10, <1>11,
     <1>12, <1>13, <1>14, <1>15, <1>16, <1>17, <1>18, <1>19, <1>20,
     StepCases

(* len follows the pages, one answer of the host behind.                    *)
LEMMA SizesStep == BInv /\ [Next]_vars => Sizes'
<1> SUFFICES ASSUME BInv, [Next]_vars PROVE Sizes'
  OBVIOUS
<1> USE DEF BInv, TypeOK, Procs, Proc, Work, Deflater, Locking, Pages, Sizes,
        NoOne, Size, devVars, innerVars, procVars, vars, Goto, At
<1>1. CASE \E n \in Target : Resize(n)
  BY <1>1 DEF Resize
<1>2. CASE HostProcess("inflate")
  BY <1>2 DEF HostProcess, Available
<1>3. CASE HostProcess("deflate")
  BY <1>3 DEF HostProcess, Available
<1>4. CASE HostFail
  BY <1>4 DEF HostFail
<1>5. CASE ConfigChanged
  BY <1>5 DEF ConfigChanged
<1>6. CASE \E w \in Work : WorkBegin(w)
  BY <1>6 DEF WorkBegin
<1>7. CASE \E w \in Work : WorkDiff(w)
  BY <1>7 DEF WorkDiff
<1>8. CASE InflateAlloc
  BY <1>8 DEF InflateAlloc
<1>9. CASE InflateAllocEnd
  BY <1>9 DEF InflateAllocEnd
<1>10. CASE InflateSend
  <2>1. /\ tracking' = tracking \cup batch["inflate"] /\ UNCHANGED <<batch, len, actual>>
        /\ lock = NoOne /\ lock' = "inflate" /\ tracking \cap batch["inflate"] = {}
    BY <1>10 DEF InflateSend
  <2>2. Cardinality(tracking') = Cardinality(tracking) + Cardinality(batch["inflate"])
    BY <2>1, PageCounts
  <2> QED
    BY <2>1, <2>2 DEF Size
<1>11. CASE InflateAcked
  <2>1. Size("inflate") \in Nat /\ lock = "inflate"
    BY <1>11, PageCounts DEF InflateAcked, Size
  <2> QED
    BY <1>11, <2>1 DEF InflateAcked, Inflated
<1>12. CASE \E p \in Deflater : DeflateClamp(p)
  BY <1>12 DEF DeflateClamp
<1>13. CASE \E p \in Deflater : DeflateSend(p)
  <2>1. PICK p \in Deflater : DeflateSend(p)
    BY <1>13
  <2>2. PICK s \in SUBSET tracking :
          tracking' = tracking \ s /\ batch' = [batch EXCEPT ![p] = s]
    BY <2>1 DEF DeflateSend, GiveBack
  <2>3. Cardinality(tracking') = Cardinality(tracking) - Cardinality(s)
    BY <2>2, PageCounts
  <2>4. Cardinality(tracking) \in Nat /\ Cardinality(s) \in Nat
    BY <2>2, PageCounts
  <2>5. lock = NoOne /\ lock' = p /\ UNCHANGED <<len, actual>> /\ batch'[p] = s
    BY <2>1, <2>2 DEF DeflateSend
  <2> QED
    BY <2>3, <2>4, <2>5 DEF Size
<1>14. CASE \E p \in Deflater : DeflateAcked(p)
  <2>1. PICK p \in Deflater : DeflateAcked(p)
    BY <1>14
  <2>2. /\ lock = p /\ lock' = NoOne /\ UNCHANGED tracking
        /\ len' = len - Size(p) /\ actual' = len - Size(p)
    BY <2>1 DEF DeflateAcked, Deflated
  <2>3. Size(p) \in Nat /\ Cardinality(tracking) \in Nat
    BY PageCounts DEF Size
  <2> QED
    BY <2>2, <2>3
<1>15. CASE Oom
  BY <1>15 DEF Oom
<1>16. CASE Remove
  BY <1>16 DEF Remove
<1>17. CASE RemoveCancelInflate
  BY <1>17 DEF RemoveCancelInflate
<1>18. CASE RemoveCancelDeflate
  BY <1>18 DEF RemoveCancelDeflate
<1>19. CASE \E w \in Work : HandlerSpins(w)
  BY <1>19 DEF HandlerSpins
<1>20. CASE UNCHANGED vars
  BY <1>20 DEF vars
<1> QED
  BY <1>1, <1>2, <1>3, <1>4, <1>5, <1>6, <1>7, <1>8, <1>9, <1>10, <1>11,
     <1>12, <1>13, <1>14, <1>15, <1>16, <1>17, <1>18, <1>19, <1>20,
     StepCases

(* What remove() has stopped does not start again.                          *)
LEMMA StoppingStep == BInv /\ [Next]_vars => Stopping'
<1> SUFFICES ASSUME BInv, [Next]_vars PROVE Stopping'
  OBVIOUS
<1> USE DEF BInv, TypeOK, Procs, Proc, Work, Deflater, Locking, Pages, Sizes,
        Stopping, NoOne, Removing, Cancelling, Cancelled, Requeue, devVars,
        innerVars, procVars, vars, Goto, At
<1>1. CASE \E n \in Target : Resize(n)
  BY <1>1 DEF Resize
<1>2. CASE HostProcess("inflate")
  BY <1>2 DEF HostProcess, Available
<1>3. CASE HostProcess("deflate")
  BY <1>3 DEF HostProcess, Available
<1>4. CASE HostFail
  BY <1>4 DEF HostFail
<1>5. CASE ConfigChanged
  BY <1>5 DEF ConfigChanged
<1>6. CASE \E w \in Work : WorkBegin(w)
  BY <1>6 DEF WorkBegin
<1>7. CASE \E w \in Work : WorkDiff(w)
  BY <1>7 DEF WorkDiff
<1>8. CASE InflateAlloc
  BY <1>8 DEF InflateAlloc
<1>9. CASE InflateAllocEnd
  BY <1>9 DEF InflateAllocEnd
<1>10. CASE InflateSend
  BY <1>10 DEF InflateSend
<1>11. CASE InflateAcked
  BY <1>11 DEF InflateAcked
<1>12. CASE \E p \in Deflater : DeflateClamp(p)
  <2>1. PICK p \in Deflater : DeflateClamp(p)
    BY <1>12
  <2>2. p = "remove" => todo'["remove"] = len
    BY <2>1 DEF DeflateClamp, Least
  <2> QED
    BY <2>1, <2>2 DEF DeflateClamp
<1>13. CASE \E p \in Deflater : DeflateSend(p)
  <2>1. PICK p \in Deflater : DeflateSend(p)
    BY <1>13
  <2>2. PICK s \in SUBSET tracking :
          /\ Cardinality(s) = Least(todo[p], Cardinality(tracking))
          /\ tracking' = tracking \ s
    BY <2>1 DEF DeflateSend
  <2>3. pc[p] = "lock" /\ lock = NoOne /\ UNCHANGED <<pending, want, todo, len>>
    BY <2>1 DEF DeflateSend
  <2>4. \A q \in Proc : q # p => pc'[q] = pc[q]
    BY <2>1 DEF DeflateSend
  <2>5. CASE p = "remove"
    <3>1. s = tracking
      <4>1. Cardinality(tracking) \in Nat /\ todo["remove"] = Cardinality(tracking)
        BY <2>3, <2>5, PageCounts
      <4>2. Cardinality(s) = Cardinality(tracking)
        BY <2>2, <2>5, <4>1 DEF Least
      <4>3. s \in SUBSET Page /\ tracking \in SUBSET Page /\ s \subseteq tracking
        BY <2>2
      <4> QED
        BY <4>2, <4>3, PageCounts, Zenon
    <3>2. tracking' = {}
      BY <2>2, <3>1
    <3>3. pc'["remove"] \in {"wait", "overrun", "bug"}
      BY <2>1, <2>5, SendEnds
    <3> QED
      BY <2>3, <2>4, <2>5, <3>2, <3>3
  <2>6. CASE p # "remove"
    <3>1. pc["remove"] \notin {"wait", "overrun", "gone"} /\ pc'["remove"] = pc["remove"]
      BY <2>3, <2>4, <2>6
    <3> QED
      BY <2>3, <2>4, <2>6, <3>1
  <2> QED
    BY <2>5, <2>6
<1>14. CASE \E p \in Deflater : DeflateAcked(p)
  BY <1>14 DEF DeflateAcked
<1>15. CASE Oom
  BY <1>15 DEF Oom
<1>16. CASE Remove
  BY <1>16 DEF Remove
<1>17. CASE RemoveCancelInflate
  BY <1>17 DEF RemoveCancelInflate
<1>18. CASE RemoveCancelDeflate
  BY <1>18 DEF RemoveCancelDeflate
<1>19. CASE \E w \in Work : HandlerSpins(w)
  BY <1>19 DEF HandlerSpins
<1>20. CASE UNCHANGED vars
  BY <1>20 DEF vars
<1> QED
  BY <1>1, <1>2, <1>3, <1>4, <1>5, <1>6, <1>7, <1>8, <1>9, <1>10, <1>11,
     <1>12, <1>13, <1>14, <1>15, <1>16, <1>17, <1>18, <1>19, <1>20,
     StepCases

(* Types; that len stays a natural number rests on Sizes.                   *)
LEMMA TypeStep == BInv /\ [Next]_vars => TypeOK'
<1> SUFFICES ASSUME BInv, [Next]_vars PROVE TypeOK'
  OBVIOUS
<1> USE DEF BInv, TypeOK, Procs, Proc, Work, Deflater, Locking, NoOne, Label,
        devVars, innerVars, procVars, vars, Goto, At
<1>1. CASE \E n \in Target : Resize(n)
  BY <1>1, SizeAssumption DEF Resize
<1>2. CASE HostProcess("inflate")
  BY <1>2 DEF HostProcess, Available
<1>3. CASE HostProcess("deflate")
  BY <1>3 DEF HostProcess, Available
<1>4. CASE HostFail
  BY <1>4 DEF HostFail
<1>5. CASE ConfigChanged
  BY <1>5 DEF ConfigChanged
<1>6. CASE \E w \in Work : WorkBegin(w)
  BY <1>6 DEF WorkBegin
<1>7. CASE \E w \in Work : WorkDiff(w)
  <2>1. PICK w \in Work : WorkDiff(w)
    BY <1>7
  <2>2. target \in Nat
    BY SizeAssumption
  <2>3. want' \in [Proc -> Nat] /\ pc' \in [Proc -> Label]
    BY <2>1, <2>2 DEF WorkDiff, Diff, Label
  <2> QED
    BY <2>1, <2>3 DEF WorkDiff
<1>8. CASE InflateAlloc
  BY <1>8 DEF InflateAlloc
<1>9. CASE InflateAllocEnd
  BY <1>9 DEF InflateAllocEnd
<1>10. CASE InflateSend
  BY <1>10 DEF InflateSend
<1>11. CASE InflateAcked
  <2>1. Size("inflate") \in Nat
    BY PageCounts DEF Size
  <2> QED
    BY <1>11, <2>1 DEF InflateAcked, Inflated, Requeue, Label
<1>12. CASE \E p \in Deflater : DeflateClamp(p)
  BY <1>12 DEF DeflateClamp, Least, Label
<1>13. CASE \E p \in Deflater : DeflateSend(p)
  BY <1>13 DEF DeflateSend, GiveBack
<1>14. CASE \E p \in Deflater : DeflateAcked(p)
  <2>1. PICK p \in Deflater : DeflateAcked(p)
    BY <1>14
  <2>2. Size(p) \in Nat /\ Cardinality(tracking) \in Nat
    BY PageCounts DEF Size
  <2>3. len - Size(p) \in Nat
    BY <2>1, <2>2 DEF DeflateAcked, Sizes
  <2> QED
    BY <2>1, <2>3 DEF DeflateAcked, Deflated, Requeue, Label
<1>15. CASE Oom
  BY <1>15, SizeAssumption DEF Oom
<1>16. CASE Remove
  BY <1>16 DEF Remove
<1>17. CASE RemoveCancelInflate
  BY <1>17 DEF RemoveCancelInflate
<1>18. CASE RemoveCancelDeflate
  BY <1>18 DEF RemoveCancelDeflate
<1>19. CASE \E w \in Work : HandlerSpins(w)
  BY <1>19 DEF HandlerSpins
<1>20. CASE UNCHANGED vars
  BY <1>20 DEF vars
<1> QED
  BY <1>1, <1>2, <1>3, <1>4, <1>5, <1>6, <1>7, <1>8, <1>9, <1>10, <1>11,
     <1>12, <1>13, <1>14, <1>15, <1>16, <1>17, <1>18, <1>19, <1>20,
     StepCases

(* The limit of the work item stays good while it waits for the lock.       *)
LEMMA LimitsStep == BInv /\ [Next]_vars => Limits'
<1> SUFFICES ASSUME BInv, [Next]_vars PROVE Limits'
  OBVIOUS
<1> USE DEF BInv, TypeOK, Procs, Proc, Work, Deflater, Locking, Sizes,
        Stopping, Limits, NoOne, devVars, innerVars, procVars, vars, Goto, At
<1>1. CASE \E n \in Target : Resize(n)
  BY <1>1 DEF Resize
<1>2. CASE HostProcess("inflate")
  BY <1>2 DEF HostProcess, Available
<1>3. CASE HostProcess("deflate")
  BY <1>3 DEF HostProcess, Available
<1>4. CASE HostFail
  BY <1>4 DEF HostFail
<1>5. CASE ConfigChanged
  BY <1>5 DEF ConfigChanged
<1>6. CASE \E w \in Work : WorkBegin(w)
  BY <1>6 DEF WorkBegin
<1>7. CASE \E w \in Work : WorkDiff(w)
  BY <1>7 DEF WorkDiff
<1>8. CASE InflateAlloc
  BY <1>8 DEF InflateAlloc
<1>9. CASE InflateAllocEnd
  BY <1>9 DEF InflateAllocEnd
<1>10. CASE InflateSend
  BY <1>10 DEF InflateSend
<1>11. CASE InflateAcked
  <2>1. Size("inflate") \in Nat
    BY PageCounts DEF Size
  <2> QED
    BY <1>11, <2>1 DEF InflateAcked, Inflated
<1>12. CASE \E p \in Deflater : DeflateClamp(p)
  BY <1>12 DEF DeflateClamp, Least
<1>13. CASE \E p \in Deflater : DeflateSend(p)
  <2>1. PICK p \in Deflater : DeflateSend(p)
    BY <1>13
  <2>2. PICK l \in {"overrun", "bug", "wait"} : pc' = [pc EXCEPT ![p] = l]
    BY <2>1, SendEnds
  <2>3. pc[p] = "lock" /\ UNCHANGED <<ooms, todo, len>>
    BY <2>1 DEF DeflateSend
  <2>4. ASSUME ooms = 0, p = "deflate" PROVE pc'["deflate"] # "bug"
    BY <2>1, <2>3, <2>4, SendEnds
  <2> QED
    BY <2>2, <2>3, <2>4
<1>14. CASE \E p \in Deflater : DeflateAcked(p)
  BY <1>14 DEF DeflateAcked
<1>15. CASE Oom
  BY <1>15 DEF Oom
<1>16. CASE Remove
  BY <1>16 DEF Remove
<1>17. CASE RemoveCancelInflate
  BY <1>17 DEF RemoveCancelInflate
<1>18. CASE RemoveCancelDeflate
  BY <1>18 DEF RemoveCancelDeflate
<1>19. CASE \E w \in Work : HandlerSpins(w)
  BY <1>19 DEF HandlerSpins
<1>20. CASE UNCHANGED vars
  BY <1>20 DEF vars
<1> QED
  BY <1>1, <1>2, <1>3, <1>4, <1>5, <1>6, <1>7, <1>8, <1>9, <1>10, <1>11,
     <1>12, <1>13, <1>14, <1>15, <1>16, <1>17, <1>18, <1>19, <1>20,
     StepCases

(* The balloon starts empty, with nobody holding anything.                  *)
LEMMA BInvInit == Init => BInv
<1> SUFFICES ASSUME Init PROVE BInv
  OBVIOUS
<1> USE DEF Init, Proc, Work, Deflater, NoOne
<1>1. TypeOK
  <2>1. /\ want \in [Proc -> Nat] /\ todo \in [Proc -> Nat]
        /\ pc \in [Proc -> Label] /\ batch \in [Proc -> SUBSET Page]
    BY DEF Label
  <2>2. resizes \in 0..MaxResizes /\ ooms \in 0..MaxOoms /\ len \in Nat /\ actual \in Nat
    BY SizeAssumption
  <2>3. irq \in BOOLEAN /\ hostUp \in BOOLEAN
    BY Zenon
  <2>4. vq \in [Work -> {"empty", "avail", "used"}]
    OBVIOUS
  <2> QED
    BY <2>1, <2>2, <2>3, <2>4 DEF TypeOK
<1>2. Procs /\ Locking /\ Pages /\ Backing /\ Stopping /\ Limits
  BY DEF Procs, Locking, Pages, Backing, Stopping, Limits
<1>3. Sizes
  BY FS_EmptySet DEF Sizes
<1> QED
  BY <1>1, <1>2, <1>3 DEF BInv

(* Every step of the driver or the device keeps the invariant.              *)
LEMMA BInvStep == BInv /\ [Next]_vars => BInv'
BY TypeStep, ProcsStep, LockingStep, PagesStep, SizesStep, BackingStep,
   StoppingStep, LimitsStep
   DEF BInv

(* The invariant holds throughout.                                          *)
LEMMA BInvAlways == Spec => []BInv
BY BInvInit, BInvStep, PTL DEF Spec

(* Every variable of the sub-balloon keeps its type; in particular the      *)
(* unsigned inner->len never passes below zero, although vb_inner_deflate() *)
(* reads its limit before it takes the lock.                                *)
THEOREM TypeCorrect == Spec => []TypeOK
<1>1. BInv => TypeOK
  BY DEF BInv
<1> QED
  BY <1>1, BInvAlways, PTL

(* Whenever inner->lock is free, inner->len is the number of tracked pages  *)
(* and the size the device was told.                                        *)
THEOREM SizesHold == Spec => []SizeExact
<1>1. BInv => SizeExact
  BY DEF BInv, Sizes, SizeExact
<1> QED
  BY <1>1, BInvAlways, PTL

(* A page that the guest may use has host memory behind it: no interleaving *)
(* on the shared pfns buffer makes process_queue() discard a page in use.   *)
THEOREM UsableHolds == Spec => []UsableBacked
<1>1. BInv => UsableBacked
  BY DEF BInv, Backing, UsableBacked
<1> QED
  BY <1>1, BInvAlways, PTL

(* Without an OOM notification no deflation, neither of the work item nor   *)
(* of remove(), asks balloon_page_dequeue() for a page of an empty tracker: *)
(* the limit vb_inner_deflate() reads without the lock is then good.        *)
THEOREM TrackerHolds == Spec => []TrackerSuffices
<1>1. BInv => TrackerSuffices
  BY DEF BInv, Procs, Limits, TrackerSuffices, Deflater
<1> QED
  BY <1>1, BInvAlways, PTL

(* When remove() has returned, vb_stop() has given every page back and left *)
(* both queues empty, whatever ran when it began.                           *)
THEOREM RemovalHolds == Spec => []RemoveReturnsAll
<1>1. ASSUME BInv, pc["remove"] = "gone"
      PROVE  tracking = {} /\ free = Page /\ \A q \in Work : vq[q] = "empty"
  <2> USE <1>1 DEF BInv, TypeOK, Proc, Work, Deflater, NoOne
  <2>1. tracking = {} /\ \A p \in Proc : p # "remove" => pc[p] = "idle"
    BY DEF Stopping
  <2>2. \A p \in Proc : lock # p
    BY <2>1 DEF Locking
  <2>3. \A p \in Proc : batch[p] = {}
    BY <2>1, <2>2 DEF Pages
  <2>4. free = Page
    BY <2>1, <2>3 DEF Pages
  <2>5. \A q \in Work : vq[q] = "empty"
    BY <2>2 DEF Locking
  <2> QED
    BY <2>1, <2>4, <2>5
<1>2. BInv => RemoveReturnsAll
  BY <1>1 DEF RemoveReturnsAll
<1> QED
  BY <1>2, BInvAlways, PTL

=============================================================================
