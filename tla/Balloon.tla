------------------------------ MODULE Balloon -------------------------------
(***************************************************************************)
(* One sub-balloon of the virtio balloon: the guest driver                 *)
(* (mm/demeter/balloon.c) and the device that backs it in the hypervisor   *)
(* (virtio-devices/src/balloon.rs).                                        *)
(*                                                                         *)
(* The driver has a normal and a heterogeneous sub-balloon, one for each   *)
(* memory node.  They share nothing but the wait queue on which every      *)
(* sleeper looks at its own virtqueue, so the module models one of them.   *)
(* Its state is written by two work items, an OOM notifier and remove().   *)
(*                                                                         *)
(* The pfns buffer is shared: a descriptor points into inner->pfns, and    *)
(* the device reads what the buffer holds when it gets to the descriptor.  *)
(***************************************************************************)
EXTENDS Integers, FiniteSets

CONSTANTS
  Page,        \* the pages of the sub-balloon's node
  PfnsMax,     \* VIRTIO_BALLOON_ARRAY_PFNS_MAX
  OomPages,    \* VIRTIO_BALLOON_OOM_NR_PAGES
  Target,      \* sizes that the operator may ask for
  MaxResizes,  \* bound: resizes in a behaviour
  MaxOoms      \* bound: OOM notifications; 0 if F_OOM is not negotiated

ASSUME PageAssumption == IsFiniteSet(Page)
ASSUME SizeAssumption ==
  /\ PfnsMax \in Nat \ {0} /\ OomPages \in Nat
  /\ Target \subseteq Nat /\ MaxResizes \in Nat /\ MaxOoms \in Nat

Work     == {"inflate", "deflate"}     \* work items, and also virtqueues
Deflater == {"deflate", "oom", "remove"}
Proc     == Work \cup Deflater
NoOne    == "none"

VARIABLES
  target, actual,   \* num_pages and actual of the device's configuration
  irq,              \* a configuration interrupt is on its way
  resizes, ooms,    \* resizes and OOM notifications so far
  hostUp,           \* the device's epoll handler thread runs
  vq,               \* each virtqueue: empty, or holding a buffer
  pfns,             \* the pages named in inner->pfns
  len, tracking,    \* inner->len and inner->tracking
  lock,             \* the holder of inner->lock
  pending,          \* queued work items
  pc,               \* where each process is
  stalled,          \* items that wait for a CPU which spins on queue_work
  want,             \* pages it was asked for (todo of its caller); 0 at rest
  todo,             \* the same, limited by what the balloon held
  batch,            \* pages it holds
  free,             \* pages in the hands of the guest's allocator and users
  backed            \* pages with host memory behind them

devVars   == <<target, actual, irq, resizes, hostUp, vq, backed>>
innerVars == <<len, tracking, lock, pfns>>
procVars  == <<pending, pc, stalled, want, todo, batch, ooms>>
vars      == <<devVars, innerVars, procVars, free>>

Goto(p, l) == pc' = [pc EXCEPT ![p] = l]
Least(x, y) == IF x <= y THEN x ELSE y
Size(p)     == Cardinality(batch[p])
At(p, l)    == pc[p] = l /\ p \notin stalled

(* vb_init() has made the device ready and called vb_work_queue().          *)
Init ==
  /\ target \in Target /\ actual = 0 /\ irq = FALSE /\ resizes = 0 /\ ooms = 0
  /\ hostUp = TRUE /\ vq = [q \in Work |-> "empty"] /\ pfns = {}
  /\ len = 0 /\ tracking = {} /\ lock = NoOne
  /\ pending = Work /\ pc = [p \in Proc |-> "idle"] /\ stalled = {}
  /\ want = [p \in Proc |-> 0] /\ todo = [p \in Proc |-> 0]
  /\ batch = [p \in Proc |-> {}]
  /\ free = Page /\ backed = Page

-----------------------------------------------------------------------------
(* The device.                                                              *)

(* Balloon::resize(): a new target, and a configuration interrupt.          *)
Resize(n) ==
  /\ resizes < MaxResizes
  /\ target' = n /\ irq' = TRUE /\ resizes' = resizes + 1
  /\ UNCHANGED <<actual, hostUp, vq, backed, innerVars, procVars, free>>

(* Faulty: a descriptor of length zero is left in the queue.                *)
AvailableNotEmpty(q) == vq[q] = "avail" /\ pfns # {}

(* pop_descriptor_chain() finds a buffer, which may be of length zero.      *)
Available(q) == vq[q] = "avail"

(* process_queue(): the pages of an inflate buffer are punched out of host  *)
(* memory and those of a deflate buffer brought back, and the buffer is     *)
(* handed back.                                                             *)
HostProcess(q) ==
  /\ hostUp /\ Available(q)
  /\ vq' = [vq EXCEPT ![q] = "used"]
  /\ backed' = IF q = "inflate" THEN backed \ pfns ELSE backed \cup pfns
  /\ UNCHANGED <<target, actual, irq, resizes, hostUp, innerVars, procVars,
                 free>>

(* An error of process_queue() ends the handler thread.                     *)
HostFail ==
  /\ hostUp /\ \E q \in Work : Available(q)
  /\ hostUp' = FALSE
  /\ UNCHANGED <<target, actual, irq, resizes, vq, backed, innerVars, procVars,
                 free>>

-----------------------------------------------------------------------------
(* Work items.                                                              *)

Removing == pc["remove"] # "idle"      \* should_exit is set

(* vb_work_stop() holds the queue_work spinlock, which the handlers of      *)
(* interrupts take, while cancel_work_sync() sleeps.                        *)
QueueLocked == pc["remove"] \in {"cancel_inflate", "cancel_deflate"}

(* config_changed(): vb_work_queue() queues both, unless the driver exits.  *)
ConfigChanged ==
  /\ irq /\ irq' = FALSE /\ ~QueueLocked
  /\ pending' = IF Removing THEN pending ELSE Work
  /\ UNCHANGED <<target, actual, resizes, hostUp, vq, backed, innerVars, pc,
                 stalled, want, todo, batch, ooms, free>>

(* While the spinlock is held an interrupt, of the configuration or of the  *)
(* statistics queue, makes its CPU spin.  The items of a workqueue like     *)
(* system_freezable_wq are bound to a CPU: one that runs there, or waits    *)
(* for an interrupt that is delivered there, is never resumed, because the  *)
(* lock is held until the item has ended.                                   *)
HandlerSpins(w) ==
  /\ QueueLocked /\ pc[w] # "idle" /\ w \notin stalled
  /\ stalled' = stalled \cup {w}
  /\ UNCHANGED <<devVars, innerVars, pending, pc, want, todo, batch, ooms, free>>

(* The workqueue starts a queued item that is not running.                  *)
WorkBegin(w) ==
  /\ w \in pending /\ pc[w] = "idle"
  /\ pending' = pending \ {w} /\ Goto(w, "diff")
  /\ UNCHANGED <<devVars, innerVars, want, todo, batch, stalled, ooms, free>>

(* vb_inner_diff_from_target(), which takes the lock for a moment: return   *)
(* if there is nothing to do.                                               *)
Diff(w) == IF w = "inflate" THEN target - len ELSE len - target

WorkDiff(w) ==
  /\ At(w, "diff") /\ lock = NoOne
  /\ IF Diff(w) <= 0
     THEN Goto(w, "idle") /\ UNCHANGED want
     ELSE /\ want' = [want EXCEPT ![w] = Diff(w)]
          /\ Goto(w, IF w = "inflate" THEN "alloc" ELSE "clamp")
  /\ UNCHANGED <<devVars, innerVars, pending, todo, batch, stalled, ooms, free>>

Cancelling(w) ==
  pc["remove"] = IF w = "inflate" THEN "cancel_inflate" ELSE "cancel_deflate"

(* Faulty: an item queues itself again although it is being cancelled.      *)
RequeueAlways(w, done) == IF done < want[w] THEN pending \cup {w} ELSE pending

(* The item did less than it was asked to: it queues itself again, in vain  *)
(* while cancel_work_sync() waits for it.                                   *)
Requeue(w, done) ==
  IF done < want[w] /\ ~Cancelling(w) THEN pending \cup {w} ELSE pending

-----------------------------------------------------------------------------
(* vb_inner_inflate().                                                      *)

(* Pages are allocated without the lock, up to the size of inner->pfns or   *)
(* until the allocator has none.                                            *)
InflateAlloc ==
  /\ At("inflate", "alloc") /\ Size("inflate") < Least(want["inflate"], PfnsMax)
  /\ \/ \E p \in free :
          /\ free' = free \ {p}
          /\ batch' = [batch EXCEPT !["inflate"] = @ \cup {p}]
          /\ UNCHANGED pc
     \/ Goto("inflate", "lock") /\ UNCHANGED <<free, batch>>
  /\ UNCHANGED <<devVars, innerVars, pending, want, todo, stalled, ooms>>

InflateAllocEnd ==
  /\ At("inflate", "alloc") /\ Size("inflate") = Least(want["inflate"], PfnsMax)
  /\ Goto("inflate", "lock")
  /\ UNCHANGED <<devVars, innerVars, pending, want, todo, batch, stalled, ooms,
                 free>>

(* Under the lock: track the pages, tell the host, and wait.                *)
InflateSend ==
  /\ At("inflate", "lock") /\ lock = NoOne
  /\ lock' = "inflate" /\ Goto("inflate", "wait")
  /\ tracking' = tracking \cup batch["inflate"] /\ pfns' = batch["inflate"]
  /\ vq' = [vq EXCEPT !["inflate"] = "avail"]
  /\ UNCHANGED <<target, actual, irq, resizes, hostUp, backed, len, pending,
                 want, todo, batch, stalled, ooms, free>>

(* Faulty: the pages that were asked for are counted, not those obtained.   *)
InflatedAll == len + want["inflate"]

Inflated == len + Size("inflate")

(* The host has answered: count the pages and report the size.              *)
InflateAcked ==
  /\ At("inflate", "wait") /\ vq["inflate"] = "used"
  /\ vq' = [vq EXCEPT !["inflate"] = "empty"]
  /\ len' = Inflated /\ actual' = Inflated /\ lock' = NoOne
  /\ pending' = Requeue("inflate", Size("inflate"))
  /\ batch' = [batch EXCEPT !["inflate"] = {}]
  /\ want' = [want EXCEPT !["inflate"] = 0] /\ Goto("inflate", "idle")
  /\ UNCHANGED <<target, irq, resizes, hostUp, backed, tracking, pfns, todo,
                 stalled, ooms, free>>

-----------------------------------------------------------------------------
(* vb_inner_deflate(), called by the work item, by vb_oom() and by          *)
(* vb_stop().                                                               *)

(* The limit is read before the lock is taken.                              *)
DeflateClamp(p) ==
  /\ At(p, "clamp") /\ Goto(p, "lock")
  /\ todo' = [todo EXCEPT ![p] = Least(want[p], len)]
  /\ UNCHANGED <<devVars, innerVars, pending, want, batch, stalled, ooms, free>>

(* Faulty: the pages go back to the allocator before the host has answered. *)
GiveBackEarly(p, s) == free' = free \cup s /\ batch' = [batch EXCEPT ![p] = {}]

(* Pages that leave the balloon are kept on a list.                         *)
GiveBack(p, s) == batch' = [batch EXCEPT ![p] = s] /\ UNCHANGED free

(* Under the lock: untrack pages, tell the host, and wait.  Nothing limits  *)
(* the pages to the size of inner->pfns: the loop may write past its end,   *)
(* and what happens then is not modelled.  page_tracker_untrack() is        *)
(* balloon_page_dequeue(), which meets BUG() when the tracker is empty (no  *)
(* page is ever isolated: CONFIG_BALLOON_COMPACTION is off): the task ends  *)
(* and leaves the lock taken.                                               *)
DeflateSend(p) ==
  /\ At(p, "lock") /\ p \in Deflater /\ lock = NoOne /\ lock' = p
  /\ \E s \in SUBSET tracking :
       /\ Cardinality(s) = Least(todo[p], Cardinality(tracking))
       /\ tracking' = tracking \ s /\ GiveBack(p, s)
       /\ \/ /\ Cardinality(s) > PfnsMax
             /\ Goto(p, "overrun") /\ UNCHANGED <<pfns, vq>>
          \/ /\ Cardinality(s) <= PfnsMax /\ Cardinality(s) < todo[p]
             /\ Goto(p, "bug") /\ pfns' = s /\ UNCHANGED vq
          \/ /\ Cardinality(s) <= PfnsMax /\ Cardinality(s) = todo[p]
             /\ Goto(p, "wait") /\ pfns' = s
             /\ vq' = [vq EXCEPT !["deflate"] = "avail"]
  /\ UNCHANGED <<target, actual, irq, resizes, hostUp, backed, len, pending,
                 want, todo, stalled, ooms>>

(* Faulty: the pages that were asked for are deducted, not those obtained.  *)
DeflatedAll(p) == len - want[p]

Deflated(p) == len - Size(p)

(* The host has answered: count the pages out, report the size, free them.  *)
DeflateAcked(p) ==
  /\ At(p, "wait") /\ p \in Deflater /\ vq["deflate"] = "used"
  /\ vq' = [vq EXCEPT !["deflate"] = "empty"]
  /\ len' = Deflated(p) /\ actual' = Deflated(p) /\ lock' = NoOne
  /\ free' = free \cup batch[p] /\ batch' = [batch EXCEPT ![p] = {}]
  /\ pending' = IF p = "deflate" THEN Requeue(p, Size(p)) ELSE pending
  /\ want' = [want EXCEPT ![p] = 0] /\ todo' = [todo EXCEPT ![p] = 0]
  /\ Goto(p, IF p = "remove" THEN "gone" ELSE "idle")
  /\ UNCHANGED <<target, irq, resizes, hostUp, backed, tracking, pfns, stalled,
                 ooms>>

(* vb_oom(), from whichever task the allocator fails.                       *)
Oom ==
  /\ ooms < MaxOoms /\ pc["oom"] = "idle" /\ ~Removing
  /\ ooms' = ooms + 1
  /\ want' = [want EXCEPT !["oom"] = OomPages] /\ Goto("oom", "clamp")
  /\ UNCHANGED <<devVars, innerVars, pending, stalled, todo, batch, free>>

-----------------------------------------------------------------------------
(* remove().                                                                *)

(* vb_stop(): unregister_oom_notifier() waits for a notifier that runs,     *)
(* vb_work_stop() sets should_exit and starts to cancel the work items.     *)
Remove ==
  /\ pc["remove"] = "idle" /\ pc["oom"] = "idle"
  /\ Goto("remove", "cancel_inflate") /\ pending' = pending \ {"inflate"}
  /\ UNCHANGED <<devVars, innerVars, want, todo, batch, stalled, ooms, free>>

(* Faulty: cancel_work() in place of cancel_work_sync().                    *)
CancelledAsync(w) == TRUE

(* cancel_work_sync() waits for an item that runs.                          *)
Cancelled(w) == pc[w] = "idle"

RemoveCancelInflate ==
  /\ pc["remove"] = "cancel_inflate" /\ Cancelled("inflate")
  /\ Goto("remove", "cancel_deflate") /\ pending' = pending \ {"deflate"}
  /\ UNCHANGED <<devVars, innerVars, want, todo, batch, stalled, ooms, free>>

(* Then vb_stop() deflates all that is left.                                *)
RemoveCancelDeflate ==
  /\ pc["remove"] = "cancel_deflate" /\ Cancelled("deflate")
  /\ Goto("remove", "clamp") /\ want' = [want EXCEPT !["remove"] = len]
  /\ UNCHANGED <<devVars, innerVars, pending, todo, batch, stalled, ooms, free>>

-----------------------------------------------------------------------------
Inflate ==
  \/ WorkBegin("inflate") \/ WorkDiff("inflate")
  \/ InflateAlloc \/ InflateAllocEnd \/ InflateSend \/ InflateAcked
DeflateBy(p) == DeflateClamp(p) \/ DeflateSend(p) \/ DeflateAcked(p)
Deflate      ==
  WorkBegin("deflate") \/ WorkDiff("deflate") \/ DeflateBy("deflate")
Stop         == RemoveCancelInflate \/ RemoveCancelDeflate \/ DeflateBy("remove")
Host         == \E q \in Work : HostProcess(q)

(* The host has gone, or a task has left the lock taken.                    *)
Broken == ~hostUp \/ \E p \in Proc : pc[p] \in {"overrun", "bug"}

(* Nothing is left to do until the operator, the allocator or the           *)
(* administrator asks for something.                                        *)
Quiet ==
  /\ \/ pc["remove"] = "gone"
     \/ Broken \/ stalled # {}
     \/ pending = {} /\ ~irq /\ \A p \in Proc : pc[p] = "idle"
  /\ UNCHANGED vars

Next ==
  \/ \E n \in Target : Resize(n)
  \/ Host \/ HostFail \/ ConfigChanged \/ \E w \in Work : HandlerSpins(w)
  \/ Inflate \/ Deflate \/ Oom \/ DeflateBy("oom")
  \/ Remove \/ Stop
  \/ Quiet

Spec == Init /\ [][Next]_vars

(* Fairness: the device serves its queues until it fails, interrupts        *)
(* arrive, the workqueue runs its items and the scheduler every task.  The  *)
(* lock is a mutex with a FIFO of waiters, so nobody waits for it for ever. *)
Fairness ==
  /\ WF_vars(Host) /\ WF_vars(ConfigChanged)
  /\ WF_vars(Inflate) /\ WF_vars(Deflate) /\ WF_vars(DeflateBy("oom"))
  /\ WF_vars(Stop)
  /\ \A w \in Work : SF_vars(WorkDiff(w))
  /\ SF_vars(InflateSend) /\ \A p \in Deflater : SF_vars(DeflateSend(p))

FairSpec == Spec /\ Fairness

-----------------------------------------------------------------------------
(* Properties.                                                              *)

Label == {"idle", "diff", "alloc", "clamp", "lock", "wait", "overrun", "bug",
          "cancel_inflate", "cancel_deflate", "gone"}

(* Every variable stays in its type; in particular len, an unsigned 32-bit  *)
(* number in the code, never passes below zero.                             *)
TypeOK ==
  /\ target \in Target /\ actual \in Nat /\ irq \in BOOLEAN
  /\ resizes \in 0..MaxResizes /\ ooms \in 0..MaxOoms /\ hostUp \in BOOLEAN
  /\ vq \in [Work -> {"empty", "avail", "used"}] /\ pfns \subseteq Page
  /\ len \in Nat /\ tracking \subseteq Page /\ lock \in Proc \cup {NoOne}
  /\ pending \subseteq Work /\ pc \in [Proc -> Label] /\ stalled \subseteq Work
  /\ want \in [Proc -> Nat] /\ todo \in [Proc -> Nat]
  /\ batch \in [Proc -> SUBSET Page] /\ free \subseteq Page /\ backed \subseteq Page

(* When the lock is free, inner->len is the number of pages in the balloon  *)
(* and the device has been told that number, however inflation, deflation   *)
(* and OOM notifications have interleaved.                                  *)
SizeExact == lock = NoOne => len = Cardinality(tracking) /\ actual = len

(* A page that the guest may use has host memory behind it: the host        *)
(* discards only pages in the balloon, and has answered for a page before   *)
(* it is freed (F_TELL_HOST), although both directions go through the one   *)
(* pfns buffer.                                                             *)
UsableBacked == free \subseteq backed

(* After remove() the guest has every page back and the driver's queues are *)
(* empty.                                                                   *)
RemoveReturnsAll ==
  pc["remove"] = "gone" =>
    /\ tracking = {} /\ free = Page
    /\ \A q \in Work : vq[q] = "empty"

(* vb_inner_deflate() reads its limit before it takes the lock, and meets   *)
(* the BUG() of an empty tracker if another deflation comes between.  The   *)
(* work item and remove() never do that to each other: without an OOM       *)
(* notification no deflation meets it.                                      *)
TrackerSuffices == ooms = 0 => \A p \in Deflater : pc[p] # "bug"

(* Whoever takes the lock and waits for the host gets an answer, also to a  *)
(* buffer without pages, and releases the lock, unless the host has gone,   *)
(* a task met BUG() or the overrun, or a handler spins on queue_work.       *)
LockReleased == lock # NoOne ~> (lock = NoOne \/ Broken \/ stalled # {})

(* remove() returns, although the work items queue themselves again, unless *)
(* the host has gone, a task has met BUG() or the overrun, or an interrupt  *)
(* arrived while vb_work_stop() was waiting for an item that needs its CPU. *)
RemoveCompletes == Removing ~> (pc["remove"] = "gone" \/ Broken \/ stalled # {})

-----------------------------------------------------------------------------
(* Statements of the code and its tests that its behaviour contradicts.     *)

(* "Temporary storage for communicating with the host": u32                 *)
(* pfns[VIRTIO_BALLOON_ARRAY_PFNS_MAX] holds the pages of every message.    *)
PfnsInBounds == \A p \in Proc : pc[p] # "overrun"

(* "Deflate balloon to restore entire RAM to the VM": after a resize to 0   *)
(* the balloon is emptied.                                                  *)
DeflatesToZero ==
  (resizes = MaxResizes /\ target = 0) ~> (len = 0 \/ Broken \/ stalled # {})

=============================================================================
