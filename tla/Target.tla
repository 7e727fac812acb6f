------------------------------- MODULE Target -------------------------------
(***************************************************************************)
(* One target of the Demeter guest kernel module (mm/demeter/core.c): the  *)
(* four kernel threads that manage the memory of one victim process, the   *)
(* channels that join them (mm/demeter/mpsc.h), and target_new() and       *)
(* target_drop(), which start and stop them.                               *)
(*                                                                         *)
(* What travels through the pipeline is the custody of folios.  The policy *)
(* worker takes folios off the LRU onto two lists, a promotion and a       *)
(* demotion list, and passes the two list heads to the migration worker in *)
(* an exchange request; the migration worker exchanges pairs, puts the     *)
(* folios it is done with back on the LRU, and returns the two heads, with *)
(* whatever is left on them, in a response; the policy worker releases the *)
(* rest and frees the heads.  A folio is linked through its single lru     *)
(* field, so the model keeps, for each folio, the list it is linked on.    *)
(*                                                                         *)
(* Abstractions.  Which ranges are hot is the business of RangeTree: here  *)
(* a split pass may lengthen the tree by any amount the code allows, and   *)
(* the walk over the hot (cold) ranges may meet any folio of the slow      *)
(* (fast) node.  The order of a list is the address order of its folios,   *)
(* so any folio of a list may be at its head.  A ring buffer has one queue *)
(* per CPU and the receive loop visits the CPUs in turn, so any pending    *)
(* message may be the next one received.  Samples and split requests carry *)
(* nothing the workers keep, so their channels are counters.               *)
(***************************************************************************)
EXTENDS Integers, FiniteSets

CONSTANTS
  Folio,       \* the folios mapped by the victim, one page each
  Slow,        \* those of them on SMEM_NID; the others are on FMEM_NID
  Anon,        \* those of them with anonymous memory
  LazyFree,    \* anonymous folios that lost PG_swapbacked (MADV_FREE)
  ListHead,    \* objects of list_head_cache
  InitLen,     \* ranges in the tree after worker_policy() has set it up
  MaxLen,      \* RTREE_MAX_SIZE
  MpscCap,     \* messages a channel holds before the oldest is overwritten
  BsetBackoff, \* MIGRATION_BSET_BACKOFF
  PulseWidth,  \* values throttle_pulse_width_ms may have; 0 is the default
  PulsePeriod, \* throttle_pulse_period_ms
  MaxSamples   \* bound: samples the PMU delivers in a behaviour

Worker == {"main", "throttle", "policy", "migration"}

(* target_drop() stops the workers in the order of enum target_worker.      *)
WorkerAt == [i \in 1..4 |-> CASE i = 1 -> "main"   [] i = 2 -> "throttle"
                              [] i = 3 -> "policy" [] OTHER -> "migration"]

LRU           == "lru"
PromotionDone == "promotion_done"   \* migration_handle_req()'s local lists
DemotionDone  == "demotion_done"
NoHead        == "no_head"
NotListed     == -1                 \* a pfn that is not in bset

ASSUME FolioAssumption ==
  /\ IsFiniteSet(Folio)
  /\ Slow \subseteq Folio /\ Anon \subseteq Folio /\ LazyFree \subseteq Anon

ASSUME HeadAssumption ==
  /\ IsFiniteSet(ListHead)
  /\ {LRU, PromotionDone, DemotionDone, NoHead} \cap ListHead = {}

(* A channel holds MPSC_MAX_SIZE_BYTE (1 MiB) of 16-byte messages per CPU,  *)
(* far more than the 2046 splits that take the tree to RTREE_MAX_SIZE.      *)
ASSUME BoundAssumption ==
  /\ InitLen \in Nat /\ MaxLen \in Nat /\ InitLen <= MaxLen
  /\ MpscCap \in Nat /\ MaxLen - InitLen <= MpscCap
  /\ BsetBackoff \in Nat /\ MaxSamples \in Nat
  /\ PulseWidth \subseteq Nat /\ PulsePeriod \in Nat

Msg   == [promotion : ListHead, demotion : ListHead]   \* struct exch_req, exch_rsp
NoMsg == [promotion |-> NoHead, demotion |-> NoHead]

VARIABLES
  ctl,      \* where target_new() or target_drop() is
  wi,       \* the worker it starts or stops next
  pc,       \* where each worker is
  stop,     \* workers told to stop by kthread_stop()
  events,   \* the perf events: "none", "on" or "off"
  mm,       \* the victim still has an address space
  samples,  \* length of CHAN_SAMPLE
  taken,    \* samples delivered so far
  splits,   \* length of CHAN_SPLT_REQ
  reqs,     \* CHAN_EXCG_REQ
  rsps,     \* CHAN_EXCG_RSP
  got,      \* the policy worker's pass over a channel received a message
  len,      \* rt->len
  ripe,     \* rt->min_range <= rtree_exch_thresh
  work,     \* the list heads the policy worker works on
  need,     \* promotion candidates not yet matched by a demotion candidate
  mgot,     \* the migration worker's pass received a message
  cur,      \* the request migration_handle_req() works on
  bset,     \* blacklisted pfns and how often each was skipped
  heads,    \* allocated objects of list_head_cache
  on,       \* the list each folio is linked on
  filelru,  \* folios for which folio_is_file_lru() holds
  nrIso,    \* NR_ISOLATED_ANON and NR_ISOLATED_FILE of each node
  leaked    \* folios with a reference taken by a walk and never dropped

ctlVars   == <<ctl, wi, stop>>
chanVars  == <<samples, taken, splits, reqs, rsps>>
polVars   == <<got, len, ripe, work, need>>
migVars   == <<mgot, cur, bset>>
folioVars == <<heads, on, filelru, nrIso, leaked>>
vars == <<ctlVars, pc, events, mm, chanVars, polVars, migVars, folioVars>>

Nid(f)     == IF f \in Slow THEN "smem" ELSE "fmem"
Kind(f)    == IF f \in filelru THEN "file" ELSE "anon"
Isolated   == {f \in Folio : on[f] # LRU}
List(h)    == {f \in Folio : on[f] = h}
Heads(m)   == {m.promotion, m.demotion}
Goto(w, l) == pc' = [pc EXCEPT ![w] = l]

Init ==
  /\ ctl = "spawn" /\ wi = 1 /\ stop = {}
  /\ pc = [w \in Worker |-> "none"]
  /\ events = "none" /\ mm = TRUE
  /\ samples = 0 /\ taken = 0 /\ splits = 0 /\ reqs = {} /\ rsps = {}
  /\ got = FALSE /\ len = InitLen /\ ripe = FALSE /\ work = NoMsg /\ need = 0
  /\ mgot = FALSE /\ cur = NoMsg /\ bset = [f \in Folio |-> NotListed]
  /\ heads = {} /\ on = [f \in Folio |-> LRU]
  /\ filelru = LazyFree \cup (Folio \ Anon)
  /\ nrIso = [n \in {"smem", "fmem"} |-> [k \in {"anon", "file"} |-> 0]]
  /\ leaked = {}

-----------------------------------------------------------------------------
(* Channels and lists.                                                      *)

(* mpsc_send() of a message on ch: the buffer is in RB_FL_OVERWRITE mode,    *)
(* so a full one loses its oldest message instead of refusing the new one.  *)
Send(ch, m) ==
  {ch \cup {m}} \cup
  (IF Cardinality(ch) < MpscCap THEN {} ELSE {(ch \ {x}) \cup {m} : x \in ch})

(* mpsc_send() on a channel of which only the length matters.               *)
SendCount(n) == IF n < MpscCap THEN n + 1 ELSE n

(* Faulty: the message is read and left in the buffer.                      *)
Peek(ch, m) == ch

(* mpsc_recv_cpu(): the message is consumed.                                *)
Take(ch, m) == ch \ {m}

(* manage_folio(): take f off the LRU onto list h and count it.             *)
Manage(f, h) ==
  /\ on[f] = LRU
  /\ on' = [on EXCEPT ![f] = h]
  /\ nrIso' = [nrIso EXCEPT ![Nid(f)][Kind(f)] = @ + 1]

(* Faulty: a folio is put back without being counted out.                   *)
UnmanageUncounted(f) == on' = [on EXCEPT ![f] = LRU] /\ UNCHANGED nrIso

(* One iteration of unmanage_folio(): unlink f, count it out, put it back.  *)
Unmanage(f) ==
  /\ on' = [on EXCEPT ![f] = LRU]
  /\ nrIso' = [nrIso EXCEPT ![Nid(f)][Kind(f)] = @ - 1]

(* target_events_enable(): only events that were created are touched.       *)
EventsEnable(enable) ==
  events' = IF events = "none" THEN "none" ELSE IF enable THEN "on" ELSE "off"

-----------------------------------------------------------------------------
(* target_new() and target_drop().                                          *)

(* kthread_run() of the next worker, which starts at once; if it fails,     *)
(* target_new() drops what it has built.                                    *)
SpawnWorker ==
  /\ ctl = "spawn" /\ wi <= 4
  /\ \/ Goto(WorkerAt[wi], "start") /\ wi' = wi + 1 /\ UNCHANGED ctl
     \/ ctl' = "disable" /\ UNCHANGED <<pc, wi>>
  /\ UNCHANGED <<stop, events, mm, chanVars, polVars, migVars, folioVars>>

(* perf_event_create_kernel_counter(): the events are created enabled.  If  *)
(* one cannot be created, target_new() drops the target.                    *)
CreateEvents ==
  /\ ctl = "spawn" /\ wi > 4
  /\ \/ ctl' = "run" /\ events' = "on"
     \/ ctl' = "disable" /\ events' \in {"none", "on"}
  /\ UNCHANGED <<wi, stop, pc, mm, chanVars, polVars, migVars, folioVars>>

(* sysfs asks for the target to be dropped.                                 *)
Drop ==
  /\ ctl = "run" /\ ctl' = "disable"
  /\ UNCHANGED <<wi, stop, pc, events, mm, chanVars, polVars, migVars,
                 folioVars>>

DropDisableEvents ==
  /\ ctl = "disable" /\ ctl' = "stop" /\ wi' = 1
  /\ EventsEnable(FALSE)
  /\ UNCHANGED <<stop, pc, mm, chanVars, polVars, migVars, folioVars>>

(* kthread_stop() of the next worker: raise its flag, wake it, and wait.    *)
(* Workers that were never started are skipped; a thread that is gone takes *)
(* its task_struct along, and kthread_stop() panics.                        *)
DropStopWorker ==
  /\ ctl = "stop" /\ wi <= 4
  /\ CASE pc[WorkerAt[wi]] = "none" -> wi' = wi + 1 /\ UNCHANGED <<ctl, stop>>
       [] pc[WorkerAt[wi]] = "dead" -> ctl' = "panic" /\ UNCHANGED <<wi, stop>>
       [] OTHER -> /\ ctl' = "join" /\ UNCHANGED wi
                   /\ stop' = stop \cup {WorkerAt[wi]}
  /\ UNCHANGED <<pc, events, mm, chanVars, polVars, migVars, folioVars>>

DropJoinWorker ==
  /\ ctl = "join" /\ pc[WorkerAt[wi]] = "exited"
  /\ ctl' = "stop" /\ wi' = wi + 1
  /\ UNCHANGED <<stop, pc, events, mm, chanVars, polVars, migVars,
                 folioVars>>

(* mpsc_drop() of every channel, whatever it holds, then the target itself. *)
DropFree ==
  /\ ctl = "stop" /\ wi > 4 /\ ctl' = "dropped"
  /\ samples' = 0 /\ splits' = 0 /\ reqs' = {} /\ rsps' = {}
  /\ UNCHANGED <<wi, stop, pc, events, mm, taken, polVars, migVars,
                 folioVars>>

-----------------------------------------------------------------------------
(* The victim and the PMU.                                                  *)

VictimExit ==
  /\ mm /\ mm' = FALSE
  /\ UNCHANGED <<ctlVars, pc, events, chanVars, polVars, migVars,
                 folioVars>>

(* target_events_overflow(): a PEBS record becomes a message on CHAN_SAMPLE. *)
Overflow ==
  /\ events = "on" /\ mm /\ taken < MaxSamples
  /\ taken' = taken + 1 /\ samples' = SendCount(samples)
  /\ UNCHANGED <<ctlVars, pc, events, mm, splits, reqs, rsps, polVars,
                 migVars, folioVars>>

-----------------------------------------------------------------------------
(* worker_main() and worker_throttle().  A thread that is told to stop      *)
(* before it first runs never enters its function.                          *)

Loop(w, l) == Goto(w, IF w \in stop THEN "exited" ELSE l)

MainStart ==
  /\ pc["main"] = "start" /\ Loop("main", "sleep")
  /\ UNCHANGED <<ctlVars, events, mm, chanVars, polVars, migVars, folioVars>>

(* The sleep is over: send a split request, then look at the stop flag.     *)
MainSend ==
  /\ pc["main"] = "sleep" /\ Loop("main", "sleep")
  /\ splits' = SendCount(splits)
  /\ UNCHANGED <<ctlVars, events, mm, samples, taken, reqs, rsps, polVars,
                 migVars, folioVars>>

(* throttle_pulse_width_ms is read once; sampling is pulsed unless it is 0. *)
(* A BUG_ON() kills the thread if the pulse does not fit into the period.   *)
ThrottleStart ==
  /\ pc["throttle"] = "start"
  /\ \E w \in PulseWidth :
       \/ w >= PulsePeriod /\ Loop("throttle", "dead")
       \/ w < PulsePeriod /\ Loop("throttle", IF w = 0 THEN "idle" ELSE "low")
  /\ UNCHANGED <<ctlVars, events, mm, chanVars, polVars, migVars, folioVars>>

ThrottleIdle ==
  /\ pc["throttle"] = "idle" /\ Loop("throttle", "idle")
  /\ UNCHANGED <<ctlVars, events, mm, chanVars, polVars, migVars, folioVars>>

(* The top of the loop of a pulsed throttle: stop, or enable and sleep.     *)
ThrottleRaise ==
  /\ pc["throttle"] = "low" /\ Loop("throttle", "high")
  /\ IF "throttle" \in stop THEN UNCHANGED events ELSE EventsEnable(TRUE)
  /\ UNCHANGED <<ctlVars, mm, chanVars, polVars, migVars, folioVars>>

(* Faulty: the pulse ends without disabling the events.                     *)
ThrottleLowerKeepsOn ==
  /\ pc["throttle"] = "high" /\ Goto("throttle", "low")
  /\ UNCHANGED <<ctlVars, events, mm, chanVars, polVars, migVars, folioVars>>

ThrottleLower ==
  /\ pc["throttle"] = "high" /\ Goto("throttle", "low")
  /\ EventsEnable(FALSE)
  /\ UNCHANGED <<ctlVars, mm, chanVars, polVars, migVars, folioVars>>

-----------------------------------------------------------------------------
(* worker_policy().                                                         *)

(* The initialisation asserts that the victim has an address space and that *)
(* there is memory for mrs; a BUG_ON() kills the thread.                    *)
PolicyStart ==
  /\ pc["policy"] = "start"
  /\ \/ mm /\ Loop("policy", "select")
     \/ Loop("policy", "dead")
  /\ UNCHANGED <<ctlVars, events, mm, chanVars, polVars, migVars, folioVars>>

(* Faulty: a sleep that kthread_stop() cannot interrupt.                    *)
NeverInterrupted(w) == FALSE

(* kthread_stop() interrupts a worker that waits for messages; it returns   *)
(* to the stop test of its loop and ends.                                   *)
Interrupted(w) == w \in stop

(* Faulty: the victim's address space is needed for responses too.          *)
SelectedNeedsVictim ==
  IF ~mm THEN "backoff" ELSE IF rsps # {} THEN "rsp"
  ELSE IF splits > 0 THEN "split" ELSE "sample"

(* The channel mpsc_select3() reports: responses first, then split          *)
(* requests, then samples.  Without the victim's address space the last two *)
(* are left alone and the worker backs off.                                 *)
Selected ==
  IF rsps # {} THEN "rsp" ELSE IF ~mm THEN "backoff"
  ELSE IF splits > 0 THEN "split" ELSE "sample"

(* mpsc_select3() sleeps while all three channels are empty.  A worker that *)
(* has passed the stop test may find a message although it is told to stop. *)
PolicySelect ==
  /\ pc["policy"] = "select"
  /\ \/ Interrupted("policy") /\ Goto("policy", "exited")
     \/ (rsps # {} \/ splits > 0 \/ samples > 0) /\ Goto("policy", Selected)
  /\ got' = FALSE
  /\ UNCHANGED <<ctlVars, events, mm, chanVars, len, ripe, work, need,
                 migVars, folioVars>>

PolicyBackoff ==
  /\ pc["policy"] = "backoff" /\ Loop("policy", "select")
  /\ UNCHANGED <<ctlVars, events, mm, chanVars, polVars, migVars, folioVars>>

(* mpsc_for_each() goes on while it finds messages.  It ends after one or   *)
(* more, possibly with messages pending on a CPU it has already visited.    *)
PolicyPassEnd ==
  /\ pc["policy"] \in {"rsp", "split", "sample"} /\ got
  /\ Loop("policy", "select")
  /\ UNCHANGED <<ctlVars, events, mm, chanVars, polVars, migVars, folioVars>>

(* policy_handle_samples(): count or discard one sample.                    *)
PolicySample ==
  /\ pc["policy"] = "sample" /\ samples > 0
  /\ samples' = samples - 1 /\ got' = TRUE
  /\ UNCHANGED <<ctlVars, pc, events, mm, taken, splits, reqs, rsps, len,
                 ripe, work, need, migVars, folioVars>>

(* Exchanges are planned if the tree grew to l ranges and (r) its smallest  *)
(* range is at rtree_exch_thresh.                                           *)
Plans(l, r) == l > len /\ r

(* policy_handle_splt_reqs(): one request is one rt_split().                *)
PolicySplit ==
  /\ pc["policy"] = "split" /\ splits > 0
  /\ splits' = splits - 1 /\ got' = TRUE
  /\ \E l \in len..MaxLen, r \in BOOLEAN :
       /\ (l = len => r = ripe) /\ (ripe => r)
       /\ len' = l /\ ripe' = r
       /\ Goto("policy", IF Plans(l, r) THEN "alloc" ELSE "split")
  /\ UNCHANGED <<ctlVars, events, mm, samples, taken, reqs, rsps, work,
                 need, migVars, folioVars>>

(* policy_send_exch_reqs() allocates the two list heads.  TRY() returns if  *)
(* an allocation fails, and then a first head stays allocated.              *)
PolicyAlloc ==
  /\ pc["policy"] = "alloc"
  /\ \/ /\ \E p, d \in ListHead \ heads :
             /\ p # d
             /\ heads' = heads \cup {p, d}
             /\ work' = [promotion |-> p, demotion |-> d]
        /\ need' = 0 /\ Goto("policy", "promote")
     \/ /\ \/ \E p \in ListHead \ heads : heads' = heads \cup {p}
           \/ UNCHANGED heads
        /\ Goto("policy", "split") /\ UNCHANGED <<work, need>>
  /\ UNCHANGED <<ctlVars, events, mm, chanVars, got, len, ripe, migVars,
                 on, filelru, nrIso, leaked>>

(* Faulty: the walk takes the folios of either node.                        *)
OnAnyNode(f, nid) == TRUE

(* rt_isolate() passes over the folios of other nodes.                      *)
OnNode(f, nid) == Nid(f) = nid

(* rt_isolate() on the hot ranges: every folio of the slow node it meets.   *)
PolicyPromote(f) ==
  /\ pc["policy"] = "promote" /\ OnNode(f, "smem")
  /\ Manage(f, work.promotion)
  /\ need' = need + 1
  /\ UNCHANGED <<ctlVars, pc, events, mm, chanVars, got, len, ripe, work,
                 migVars, heads, filelru, leaked>>

PolicyPromoteEnd ==
  /\ pc["policy"] = "promote"
  /\ Goto("policy", IF need > 0 THEN "demote" ELSE "send")
  /\ UNCHANGED <<ctlVars, events, mm, chanVars, polVars, migVars, folioVars>>

(* rt_isolate() on the cold ranges: folios of the fast node until there are *)
(* as many as promotion candidates.  The return from inside the walk skips  *)
(* the folio_put() of the last folio.                                       *)
PolicyDemote(f) ==
  /\ pc["policy"] = "demote" /\ OnNode(f, "fmem")
  /\ Manage(f, work.demotion)
  /\ need' = need - 1
  /\ IF need = 1
     THEN leaked' = leaked \cup {f} /\ Goto("policy", "send")
     ELSE UNCHANGED <<leaked, pc>>
  /\ UNCHANGED <<ctlVars, events, mm, chanVars, got, len, ripe, work,
                 migVars, heads, filelru>>

PolicyDemoteEnd ==
  /\ pc["policy"] = "demote" /\ Goto("policy", "send")
  /\ UNCHANGED <<ctlVars, events, mm, chanVars, polVars, migVars, folioVars>>

PolicySend ==
  /\ pc["policy"] = "send" /\ Goto("policy", "split")
  /\ reqs' \in Send(reqs, work) /\ work' = NoMsg /\ need' = 0
  /\ UNCHANGED <<ctlVars, events, mm, samples, taken, splits, rsps, got,
                 len, ripe, migVars, folioVars>>

(* policy_handle_exch_rsps(): release what is left on the lists of each     *)
(* response, then free the two heads.                                       *)
PolicyRecvRsp ==
  /\ pc["policy"] = "rsp" /\ Goto("policy", "unmanage")
  /\ \E m \in rsps : work' = m /\ rsps' = Take(rsps, m)
  /\ got' = TRUE
  /\ UNCHANGED <<ctlVars, events, mm, samples, taken, splits, reqs, len,
                 ripe, need, migVars, folioVars>>

PolicyUnmanage(f) ==
  /\ pc["policy"] = "unmanage" /\ on[f] \in Heads(work)
  /\ Unmanage(f)
  /\ UNCHANGED <<ctlVars, pc, events, mm, chanVars, polVars, migVars,
                 heads, filelru, leaked>>

PolicyFree ==
  /\ pc["policy"] = "unmanage" /\ Goto("policy", "rsp")
  /\ \A f \in Folio : on[f] \notin Heads(work)
  /\ heads' = heads \ Heads(work) /\ work' = NoMsg
  /\ UNCHANGED <<ctlVars, events, mm, chanVars, got, len, ripe, need,
                 migVars, on, filelru, nrIso, leaked>>

-----------------------------------------------------------------------------
(* worker_migration().                                                      *)

MigrationStart ==
  /\ pc["migration"] = "start" /\ Loop("migration", "wait")
  /\ UNCHANGED <<ctlVars, events, mm, chanVars, polVars, migVars, folioVars>>

MigrationWait ==
  /\ pc["migration"] = "wait"
  /\ \/ Interrupted("migration") /\ Goto("migration", "exited")
     \/ reqs # {} /\ Goto("migration", "recv")
  /\ mgot' = FALSE
  /\ UNCHANGED <<ctlVars, events, mm, chanVars, polVars, cur, bset,
                 folioVars>>

MigrationPassEnd ==
  /\ pc["migration"] = "recv" /\ mgot /\ Loop("migration", "wait")
  /\ UNCHANGED <<ctlVars, events, mm, chanVars, polVars, migVars, folioVars>>

MigrationRecv ==
  /\ pc["migration"] = "recv" /\ Goto("migration", "exchange")
  /\ \E m \in reqs : cur' = m /\ reqs' = Take(reqs, m)
  /\ mgot' = TRUE
  /\ UNCHANGED <<ctlVars, events, mm, samples, taken, splits, rsps, polVars,
                 bset, folioVars>>

(* migration_handle_req() passes over a folio that it has blacklisted, and  *)
(* forgets it after MIGRATION_BSET_BACKOFF + 1 encounters; a folio that is  *)
(* not anonymous is blacklisted.  Either way the folio is done with.        *)
Suspect(f) == bset[f] # NotListed \/ f \notin Anon

(* Faulty: a blacklisted folio is never forgotten.                          *)
SetAsideForever(f, done) ==
  /\ bset' = [bset EXCEPT ![f] = @ + 1]
  /\ on' = [on EXCEPT ![f] = done]

SetAside(f, done) ==
  /\ bset' = [bset EXCEPT ![f] = IF @ = NotListed THEN 0
                                 ELSE IF @ + 1 > BsetBackoff THEN NotListed
                                 ELSE @ + 1]
  /\ on' = [on EXCEPT ![f] = done]

MigrationSkip(f0, f1) ==
  /\ pc["migration"] = "exchange"
  /\ on[f0] = cur.promotion /\ on[f1] = cur.demotion
  /\ \/ Suspect(f0) /\ SetAside(f0, PromotionDone)
     \/ ~Suspect(f0) /\ Suspect(f1) /\ SetAside(f1, DemotionDone)
  /\ UNCHANGED <<ctlVars, pc, events, mm, chanVars, polVars, mgot, cur,
                 heads, filelru, nrIso, leaked>>

(* folio_exchange_isolated() refuses a folio with an unexpected reference,  *)
(* or one that is mlocked, freed or otherwise out of reach: the code tells  *)
(* which of the two it was.  A folio that a walk still holds is refused.    *)
ExchangeResults(f0, f1) ==
  IF f0 \in leaked THEN {"-ENOTSUPP"}
  ELSE {"-ENOTSUPP", "-ENOTSUPP+1"} \cup (IF f1 \in leaked THEN {} ELSE {"0", "other"})

(* A completed exchange swaps the PG_swapbacked bits of the two folios.     *)
SwapBits(f0, f1) ==
  (filelru \ {f0, f1}) \cup (IF f0 \in filelru THEN {f1} ELSE {})
                       \cup (IF f1 \in filelru THEN {f0} ELSE {})

MigrationExchange(f0, f1) ==
  /\ pc["migration"] = "exchange"
  /\ on[f0] = cur.promotion /\ on[f1] = cur.demotion
  /\ ~Suspect(f0) /\ ~Suspect(f1)
  /\ \E err \in ExchangeResults(f0, f1) :
       /\ bset' = [bset EXCEPT ![f0] = IF err = "-ENOTSUPP" THEN 0 ELSE @,
                               ![f1] = IF err = "-ENOTSUPP+1" THEN 0 ELSE @]
       /\ on' = [on EXCEPT ![f0] = IF err = "-ENOTSUPP+1" THEN @ ELSE PromotionDone,
                           ![f1] = IF err = "-ENOTSUPP" THEN @ ELSE DemotionDone]
       /\ filelru' = IF err = "0" THEN SwapBits(f0, f1) ELSE filelru
  /\ UNCHANGED <<ctlVars, pc, events, mm, chanVars, polVars, mgot, cur,
                 heads, nrIso, leaked>>

MigrationExchangeEnd ==
  /\ pc["migration"] = "exchange" /\ Goto("migration", "unmanage")
  /\ List(cur.promotion) = {} \/ List(cur.demotion) = {}
  /\ UNCHANGED <<ctlVars, events, mm, chanVars, polVars, migVars, folioVars>>

MigrationUnmanage(f) ==
  /\ pc["migration"] = "unmanage" /\ on[f] \in {PromotionDone, DemotionDone}
  /\ Unmanage(f)
  /\ UNCHANGED <<ctlVars, pc, events, mm, chanVars, polVars, migVars,
                 heads, filelru, leaked>>

(* Faulty: the response is sent before the done lists are released.         *)
MigrationAckEarly ==
  /\ pc["migration"] = "unmanage" /\ Goto("migration", "recv")
  /\ rsps' \in Send(rsps, cur) /\ cur' = NoMsg
  /\ UNCHANGED <<ctlVars, events, mm, samples, taken, splits, reqs, polVars,
                 mgot, bset, folioVars>>

(* migration_send_ack(): the heads go back with what is left on them.       *)
MigrationAck ==
  /\ pc["migration"] = "unmanage" /\ Goto("migration", "recv")
  /\ \A f \in Folio : on[f] \notin {PromotionDone, DemotionDone}
  /\ rsps' \in Send(rsps, cur) /\ cur' = NoMsg
  /\ UNCHANGED <<ctlVars, events, mm, samples, taken, splits, reqs, polVars,
                 mgot, bset, folioVars>>

-----------------------------------------------------------------------------
Control == SpawnWorker \/ CreateEvents \/ DropDisableEvents \/ DropStopWorker
           \/ DropJoinWorker \/ DropFree
Main     == MainStart \/ MainSend
Throttle == ThrottleStart \/ ThrottleIdle \/ ThrottleRaise \/ ThrottleLower
Policy ==
  \/ PolicyStart \/ PolicySelect \/ PolicyBackoff \/ PolicyPassEnd
  \/ PolicySample \/ PolicySplit \/ PolicyAlloc
  \/ \E f \in Folio : PolicyPromote(f) \/ PolicyDemote(f) \/ PolicyUnmanage(f)
  \/ PolicyPromoteEnd \/ PolicyDemoteEnd \/ PolicySend
  \/ PolicyRecvRsp \/ PolicyFree
Migration ==
  \/ MigrationStart \/ MigrationWait \/ MigrationPassEnd \/ MigrationRecv
  \/ \E f0, f1 \in Folio : MigrationSkip(f0, f1) \/ MigrationExchange(f0, f1)
  \/ MigrationExchangeEnd \/ MigrationAck
  \/ \E f \in Folio : MigrationUnmanage(f)

Halted == ctl \in {"dropped", "panic"} /\ UNCHANGED vars

Next ==
  \/ Control \/ Drop \/ VictimExit \/ Overflow
  \/ Main \/ Throttle \/ Policy \/ Migration
  \/ Halted

Spec == Init /\ [][Next]_vars

(* Fairness: the scheduler runs every runnable kernel thread, and the       *)
(* thread in target_new() or target_drop() too.  Nothing makes sysfs drop   *)
(* a target, the victim exit or the PMU deliver a sample.  A pass over the  *)
(* split requests ends because worker_main() sleeps split_period_ms between *)
(* two of them, which weak fairness of the worker cannot tell.              *)
Fairness ==
  /\ WF_vars(Control)
  /\ WF_vars(Main)
  /\ WF_vars(Throttle)
  /\ WF_vars(Policy) /\ SF_vars(PolicyPassEnd)
  /\ WF_vars(Migration)

FairSpec == Spec /\ Fairness

-----------------------------------------------------------------------------
(* Properties.                                                              *)

MainPc      == {"none", "start", "exited", "sleep"}
ThrottlePc  == {"none", "start", "exited", "dead", "idle", "low", "high"}
PolicyPc    == {"none", "start", "exited", "dead", "select", "backoff", "rsp",
                "split", "sample", "alloc", "promote", "demote", "send", "unmanage"}
MigrationPc == {"none", "start", "exited", "wait", "recv", "exchange", "unmanage"}
Label       == MainPc \cup ThrottlePc \cup PolicyPc \cup MigrationPc

(* Every variable of the target stays in its type.                          *)
TypeOK ==
  /\ ctl \in {"spawn", "run", "disable", "stop", "join", "dropped", "panic"}
  /\ wi \in 1..5 /\ (ctl = "join" => wi <= 4) /\ stop \subseteq Worker
  /\ pc \in [Worker -> Label]
  /\ pc["main"] \in MainPc /\ pc["throttle"] \in ThrottlePc
  /\ pc["policy"] \in PolicyPc /\ pc["migration"] \in MigrationPc
  /\ events \in {"none", "on", "off"} /\ mm \in BOOLEAN
  /\ samples \in Nat /\ taken \in Nat /\ splits \in Nat
  /\ reqs \subseteq Msg /\ rsps \subseteq Msg
  /\ got \in BOOLEAN /\ len \in InitLen..MaxLen /\ ripe \in BOOLEAN
  /\ work \in Msg \cup {NoMsg} /\ need \in Nat
  /\ mgot \in BOOLEAN /\ cur \in Msg \cup {NoMsg}
  /\ bset \in [Folio -> {NotListed} \cup 0..BsetBackoff]
  /\ heads \subseteq ListHead
  /\ on \in [Folio -> ListHead \cup {LRU, PromotionDone, DemotionDone}]
  /\ filelru \subseteq Folio /\ leaked \subseteq Folio
  /\ nrIso \in [{"smem", "fmem"} -> [{"anon", "file"} -> Int]]

(* The pairs of list heads that some party holds: a channel or a worker.    *)
InTransit == reqs \cup rsps
InHand    == {work, cur} \ {NoMsg}

(* A pair of list heads has one holder at a time: it is in one message or   *)
(* in the hands of one worker, it is allocated, and no two pairs share a    *)
(* head.  So no list is walked by two workers, and no head is freed twice   *)
(* or freed while a message still points at it.                             *)
SingleCustody ==
  /\ reqs \cap rsps = {} /\ InTransit \cap InHand = {}
  /\ work = cur => work = NoMsg
  /\ \A m \in InTransit \cup InHand :
       /\ m.promotion # m.demotion /\ Heads(m) \subseteq heads
       /\ \A n \in InTransit \cup InHand : n # m => Heads(n) \cap Heads(m) = {}

(* Until the target is dropped, a folio that was taken off the LRU is on a  *)
(* list that somebody holds, so it can still be put back.  In particular no *)
(* exchange message is ever overwritten in its ring buffer: every request   *)
(* costs a split and the tree stops at RTREE_MAX_SIZE.                      *)
NoFolioStranded ==
  ctl # "dropped" =>
    \A f \in Isolated :
      \/ \E m \in InTransit \cup InHand : on[f] \in Heads(m)
      \/ /\ on[f] \in {PromotionDone, DemotionDone}
         /\ pc["migration"] \in {"exchange", "unmanage"}

(* NR_ISOLATED_ANON + NR_ISOLATED_FILE of a node counts the folios of that  *)
(* node that are off the LRU, through every exchange, refusal and putback.  *)
IsolatedAccounting ==
  \A n \in {"smem", "fmem"} :
    nrIso[n]["anon"] + nrIso[n]["file"] = Cardinality({f \in Isolated : Nid(f) = n})

(* A request asks for no more demotions than promotions ("isolate demotion  *)
(* candidate to match the promotion"), and never mixes up the two nodes.    *)
RequestsMatched ==
  \A m \in reqs :
    /\ Cardinality(List(m.demotion)) <= Cardinality(List(m.promotion))
    /\ List(m.promotion) \subseteq Slow /\ List(m.demotion) \cap Slow = {}

(* Once target_drop() has freed the channels, no worker is left to use them *)
(* and the PMU delivers no sample to them, although the throttle worker may *)
(* have switched the events on again after target_drop() switched them off. *)
QuietAfterDrop ==
  ctl = "dropped" =>
    /\ events # "on"
    /\ \A w \in Worker : pc[w] \in {"none", "exited"}

(* target_drop() returns: each kthread_stop() finds its worker willing to   *)
(* leave, wherever it is and whether or not the victim is still there,      *)
(* unless the policy or the throttle worker died in its initialisation.     *)
DropCompletes ==
  ctl \in {"disable", "stop", "join"} ~>
    (ctl = "dropped" \/ \E w \in {"policy", "throttle"} : pc[w] = "dead")

(* A request that was sent comes back and its heads are freed, unless the   *)
(* target is dropped first.                                                 *)
RequestsAnswered ==
  \A h \in ListHead :
    (\E m \in reqs : h \in Heads(m)) ~>
      (h \notin heads \/ ctl \notin {"spawn", "run"})

-----------------------------------------------------------------------------
(* A statement of the code that its behaviour contradicts.                  *)

(* "Can only be consumed by WORKER_POLICY" (CHAN_EXCG_RSP) and "release     *)
(* managed set" (unmanage_folio): the folios of every exchange come back to *)
(* the LRU through the policy worker.  A dropped target leaves none behind. *)
DropReleasesFolios == ctl = "dropped" => Isolated = {}

=============================================================================
