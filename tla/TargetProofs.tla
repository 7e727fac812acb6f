---------------------------- MODULE TargetProofs ----------------------------
(***************************************************************************)
(* The safety of a Demeter target for any number of folios and list heads, *)
(* any tree limit and any ring buffer that holds the requests it allows.   *)
(***************************************************************************)
EXTENDS Target, FiniteSetTheorems, TLAPS

(* What a worker is about to do tells whether it holds a pair of heads, and *)
(* a worker that target_new() has yet to start has done nothing.            *)
Holding ==
  /\ work # NoMsg <=> pc["policy"] \in {"promote", "demote", "send", "unmanage"}
  /\ cur # NoMsg <=> pc["migration"] \in {"exchange", "unmanage"}
  /\ pc["policy"] = "demote" => need > 0
  /\ ctl = "spawn" => \A i \in wi..4 : pc[WorkerAt[i]] = "none"

(* The part of the inductive invariant that TypeOK needs.                   *)
TInv == TypeOK /\ Holding

-----------------------------------------------------------------------------
(* Facts about the constants and the helpers.                               *)

(* The absent message is no message, and a message names two list heads,    *)
(* none of which is the LRU or a list of migration_handle_req().            *)
LEMMA MsgFacts ==
  /\ NoMsg \notin Msg
  /\ \A m \in Msg : Heads(m) \subseteq ListHead
  /\ LRU \notin ListHead /\ PromotionDone \notin ListHead /\ DemotionDone \notin ListHead
BY HeadAssumption DEF Msg, NoMsg, Heads, NoHead

(* A worker that moves leaves the others where they are.                    *)
LEMMA GotoFacts ==
  ASSUME pc \in [Worker -> Label], NEW w \in Worker, NEW l \in Label, Goto(w, l)
  PROVE  /\ pc' \in [Worker -> Label] /\ pc'[w] = l
         /\ \A v \in Worker \ {w} : pc'[v] = pc[v]
BY DEF Goto

(* enum target_worker.                                                      *)
LEMMA WorkerAtFacts ==
  /\ \A i \in 1..4 : WorkerAt[i] \in Worker
  /\ WorkerAt[1] = "main" /\ WorkerAt[2] = "throttle"
  /\ WorkerAt[3] = "policy" /\ WorkerAt[4] = "migration"
BY DEF WorkerAt, Worker

(* Sending a message puts it in the channel and brings in nothing else.     *)
LEMMA SendFacts ==
  ASSUME NEW ch, NEW m, NEW c \in Send(ch, m)
  PROVE  c \subseteq ch \cup {m} /\ m \in c
BY DEF Send

-----------------------------------------------------------------------------
(* A target that target_new() has just allocated is well typed.             *)
LEMMA TInvInit == Init => TInv
<1> SUFFICES ASSUME Init PROVE TInv
  OBVIOUS
<1> USE DEF Init
<1>1. /\ len \in InitLen..MaxLen /\ wi \in 1..5
      /\ samples \in Nat /\ taken \in Nat /\ splits \in Nat /\ need \in Nat
  BY BoundAssumption
<1>2. filelru \subseteq Folio
  BY FolioAssumption
<1>3. pc \in [Worker -> Label] /\ \A w \in Worker : pc[w] = "none"
  BY DEF Label, MainPc
<1>4. /\ bset \in [Folio -> {NotListed} \cup 0..BsetBackoff]
      /\ on \in [Folio -> ListHead \cup {LRU, PromotionDone, DemotionDone}]
  OBVIOUS
<1>5. nrIso \in [{"smem", "fmem"} -> [{"anon", "file"} -> Int]]
  OBVIOUS
<1>6. TypeOK
  BY <1>1, <1>2, <1>3, <1>4, <1>5 DEF TypeOK, MainPc, ThrottlePc, PolicyPc,
      MigrationPc, Worker
<1> QED
  BY <1>1, <1>3, <1>6, WorkerAtFacts DEF TInv, Holding, Worker

(* target_new() and target_drop() move only their own position and flags.   *)
LEMMA TInvControl == TInv /\ Control => TInv'
<1> SUFFICES ASSUME TInv, Control PROVE TInv'
  OBVIOUS
<1> USE DEF TInv, TypeOK, Holding, MainPc, ThrottlePc, PolicyPc, MigrationPc,
            ctlVars, chanVars, polVars, migVars, folioVars, Worker
<1>1. CASE SpawnWorker
  <2>1. wi \in 1..4 /\ WorkerAt[wi] \in Worker /\ wi \in wi..4
    BY <1>1, WorkerAtFacts DEF SpawnWorker
  <2>2. CASE Goto(WorkerAt[wi], "start") /\ wi' = wi + 1 /\ UNCHANGED ctl
    <3>1. /\ pc' \in [Worker -> Label] /\ pc'[WorkerAt[wi]] = "start"
          /\ \A v \in Worker \ {WorkerAt[wi]} : pc'[v] = pc[v]
      <4>1. "start" \in Label
        BY DEF Label
      <4> QED
        BY <2>1, <2>2, <4>1, GotoFacts
    <3>2. \A i \in wi'..4 : pc'[WorkerAt[i]] = "none"
      BY <1>1, <2>1, <2>2, <3>1, WorkerAtFacts DEF SpawnWorker
    <3>3. wi = 1 \/ wi = 2 \/ wi = 3 \/ wi = 4
      BY <2>1
    <3> QED
      BY <1>1, <2>1, <2>2, <3>1, <3>2, <3>3, WorkerAtFacts DEF SpawnWorker
  <2>3. CASE ctl' = "disable" /\ UNCHANGED <<pc, wi>>
    BY <1>1, <2>3 DEF SpawnWorker
  <2> QED
    BY <1>1, <2>2, <2>3 DEF SpawnWorker
<1>2. CASE CreateEvents
  BY <1>2 DEF CreateEvents
<1>3. CASE DropDisableEvents
  BY <1>3 DEF DropDisableEvents, EventsEnable
<1>4. CASE DropStopWorker
  BY <1>4, WorkerAtFacts DEF DropStopWorker
<1>5. CASE DropJoinWorker
  BY <1>5 DEF DropJoinWorker
<1>6. CASE DropFree
  BY <1>6 DEF DropFree
<1> QED
  BY <1>1, <1>2, <1>3, <1>4, <1>5, <1>6 DEF Control


(* worker_main() only sends split requests.                                 *)
LEMMA TInvMain == TInv /\ Main => TInv'
<1> SUFFICES ASSUME TInv, Main PROVE TInv'
  OBVIOUS
<1> USE DEF TInv, TypeOK, Holding, MainPc, ThrottlePc, PolicyPc, MigrationPc,
            Label, ctlVars, chanVars, polVars, migVars, folioVars, Worker, Goto, Loop
<1>1. CASE MainStart
  BY <1>1, WorkerAtFacts DEF MainStart
<1>2. CASE MainSend
  BY <1>2, WorkerAtFacts, BoundAssumption DEF MainSend, SendCount
<1> QED
  BY <1>1, <1>2 DEF Main

(* worker_throttle() only switches the events.                              *)
LEMMA TInvThrottle == TInv /\ Throttle => TInv'
<1> SUFFICES ASSUME TInv, Throttle PROVE TInv'
  OBVIOUS
<1> USE DEF TInv, TypeOK, Holding, MainPc, ThrottlePc, PolicyPc, MigrationPc,
            Label, ctlVars, chanVars, polVars, migVars, folioVars, Worker, Goto, Loop
<1>1. CASE ThrottleStart
  BY <1>1, WorkerAtFacts DEF ThrottleStart
<1>2. CASE ThrottleIdle
  BY <1>2, WorkerAtFacts DEF ThrottleIdle
<1>3. CASE ThrottleRaise
  BY <1>3, WorkerAtFacts DEF ThrottleRaise, EventsEnable
<1>4. CASE ThrottleLower
  BY <1>4, WorkerAtFacts DEF ThrottleLower, EventsEnable
<1> QED
  BY <1>1, <1>2, <1>3, <1>4 DEF Throttle

(* worker_policy() holds a pair of heads from its allocation to its send.   *)
LEMMA TInvPolicy == TInv /\ Policy => TInv'
<1> SUFFICES ASSUME TInv, Policy PROVE TInv'
  OBVIOUS
<1> USE DEF TInv, TypeOK, Holding, MainPc, ThrottlePc, PolicyPc, MigrationPc,
            Label, ctlVars, chanVars, polVars, migVars, folioVars, Worker, Goto, Loop
<1>1. CASE PolicyStart
  BY <1>1, WorkerAtFacts DEF PolicyStart
<1>2. CASE PolicySelect
  <2>1. PICK l \in {"exited", "rsp", "backoff", "split", "sample"} : Goto("policy", l)
    BY <1>2, ZenonT(60) DEF PolicySelect, Selected
  <2>2. /\ pc' \in [Worker -> Label] /\ pc'["policy"] = l
        /\ \A v \in Worker \ {"policy"} : pc'[v] = pc[v]
    BY <2>1, GotoFacts
  <2>3. TypeOK'
    <3>1. got' \in BOOLEAN
      BY <1>2, Zenon DEF PolicySelect
    <3>2. /\ pc'["main"] \in MainPc /\ pc'["throttle"] \in ThrottlePc
          /\ pc'["policy"] \in PolicyPc /\ pc'["migration"] \in MigrationPc
      BY <2>2
    <3> QED
      BY <1>2, <2>2, <3>1, <3>2 DEF PolicySelect
  <2>4. Holding'
    BY <1>2, <2>2, WorkerAtFacts DEF PolicySelect
  <2> QED
    BY <2>3, <2>4
<1>3. CASE PolicyBackoff
  BY <1>3, WorkerAtFacts DEF PolicyBackoff
<1>4. CASE PolicyPassEnd
  BY <1>4, WorkerAtFacts DEF PolicyPassEnd
<1>5. CASE PolicySample
  BY <1>5, WorkerAtFacts DEF PolicySample
<1>6. CASE PolicySplit
  BY <1>6, WorkerAtFacts, BoundAssumption DEF PolicySplit, Plans
<1>7. CASE PolicyAlloc
  BY <1>7, WorkerAtFacts, MsgFacts DEF PolicyAlloc, Msg
<1>8. ASSUME NEW f \in Folio, PolicyPromote(f) PROVE TInv'
  BY <1>8, WorkerAtFacts, MsgFacts DEF PolicyPromote, Manage, Nid, Kind, Heads
<1>9. ASSUME NEW f \in Folio, PolicyDemote(f) PROVE TInv'
  BY <1>9, WorkerAtFacts, MsgFacts DEF PolicyDemote, Manage, Nid, Kind, Heads
<1>10. ASSUME NEW f \in Folio, PolicyUnmanage(f) PROVE TInv'
  BY <1>10, WorkerAtFacts DEF PolicyUnmanage, Unmanage, Nid, Kind
<1>11. CASE PolicyPromoteEnd
  BY <1>11, WorkerAtFacts DEF PolicyPromoteEnd
<1>12. CASE PolicyDemoteEnd
  BY <1>12, WorkerAtFacts DEF PolicyDemoteEnd
<1>13. CASE PolicySend
  BY <1>13, WorkerAtFacts, SendFacts DEF PolicySend
<1>14. CASE PolicyRecvRsp
  BY <1>14, WorkerAtFacts, MsgFacts DEF PolicyRecvRsp, Take
<1>15. CASE PolicyFree
  BY <1>15, WorkerAtFacts DEF PolicyFree
<1> QED
  BY <1>1, <1>2, <1>3, <1>4, <1>5, <1>6, <1>7, <1>8, <1>9, <1>10, <1>11, <1>12, <1>13, <1>14, <1>15 DEF Policy

(* worker_migration() holds a pair from its receipt to its response.        *)
LEMMA TInvMigration == TInv /\ Migration => TInv'
<1> SUFFICES ASSUME TInv, Migration PROVE TInv'
  OBVIOUS
<1> USE DEF TInv, TypeOK, Holding, MainPc, ThrottlePc, PolicyPc, MigrationPc,
            Label, ctlVars, chanVars, polVars, migVars, folioVars, Worker, Goto, Loop
<1>1. CASE MigrationStart
  BY <1>1, WorkerAtFacts DEF MigrationStart
<1>2. CASE MigrationWait
  <2>1. PICK l \in {"exited", "recv"} : Goto("migration", l)
    BY <1>2, ZenonT(60) DEF MigrationWait
  <2>2. /\ pc' \in [Worker -> Label] /\ pc'["migration"] = l
        /\ \A v \in Worker \ {"migration"} : pc'[v] = pc[v]
    BY <2>1, GotoFacts
  <2>3. TypeOK'
    <3>1. mgot' \in BOOLEAN
      BY <1>2, Zenon DEF MigrationWait
    <3>2. /\ pc'["main"] \in MainPc /\ pc'["throttle"] \in ThrottlePc
          /\ pc'["policy"] \in PolicyPc /\ pc'["migration"] \in MigrationPc
      BY <2>2
    <3> QED
      BY <1>2, <2>2, <3>1, <3>2 DEF MigrationWait
  <2>4. Holding'
    BY <1>2, <2>2, WorkerAtFacts, SMTT(60) DEF MigrationWait
  <2> QED
    BY <2>3, <2>4
<1>3. CASE MigrationPassEnd
  BY <1>3, WorkerAtFacts DEF MigrationPassEnd
<1>4. CASE MigrationRecv
  BY <1>4, WorkerAtFacts, MsgFacts DEF MigrationRecv, Take
<1>5. ASSUME NEW f0 \in Folio, NEW f1 \in Folio, MigrationSkip(f0, f1) PROVE TInv'
  BY <1>5, WorkerAtFacts, BoundAssumption DEF MigrationSkip, SetAside, Suspect, NotListed
<1>6. ASSUME NEW f0 \in Folio, NEW f1 \in Folio, MigrationExchange(f0, f1) PROVE TInv'
  BY <1>6, WorkerAtFacts, BoundAssumption DEF MigrationExchange, SwapBits, Suspect, NotListed
<1>7. CASE MigrationExchangeEnd
  BY <1>7, WorkerAtFacts DEF MigrationExchangeEnd
<1>8. ASSUME NEW f \in Folio, MigrationUnmanage(f) PROVE TInv'
  BY <1>8, WorkerAtFacts DEF MigrationUnmanage, Unmanage, Nid, Kind
<1>9. CASE MigrationAck
  BY <1>9, WorkerAtFacts, SendFacts DEF MigrationAck
<1> QED
  BY <1>1, <1>2, <1>3, <1>4, <1>5, <1>6, <1>7, <1>8, <1>9 DEF Migration


(* Every step keeps the types and who holds a pair.                         *)
LEMMA TInvStep == TInv /\ [Next]_vars => TInv'
<1> SUFFICES ASSUME TInv, [Next]_vars PROVE TInv'
  OBVIOUS
<1>1. CASE Control
  BY <1>1, TInvControl
<1>2. CASE Drop \/ VictimExit \/ Overflow
  <2> USE DEF TInv, TypeOK, Holding, ctlVars, chanVars, polVars, migVars, folioVars
  <2>1. CASE Drop
    BY <2>1 DEF Drop
  <2>2. CASE VictimExit
    <3>1. mm' \in BOOLEAN
      BY <2>2, Zenon DEF VictimExit
    <3> QED
      BY <2>2, <3>1 DEF VictimExit
  <2>3. CASE Overflow
    BY <2>3, BoundAssumption DEF Overflow, SendCount
  <2> QED
    BY <1>2, <2>1, <2>2, <2>3
<1>3. CASE Main
  BY <1>3, TInvMain
<1>4. CASE Throttle
  BY <1>4, TInvThrottle
<1>5. CASE Policy
  BY <1>5, TInvPolicy
<1>6. CASE Migration
  BY <1>6, TInvMigration
<1>7. CASE Halted \/ UNCHANGED vars
  BY <1>7 DEF Halted, vars, ctlVars, chanVars, polVars, migVars, folioVars,
              TInv, TypeOK, Holding
<1> QED
  BY <1>1, <1>2, <1>3, <1>4, <1>5, <1>6, <1>7 DEF Next

(* Every variable of a target keeps its type: in particular the split phase *)
(* never takes the tree past RTREE_MAX_SIZE, the demotion quota of an       *)
(* exchange request never goes below zero, and no worker leaves its own     *)
(* control flow, whatever the order in which the workers run and stop.      *)
THEOREM TypeCorrect == Spec => []TypeOK
<1>1. Spec => []TInv
  BY TInvInit, TInvStep, PTL DEF Spec
<1>2. TInv => TypeOK
  BY DEF TInv
<1> QED
  BY <1>1, <1>2, PTL


-----------------------------------------------------------------------------
(* Custody of the list heads.                                               *)

(* The steps that hand a pair of heads over, and what they do to it.        *)
HandOver ==
  DropFree \/ PolicyAlloc \/ PolicySend \/ PolicyRecvRsp \/ PolicyFree
  \/ MigrationRecv \/ MigrationAck

custodyVars == <<reqs, rsps, work, cur, heads>>

(* Only a hand-over changes who holds which heads.                          *)
LEMMA CustodyFrame == [Next]_vars => HandOver \/ UNCHANGED custodyVars
<1> SUFFICES ASSUME [Next]_vars, ~HandOver PROVE UNCHANGED custodyVars
  OBVIOUS
<1> USE DEF custodyVars, HandOver, ctlVars, chanVars, polVars, migVars, folioVars
<1>1. CASE Control
  BY <1>1 DEF Control, SpawnWorker, CreateEvents, DropDisableEvents,
              DropStopWorker, DropJoinWorker
<1>2. CASE Drop \/ VictimExit \/ Overflow
  BY <1>2 DEF Drop, VictimExit, Overflow
<1>3. CASE Main \/ Throttle
  BY <1>3 DEF Main, MainStart, MainSend, Throttle, ThrottleStart,
              ThrottleIdle, ThrottleRaise, ThrottleLower
<1>4. CASE Policy
  BY <1>4 DEF Policy, PolicyStart, PolicySelect, PolicyBackoff,
              PolicyPassEnd, PolicySample, PolicySplit, PolicyPromote,
              PolicyDemote, PolicyUnmanage, PolicyPromoteEnd, PolicyDemoteEnd
<1>5. CASE Migration
  BY <1>5 DEF Migration, MigrationStart, MigrationWait, MigrationPassEnd,
              MigrationSkip, MigrationExchange, MigrationExchangeEnd,
              MigrationUnmanage
<1>6. CASE Halted \/ UNCHANGED vars
  BY <1>6 DEF Halted, vars
<1> QED
  BY <1>1, <1>2, <1>3, <1>4, <1>5, <1>6 DEF Next

(* No pair that is held is the absent one, and the heads of each are        *)
(* allocated; the disjointness of the holders is SingleCustody itself.      *)
LEMMA SingleCustodyStep == TInv /\ SingleCustody /\ [Next]_vars => SingleCustody'
<1> SUFFICES ASSUME TInv, SingleCustody, [Next]_vars PROVE SingleCustody'
  OBVIOUS
<1> USE MsgFacts DEF TInv, TypeOK, Holding, SingleCustody, InTransit, InHand
<1>1. CASE DropFree
  BY <1>1 DEF DropFree, polVars, migVars, folioVars
<1>2. CASE PolicyAlloc
  <2> USE <1>2 DEF PolicyAlloc, chanVars, migVars
  <2>1. work = NoMsg
    OBVIOUS
  <2>2. CASE UNCHANGED work
    BY <2>2
  <2>3. ASSUME NEW p \in ListHead \ heads, NEW d \in ListHead \ heads, p # d,
               heads' = heads \cup {p, d},
               work' = [promotion |-> p, demotion |-> d]
        PROVE  SingleCustody'
    <3>1. work' \in Msg /\ Heads(work') = {p, d}
      BY <2>3 DEF Msg, Heads
    <3>2. \A m \in InTransit \cup InHand : m # work' /\ Heads(m) \cap Heads(work') = {}
      BY <3>1
    <3> QED
      BY <2>1, <2>3, <3>1, <3>2
  <2> QED
    BY <2>2, <2>3
<1>3. CASE PolicySend
  <2>1. /\ work \in Msg /\ work' = NoMsg /\ reqs' \subseteq reqs \cup {work}
        /\ rsps' = rsps /\ cur' = cur /\ heads' = heads
    BY <1>3, SendFacts DEF PolicySend, migVars, folioVars
  <2> QED
    BY <2>1
<1>4. CASE PolicyRecvRsp
  <2>1. /\ work = NoMsg /\ work' \in rsps /\ rsps' = rsps \ {work'}
        /\ reqs' = reqs /\ cur' = cur /\ heads' = heads
    BY <1>4 DEF PolicyRecvRsp, Take, migVars, folioVars
  <2> QED
    BY <2>1
<1>5. CASE PolicyFree
  <2>1. /\ work \in Msg /\ work' = NoMsg /\ heads' = heads \ Heads(work)
        /\ reqs' = reqs /\ rsps' = rsps /\ cur' = cur
    BY <1>5 DEF PolicyFree, chanVars, migVars
  <2> QED
    BY <2>1
<1>6. CASE MigrationRecv
  <2>1. /\ cur = NoMsg /\ cur' \in reqs /\ reqs' = reqs \ {cur'}
        /\ rsps' = rsps /\ work' = work /\ heads' = heads
    BY <1>6 DEF MigrationRecv, Take, polVars, folioVars
  <2> QED
    BY <2>1
<1>7. CASE MigrationAck
  <2>1. /\ cur \in Msg /\ cur' = NoMsg /\ rsps' \subseteq rsps \cup {cur}
        /\ reqs' = reqs /\ work' = work /\ heads' = heads
    BY <1>7, SendFacts DEF MigrationAck, polVars, folioVars
  <2> QED
    BY <2>1
<1>8. CASE UNCHANGED custodyVars
  BY <1>8 DEF custodyVars
<1> QED
  BY <1>1, <1>2, <1>3, <1>4, <1>5, <1>6, <1>7, <1>8, CustodyFrame DEF HandOver


-----------------------------------------------------------------------------
(* The budget of exchange messages: each is paid for by a split that made   *)
(* the tree longer, so a ring buffer that holds MaxLen - InitLen messages   *)
(* never overwrites one.                                                    *)

Planned == IF pc["policy"] \in {"alloc", "promote", "demote", "send"} THEN 1 ELSE 0
Serving == IF pc["migration"] \in {"exchange", "unmanage"} THEN 1 ELSE 0

Budget ==
  /\ IsFiniteSet(reqs) /\ IsFiniteSet(rsps)
  /\ Cardinality(reqs) + Cardinality(rsps) + Planned + Serving <= len - InitLen

(* Steps that hand no pair over may plan a request only by making the tree  *)
(* longer, and start to serve none.                                         *)
LEMMA BudgetFrame ==
  ASSUME TInv, [Next]_vars, ~HandOver
  PROVE  len' - Planned' >= len - Planned /\ Serving' <= Serving
<1> USE DEF HandOver, TInv, TypeOK, Holding, Planned, Serving, Worker, Goto,
            Loop, ctlVars, chanVars, polVars, migVars, folioVars
<1>1. CASE SpawnWorker
  BY <1>1, WorkerAtFacts DEF SpawnWorker
<1>2. CASE Control /\ ~SpawnWorker
  <2>1. UNCHANGED <<pc, len>>
    BY <1>2 DEF Control, CreateEvents, DropDisableEvents, DropStopWorker,
                DropJoinWorker
  <2> QED
    BY <2>1, BoundAssumption
<1>3. CASE Drop \/ VictimExit \/ Overflow
  BY <1>3 DEF Drop, VictimExit, Overflow
<1>4. CASE Main \/ Throttle
  <2>1. len' = len /\ pc'["policy"] = pc["policy"] /\ pc'["migration"] = pc["migration"]
    <3>1. CASE Main
      BY <3>1 DEF Main, MainStart, MainSend
    <3>2. CASE ThrottleStart
      BY <3>2 DEF ThrottleStart
    <3>3. CASE ThrottleIdle
      BY <3>3 DEF ThrottleIdle
    <3>4. CASE ThrottleRaise
      BY <3>4 DEF ThrottleRaise
    <3>5. CASE ThrottleLower
      BY <3>5 DEF ThrottleLower
    <3> QED
      BY <1>4, <3>1, <3>2, <3>3, <3>4, <3>5 DEF Throttle
  <2> QED
    BY <2>1, BoundAssumption
<1>5. CASE PolicySplit
  BY <1>5, BoundAssumption DEF PolicySplit, Plans
<1>6. CASE Policy /\ ~PolicySplit
  BY <1>6 DEF Policy, PolicyStart, PolicySelect, Selected, PolicyBackoff,
              PolicyPassEnd, PolicySample, PolicyPromote, PolicyDemote,
              PolicyUnmanage, PolicyPromoteEnd, PolicyDemoteEnd
<1>7. CASE Migration
  BY <1>7 DEF Migration, MigrationStart, MigrationWait, MigrationPassEnd,
              MigrationSkip, MigrationExchange, MigrationExchangeEnd,
              MigrationUnmanage
<1>8. CASE Halted \/ UNCHANGED vars
  BY <1>8 DEF Halted, vars
<1> QED
  BY <1>1, <1>2, <1>3, <1>4, <1>5, <1>6, <1>7, <1>8 DEF Next

(* A channel within the budget has room, and sending loses nothing.         *)
LEMMA SendWithinBudget ==
  ASSUME NEW ch, NEW m, NEW c \in Send(ch, m), IsFiniteSet(ch),
         Cardinality(ch) < MpscCap
  PROVE  /\ c = ch \cup {m} /\ IsFiniteSet(c)
         /\ Cardinality(c) <= Cardinality(ch) + 1
<1>1. c = ch \cup {m}
  BY DEF Send
<1>2. IsFiniteSet(c) /\ Cardinality(c) \in {Cardinality(ch), Cardinality(ch) + 1}
  BY <1>1, FS_AddElement
<1>3. Cardinality(ch) \in Nat
  BY FS_CardinalityType
<1> QED
  BY <1>1, <1>2, <1>3

(* A request is paid for by a split, so the budget is never exceeded.       *)
LEMMA BudgetStep == TInv /\ Budget /\ [Next]_vars => Budget'
<1> SUFFICES ASSUME TInv, Budget, [Next]_vars PROVE Budget'
  OBVIOUS
<1>0. /\ Cardinality(reqs) \in Nat /\ Cardinality(rsps) \in Nat
      /\ len \in Nat /\ InitLen \in Nat /\ MpscCap \in Nat /\ len - InitLen <= MpscCap
      /\ Planned \in {0, 1} /\ Serving \in {0, 1}
  BY FS_CardinalityType, BoundAssumption DEF Budget, TInv, TypeOK, Planned, Serving
<1> USE DEF TInv, TypeOK, Budget, Planned, Serving, Worker, Goto
<1>1. CASE DropFree
  BY <1>0, <1>1, FS_EmptySet DEF DropFree, polVars
<1>2. CASE PolicyAlloc
  BY <1>0, <1>2 DEF PolicyAlloc, chanVars
<1>3. CASE PolicySend
  <2>1. Cardinality(reqs) < MpscCap
    BY <1>0, <1>3 DEF PolicySend
  <2>2. IsFiniteSet(reqs') /\ Cardinality(reqs') <= Cardinality(reqs) + 1
    BY <1>3, <2>1, SendWithinBudget DEF PolicySend
  <2> QED
    BY <1>0, <1>3, <2>2, FS_CardinalityType, SMTT(60) DEF PolicySend
<1>4. CASE PolicyRecvRsp
  <2>1. PICK m \in rsps : rsps' = rsps \ {m}
    BY <1>4 DEF PolicyRecvRsp, Take
  <2>2. IsFiniteSet(rsps') /\ Cardinality(rsps') = Cardinality(rsps) - 1
    BY <2>1, FS_RemoveElement
  <2> QED
    BY <1>0, <1>4, <2>2 DEF PolicyRecvRsp
<1>5. CASE PolicyFree
  BY <1>0, <1>5 DEF PolicyFree, chanVars
<1>6. CASE MigrationRecv
  <2>1. PICK m \in reqs : reqs' = reqs \ {m}
    BY <1>6 DEF MigrationRecv, Take
  <2>2. IsFiniteSet(reqs') /\ Cardinality(reqs') = Cardinality(reqs) - 1
    BY <2>1, FS_RemoveElement
  <2> QED
    BY <1>0, <1>6, <2>2 DEF MigrationRecv, polVars
<1>7. CASE MigrationAck
  <2>1. Cardinality(rsps) < MpscCap
    BY <1>0, <1>7 DEF MigrationAck
  <2>2. IsFiniteSet(rsps') /\ Cardinality(rsps') <= Cardinality(rsps) + 1
    BY <1>7, <2>1, SendWithinBudget DEF MigrationAck
  <2> QED
    BY <1>0, <1>7, <2>2, FS_CardinalityType, SMTT(60) DEF MigrationAck, polVars
<1>8. CASE ~HandOver
  <2> HIDE DEF Planned, Serving
  <2>1. reqs' = reqs /\ rsps' = rsps
    BY <1>8, CustodyFrame DEF custodyVars
  <2>2. len' - Planned' >= len - Planned /\ Serving' <= Serving
    BY <1>8, BudgetFrame
  <2>3. len' \in Nat /\ Planned' \in {0, 1} /\ Serving' \in {0, 1}
    BY TInvStep, BoundAssumption DEF Planned, Serving
  <2>4. Cardinality(reqs') + Cardinality(rsps') + Planned' + Serving' <= len' - InitLen
    <3>1. Cardinality(reqs) + Cardinality(rsps) + Planned + Serving <= len - InitLen
      OBVIOUS
    <3>2. Cardinality(reqs') = Cardinality(reqs) /\ Cardinality(rsps') = Cardinality(rsps)
      BY <2>1
    <3> HIDE DEF TInv, TypeOK, Budget
    <3>3. /\ Planned \in Int /\ Planned' \in Int /\ Serving \in Int /\ Serving' \in Int
          /\ Cardinality(reqs') \in Int /\ Cardinality(rsps') \in Int
          /\ len \in Int /\ len' \in Int /\ InitLen \in Int
      BY <1>0, <2>3, <3>2
    <3>4. \A a, b, p, q, s, t, l, k, i \in Int :
            a + b + p + s <= l - i /\ k - q >= l - p /\ t <= s => a + b + q + t <= k - i
      OBVIOUS
    <3> QED
      BY <2>2, <3>1, <3>2, <3>3, <3>4, Zenon
  <2> QED
    BY <2>1, <2>4
<1> QED
  BY <1>1, <1>2, <1>3, <1>4, <1>5, <1>6, <1>7, <1>8 DEF HandOver


-----------------------------------------------------------------------------
(* Custody of the folios.                                                   *)

(* The steps that link a folio on another list.                             *)
Takes(f)   == PolicyPromote(f) \/ PolicyDemote(f)
PutsBack(f) == PolicyUnmanage(f) \/ MigrationUnmanage(f)
Settles(f, g) == MigrationSkip(f, g) \/ MigrationExchange(f, g)

Relink ==
  \/ \E f \in Folio : Takes(f) \/ PutsBack(f)
  \/ \E f, g \in Folio : Settles(f, g)

(* Only manage_folio(), unmanage_folio() and the exchange relink folios.    *)
LEMMA FolioFrame == [Next]_vars => Relink \/ UNCHANGED <<on, nrIso>>
<1> SUFFICES ASSUME [Next]_vars, ~Relink PROVE UNCHANGED <<on, nrIso>>
  OBVIOUS
<1> USE DEF Relink, Takes, PutsBack, Settles, folioVars
<1>1. CASE Control
  BY <1>1 DEF Control, SpawnWorker, CreateEvents, DropDisableEvents,
              DropStopWorker, DropJoinWorker, DropFree
<1>2. CASE Drop \/ VictimExit \/ Overflow
  BY <1>2 DEF Drop, VictimExit, Overflow
<1>3. CASE Main \/ Throttle
  BY <1>3 DEF Main, MainStart, MainSend, Throttle, ThrottleStart,
              ThrottleIdle, ThrottleRaise, ThrottleLower
<1>4. CASE Policy
  BY <1>4 DEF Policy, PolicyStart, PolicySelect, PolicyBackoff,
              PolicyPassEnd, PolicySample, PolicySplit, PolicyAlloc,
              PolicyPromoteEnd, PolicyDemoteEnd, PolicySend, PolicyRecvRsp,
              PolicyFree
<1>5. CASE Migration
  BY <1>5 DEF Migration, MigrationStart, MigrationWait, MigrationPassEnd,
              MigrationRecv, MigrationExchangeEnd, MigrationAck
<1>6. CASE Halted \/ UNCHANGED vars
  BY <1>6 DEF Halted, vars
<1> QED
  BY <1>1, <1>2, <1>3, <1>4, <1>5, <1>6 DEF Next

(* What the three kinds of step do: a folio is taken from the LRU onto a    *)
(* list in hand, put back from a list, or settled on a done list, which     *)
(* leaves it isolated.                                                      *)
LEMMA TakesFacts ==
  ASSUME TInv, NEW f \in Folio, Takes(f)
  PROVE  /\ work \in Msg /\ \E h \in Heads(work) : Manage(f, h)
         /\ UNCHANGED <<ctl, filelru>> /\ pc'["migration"] = pc["migration"]
BY MsgFacts DEF Takes, PolicyPromote, PolicyDemote, TInv, TypeOK, Holding, Heads,
                Goto, Worker, ctlVars

(* unmanage_folio() puts one folio back on the LRU.                         *)
LEMMA PutsBackFacts ==
  ASSUME TInv, NEW f \in Folio, PutsBack(f)
  PROVE  on[f] # LRU /\ Unmanage(f) /\ UNCHANGED <<ctl, pc, filelru>>
<1>1. CASE PolicyUnmanage(f)
  BY <1>1, MsgFacts DEF PolicyUnmanage, TInv, TypeOK, Holding, ctlVars
<1>2. CASE MigrationUnmanage(f)
  BY <1>2 DEF MigrationUnmanage, LRU, PromotionDone, DemotionDone, ctlVars
<1> QED
  BY <1>1, <1>2 DEF PutsBack

(* migration_handle_req() settles folios on its local lists.                *)
LEMMA SettlesFacts ==
  ASSUME TInv, NEW f \in Folio, NEW g \in Folio, Settles(f, g)
  PROVE  /\ pc["migration"] = "exchange" /\ on[f] # LRU /\ on[g] # LRU
         /\ \A x \in Folio : on'[x] \in {on[x], PromotionDone, DemotionDone}
         /\ \A x \in Folio : x \notin {f, g} => on'[x] = on[x]
         /\ UNCHANGED <<ctl, pc, nrIso>>
<1>1. on[f] # LRU /\ on[g] # LRU /\ pc["migration"] = "exchange"
  BY MsgFacts DEF Settles, MigrationSkip, MigrationExchange, TInv, TypeOK,
                  Holding, Heads
<1>2. CASE MigrationSkip(f, g)
  BY <1>1, <1>2 DEF MigrationSkip, SetAside, TInv, TypeOK, ctlVars
<1>3. CASE MigrationExchange(f, g)
  BY <1>1, <1>3 DEF MigrationExchange, TInv, TypeOK, ctlVars
<1> QED
  BY <1>2, <1>3 DEF Settles

(* A dropped target stays dropped.                                          *)
LEMMA DroppedStays == ctl = "dropped" /\ [Next]_vars => ctl' = "dropped"
<1> SUFFICES ASSUME ctl = "dropped", [Next]_vars PROVE ctl' = ctl
  OBVIOUS
<1> USE DEF ctlVars
<1>1. CASE Control \/ Drop
  BY <1>1 DEF Control, SpawnWorker, CreateEvents, DropDisableEvents,
              DropStopWorker, DropJoinWorker, DropFree, Drop
<1>2. CASE VictimExit \/ Overflow
  BY <1>2 DEF VictimExit, Overflow
<1>3. CASE Main \/ Throttle
  BY <1>3 DEF Main, MainStart, MainSend, Throttle, ThrottleStart,
              ThrottleIdle, ThrottleRaise, ThrottleLower
<1>4. CASE Policy
  BY <1>4 DEF Policy, PolicyStart, PolicySelect, PolicyBackoff,
              PolicyPassEnd, PolicySample, PolicySplit, PolicyAlloc,
              PolicyPromote, PolicyDemote, PolicyUnmanage,
              PolicyPromoteEnd, PolicyDemoteEnd, PolicySend, PolicyRecvRsp,
              PolicyFree
<1>5. CASE Migration
  BY <1>5 DEF Migration, MigrationStart, MigrationWait, MigrationPassEnd,
              MigrationRecv, MigrationSkip, MigrationExchange,
              MigrationExchangeEnd, MigrationUnmanage, MigrationAck
<1>6. CASE Halted \/ UNCHANGED vars
  BY <1>6 DEF Halted, vars
<1> QED
  BY <1>1, <1>2, <1>3, <1>4, <1>5, <1>6 DEF Next


(* The migration worker leaves migration_handle_req() only by its response. *)
LEMMA ServesToTheEnd ==
  ASSUME TInv, [Next]_vars, ~MigrationAck, pc["migration"] \in {"exchange", "unmanage"}
  PROVE  pc'["migration"] \in {"exchange", "unmanage"}
<1> USE DEF TInv, TypeOK, Worker, Goto, Loop
<1>1. CASE SpawnWorker
  BY <1>1, WorkerAtFacts DEF SpawnWorker, Holding
<1>2. CASE Control /\ ~SpawnWorker
  BY <1>2 DEF Control, CreateEvents, DropDisableEvents, DropStopWorker,
              DropJoinWorker, DropFree
<1>3. CASE Drop \/ VictimExit \/ Overflow
  BY <1>3 DEF Drop, VictimExit, Overflow
<1>4. CASE Main \/ Throttle
  <2>1. PICK w \in {"main", "throttle"}, l \in Label : Goto(w, l)
    BY <1>4 DEF Main, MainStart, MainSend, Throttle, ThrottleStart, ThrottleIdle,
                ThrottleRaise, ThrottleLower, Label, MainPc, ThrottlePc
  <2> QED
    BY <2>1
<1>5. CASE Policy
  BY <1>5 DEF Policy, PolicyStart, PolicySelect, PolicyBackoff,
              PolicyPassEnd, PolicySample, PolicySplit, PolicyAlloc,
              PolicyPromote, PolicyDemote, PolicyUnmanage,
              PolicyPromoteEnd, PolicyDemoteEnd, PolicySend, PolicyRecvRsp,
              PolicyFree
<1>6. CASE Migration
  BY <1>6 DEF Migration, MigrationStart, MigrationWait, MigrationPassEnd,
              MigrationRecv, MigrationSkip, MigrationExchange,
              MigrationExchangeEnd, MigrationUnmanage
<1>7. CASE Halted \/ UNCHANGED vars
  BY <1>7 DEF Halted, vars
<1> QED
  BY <1>1, <1>2, <1>3, <1>4, <1>5, <1>6, <1>7 DEF Next

(* Nothing is sent into a full channel, so no pair of heads is lost: a step *)
(* that hands pairs over keeps every pair that has folios on its lists.     *)
LEMMA PairsKept ==
  ASSUME TInv, Budget, [Next]_vars, ctl' # "dropped",
         NEW m \in InTransit \cup InHand, m \notin (InTransit \cup InHand)'
  PROVE  PolicyFree /\ m = work
<1>0. /\ Cardinality(reqs) \in Nat /\ Cardinality(rsps) \in Nat
      /\ len \in Nat /\ InitLen \in Nat /\ MpscCap \in Nat /\ len - InitLen <= MpscCap
  BY FS_CardinalityType, BoundAssumption DEF Budget, TInv, TypeOK
<1> USE DEF InTransit, InHand
<1>1. CASE DropFree
  BY <1>1 DEF DropFree
<1>2. CASE PolicyAlloc
  BY <1>2 DEF PolicyAlloc, TInv, Holding, chanVars, migVars
<1>3. CASE PolicySend
  <2>1. Cardinality(reqs) < MpscCap
    BY <1>0, <1>3 DEF PolicySend, Budget, Planned, Serving
  <2>2. reqs' = reqs \cup {work}
    BY <1>3, <2>1, SendWithinBudget DEF PolicySend, Budget
  <2> QED
    BY <1>3, <2>2 DEF PolicySend, migVars
<1>4. CASE PolicyRecvRsp
  <2>1. work = NoMsg /\ work' \in rsps /\ rsps' = rsps \ {work'}
    BY <1>4 DEF PolicyRecvRsp, Take, TInv, Holding
  <2>2. work' # NoMsg
    BY <2>1, MsgFacts DEF TInv, TypeOK
  <2> QED
    BY <1>4, <2>1, <2>2 DEF PolicyRecvRsp, migVars
<1>5. CASE PolicyFree
  BY <1>5 DEF PolicyFree, chanVars, migVars
<1>6. CASE MigrationRecv
  <2>1. cur = NoMsg /\ cur' \in reqs /\ reqs' = reqs \ {cur'}
    BY <1>6 DEF MigrationRecv, Take, TInv, Holding
  <2>2. cur' # NoMsg
    BY <2>1, MsgFacts DEF TInv, TypeOK
  <2> QED
    BY <1>6, <2>1, <2>2 DEF MigrationRecv, polVars
<1>7. CASE MigrationAck
  <2>1. Cardinality(rsps) < MpscCap
    BY <1>0, <1>7 DEF MigrationAck, Budget, Planned, Serving
  <2>2. rsps' = rsps \cup {cur}
    BY <1>7, <2>1, SendWithinBudget DEF MigrationAck, Budget
  <2> QED
    BY <1>7, <2>2 DEF MigrationAck, polVars
<1>8. CASE UNCHANGED custodyVars
  BY <1>8 DEF custodyVars
<1> QED
  BY <1>1, <1>2, <1>3, <1>4, <1>5, <1>6, <1>7, <1>8, CustodyFrame DEF HandOver

(* No step leaves an isolated folio on a list that nobody holds.            *)
LEMMA NoFolioStrandedStep ==
  TInv /\ Budget /\ NoFolioStranded /\ [Next]_vars => NoFolioStranded'
<1> SUFFICES ASSUME TInv, Budget, NoFolioStranded, [Next]_vars,
                    ctl' # "dropped", NEW x \in Folio, on'[x] # LRU
             PROVE  \/ \E m \in (InTransit \cup InHand)' : on'[x] \in Heads(m)
                    \/ /\ on'[x] \in {PromotionDone, DemotionDone}
                       /\ pc'["migration"] \in {"exchange", "unmanage"}
  BY DEF NoFolioStranded, Isolated
<1>1. CASE on'[x] = on[x]
  <2>1. CASE \E m \in InTransit \cup InHand : on[x] \in Heads(m)
    <3>1. PICK m \in InTransit \cup InHand : on[x] \in Heads(m)
      BY <2>1
    <3>2. m \in (InTransit \cup InHand)'
      BY <3>1, PairsKept DEF PolicyFree
    <3> QED
      BY <1>1, <3>1, <3>2
  <2>2. CASE /\ on[x] \in {PromotionDone, DemotionDone}
             /\ pc["migration"] \in {"exchange", "unmanage"}
    <3>1. ~MigrationAck
      BY <2>2 DEF MigrationAck
    <3> QED
      BY <1>1, <2>2, <3>1, ServesToTheEnd
  <2>3. on[x] # LRU /\ ctl # "dropped"
    BY <1>1, DroppedStays
  <2> QED
    BY <2>1, <2>2, <2>3 DEF NoFolioStranded, Isolated
<1>2. CASE on'[x] # on[x]
  <2>1. Relink
    BY <1>2, FolioFrame
  <2>2. ASSUME NEW f \in Folio, Takes(f)
        PROVE  \E m \in (InTransit \cup InHand)' : on'[x] \in Heads(m)
    <3>1. PICK h \in Heads(work) : Manage(f, h)
      BY <2>2, TakesFacts
    <3>2. on'[x] = h
      BY <1>2, <3>1 DEF Manage, TInv, TypeOK
    <3>3. work' = work /\ work # NoMsg
      BY <2>2, TakesFacts, MsgFacts
         DEF Takes, PolicyPromote, PolicyDemote
    <3> QED
      BY <3>1, <3>2, <3>3 DEF InHand
  <2>3. ASSUME NEW f \in Folio, PutsBack(f) PROVE FALSE
    BY <1>2, <2>3, PutsBackFacts DEF Unmanage, TInv, TypeOK
  <2>4. ASSUME NEW f \in Folio, NEW g \in Folio, Settles(f, g)
        PROVE  /\ on'[x] \in {PromotionDone, DemotionDone}
               /\ pc'["migration"] \in {"exchange", "unmanage"}
    BY <1>2, <2>4, SettlesFacts
  <2> QED
    BY <2>1, <2>2, <2>3, <2>4 DEF Relink
<1> QED
  BY <1>1, <1>2

-----------------------------------------------------------------------------
(* The isolation counters.                                                  *)

OffLru(n) == {f \in Isolated : Nid(f) = n}

(* The isolated folios of a node can be counted.                            *)
LEMMA OffLruFinite == \A n : IsFiniteSet(OffLru(n)) /\ Cardinality(OffLru(n)) \in Nat
<1> SUFFICES ASSUME NEW n PROVE IsFiniteSet(OffLru(n)) /\ Cardinality(OffLru(n)) \in Nat
  OBVIOUS
<1>1. OffLru(n) \subseteq Folio
  BY DEF OffLru, Isolated
<1>2. IsFiniteSet(OffLru(n))
  BY <1>1, FS_Subset, FolioAssumption
<1> QED
  BY <1>2, FS_CardinalityType

(* Every step that isolates or releases a folio counts it in its node.      *)
LEMMA IsolatedAccountingStep ==
  TInv /\ IsolatedAccounting /\ [Next]_vars => IsolatedAccounting'
<1> SUFFICES ASSUME TInv, IsolatedAccounting, [Next]_vars, NEW n \in {"smem", "fmem"}
             PROVE  nrIso'[n]["anon"] + nrIso'[n]["file"] = Cardinality(OffLru(n)')
  BY DEF IsolatedAccounting, OffLru
<1>0. /\ nrIso[n]["anon"] + nrIso[n]["file"] = Cardinality(OffLru(n))
      /\ nrIso \in [{"smem", "fmem"} -> [{"anon", "file"} -> Int]]
      /\ nrIso[n]["anon"] \in Int /\ nrIso[n]["file"] \in Int
  BY DEF IsolatedAccounting, OffLru, TInv, TypeOK
<1>1. ASSUME NEW f \in Folio, Takes(f)
      PROVE  nrIso'[n]["anon"] + nrIso'[n]["file"] = Cardinality(OffLru(n)')
  <2>1. PICK h \in ListHead : Manage(f, h)
    BY <1>1, TakesFacts, MsgFacts
  <2>2. on[f] = LRU /\ Isolated' = Isolated \cup {f} /\ f \notin Isolated
    BY <2>1, MsgFacts DEF Manage, Isolated, TInv, TypeOK
  <2>3. CASE Nid(f) = n
    <3>1. OffLru(n)' = OffLru(n) \cup {f} /\ f \notin OffLru(n)
      BY <2>2, <2>3 DEF OffLru, Nid
    <3>2. Cardinality(OffLru(n)') = Cardinality(OffLru(n)) + 1
      BY <3>1, FS_AddElement, OffLruFinite
    <3>3. nrIso'[n]["anon"] + nrIso'[n]["file"] = nrIso[n]["anon"] + nrIso[n]["file"] + 1
      BY <1>0, <2>1, <2>3 DEF Manage, Kind
    <3> QED
      BY <1>0, <3>2, <3>3
  <2>4. CASE Nid(f) # n
    <3>1. OffLru(n)' = OffLru(n)
      BY <2>2, <2>4 DEF OffLru, Nid
    <3>2. nrIso'[n] = nrIso[n]
      BY <1>0, <2>1, <2>4 DEF Manage
    <3> QED
      BY <1>0, <3>1, <3>2
  <2> QED
    BY <2>3, <2>4
<1>2. ASSUME NEW f \in Folio, PutsBack(f)
      PROVE  nrIso'[n]["anon"] + nrIso'[n]["file"] = Cardinality(OffLru(n)')
  <2>1. on[f] # LRU /\ Unmanage(f)
    BY <1>2, PutsBackFacts
  <2>2. Isolated' = Isolated \ {f} /\ f \in Isolated
    BY <2>1 DEF Unmanage, Isolated, TInv, TypeOK
  <2>3. CASE Nid(f) = n
    <3>1. OffLru(n)' = OffLru(n) \ {f} /\ f \in OffLru(n)
      BY <2>2, <2>3 DEF OffLru, Nid
    <3>2. Cardinality(OffLru(n)') = Cardinality(OffLru(n)) - 1
      BY <3>1, FS_RemoveElement, OffLruFinite
    <3>3. nrIso'[n]["anon"] + nrIso'[n]["file"] = nrIso[n]["anon"] + nrIso[n]["file"] - 1
      BY <1>0, <2>1, <2>3 DEF Unmanage, Kind
    <3> QED
      BY <1>0, <3>2, <3>3
  <2>4. CASE Nid(f) # n
    <3>1. OffLru(n)' = OffLru(n)
      BY <2>2, <2>4 DEF OffLru, Nid
    <3>2. nrIso'[n] = nrIso[n]
      BY <1>0, <2>1, <2>4 DEF Unmanage
    <3> QED
      BY <1>0, <3>1, <3>2
  <2> QED
    BY <2>3, <2>4
<1>3. ASSUME NEW f \in Folio, NEW g \in Folio, Settles(f, g)
      PROVE  nrIso'[n]["anon"] + nrIso'[n]["file"] = Cardinality(OffLru(n)')
  <2>1. Isolated' = Isolated
    BY <1>3, SettlesFacts DEF Isolated, LRU, PromotionDone, DemotionDone
  <2>2. OffLru(n)' = OffLru(n) /\ nrIso' = nrIso
    BY <1>3, <2>1, SettlesFacts DEF OffLru, Nid
  <2> QED
    BY <1>0, <2>2
<1>4. CASE UNCHANGED <<on, nrIso>>
  BY <1>0, <1>4 DEF OffLru, Isolated, Nid
<1> QED
  BY <1>1, <1>2, <1>3, <1>4, FolioFrame DEF Relink


-----------------------------------------------------------------------------
(* Stopping the workers.                                                    *)

(* target_drop() has stopped the workers before wi, and the only worker     *)
(* that can have switched the events on again is the throttle, which will   *)
(* switch them off before it looks at its stop flag.                        *)
Stopping ==
  ctl \in {"stop", "join", "dropped"} =>
    /\ \A i \in 1..4 : i < wi => pc[WorkerAt[i]] \in {"none", "exited"}
    /\ events = "on" => pc["throttle"] = "high"
    /\ ctl = "dropped" => wi = 5

(* A worker that was never started, or has ended, moves only if target_new() *)
(* starts it.                                                               *)
LEMMA WorkersRest ==
  ASSUME TInv, [Next]_vars, ~SpawnWorker,
         NEW w \in Worker, pc[w] \in {"none", "exited"}
  PROVE  pc'[w] = pc[w]
<1> USE DEF TInv, TypeOK, Worker, Goto, Loop
<1>1. CASE Control
  BY <1>1 DEF Control, CreateEvents, DropDisableEvents, DropStopWorker,
              DropJoinWorker, DropFree
<1>2. CASE Drop \/ VictimExit \/ Overflow
  BY <1>2 DEF Drop, VictimExit, Overflow
<1>3. CASE Main
  BY <1>3 DEF Main, MainStart, MainSend
<1>4. CASE Throttle
  <2>1. PICK l \in Label : Goto("throttle", l)
    BY <1>4 DEF Throttle, ThrottleStart, ThrottleIdle, ThrottleRaise, ThrottleLower,
                Label, ThrottlePc
  <2>2. pc["throttle"] \notin {"none", "exited"}
    BY <1>4 DEF Throttle, ThrottleStart, ThrottleIdle, ThrottleRaise, ThrottleLower
  <2> QED
    BY <2>1, <2>2
<1>5. CASE Policy
  BY <1>5 DEF Policy, PolicyStart, PolicySelect, PolicyBackoff,
              PolicyPassEnd, PolicySample, PolicySplit, PolicyAlloc,
              PolicyPromote, PolicyDemote, PolicyUnmanage,
              PolicyPromoteEnd, PolicyDemoteEnd, PolicySend, PolicyRecvRsp,
              PolicyFree
<1>6. CASE Migration
  BY <1>6 DEF Migration, MigrationStart, MigrationWait, MigrationPassEnd,
              MigrationRecv, MigrationSkip, MigrationExchange,
              MigrationExchangeEnd, MigrationUnmanage, MigrationAck
<1>7. CASE Halted \/ UNCHANGED vars
  BY <1>7 DEF Halted, vars
<1> QED
  BY <1>1, <1>2, <1>3, <1>4, <1>5, <1>6, <1>7 DEF Next

(* Outside target_new() and target_drop(), only the throttle switches the   *)
(* events, and only the throttle moves the throttle.                        *)
LEMMA EventsFrame ==
  ASSUME TInv, [Next]_vars, ~Control, ~Throttle
  PROVE  /\ events' = events /\ pc'["throttle"] = pc["throttle"] /\ wi' = wi
         /\ ctl' = ctl \/ Drop
<1> USE DEF TInv, TypeOK, Worker, Goto, Loop, ctlVars
<1>1. CASE Drop \/ VictimExit \/ Overflow
  BY <1>1 DEF Drop, VictimExit, Overflow
<1>2. CASE Main
  BY <1>2 DEF Main, MainStart, MainSend
<1>3. CASE Policy
  BY <1>3 DEF Policy, PolicyStart, PolicySelect, PolicyBackoff,
              PolicyPassEnd, PolicySample, PolicySplit, PolicyAlloc,
              PolicyPromote, PolicyDemote, PolicyUnmanage,
              PolicyPromoteEnd, PolicyDemoteEnd, PolicySend, PolicyRecvRsp,
              PolicyFree
<1>4. CASE Migration
  BY <1>4 DEF Migration, MigrationStart, MigrationWait, MigrationPassEnd,
              MigrationRecv, MigrationSkip, MigrationExchange,
              MigrationExchangeEnd, MigrationUnmanage, MigrationAck
<1>5. CASE Halted \/ UNCHANGED vars
  BY <1>5 DEF Halted, vars
<1> QED
  BY <1>1, <1>2, <1>3, <1>4, <1>5 DEF Next

(* A pulsed throttle leaves the events off whenever it may end.             *)
LEMMA ThrottleQuiet ==
  ASSUME TInv, Throttle, events = "on" => pc["throttle"] = "high"
  PROVE  /\ events' = "on" => pc'["throttle"] = "high"
         /\ UNCHANGED <<ctl, wi>>
<1> USE DEF TInv, TypeOK, Worker, Goto, Loop, ctlVars
<1>1. CASE ThrottleStart
  BY <1>1 DEF ThrottleStart
<1>2. CASE ThrottleIdle
  BY <1>2 DEF ThrottleIdle
<1>3. CASE ThrottleRaise
  BY <1>3 DEF ThrottleRaise, EventsEnable
<1>4. CASE ThrottleLower
  BY <1>4 DEF ThrottleLower, EventsEnable
<1> QED
  BY <1>1, <1>2, <1>3, <1>4 DEF Throttle

(* Every step keeps the stopped workers stopped.                            *)
LEMMA StoppingStep == TInv /\ Stopping /\ [Next]_vars => Stopping'
<1> SUFFICES ASSUME TInv, Stopping, [Next]_vars,
                    ctl' \in {"stop", "join", "dropped"}
             PROVE  /\ \A i \in 1..4 : i < wi' => pc'[WorkerAt[i]] \in {"none", "exited"}
                    /\ events' = "on" => pc'["throttle"] = "high"
                    /\ ctl' = "dropped" => wi' = 5
  BY DEF Stopping
<1>0. wi \in 1..5
  BY DEF TInv, TypeOK
<1>1. CASE Control
  <2>1. CASE SpawnWorker \/ CreateEvents
    BY <2>1 DEF SpawnWorker, CreateEvents
  <2>2. CASE DropDisableEvents
    BY <2>2 DEF DropDisableEvents, EventsEnable
  <2>3. CASE DropStopWorker
    BY <1>0, <2>3, WorkerAtFacts DEF DropStopWorker, Stopping
  <2>4. CASE DropJoinWorker
    BY <1>0, <2>4, WorkerAtFacts DEF DropJoinWorker, Stopping
  <2>5. CASE DropFree
    BY <1>0, <2>5 DEF DropFree, Stopping
  <2> QED
    BY <1>1, <2>1, <2>2, <2>3, <2>4, <2>5 DEF Control
<1>2. CASE ~Control
  <2>1. ctl' = ctl /\ wi' = wi /\ (events' = "on" => pc'["throttle"] = "high")
    <3>1. CASE Throttle
      <4>1. ctl' = ctl
        BY <3>1 DEF Throttle, ThrottleStart, ThrottleIdle, ThrottleRaise,
                    ThrottleLower, ctlVars
      <4> QED
        BY <3>1, <4>1, ThrottleQuiet DEF Stopping
    <3>2. CASE ~Throttle
      BY <1>2, <3>2, EventsFrame DEF Stopping, Drop
    <3> QED
      BY <3>1, <3>2
  <2>2. ASSUME NEW i \in 1..4, i < wi' PROVE pc'[WorkerAt[i]] \in {"none", "exited"}
    <3>1. WorkerAt[i] \in Worker /\ pc[WorkerAt[i]] \in {"none", "exited"}
      BY <2>1, <2>2, WorkerAtFacts DEF Stopping
    <3>2. ~SpawnWorker
      BY <1>2 DEF Control
    <3> QED
      BY <3>1, <3>2, WorkersRest
  <2> QED
    BY <2>1, <2>2 DEF Stopping
<1> QED
  BY <1>1, <1>2

(* When target_drop() has freed the channels, every worker has been stopped. *)
LEMMA QuietAfterStopping == TInv /\ Stopping => QuietAfterDrop
<1> SUFFICES ASSUME TInv, Stopping, ctl = "dropped"
             PROVE  events # "on" /\ \A w \in Worker : pc[w] \in {"none", "exited"}
  BY DEF QuietAfterDrop
<1>1. \A i \in 1..4 : pc[WorkerAt[i]] \in {"none", "exited"}
  BY DEF Stopping
<1>2. \A w \in Worker : pc[w] \in {"none", "exited"}
  BY <1>1, WorkerAtFacts DEF Worker
<1> QED
  BY <1>2 DEF Stopping, Worker

-----------------------------------------------------------------------------
(* What a request asks for.                                                 *)

(* While the policy worker fills a pair of lists, the promotion list is of  *)
(* the slow node, the demotion list of the fast one, and need is what they  *)
(* differ by until the walk over the cold ranges ends.                      *)
Batch ==
  pc["policy"] \in {"promote", "demote", "send"} =>
    /\ List(work.promotion) \subseteq Slow /\ List(work.demotion) \cap Slow = {}
    /\ pc["policy"] = "promote" =>
         need = Cardinality(List(work.promotion)) /\ List(work.demotion) = {}
    /\ pc["policy"] = "demote" =>
         need + Cardinality(List(work.demotion)) = Cardinality(List(work.promotion))
    /\ pc["policy"] = "send" =>
         Cardinality(List(work.demotion)) <= Cardinality(List(work.promotion))

(* A list can be counted.                                                   *)
LEMMA ListFinite == \A h : IsFiniteSet(List(h)) /\ Cardinality(List(h)) \in Nat
<1> SUFFICES ASSUME NEW h PROVE IsFiniteSet(List(h)) /\ Cardinality(List(h)) \in Nat
  OBVIOUS
<1>1. IsFiniteSet(List(h))
  BY FS_Subset, FolioAssumption DEF List
<1> QED
  BY <1>1, FS_CardinalityType

(* manage_folio() puts one folio more on one list.                          *)
LEMMA ManageFacts ==
  ASSUME TInv, NEW f \in Folio, NEW h \in ListHead, Manage(f, h)
  PROVE  /\ List(h)' = List(h) \cup {f} /\ f \notin List(h)
         /\ Cardinality(List(h)') = Cardinality(List(h)) + 1
         /\ \A k \in ListHead \ {h} : List(k)' = List(k)
<1>1. List(h)' = List(h) \cup {f} /\ f \notin List(h)
  BY MsgFacts DEF Manage, List, TInv, TypeOK
<1>2. \A k \in ListHead \ {h} : List(k)' = List(k)
  BY MsgFacts DEF Manage, List, TInv, TypeOK
<1> QED
  BY <1>1, <1>2, ListFinite, FS_AddElement

(* The lists of a pair are disturbed by nobody but its holder: not those in *)
(* a message, nor those that the policy worker has yet to send, except that *)
(* it adds to the latter itself.                                            *)
LEMMA ListsKept ==
  ASSUME TInv, SingleCustody, [Next]_vars, NEW m \in InTransit \cup InHand,
         m # cur,
         m = work => /\ pc["policy"] # "unmanage"
                     /\ \A f \in Folio : ~Takes(f)
  PROVE  \A h \in Heads(m) : List(h)' = List(h)
<1>0. Heads(m) \subseteq ListHead /\ m \in Msg
  BY MsgFacts DEF InTransit, InHand, TInv, TypeOK
<1>1. ASSUME NEW f \in Folio, Takes(f) PROVE \A h \in Heads(m) : List(h)' = List(h)
  <2>1. PICK h \in Heads(work) : Manage(f, h)
    BY <1>1, TakesFacts
  <2>2. work \in Msg /\ work \in InHand /\ m # work
    BY <1>1, TakesFacts, MsgFacts DEF InHand
  <2>3. Heads(m) \cap Heads(work) = {}
    BY <2>2 DEF SingleCustody
  <2> QED
    BY <1>0, <2>1, <2>2, <2>3, ManageFacts, MsgFacts
<1>2. ASSUME NEW f \in Folio, PutsBack(f) PROVE \A h \in Heads(m) : List(h)' = List(h)
  <2>1. on[f] \notin Heads(m) /\ on' = [on EXCEPT ![f] = LRU]
    <3>1. CASE PolicyUnmanage(f)
      <4>1. work \in InHand /\ m # work /\ on[f] \in Heads(work)
        BY <3>1, MsgFacts DEF PolicyUnmanage, InHand, TInv, Holding
      <4> QED
        BY <3>1, <4>1 DEF SingleCustody, PolicyUnmanage, Unmanage
    <3>2. CASE MigrationUnmanage(f)
      BY <1>0, <3>2, MsgFacts DEF MigrationUnmanage, Unmanage
    <3> QED
      BY <1>2, <3>1, <3>2 DEF PutsBack
  <2> QED
    BY <1>0, <2>1, MsgFacts DEF List, TInv, TypeOK
<1>3. ASSUME NEW f \in Folio, NEW g \in Folio, Settles(f, g)
      PROVE  \A h \in Heads(m) : List(h)' = List(h)
  <2>1. on[f] \in Heads(cur) /\ on[g] \in Heads(cur) /\ cur \in InHand
    BY <1>3 DEF Settles, MigrationSkip, MigrationExchange, Heads, InHand, TInv, Holding
  <2>2. Heads(m) \cap Heads(cur) = {}
    BY <2>1 DEF SingleCustody
  <2> QED
    BY <1>0, <1>3, <2>1, <2>2, SettlesFacts, MsgFacts DEF List
<1>4. CASE UNCHANGED <<on, nrIso>>
  BY <1>4 DEF List
<1> QED
  BY <1>1, <1>2, <1>3, <1>4, FolioFrame DEF Relink

(* Only PolicyAlloc starts a batch, and only the policy worker's walks and  *)
(* its send move one on.                                                    *)
LEMMA BatchFrame ==
  ASSUME TInv, [Next]_vars, pc'["policy"] \in {"promote", "demote", "send"},
         ~PolicyAlloc, ~PolicyPromoteEnd, ~PolicyDemoteEnd,
         \A f \in Folio : ~Takes(f)
  PROVE  UNCHANGED <<work, need>> /\ pc'["policy"] = pc["policy"]
<1> USE DEF TInv, TypeOK, Worker, Goto, Loop, polVars, Takes
<1>1. CASE SpawnWorker
  BY <1>1, WorkerAtFacts DEF SpawnWorker
<1>2. CASE Control /\ ~SpawnWorker
  BY <1>2 DEF Control, CreateEvents, DropDisableEvents, DropStopWorker,
              DropJoinWorker, DropFree
<1>3. CASE Drop \/ VictimExit \/ Overflow
  BY <1>3 DEF Drop, VictimExit, Overflow
<1>4. CASE Main
  BY <1>4 DEF Main, MainStart, MainSend
<1>5. CASE Throttle
  <2>1. PICK l \in Label : Goto("throttle", l)
    BY <1>5 DEF Throttle, ThrottleStart, ThrottleIdle, ThrottleRaise, ThrottleLower,
                Label, ThrottlePc
  <2>2. UNCHANGED <<work, need>>
    BY <1>5 DEF Throttle, ThrottleStart, ThrottleIdle, ThrottleRaise, ThrottleLower
  <2> QED
    BY <2>1, <2>2
<1>6. CASE Policy
  BY <1>6 DEF Policy, PolicyStart, PolicySelect, Selected, PolicyBackoff,
              PolicyPassEnd, PolicySample, PolicySplit, PolicyUnmanage,
              PolicySend, PolicyRecvRsp, PolicyFree
<1>7. CASE Migration
  BY <1>7 DEF Migration, MigrationStart, MigrationWait, MigrationPassEnd,
              MigrationRecv, MigrationSkip, MigrationExchange,
              MigrationExchangeEnd, MigrationUnmanage, MigrationAck
<1>8. CASE Halted \/ UNCHANGED vars
  BY <1>8 DEF Halted, vars
<1> QED
  BY <1>1, <1>2, <1>3, <1>4, <1>5, <1>6, <1>7, <1>8 DEF Next

(* The two lists of a pair in the policy worker's hands.                    *)
LEMMA WorkFacts ==
  ASSUME TInv, SingleCustody, work # NoMsg
  PROVE  /\ work \in Msg /\ work \in InHand /\ work # cur
         /\ work.promotion \in ListHead /\ work.demotion \in ListHead
         /\ work.promotion # work.demotion
         /\ Heads(work) = {work.promotion, work.demotion}
BY DEF TInv, TypeOK, SingleCustody, InHand, Msg, Heads

(* Every step keeps the lists matched while they are filled.                *)
LEMMA BatchStep ==
  /\ TInv /\ SingleCustody /\ NoFolioStranded /\ Stopping /\ Batch /\ [Next]_vars
  => Batch'
<1> SUFFICES ASSUME TInv, SingleCustody, NoFolioStranded, Stopping, Batch, [Next]_vars,
                    pc'["policy"] \in {"promote", "demote", "send"}
             PROVE  Batch'
  BY DEF Batch
<1>0. need \in Nat
  BY DEF TInv, TypeOK
<1>1. CASE PolicyAlloc
  <2>1. PICK p \in ListHead \ heads, d \in ListHead \ heads :
          /\ p # d /\ work' = [promotion |-> p, demotion |-> d]
          /\ need' = 0 /\ Goto("policy", "promote") /\ on' = on
    BY <1>1 DEF PolicyAlloc, Goto, TInv, TypeOK, Worker
  <2>2. ctl # "dropped"
    BY <1>1, QuietAfterStopping DEF QuietAfterDrop, PolicyAlloc, Worker
  <2>3. \A f \in Folio : on[f] # p /\ on[f] # d
    BY <2>1, <2>2, MsgFacts DEF NoFolioStranded, SingleCustody, Isolated, TInv, TypeOK
  <2>4. List(p)' = {} /\ List(d)' = {}
    BY <2>1, <2>3 DEF List
  <2>5. pc'["policy"] = "promote"
    BY <2>1 DEF Goto, TInv, TypeOK, Worker
  <2>6. List(work.promotion)' = {} /\ List(work.demotion)' = {}
    BY <2>1, <2>4 DEF List
  <2> QED
    BY <2>1, <2>5, <2>6, FS_EmptySet DEF Batch
<1>2. ASSUME NEW f \in Folio, PolicyPromote(f) PROVE Batch'
  <2>1. /\ pc["policy"] = "promote" /\ pc' = pc /\ work' = work /\ need' = need + 1
        /\ f \in Slow /\ Manage(f, work.promotion) /\ work # NoMsg
    BY <1>2 DEF PolicyPromote, OnNode, Nid, TInv, Holding
  <2>2. /\ List(work.promotion)' = List(work.promotion) \cup {f}
        /\ Cardinality(List(work.promotion)') = Cardinality(List(work.promotion)) + 1
        /\ List(work.demotion)' = List(work.demotion)
    <3>1. PICK p \in ListHead, d \in ListHead :
            p = work.promotion /\ d = work.demotion /\ p # d
      BY <2>1, WorkFacts
    <3>2. /\ List(p)' = List(p) \cup {f} /\ List(d)' = List(d)
          /\ Cardinality(List(p)') = Cardinality(List(p)) + 1
      BY <2>1, <3>1, ManageFacts
    <3>3. List(work.promotion)' = List(p)' /\ List(work.demotion)' = List(d)'
      BY <2>1, <3>1 DEF List
    <3> QED
      BY <3>1, <3>2, <3>3
  <2> QED
    BY <2>1, <2>2 DEF Batch
<1>3. CASE PolicyPromoteEnd
  <2>1. /\ pc["policy"] = "promote" /\ work' = work /\ need' = need /\ on' = on
        /\ pc'["policy"] = IF need > 0 THEN "demote" ELSE "send"
    BY <1>3 DEF PolicyPromoteEnd, Goto, polVars, folioVars, TInv, TypeOK, Worker
  <2>2. List(work.promotion)' = List(work.promotion) /\ List(work.demotion)' = List(work.demotion)
    BY <2>1 DEF List
  <2>3. Cardinality(List(work.demotion)) = 0
    BY <2>1, FS_EmptySet DEF Batch
  <2> QED
    BY <1>0, <2>1, <2>2, <2>3 DEF Batch
<1>4. ASSUME NEW f \in Folio, PolicyDemote(f) PROVE Batch'
  <2>1. /\ pc["policy"] = "demote" /\ work' = work /\ need' = need - 1
        /\ f \notin Slow /\ Manage(f, work.demotion) /\ work # NoMsg
        /\ pc'["policy"] = IF need = 1 THEN "send" ELSE "demote"
    BY <1>4 DEF PolicyDemote, OnNode, Nid, Goto, TInv, TypeOK, Holding, Worker
  <2>2. /\ List(work.demotion)' = List(work.demotion) \cup {f}
        /\ Cardinality(List(work.demotion)') = Cardinality(List(work.demotion)) + 1
        /\ List(work.promotion)' = List(work.promotion)
    <3>1. PICK p \in ListHead, d \in ListHead :
            p = work.promotion /\ d = work.demotion /\ p # d
      BY <2>1, WorkFacts
    <3>2. /\ List(d)' = List(d) \cup {f} /\ List(p)' = List(p)
          /\ Cardinality(List(d)') = Cardinality(List(d)) + 1
      BY <2>1, <3>1, ManageFacts
    <3>3. List(work.promotion)' = List(p)' /\ List(work.demotion)' = List(d)'
      BY <2>1, <3>1 DEF List
    <3> QED
      BY <3>1, <3>2, <3>3
  <2>3. /\ Cardinality(List(work.demotion)) \in Nat
        /\ need + Cardinality(List(work.demotion)) = Cardinality(List(work.promotion))
    BY <2>1, ListFinite DEF Batch
  <2>4. List(work.promotion)' \subseteq Slow /\ List(work.demotion)' \cap Slow = {}
    BY <2>1, <2>2 DEF Batch
  <2> QED
    BY <1>0, <2>1, <2>2, <2>3, <2>4 DEF Batch
<1>5. CASE PolicyDemoteEnd
  <2>1. /\ pc["policy"] = "demote" /\ work' = work /\ need' = need /\ on' = on
        /\ pc'["policy"] = "send"
    BY <1>5 DEF PolicyDemoteEnd, Goto, polVars, folioVars, TInv, TypeOK, Worker
  <2>2. List(work.promotion)' = List(work.promotion) /\ List(work.demotion)' = List(work.demotion)
    BY <2>1 DEF List
  <2>3. Cardinality(List(work.demotion)) \in Nat /\ Cardinality(List(work.promotion)) \in Nat
    BY ListFinite
  <2> QED
    BY <1>0, <2>1, <2>2, <2>3 DEF Batch
<1>6. CASE /\ ~PolicyAlloc /\ ~PolicyPromoteEnd /\ ~PolicyDemoteEnd
           /\ \A f \in Folio : ~Takes(f)
  <2>1. work' = work /\ need' = need /\ pc'["policy"] = pc["policy"]
    BY <1>6, BatchFrame
  <2>2. work # NoMsg /\ pc["policy"] # "unmanage"
    BY <2>1 DEF TInv, Holding
  <2>3. \A h \in Heads(work) : List(h)' = List(h)
    BY <1>6, <2>2, WorkFacts, ListsKept
  <2>4. List(work.promotion)' = List(work.promotion) /\ List(work.demotion)' = List(work.demotion)
    BY <2>1, <2>2, <2>3, WorkFacts DEF List
  <2> QED
    BY <2>1, <2>4 DEF Batch
<1> QED
  BY <1>1, <1>2, <1>3, <1>4, <1>5, <1>6 DEF Takes

(* A request enters its channel matched, and nobody touches its lists there. *)
LEMMA RequestsMatchedStep ==
  /\ TInv /\ SingleCustody /\ Batch /\ RequestsMatched /\ [Next]_vars
  => RequestsMatched'
<1> SUFFICES ASSUME TInv, SingleCustody, Batch, RequestsMatched, [Next]_vars,
                    NEW m \in reqs'
             PROVE  /\ Cardinality(List(m.demotion)') <= Cardinality(List(m.promotion)')
                    /\ List(m.promotion)' \subseteq Slow /\ List(m.demotion)' \cap Slow = {}
  BY DEF RequestsMatched, List
<1>1. CASE m \in reqs
  <2>1. m \in InTransit \cup InHand /\ m # cur /\ m # work
    BY <1>1, MsgFacts DEF InTransit, InHand, SingleCustody, TInv, TypeOK
  <2>2. \A h \in Heads(m) : List(h)' = List(h)
    BY <2>1, ListsKept
  <2> QED
    BY <1>1, <2>2 DEF RequestsMatched, Heads
<1>2. CASE m \notin reqs
  <2>1. PolicySend /\ m = work
    <3>1. HandOver
      BY <1>2, CustodyFrame DEF custodyVars
    <3>2. CASE PolicySend
      BY <1>2, <3>2, SendFacts DEF PolicySend
    <3> QED
      BY <1>2, <3>1, <3>2 DEF HandOver, DropFree, PolicyAlloc, PolicyRecvRsp, PolicyFree,
           MigrationRecv, MigrationAck, Take, chanVars
  <2>2. pc["policy"] = "send" /\ on' = on
    BY <2>1 DEF PolicySend, folioVars
  <2> QED
    BY <2>1, <2>2 DEF Batch, List
<1> QED
  BY <1>1, <1>2

-----------------------------------------------------------------------------
(* The inductive invariant: TypeOK and Holding tell what each worker holds, *)
(* Budget that no channel overflows, Stopping which workers are gone, Batch *)
(* what the policy worker has gathered; the others are the properties.      *)
IInv ==
  /\ TInv /\ Budget /\ SingleCustody /\ NoFolioStranded /\ IsolatedAccounting
  /\ Stopping /\ Batch /\ RequestsMatched

(* The inductive invariant holds of a new target.                           *)
LEMMA IInvInit == Init => IInv
<1> SUFFICES ASSUME Init PROVE IInv
  OBVIOUS
<1>1. TInv
  BY TInvInit
<1>2. Budget
  BY FS_EmptySet, BoundAssumption DEF Init, Budget, Planned, Serving, Worker
<1>3. SingleCustody
  BY DEF Init, SingleCustody, InTransit, InHand
<1>4. Isolated = {}
  BY DEF Init, Isolated
<1>5. NoFolioStranded
  BY <1>4 DEF NoFolioStranded
<1>6. IsolatedAccounting
  BY <1>4, FS_EmptySet DEF Init, IsolatedAccounting
<1>7. Stopping /\ Batch /\ RequestsMatched
  BY DEF Init, Stopping, Batch, RequestsMatched, Worker
<1> QED
  BY <1>1, <1>2, <1>3, <1>5, <1>6, <1>7 DEF IInv

(* Every step keeps the inductive invariant.                                *)
LEMMA IInvStep == IInv /\ [Next]_vars => IInv'
BY TInvStep, BudgetStep, SingleCustodyStep, NoFolioStrandedStep,
   IsolatedAccountingStep, StoppingStep, BatchStep, RequestsMatchedStep DEF IInv

(* The inductive invariant holds throughout.                                *)
LEMMA IInvHolds == Spec => []IInv
BY IInvInit, IInvStep, PTL DEF Spec

(* However the four workers, target_drop() and the victim interleave, a     *)
(* pair of list heads has one holder: no list is walked by two workers, no  *)
(* head is freed twice or freed while a message points at it.               *)
THEOREM CustodySafe == Spec => []SingleCustody
BY IInvHolds, PTL DEF IInv

(* Until the target is dropped every folio off the LRU is on a list that a  *)
(* worker or a message holds, for every capacity of the ring buffers that   *)
(* exceeds the number of splits: the buffers overwrite no exchange message. *)
THEOREM FoliosSafe == Spec => []NoFolioStranded
BY IInvHolds, PTL DEF IInv

(* NR_ISOLATED_ANON + NR_ISOLATED_FILE of a node is the number of its       *)
(* folios that are off the LRU, across exchanges, refusals and putbacks.    *)
THEOREM CountersExact == Spec => []IsolatedAccounting
BY IInvHolds, PTL DEF IInv

(* Every request in its channel pairs slow folios with no more fast ones,   *)
(* and stays so until the migration worker receives it: whatever the other  *)
(* workers, target_drop() and earlier exchanges do meanwhile.               *)
THEOREM RequestsSound == Spec => []RequestsMatched
BY IInvHolds, PTL DEF IInv

(* target_drop() frees the channels only when no worker is left to use them *)
(* and the events are off, although it disables them before it has stopped  *)
(* the throttle, which may have enabled them again in between.              *)
THEOREM DropQuiet == Spec => []QuietAfterDrop
BY IInvHolds, QuietAfterStopping, PTL DEF IInv

=============================================================================
