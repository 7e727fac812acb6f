------------------------- MODULE FolioExchangeProofs -------------------------
(***************************************************************************)
(* Theorems about FolioExchange and FileExchange, for any pages, folios,   *)
(* callers and holders of references.  A step of FolioExchange is also one *)
(* of FileExchange, so the invariants are proved for FileNext.             *)
(***************************************************************************)
EXTENDS FileExchange, FiniteSetTheorems, TLAPS

(* The steps at which a caller holds the second lock, and the first.       *)
LockedBoth == {"check_old", "check_new", "unmap_old", "unmap_new", "mapping",
               "data", "remap_new", "remap_old", "unlock"}
LockedOld == {"lock_new"} \cup LockedBoth

(* TypeOK, for reference counts that may fall below zero.                  *)
Types ==
  /\ pte \in [Pages -> Entries] /\ owner \in [Folios -> Pages]
  /\ data \in [Folios -> Values] /\ count \in [Folios -> Int]
  /\ held \in [Holders -> Folios \cup {None}]
  /\ lock \in [Folios -> Callers \cup {None}]
  /\ pc \in [Callers -> Steps]
  /\ old \in [Callers -> Folios \cup {None}]
  /\ new \in [Callers -> Folios \cup {None}]
  /\ iso \in [Callers -> SUBSET Folios] /\ unm \in [Callers -> SUBSET Folios]
  /\ err \in [Callers -> Results]
  /\ trial \in [Callers -> 0 .. MaxTrials]
  /\ last \in Accessed \X Values

(* A caller has its two folios from the step that finds them until it      *)
(* returns.                                                                *)
Args ==
  \A c \in Callers :
    /\ old[c] = None <=> pc[c] = "idle"
    /\ new[c] = None <=> pc[c] \in {"idle", "resolve"}

(* A caller past its lock steps holds the locks, of two different folios,  *)
(* but for the one that writeout() has unlocked.                           *)
Locks ==
  \A c \in Callers :
    /\ pc[c] \in LockedOld => lock[old[c]] = c
    /\ pc[c] \in LockedBoth => lock[new[c]] = c /\ old[c] # new[c]
    /\ pc[c] = "relock_old" => lock[new[c]] = c /\ old[c] # new[c]
    /\ pc[c] = "relock_new" => lock[old[c]] = c /\ old[c] # new[c]

(* Every page has one folio that belongs to it.                            *)
Owners ==
  /\ \A f, g \in Folios : owner[f] = owner[g] => f = g
  /\ \A p \in Pages : \E f \in Folios : owner[f] = p

(* A present PTE leads to the folio that belongs to its page.              *)
Mapped == \A p \in Pages, f \in Folios : pte[p] = Present(f) => owner[f] = p

(* No PTE leads to a folio while its mapping and data are exchanged.       *)
Unmapped ==
  \A c \in Callers, p \in Pages :
    /\ pc[c] \in {"unmap_new", "mapping", "data"} => pte[p] # Present(old[c])
    /\ pc[c] \in {"mapping", "data"} => pte[p] # Present(new[c])

IInv == Types /\ Args /\ Locks /\ Owners /\ Mapped /\ Unmapped

(* What the steps below need to know of the constants.                     *)
LEMMA Constants ==
  /\ None \notin Folios /\ None \notin Callers
  /\ Accessed \subseteq Pages /\ MaxTrials \in Nat \ {0}
BY ExchangeAssumption DEF Callers

USE Constants DEF callVars, Goto, Fail, AddRefs, Present, Migration, LockedBoth, LockedOld, Results

-----------------------------------------------------------------------------
(* No operation leaves the inductive invariant.                            *)

(* A folio that a PTE leads to is mapped, and only then.                   *)
LEMMA MapCountPositive ==
  ASSUME NEW f \in Folios
  PROVE  /\ MapCount(f) \in Nat
         /\ MapCount(f) > 0 <=> \E p \in Pages : pte[p] = Present(f)
<1> DEFINE M == {p \in Pages : pte[p] = Present(f)}
<1>1. IsFiniteSet(M)
  BY ExchangeAssumption, FS_Subset
<1>2. Cardinality(M) \in Nat /\ (Cardinality(M) = 0 <=> M = {})
  BY <1>1, FS_EmptySet, FS_CardinalityType
<1>3. M # {} <=> \E p \in Pages : pte[p] = Present(f)
  OBVIOUS
<1>4. MapCount(f) = Cardinality(M)
  BY DEF MapCount
<1> HIDE DEF M
<1> QED  BY <1>2, <1>3, <1>4

(* A caller that maps a folio it has locked disturbs no other exchange.    *)
LEMMA MapsLocked ==
  ASSUME IInv, NEW c \in Callers, NEW f \in Folios, NEW p \in Pages, lock[f] = c,
         UNCHANGED <<old, new>>,
         \A d \in Callers \ {c} : pc'[d] = pc[d],
         pc'[c] \notin {"unmap_new", "mapping", "data"},
         pte' = pte \/ pte' = [pte EXCEPT ![p] = Present(f)]
  PROVE  Unmapped'
<1> SUFFICES ASSUME NEW d \in Callers, NEW q \in Pages
             PROVE  /\ pc'[d] \in {"unmap_new", "mapping", "data"} => pte'[q] # Present(old[d])
                    /\ pc'[d] \in {"mapping", "data"} => pte'[q] # Present(new[d])
  BY DEF Unmapped
<1>1. CASE d = c
  BY <1>1
<1>2. CASE d # c
  <2>1. pc'[d] = pc[d]
    BY <1>2
  <2>2. /\ pc[d] \in {"unmap_new", "mapping", "data"} =>
             old[d] # f /\ pte[q] # Present(old[d])
        /\ pc[d] \in {"mapping", "data"} => new[d] # f /\ pte[q] # Present(new[d])
    BY <1>2 DEF IInv, Locks, Unmapped
  <2>3. pte'[q] = pte[q] \/ pte'[q] = Present(f)
    BY DEF IInv, Types
  <2>4. \A g : Present(g) = Present(f) => g = f
    OBVIOUS
  <2> HIDE DEF Present
  <2> QED  BY <2>1, <2>2, <2>3, <2>4
<1> QED  BY <1>1, <1>2

(* AppRead keeps the invariant.                                            *)
LEMMA AppReadKeeps ==
  ASSUME IInv, NEW p \in Accessed, AppRead(p)
  PROVE  IInv'
<1>1. Types'
  BY DEF IInv, Types, Args, Entries, Steps, AppRead
<1>2. Args'
  BY DEF IInv, Types, Args, Entries, Steps, AppRead
<1>3. Locks'
  BY DEF IInv, Types, Args, Locks, AppRead
<1>4. Owners'
  BY DEF IInv, Types, Args, Owners, AppRead
<1>5. Mapped'
  BY DEF IInv, Types, Args, Locks, Mapped, Unmapped, Owners, AppRead
<1>6. Unmapped'
  BY DEF IInv, Types, Args, Locks, Owners, Mapped, Unmapped, AppRead
<1> QED  BY <1>1, <1>2, <1>3, <1>4, <1>5, <1>6 DEF IInv

(* AppWrite keeps the invariant.                                           *)
LEMMA AppWriteKeeps ==
  ASSUME IInv, NEW p \in Accessed, NEW v \in Values, AppWrite(p, v)
  PROVE  IInv'
<1>1. Types'
  BY DEF IInv, Types, Args, Entries, Steps, AppWrite
<1>2. Args'
  BY DEF IInv, Types, Args, Entries, Steps, AppWrite
<1>3. Locks'
  BY DEF IInv, Types, Args, Locks, AppWrite
<1>4. Owners'
  BY DEF IInv, Types, Args, Owners, AppWrite
<1>5. Mapped'
  BY DEF IInv, Types, Args, Locks, Mapped, Unmapped, Owners, AppWrite
<1>6. Unmapped'
  BY DEF IInv, Types, Args, Locks, Owners, Mapped, Unmapped, AppWrite
<1> QED  BY <1>1, <1>2, <1>3, <1>4, <1>5, <1>6 DEF IInv

(* TakeReference keeps the invariant.                                      *)
LEMMA TakeReferenceKeeps ==
  ASSUME IInv, NEW h \in Holders, NEW f \in Folios, TakeReference(h, f)
  PROVE  IInv'
<1>1. Types'
  BY DEF IInv, Types, Args, Entries, Steps, TakeReference
<1>2. Args'
  BY DEF IInv, Types, Args, Entries, Steps, TakeReference
<1>3. Locks'
  BY DEF IInv, Types, Args, Locks, TakeReference
<1>4. Owners'
  BY DEF IInv, Types, Args, Owners, TakeReference
<1>5. Mapped'
  BY DEF IInv, Types, Args, Locks, Mapped, Unmapped, Owners, TakeReference
<1>6. Unmapped'
  BY DEF IInv, Types, Args, Locks, Owners, Mapped, Unmapped, TakeReference
<1> QED  BY <1>1, <1>2, <1>3, <1>4, <1>5, <1>6 DEF IInv

(* LookupReference keeps the invariant.                                    *)
LEMMA LookupReferenceKeeps ==
  ASSUME IInv, NEW h \in Holders, NEW f \in Folios, LookupReference(h, f)
  PROVE  IInv'
<1>1. Types'
  BY DEF IInv, Types, Args, Entries, Steps, LookupReference
<1>2. Args'
  BY DEF IInv, Types, Args, Entries, Steps, LookupReference
<1>3. Locks'
  BY DEF IInv, Types, Args, Locks, LookupReference
<1>4. Owners'
  BY DEF IInv, Types, Args, Owners, LookupReference
<1>5. Mapped'
  BY DEF IInv, Types, Args, Locks, Mapped, Unmapped, Owners, LookupReference
<1>6. Unmapped'
  BY DEF IInv, Types, Args, Locks, Owners, Mapped, Unmapped, LookupReference
<1> QED  BY <1>1, <1>2, <1>3, <1>4, <1>5, <1>6 DEF IInv

(* DropReference keeps the invariant.                                      *)
LEMMA DropReferenceKeeps ==
  ASSUME IInv, NEW h \in Holders, DropReference(h)
  PROVE  IInv'
<1>1. Types'
  BY DEF IInv, Types, Args, Entries, Steps, DropReference
<1>2. Args'
  BY DEF IInv, Types, Args, Entries, Steps, DropReference
<1>3. Locks'
  BY DEF IInv, Types, Args, Locks, DropReference
<1>4. Owners'
  BY DEF IInv, Types, Args, Owners, DropReference
<1>5. Mapped'
  BY DEF IInv, Types, Args, Locks, Mapped, Unmapped, Owners, DropReference
<1>6. Unmapped'
  BY DEF IInv, Types, Args, Locks, Owners, Mapped, Unmapped, DropReference
<1> QED  BY <1>1, <1>2, <1>3, <1>4, <1>5, <1>6 DEF IInv

(* Manage keeps the invariant.                                             *)
LEMMA ManageKeeps ==
  ASSUME IInv, NEW c \in Callers, NEW f \in Folios, NEW g \in Folios, Manage(c, f, g)
  PROVE  IInv'
<1>1. Types'
  BY DEF IInv, Types, Args, Entries, Steps, Manage
<1>2. Args'
  BY DEF IInv, Types, Args, Entries, Steps, Manage
<1>3. Locks'
  BY DEF IInv, Types, Args, Locks, Manage
<1>4. Owners'
  BY DEF IInv, Types, Args, Owners, Manage
<1>5. Mapped'
  BY DEF IInv, Types, Args, Locks, Mapped, Unmapped, Owners, Manage
<1>6. Unmapped'
  BY DEF IInv, Types, Args, Locks, Owners, Mapped, Unmapped, Manage
<1> QED  BY <1>1, <1>2, <1>3, <1>4, <1>5, <1>6 DEF IInv

(* ResolveSrc keeps the invariant.                                         *)
LEMMA ResolveSrcKeeps ==
  ASSUME IInv, NEW c \in Callers, NEW p \in Pages, ResolveSrc(c, p)
  PROVE  IInv'
<1>1. Types'
  BY DEF IInv, Types, Args, Entries, Steps, ResolveSrc
<1>2. Args'
  BY DEF IInv, Types, Args, Entries, Steps, ResolveSrc
<1>3. Locks'
  BY DEF IInv, Types, Args, Locks, ResolveSrc
<1>4. Owners'
  BY DEF IInv, Types, Args, Owners, ResolveSrc
<1>5. Mapped'
  BY DEF IInv, Types, Args, Locks, Mapped, Unmapped, Owners, ResolveSrc
<1>6. Unmapped'
  BY DEF IInv, Types, Args, Locks, Owners, Mapped, Unmapped, ResolveSrc
<1> QED  BY <1>1, <1>2, <1>3, <1>4, <1>5, <1>6 DEF IInv

(* ResolveDst keeps the invariant.                                         *)
LEMMA ResolveDstKeeps ==
  ASSUME IInv, NEW c \in Callers, NEW p \in Pages, ResolveDst(c, p)
  PROVE  IInv'
<1>1. Types'
  <2>1. pc' \in [Callers -> Steps]
    BY DEF IInv, Types, Steps, ResolveDst
  <2>2. /\ old' \in [Callers -> Folios \cup {None}] /\ new' \in [Callers -> Folios \cup {None}]
        /\ iso' \in [Callers -> SUBSET Folios] /\ unm' \in [Callers -> SUBSET Folios]
    <3>1. pte[p].folio \in Folios
      BY DEF IInv, Types, Entries
    <3> QED  BY <3>1 DEF IInv, Types, ResolveDst
  <2>3. /\ err' \in [Callers -> Results]
        /\ trial' \in [Callers -> 0 .. MaxTrials]
    BY DEF IInv, Types, ResolveDst
  <2>4. pte' \in [Pages -> Entries] /\ count' \in [Folios -> Int]
    BY DEF IInv, Types, Args, Entries, ResolveDst
  <2>5. owner' \in [Folios -> Pages] /\ data' \in [Folios -> Values]
    BY DEF IInv, Types, Args, ResolveDst
  <2> QED  BY <2>1, <2>2, <2>3, <2>4, <2>5 DEF IInv, Types, ResolveDst
<1>2. Args'
  BY DEF IInv, Types, Args, Entries, Steps, ResolveDst
<1>3. Locks'
  BY DEF IInv, Types, Args, Locks, ResolveDst
<1>4. Owners'
  BY DEF IInv, Types, Args, Owners, ResolveDst
<1>5. Mapped'
  BY DEF IInv, Types, Args, Locks, Mapped, Unmapped, Owners, ResolveDst
<1>6. Unmapped'
  <2>1. pte' = pte /\ pc'[c] \in {"isolate_old", "idle"}
    BY DEF IInv, Types, ResolveDst
  <2>2. \A d \in Callers \ {c} : pc'[d] = pc[d] /\ old'[d] = old[d] /\ new'[d] = new[d]
    BY DEF IInv, Types, ResolveDst
  <2> QED  BY <2>1, <2>2 DEF IInv, Unmapped
<1> QED  BY <1>1, <1>2, <1>3, <1>4, <1>5, <1>6 DEF IInv

(* IsolateOld keeps the invariant.                                         *)
LEMMA IsolateOldKeeps ==
  ASSUME IInv, NEW c \in Callers, IsolateOld(c)
  PROVE  IInv'
<1>1. Types'
  <2>1. pc' \in [Callers -> Steps]
    <3>1. PICK s \in {"isolate_new", "return"} : Goto(c, s)
      BY DEF IsolateOld
    <3> QED  BY <3>1 DEF IInv, Types, Steps
  <2>2. /\ old' = old /\ new' = new /\ unm' = unm
        /\ iso' \in [Callers -> SUBSET Folios]
    <3>1. old[c] \in Folios
      BY DEF IInv, Types, Args, IsolateOld
    <3> QED  BY <3>1 DEF IInv, Types, IsolateOld
  <2>3. /\ err' \in [Callers -> Results]
        /\ trial' \in [Callers -> 0 .. MaxTrials]
    BY DEF IInv, Types, IsolateOld
  <2>4. pte' \in [Pages -> Entries] /\ count' \in [Folios -> Int]
    BY DEF IInv, Types, Args, Entries, IsolateOld
  <2>5. owner' \in [Folios -> Pages] /\ data' \in [Folios -> Values]
    BY DEF IInv, Types, Args, IsolateOld
  <2> QED  BY <2>1, <2>2, <2>3, <2>4, <2>5 DEF IInv, Types, IsolateOld
<1>2. Args'
  BY DEF IInv, Types, Args, Entries, Steps, IsolateOld
<1>3. Locks'
  BY DEF IInv, Types, Args, Locks, IsolateOld
<1>4. Owners'
  BY DEF IInv, Types, Args, Owners, IsolateOld
<1>5. Mapped'
  BY DEF IInv, Types, Args, Locks, Mapped, Unmapped, Owners, IsolateOld
<1>6. Unmapped'
  BY DEF IInv, Types, Args, Locks, Owners, Mapped, Unmapped, IsolateOld
<1> QED  BY <1>1, <1>2, <1>3, <1>4, <1>5, <1>6 DEF IInv

(* IsolateNew keeps the invariant.                                         *)
LEMMA IsolateNewKeeps ==
  ASSUME IInv, NEW c \in Callers, IsolateNew(c)
  PROVE  IInv'
<1>1. Types'
  <2>1. pc' \in [Callers -> Steps]
    BY DEF IInv, Types, Steps, IsolateNew
  <2>2. /\ old' = old /\ new' = new /\ unm' = unm
        /\ iso' \in [Callers -> SUBSET Folios]
    <3>1. new[c] \in Folios
      BY DEF IInv, Types, Args, IsolateNew
    <3> QED  BY <3>1 DEF IInv, Types, IsolateNew
  <2>3. /\ err' \in [Callers -> Results]
        /\ trial' \in [Callers -> 0 .. MaxTrials]
    BY DEF IInv, Types, IsolateNew
  <2>4. pte' \in [Pages -> Entries] /\ count' \in [Folios -> Int]
    BY DEF IInv, Types, Args, Entries, IsolateNew
  <2>5. owner' \in [Folios -> Pages] /\ data' \in [Folios -> Values]
    BY DEF IInv, Types, Args, IsolateNew
  <2> QED  BY <2>1, <2>2, <2>3, <2>4, <2>5 DEF IInv, Types, IsolateNew
<1>2. Args'
  BY DEF IInv, Types, Args, Entries, Steps, IsolateNew
<1>3. Locks'
  BY DEF IInv, Types, Args, Locks, IsolateNew
<1>4. Owners'
  BY DEF IInv, Types, Args, Owners, IsolateNew
<1>5. Mapped'
  BY DEF IInv, Types, Args, Locks, Mapped, Unmapped, Owners, IsolateNew
<1>6. Unmapped'
  BY DEF IInv, Types, Args, Locks, Owners, Mapped, Unmapped, IsolateNew
<1> QED  BY <1>1, <1>2, <1>3, <1>4, <1>5, <1>6 DEF IInv

(* LockOld keeps the invariant.                                            *)
LEMMA LockOldKeeps ==
  ASSUME IInv, NEW c \in Callers, LockOld(c)
  PROVE  IInv'
<1>1. Types'
  BY DEF IInv, Types, Args, Entries, Steps, LockOld, LockFolio
<1>2. Args'
  BY DEF IInv, Types, Args, Entries, Steps, LockOld, LockFolio
<1>3. Locks'
  BY DEF IInv, Types, Args, Locks, LockOld, LockFolio
<1>4. Owners'
  BY DEF IInv, Types, Args, Owners, LockOld, LockFolio
<1>5. Mapped'
  BY DEF IInv, Types, Args, Locks, Mapped, Unmapped, Owners, LockOld, LockFolio
<1>6. Unmapped'
  BY DEF IInv, Types, Args, Locks, Owners, Mapped, Unmapped, LockOld, LockFolio
<1> QED  BY <1>1, <1>2, <1>3, <1>4, <1>5, <1>6 DEF IInv

(* LockNew keeps the invariant.                                            *)
LEMMA LockNewKeeps ==
  ASSUME IInv, NEW c \in Callers, LockNew(c)
  PROVE  IInv'
<1>1. Types'
  BY DEF IInv, Types, Args, Entries, Steps, LockNew, LockFolio
<1>2. Args'
  BY DEF IInv, Types, Args, Entries, Steps, LockNew, LockFolio
<1>3. Locks'
  BY DEF IInv, Types, Args, Locks, LockNew, LockFolio
<1>4. Owners'
  BY DEF IInv, Types, Args, Owners, LockNew, LockFolio
<1>5. Mapped'
  BY DEF IInv, Types, Args, Locks, Mapped, Unmapped, Owners, LockNew, LockFolio
<1>6. Unmapped'
  BY DEF IInv, Types, Args, Locks, Owners, Mapped, Unmapped, LockNew, LockFolio
<1> QED  BY <1>1, <1>2, <1>3, <1>4, <1>5, <1>6 DEF IInv

(* CheckOld keeps the invariant.                                           *)
LEMMA CheckOldKeeps ==
  ASSUME IInv, NEW c \in Callers, CheckOld(c)
  PROVE  IInv'
<1>1. Types'
  <2>1. pc' \in [Callers -> Steps]
    BY DEF IInv, Types, Steps, CheckOld, CheckFolio
  <2>2. /\ old' \in [Callers -> Folios \cup {None}] /\ new' \in [Callers -> Folios \cup {None}]
        /\ iso' \in [Callers -> SUBSET Folios] /\ unm' \in [Callers -> SUBSET Folios]
    BY DEF IInv, Types, Args, Entries, CheckOld, CheckFolio
  <2>3. /\ err' \in [Callers -> Results]
        /\ trial' \in [Callers -> 0 .. MaxTrials]
    BY DEF IInv, Types, CheckOld, CheckFolio
  <2>4. pte' \in [Pages -> Entries] /\ count' \in [Folios -> Int]
    BY DEF IInv, Types, Args, Entries, CheckOld, CheckFolio
  <2>5. owner' \in [Folios -> Pages] /\ data' \in [Folios -> Values]
    BY DEF IInv, Types, Args, CheckOld, CheckFolio
  <2> QED  BY <2>1, <2>2, <2>3, <2>4, <2>5 DEF IInv, Types, CheckOld, CheckFolio
<1>2. Args'
  BY DEF IInv, Types, Args, Entries, Steps, CheckOld, CheckFolio
<1>3. Locks'
  BY DEF IInv, Types, Args, Locks, CheckOld, CheckFolio
<1>4. Owners'
  BY DEF IInv, Types, Args, Owners, CheckOld, CheckFolio
<1>5. Mapped'
  BY DEF IInv, Types, Args, Locks, Mapped, Unmapped, Owners, CheckOld, CheckFolio
<1>6. Unmapped'
  BY DEF IInv, Types, Args, Locks, Owners, Mapped, Unmapped, CheckOld, CheckFolio
<1> QED  BY <1>1, <1>2, <1>3, <1>4, <1>5, <1>6 DEF IInv

(* CheckNew keeps the invariant.                                           *)
LEMMA CheckNewKeeps ==
  ASSUME IInv, NEW c \in Callers, CheckNew(c)
  PROVE  IInv'
<1>1. Types'
  <2>1. pc' \in [Callers -> Steps]
    BY DEF IInv, Types, Steps, CheckNew, CheckFolio
  <2>2. /\ old' \in [Callers -> Folios \cup {None}] /\ new' \in [Callers -> Folios \cup {None}]
        /\ iso' \in [Callers -> SUBSET Folios] /\ unm' \in [Callers -> SUBSET Folios]
    BY DEF IInv, Types, Args, Entries, CheckNew, CheckFolio
  <2>3. /\ err' \in [Callers -> Results]
        /\ trial' \in [Callers -> 0 .. MaxTrials]
    BY DEF IInv, Types, CheckNew, CheckFolio
  <2>4. pte' \in [Pages -> Entries] /\ count' \in [Folios -> Int]
    BY DEF IInv, Types, Args, Entries, CheckNew, CheckFolio
  <2>5. owner' \in [Folios -> Pages] /\ data' \in [Folios -> Values]
    BY DEF IInv, Types, Args, CheckNew, CheckFolio
  <2> QED  BY <2>1, <2>2, <2>3, <2>4, <2>5 DEF IInv, Types, CheckNew, CheckFolio
<1>2. Args'
  BY DEF IInv, Types, Args, Entries, Steps, CheckNew, CheckFolio
<1>3. Locks'
  BY DEF IInv, Types, Args, Locks, CheckNew, CheckFolio
<1>4. Owners'
  BY DEF IInv, Types, Args, Owners, CheckNew, CheckFolio
<1>5. Mapped'
  BY DEF IInv, Types, Args, Locks, Mapped, Unmapped, Owners, CheckNew, CheckFolio
<1>6. Unmapped'
  BY DEF IInv, Types, Args, Locks, Owners, Mapped, Unmapped, CheckNew, CheckFolio
<1> QED  BY <1>1, <1>2, <1>3, <1>4, <1>5, <1>6 DEF IInv

(* UnmapOld keeps the invariant.                                           *)
LEMMA UnmapOldKeeps ==
  ASSUME IInv, NEW c \in Callers, UnmapOld(c)
  PROVE  IInv'
<1>1. Types'
  <2>1. pc' \in [Callers -> Steps]
    BY DEF IInv, Types, Steps, UnmapOld, UnmapFolio
  <2>2. /\ old' = old /\ new' = new /\ iso' = iso
        /\ unm' \in [Callers -> SUBSET Folios]
    <3>1. old[c] \in Folios
      BY DEF IInv, Types, Args, UnmapOld
    <3>2. \/ unm' = unm
          \/ unm' = [unm EXCEPT ![c] = @ \cup {old[c]}]
      BY DEF UnmapOld, UnmapFolio
    <3> QED  BY <3>1, <3>2, SMTT(30) DEF IInv, Types, UnmapOld, UnmapFolio
  <2>3. /\ err' \in [Callers -> Results]
        /\ trial' \in [Callers -> 0 .. MaxTrials]
    BY DEF IInv, Types, UnmapOld, UnmapFolio
  <2>4. pte' \in [Pages -> Entries] /\ count' \in [Folios -> Int]
    <3>1. old[c] \in Folios
      BY DEF IInv, Types, Args, UnmapOld
    <3>2. \/ pte' = pte /\ count' = count
          \/ /\ pte' = [pte EXCEPT ![owner[old[c]]] = Migration(old[c])]
             /\ count' = [g \in Folios |-> IF g \in {old[c]} THEN count[g] + -1 ELSE count[g]]
      BY DEF UnmapOld, UnmapFolio
    <3> QED  BY <3>1, <3>2 DEF IInv, Types, Entries
  <2>5. owner' \in [Folios -> Pages] /\ data' \in [Folios -> Values]
    BY DEF IInv, Types, Args, UnmapOld, UnmapFolio
  <2> QED  BY <2>1, <2>2, <2>3, <2>4, <2>5 DEF IInv, Types, UnmapOld, UnmapFolio
<1>2. Args'
  BY DEF IInv, Types, Args, Entries, Steps, UnmapOld, UnmapFolio
<1>3. Locks'
  BY DEF IInv, Types, Args, Locks, UnmapOld, UnmapFolio
<1>4. Owners'
  BY DEF IInv, Types, Args, Owners, UnmapOld, UnmapFolio
<1>5. Mapped'
  BY DEF IInv, Types, Args, Locks, Mapped, Unmapped, Owners, UnmapOld, UnmapFolio
<1>6. Unmapped'
  <2>1. old[c] \in Folios
    BY DEF IInv, Types, Args, UnmapOld
  <2>2. CASE MapCount(old[c]) > 0
    BY <2>1, <2>2, SMTT(60) DEF IInv, Types, Args, Locks, Mapped, Unmapped, UnmapOld, UnmapFolio
  <2>3. CASE ~(MapCount(old[c]) > 0)
    <3>1. \A p \in Pages : pte[p] # Present(old[c])
      <4>1. SUFFICES ASSUME NEW p \in Pages, pte[p] = Present(old[c])
                     PROVE  MapCount(old[c]) > 0
        BY <2>3
      <4> QED  BY <2>1, <4>1, MapCountPositive
    <3> QED  BY <2>3, <3>1 DEF IInv, Types, Args, Locks, Unmapped, UnmapOld, UnmapFolio
  <2> QED  BY <2>2, <2>3
<1> QED  BY <1>1, <1>2, <1>3, <1>4, <1>5, <1>6 DEF IInv

(* UnmapNew keeps the invariant.                                           *)
LEMMA UnmapNewKeeps ==
  ASSUME IInv, NEW c \in Callers, UnmapNew(c)
  PROVE  IInv'
<1>1. Types'
  <2>1. pc' \in [Callers -> Steps]
    BY DEF IInv, Types, Steps, UnmapNew, UnmapFolio
  <2>2. /\ old' = old /\ new' = new /\ iso' = iso
        /\ unm' \in [Callers -> SUBSET Folios]
    <3>1. new[c] \in Folios
      BY DEF IInv, Types, Args, UnmapNew
    <3>2. \/ unm' = unm
          \/ unm' = [unm EXCEPT ![c] = @ \cup {new[c]}]
      BY DEF UnmapNew, UnmapFolio
    <3> QED  BY <3>1, <3>2, SMTT(30) DEF IInv, Types, UnmapNew, UnmapFolio
  <2>3. /\ err' \in [Callers -> Results]
        /\ trial' \in [Callers -> 0 .. MaxTrials]
    BY DEF IInv, Types, UnmapNew, UnmapFolio
  <2>4. pte' \in [Pages -> Entries] /\ count' \in [Folios -> Int]
    <3>1. new[c] \in Folios
      BY DEF IInv, Types, Args, UnmapNew
    <3>2. \/ pte' = pte /\ count' = count
          \/ /\ pte' = [pte EXCEPT ![owner[new[c]]] = Migration(new[c])]
             /\ AddRefs({new[c]}, -1)
      BY DEF UnmapNew, UnmapFolio
    <3> QED  BY <3>1, <3>2 DEF IInv, Types, Entries
  <2>5. owner' \in [Folios -> Pages] /\ data' \in [Folios -> Values]
    BY DEF IInv, Types, Args, UnmapNew, UnmapFolio
  <2> QED  BY <2>1, <2>2, <2>3, <2>4, <2>5 DEF IInv, Types, UnmapNew, UnmapFolio
<1>2. Args'
  BY DEF IInv, Types, Args, Entries, Steps, UnmapNew, UnmapFolio
<1>3. Locks'
  BY DEF IInv, Types, Args, Locks, UnmapNew, UnmapFolio
<1>4. Owners'
  BY DEF IInv, Types, Args, Owners, UnmapNew, UnmapFolio
<1>5. Mapped'
  BY DEF IInv, Types, Args, Locks, Mapped, Unmapped, Owners, UnmapNew, UnmapFolio
<1>6. Unmapped'
  <2>1. new[c] \in Folios
    BY DEF IInv, Types, Args, UnmapNew
  <2>2. CASE MapCount(new[c]) > 0
    BY <2>1, <2>2, SMTT(60) DEF IInv, Types, Args, Locks, Mapped, Unmapped, UnmapNew, UnmapFolio
  <2>3. CASE ~(MapCount(new[c]) > 0)
    <3>1. \A p \in Pages : pte[p] # Present(new[c])
      <4>1. SUFFICES ASSUME NEW p \in Pages, pte[p] = Present(new[c])
                     PROVE  MapCount(new[c]) > 0
        BY <2>3
      <4> QED  BY <2>1, <4>1, MapCountPositive
    <3> QED  BY <2>3, <3>1 DEF IInv, Types, Args, Locks, Unmapped, UnmapNew, UnmapFolio
  <2> QED  BY <2>2, <2>3
<1> QED  BY <1>1, <1>2, <1>3, <1>4, <1>5, <1>6 DEF IInv

(* PrepareFails keeps the invariant.                                       *)
LEMMA PrepareFailsKeeps ==
  ASSUME IInv, NEW c \in Callers, PrepareFails(c)
  PROVE  IInv'
<1>1. Types'
  BY DEF IInv, Types, Args, Entries, Steps, PrepareFails
<1>2. Args'
  BY DEF IInv, Types, Args, Entries, Steps, PrepareFails
<1>3. Locks'
  BY DEF IInv, Types, Args, Locks, PrepareFails
<1>4. Owners'
  BY DEF IInv, Types, Args, Owners, PrepareFails
<1>5. Mapped'
  BY DEF IInv, Types, Args, Locks, Mapped, Unmapped, Owners, PrepareFails
<1>6. Unmapped'
  BY DEF IInv, Types, Args, Locks, Owners, Mapped, Unmapped, PrepareFails
<1> QED  BY <1>1, <1>2, <1>3, <1>4, <1>5, <1>6 DEF IInv

(* WriteoutOld keeps the invariant.                                        *)
LEMMA WriteoutOldKeeps ==
  ASSUME IInv, NEW c \in Callers, WriteoutOld(c)
  PROVE  IInv'
<1>0. /\ old[c] \in Folios /\ new[c] \in Folios /\ old[c] # new[c]
      /\ lock[old[c]] = c /\ lock[new[c]] = c
      /\ UNCHANGED <<owner, data, held, old, new, iso, unm, trial, last>>
  BY DEF IInv, Types, Args, Locks, WriteoutOld, Writeout
<1>1. Types'
  <2>1. pc' \in [Callers -> Steps] /\ err' \in [Callers -> Results]
    <3>1. \E e \in Results, q \in Steps : Fail(c, e, q)
      BY DEF Steps, WriteoutOld, Writeout
    <3> QED  BY <3>1 DEF IInv, Types
  <2>2. lock' \in [Folios -> Callers \cup {None}]
    BY DEF IInv, Types, WriteoutOld, Writeout
  <2>3. pte' \in [Pages -> Entries] /\ count' \in [Folios -> Int]
    <3>1. \/ pte' = pte /\ count' = count
          \/ /\ pte' = [pte EXCEPT ![owner[old[c]]] = Present(old[c])]
             /\ AddRefs({old[c]}, 1)
      BY DEF WriteoutOld, Writeout
    <3> QED  BY <1>0, <3>1 DEF IInv, Types, Entries
  <2> QED  BY <1>0, <2>1, <2>2, <2>3 DEF IInv, Types
<1>2. Args'
  BY <1>0 DEF IInv, Types, Args, WriteoutOld, Writeout
<1>3. Locks'
  BY <1>0 DEF IInv, Types, Args, Locks, WriteoutOld, Writeout
<1>4. Owners'
  BY <1>0 DEF IInv, Owners
<1>5. Mapped'
  BY <1>0 DEF IInv, Types, Mapped, WriteoutOld, Writeout
<1>6. Unmapped'
  <2>1. old[c] \in Folios /\ lock[old[c]] = c /\ owner[old[c]] \in Pages
    BY DEF IInv, Types, Args, Locks, WriteoutOld, Writeout
  <2>2. \/ pte' = pte
        \/ pte' = [pte EXCEPT ![owner[old[c]]] = Present(old[c])]
    BY DEF WriteoutOld, Writeout
  <2>3. /\ UNCHANGED <<old, new>> /\ \A d \in Callers \ {c} : pc'[d] = pc[d]
        /\ pc'[c] \notin {"unmap_new", "mapping", "data"}
    BY DEF IInv, Types, WriteoutOld, Writeout
  <2> QED  BY <2>1, <2>2, <2>3, MapsLocked
<1> QED  BY <1>1, <1>2, <1>3, <1>4, <1>5, <1>6 DEF IInv

(* WriteoutNew keeps the invariant.                                        *)
LEMMA WriteoutNewKeeps ==
  ASSUME IInv, NEW c \in Callers, WriteoutNew(c)
  PROVE  IInv'
<1>0. /\ new[c] \in Folios /\ old[c] \in Folios /\ old[c] # new[c]
      /\ lock[old[c]] = c /\ lock[new[c]] = c
      /\ UNCHANGED <<owner, data, held, old, new, iso, unm, trial, last>>
  BY DEF IInv, Types, Args, Locks, WriteoutNew, Writeout
<1>1. Types'
  <2>1. pc' \in [Callers -> Steps] /\ err' \in [Callers -> Results]
    <3>1. \E e \in Results, q \in Steps : Fail(c, e, q)
      BY DEF Steps, WriteoutNew, Writeout
    <3> QED  BY <3>1 DEF IInv, Types
  <2>2. lock' \in [Folios -> Callers \cup {None}]
    BY DEF IInv, Types, WriteoutNew, Writeout
  <2>3. pte' \in [Pages -> Entries] /\ count' \in [Folios -> Int]
    <3>1. \/ pte' = pte /\ count' = count
          \/ /\ pte' = [pte EXCEPT ![owner[new[c]]] = Present(new[c])]
             /\ AddRefs({new[c]}, 1)
      BY DEF WriteoutNew, Writeout
    <3> QED  BY <1>0, <3>1 DEF IInv, Types, Entries
  <2> QED  BY <1>0, <2>1, <2>2, <2>3 DEF IInv, Types
<1>2. Args'
  BY <1>0 DEF IInv, Types, Args, WriteoutNew, Writeout
<1>3. Locks'
  BY <1>0 DEF IInv, Types, Args, Locks, WriteoutNew, Writeout
<1>4. Owners'
  BY <1>0 DEF IInv, Owners
<1>5. Mapped'
  BY <1>0 DEF IInv, Types, Mapped, WriteoutNew, Writeout
<1>6. Unmapped'
  <2>1. new[c] \in Folios /\ lock[new[c]] = c /\ owner[new[c]] \in Pages
    BY DEF IInv, Types, Args, Locks, WriteoutNew, Writeout
  <2>2. \/ pte' = pte
        \/ pte' = [pte EXCEPT ![owner[new[c]]] = Present(new[c])]
    BY DEF WriteoutNew, Writeout
  <2>3. /\ UNCHANGED <<old, new>> /\ \A d \in Callers \ {c} : pc'[d] = pc[d]
        /\ pc'[c] \notin {"unmap_new", "mapping", "data"}
    BY DEF IInv, Types, WriteoutNew, Writeout
  <2> QED  BY <2>1, <2>2, <2>3, MapsLocked
<1> QED  BY <1>1, <1>2, <1>3, <1>4, <1>5, <1>6 DEF IInv

(* RelockOld keeps the invariant.                                          *)
LEMMA RelockOldKeeps ==
  ASSUME IInv, NEW c \in Callers, RelockOld(c)
  PROVE  IInv'
<1>1. Types'
  BY DEF IInv, Types, Args, Entries, Steps, RelockOld, LockFolio
<1>2. Args'
  BY DEF IInv, Types, Args, Entries, Steps, RelockOld, LockFolio
<1>3. Locks'
  BY DEF IInv, Types, Args, Locks, RelockOld, LockFolio
<1>4. Owners'
  BY DEF IInv, Types, Args, Owners, RelockOld, LockFolio
<1>5. Mapped'
  BY DEF IInv, Types, Mapped, RelockOld, LockFolio
<1>6. Unmapped'
  BY DEF IInv, Types, Unmapped, RelockOld, LockFolio
<1> QED  BY <1>1, <1>2, <1>3, <1>4, <1>5, <1>6 DEF IInv

(* RelockNew keeps the invariant.                                          *)
LEMMA RelockNewKeeps ==
  ASSUME IInv, NEW c \in Callers, RelockNew(c)
  PROVE  IInv'
<1>1. Types'
  BY DEF IInv, Types, Args, Entries, Steps, RelockNew, LockFolio
<1>2. Args'
  BY DEF IInv, Types, Args, Entries, Steps, RelockNew, LockFolio
<1>3. Locks'
  BY DEF IInv, Types, Args, Locks, RelockNew, LockFolio
<1>4. Owners'
  BY DEF IInv, Types, Args, Owners, RelockNew, LockFolio
<1>5. Mapped'
  BY DEF IInv, Types, Mapped, RelockNew, LockFolio
<1>6. Unmapped'
  BY DEF IInv, Types, Unmapped, RelockNew, LockFolio
<1> QED  BY <1>1, <1>2, <1>3, <1>4, <1>5, <1>6 DEF IInv

(* ExchangeMapping keeps the invariant.                                    *)
LEMMA ExchangeMappingKeeps ==
  ASSUME IInv, NEW c \in Callers, ExchangeMapping(c)
  PROVE  IInv'
<1>1. Types'
  <2>1. pc' \in [Callers -> Steps]
    BY DEF IInv, Types, Steps, ExchangeMapping, ExchangedCount, ExpectedRefs
  <2>2. /\ old' \in [Callers -> Folios \cup {None}] /\ new' \in [Callers -> Folios \cup {None}]
        /\ iso' \in [Callers -> SUBSET Folios] /\ unm' \in [Callers -> SUBSET Folios]
    BY DEF IInv, Types, Args, Entries, ExchangeMapping, ExchangedCount, ExpectedRefs
  <2>3. /\ err' \in [Callers -> Results]
        /\ trial' \in [Callers -> 0 .. MaxTrials]
    BY DEF IInv, Types, ExchangeMapping, ExchangedCount, ExpectedRefs
  <2>4. pte' \in [Pages -> Entries] /\ count' \in [Folios -> Int]
    BY DEF IInv, Types, Args, Entries, ExchangeMapping, ExchangedCount, ExpectedRefs
  <2>5. owner' \in [Folios -> Pages] /\ data' \in [Folios -> Values]
    BY DEF IInv, Types, Args, ExchangeMapping, ExchangedCount, ExpectedRefs
  <2> QED  BY <2>1, <2>2, <2>3, <2>4, <2>5 DEF IInv, Types, ExchangeMapping, ExchangedCount, ExpectedRefs
<1>2. Args'
  BY DEF IInv, Types, Args, Entries, Steps, ExchangeMapping, ExchangedCount, ExpectedRefs
<1>3. Locks'
  BY DEF IInv, Types, Args, Locks, ExchangeMapping, ExchangedCount, ExpectedRefs
<1>4. Owners'
  <2>1. /\ old[c] \in Folios /\ new[c] \in Folios
        /\ owner'[old[c]] = owner[new[c]] /\ owner'[new[c]] = owner[old[c]]
        /\ \A f \in Folios \ {old[c], new[c]} : owner'[f] = owner[f]
    BY DEF IInv, Types, Args, Locks, ExchangeMapping
  <2>2. \A f, g \in Folios : owner'[f] = owner'[g] => f = g
    BY <2>1 DEF IInv, Owners
  <2>3. ASSUME NEW p \in Pages
        PROVE  \E f \in Folios : owner'[f] = p
    <3>1. PICK f \in Folios : owner[f] = p
      BY DEF IInv, Owners
    <3> QED  BY <2>1, <3>1
  <2> QED  BY <2>2, <2>3 DEF Owners
<1>5. Mapped'
  BY DEF IInv, Types, Args, Locks, Mapped, Unmapped, Owners, ExchangeMapping, ExchangedCount, ExpectedRefs
<1>6. Unmapped'
  BY DEF IInv, Types, Args, Locks, Owners, Mapped, Unmapped, ExchangeMapping, ExchangedCount, ExpectedRefs
<1> QED  BY <1>1, <1>2, <1>3, <1>4, <1>5, <1>6 DEF IInv

(* ExchangeData keeps the invariant.                                       *)
LEMMA ExchangeDataKeeps ==
  ASSUME IInv, NEW c \in Callers, ExchangeData(c)
  PROVE  IInv'
<1>1. Types'
  <2>1. pc' \in [Callers -> Steps]
    BY DEF IInv, Types, Steps, ExchangeData
  <2>2. /\ old' \in [Callers -> Folios \cup {None}] /\ new' \in [Callers -> Folios \cup {None}]
        /\ iso' \in [Callers -> SUBSET Folios] /\ unm' \in [Callers -> SUBSET Folios]
    BY DEF IInv, Types, Args, Entries, ExchangeData
  <2>3. /\ err' \in [Callers -> Results]
        /\ trial' \in [Callers -> 0 .. MaxTrials]
    BY DEF IInv, Types, ExchangeData
  <2>4. pte' \in [Pages -> Entries] /\ count' \in [Folios -> Int]
    BY DEF IInv, Types, Args, Entries, ExchangeData
  <2>5. owner' \in [Folios -> Pages] /\ data' \in [Folios -> Values]
    <3>1. old[c] \in Folios /\ new[c] \in Folios
      BY DEF IInv, Types, Args, ExchangeData
    <3> QED  BY <3>1 DEF IInv, Types, ExchangeData
  <2> QED  BY <2>1, <2>2, <2>3, <2>4, <2>5 DEF IInv, Types, ExchangeData
<1>2. Args'
  BY DEF IInv, Types, Args, Entries, Steps, ExchangeData
<1>3. Locks'
  BY DEF IInv, Types, Args, Locks, ExchangeData
<1>4. Owners'
  BY DEF IInv, Types, Args, Owners, ExchangeData
<1>5. Mapped'
  BY DEF IInv, Types, Args, Locks, Mapped, Unmapped, Owners, ExchangeData
<1>6. Unmapped'
  BY DEF IInv, Types, Args, Locks, Owners, Mapped, Unmapped, ExchangeData
<1> QED  BY <1>1, <1>2, <1>3, <1>4, <1>5, <1>6 DEF IInv

(* RemapNew keeps the invariant.                                           *)
LEMMA RemapNewKeeps ==
  ASSUME IInv, NEW c \in Callers, RemapNew(c)
  PROVE  IInv'
<1>1. Types'
  <2>1. pc' \in [Callers -> Steps]
    BY DEF IInv, Types, Steps, RemapNew, RemapFolio
  <2>2. /\ old' = old /\ new' = new /\ iso' = iso
        /\ unm' \in [Callers -> SUBSET Folios]
    BY DEF IInv, Types, RemapNew, RemapFolio
  <2>3. /\ err' \in [Callers -> Results]
        /\ trial' \in [Callers -> 0 .. MaxTrials]
    BY DEF IInv, Types, RemapNew, RemapFolio
  <2>4. pte' \in [Pages -> Entries] /\ count' \in [Folios -> Int]
    <3>1. old[c] \in Folios
      BY DEF IInv, Types, Args, RemapNew
    <3>2. \/ pte' = pte /\ count' = count
          \/ /\ pte' = [pte EXCEPT ![owner[old[c]]] = Present(old[c])]
             /\ AddRefs({old[c]}, 1)
      BY DEF RemapNew, RemapFolio
    <3> QED  BY <3>1, <3>2 DEF IInv, Types, Entries
  <2>5. owner' \in [Folios -> Pages] /\ data' \in [Folios -> Values]
    BY DEF IInv, Types, Args, RemapNew, RemapFolio
  <2> QED  BY <2>1, <2>2, <2>3, <2>4, <2>5 DEF IInv, Types, RemapNew, RemapFolio
<1>2. Args'
  BY DEF IInv, Types, Args, Entries, Steps, RemapNew, RemapFolio
<1>3. Locks'
  BY DEF IInv, Types, Args, Locks, RemapNew, RemapFolio
<1>4. Owners'
  BY DEF IInv, Types, Args, Owners, RemapNew, RemapFolio
<1>5. Mapped'
  BY DEF IInv, Types, Args, Locks, Mapped, Unmapped, Owners, RemapNew, RemapFolio
<1>6. Unmapped'
  <2>1. old[c] \in Folios /\ lock[old[c]] = c /\ owner[old[c]] \in Pages
    BY DEF IInv, Types, Args, Locks, RemapNew, RemapFolio
  <2>2. \/ pte' = pte
        \/ pte' = [pte EXCEPT ![owner[old[c]]] = Present(old[c])]
    BY DEF RemapNew, RemapFolio
  <2>3. /\ UNCHANGED <<old, new>> /\ \A d \in Callers \ {c} : pc'[d] = pc[d]
        /\ pc'[c] \notin {"unmap_new", "mapping", "data"}
    BY DEF IInv, Types, RemapNew, RemapFolio
  <2> QED  BY <2>1, <2>2, <2>3, MapsLocked
<1> QED  BY <1>1, <1>2, <1>3, <1>4, <1>5, <1>6 DEF IInv

(* RemapOld keeps the invariant.                                           *)
LEMMA RemapOldKeeps ==
  ASSUME IInv, NEW c \in Callers, RemapOld(c)
  PROVE  IInv'
<1>1. Types'
  <2>1. pc' \in [Callers -> Steps]
    BY DEF IInv, Types, Steps, RemapOld, RemapFolio
  <2>2. /\ old' = old /\ new' = new /\ iso' = iso
        /\ unm' \in [Callers -> SUBSET Folios]
    BY DEF IInv, Types, RemapOld, RemapFolio
  <2>3. /\ err' \in [Callers -> Results]
        /\ trial' \in [Callers -> 0 .. MaxTrials]
    BY DEF IInv, Types, RemapOld, RemapFolio
  <2>4. pte' \in [Pages -> Entries] /\ count' \in [Folios -> Int]
    <3>1. new[c] \in Folios
      BY DEF IInv, Types, Args, RemapOld
    <3>2. \/ pte' = pte /\ count' = count
          \/ /\ pte' = [pte EXCEPT ![owner[new[c]]] = Present(new[c])]
             /\ AddRefs({new[c]}, 1)
      BY DEF RemapOld, RemapFolio
    <3> QED  BY <3>1, <3>2 DEF IInv, Types, Entries
  <2>5. owner' \in [Folios -> Pages] /\ data' \in [Folios -> Values]
    BY DEF IInv, Types, Args, RemapOld, RemapFolio
  <2> QED  BY <2>1, <2>2, <2>3, <2>4, <2>5 DEF IInv, Types, RemapOld, RemapFolio
<1>2. Args'
  BY DEF IInv, Types, Args, Entries, Steps, RemapOld, RemapFolio
<1>3. Locks'
  BY DEF IInv, Types, Args, Locks, RemapOld, RemapFolio
<1>4. Owners'
  BY DEF IInv, Types, Args, Owners, RemapOld, RemapFolio
<1>5. Mapped'
  BY DEF IInv, Types, Args, Locks, Mapped, Unmapped, Owners, RemapOld, RemapFolio
<1>6. Unmapped'
  <2>1. new[c] \in Folios /\ lock[new[c]] = c /\ owner[new[c]] \in Pages
    BY DEF IInv, Types, Args, Locks, RemapOld, RemapFolio
  <2>2. \/ pte' = pte
        \/ pte' = [pte EXCEPT ![owner[new[c]]] = Present(new[c])]
    BY DEF RemapOld, RemapFolio
  <2>3. /\ UNCHANGED <<old, new>> /\ \A d \in Callers \ {c} : pc'[d] = pc[d]
        /\ pc'[c] \notin {"unmap_new", "mapping", "data"}
    BY DEF IInv, Types, RemapOld, RemapFolio
  <2> QED  BY <2>1, <2>2, <2>3, MapsLocked
<1> QED  BY <1>1, <1>2, <1>3, <1>4, <1>5, <1>6 DEF IInv

(* Unlock keeps the invariant.                                             *)
LEMMA UnlockKeeps ==
  ASSUME IInv, NEW c \in Callers, Unlock(c)
  PROVE  IInv'
<1>1. Types'
  BY DEF IInv, Types, Args, Entries, Steps, Unlock
<1>2. Args'
  BY DEF IInv, Types, Args, Entries, Steps, Unlock
<1>3. Locks'
  BY DEF IInv, Types, Args, Locks, Unlock
<1>4. Owners'
  BY DEF IInv, Types, Args, Owners, Unlock
<1>5. Mapped'
  BY DEF IInv, Types, Args, Locks, Mapped, Unmapped, Owners, Unlock
<1>6. Unmapped'
  BY DEF IInv, Types, Args, Locks, Owners, Mapped, Unmapped, Unlock
<1> QED  BY <1>1, <1>2, <1>3, <1>4, <1>5, <1>6 DEF IInv

(* Putback keeps the invariant.                                            *)
LEMMA PutbackKeeps ==
  ASSUME IInv, NEW c \in Callers, Putback(c)
  PROVE  IInv'
<1>1. Types'
  BY DEF IInv, Types, Args, Entries, Steps, Putback
<1>2. Args'
  BY DEF IInv, Types, Args, Entries, Steps, Putback
<1>3. Locks'
  BY DEF IInv, Types, Args, Locks, Putback
<1>4. Owners'
  BY DEF IInv, Types, Args, Owners, Putback
<1>5. Mapped'
  BY DEF IInv, Types, Args, Locks, Mapped, Unmapped, Owners, Putback
<1>6. Unmapped'
  BY DEF IInv, Types, Args, Locks, Owners, Mapped, Unmapped, Putback
<1> QED  BY <1>1, <1>2, <1>3, <1>4, <1>5, <1>6 DEF IInv

(* Retry keeps the invariant.                                              *)
LEMMA RetryKeeps ==
  ASSUME IInv, NEW c \in Callers, Retry(c)
  PROVE  IInv'
<1>1. Types'
  BY DEF IInv, Types, Args, Entries, Steps, Retry
<1>2. Args'
  BY DEF IInv, Types, Args, Entries, Steps, Retry
<1>3. Locks'
  BY DEF IInv, Types, Args, Locks, Retry
<1>4. Owners'
  BY DEF IInv, Types, Args, Owners, Retry
<1>5. Mapped'
  BY DEF IInv, Types, Args, Locks, Mapped, Unmapped, Owners, Retry
<1>6. Unmapped'
  BY DEF IInv, Types, Args, Locks, Owners, Mapped, Unmapped, Retry
<1> QED  BY <1>1, <1>2, <1>3, <1>4, <1>5, <1>6 DEF IInv

(* Return keeps the invariant.                                             *)
LEMMA ReturnKeeps ==
  ASSUME IInv, NEW c \in Callers, Return(c)
  PROVE  IInv'
<1>1. Types'
  BY DEF IInv, Types, Args, Entries, Steps, Return
<1>2. Args'
  BY DEF IInv, Types, Args, Entries, Steps, Return
<1>3. Locks'
  BY DEF IInv, Types, Args, Locks, Return
<1>4. Owners'
  BY DEF IInv, Types, Args, Owners, Return
<1>5. Mapped'
  BY DEF IInv, Types, Args, Locks, Mapped, Unmapped, Owners, Return
<1>6. Unmapped'
  BY DEF IInv, Types, Args, Locks, Owners, Mapped, Unmapped, Return
<1> QED  BY <1>1, <1>2, <1>3, <1>4, <1>5, <1>6 DEF IInv

(* At first every page is mapped to its folio and no caller is inside.     *)
LEMMA InitKeeps == Init => IInv
<1> SUFFICES ASSUME Init PROVE IInv
  OBVIOUS
<1>1. \A f \in Folios : owner[f] \in Pages /\ InitHome[owner[f]] = f
  BY ExchangeAssumption DEF Init
<1>2. \A p \in Pages : InitHome[p] \in Folios /\ owner[InitHome[p]] = p
  BY <1>1, ExchangeAssumption
<1>3. Types
  <2>1. owner \in [Folios -> Pages] /\ data \in [Folios -> Values]
    <3>1. owner \in [Folios -> Pages]
      BY <1>1, Zenon DEF Init
    <3>2. data = [f \in Folios |-> InitData[owner[f]]]
      BY Zenon DEF Init
    <3> QED  BY <3>1, <3>2, ExchangeAssumption
  <2>2. pte \in [Pages -> Entries]
    <3>1. pte = [p \in Pages |-> Present(InitHome[p])]
      BY Zenon DEF Init
    <3> QED  BY <1>2, <3>1 DEF Entries
  <2>3. count \in [Folios -> Int]
    <3>1. ASSUME NEW f \in Folios
          PROVE  MapCount(f) \in Int /\ ExpectedRefs(f) \in Int
      <4>1. MapCount(f) \in Nat
        BY MapCountPositive, Zenon
      <4> QED  BY <4>1 DEF ExpectedRefs
    <3>2. count = [f \in Folios |-> MapCount(f) + ExpectedRefs(f) - 1]
      BY Zenon DEF Init
    <3> QED  BY <3>1, <3>2
  <2>4. /\ held \in [Holders -> Folios \cup {None}]
        /\ lock \in [Folios -> Callers \cup {None}]
        /\ pc \in [Callers -> Steps]
    BY DEF Init, Steps
  <2>5. /\ old \in [Callers -> Folios \cup {None}]
        /\ new \in [Callers -> Folios \cup {None}]
        /\ iso \in [Callers -> SUBSET Folios] /\ unm \in [Callers -> SUBSET Folios]
        /\ err \in [Callers -> Results]
        /\ trial \in [Callers -> 0 .. MaxTrials]
    BY DEF Init
  <2>6. last \in Accessed \X Values
    BY ExchangeAssumption DEF Init
  <2> QED  BY <2>1, <2>2, <2>3, <2>4, <2>5, <2>6 DEF Types
<1>4. Args /\ Locks /\ Unmapped
  BY DEF Init, Args, Locks, Unmapped
<1>5. Owners
  BY <1>1, <1>2 DEF Owners
<1>6. Mapped
  BY <1>1, <1>2 DEF Init, Mapped
<1> QED  BY <1>3, <1>4, <1>5, <1>6 DEF IInv

(* The steps of a caller, as one list.                                     *)
LEMMA CallerSteps ==
  ASSUME NEW c \in Callers, FileStep(c)
  PROVE  \/ \E p \in Pages : ResolveDst(c, p)
         \/ IsolateOld(c) \/ IsolateNew(c) \/ LockOld(c) \/ LockNew(c)
         \/ CheckOld(c) \/ CheckNew(c) \/ UnmapOld(c) \/ UnmapNew(c)
         \/ PrepareFails(c) \/ WriteoutOld(c) \/ WriteoutNew(c)
         \/ RelockOld(c) \/ RelockNew(c) \/ ExchangeMapping(c) \/ ExchangeData(c)
         \/ RemapNew(c) \/ RemapOld(c) \/ Unlock(c) \/ Putback(c)
         \/ Retry(c) \/ Return(c)
BY DEF FileStep, FileOnly, Step

(* No step of anybody leaves the inductive invariant.                      *)
LEMMA NextKeeps ==
  ASSUME IInv, [FileNext]_vars
  PROVE  IInv'
<1>1. CASE UNCHANGED vars
  BY <1>1 DEF vars, IInv, Types, Args, Locks, Owners, Mapped, Unmapped
<1>2. ASSUME NEW p \in Accessed, AppRead(p) \/ \E v \in Values : AppWrite(p, v)
      PROVE  IInv'
  BY <1>2, AppReadKeeps, AppWriteKeeps
<1>3. ASSUME NEW h \in Holders, NEW f \in Folios,
             TakeReference(h, f) \/ LookupReference(h, f)
      PROVE  IInv'
  BY <1>3, TakeReferenceKeeps, LookupReferenceKeeps
<1>4. ASSUME NEW h \in Holders, DropReference(h)
      PROVE  IInv'
  BY <1>4, DropReferenceKeeps
<1>5. ASSUME NEW c \in Callers, NEW f \in Folios, NEW g \in Folios, Manage(c, f, g)
      PROVE  IInv'
  BY <1>5, ManageKeeps
<1>6. ASSUME NEW c \in Callers, NEW p \in Pages, ResolveSrc(c, p)
      PROVE  IInv'
  BY <1>6, ResolveSrcKeeps
<1>7. ASSUME NEW c \in Callers, FileStep(c)
      PROVE  IInv'
  BY <1>7, CallerSteps, ResolveDstKeeps, IsolateOldKeeps, IsolateNewKeeps,
     LockOldKeeps, LockNewKeeps, CheckOldKeeps, CheckNewKeeps, UnmapOldKeeps,
     UnmapNewKeeps, WriteoutOldKeeps, WriteoutNewKeeps, RelockOldKeeps,
     RelockNewKeeps, PrepareFailsKeeps, ExchangeMappingKeeps, ExchangeDataKeeps,
     RemapNewKeeps, RemapOldKeeps, UnlockKeeps, PutbackKeeps, RetryKeeps, ReturnKeeps
<1> QED
  BY <1>1, <1>2, <1>3, <1>4, <1>5, <1>6, <1>7 DEF FileNext, Next, FileStep

(* The two specifications and what their steps have in common.             *)
LEMMA SpecSteps ==
  /\ Spec => Init /\ [][FileNext]_vars
  /\ FileSpec => Init /\ [][FileNext]_vars
<1>1. [Next]_vars => [FileNext]_vars
  BY DEF FileNext
<1> QED  BY <1>1, PTL DEF Spec, FileSpec

(* The inductive invariant holds whatever folios are exchanged.            *)
LEMMA Invariant == Init /\ [][FileNext]_vars => []IInv
<1>1. Init => IInv  BY InitKeeps
<1>2. IInv /\ [FileNext]_vars => IInv'  BY NextKeeps
<1> QED  BY <1>1, <1>2, PTL

-----------------------------------------------------------------------------
(* The contents of the pages.                                              *)

(* Folio f holds the content of page p: it belongs to p, or its partner    *)
(* does while their mappings are exchanged and their data is not yet.      *)
Settled(f) == \A c \in Callers : pc[c] = "data" => f # old[c] /\ f # new[c]
Holds(f, p) ==
  \/ owner[f] = p /\ Settled(f)
  \/ \E c \in Callers :
       /\ pc[c] = "data"
       /\ \/ owner[old[c]] = p /\ f = new[c]
          \/ owner[new[c]] = p /\ f = old[c]

MemExact ==
  /\ mem \in [Pages -> Values]
  /\ \A p \in Pages : \E f \in Folios : Holds(f, p)
  /\ \A p \in Pages, f \in Folios : Holds(f, p) => mem[p] = data[f]

(* A folio takes part in one exchange at a time, in one of its two places. *)
LEMMA OneExchange ==
  ASSUME IInv, NEW c \in Callers, NEW d \in Callers,
         pc[c] \in LockedBoth, pc[d] \in LockedBoth
  PROVE  /\ old[c] \in Folios /\ new[c] \in Folios /\ old[c] # new[c]
         /\ old[c] # new[d]
         /\ old[c] = old[d] \/ new[c] = new[d] => c = d
BY DEF IInv, Types, Args, Locks, Steps

(* Home finds the folio that holds the content of a page.                  *)
LEMMA HomeFound ==
  ASSUME IInv, NEW p \in Pages
  PROVE  /\ Home(p) \in Folios /\ Holds(Home(p), p)
         /\ \A f \in Folios : Holds(f, p) => f = Home(p)
<1> DEFINE o == CHOOSE g \in Folios : owner[g] = p
<1>1. o \in Folios /\ owner[o] = p /\ \A g \in Folios : owner[g] = p => g = o
  BY DEF IInv, Owners
<1>2. CASE \E c \in Callers : pc[c] = "data" /\ o = old[c]
  <2> DEFINE c == CHOOSE d \in Callers : pc[d] = "data" /\ o = old[d]
  <2>1. c \in Callers /\ pc[c] = "data" /\ o = old[c]
    BY <1>2
  <2>2. Home(p) = new[c]
    BY <1>2, Zenon DEF Home
  <2> HIDE DEF c, o
  <2>3. new[c] \in Folios /\ Holds(new[c], p)
    BY <1>1, <2>1, OneExchange DEF Holds
  <2>4. ASSUME NEW f \in Folios, Holds(f, p) PROVE f = new[c]
    <3>1. CASE owner[f] = p /\ Settled(f)
      BY <1>1, <2>1, <3>1 DEF Settled
    <3>2. ASSUME NEW d \in Callers, pc[d] = "data", owner[old[d]] = p, f = new[d]
          PROVE  f = new[c]
      BY <1>1, <2>1, <3>2, OneExchange
    <3>3. ASSUME NEW d \in Callers, pc[d] = "data", owner[new[d]] = p, f = old[d]
          PROVE  f = new[c]
      BY <1>1, <2>1, <3>3, OneExchange
    <3> QED  BY <2>4, <3>1, <3>2, <3>3 DEF Holds
  <2> QED  BY <2>2, <2>3, <2>4
<1>3. CASE /\ ~\E c \in Callers : pc[c] = "data" /\ o = old[c]
           /\ \E c \in Callers : pc[c] = "data" /\ o = new[c]
  <2> DEFINE c == CHOOSE d \in Callers : pc[d] = "data" /\ o = new[d]
  <2>1. c \in Callers /\ pc[c] = "data" /\ o = new[c]
    BY <1>3
  <2>2. Home(p) = old[c]
    BY <1>3, Zenon DEF Home
  <2> HIDE DEF c, o
  <2>3. old[c] \in Folios /\ Holds(old[c], p)
    BY <1>1, <2>1, OneExchange DEF Holds
  <2>4. ASSUME NEW f \in Folios, Holds(f, p) PROVE f = old[c]
    <3>1. CASE owner[f] = p /\ Settled(f)
      BY <1>1, <2>1, <3>1 DEF Settled
    <3>2. ASSUME NEW d \in Callers, pc[d] = "data", owner[old[d]] = p, f = new[d]
          PROVE  f = old[c]
      BY <1>1, <2>1, <3>2, OneExchange
    <3>3. ASSUME NEW d \in Callers, pc[d] = "data", owner[new[d]] = p, f = old[d]
          PROVE  f = old[c]
      BY <1>1, <2>1, <3>3, OneExchange
    <3> QED  BY <2>4, <3>1, <3>2, <3>3 DEF Holds
  <2> QED  BY <2>2, <2>3, <2>4
<1>4. CASE ~\E c \in Callers : pc[c] = "data" /\ (o = old[c] \/ o = new[c])
  <2>1. Home(p) = o
    BY <1>4, Zenon DEF Home
  <2> HIDE DEF o
  <2>2. Holds(o, p)
    BY <1>1, <1>4 DEF Holds, Settled
  <2>3. ASSUME NEW f \in Folios, Holds(f, p) PROVE f = o
    BY <1>1, <1>4, <2>3, OneExchange DEF Holds
  <2> QED  BY <1>1, <2>1, <2>2, <2>3
<1> QED  BY <1>2, <1>3, <1>4

(* mem is what the folios that hold the pages contain.                     *)
LEMMA MemFound == IInv => MemExact
<1> SUFFICES ASSUME IInv PROVE MemExact
  OBVIOUS
<1>1. \A p \in Pages : Home(p) \in Folios /\ Holds(Home(p), p)
  BY HomeFound
<1>2. \A p \in Pages, f \in Folios : Holds(f, p) => f = Home(p)
  BY HomeFound
<1>3. mem = [p \in Pages |-> data[Home(p)]]
  BY DEF mem
<1>4. data \in [Folios -> Values]
  BY DEF IInv, Types
<1> QED  BY <1>1, <1>2, <1>3, <1>4 DEF MemExact

(* A step that neither exchanges nor accesses the contents of folios.      *)
Quiet ==
  /\ owner' = owner /\ data' = data /\ last' = last
  /\ \A c \in Callers : pc'[c] = "data" <=> pc[c] = "data"
  /\ \A c \in Callers : pc[c] = "data" => old'[c] = old[c] /\ new'[c] = new[c]

(* All the steps but four operations are quiet.                            *)
LEMMA StepKinds ==
  ASSUME IInv, [FileNext]_vars
  PROVE  \/ Quiet
         \/ \E p \in Accessed : AppRead(p) \/ \E v \in Values : AppWrite(p, v)
         \/ \E c \in Callers : ExchangeMapping(c) \/ ExchangeData(c)
<1> USE DEF IInv, Types, Quiet
<1>1. CASE UNCHANGED vars
  BY <1>1 DEF vars
<1>2. ASSUME NEW h \in Holders, NEW f \in Folios,
             TakeReference(h, f) \/ LookupReference(h, f) \/ DropReference(h)
      PROVE  Quiet
  BY <1>2 DEF TakeReference, LookupReference, DropReference
<1>3. ASSUME NEW c \in Callers, NEW f \in Folios, NEW g \in Folios, Manage(c, f, g)
      PROVE  Quiet
  BY <1>3 DEF Manage
<1>4. ASSUME NEW c \in Callers, NEW p \in Pages, ResolveSrc(c, p)
      PROVE  Quiet
  BY <1>4 DEF ResolveSrc
<1>5. ASSUME NEW c \in Callers, FileStep(c)
      PROVE  Quiet \/ ExchangeMapping(c) \/ ExchangeData(c)
  <2>1. ASSUME NEW p \in Pages, ResolveDst(c, p) PROVE Quiet
    BY <2>1 DEF ResolveDst
  <2>2. CASE IsolateOld(c) \/ IsolateNew(c)
    BY <2>2 DEF IsolateOld, IsolateNew
  <2>3. CASE LockOld(c) \/ LockNew(c) \/ RelockOld(c) \/ RelockNew(c)
    BY <2>3 DEF LockOld, LockNew, RelockOld, RelockNew, LockFolio
  <2>4. CASE CheckOld(c) \/ CheckNew(c)
    BY <2>4 DEF CheckOld, CheckNew, CheckFolio
  <2>5. CASE UnmapOld(c) \/ UnmapNew(c)
    BY <2>5 DEF UnmapOld, UnmapNew, UnmapFolio
  <2>6. CASE RemapOld(c) \/ RemapNew(c)
    BY <2>6 DEF RemapOld, RemapNew, RemapFolio
  <2>7. CASE PrepareFails(c) \/ Retry(c)
    BY <2>7 DEF PrepareFails, Retry
  <2>8. CASE Unlock(c) \/ Putback(c) \/ Return(c)
    BY <2>8 DEF Unlock, Putback, Return
  <2>9. CASE WriteoutOld(c) \/ WriteoutNew(c)
    BY <2>9 DEF WriteoutOld, WriteoutNew, Writeout
  <2> HIDE DEF Quiet
  <2> QED  BY <1>5, <2>1, <2>2, <2>3, <2>4, <2>5, <2>6, <2>7, <2>8, <2>9, CallerSteps
<1>6. ASSUME NEW h \in Holders, DropReference(h) PROVE Quiet
  BY <1>6 DEF DropReference
<1> HIDE DEF Quiet
<1> QED
  BY <1>1, <1>2, <1>3, <1>4, <1>5, <1>6 DEF FileNext, Next, FileStep

(* The contents of the pages follow the folios that hold them.             *)
LEMMA MemFollows ==
  ASSUME MemExact, MemExact',
         NEW p \in Pages, NEW f \in Folios, NEW g \in Folios,
         Holds(f, p), Holds(g, p)', data'[g] = data[f]
  PROVE  mem'[p] = mem[p]
BY DEF MemExact

(* Quiet steps and exchanges do not change the content of any page.        *)
LEMMA QuietMem ==
  ASSUME IInv, MemExact, MemExact', Quiet
  PROVE  mem' = mem
<1>1. ASSUME NEW p \in Pages PROVE mem'[p] = mem[p]
  <2>1. PICK f \in Folios : Holds(f, p)
    BY DEF MemExact
  <2>2. Holds(f, p)'
    BY <2>1 DEF Quiet, Holds, Settled
  <2> QED  BY <2>1, <2>2, MemFollows DEF Quiet
<1> QED  BY <1>1 DEF MemExact

(* Exchanging the owners, with the data still to follow, changes no page's *)
(* content as the application sees it.                                     *)
LEMMA MappingMem ==
  ASSUME IInv, MemExact, MemExact', NEW c \in Callers, ExchangeMapping(c)
  PROVE  mem' = mem
<1>1. /\ old[c] \in Folios /\ new[c] \in Folios /\ old[c] # new[c]
      /\ data' = data /\ old' = old /\ new' = new
      /\ pc'[c] = "data" /\ \A d \in Callers \ {c} : pc'[d] = pc[d]
      /\ owner'[old[c]] = owner[new[c]] /\ owner'[new[c]] = owner[old[c]]
      /\ \A f \in Folios \ {old[c], new[c]} : owner'[f] = owner[f]
  BY DEF IInv, Types, Args, Locks, ExchangeMapping
<1>2. \A d \in Callers : pc[d] = "data" =>
        /\ d # c /\ old[d] \in Folios \ {old[c], new[c]}
        /\ new[d] \in Folios \ {old[c], new[c]}
  BY OneExchange DEF ExchangeMapping
<1>3. ASSUME NEW p \in Pages, NEW f \in Folios, Holds(f, p) PROVE Holds(f, p)'
  <2>1. CASE owner[f] = p /\ Settled(f)
    <3>1. CASE f = old[c] \/ f = new[c]
      BY <1>1, <2>1, <3>1 DEF Holds
    <3>2. CASE f # old[c] /\ f # new[c]
      BY <1>1, <2>1, <3>2 DEF Holds, Settled
    <3> QED  BY <3>1, <3>2
  <2>2. ASSUME NEW d \in Callers, pc[d] = "data",
               (owner[old[d]] = p /\ f = new[d]) \/ (owner[new[d]] = p /\ f = old[d])
        PROVE  Holds(f, p)'
    BY <1>1, <1>2, <2>2 DEF Holds
  <2> QED  BY <1>3, <2>1, <2>2 DEF Holds
<1>4. ASSUME NEW p \in Pages PROVE mem'[p] = mem[p]
  <2>1. PICK f \in Folios : Holds(f, p)
    BY DEF MemExact
  <2> QED  BY <1>1, <1>3, <2>1, MemFollows
<1> QED  BY <1>4 DEF MemExact

(* Nor does exchanging the data, which completes it.                       *)
LEMMA DataMem ==
  ASSUME IInv, MemExact, MemExact', NEW c \in Callers, ExchangeData(c)
  PROVE  mem' = mem
<1>1. /\ old[c] \in Folios /\ new[c] \in Folios /\ old[c] # new[c]
      /\ owner' = owner /\ old' = old /\ new' = new
      /\ pc[c] = "data" /\ pc'[c] # "data"
      /\ \A d \in Callers \ {c} : pc'[d] = pc[d]
      /\ data'[old[c]] = data[new[c]] /\ data'[new[c]] = data[old[c]]
      /\ \A f \in Folios \ {old[c], new[c]} : data'[f] = data[f]
  BY DEF IInv, Types, Args, Locks, ExchangeData
<1>2. \A d \in Callers : pc[d] = "data" /\ d # c =>
        /\ old[d] \in Folios \ {old[c], new[c]}
        /\ new[d] \in Folios \ {old[c], new[c]}
  BY <1>1, OneExchange
<1>3. ASSUME NEW p \in Pages, NEW f \in Folios, Holds(f, p)
      PROVE  \E g \in Folios : Holds(g, p)' /\ data'[g] = data[f]
  <2>1. CASE owner[f] = p /\ Settled(f)
    BY <1>1, <2>1 DEF Holds, Settled
  <2>2. CASE owner[old[c]] = p /\ f = new[c]
    BY <1>1, <1>2, <2>2 DEF Holds, Settled
  <2>3. CASE owner[new[c]] = p /\ f = old[c]
    BY <1>1, <1>2, <2>3 DEF Holds, Settled
  <2>4. ASSUME NEW d \in Callers \ {c}, pc[d] = "data",
               (owner[old[d]] = p /\ f = new[d]) \/ (owner[new[d]] = p /\ f = old[d])
        PROVE  Holds(f, p)' /\ data'[f] = data[f]
    BY <1>1, <1>2, <2>4 DEF Holds
  <2> QED  BY <1>3, <2>1, <2>2, <2>3, <2>4 DEF Holds
<1>4. ASSUME NEW p \in Pages PROVE mem'[p] = mem[p]
  <2>1. PICK f \in Folios : Holds(f, p)
    BY DEF MemExact
  <2> QED  BY <1>3, <2>1, MemFollows
<1> QED  BY <1>4 DEF MemExact

(* A folio holds the content of one page.                                  *)
LEMMA HoldsOnce ==
  ASSUME IInv, NEW p \in Pages, NEW q \in Pages, NEW f \in Folios,
         Holds(f, p), Holds(f, q)
  PROVE  p = q
<1>1. CASE Settled(f)
  BY <1>1 DEF Holds, Settled
<1>2. CASE ~Settled(f)
  <2>1. PICK c \in Callers : pc[c] = "data" /\ (f = old[c] \/ f = new[c])
    BY <1>2 DEF Settled
  <2>2. \A d \in Callers : pc[d] = "data" /\ (f = old[d] \/ f = new[d]) => d = c
    BY <2>1, OneExchange
  <2>3. old[c] # new[c]
    BY <2>1, OneExchange
  <2> QED  BY <1>2, <2>1, <2>2, <2>3 DEF Holds
<1> QED  BY <1>1, <1>2

(* A page that the application can access is held by the folio it maps.    *)
LEMMA AccessFound ==
  ASSUME IInv, NEW p \in Pages, pte[p].kind = "present"
  PROVE  pte[p].folio \in Folios /\ Holds(pte[p].folio, p)
<1>1. pte[p].folio \in Folios /\ pte[p] = Present(pte[p].folio)
  BY DEF IInv, Types, Entries
<1>2. owner[pte[p].folio] = p
  BY <1>1 DEF IInv, Mapped
<1>3. Settled(pte[p].folio)
  BY <1>1 DEF IInv, Unmapped, Settled
<1> QED  BY <1>1, <1>2, <1>3 DEF Holds

(* Every step of an exchange, and of the application, is one of AppMemory  *)
(* or leaves its variables alone.                                          *)
LEMMA StepImplements ==
  ASSUME IInv, MemExact, MemExact', [FileNext]_vars
  PROVE  [App!MemNext]_<<mem, last>>
<1>1. CASE Quiet
  BY <1>1, QuietMem DEF Quiet
<1>2. ASSUME NEW c \in Callers, ExchangeMapping(c)
      PROVE  mem' = mem /\ last' = last
  BY <1>2, MappingMem DEF ExchangeMapping
<1>3. ASSUME NEW c \in Callers, ExchangeData(c)
      PROVE  mem' = mem /\ last' = last
  BY <1>3, DataMem DEF ExchangeData
<1>4. ASSUME NEW p \in Accessed, AppRead(p)
      PROVE  App!Read(p)
  <2>1. p \in Pages /\ pte[p].folio \in Folios /\ Holds(pte[p].folio, p)
    BY <1>4, AccessFound DEF AppRead
  <2>2. mem[p] = data[pte[p].folio]
    BY <2>1 DEF MemExact
  <2>3. UNCHANGED <<owner, data, pc, old, new>>
    BY <1>4 DEF AppRead
  <2>4. mem' = mem
    <3>1. ASSUME NEW q \in Pages PROVE mem'[q] = mem[q]
      <4>1. PICK f \in Folios : Holds(f, q)
        BY DEF MemExact
      <4>2. Holds(f, q)'
        BY <2>3, <4>1 DEF Holds, Settled
      <4> QED  BY <2>3, <4>1, <4>2, MemFollows
    <3> QED  BY <3>1 DEF MemExact
  <2> QED  BY <1>4, <2>2, <2>4 DEF AppRead, App!Read
<1>5. ASSUME NEW p \in Accessed, NEW v \in Values, AppWrite(p, v)
      PROVE  App!Write(p, v)
  <2>1. p \in Pages /\ pte[p].folio \in Folios /\ Holds(pte[p].folio, p)
    BY <1>5, AccessFound DEF AppWrite
  <2>2. UNCHANGED <<owner, pc, old, new>> /\ data' = [data EXCEPT ![pte[p].folio] = v]
    BY <1>5 DEF AppWrite
  <2>3. ASSUME NEW q \in Pages, NEW f \in Folios, Holds(f, q) PROVE Holds(f, q)'
    BY <2>2, <2>3 DEF Holds, Settled
  <2>4. mem'[p] = v
    BY <2>1, <2>2, <2>3 DEF MemExact, IInv, Types
  <2>5. ASSUME NEW q \in Pages, q # p PROVE mem'[q] = mem[q]
    <3>1. PICK f \in Folios : Holds(f, q)
      BY DEF MemExact
    <3>2. f # pte[p].folio
      BY <2>1, <2>5, <3>1, HoldsOnce
    <3> QED  BY <2>1, <2>2, <2>3, <3>1, <3>2, MemFollows DEF IInv, Types
  <2>6. mem' = [mem EXCEPT ![p] = v]
    BY <2>1, <2>4, <2>5 DEF MemExact
  <2> QED  BY <1>5, <2>6 DEF AppWrite, App!Write
<1> QED  BY <1>1, <1>2, <1>3, <1>4, <1>5, StepKinds DEF App!MemNext

(* An exchange of folios is invisible to the application: every behaviour  *)
(* of the callers, the application and the holders of references, also     *)
(* with page cache folios, file systems that refuse and retries, is one of *)
(* AppMemory, in which only the application's own writes change a page.    *)
THEOREM ExchangeTransparent == (Spec => Transparent) /\ (FileSpec => Transparent)
<1>1. Init => App!MemInit
  <2>1. Init => IInv /\ MemExact
    BY InitKeeps, MemFound
  <2>2. IInv /\ MemExact => App!MemInit
    BY DEF IInv, Types, MemExact, App!MemInit
  <2> QED  BY <2>1, <2>2
<1>2. IInv => MemExact
  BY MemFound
<1>3. IInv /\ MemExact /\ MemExact' /\ [FileNext]_vars => [App!MemNext]_<<mem, last>>
  BY StepImplements
<1>4. Init /\ [][FileNext]_vars => Transparent
  BY <1>1, <1>2, <1>3, Invariant, PTL DEF Transparent, App!MemSpec, App!memVars
<1> QED  BY <1>4, SpecSteps, PTL

-----------------------------------------------------------------------------
(* Reference counts.                                                       *)

(* How many elements of S the function x maps to v.                        *)
Num(S, x, v) == Cardinality({d \in S : x[d] = v})

(* Such a number follows a change of the function at one element.          *)
LEMMA NumUpdate ==
  ASSUME NEW S, IsFiniteSet(S), NEW x, NEW y, NEW v, NEW e \in S,
         \A d \in S \ {e} : y[d] = x[d]
  PROVE  /\ Num(S, x, v) \in Nat /\ Num(S, y, v) \in Nat
         /\ Num(S, y, v) = Num(S, x, v) + (IF y[e] = v THEN 1 ELSE 0)
                                         - (IF x[e] = v THEN 1 ELSE 0)
<1> DEFINE A == {d \in S \ {e} : x[d] = v}
           X == {d \in S : x[d] = v}
           Y == {d \in S : y[d] = v}
<1>1. IsFiniteSet(A) /\ e \notin A
  BY FS_Subset
<1>2. Cardinality(A) \in Nat /\ Cardinality(A \cup {e}) = Cardinality(A) + 1
  BY <1>1, FS_AddElement, FS_CardinalityType
<1>3. X = IF x[e] = v THEN A \cup {e} ELSE A
  OBVIOUS
<1>4. Y = IF y[e] = v THEN A \cup {e} ELSE A
  OBVIOUS
<1>5. Num(S, x, v) = Cardinality(X) /\ Num(S, y, v) = Cardinality(Y)
  BY DEF Num
<1> HIDE DEF A, X, Y
<1> QED  BY <1>2, <1>3, <1>4, <1>5

(* And it is a number.                                                     *)
LEMMA NumType ==
  ASSUME NEW S, IsFiniteSet(S), NEW x, NEW v
  PROVE  Num(S, x, v) \in Nat
<1>1. IsFiniteSet({d \in S : x[d] = v})
  BY FS_Subset
<1> QED  BY <1>1, FS_CardinalityType DEF Num

(* The sets the references are counted over are finite.                    *)
LEMMA Finite == IsFiniteSet(Pages) /\ IsFiniteSet(Holders) /\ IsFiniteSet(Callers)
BY ExchangeAssumption, FS_Union DEF Callers

(* ReferencesExact in these terms.                                         *)
Refs(f) ==
  Num(Pages, pte, Present(f)) + (IF owner[f] \in FilePages THEN 1 ELSE 0)
    + Num(Holders, held, f) + Num(Callers, old, f) + Num(Callers, new, f)
RefsExact == \A f \in Folios : count[f] = Refs(f)

(* The count by Num and the count of the model agree.                      *)
LEMMA RefsAgree == RefsExact <=> ReferencesExact
<1>1. ASSUME NEW f \in Folios
      PROVE  Refs(f) = MapCount(f) + Cached(f) + HeldBy(f) + CallerRefs(f)
  <2>1. /\ Num(Pages, pte, Present(f)) = MapCount(f) /\ Num(Holders, held, f) = HeldBy(f)
        /\ CallerRefs(f) = Num(Callers, old, f) + Num(Callers, new, f)
    BY DEF Num, MapCount, HeldBy, CallerRefs
  <2>2. /\ Num(Pages, pte, Present(f)) \in Nat /\ Num(Holders, held, f) \in Nat
        /\ Num(Callers, old, f) \in Nat /\ Num(Callers, new, f) \in Nat
    BY Finite, NumType
  <2> QED  BY <2>1, <2>2 DEF Refs, Cached, Anon
<1> QED  BY <1>1 DEF RefsExact, ReferencesExact

(* folio_ref_freeze() finds the expected count in both page cache folios   *)
(* of an exchange.  The code asks for this inside an assertion that the    *)
(* build leaves out.                                                       *)
FreezeSucceeds ==
  \A c \in Callers : pc[c] = "mapping" =>
    \A f \in {old[c], new[c]} : Anon(f) \/ count[f] = ExpectedRefs(f)

(* Steps that touch no reference.                                          *)
LEMMA NoRefs ==
  ASSUME RefsExact, UNCHANGED <<pte, owner, count, held, old, new>>
  PROVE  RefsExact'
BY DEF RefsExact, Refs

(* Other holders of references come and go.                                *)
LEMMA HolderRefs ==
  ASSUME IInv, RefsExact, NEW h \in Holders,
         \/ \E f \in Folios : TakeReference(h, f) \/ LookupReference(h, f)
         \/ DropReference(h)
  PROVE  RefsExact'
<1>1. UNCHANGED <<pte, owner, old, new>>
  BY DEF TakeReference, LookupReference, DropReference
<1>2. ASSUME NEW f \in Folios
      PROVE  Num(Holders, held', f) = Num(Holders, held, f)
               + (IF held'[h] = f THEN 1 ELSE 0) - (IF held[h] = f THEN 1 ELSE 0)
  <2>1. \A d \in Holders \ {h} : held'[d] = held[d]
    BY DEF IInv, Types, TakeReference, LookupReference, DropReference
  <2> QED  BY <2>1, Finite, NumUpdate
<1>3. \A f \in Folios :
        count'[f] = count[f] + (IF held'[h] = f THEN 1 ELSE 0)
                             - (IF held[h] = f THEN 1 ELSE 0)
  BY DEF IInv, Types, TakeReference, LookupReference, DropReference
<1>4. ASSUME NEW f \in Folios
      PROVE  /\ Num(Pages, pte, Present(f)) \in Nat /\ Num(Holders, held, f) \in Nat
             /\ Num(Callers, old, f) \in Nat /\ Num(Callers, new, f) \in Nat
  BY Finite, NumType
<1> QED
  <2> SUFFICES ASSUME NEW f \in Folios PROVE count'[f] = Refs(f)'
    BY DEF RefsExact
  <2>1. count[f] = Refs(f)
    BY DEF RefsExact
  <2> QED  BY <1>1, <1>2, <1>3, <1>4, <2>1 DEF Refs

(* A caller finds or leaves its folios.                                    *)
LEMMA CallerArgs ==
  ASSUME IInv, RefsExact, NEW c \in Callers,
         \/ \E f, g \in Folios : Manage(c, f, g)
         \/ \E p \in Pages : ResolveSrc(c, p) \/ ResolveDst(c, p)
         \/ Return(c)
  PROVE  RefsExact'
<1>1. UNCHANGED <<pte, owner, held>>
  BY DEF Manage, ResolveSrc, ResolveDst, Return
<1>2. \A d \in Callers \ {c} : old'[d] = old[d] /\ new'[d] = new[d]
  BY DEF IInv, Types, Manage, ResolveSrc, ResolveDst, Return
<1>3. ASSUME NEW f \in Folios
      PROVE  /\ Num(Callers, old', f) = Num(Callers, old, f)
                  + (IF old'[c] = f THEN 1 ELSE 0) - (IF old[c] = f THEN 1 ELSE 0)
             /\ Num(Callers, new', f) = Num(Callers, new, f)
                  + (IF new'[c] = f THEN 1 ELSE 0) - (IF new[c] = f THEN 1 ELSE 0)
  BY <1>2, Finite, NumUpdate
<1>4. ASSUME NEW f \in Folios
      PROVE  count'[f] = count[f] + (IF old'[c] = f THEN 1 ELSE 0)
                                  - (IF old[c] = f THEN 1 ELSE 0)
                                  + (IF new'[c] = f THEN 1 ELSE 0)
                                  - (IF new[c] = f THEN 1 ELSE 0)
  <2>1. CASE \E g, k \in Folios : Manage(c, g, k)
    BY <2>1 DEF IInv, Types, Args, Manage
  <2>2. CASE \E p \in Pages : ResolveSrc(c, p)
    BY <2>2 DEF IInv, Types, Args, Entries, ResolveSrc
  <2>3. CASE \E p \in Pages : ResolveDst(c, p)
    BY <2>3 DEF IInv, Types, Args, Entries, ResolveDst
  <2>4. CASE Return(c)
    BY <2>4 DEF IInv, Types, Args, Return
  <2> QED  BY <2>1, <2>2, <2>3, <2>4
<1>5. ASSUME NEW f \in Folios
      PROVE  /\ Num(Pages, pte, Present(f)) \in Nat /\ Num(Holders, held, f) \in Nat
             /\ Num(Callers, old, f) \in Nat /\ Num(Callers, new, f) \in Nat
  BY Finite, NumType
<1>6. \A f \in Folios : count[f] \in Int
  BY DEF IInv, Types
<1> QED
  <2> SUFFICES ASSUME NEW f \in Folios PROVE count'[f] = Refs(f)'
    BY DEF RefsExact
  <2>1. count[f] = Refs(f)
    BY DEF RefsExact
  <2> QED  BY <1>1, <1>3, <1>4, <1>5, <1>6, <2>1 DEF Refs

(* A PTE and its reference come and go together.                           *)
LEMMA EntryRefs ==
  ASSUME IInv, RefsExact, NEW c \in Callers,
         \/ UnmapOld(c) \/ UnmapNew(c) \/ RemapOld(c) \/ RemapNew(c)
         \/ WriteoutOld(c) \/ WriteoutNew(c)
  PROVE  RefsExact'
<1>1. UNCHANGED <<owner, held, old, new>>
  BY DEF UnmapOld, UnmapNew, UnmapFolio, RemapOld, RemapNew, RemapFolio,
         WriteoutOld, WriteoutNew, Writeout
<1>2. CASE UNCHANGED <<pte, count>>
  BY <1>1, <1>2, NoRefs
<1>3. ASSUME NEW p \in Pages, \A q \in Pages \ {p} : pte'[q] = pte[q],
             \A f \in Folios :
               count'[f] = count[f] + (IF pte'[p] = Present(f) THEN 1 ELSE 0)
                                    - (IF pte[p] = Present(f) THEN 1 ELSE 0)
      PROVE  RefsExact'
  <2>1. ASSUME NEW f \in Folios
        PROVE  Num(Pages, pte', Present(f)) = Num(Pages, pte, Present(f))
                 + (IF pte'[p] = Present(f) THEN 1 ELSE 0)
                 - (IF pte[p] = Present(f) THEN 1 ELSE 0)
    BY <1>3, Finite, NumUpdate
  <2>2. ASSUME NEW f \in Folios
        PROVE  /\ Num(Pages, pte, Present(f)) \in Nat /\ Num(Holders, held, f) \in Nat
               /\ Num(Callers, old, f) \in Nat /\ Num(Callers, new, f) \in Nat
    BY Finite, NumType
  <2> QED
    <3> SUFFICES ASSUME NEW f \in Folios PROVE count'[f] = Refs(f)'
      BY DEF RefsExact
    <3>1. count[f] = Refs(f)
      BY DEF RefsExact
    <3> QED  BY <1>1, <1>3, <2>1, <2>2, <3>1 DEF Refs
<1>4. ASSUME NEW f \in Folios, MapCount(f) > 0,
             pte' = [pte EXCEPT ![owner[f]] = Migration(f)], AddRefs({f}, -1)
      PROVE  RefsExact'
  <2>1. owner[f] \in Pages /\ pte[owner[f]] = Present(f)
    BY <1>4, MapCountPositive DEF IInv, Types, Mapped
  <2>2. pte'[owner[f]] = Migration(f) /\ \A q \in Pages \ {owner[f]} : pte'[q] = pte[q]
    BY <1>4, <2>1 DEF IInv, Types
  <2>3. \A g \in Folios : count'[g] = IF g = f THEN count[g] - 1 ELSE count[g]
    BY <1>4 DEF IInv, Types
  <2>4. \A g \in Folios : Present(g) = Present(f) => g = f
    OBVIOUS
  <2>5. \A g \in Folios : Migration(f) # Present(g)
    OBVIOUS
  <2>6. \A g \in Folios :
          count'[g] = count[g] + (IF pte'[owner[f]] = Present(g) THEN 1 ELSE 0)
                               - (IF pte[owner[f]] = Present(g) THEN 1 ELSE 0)
    <3>1. \A g \in Folios : count[g] \in Int
      BY DEF IInv, Types
    <3>2. \A g \in Folios : pte'[owner[f]] # Present(g)
      BY <2>2, <2>5
    <3>3. \A g \in Folios : pte[owner[f]] = Present(g) <=> g = f
      BY <2>1, <2>4
    <3> HIDE DEF Present, Migration
    <3> QED  BY <2>3, <3>1, <3>2, <3>3
  <2> QED  BY <1>3, <2>1, <2>2, <2>6
<1>5. ASSUME NEW f \in Folios, NEW g \in Folios, pte[owner[f]] = Migration(g),
             pte' = [pte EXCEPT ![owner[f]] = Present(f)], AddRefs({f}, 1)
      PROVE  RefsExact'
  <2>1. owner[f] \in Pages
    BY DEF IInv, Types
  <2>2. pte'[owner[f]] = Present(f) /\ \A q \in Pages \ {owner[f]} : pte'[q] = pte[q]
    BY <1>5, <2>1 DEF IInv, Types
  <2>3. \A k \in Folios : count'[k] = IF k = f THEN count[k] + 1 ELSE count[k]
    BY <1>5 DEF IInv, Types
  <2>4. \A k \in Folios : Present(k) = Present(f) => k = f
    OBVIOUS
  <2>5. \A k \in Folios : Migration(g) # Present(k)
    OBVIOUS
  <2>6. \A k \in Folios :
          count'[k] = count[k] + (IF pte'[owner[f]] = Present(k) THEN 1 ELSE 0)
                               - (IF pte[owner[f]] = Present(k) THEN 1 ELSE 0)
    <3>1. \A k \in Folios : count[k] \in Int
      BY DEF IInv, Types
    <3>2. \A k \in Folios : pte[owner[f]] # Present(k)
      BY <1>5, <2>5
    <3>3. \A k \in Folios : pte'[owner[f]] = Present(k) <=> k = f
      BY <2>2, <2>4
    <3> HIDE DEF Present, Migration
    <3> QED  BY <2>3, <3>1, <3>2, <3>3
  <2> QED  BY <1>3, <2>1, <2>2, <2>6
<1>6. old[c] \in Folios /\ new[c] \in Folios
  BY DEF IInv, Types, Args, UnmapOld, UnmapNew, RemapOld, RemapNew,
         WriteoutOld, WriteoutNew, Writeout
<1>7. CASE UnmapOld(c) \/ UnmapNew(c)
  BY <1>2, <1>4, <1>6, <1>7 DEF UnmapOld, UnmapNew, UnmapFolio
<1>8. CASE RemapOld(c) \/ RemapNew(c)
  BY <1>2, <1>5, <1>6, <1>8 DEF RemapOld, RemapNew, RemapFolio
<1>9. CASE WriteoutOld(c) \/ WriteoutNew(c)
  BY <1>2, <1>5, <1>6, <1>9 DEF WriteoutOld, WriteoutNew, Writeout
<1> QED  BY <1>7, <1>8, <1>9

(* The exchange of the mappings moves the reference of the page cache, if  *)
(* the counts it overwrites are the expected ones.                         *)
LEMMA MappingRefs ==
  ASSUME IInv, RefsExact, FreezeSucceeds, NEW c \in Callers, ExchangeMapping(c)
  PROVE  RefsExact'
<1>1. UNCHANGED <<pte, held, old, new>>
  BY DEF ExchangeMapping
<1>2. /\ old[c] \in Folios /\ new[c] \in Folios /\ old[c] # new[c]
      /\ pc[c] = "mapping"
  BY DEF IInv, Types, Args, Locks, ExchangeMapping
<1>3. /\ owner'[old[c]] = owner[new[c]] /\ owner'[new[c]] = owner[old[c]]
      /\ count'[old[c]] = ExchangedCount(old[c], new[c])
      /\ count'[new[c]] = ExchangedCount(new[c], old[c])
      /\ \A f \in Folios \ {old[c], new[c]} : owner'[f] = owner[f] /\ count'[f] = count[f]
  BY <1>2 DEF IInv, Types, ExchangeMapping
<1>4. /\ Anon(old[c]) \/ count[old[c]] = ExpectedRefs(old[c])
      /\ Anon(new[c]) \/ count[new[c]] = ExpectedRefs(new[c])
  BY <1>2 DEF FreezeSucceeds
<1>5. ASSUME NEW f \in Folios
      PROVE  count[f] \in Int /\ count'[f] = count[f]
               + (IF owner'[f] \in FilePages THEN 1 ELSE 0)
               - (IF owner[f] \in FilePages THEN 1 ELSE 0)
  <2>1. count[f] \in Int
    BY DEF IInv, Types
  <2>2. CASE f = old[c]
    BY <1>3, <1>4, <2>1, <2>2 DEF ExchangedCount, ExpectedRefs, Anon
  <2>3. CASE f = new[c]
    BY <1>3, <1>4, <2>1, <2>3 DEF ExchangedCount, ExpectedRefs, Anon
  <2>4. CASE f # old[c] /\ f # new[c]
    BY <1>3, <2>1, <2>4
  <2> QED  BY <2>2, <2>3, <2>4
<1>6. ASSUME NEW f \in Folios
      PROVE  /\ Num(Pages, pte, Present(f)) \in Nat /\ Num(Holders, held, f) \in Nat
             /\ Num(Callers, old, f) \in Nat /\ Num(Callers, new, f) \in Nat
  BY Finite, NumType
<1> QED
  <2> SUFFICES ASSUME NEW f \in Folios PROVE count'[f] = Refs(f)'
    BY DEF RefsExact
  <2>1. count[f] = Refs(f)
    BY DEF RefsExact
  <2> QED  BY <1>1, <1>5, <1>6, <2>1 DEF Refs

(* At first the PTEs and the page cache have the only references.          *)
LEMMA InitRefs == Init => RefsExact
<1> SUFFICES ASSUME Init, NEW f \in Folios PROVE count[f] = Refs(f)
  BY DEF RefsExact
<1>1. count[f] = MapCount(f) + ExpectedRefs(f) - 1
  BY Zenon DEF Init
<1>2. Num(Pages, pte, Present(f)) = MapCount(f) /\ MapCount(f) \in Nat
  BY MapCountPositive DEF Num, MapCount
<1>3. ASSUME NEW S, NEW x, \A d \in S : x[d] = None
      PROVE  Num(S, x, f) = 0
  <2>1. {d \in S : x[d] = f} = {}
    BY <1>3
  <2> QED  BY <2>1, FS_EmptySet DEF Num
<1>4. /\ \A h \in Holders : held[h] = None
      /\ \A c \in Callers : old[c] = None /\ new[c] = None
  BY DEF Init
<1>5. /\ Num(Holders, held, f) = 0
      /\ Num(Callers, old, f) = 0 /\ Num(Callers, new, f) = 0
  BY <1>3, <1>4
<1> QED  BY <1>1, <1>2, <1>5 DEF Refs, ExpectedRefs, Anon

(* No step breaks the counts as long as the freeze would have succeeded.   *)
LEMMA NextRefs ==
  ASSUME IInv, RefsExact, FreezeSucceeds, [FileNext]_vars
  PROVE  RefsExact'
<1>1. CASE UNCHANGED vars
  BY <1>1, NoRefs DEF vars
<1>2. ASSUME NEW p \in Accessed, AppRead(p) \/ \E v \in Values : AppWrite(p, v)
      PROVE  RefsExact'
  BY <1>2, NoRefs DEF AppRead, AppWrite
<1>3. ASSUME NEW h \in Holders,
             \/ \E f \in Folios : TakeReference(h, f) \/ LookupReference(h, f)
             \/ DropReference(h)
      PROVE  RefsExact'
  BY <1>3, HolderRefs
<1>4. ASSUME NEW c \in Callers,
             \/ \E f, g \in Folios : Manage(c, f, g)
             \/ \E p \in Pages : ResolveSrc(c, p)
      PROVE  RefsExact'
  BY <1>4, CallerArgs
<1>5. ASSUME NEW c \in Callers, FileStep(c)
      PROVE  RefsExact'
  <2>1. CASE (\E p \in Pages : ResolveDst(c, p)) \/ Return(c)
    BY <2>1, CallerArgs
  <2>2. CASE IsolateOld(c) \/ IsolateNew(c) \/ LockOld(c) \/ LockNew(c)
             \/ CheckOld(c) \/ CheckNew(c) \/ RelockOld(c) \/ RelockNew(c)
    BY <2>2, NoRefs DEF IsolateOld, IsolateNew, LockOld, LockNew, LockFolio,
                        CheckOld, CheckNew, CheckFolio, RelockOld, RelockNew
  <2>3. CASE UnmapOld(c) \/ UnmapNew(c) \/ RemapOld(c) \/ RemapNew(c)
             \/ WriteoutOld(c) \/ WriteoutNew(c)
    BY <2>3, EntryRefs
  <2>4. CASE ExchangeMapping(c)
    BY <2>4, MappingRefs
  <2>5. CASE PrepareFails(c) \/ ExchangeData(c) \/ Unlock(c) \/ Putback(c) \/ Retry(c)
    BY <2>5, NoRefs DEF PrepareFails, ExchangeData, Unlock, Putback, Retry
  <2> QED  BY <1>5, <2>1, <2>2, <2>3, <2>4, <2>5, CallerSteps
<1> QED
  BY <1>1, <1>2, <1>3, <1>4, <1>5 DEF FileNext, Next, FileStep

(* Exact counts are natural numbers, so the types hold.                    *)
LEMMA RefsType == IInv /\ RefsExact => TypeOK
<1> SUFFICES ASSUME IInv, RefsExact PROVE TypeOK
  OBVIOUS
<1>1. ASSUME NEW f \in Folios PROVE count[f] \in Nat
  <2>1. /\ Num(Pages, pte, Present(f)) \in Nat /\ Num(Holders, held, f) \in Nat
        /\ Num(Callers, old, f) \in Nat /\ Num(Callers, new, f) \in Nat
    BY Finite, NumType
  <2> QED  BY <2>1 DEF RefsExact, Refs
<1>2. count \in [Folios -> Nat]
  BY <1>1 DEF IInv, Types
<1> QED  BY <1>2 DEF IInv, Types, TypeOK

(* The counts stay exact through every behaviour with a freeze that        *)
(* succeeds.                                                               *)
LEMMA RefsInvariant ==
  Init /\ [][FileNext]_vars /\ []FreezeSucceeds => []RefsExact
<1>1. Init => RefsExact  BY InitRefs
<1>2. IInv /\ RefsExact /\ FreezeSucceeds /\ [FileNext]_vars => RefsExact'
  BY NextRefs
<1> QED  BY <1>1, <1>2, Invariant, PTL

(* Exchanges of any folios, with file systems that refuse, write, retry,   *)
(* keep every reference count exact in each behaviour in which             *)
(* folio_ref_freeze() would have succeeded: the assertion that the build   *)
(* leaves out is all that is missing.                                      *)
THEOREM FreezeSuffices == FileSpec /\ []FreezeSucceeds => []ReferencesExact
<1>1. RefsExact => ReferencesExact  BY RefsAgree
<1> QED  BY <1>1, RefsInvariant, SpecSteps, PTL

(* Exchanges of anonymous folios, the only ones the migration worker asks  *)
(* for, keep every reference count exact: no error path leaks a reference  *)
(* and none is dropped twice.                                              *)
THEOREM ReferencesHold ==
  ASSUME FilePages = {}
  PROVE  Spec => []ReferencesExact
<1>1. FreezeSucceeds  BY DEF FreezeSucceeds, Anon
<1>2. RefsExact => ReferencesExact  BY RefsAgree
<1> QED  BY <1>1, <1>2, RefsInvariant, SpecSteps, PTL

(* Every variable of an exchange of anonymous folios stays in its type; in *)
(* particular no reference count falls below zero.                         *)
THEOREM TypeCorrect ==
  ASSUME FilePages = {}
  PROVE  Spec => []TypeOK
<1>1. FreezeSucceeds  BY DEF FreezeSucceeds, Anon
<1>2. IInv /\ RefsExact => TypeOK  BY RefsType
<1> QED  BY <1>1, <1>2, RefsInvariant, Invariant, SpecSteps, PTL

=============================================================================
