---------------------------- MODULE FolioExchange ----------------------------
(***************************************************************************)
(* mm/exchange.c: swapping the contents and the mappings of two folios     *)
(* while the application keeps running.                                    *)
(*                                                                         *)
(* A caller enters either through folio_exchange_isolated(), with two      *)
(* anonymous folios the migration worker keeps off the LRU (Workers), or   *)
(* through the exchange_folios system call, which resolves two addresses,  *)
(* isolates the folios itself and retries (Syscalls).  Both then lock the  *)
(* folios, check their references, replace their PTEs by migration         *)
(* entries, swap mapping and data, and turn the entries back into PTEs.    *)
(*                                                                         *)
(* One virtual page maps one folio.  owner[f] stands for folio->mapping    *)
(* and folio->index: it is where the reverse map of f leads.  A page in    *)
(* FilePages has an address_space, and its folio is in the page cache.     *)
(* Folio flags, node statistics, buffer heads and cgroup data are not      *)
(* part of the model.                                                      *)
(***************************************************************************)
EXTENDS Integers, FiniteSets

CONSTANTS Pages, FilePages, Folios, Values,
          Accessed,    \* the pages the application accesses
          Workers, Syscalls, None,
          Holders,     \* others that may hold a reference on a folio
          InitHome,    \* InitHome[p]: the folio that holds page p at first
          InitData,    \* InitData[p]: the content of page p at first
          MaxTrials    \* folio_exchange() attempts of one system call

ASSUME ExchangeAssumption ==
    /\ FilePages \subseteq Pages /\ Accessed \subseteq Pages
    /\ None \notin Folios \cup Workers \cup Syscalls
    /\ Workers \cap Syscalls = {}
    /\ IsFiniteSet(Pages) /\ IsFiniteSet(Holders)
    /\ IsFiniteSet(Workers) /\ IsFiniteSet(Syscalls)
    /\ MaxTrials \in Nat \ {0}
    /\ InitHome \in [Pages -> Folios] /\ InitData \in [Pages -> Values]
    /\ \A p, q \in Pages : InitHome[p] = InitHome[q] => p = q
    /\ \A f \in Folios : \E p \in Pages : InitHome[p] = f

Callers == Workers \cup Syscalls

VARIABLES
    pte,     \* pte[p]: a present PTE or a migration entry, and its folio
    owner,   \* owner[f]: the page folio f belongs to (mapping and index)
    data,    \* data[f]: the content of folio f
    count,   \* count[f]: the reference count of f
    held,    \* held[h]: the folio holder h has a reference on
    lock,    \* lock[f]: the caller that holds the folio lock
    pc, old, new,   \* the step and the two arguments of a caller
    iso,     \* iso[c]: the folios c has isolated from the LRU
    unm,     \* unm[c]: the folios c has unmapped (folio_unmapped.src)
    err,     \* err[c]: the result of the exchange
    trial,   \* trial[c]: the attempt of the system call
    last     \* the page and the value of the application's last access

vars == <<pte, owner, data, count, held, lock, pc, old, new, iso, unm,
          err, trial, last>>
callVars == <<pc, old, new, iso, unm, err, trial>>

Steps == {"idle", "resolve", "isolate_old", "isolate_new", "lock_old",
          "lock_new", "check_old", "check_new", "unmap_old", "unmap_new",
          "mapping", "data", "relock_old", "relock_new", "remap_new",
          "remap_old", "unlock", "putback", "return"}
Results == {"ok", "ENOENT", "ENOTSUPP", "EAGAIN", "EINVAL", "EIO"}

Present(f) == [kind |-> "present", folio |-> f]
Migration(f) == [kind |-> "migration", folio |-> f]
Entries == {Present(f) : f \in Folios} \cup {Migration(f) : f \in Folios}

(* folio_test_anon(), folio_mapped(), folio_mapcount(), PG_lru *)
Anon(f) == owner[f] \notin FilePages
MapCount(f) == Cardinality({p \in Pages : pte[p] = Present(f)})
OnLru(f) == \A c \in Callers : f \notin iso[c]

(* folio_expected_refs(): one for the caller, one for the page cache. *)
ExpectedRefs(f) == IF Anon(f) THEN 1 ELSE 2

Init ==
    /\ pte = [p \in Pages |-> Present(InitHome[p])]
    /\ owner = [f \in Folios |-> CHOOSE p \in Pages : InitHome[p] = f]
    /\ data = [f \in Folios |-> InitData[owner[f]]]
    /\ count = [f \in Folios |-> MapCount(f) + ExpectedRefs(f) - 1]
    /\ held = [h \in Holders |-> None]
    /\ lock = [f \in Folios |-> None]
    /\ pc = [c \in Callers |-> "idle"]
    /\ old = [c \in Callers |-> None]
    /\ new = [c \in Callers |-> None]
    /\ iso = [c \in Callers |-> {}]
    /\ unm = [c \in Callers |-> {}]
    /\ err = [c \in Callers |-> "ok"]
    /\ trial = [c \in Callers |-> 0]
    /\ last \in {<<p, InitData[p]>> : p \in Accessed}

Goto(c, s) == pc' = [pc EXCEPT ![c] = s]
Fail(c, e, s) == err' = [err EXCEPT ![c] = e] /\ Goto(c, s)
AddRefs(fs, n) == count' = [f \in Folios |->
                               IF f \in fs THEN count[f] + n ELSE count[f]]

-----------------------------------------------------------------------------
(* The application reads and writes through present PTEs; a fault on a     *)
(* migration entry waits (external: mm/memory.c).                          *)
AppRead(p) ==
    /\ pte[p].kind = "present"
    /\ last' = <<p, data[pte[p].folio]>>
    /\ UNCHANGED <<pte, owner, data, count, held, lock, callVars>>

AppWrite(p, v) ==
    /\ pte[p].kind = "present"
    /\ data' = [data EXCEPT ![pte[p].folio] = v]
    /\ last' = <<p, v>>
    /\ UNCHANGED <<pte, owner, count, held, lock, callVars>>

(* Anyone may take a reference on a mapped folio without its lock, as      *)
(* follow_page() does (external).  A holder counts, but does not read or   *)
(* write the folio: direct I/O into pages pinned after the check of the    *)
(* references is not part of the model.                                    *)
TakeReference(h, f) ==
    /\ held[h] = None
    /\ MapCount(f) > 0
    /\ held' = [held EXCEPT ![h] = f]
    /\ AddRefs({f}, 1)
    /\ UNCHANGED <<pte, owner, data, lock, callVars, last>>

DropReference(h) ==
    /\ held[h] # None
    /\ held' = [held EXCEPT ![h] = None]
    /\ AddRefs({held[h]}, -1)
    /\ UNCHANGED <<pte, owner, data, lock, callVars, last>>

-----------------------------------------------------------------------------
(* The migration worker has two anonymous folios on its lists; managing a  *)
(* folio isolates it and keeps the reference of the isolation.             *)
Manage(c, f, g) ==
    /\ c \in Workers /\ pc[c] = "idle"
    /\ f # g /\ OnLru(f) /\ OnLru(g) /\ Anon(f) /\ Anon(g)
    /\ iso' = [iso EXCEPT ![c] = {f, g}]
    /\ AddRefs({f, g}, 1)
    /\ old' = [old EXCEPT ![c] = f]
    /\ new' = [new EXCEPT ![c] = g]
    /\ Goto(c, "lock_old")
    /\ UNCHANGED <<pte, owner, data, held, lock, unm, err, trial, last>>

(* resolve_folio() of the source address: it takes a reference. *)
ResolveSrc(c, p) ==
    /\ c \in Syscalls /\ pc[c] = "idle"
    /\ pte[p].kind = "present"
    /\ old' = [old EXCEPT ![c] = pte[p].folio]
    /\ AddRefs({pte[p].folio}, 1)
    /\ Goto(c, "resolve")
    /\ UNCHANGED <<pte, owner, data, held, lock, new, iso, unm, err, trial,
                   last>>

(* Faulty: a failure leaves without the reference of the source.           *)
ResolveDstLeaks(c, p) ==
    /\ pc[c] = "resolve"
    /\ \/ /\ pte[p].kind = "present"
          /\ new' = [new EXCEPT ![c] = pte[p].folio]
          /\ AddRefs({pte[p].folio}, 1)
          /\ trial' = [trial EXCEPT ![c] = 1]
          /\ Goto(c, "isolate_old")
          /\ UNCHANGED old
       \/ /\ pte[p].kind = "migration"
          /\ old' = [old EXCEPT ![c] = None]
          /\ Goto(c, "idle")
          /\ UNCHANGED <<count, new, trial>>
    /\ UNCHANGED <<pte, owner, data, held, lock, iso, unm, err, last>>

(* resolve_folio() of the destination; a failure drops the source again. *)
ResolveDst(c, p) ==
    /\ pc[c] = "resolve"
    /\ \/ /\ pte[p].kind = "present"
          /\ new' = [new EXCEPT ![c] = pte[p].folio]
          /\ AddRefs({pte[p].folio}, 1)
          /\ trial' = [trial EXCEPT ![c] = 1]
          /\ Goto(c, "isolate_old")
          /\ UNCHANGED old
       \/ /\ pte[p].kind = "migration"
          /\ AddRefs({old[c]}, -1)
          /\ old' = [old EXCEPT ![c] = None]
          /\ Goto(c, "idle")
          /\ UNCHANGED <<new, trial>>
    /\ UNCHANGED <<pte, owner, data, held, lock, iso, unm, err, last>>

(* folio_exchange_isolate(): the reference of the isolation replaces the   *)
(* caller's, so the count does not change.                                 *)
IsolateOld(c) ==
    /\ pc[c] = "isolate_old"
    /\ IF OnLru(old[c])
         THEN /\ iso' = [iso EXCEPT ![c] = {old[c]}]
              /\ Goto(c, "isolate_new")
              /\ UNCHANGED err
         ELSE /\ Fail(c, "ENOENT", "return")
              /\ UNCHANGED iso
    /\ UNCHANGED <<pte, owner, data, count, held, lock, old, new, unm, trial,
                   last>>

(* The check after the second isolation looks at old_isolated again, so a  *)
(* folio that could not be isolated goes unnoticed.                        *)
IsolateNew(c) ==
    /\ pc[c] = "isolate_new"
    /\ iso' = IF OnLru(new[c]) THEN [iso EXCEPT ![c] = @ \cup {new[c]}]
                               ELSE iso
    /\ Goto(c, "lock_old")
    /\ UNCHANGED <<pte, owner, data, count, held, lock, old, new, unm, err,
                   trial, last>>

(* folio_exchange_lock() in MIGRATE_SYNC mode blocks. *)
LockFolio(c, f, next) ==
    /\ lock[f] = None
    /\ lock' = [lock EXCEPT ![f] = c]
    /\ Goto(c, next)
    /\ UNCHANGED <<pte, owner, data, count, held, old, new, iso, unm, err,
                   trial, last>>

LockOld(c) == pc[c] = "lock_old" /\ LockFolio(c, old[c], "lock_new")
LockNew(c) == pc[c] = "lock_new" /\ LockFolio(c, new[c], "check_old")

(* folio_exchange_supported(): a reference that the caller, the page cache *)
(* and the PTEs do not account for refuses the folio.  A folio may also be *)
(* refused for what the model leaves out (mlocked, unmovable, orphaned).   *)
Supported(f) ==
    /\ count[f] # 1
    /\ ExpectedRefs(f) + MapCount(f) = count[f]

CheckFolio(c, f, next) ==
    /\ \/ Supported(f) /\ Goto(c, next) /\ UNCHANGED err
       \/ Fail(c, "ENOTSUPP", "unlock")
    /\ UNCHANGED <<pte, owner, data, count, held, lock, old, new, iso, unm,
                   trial, last>>

CheckOld(c) == pc[c] = "check_old" /\ CheckFolio(c, old[c], "check_new")
CheckNew(c) == pc[c] = "check_new" /\ CheckFolio(c, new[c], "unmap_old")

(* folio_exchange_unmap(): try_to_migrate() replaces the PTE by a          *)
(* migration entry and drops the reference of the PTE.                     *)
UnmapFolio(c, f, next) ==
    /\ IF MapCount(f) > 0
         THEN /\ pte' = [pte EXCEPT ![owner[f]] = Migration(f)]
              /\ AddRefs({f}, -1)
              /\ unm' = [unm EXCEPT ![c] = @ \cup {f}]
         ELSE UNCHANGED <<pte, count, unm>>
    /\ Goto(c, next)
    /\ UNCHANGED <<owner, data, held, lock, old, new, iso, err, trial, last>>

UnmapOld(c) == pc[c] = "unmap_old" /\ UnmapFolio(c, old[c], "unmap_new")
(* Faulty: the second folio stays mapped while it is exchanged. *)
UnmapNewMissing(c) ==
    /\ pc[c] = "unmap_new"
    /\ Goto(c, "mapping")
    /\ UNCHANGED <<pte, owner, data, count, held, lock, old, new, iso, unm,
                   err, trial, last>>

UnmapNew(c) == pc[c] = "unmap_new" /\ UnmapFolio(c, new[c], "mapping")

(* folio_exchange_mapping(): mapping, index and page cache slots change    *)
(* owner.  The build has CONFIG_DEBUG_VM off, which removes the            *)
(* folio_ref_freeze() inside VM_BUG_ON_FOLIO(); folio_ref_unfreeze() then  *)
(* stores the expected count whatever the count was.                       *)
ExchangedCount(f, g) ==
    IF Anon(f) THEN count[f] + (IF Anon(g) THEN 0 ELSE 1)
               ELSE ExpectedRefs(f) - (IF Anon(g) THEN 1 ELSE 0)

ExchangeMapping(c) ==
    LET f == old[c]
        g == new[c]
    IN  /\ pc[c] = "mapping"
        /\ owner' = [owner EXCEPT ![f] = owner[g], ![g] = owner[f]]
        /\ count' = [count EXCEPT ![f] = ExchangedCount(f, g),
                                  ![g] = ExchangedCount(g, f)]
        /\ Goto(c, "data")
        /\ UNCHANGED <<pte, data, held, lock, old, new, iso, unm, err,
                       trial, last>>

(* folio_exchange_data() *)
ExchangeData(c) ==
    LET f == old[c]
        g == new[c]
    IN  /\ pc[c] = "data"
        /\ data' = [data EXCEPT ![f] = data[g], ![g] = data[f]]
        /\ Goto(c, "remap_new")
        /\ UNCHANGED <<pte, owner, count, held, lock, old, new, iso, unm,
                       err, trial, last>>

(* Faulty: dst is not set, so the reverse map of src is followed.          *)
RemapSource(c, src, dst, next) ==
    /\ IF src \in unm[c] /\ pte[owner[src]] = Migration(src)
         THEN /\ pte' = [pte EXCEPT ![owner[src]] = Present(src)]
              /\ AddRefs({src}, 1)
         ELSE UNCHANGED <<pte, count>>
    /\ unm' = [unm EXCEPT ![c] = @ \ {src}]
    /\ Goto(c, next)
    /\ UNCHANGED <<owner, data, held, lock, old, new, iso, err, trial, last>>

(* folio_exchange_remap(): remove_migration_ptes(src, dst) follows the     *)
(* reverse map of dst and restores the entries it finds there for src.     *)
(* Both dst fields are set on the error path as well.                      *)
RemapFolio(c, src, dst, next) ==
    /\ IF src \in unm[c] /\ pte[owner[dst]] = Migration(src)
         THEN /\ pte' = [pte EXCEPT ![owner[dst]] = Present(dst)]
              /\ AddRefs({dst}, 1)
         ELSE UNCHANGED <<pte, count>>
    /\ unm' = [unm EXCEPT ![c] = @ \ {src}]
    /\ Goto(c, next)
    /\ UNCHANGED <<owner, data, held, lock, old, new, iso, err, trial, last>>

RemapNew(c) ==
    pc[c] = "remap_new" /\ RemapFolio(c, new[c], old[c], "remap_old")
RemapOld(c) ==
    pc[c] = "remap_old" /\ RemapFolio(c, old[c], new[c], "unlock")

(* Faulty: only the first folio is unlocked. *)
UnlockOld(c) ==
    /\ pc[c] = "unlock"
    /\ lock' = [lock EXCEPT ![old[c]] = None]
    /\ Goto(c, IF c \in Workers THEN "return" ELSE "putback")
    /\ UNCHANGED <<pte, owner, data, count, held, old, new, iso, unm, err,
                   trial, last>>

(* The guards of the two locks, new before old. *)
Unlock(c) ==
    /\ pc[c] = "unlock"
    /\ lock' = [f \in Folios |-> IF lock[f] = c THEN None ELSE lock[f]]
    /\ Goto(c, IF c \in Workers THEN "return" ELSE "putback")
    /\ UNCHANGED <<pte, owner, data, count, held, old, new, iso, unm, err,
                   trial, last>>

(* Faulty: folio_putback_lru(), which drops a reference as well. *)
PutbackPuts(c) ==
    /\ pc[c] = "putback"
    /\ iso' = [iso EXCEPT ![c] = {}]
    /\ AddRefs(iso[c], -1)
    /\ Goto(c, "return")
    /\ UNCHANGED <<pte, owner, data, held, lock, old, new, unm, err, trial,
                   last>>

(* folio_exchange_putback() *)
Putback(c) ==
    /\ pc[c] = "putback"
    /\ iso' = [iso EXCEPT ![c] = {}]
    /\ Goto(c, "return")
    /\ UNCHANGED <<pte, owner, data, count, held, lock, old, new, unm, err,
                   trial, last>>

(* The system call drops the references of resolve_folio(); the migration  *)
(* worker puts its folios back on the LRU with unmanage_folio().           *)
Return(c) ==
    /\ pc[c] = "return"
    /\ c \in Workers \/ err[c] # "EAGAIN" \/ trial[c] = MaxTrials
    /\ count' = [f \in Folios |-> count[f] - (IF f = old[c] THEN 1 ELSE 0)
                                          - (IF f = new[c] THEN 1 ELSE 0)]
    /\ iso' = [iso EXCEPT ![c] = {}]
    /\ old' = [old EXCEPT ![c] = None]
    /\ new' = [new EXCEPT ![c] = None]
    /\ err' = [err EXCEPT ![c] = "ok"]
    /\ trial' = [trial EXCEPT ![c] = 0]
    /\ Goto(c, "idle")
    /\ UNCHANGED <<pte, owner, data, held, lock, unm, last>>

-----------------------------------------------------------------------------
Step(c) ==
    \/ IsolateOld(c) \/ IsolateNew(c)
    \/ LockOld(c) \/ LockNew(c)
    \/ CheckOld(c) \/ CheckNew(c)
    \/ UnmapOld(c) \/ UnmapNew(c)
    \/ ExchangeMapping(c) \/ ExchangeData(c)
    \/ RemapNew(c) \/ RemapOld(c) \/ Unlock(c)
    \/ Putback(c) \/ Return(c)
    \/ \E p \in Pages : ResolveDst(c, p)

Next ==
    \/ \E p \in Accessed : AppRead(p) \/ \E v \in Values : AppWrite(p, v)
    \/ \E h \in Holders : \E f \in Folios : TakeReference(h, f)
    \/ \E h \in Holders : DropReference(h)
    \/ \E c \in Callers :
          \/ \E f, g \in Folios : Manage(c, f, g)
          \/ \E p \in Pages : ResolveSrc(c, p)
          \/ Step(c)

Spec == Init /\ [][Next]_vars

(* A caller that can run does.  Only the two lock steps can be disabled    *)
(* again by others, and folio_lock() hands the lock over to a waiter that  *)
(* has been passed over: strong fairness stands for that hand-over.        *)
FairSpec == Spec /\ \A c \in Callers : SF_vars(Step(c))

-----------------------------------------------------------------------------
(* Properties.                                                             *)

(* Every variable of the exchange stays in its type; in particular no      *)
(* reference count falls below zero.                                       *)
TypeOK ==
    /\ pte \in [Pages -> Entries]
    /\ owner \in [Folios -> Pages]
    /\ data \in [Folios -> Values]
    /\ count \in [Folios -> Nat]
    /\ held \in [Holders -> Folios \cup {None}]
    /\ lock \in [Folios -> Callers \cup {None}]
    /\ pc \in [Callers -> Steps]
    /\ old \in [Callers -> Folios \cup {None}]
    /\ new \in [Callers -> Folios \cup {None}]
    /\ iso \in [Callers -> SUBSET Folios]
    /\ unm \in [Callers -> SUBSET Folios]
    /\ err \in [Callers -> Results]
    /\ trial \in [Callers -> 0 .. MaxTrials]
    /\ last \in Accessed \X Values

(* The folio whose data is the content of page p: the one that belongs to  *)
(* p, or its partner while mapping and data of the pair disagree.          *)
Home(p) ==
    LET f == CHOOSE g \in Folios : owner[g] = p
    IN  IF \E c \in Callers : pc[c] = "data" /\ f = old[c]
          THEN new[CHOOSE c \in Callers : pc[c] = "data" /\ f = old[c]]
        ELSE IF \E c \in Callers : pc[c] = "data" /\ f = new[c]
          THEN old[CHOOSE c \in Callers : pc[c] = "data" /\ f = new[c]]
        ELSE f

(* The content of each page, wherever it is. *)
mem == [p \in Pages |-> data[Home(p)]]

App == INSTANCE AppMemory

(* The exchange implements AppMemory: while callers unmap, swap and remap  *)
(* its folios, an application reads through its PTEs from each page what   *)
(* it wrote there last, and no step of an exchange changes the content of  *)
(* a page.                                                                 *)
Transparent == App!MemSpec

(* The references of the callers, the other holders and the page cache. *)
CallerRefs(f) == Cardinality({c \in Callers : old[c] = f})
                  + Cardinality({c \in Callers : new[c] = f})
HeldBy(f) == Cardinality({h \in Holders : held[h] = f})
Cached(f) == IF Anon(f) THEN 0 ELSE 1

(* In every interleaving a folio has exactly the references of its PTEs,   *)
(* of the page cache, of the callers that resolved or isolated it and of   *)
(* other holders: none leaks on an error path, so no folio becomes         *)
(* unmovable, and none is dropped twice, so no folio is freed in use.      *)
ReferencesExact ==
    \A f \in Folios :
       count[f] = MapCount(f) + Cached(f) + HeldBy(f) + CallerRefs(f)

(* folio_exchange_isolated() returns to the migration worker although it   *)
(* waits for folio locks while a system call exchanges other folios.       *)
WorkerReturns ==
    \A c \in Workers : pc[c] # "idle" ~> pc[c] = "idle"

(* "Make sure we wake up those blocked on the migration entry": a thread   *)
(* that faults on a page in exchange is not blocked for ever, because the  *)
(* migration entry becomes a present PTE again.  This holds as long as all *)
(* folios are anonymous, where nothing fails between unmap and remap; it   *)
(* fails for page cache folios, whose move may fail.                       *)
EntriesResolve ==
    \A p \in Pages : pte[p].kind = "migration" ~> pte[p].kind = "present"

=============================================================================
