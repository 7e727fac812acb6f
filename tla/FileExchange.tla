---------------------------- MODULE FileExchange ----------------------------
(***************************************************************************)
(* Exchanges that involve page cache folios, which only the system call    *)
(* can ask for.  They add three behaviours to FolioExchange: the file      *)
(* system may refuse the move or write the folio instead, the system call  *)
(* then tries again, and a page cache lookup takes references without any  *)
(* PTE.                                                                    *)
(***************************************************************************)
EXTENDS FolioExchange

(* folio_exchange_move() when folio_exchange_fs_prepare() of one of the    *)
(* folios fails: nothing has been swapped.  -EAGAIN: its buffer heads are  *)
(* locked or referenced, its data cannot be released, or somebody else has *)
(* cleaned it before writeout().  -EINVAL: it cannot be written.  A folio  *)
(* without buffers, as in shmem, is not looked at again.  The code stops   *)
(* in BUG() for a file system it does not know; the model has only others. *)
PrepareFails(c) ==
    /\ pc[c] = "mapping"
    /\ ~Anon(old[c]) \/ ~Anon(new[c])
    /\ \E e \in {"EAGAIN", "EINVAL"} : Fail(c, e, "remap_new")
    /\ UNCHANGED <<pte, owner, data, count, held, lock, old, new, iso, unm,
                   trial, last>>

(* folio_exchange_fs_prepare() of a dirty folio that the file system can   *)
(* only write: writeout() (external) turns its own migration entries back, *)
(* and writes it, for which it usually unlocks the folio.  It fails always *)
(* and, unlike the other failures, with the folio mapped.                  *)
Writeout(c, f, relock) ==
    /\ pc[c] = "mapping" /\ ~Anon(f)
    /\ IF pte[owner[f]] = Migration(f)
         THEN /\ pte' = [pte EXCEPT ![owner[f]] = Present(f)]
              /\ AddRefs({f}, 1)
         ELSE UNCHANGED <<pte, count>>
    /\ \/ /\ lock' = [lock EXCEPT ![f] = None]
          /\ \E e \in {"EAGAIN", "EIO"} : Fail(c, e, relock)
       \/ UNCHANGED lock /\ Fail(c, "EAGAIN", "remap_new")
    /\ UNCHANGED <<owner, data, held, old, new, iso, unm, trial, last>>

WriteoutOld(c) == Writeout(c, old[c], "relock_old")
WriteoutNew(c) == Writeout(c, new[c], "relock_new")

(* writeout() locks the folio again.                                       *)
RelockOld(c) == pc[c] = "relock_old" /\ LockFolio(c, old[c], "remap_new")
RelockNew(c) == pc[c] = "relock_new" /\ LockFolio(c, new[c], "remap_new")

(* kernel_exchange_folios() tries again while the result is -EAGAIN, which *)
(* only folio_exchange_move() returns.                                     *)
Retry(c) ==
    /\ c \in Syscalls /\ pc[c] = "return"
    /\ err[c] = "EAGAIN" /\ trial[c] < MaxTrials
    /\ trial' = [trial EXCEPT ![c] = @ + 1]
    /\ err' = [err EXCEPT ![c] = "ok"]
    /\ Goto(c, "isolate_old")
    /\ UNCHANGED <<pte, owner, data, count, held, lock, old, new, iso, unm,
                   last>>

(* A page cache lookup, such as read(), takes a reference without the      *)
(* folio lock (external).                                                  *)
LookupReference(h, f) ==
    /\ held[h] = None /\ ~Anon(f)
    /\ held' = [held EXCEPT ![h] = f]
    /\ AddRefs({f}, 1)
    /\ UNCHANGED <<pte, owner, data, lock, callVars, last>>

FileOnly(c) ==
    \/ PrepareFails(c) \/ WriteoutOld(c) \/ WriteoutNew(c)
    \/ RelockOld(c) \/ RelockNew(c) \/ Retry(c)

FileStep(c) == Step(c) \/ FileOnly(c)

FileNext ==
    \/ Next
    \/ \E c \in Callers : FileOnly(c)
    \/ \E h \in Holders : \E f \in Folios : LookupReference(h, f)

(* Fair as FairSpec is. *)
FileSpec ==
    Init /\ [][FileNext]_vars /\ \A c \in Callers : SF_vars(FileStep(c))

=============================================================================
