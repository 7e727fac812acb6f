# A TLA+ verification of Demeter

Demeter manages tiered memory inside a virtual machine.  A guest kernel module
samples the memory accesses of a *victim* process, keeps a tree of address
ranges with access counts, and exchanges hot folios on the slow NUMA node with
cold folios on the fast one.  A virtio balloon with two sub-balloons, one per
node, lets the hypervisor set how much of each tier the guest has.  The whole
implementation is in `patch/demeter.patch` (Linux: `mm/demeter/`,
`mm/exchange.c`, `kernel/trace/ring_buffer.c`) and `patch/hypervisor.patch`
(Cloud Hypervisor: `virtio-devices/src/balloon.rs`).  Line numbers in
`PROJECT.json` are lines of these patches.

## Inventory

| component | state | operations | interacts with |
|---|---|---|---|
| target (`core.c`) | workers, channels, perf events, stop flags | `target_new`, `target_drop`, overflow handler, four worker loops | sysfs creates and drops it; PMU; exchange; range tree |
| channels (`mpsc.h`, `ring_buffer_select3`) | per-CPU ring buffers in overwrite mode | send, receive, wait, select | between the workers and the PMU handler |
| range tree (`range_tree.h`) | maple tree of ranges, `len`, `age`, `min_range` | count, split, rank, isolate | private to the policy worker |
| folio exchange (`exchange.c`) | folio locks, refcounts, mappings, flags | lock, support test, unmap, move, remap | migration worker; syscalls |
| balloon driver (`balloon.c`) | `len`, `tracking`, `pfns`, `lock` of each sub-balloon; work items | inflate, deflate, OOM, stats, probe, remove | virtqueues and configuration of the device; `__node_avail_pages` for the policy worker |
| balloon device (`balloon.rs`) | configuration, queues, timer | resize, queue handlers, stats | the driver |
| sysfs (`sysfs.c`) | target directories, one lock | `pid` and `nr_targets` | `target_new`, `target_drop` |

What is hard here.  Four threads and an NMI-like handler share channels that
silently overwrite; lists of isolated folios travel by pointer through them; a
drop may come at any moment, also while the target is being created, and the
victim may exit at any moment.  The range tree is changed by the loop that walks
it.  The balloon's two work items, OOM notifier and removal share a buffer that
the host reads asynchronously, and wait for the host under a mutex.  An exchange
of two folios takes a dozen steps, each visible to the application, to other
users of the folios and to other exchanges.  Writes to the control files and the
unloading of the module race with each other.

What makes each correct:

* pipeline: a pair of lists has one holder; an isolated folio can always be
  put back; counters are exact; requests are answered; a drop ends and leaves
  nothing running;
* range tree: the ranges tile the managed regions, the length and the smallest
  size are exact, the walk is consistent with the tree, each pass ends and splits
  a range once; the ranges chosen for fast memory are the hottest ones and were
  all accessed;
* balloon: sizes are exact, a page the guest may use is backed, removal ends and
  returns every page;
* exchange: the application cannot tell that it happens, references are exact,
  a migration entry is always resolved (it is not for page cache folios) and the
  migration worker always returns;
* sysfs: the running targets are those the directories point to, none is stopped
  unasked or outlives the module, and no write hangs.

## Modules

| module | models | state and actions |
|---|---|---|
| `Target` | `core.c`, `mpsc.h`, the parts of `exchange.c` the pipeline sees | one program counter per worker, `ctl` for `target_new`/`target_drop`, the channels, the list each folio is linked on |
| `MCTarget` | instances of `Target` | list heads are symmetric |
| `TargetProofs` | theorems about `Target` | |
| `RangeTree` | `rt_init`, `rt_insert`, `rt_count`, `rt_split` | the tree as a function from starts to ranges, and the walk's `prev`, `curr`, `next`; one step per loop iteration |
| `Placement` | `rt_rank`, `rt_rank_cmp`, `rt_should_cool`, `mrange_freq`, the cut and the promotion loop of `policy_send_exch_reqs` | operators over the tree of `RangeTree` at the end of a pass; no state of its own |
| `MCRangeTree` | instances of `RangeTree` and `Placement` | |
| `RangeTreeProofs` | theorems about `RangeTree` | |
| `PlacementProofs` | the theorem about `Placement` | |
| `Balloon` | one sub-balloon of `balloon.c` with the device of `balloon.rs` | the processes `inflate`, `deflate`, `oom`, `remove`, the two virtqueues, the host |
| `MCBalloon` | instances of `Balloon` | |
| `BalloonProofs` | theorems about `Balloon` | |
| `AppMemory` | what an application may see of its memory (abstract) | a map from pages to contents that only `Write` changes |
| `FolioExchange` | `exchange.c` for anonymous folios: `folio_exchange_isolated` of the migration worker and the system call | PTEs, owners, data, reference counts and locks of folios; per caller a program counter and what it has isolated and unmapped; the application and holders of other references |
| `FileExchange` | what page cache folios add: a file system that refuses the move or writes the folio, the retry, lookups | `EXTENDS FolioExchange` |
| `MCFolioExchange`, `MCFileExchange` | instances of the two | three pages in three folios |
| `FolioExchangeProofs` | theorems about `FolioExchange` and `FileExchange` | |
| `Sysfs` | `sysfs.c` | directories by number, their target pointers, the array, the running targets, the lock; per writer and for the unloading a program counter |
| `SysfsProofs` | theorems about `Sysfs` | |

Abstractions worth knowing:

* `Target` leaves open which ranges are hot: a split pass may lengthen the tree
  by any amount the code allows and the walk may meet any folio of the right
  node.  Every behaviour of the code is a behaviour of the model.  Samples and
  split requests carry nothing a worker keeps, so their channels are counters.
  A ring buffer has one queue per CPU and a thread may change CPU between two
  sends, so a channel of exchange messages is a set.
* A folio is linked through one `lru` field, so `on` maps it to one list.  An
  exchange swaps contents, not folios: the node of a folio never changes, while
  `PG_swapbacked`, and with it `folio_is_file_lru()`, is swapped.  That is why
  `IsolatedAccounting` is about the sum of the two classes: each class alone can
  drift when a lazily freed folio is exchanged with an ordinary one.
* `RangeTree` measures addresses in units of `RTREE_GRANULARITY`.
* `Balloon` is one sub-balloon; the two share only a wait queue whose sleepers
  test their own virtqueue.  `MADV_WILLNEED` brings a page back; between a punch
  and that moment the page is not `backed`.  When a deflation overruns `pfns`
  the process stops at `overrun`: what the kernel does then is undefined.  When it
  finds the tracker empty it stops at `bug` with the lock held, as
  `balloon_page_dequeue()` does (`CONFIG_BALLOON_COMPACTION` is off, so no page is
  ever isolated).
* `vb_work_stop()` holds the `queue_work` spinlock across `cancel_work_sync()`, and
  the handlers of the configuration and the statistics interrupts take it.  While it
  is held, `HandlerSpins(w)` may stall a work item for ever: its CPU spins, or the
  interrupt it waits for is behind one that does.  The virtio core of Linux
  disables configuration interrupts before it calls `remove()`; for the statistics
  queue nothing does.
* In `Target`, `folio_exchange_isolated()` is one step with every result the code
  can return; `FolioExchange` is about what happens inside it.
* `Placement` takes the cut as the code computes it.  The loop adds `in_smem` twice
  and `in_fmem` not at all, and compares the sum with the size of the node without
  its balloon, not with what is free of it; `CutGreedy` says which run of the
  ranking that selects, and not that the run fits in fast memory.  The order of the
  ranking is that of `rt_rank_cmp()` (frequency, count, age); the comments at
  `patch/demeter.patch:8684` and 8742 leave the count out.  The comparison returns
  an `int` of unsigned differences; the model takes it as exact, which it is as
  long as the numbers stay far below 2^31.
* In `Placement` the number of folios a range has in slow memory (`in_smem`) and
  the room in fast memory are any numbers up to a bound.  This includes the
  numbers that `rt_rank()` produces by adding to those of the ranking before.
* In `FolioExchange` a page maps one folio, and `owner[f]` stands for the mapping
  and index through which the reverse map of `f` leads to its PTE.  A folio may be
  refused for any reason (`folio_exchange_supported()` tests flags that are not in
  the model).  The kernel's fault handler, `follow_page()`, `try_to_migrate()` and
  `remove_migration_ptes()` are external and modelled from their use.
  `folio_add_lru()` puts a folio back at once; the batch it passes through is not
  modelled, nor are flags, buffer heads, cgroup data and large folios.  A holder of
  a reference counts and never reads or writes: direct I/O or `get_user_pages()`
  that starts between the check of the references and the unmapping is outside
  `Transparent`.
* `FileExchange` has the file systems that `folio_exchange_fs_prepare()` knows; for
  any other the code stops in `BUG()`.  `writeout()` is external: it turns the
  folio's migration entries back, usually unlocks and relocks it, and always fails,
  with `-EAGAIN` or `-EIO`.
* The refinement mapping of `FolioExchange` gives `AppMemory` the content of the
  folio a page belongs to, or of its partner in the one step between the exchange
  of the mappings and that of the data, when neither can be accessed.
* In `Sysfs` the two seconds' sleep and `target_new()` are one step that may fail;
  `target_drop()` is one step because `Target` shows that it ends.  kernfs keeps a
  directory until the writes inside it have returned (external).
  `demeter_sysfs_exit()` takes no lock, so a write to `nr_targets` may change the
  array it walks over.  The model has those behaviours: each round of a loop is a
  step, `raced` remembers that the two have met, and a step that uses a freed
  directory, the freed array or the code of the module after it has gone puts its
  thread at `fault`, after which nothing is said.

## Runs

| run | asks | bounds |
|---|---|---|
| `target_custody` | can the workers lose, share or miscount a folio? | 3 folios (two slow, of which one is file-backed, one lazily freed on the fast node), 4 heads: two exchanges in flight, each side of a pair refused, skipped or exchanged, blacklist at its boundary |
| `target_lifecycle` | does a drop end, quietly, and is a request answered? | one pair of folios, a throttle with and without a legal pulse, one sample |
| `range_tree` | does splitting keep the tree and the walk consistent, and which ranges does the cut promote? | two regions of 5 granules, so that ranges of odd size are split, at most 6 ranges (limit reached), 22 samples (enough for a split of a split and the exchange threshold of one granule); up to 1 folio per range and room for 3, so that a cut falls anywhere |
| `balloon` | are sizes exact, usable pages backed, removal complete, the lock released; what does it take to meet the `BUG()` of an empty tracker? | 2 pages, batches of 1, 2 resizes, 1 OOM |
| `exchange` | can the application, another user of a folio or a concurrent exchange go wrong? | 3 pages and folios, one accessed page, two contents, one worker, one system call, one other holder of references: the two callers share a folio, the third folio lets both go on |
| `sysfs` | can a target be orphaned, stopped unasked or outlive the module; can a write hang? | 2 writers, 2 directories, 3 targets, loading and unloading any number of times |
| `target_drop`, `range_tree_bounds`, `balloon_pfns`, `balloon_lost`, `exchange_refs`, `exchange_entries` | violations: see *Findings* | the smallest instances that show them |

TLC finds 1,987,562 distinct states in `target_custody`, 213,571 in
`target_lifecycle`, 128,845 in `range_tree`, 84,833 in `balloon` and 243,975 in
`sysfs`.

The channel bound of `target_custody` is the interesting one: a channel holds as
many messages as the tree has splits left and no more.  `NoFolioStranded` does
not hold for arbitrary capacities, only because every request costs a split
and the tree stops at `RTREE_MAX_SIZE` (2048), which is far below the capacity of
a channel of 1 MiB per CPU.  `BoundAssumption` states that relation, and the
theorem `FoliosSafe` uses it.

### Fairness

* Every kernel thread and work item is weakly fair: the scheduler and the
  workqueue run what is runnable.  Nothing makes the operator resize or drop, the
  victim exit, the PMU deliver or the allocator fail.
* The end of a pass over the split requests is strongly fair: `worker_main()`
  sleeps `split_period_ms` between two requests, while a pass ends as soon as a
  few receives find nothing.  Without it, the untimed model could feed the policy
  worker for ever.
* Users of `inner->lock` are strongly fair: a kernel mutex hands over to its first
  waiter.
* Callers of an exchange are strongly fair: only their two lock steps can be
  disabled again, and `folio_lock()` hands the lock to a waiter that was passed
  over.  The application and the holders of references need not move.
* Writers inside the kernel, and the unloading, are weakly fair; none of them waits
  for the mutex, because every one tries it and gives up.
* The host serves its queues until it fails (`HostFail`).

Some liveness properties name the cases in which the code itself gives up.
`LockReleased` and `RemoveCompletes` exclude a host that has failed, a task that met
`BUG()` or the overrun with the lock held (`Broken`), and an item stalled by a
handler that spins on `queue_work` (`stalled`): the driver has no way out of any of
them, and all are in the model.  `DropCompletes` excludes a policy or throttle worker
that an assertion has killed at its start.  `StoresReturn` ends at an undefined step.

### Findings

Each is a run that is expected to fail, and quotes the statement it contradicts
in `PROJECT.json`.

1. `target_drop`: the policy worker is stopped before the migration worker and
   the channels are freed with what they hold; an exchange in flight leaves its
   folios off the LRU and its list heads allocated.
2. `range_tree_bounds`: the promotion loop counts an unsigned index down to `f`
   with `i >= f`; when all ranked ranges belong in fast memory `f` is 0 and the
   loop reads `mrs[ULONG_MAX]`.
3. `balloon_pfns`: `vb_inner_deflate()` is not limited to the size of `pfns`.
4. `balloon_lost`: a resize to 0 during an inflation is never applied.
5. `exchange_refs`: `folio_ref_freeze()` is inside an assertion that the build
   leaves out, so a reference taken on a page cache folio between the check and
   the exchange of the mappings is overwritten by `folio_ref_unfreeze()`.
6. `exchange_entries`: the destinations of the remapping are set although the move
   has failed, so that it follows the wrong reverse map; when a file system refuses
   the move the migration entries stay, and a fault on them is repeated for ever.

Other things met while modelling, at their lines in the list of hazards.  None has a
run that fails: the models contain the behaviour, and a property that must not
claim too much names it as an exception.

* A victim that exits before the policy worker first runs, or an allocation that
  fails there, trips a `BUG_ON` of the worker (3980, 3998); so does a throttle pulse
  that is not shorter than its period (3702).
* `rt_isolate()` returns from inside `folio_for_each()` and leaks the reference of
  the last folio, which no later exchange accepts (8773; the variable `leaked`).
* A deflation that read its limit before an OOM notification emptied the balloon
  meets `BUG()` with the lock held (2926, 2931).  `TrackerSuffices` shows that it
  takes a notification.
* `vb_work_stop()` holds a spinlock that interrupt handlers take while it sleeps
  (3167-3176).
* A write to `nr_targets` may meet the unloading of the module (9040).
* The second isolation check of `folio_exchange_parallel()` tests the first folio,
  so that system calls can block each other (1685).
* The cut of the ranking adds `in_smem` twice (3829), and the comments about the
  order of the ranking (8684, 8742) do not name the count that `rt_rank_cmp()`
  compares before the age.

## Proofs

All theorems hold for every value of the constants that satisfies the named
assumptions of the modules.

`TargetProofs`.  The inductive invariant is `IInv`: the type invariant with
`Holding` (which worker holds a pair at which program counter), `Budget` (the
exchange messages and the pairs in hand are no more than the splits the tree has
made, hence a channel is never full when one is sent), `SingleCustody`,
`NoFolioStranded` and `IsolatedAccounting`.  `NoFolioStranded` needs `Budget`
because an overwritten message strands its folios, and `SingleCustody` because a
freed head must not be the one another message names; the counters need it so
that a folio is released from a list that only one worker walks.  Two more parts
serve the other two properties.  `Stopping` says that the workers before the one
`target_drop()` is at have ended, and that events which are on during a drop are
inside a pulse of the throttle, which switches them off before it looks at its
stop flag; `QuietAfterDrop` is what it says at the end.  `Batch` says what the
policy worker has gathered so far: slow folios on one list, fast ones on the
other, and `need` the difference of their numbers.  A batch starts with two empty
lists because of `NoFolioStranded` (nothing is linked on a head that was free),
and a request stays as it was sent because of `SingleCustody` (nobody else walks
its lists).  From `IInv` follow `TypeCorrect`, `CustodySafe`, `FoliosSafe`,
`CountersExact`, `RequestsSound` and `DropQuiet`.

`RangeTreeProofs`.  `Shape` (`Tiling`, `LenExact`, `MinRangeExact`) is inductive
with the types: the halves of a range tile it and the middle is strictly inside
because only ranges of two granules are split.  The walk needs `WInv`:
`WalkNeighbours` together with where the index stands, at the end of `next`, and
`PassSplitsOnce`, which says that the ranges ahead of the walk are old.
`AccessesSafe` is about a sum over the tree.  It is stated as the size of a set
with one element for each access (`Accesses`), so that it needs no induction over
the tree: a sample adds an element, and a split or the decay is an injection of
the new accesses, twice as many of them for the decay, into the old ones.

`PlacementProofs`.  `CutHolds` is a consequence of the invariants of the tree.
`rt_rank_cmp()` is a strict total order, so counting the predecessors of a range
is a bijection from the ranges to the places of the array, and along the array
heat never falls to zero again (`RankingFacts`).  `fmem` is a recursive function;
that it exists, is a natural and never falls is shown by its least counterexample
(`LeastNatural`), since the prover cannot use an induction rule; the same argument
shows that it is twice the number of folios in slow memory of the ranges counted so
far (`SlowFolios`).  So the iterations that move the cut are the first ones
(`CountingFacts`), and their number is the length of the longest run that passes
the test as a whole.

`FolioExchangeProofs`.  The inductive invariant `IInv` says that a caller past its
lock steps holds the locks of two different folios (`Locks`), but for one that
`writeout()` has unlocked, that pages and folios correspond one to one (`Owners`),
that a present PTE leads to the folio of its page (`Mapped`), and that no PTE
leads to a folio from its unmapping until its mapping and data have been exchanged
(`Unmapped`, which needs the locks: a fault, another caller or a remap would bring
one back).  Its steps are those of `FileNext`, so that it holds with file folios,
refusals, writeouts and retries too.  From it, `ExchangeTransparent`: every step
of either specification is a step of `AppMemory` or leaves its memory alone.
`ReferencesExact` needs in addition that the count of a folio is the sum of its
PTEs, its cache reference, its holders and its callers at every step, also the
ones at which a system call holds a reference before it has isolated a folio; each
operation is shown to change both sides alike.  With file folios that is false
(`exchange_refs`).  `FreezeSuffices` shows that the missing `folio_ref_freeze()`
is the only reason: it holds in each behaviour in which the references that the
freeze would have expected are all there are (`FreezeSucceeds`).  `ReferencesHold`
and `TypeCorrect` are about anonymous folios only (`FilePages = {}`), the ones the
migration worker exchanges: there a reference can be taken through a PTE only, and
nothing else is assumed.

`BalloonProofs`.  The inductive invariant says who holds the lock and at which
program counter, that a buffer is in a virtqueue exactly while its sender holds
the lock and then names the sender's batch, by how much `len` differs from
`|tracking|` in between, that free pages, tracked pages and batches are
disjoint and make up the node, which of them are backed, and what `remove()` has
already stopped.  `TypeCorrect` (an unsigned `len` that never wraps), `SizesHold`,
`UsableHolds` and `RemovalHolds` follow.  `TrackerHolds` needs one more part (`Limits`):
while no OOM notification has come, the limit that the work item has read is within
`len`, because it and `remove()` exclude each other (`cancel_work_sync()`) and an
inflation only adds.

`SysfsProofs`.  The inductive invariant says that whoever is between a successful
`mutex_trylock()` and the unlock is the holder (`Locking`), which files exist while
the module is loaded or goes (`Loading`), that a write to `pid` is inside a directory
that exists (`Inside`, because kernfs drains a directory before it is released),
that no directory points to a target while a write to `nr_targets` is past its busy
check (`Stopped`), and, in the behaviours in which such a write has not met the
unloading, which directories the loops have made or removed so far (`Shape`, under
`~raced`).  `TargetsOwned` needs `Stopped`: a new target is stored only over an
empty pointer.  `TypeCorrect`, `TargetsOwnedHolds` and, for each step,
`StoppedOnRequestHolds` hold for every behaviour up to an undefined step, races
included; `UnloadedQuietHolds` is about those without a race, because with one the
statement is false.

Model-checked only: liveness under fairness and everything with ENABLED, which
the prover does not handle (`DropCompletes`, `RequestsAnswered`, `PassEnds`,
`LockReleased`, `RemoveCompletes`, `WorkerReturns`, `EntriesResolve`,
`StoresReturn`).  Every invariant, the action property and the refinement that a
passing run checks are also stated by a theorem.

## Plan

Done: every module above, their runs, and a theorem for each safety property
they check.  Next:

1. A composition of `Target` with the result codes of `FolioExchange`, so that
   the one-step exchange of `Target` is an instance of an abstract exchange that
   `FolioExchange` implements.
2. The error paths of `vb_init()` and the statistics queue of the balloon.

## Not modelled

* The statistics queue of the balloon and its timer (they move no page) and the
  error paths of `vb_init()`.
* Folio flags, buffer heads, cgroup charging and the copy threads of `exchange.c`.
* The vendored containers, the kernel's perf, KVM and vmstat hooks (exports and
  counters), the PML timer of the hypervisor (a periodic ioctl), the tests.
* The baselines of `sota.patch` and everything under `workload/`: third-party
  systems and benchmark programs that run as victims, most of the repository's
  lines and none of Demeter's logic.  Demeter itself is in the two patches, which
  is where the map points.
* The Python scripts that launch experiments: they start processes, wait for them
  and write to the files that `Sysfs` models.
