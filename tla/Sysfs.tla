------------------------------- MODULE Sysfs --------------------------------
(***************************************************************************)
(* The control interface of the module (mm/demeter/sysfs.c).  A write to   *)
(* nr_targets creates that many directories; a write to the pid file of    *)
(* one starts a target for a process, or stops the one there is; unloading *)
(* the module removes everything.                                          *)
(*                                                                         *)
(* A directory is named by its number.  kernfs keeps a directory that is   *)
(* being removed until the writes inside it have returned, so a number     *)
(* never stands for two directories at once.                               *)
(*                                                                         *)
(* demeter_sysfs_exit() takes no lock, so it may walk over the array while *)
(* a write to nr_targets changes it.  The two interleave one round of a    *)
(* loop at a time.  A step that uses a directory, the array or code of the *)
(* module after it was freed is undefined: its thread goes to "fault", and *)
(* nothing is said of what follows.                                        *)
(***************************************************************************)
EXTENDS Integers, FiniteSets

CONSTANTS Writers, Rmmod,   \* who writes to the files, who unloads
          Pid,              \* the process id that is written
          MaxDirs,          \* bound: the largest value of nr_targets
          Targets, None     \* bound: the targets there is memory for

ASSUME SysfsAssumption ==
  /\ Pid \in Nat /\ MaxDirs \in Nat /\ IsFiniteSet(Targets)
  /\ None \notin Targets \cup Writers \cup {Rmmod} /\ Rmmod \notin Writers

Dirs == 0 .. (MaxDirs - 1)
Threads == Writers \cup {Rmmod}

VARIABLES
  loaded,    \* the module is loaded: targets/ and its nr_targets exist
  dir,       \* dir[i]: "absent", "present", or "removing" in kobject_put()
  target,    \* target[i]: the target pointer of directory i
  running,   \* the targets that target_new() has made and nobody dropped
  nr, array, \* targets->nr, and whether targets->targets is allocated
  raced,     \* a write to nr_targets has met the unloading
  mutex,     \* the holder of demeter_sysfs_lock
  pc, slot,  \* a thread's step, and the directory it is in or has reached
  arg        \* the number that is written: -1 or a pid, or nr_targets

dirVars == <<loaded, dir, target, running, nr, array, raced>>
vars == <<dirVars, mutex, pc, slot, arg>>

PidSteps == {"pid_lock", "pid_drop", "pid_new"}
NrSteps == {"nr_lock", "nr_busy", "rm", "rm_wait", "clear", "add"}
ExitSteps == {"rm", "rm_wait", "clear", "put", "put_wait"}

(* The module after demeter_sysfs_init().                                   *)
Init ==
  /\ loaded = TRUE
  /\ dir = [i \in Dirs |-> "absent"] /\ target = [i \in Dirs |-> None]
  /\ running = {} /\ nr = 0 /\ array = FALSE /\ raced = FALSE /\ mutex = None
  /\ pc = [w \in Threads |-> "idle"] /\ slot = [w \in Threads |-> 0]
  /\ arg = [w \in Threads |-> 0]

Goto(w, step) == pc' = [pc EXCEPT ![w] = step]

Undefined == \E w \in Threads : pc[w] = "fault"
Empty == \A i \in Dirs : dir[i] = "absent"

(* The write returns and unlocks demeter_sysfs_lock.                        *)
ReturnUnlocked(w) == Goto(w, "idle") /\ mutex' = None

(* Faulty: mutex_lock(), which waits for the holder.                        *)
LockBlocking(w, step) ==
  /\ mutex = None /\ mutex' = w /\ Goto(w, step)

(* Faulty: the result of mutex_trylock() is ignored.                        *)
LockAnyway(w, step) ==
  /\ Goto(w, step)
  /\ mutex' = IF mutex = None THEN w ELSE mutex

(* mutex_trylock(), and -EBUSY if somebody holds the lock.                  *)
TryLock(w, step) ==
  \/ mutex = None /\ mutex' = w /\ Goto(w, step)
  \/ mutex # None /\ Goto(w, "idle") /\ UNCHANGED mutex

-----------------------------------------------------------------------------
(* A write to the pid file of directory i enters pid_store(), which has     *)
(* gone if an unloading has left the directory behind.                      *)
PidStore(w, i, pid) ==
  /\ pc[w] = "idle" /\ dir[i] = "present"
  /\ Goto(w, IF loaded THEN "pid_lock" ELSE "fault")
  /\ slot' = [slot EXCEPT ![w] = i] /\ arg' = [arg EXCEPT ![w] = pid]
  /\ UNCHANGED <<dirVars, mutex>>

PidLock(w) ==
  /\ pc[w] = "pid_lock"
  /\ TryLock(w, "pid_drop")
  /\ UNCHANGED <<dirVars, slot, arg>>

(* The target there is goes first; -1 is then done.                         *)
PidDrop(w) ==
  /\ pc[w] = "pid_drop"
  /\ running' = running \ {target[slot[w]]}
  /\ target' = [target EXCEPT ![slot[w]] = None]
  /\ IF arg[w] = -1 THEN ReturnUnlocked(w) ELSE Goto(w, "pid_new") /\ UNCHANGED mutex
  /\ UNCHANGED <<loaded, dir, nr, array, raced, slot, arg>>

(* After the two seconds: target_new() succeeds or fails.                   *)
PidNew(w) ==
  /\ pc[w] = "pid_new"
  /\ \/ \E t \in Targets \ running :
          /\ running' = running \cup {t}
          /\ target' = [target EXCEPT ![slot[w]] = t]
     \/ UNCHANGED <<running, target>>
  /\ ReturnUnlocked(w)
  /\ UNCHANGED <<loaded, dir, nr, array, raced, slot, arg>>

-----------------------------------------------------------------------------
(* A write to nr_targets enters nr_targets_store().  The file is there from *)
(* the loading until exit removes it, or stays behind with a directory that *)
(* exit did not remove.                                                     *)
NrStore(w, n) ==
  /\ pc[w] = "idle"
  /\ \/ loaded /\ pc[Rmmod] # "put_wait" /\ Goto(w, "nr_lock")
     \/ ~loaded /\ ~Empty /\ Goto(w, "fault")
  /\ arg' = [arg EXCEPT ![w] = n]
  /\ raced' = (raced \/ pc[Rmmod] \in ExitSteps)
  /\ UNCHANGED <<loaded, dir, target, running, nr, array, mutex, slot>>

NrLock(w) ==
  /\ pc[w] = "nr_lock"
  /\ TryLock(w, "nr_busy")
  /\ UNCHANGED <<dirVars, slot, arg>>

(* Faulty: the last directory is not looked at.                             *)
BusyButLast == \E i \in 0 .. (nr - 2) : target[i] # None

(* demeter_sysfs_targets_busy()                                             *)
Busy == \E i \in 0 .. (nr - 1) : target[i] # None

NrBusy(w) ==
  /\ pc[w] = "nr_busy"
  /\ \/ \E i \in 0 .. (nr - 1) : dir[i] = "absent"
        /\ Goto(w, "fault") /\ UNCHANGED mutex
     \/ /\ \A i \in 0 .. (nr - 1) : dir[i] # "absent"
        /\ IF Busy THEN ReturnUnlocked(w) ELSE Goto(w, "rm") /\ UNCHANGED mutex
  /\ slot' = [slot EXCEPT ![w] = 0]
  /\ UNCHANGED <<dirVars, arg>>

(* demeter_sysfs_targets_rm_dirs(): kobject_put() takes the directory away, *)
(* which nobody else may have done.                                         *)
RmPut(w) ==
  /\ pc[w] = "rm" /\ slot[w] < nr
  /\ \/ dir[slot[w]] # "present" /\ Goto(w, "fault") /\ UNCHANGED dir
     \/ /\ dir[slot[w]] = "present" /\ Goto(w, "rm_wait")
        /\ dir' = [dir EXCEPT ![slot[w]] = "removing"]
  /\ UNCHANGED <<loaded, target, running, nr, array, raced, mutex, slot, arg>>

(* kernfs waits for the writes inside the directory (external).             *)
Drained(i) == \A w \in Threads : slot[w] = i => pc[w] \notin PidSteps

(* Faulty: the target of the directory is not dropped.                      *)
ReleaseKeeps(i) ==
  /\ target' = [target EXCEPT ![i] = None]
  /\ UNCHANGED running

(* demeter_sysfs_target_release()                                           *)
Release(i) ==
  /\ running' = running \ {target[i]}
  /\ target' = [target EXCEPT ![i] = None]

RmRelease(w) ==
  /\ pc[w] = "rm_wait" /\ Drained(slot[w])
  /\ Release(slot[w])
  /\ dir' = [dir EXCEPT ![slot[w]] = "absent"]
  /\ slot' = [slot EXCEPT ![w] = @ + 1]
  /\ Goto(w, "rm")
  /\ UNCHANGED <<loaded, nr, array, raced, mutex, arg>>

(* The loop has passed the last directory.                                  *)
RmDone(w) ==
  /\ pc[w] = "rm" /\ slot[w] >= nr /\ Goto(w, "clear")
  /\ UNCHANGED <<dirVars, mutex, slot, arg>>

(* The array is freed.  A write goes on to add directories, unless it asks  *)
(* for none, there is no memory for the array, or it only cleans up.        *)
RmClear(w) ==
  /\ pc[w] = "clear"
  /\ nr' = 0 /\ slot' = [slot EXCEPT ![w] = 0]
  /\ \/ w = Rmmod /\ Goto(w, "put") /\ array' = FALSE /\ UNCHANGED mutex
     \/ w # Rmmod /\ arg[w] > 0 /\ Goto(w, "add") /\ array' = TRUE /\ UNCHANGED mutex
     \/ w # Rmmod /\ ReturnUnlocked(w) /\ array' = FALSE
  /\ UNCHANGED <<loaded, dir, target, running, raced, arg>>

(* Faulty: the loop makes one directory too many.                           *)
AddDirPast(w) ==
  /\ pc[w] = "add" /\ slot[w] <= arg[w]
  /\ dir' = [dir EXCEPT ![slot[w]] = "present"]
  /\ nr' = slot[w] + 1
  /\ slot' = [slot EXCEPT ![w] = @ + 1]
  /\ UNCHANGED <<loaded, target, running, array, raced, mutex, pc, arg>>

(* One round of the loop of demeter_sysfs_targets_add_dirs(): a directory,  *)
(* and its place in an array that exit may have freed.                      *)
AddDir(w) ==
  /\ pc[w] = "add" /\ slot[w] < arg[w]
  /\ dir[slot[w]] = "absent" /\ pc[Rmmod] # "put_wait"
  /\ dir' = [dir EXCEPT ![slot[w]] = "present"]
  /\ \/ array /\ nr' = slot[w] + 1 /\ UNCHANGED pc
     \/ ~array /\ UNCHANGED nr /\ Goto(w, "fault")
  /\ slot' = [slot EXCEPT ![w] = @ + 1]
  /\ UNCHANGED <<loaded, target, running, array, raced, mutex, arg>>

(* No memory or no directory, because there is one of that name or targets/ *)
(* is being removed: remove the ones there are and return.                  *)
AddFails(w) ==
  /\ pc[w] = "add" /\ slot[w] < arg[w]
  /\ arg' = [arg EXCEPT ![w] = 0] /\ slot' = [slot EXCEPT ![w] = 0]
  /\ Goto(w, "rm")
  /\ UNCHANGED <<dirVars, mutex>>

AddDone(w) ==
  /\ pc[w] = "add" /\ slot[w] = arg[w]
  /\ ReturnUnlocked(w)
  /\ UNCHANGED <<dirVars, slot, arg>>

-----------------------------------------------------------------------------
(* demeter_sysfs_exit(), which does not take the lock: the loop of the      *)
(* directories, and then targets/ itself.                                   *)
Unload ==
  /\ pc[Rmmod] = "idle" /\ loaded
  /\ Goto(Rmmod, "rm") /\ slot' = [slot EXCEPT ![Rmmod] = 0]
  /\ raced' = (raced \/ \E w \in Writers : pc[w] \in NrSteps)
  /\ UNCHANGED <<loaded, dir, target, running, nr, array, mutex, arg>>

(* kobject_put() of targets/ removes it, unless a directory inside keeps    *)
(* it.  Then the module goes and leaves the directories, at once undefined  *)
(* if a write or a worker of a target is inside its code.                   *)
ExitPut ==
  /\ pc[Rmmod] = "put"
  /\ \/ Empty /\ Goto(Rmmod, "put_wait") /\ UNCHANGED loaded
     \/ /\ ~Empty /\ loaded' = FALSE
        /\ \/ /\ running # {} \/ \E w \in Writers : pc[w] # "idle"
              /\ Goto(Rmmod, "fault")
           \/ /\ running = {} /\ \A w \in Writers : pc[w] = "idle"
              /\ Goto(Rmmod, "idle")
  /\ UNCHANGED <<dir, target, running, nr, array, raced, mutex, slot, arg>>

(* kernfs waits for the writes to nr_targets.                               *)
ExitDone ==
  /\ pc[Rmmod] = "put_wait" /\ \A w \in Writers : pc[w] \notin NrSteps
  /\ Goto(Rmmod, "idle") /\ loaded' = FALSE
  /\ UNCHANGED <<dir, target, running, nr, array, raced, mutex, slot, arg>>

(* demeter_sysfs_init(), for a new instance of the module.  It fails if     *)
(* there is no memory or the directories of the old one still exist, and    *)
(* leaves nothing behind.  That the small demeter_sysfs_targets itself      *)
(* cannot be allocated, which the code does not test, is not modelled.      *)
Load ==
  /\ ~loaded
  /\ \/ Empty /\ loaded' = TRUE /\ nr' = 0 /\ array' = FALSE /\ raced' = FALSE
     \/ UNCHANGED <<loaded, nr, array, raced>>
  /\ UNCHANGED <<dir, target, running, mutex, pc, slot, arg>>

(* What a thread that is in the kernel does next.                           *)
Step(w) ==
  /\ ~Undefined
  /\ \/ PidLock(w) \/ PidDrop(w) \/ PidNew(w)
     \/ NrLock(w) \/ NrBusy(w)
     \/ RmPut(w) \/ RmRelease(w) \/ RmDone(w) \/ RmClear(w)
     \/ AddDir(w) \/ AddFails(w) \/ AddDone(w)
     \/ w = Rmmod /\ (ExitPut \/ ExitDone)

(* What somebody asks of it.                                                *)
Call ==
  /\ ~Undefined
  /\ \/ Unload \/ Load
     \/ \E w \in Writers :
          \/ \E i \in Dirs : \E pid \in {-1, Pid} : PidStore(w, i, pid)
          \/ \E n \in 0..MaxDirs : NrStore(w, n)

Next ==
  \/ Call
  \/ \E w \in Threads : Step(w)
  \/ Undefined /\ UNCHANGED vars

(* A thread that is inside the kernel and can run does.                     *)
Spec == Init /\ [][Next]_vars /\ \A w \in Threads : WF_vars(Step(w))

-----------------------------------------------------------------------------
(* Properties.                                                              *)

(* Every variable of the control interface stays in its type.               *)
TypeOK ==
  /\ loaded \in BOOLEAN
  /\ dir \in [Dirs -> {"absent", "present", "removing"}]
  /\ target \in [Dirs -> Targets \cup {None}]
  /\ running \subseteq Targets
  /\ nr \in 0..MaxDirs /\ array \in BOOLEAN /\ raced \in BOOLEAN
  /\ mutex \in Threads \cup {None}
  /\ pc \in [Threads -> {"idle", "fault"} \cup PidSteps \cup NrSteps \cup ExitSteps]
  /\ slot \in [Threads -> 0..MaxDirs]
  /\ arg \in [Threads -> {-1, Pid} \cup 0..MaxDirs]

(* However writes to pid, writes to nr_targets and the removal of the       *)
(* module interleave, up to a step that is undefined, the running targets   *)
(* are exactly those that the existing directories point to, each from one  *)
(* directory: a target that no directory points to can never be stopped     *)
(* again, and a pointer to a dropped one would be dropped twice.            *)
TargetsOwned ==
  /\ {target[i] : i \in Dirs} \ {None} = running
  /\ \A i, j \in Dirs : target[i] = target[j] /\ target[i] # None => i = j
  /\ \A i \in Dirs : dir[i] = "absent" => target[i] = None

(* Unless a write to nr_targets is in progress while the module is          *)
(* unloaded, which nothing prevents, no thread ever uses what was freed,    *)
(* and once the module is unloaded no directory and no worker of a target   *)
(* is left to run the code that has gone, also if a pid was being written.  *)
UnloadedQuiet ==
  ~raced => /\ ~Undefined
            /\ ~loaded => running = {} /\ Empty

(* A running target is stopped only by a write to the pid file of its own   *)
(* directory or by unloading the module: a write to nr_targets that removes *)
(* the directories has seen that none of them runs one, and none starts     *)
(* while it removes them.                                                   *)
StoppedOnRequest ==
  [][\A t \in running \ running' :
       \/ pc[Rmmod] = "rm_wait"
       \/ \E w \in Writers : pc[w] = "pid_drop" /\ target[slot[w]] = t]_vars

(* Every write and every unloading returns, although the remover of a       *)
(* directory waits, with the lock, for the writes inside it; unless a write *)
(* to nr_targets has met the unloading and a step of theirs was undefined.  *)
StoresReturn ==
  \A w \in Threads : pc[w] # "idle" ~> (pc[w] = "idle" \/ Undefined)

=============================================================================
