----------------------------- MODULE SysfsProofs -----------------------------
(***************************************************************************)
(* Theorems about Sysfs, for any number of writers, directories and        *)
(* targets.                                                                *)
(***************************************************************************)
EXTENDS Sysfs, TLAPS

Removing == {"rm", "rm_wait"}
Holding == {"pid_drop", "pid_new", "nr_busy", "add", "clear"} \cup Removing

(* A writer past its trylock holds demeter_sysfs_lock.                      *)
Locking == \A w \in Writers : pc[w] \in Holding => mutex = w

(* A thread is in a step of a call of its own, and the module is loaded     *)
(* while somebody creates or removes directories, up to an undefined step.  *)
Loading ==
  /\ pc[Rmmod] \in {"idle", "fault"} \cup ExitSteps
  /\ pc[Rmmod] \in ExitSteps => loaded
  /\ \A w \in Writers : pc[w] \in NrSteps =>
       arg[w] \in 0..MaxDirs /\ (loaded \/ Undefined)

(* A write to pid is inside a directory that exists, and a directory is     *)
(* released by the one thread that has put it.                              *)
Inside ==
  \A w \in Threads :
    /\ pc[w] \in PidSteps => slot[w] \in Dirs /\ dir[slot[w]] # "absent"
    /\ pc[w] = "rm_wait" =>
         /\ slot[w] \in Dirs /\ dir[slot[w]] = "removing"
         /\ \A v \in Threads \ {w} : pc[v] = "rm_wait" => slot[v] # slot[w]

(* No directory in the array points to a target while a write to nr_targets *)
(* removes or adds directories, nor the one that it has put, nor the one in *)
(* which a target is about to start.                                        *)
Stopped ==
  \A w \in Writers :
    /\ pc[w] \in Removing \cup {"clear", "add"} =>
         \A i \in Dirs : i < nr => target[i] = None
    /\ pc[w] \in {"rm_wait", "pid_new"} => target[slot[w]] = None
    /\ pc[w] = "add" /\ array => slot[w] = nr

(* Unless a write to nr_targets has met the unloading, one thread at a time *)
(* changes the array, and the directories are those in it, as far as the    *)
(* loops have come.                                                         *)
Shape ==
  /\ ~Undefined
  /\ pc[Rmmod] \in ExitSteps => \A w \in Writers : pc[w] \notin NrSteps
  /\ \A i \in Dirs : dir[i] # "absent" => i < nr /\ loaded
  /\ \A w \in Threads : pc[w] \in Removing =>
       /\ slot[w] <= nr /\ (pc[w] = "rm_wait" => slot[w] < nr)
       /\ \A i \in Dirs : i < slot[w] => dir[i] = "absent"
       /\ \A i \in Dirs : slot[w] < i /\ i < nr => dir[i] = "present"
       /\ pc[w] = "rm" /\ slot[w] < nr => dir[slot[w]] = "present"
  /\ (\A w \in Threads : pc[w] \notin Removing \cup {"clear"}) =>
       \A i \in Dirs : i < nr => dir[i] = "present"
  /\ \A w \in Threads : pc[w] = "clear" => Empty
  /\ pc[Rmmod] \in {"put", "put_wait"} => Empty /\ nr = 0
  /\ \A w \in Writers : pc[w] = "add" => array /\ slot[w] = nr /\ nr <= arg[w]

IInv ==
  /\ TypeOK /\ Locking /\ Loading /\ Inside /\ Stopped /\ TargetsOwned
  /\ ~raced => Shape

USE SysfsAssumption
    DEF Dirs, Threads, PidSteps, NrSteps, ExitSteps, Removing, Holding, dirVars, Goto

(* PidStore preserves the inductive invariant.                              *)
LEMMA PidStoreKeeps ==
  ASSUME IInv, ~Undefined, NEW w \in Writers, NEW i \in Dirs, NEW pid \in {-1, Pid}, PidStore(w, i, pid)
  PROVE  IInv'
<1>1. TypeOK'
  BY DEF IInv, TypeOK, Loading, Inside, PidStore
<1>2. Locking'
  BY DEF IInv, TypeOK, Locking, Loading, PidStore
<1>3. Loading'
  BY DEF IInv, TypeOK, Loading, Undefined, PidStore
<1>4. Inside'
  BY DEF IInv, TypeOK, Inside, Locking, Loading, PidStore
<1>5. Stopped'
  BY DEF IInv, TypeOK, Stopped, Locking, Loading, Inside, TargetsOwned, PidStore
<1>6. TargetsOwned'
  BY DEF IInv, TypeOK, TargetsOwned, Inside, Stopped, Loading, PidStore
<1>7. ASSUME ~raced' PROVE Shape'
  BY <1>7 DEF IInv, TypeOK, Shape, Locking, Loading, Inside, Undefined, Empty, PidStore
<1> QED  BY <1>1, <1>2, <1>3, <1>4, <1>5, <1>6, <1>7 DEF IInv

(* PidLock preserves the inductive invariant.                               *)
LEMMA PidLockKeeps ==
  ASSUME IInv, ~Undefined, NEW w \in Threads, PidLock(w)
  PROVE  IInv'
<1>1. TypeOK'
  BY DEF IInv, TypeOK, Loading, Inside, PidLock, TryLock
<1>2. Locking'
  BY DEF IInv, TypeOK, Locking, Loading, PidLock, TryLock
<1>3. Loading'
  BY DEF IInv, TypeOK, Loading, Undefined, PidLock, TryLock
<1>4. Inside'
  BY DEF IInv, TypeOK, Inside, Locking, Loading, PidLock, TryLock
<1>5. Stopped'
  BY DEF IInv, TypeOK, Stopped, Locking, Loading, Inside, TargetsOwned, PidLock, TryLock
<1>6. TargetsOwned'
  BY DEF IInv, TypeOK, TargetsOwned, Inside, Stopped, Loading, PidLock, TryLock
<1>7. ASSUME ~raced' PROVE Shape'
  BY <1>7 DEF IInv, TypeOK, Shape, Locking, Loading, Inside, Undefined, Empty, PidLock, TryLock
<1> QED  BY <1>1, <1>2, <1>3, <1>4, <1>5, <1>6, <1>7 DEF IInv

(* PidDrop preserves the inductive invariant.                               *)
LEMMA PidDropKeeps ==
  ASSUME IInv, ~Undefined, NEW w \in Threads, PidDrop(w)
  PROVE  IInv'
<1>1. TypeOK'
  BY DEF IInv, TypeOK, Loading, Inside, PidDrop, ReturnUnlocked
<1>2. Locking'
  BY DEF IInv, TypeOK, Locking, Loading, PidDrop, ReturnUnlocked
<1>3. Loading'
  BY DEF IInv, TypeOK, Loading, Undefined, PidDrop, ReturnUnlocked
<1>4. Inside'
  BY DEF IInv, TypeOK, Inside, Locking, Loading, PidDrop, ReturnUnlocked
<1>5. Stopped'
  BY DEF IInv, TypeOK, Stopped, Locking, Loading, Inside, TargetsOwned, PidDrop, ReturnUnlocked
<1>6. TargetsOwned'
  BY DEF IInv, TypeOK, TargetsOwned, Inside, Stopped, Loading, PidDrop, ReturnUnlocked
<1>7. ASSUME ~raced' PROVE Shape'
  BY <1>7 DEF IInv, TypeOK, Shape, Locking, Loading, Inside, Undefined, Empty, PidDrop, ReturnUnlocked
<1> QED  BY <1>1, <1>2, <1>3, <1>4, <1>5, <1>6, <1>7 DEF IInv

(* PidNew preserves the inductive invariant.                                *)
LEMMA PidNewKeeps ==
  ASSUME IInv, ~Undefined, NEW w \in Threads, PidNew(w)
  PROVE  IInv'
<1>1. TypeOK'
  BY DEF IInv, TypeOK, Loading, Inside, PidNew, ReturnUnlocked
<1>2. Locking'
  BY DEF IInv, TypeOK, Locking, Loading, PidNew, ReturnUnlocked
<1>3. Loading'
  BY DEF IInv, TypeOK, Loading, Undefined, PidNew, ReturnUnlocked
<1>4. Inside'
  BY DEF IInv, TypeOK, Inside, Locking, Loading, PidNew, ReturnUnlocked
<1>5. Stopped'
  BY DEF IInv, TypeOK, Stopped, Locking, Loading, Inside, TargetsOwned, PidNew, ReturnUnlocked
<1>6. TargetsOwned'
  <2>1. slot[w] \in Dirs /\ dir[slot[w]] # "absent"
    BY DEF IInv, Inside, PidNew
  <2>2. target[slot[w]] = None
    BY DEF IInv, Stopped, Loading, PidNew
  <2>3. CASE UNCHANGED <<running, target>>
    BY <2>3 DEF IInv, TargetsOwned, PidNew
  <2>4. ASSUME NEW t \in Targets \ running, running' = running \cup {t},
               target' = [target EXCEPT ![slot[w]] = t]
        PROVE  TargetsOwned'
    <3>1. /\ target'[slot[w]] = t /\ t # None
          /\ \A i \in Dirs \ {slot[w]} : target'[i] = target[i]
      BY <2>1, <2>4 DEF IInv, TypeOK
    <3>2. \A i \in Dirs : target[i] # t
      BY <2>4, <3>1 DEF IInv, TargetsOwned
    <3>3. {target'[i] : i \in Dirs} \ {None} = running'
      BY <2>1, <2>2, <2>4, <3>1 DEF IInv, TargetsOwned
    <3>4. dir' = dir
      BY DEF PidNew
    <3> QED  BY <2>1, <3>1, <3>2, <3>3, <3>4 DEF IInv, TargetsOwned
  <2> QED  BY <2>3, <2>4 DEF PidNew
<1>7. ASSUME ~raced' PROVE Shape'
  BY <1>7 DEF IInv, TypeOK, Shape, Locking, Loading, Inside, Undefined, Empty, PidNew, ReturnUnlocked
<1> QED  BY <1>1, <1>2, <1>3, <1>4, <1>5, <1>6, <1>7 DEF IInv

(* NrStore preserves the inductive invariant.                               *)
LEMMA NrStoreKeeps ==
  ASSUME IInv, ~Undefined, NEW w \in Writers, NEW n \in 0..MaxDirs, NrStore(w, n)
  PROVE  IInv'
<1>1. TypeOK'
  <2>1. pc' \in [Threads -> {"idle", "fault"} \cup PidSteps \cup NrSteps \cup ExitSteps]
    BY DEF IInv, TypeOK, NrStore
  <2>2. arg' \in [Threads -> {-1, Pid} \cup 0..MaxDirs]
    BY DEF IInv, TypeOK, NrStore
  <2>3. raced' \in BOOLEAN
    BY DEF NrStore
  <2> QED  BY <2>1, <2>2, <2>3 DEF IInv, TypeOK, NrStore
<1>2. Locking'
  BY DEF IInv, TypeOK, Locking, Loading, NrStore
<1>3. Loading'
  BY DEF IInv, TypeOK, Loading, Undefined, NrStore
<1>4. Inside'
  BY DEF IInv, TypeOK, Inside, Locking, Loading, NrStore
<1>5. Stopped'
  BY DEF IInv, TypeOK, Stopped, Locking, Loading, Inside, TargetsOwned, NrStore
<1>6. TargetsOwned'
  BY DEF IInv, TypeOK, TargetsOwned, Inside, Stopped, Loading, NrStore
<1>7. ASSUME ~raced' PROVE Shape'
  BY <1>7 DEF IInv, TypeOK, Shape, Locking, Loading, Inside, Undefined, Empty, NrStore
<1> QED  BY <1>1, <1>2, <1>3, <1>4, <1>5, <1>6, <1>7 DEF IInv

(* NrLock preserves the inductive invariant.                                *)
LEMMA NrLockKeeps ==
  ASSUME IInv, ~Undefined, NEW w \in Threads, NrLock(w)
  PROVE  IInv'
<1>1. TypeOK'
  BY DEF IInv, TypeOK, Loading, Inside, NrLock, TryLock
<1>2. Locking'
  BY DEF IInv, TypeOK, Locking, Loading, NrLock, TryLock
<1>3. Loading'
  BY DEF IInv, TypeOK, Loading, Undefined, NrLock, TryLock
<1>4. Inside'
  BY DEF IInv, TypeOK, Inside, Locking, Loading, NrLock, TryLock
<1>5. Stopped'
  BY DEF IInv, TypeOK, Stopped, Locking, Loading, Inside, TargetsOwned, NrLock, TryLock
<1>6. TargetsOwned'
  BY DEF IInv, TypeOK, TargetsOwned, Inside, Stopped, Loading, NrLock, TryLock
<1>7. ASSUME ~raced' PROVE Shape'
  BY <1>7 DEF IInv, TypeOK, Shape, Locking, Loading, Inside, Undefined, Empty, NrLock, TryLock
<1> QED  BY <1>1, <1>2, <1>3, <1>4, <1>5, <1>6, <1>7 DEF IInv

(* NrBusy preserves the inductive invariant.                                *)
LEMMA NrBusyKeeps ==
  ASSUME IInv, ~Undefined, NEW w \in Threads, NrBusy(w)
  PROVE  IInv'
<1>1. TypeOK'
  <2>1. pc' \in [Threads -> {"idle", "fault"} \cup PidSteps \cup NrSteps \cup ExitSteps]
    BY DEF IInv, TypeOK, NrBusy, ReturnUnlocked
  <2>2. slot' \in [Threads -> 0..MaxDirs]
    BY DEF IInv, TypeOK, NrBusy
  <2>3. mutex' \in Threads \cup {None}
    BY DEF IInv, TypeOK, NrBusy, ReturnUnlocked
  <2> QED  BY <2>1, <2>2, <2>3 DEF IInv, TypeOK, NrBusy
<1>2. Locking'
  BY DEF IInv, TypeOK, Locking, Loading, NrBusy, Busy, ReturnUnlocked
<1>3. Loading'
  BY DEF IInv, TypeOK, Loading, Undefined, NrBusy, Busy, ReturnUnlocked
<1>4. Inside'
  BY DEF IInv, TypeOK, Inside, Locking, Loading, NrBusy, Busy, ReturnUnlocked
<1>5. Stopped'
  BY DEF IInv, TypeOK, Stopped, Locking, Loading, Inside, TargetsOwned, NrBusy, Busy, ReturnUnlocked
<1>6. TargetsOwned'
  BY DEF IInv, TypeOK, TargetsOwned, Inside, Stopped, Loading, NrBusy, Busy, ReturnUnlocked
<1>7. ASSUME ~raced' PROVE Shape'
  BY <1>7 DEF IInv, TypeOK, Shape, Locking, Loading, Inside, Undefined, Empty, NrBusy, Busy, ReturnUnlocked
<1> QED  BY <1>1, <1>2, <1>3, <1>4, <1>5, <1>6, <1>7 DEF IInv

(* RmPut preserves the inductive invariant.                                 *)
LEMMA RmPutKeeps ==
  ASSUME IInv, ~Undefined, NEW w \in Threads, RmPut(w)
  PROVE  IInv'
<1>1. TypeOK'
  <2>1. pc' \in [Threads -> {"idle", "fault"} \cup PidSteps \cup NrSteps \cup ExitSteps]
    BY DEF IInv, TypeOK, RmPut
  <2>2. dir' \in [Dirs -> {"absent", "present", "removing"}]
    BY DEF IInv, TypeOK, RmPut
  <2> QED  BY <2>1, <2>2 DEF IInv, TypeOK, RmPut
<1>2. Locking'
  BY DEF IInv, TypeOK, Locking, Loading, RmPut
<1>3. Loading'
  BY DEF IInv, TypeOK, Loading, Undefined, RmPut
<1>4. Inside'
  <2>1. slot[w] \in Dirs /\ slot' = slot
    BY DEF IInv, TypeOK, RmPut
  <2>2. CASE dir[slot[w]] # "present" /\ UNCHANGED dir /\ pc' = [pc EXCEPT ![w] = "fault"]
    BY <2>1, <2>2 DEF IInv, TypeOK, Inside
  <2>3. CASE /\ dir[slot[w]] = "present" /\ pc' = [pc EXCEPT ![w] = "rm_wait"]
             /\ dir' = [dir EXCEPT ![slot[w]] = "removing"]
    <3> SUFFICES ASSUME NEW v \in Threads
                 PROVE  /\ pc'[v] \in PidSteps => slot'[v] \in Dirs /\ dir'[slot'[v]] # "absent"
                        /\ pc'[v] = "rm_wait" =>
                             /\ slot'[v] \in Dirs /\ dir'[slot'[v]] = "removing"
                             /\ \A u \in Threads \ {v} : pc'[u] = "rm_wait" => slot'[u] # slot'[v]
      BY DEF Inside
    <3>1. /\ \A u \in Threads \ {w} : pc[u] = "rm_wait" => slot[u] # slot[w]
          /\ \A i \in Dirs : dir'[i] = IF i = slot[w] THEN "removing" ELSE dir[i]
          /\ \A u \in Threads : pc'[u] = IF u = w THEN "rm_wait" ELSE pc[u]
      BY <2>1, <2>3 DEF IInv, TypeOK, Inside
    <3> QED  BY <2>1, <3>1 DEF IInv, TypeOK, Inside
  <2> QED  BY <2>2, <2>3 DEF RmPut
<1>5. Stopped'
  BY DEF IInv, TypeOK, Stopped, Locking, Loading, Inside, TargetsOwned, RmPut
<1>6. TargetsOwned'
  BY DEF IInv, TypeOK, TargetsOwned, Inside, Stopped, Loading, RmPut
<1>7. ASSUME ~raced' PROVE Shape'
  BY <1>7 DEF IInv, TypeOK, Shape, Locking, Loading, Inside, Undefined, Empty, RmPut
<1> QED  BY <1>1, <1>2, <1>3, <1>4, <1>5, <1>6, <1>7 DEF IInv

(* RmRelease preserves the inductive invariant.                             *)
LEMMA RmReleaseKeeps ==
  ASSUME IInv, ~Undefined, NEW w \in Threads, RmRelease(w)
  PROVE  IInv'
<1>1. TypeOK'
  BY DEF IInv, TypeOK, Loading, Inside, RmRelease, Release, Drained
<1>2. Locking'
  BY DEF IInv, TypeOK, Locking, Loading, RmRelease, Release, Drained
<1>3. Loading'
  BY DEF IInv, TypeOK, Loading, Undefined, RmRelease, Release, Drained
<1>4. Inside'
  <2>1. /\ slot[w] \in Dirs /\ pc[w] = "rm_wait"
        /\ \A u \in Threads \ {w} : slot'[u] = slot[u] /\ pc'[u] = pc[u]
        /\ pc'[w] = "rm"
        /\ \A i \in Dirs \ {slot[w]} : dir'[i] = dir[i]
    BY DEF IInv, TypeOK, Inside, RmRelease
  <2>2. \A u \in Threads \ {w} : pc[u] \in PidSteps \cup {"rm_wait"} => slot[u] # slot[w]
    BY <2>1 DEF IInv, Inside, RmRelease, Drained
  <2> QED  BY <2>1, <2>2 DEF IInv, Inside
<1>5. Stopped'
  BY DEF IInv, TypeOK, Stopped, Locking, Loading, Inside, TargetsOwned, RmRelease, Release, Drained
<1>6. TargetsOwned'
  BY DEF IInv, TypeOK, TargetsOwned, Inside, Stopped, Loading, RmRelease, Release, Drained
<1>7. ASSUME ~raced' PROVE Shape'
  BY <1>7 DEF IInv, TypeOK, Shape, Locking, Loading, Inside, Undefined, Empty, RmRelease, Release, Drained
<1> QED  BY <1>1, <1>2, <1>3, <1>4, <1>5, <1>6, <1>7 DEF IInv

(* RmDone preserves the inductive invariant.                                *)
LEMMA RmDoneKeeps ==
  ASSUME IInv, ~Undefined, NEW w \in Threads, RmDone(w)
  PROVE  IInv'
<1>1. TypeOK'
  BY DEF IInv, TypeOK, Loading, Inside, RmDone
<1>2. Locking'
  BY DEF IInv, TypeOK, Locking, Loading, RmDone
<1>3. Loading'
  BY DEF IInv, TypeOK, Loading, Undefined, RmDone
<1>4. Inside'
  BY DEF IInv, TypeOK, Inside, Locking, Loading, RmDone
<1>5. Stopped'
  BY DEF IInv, TypeOK, Stopped, Locking, Loading, Inside, TargetsOwned, RmDone
<1>6. TargetsOwned'
  BY DEF IInv, TypeOK, TargetsOwned, Inside, Stopped, Loading, RmDone
<1>7. ASSUME ~raced' PROVE Shape'
  BY <1>7 DEF IInv, TypeOK, Shape, Locking, Loading, Inside, Undefined, Empty, RmDone
<1> QED  BY <1>1, <1>2, <1>3, <1>4, <1>5, <1>6, <1>7 DEF IInv

(* RmClear preserves the inductive invariant.                               *)
LEMMA RmClearKeeps ==
  ASSUME IInv, ~Undefined, NEW w \in Threads, RmClear(w)
  PROVE  IInv'
<1>1. TypeOK'
  <2>1. pc' \in [Threads -> {"idle", "fault"} \cup PidSteps \cup NrSteps \cup ExitSteps]
    BY DEF IInv, TypeOK, RmClear, ReturnUnlocked
  <2>2. slot' \in [Threads -> 0..MaxDirs] /\ nr' \in 0..MaxDirs
    BY DEF IInv, TypeOK, RmClear
  <2>3. mutex' \in Threads \cup {None}
    BY DEF IInv, TypeOK, RmClear, ReturnUnlocked
  <2>4. array' \in BOOLEAN
    BY DEF RmClear
  <2> QED  BY <2>1, <2>2, <2>3, <2>4 DEF IInv, TypeOK, RmClear
<1>2. Locking'
  BY DEF IInv, TypeOK, Locking, Loading, RmClear, ReturnUnlocked
<1>3. Loading'
  BY DEF IInv, TypeOK, Loading, Undefined, RmClear, ReturnUnlocked
<1>4. Inside'
  BY DEF IInv, TypeOK, Inside, Locking, Loading, RmClear, ReturnUnlocked
<1>5. Stopped'
  BY DEF IInv, TypeOK, Stopped, Locking, Loading, Inside, TargetsOwned, RmClear, ReturnUnlocked
<1>6. TargetsOwned'
  BY DEF IInv, TypeOK, TargetsOwned, Inside, Stopped, Loading, RmClear, ReturnUnlocked
<1>7. ASSUME ~raced' PROVE Shape'
  BY <1>7 DEF IInv, TypeOK, Shape, Locking, Loading, Inside, Undefined, Empty, RmClear, ReturnUnlocked
<1> QED  BY <1>1, <1>2, <1>3, <1>4, <1>5, <1>6, <1>7 DEF IInv

(* AddDir preserves the inductive invariant.                                *)
LEMMA AddDirKeeps ==
  ASSUME IInv, ~Undefined, NEW w \in Threads, AddDir(w)
  PROVE  IInv'
<1>1. TypeOK'
  BY DEF IInv, TypeOK, Loading, Inside, AddDir
<1>2. Locking'
  BY DEF IInv, TypeOK, Locking, Loading, AddDir
<1>3. Loading'
  BY DEF IInv, TypeOK, Loading, Undefined, AddDir
<1>4. Inside'
  BY DEF IInv, TypeOK, Inside, Locking, Loading, AddDir
<1>5. Stopped'
  <2>1. w \in Writers /\ slot[w] \in Dirs /\ target[slot[w]] = None /\ target' = target
    BY DEF IInv, TypeOK, Loading, TargetsOwned, AddDir
  <2>2. \A v \in Writers \ {w} : pc[v] \notin Holding
    BY <2>1 DEF IInv, TypeOK, Locking, AddDir
  <2>3. CASE array /\ nr' = slot[w] + 1 /\ UNCHANGED pc
    BY <2>1, <2>2, <2>3 DEF IInv, TypeOK, Stopped, AddDir
  <2>4. CASE ~array /\ UNCHANGED nr /\ pc' = [pc EXCEPT ![w] = "fault"]
    BY <2>1, <2>2, <2>4 DEF IInv, TypeOK, Stopped, AddDir
  <2> QED  BY <2>3, <2>4 DEF AddDir
<1>6. TargetsOwned'
  BY DEF IInv, TypeOK, TargetsOwned, Inside, Stopped, Loading, AddDir
<1>7. ASSUME ~raced' PROVE Shape'
  BY <1>7 DEF IInv, TypeOK, Shape, Locking, Loading, Inside, Undefined, Empty, AddDir
<1> QED  BY <1>1, <1>2, <1>3, <1>4, <1>5, <1>6, <1>7 DEF IInv

(* AddFails preserves the inductive invariant.                              *)
LEMMA AddFailsKeeps ==
  ASSUME IInv, ~Undefined, NEW w \in Threads, AddFails(w)
  PROVE  IInv'
<1>1. TypeOK'
  BY DEF IInv, TypeOK, Loading, Inside, AddFails
<1>2. Locking'
  BY DEF IInv, TypeOK, Locking, Loading, AddFails
<1>3. Loading'
  BY DEF IInv, TypeOK, Loading, Undefined, AddFails
<1>4. Inside'
  BY DEF IInv, TypeOK, Inside, Locking, Loading, AddFails
<1>5. Stopped'
  BY DEF IInv, TypeOK, Stopped, Locking, Loading, Inside, TargetsOwned, AddFails
<1>6. TargetsOwned'
  BY DEF IInv, TypeOK, TargetsOwned, Inside, Stopped, Loading, AddFails
<1>7. ASSUME ~raced' PROVE Shape'
  BY <1>7 DEF IInv, TypeOK, Shape, Locking, Loading, Inside, Undefined, Empty, AddFails
<1> QED  BY <1>1, <1>2, <1>3, <1>4, <1>5, <1>6, <1>7 DEF IInv

(* AddDone preserves the inductive invariant.                               *)
LEMMA AddDoneKeeps ==
  ASSUME IInv, ~Undefined, NEW w \in Threads, AddDone(w)
  PROVE  IInv'
<1>1. TypeOK'
  BY DEF IInv, TypeOK, Loading, Inside, AddDone, ReturnUnlocked
<1>2. Locking'
  BY DEF IInv, TypeOK, Locking, Loading, AddDone, ReturnUnlocked
<1>3. Loading'
  BY DEF IInv, TypeOK, Loading, Undefined, AddDone, ReturnUnlocked
<1>4. Inside'
  BY DEF IInv, TypeOK, Inside, Locking, Loading, AddDone, ReturnUnlocked
<1>5. Stopped'
  BY DEF IInv, TypeOK, Stopped, Locking, Loading, Inside, TargetsOwned, AddDone, ReturnUnlocked
<1>6. TargetsOwned'
  BY DEF IInv, TypeOK, TargetsOwned, Inside, Stopped, Loading, AddDone, ReturnUnlocked
<1>7. ASSUME ~raced' PROVE Shape'
  BY <1>7 DEF IInv, TypeOK, Shape, Locking, Loading, Inside, Undefined, Empty, AddDone, ReturnUnlocked
<1> QED  BY <1>1, <1>2, <1>3, <1>4, <1>5, <1>6, <1>7 DEF IInv

(* Unload preserves the inductive invariant.                                *)
LEMMA UnloadKeeps ==
  ASSUME IInv, ~Undefined, Unload
  PROVE  IInv'
<1>1. TypeOK'
  BY DEF IInv, TypeOK, Loading, Inside, Unload
<1>2. Locking'
  BY DEF IInv, TypeOK, Locking, Loading, Unload
<1>3. Loading'
  BY DEF IInv, TypeOK, Loading, Undefined, Unload
<1>4. Inside'
  BY DEF IInv, TypeOK, Inside, Locking, Loading, Unload
<1>5. Stopped'
  BY DEF IInv, TypeOK, Stopped, Locking, Loading, Inside, TargetsOwned, Unload
<1>6. TargetsOwned'
  BY DEF IInv, TypeOK, TargetsOwned, Inside, Stopped, Loading, Unload
<1>7. ASSUME ~raced' PROVE Shape'
  <2>1. Shape /\ \A w \in Writers : pc[w] \notin NrSteps
    BY <1>7 DEF IInv, Unload
  <2>2. \A i \in Dirs : i < nr => dir[i] = "present"
    BY <2>1 DEF Shape, Unload
  <2>3. /\ pc'[Rmmod] = "rm" /\ slot'[Rmmod] = 0
        /\ \A w \in Writers : pc'[w] = pc[w] /\ slot'[w] = slot[w]
        /\ UNCHANGED <<dir, nr, loaded, array, arg>>
    BY DEF IInv, TypeOK, Unload
  <2>4. ~Undefined'
    BY <2>1, <2>3 DEF Shape, Undefined
  <2> QED  BY <2>1, <2>2, <2>3, <2>4 DEF IInv, TypeOK, Shape, Empty
<1> QED  BY <1>1, <1>2, <1>3, <1>4, <1>5, <1>6, <1>7 DEF IInv

(* ExitPut preserves the inductive invariant.                               *)
LEMMA ExitPutKeeps ==
  ASSUME IInv, ~Undefined, ExitPut
  PROVE  IInv'
<1>0. PICK p \in {"idle", "fault", "put_wait"} : pc' = [pc EXCEPT ![Rmmod] = p]
  BY DEF ExitPut
<1>1. TypeOK'
  <2>1. pc' \in [Threads -> {"idle", "fault"} \cup PidSteps \cup NrSteps \cup ExitSteps]
    BY <1>0 DEF IInv, TypeOK
  <2>2. loaded' \in BOOLEAN
    BY DEF IInv, TypeOK, ExitPut
  <2> QED  BY <2>1, <2>2 DEF IInv, TypeOK, ExitPut
<1>2. Locking'
  BY DEF IInv, TypeOK, Locking, Loading, ExitPut
<1>3. Loading'
  BY DEF IInv, TypeOK, Loading, Undefined, ExitPut
<1>4. Inside'
  <2>1. UNCHANGED <<dir, target, nr, array, slot>>
    BY DEF ExitPut
  <2> QED  BY <1>0, <2>1 DEF IInv, TypeOK, Inside
<1>5. Stopped'
  <2>1. UNCHANGED <<dir, target, nr, array, slot>>
    BY DEF ExitPut
  <2> QED  BY <1>0, <2>1 DEF IInv, TypeOK, Stopped
<1>6. TargetsOwned'
  BY DEF IInv, TypeOK, TargetsOwned, Inside, Stopped, Loading, ExitPut
<1>7. ASSUME ~raced' PROVE Shape'
  <2>1. Shape /\ Empty /\ nr = 0 /\ \A w \in Writers : pc[w] \notin NrSteps
    BY <1>7 DEF IInv, Shape, ExitPut
  <2>2. /\ pc' = [pc EXCEPT ![Rmmod] = "put_wait"]
        /\ UNCHANGED <<dir, nr, loaded, slot, array, arg>>
    BY <2>1 DEF ExitPut
  <2>3. pc'[Rmmod] = "put_wait" /\ \A w \in Writers : pc'[w] = pc[w]
    BY <2>2 DEF IInv, TypeOK
  <2>4. ~Undefined'
    BY <2>1, <2>3 DEF Shape, Undefined
  <2> QED  BY <2>1, <2>2, <2>3, <2>4 DEF IInv, TypeOK, Shape, Empty
<1> QED  BY <1>1, <1>2, <1>3, <1>4, <1>5, <1>6, <1>7 DEF IInv

(* ExitDone preserves the inductive invariant.                              *)
LEMMA ExitDoneKeeps ==
  ASSUME IInv, ~Undefined, ExitDone
  PROVE  IInv'
<1>1. TypeOK'
  BY DEF IInv, TypeOK, Loading, Inside, ExitDone
<1>2. Locking'
  BY DEF IInv, TypeOK, Locking, Loading, ExitDone
<1>3. Loading'
  BY DEF IInv, TypeOK, Loading, Undefined, ExitDone
<1>4. Inside'
  BY DEF IInv, TypeOK, Inside, Locking, Loading, ExitDone
<1>5. Stopped'
  BY DEF IInv, TypeOK, Stopped, Locking, Loading, Inside, TargetsOwned, ExitDone
<1>6. TargetsOwned'
  BY DEF IInv, TypeOK, TargetsOwned, Inside, Stopped, Loading, ExitDone
<1>7. ASSUME ~raced' PROVE Shape'
  BY <1>7 DEF IInv, TypeOK, Shape, Locking, Loading, Inside, Undefined, Empty, ExitDone
<1> QED  BY <1>1, <1>2, <1>3, <1>4, <1>5, <1>6, <1>7 DEF IInv

(* Load preserves the inductive invariant.                                  *)
LEMMA LoadKeeps ==
  ASSUME IInv, ~Undefined, Load
  PROVE  IInv'
<1>1. TypeOK'
  <2>1. loaded' \in BOOLEAN /\ array' \in BOOLEAN /\ raced' \in BOOLEAN
    BY DEF IInv, TypeOK, Load
  <2>2. nr' \in 0..MaxDirs
    BY DEF IInv, TypeOK, Load
  <2> QED  BY <2>1, <2>2 DEF IInv, TypeOK, Load
<1>2. Locking'
  BY DEF IInv, TypeOK, Locking, Loading, Load
<1>3. Loading'
  BY DEF IInv, TypeOK, Loading, Undefined, Load
<1>4. Inside'
  BY DEF IInv, TypeOK, Inside, Locking, Loading, Load
<1>5. Stopped'
  BY DEF IInv, TypeOK, Stopped, Locking, Loading, Inside, TargetsOwned, Load
<1>6. TargetsOwned'
  BY DEF IInv, TypeOK, TargetsOwned, Inside, Stopped, Loading, Load
<1>7. ASSUME ~raced' PROVE Shape'
  BY <1>7 DEF IInv, TypeOK, Shape, Locking, Loading, Inside, Undefined, Empty, Load
<1> QED  BY <1>1, <1>2, <1>3, <1>4, <1>5, <1>6, <1>7 DEF IInv

-----------------------------------------------------------------------------
(* The module starts in the inductive invariant, with no directory at all.  *)
LEMMA InitKeeps == Init => IInv
<1>1. Init => TypeOK
  <2>1. Init => /\ pc \in [Threads -> {"idle"}] /\ slot \in [Threads -> {0}]
                /\ arg \in [Threads -> {0}]
    BY DEF Init
  <2>2. Init => /\ dir \in [Dirs -> {"absent"}] /\ target \in [Dirs -> {None}]
                /\ loaded \in BOOLEAN /\ array \in BOOLEAN /\ raced \in BOOLEAN
                /\ running = {} /\ nr = 0 /\ mutex = None
    BY DEF Init
  <2> QED  BY <2>1, <2>2 DEF TypeOK
<1>2. Init => Locking /\ Loading /\ Inside
  BY DEF Init, Locking, Loading, Inside
<1>3. Init => Stopped /\ TargetsOwned
  BY DEF Init, Stopped, TargetsOwned
<1>4. Init => Shape
  BY DEF Init, Shape, Undefined, Empty
<1> QED  BY <1>1, <1>2, <1>3, <1>4 DEF IInv

(* No step of a writer, of the unloading or of the loading leaves it.       *)
LEMMA NextKeeps ==
  ASSUME IInv, [Next]_vars
  PROVE  IInv'
<1>1. CASE UNCHANGED vars
  BY <1>1 DEF vars, IInv, TypeOK, Locking, Loading, Inside, Shape, Stopped, TargetsOwned,
              Undefined, Empty
<1>2. CASE ~Undefined /\ Unload  BY <1>2, UnloadKeeps
<1>3. CASE ~Undefined /\ Load  BY <1>3, LoadKeeps
<1>4. ASSUME NEW w \in Writers, NEW i \in Dirs, NEW pid \in {-1, Pid},
             ~Undefined, PidStore(w, i, pid)
      PROVE  IInv'
  BY <1>4, PidStoreKeeps
<1>5. ASSUME NEW w \in Writers, NEW n \in 0..MaxDirs, ~Undefined, NrStore(w, n)
      PROVE  IInv'
  BY <1>5, NrStoreKeeps
<1>6. ASSUME NEW w \in Threads, Step(w)
      PROVE  IInv'
  <2>0. ~Undefined
    BY <1>6 DEF Step
  <2>1. CASE PidLock(w)  BY <2>0, <2>1, PidLockKeeps
  <2>2. CASE PidDrop(w)  BY <2>0, <2>2, PidDropKeeps
  <2>3. CASE PidNew(w)  BY <2>0, <2>3, PidNewKeeps
  <2>4. CASE NrLock(w)  BY <2>0, <2>4, NrLockKeeps
  <2>5. CASE NrBusy(w)  BY <2>0, <2>5, NrBusyKeeps
  <2>6. CASE RmPut(w)  BY <2>0, <2>6, RmPutKeeps
  <2>7. CASE RmRelease(w)  BY <2>0, <2>7, RmReleaseKeeps
  <2>8. CASE RmDone(w)  BY <2>0, <2>8, RmDoneKeeps
  <2>9. CASE RmClear(w)  BY <2>0, <2>9, RmClearKeeps
  <2>10. CASE AddDir(w)  BY <2>0, <2>10, AddDirKeeps
  <2>11. CASE AddFails(w)  BY <2>0, <2>11, AddFailsKeeps
  <2>12. CASE AddDone(w)  BY <2>0, <2>12, AddDoneKeeps
  <2>13. CASE ExitPut  BY <2>0, <2>13, ExitPutKeeps
  <2>14. CASE ExitDone  BY <2>0, <2>14, ExitDoneKeeps
  <2> QED
    BY <1>6, <2>1, <2>2, <2>3, <2>4, <2>5, <2>6, <2>7, <2>8, <2>9, <2>10, <2>11,
       <2>12, <2>13, <2>14 DEF Step
<1> QED  BY <1>1, <1>2, <1>3, <1>4, <1>5, <1>6 DEF Next, Call

(* The inductive invariant holds of every state of the control interface.   *)
LEMMA Invariant == Spec => []IInv
<1>1. Init => IInv  BY InitKeeps
<1>2. IInv /\ [Next]_vars => IInv'  BY NextKeeps
<1> QED  BY <1>1, <1>2, PTL DEF Spec

(* Every variable of the control interface stays in its type: in            *)
(* particular no loop over the directories runs past the end of the array.  *)
THEOREM TypeCorrect == Spec => []TypeOK
<1>1. IInv => TypeOK  BY DEF IInv
<1> QED  BY <1>1, Invariant, PTL

(* The targets that target_new() has made and nobody dropped are those the  *)
(* existing directories point to, each from one directory, however writes   *)
(* to pid, writes to nr_targets and the removal of the module interleave,   *)
(* up to a step that is undefined.                                          *)
THEOREM TargetsOwnedHolds == Spec => []TargetsOwned
<1>1. IInv => TargetsOwned  BY DEF IInv
<1> QED  BY <1>1, Invariant, PTL

(* The unloading, which takes no lock against a write to pid, leaves        *)
(* neither a directory nor a running target, and no thread uses what was    *)
(* freed, unless a write to nr_targets was in progress during the unloading *)
(* (raced): then demeter_sysfs_exit() ensures nothing of the kind.          *)
THEOREM UnloadedQuietHolds == Spec => []UnloadedQuiet
<1>1. IInv => UnloadedQuiet
  <2> SUFFICES ASSUME IInv, ~raced
               PROVE  ~Undefined /\ (~loaded => running = {} /\ Empty)
    BY DEF UnloadedQuiet
  <2>1. ~Undefined
    BY DEF IInv, Shape
  <2>2. ASSUME ~loaded
        PROVE  Empty
    BY <2>2 DEF IInv, Shape, Empty
  <2>3. ASSUME ~loaded
        PROVE  running = {}
    BY <2>2, <2>3 DEF IInv, TargetsOwned, Empty
  <2> QED  BY <2>1, <2>2, <2>3
<1> QED  BY <1>1, Invariant, PTL

(* A step that stops a running target is a write to the pid file of its     *)
(* directory, or the release of a directory by the unloading.               *)
LEMMA StopStep ==
  ASSUME IInv, [Next]_vars, NEW t \in running \ running'
  PROVE  \/ pc[Rmmod] = "rm_wait"
         \/ \E w \in Writers : pc[w] = "pid_drop" /\ target[slot[w]] = t
<1>1. PICK w \in Threads : PidDrop(w) \/ RmRelease(w)
  BY DEF Next, Call, Step, vars, Unload, Load, PidStore, NrStore, PidLock, PidNew, NrLock,
         NrBusy, RmPut, RmDone, RmClear, AddDir, AddFails, AddDone, ExitPut, ExitDone
<1>2. CASE PidDrop(w)
  <2>1. w \in Writers
    BY <1>2 DEF IInv, Loading, PidDrop
  <2> QED  BY <1>2, <2>1 DEF PidDrop
<1>3. CASE RmRelease(w)
  <2>1. t = target[slot[w]] /\ t # None
    BY <1>3 DEF IInv, TypeOK, RmRelease, Release
  <2>2. w \notin Writers
    BY <1>3, <2>1 DEF IInv, Stopped, RmRelease
  <2> QED  BY <1>3, <2>2 DEF RmRelease
<1> QED  BY <1>1, <1>2, <1>3

(* A running target is stopped only by a write to the pid file of its own   *)
(* directory or by unloading the module: a write to nr_targets never stops  *)
(* one, since none runs when it has passed demeter_sysfs_targets_busy() and *)
(* none can start before it unlocks.                                        *)
THEOREM StoppedOnRequestHolds == Spec => StoppedOnRequest
<1>1. IInv /\ [Next]_vars =>
        [\A t \in running \ running' :
           \/ pc[Rmmod] = "rm_wait"
           \/ \E w \in Writers : pc[w] = "pid_drop" /\ target[slot[w]] = t]_vars
  BY StopStep
<1> QED  BY <1>1, Invariant, PTL DEF Spec, StoppedOnRequest

=============================================================================
