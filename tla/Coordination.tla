---------------------------- MODULE Coordination ----------------------------
(***************************************************************************)
(* How caches over the same roots tell the living from the dead (byte.rs,   *)
(* coordination.rs, lease.rs): the staging directory of each cache with its *)
(* .owner sentinel, the <pid>.lock sentinel of each process, and the        *)
(* .writer file of SharedSingleWriter.  What recovery does to the index     *)
(* once it knows who is alive is in ByteStore.                              *)
(*                                                                         *)
(* A step is one call of the operating system.  An flock belongs to an open *)
(* file, hence to an inode and not to its path, and dies with its process.  *)
(* A directory listing is a snapshot, and the removal of a directory is one *)
(* step.  A process keeps its PID over a restart, as in a container.        *)
(***************************************************************************)
EXTENDS Naturals, FiniteSets

CONSTANTS
  Procs,       \* the processes, which stand for their PIDs
  Instances,   \* the caches that they open, one open of each at a time
  Deployments, \* their processes, and which are opened as SharedSingleWriter
  MaxOpens,    \* bound: opens in a behaviour
  MaxFills,    \* bound: streaming fills in a behaviour
  MaxCrashes,  \* bound: crashes in a behaviour
  None

Dirs == 1 .. MaxOpens                            \* instance_staging_name
Inodes == 1 .. (2 * Cardinality(Procs) + Cardinality(Instances))

ASSUME ShapeAssumption == /\ Deployments \subseteq [procs : [Instances -> Procs],
                                                     writers : SUBSET Instances]
                          /\ None \notin Procs \cup Instances \cup Dirs \cup Inodes
ASSUME FiniteAssumption == IsFiniteSet(Procs) /\ IsFiniteSet(Instances)
ASSUME BoundsAssumption == MaxOpens \in Nat /\ MaxFills \in Nat /\ MaxCrashes \in Nat

VARIABLES
  pc,         \* where the thread that opens, uses or drops each cache is
  todo,       \* the directories, or PIDs, that its sweep has still to examine
  at,         \* the one it is examining
  fd,         \* the sentinel file of a process that it has open
  dir,        \* its own staging directory, or None
  filling,    \* whether a StreamingPut of it is spooling
  dirs,       \* the staging directories: there, with .owner, with the file of
              \* the fill; and the PID in the name
  owned,      \* the directories whose .owner its cache has locked
  path,       \* the inode at <pid>.lock, or None
  flock,      \* who has locked each of those inodes: a process, or a probe
  sentinel,   \* Arc<CacheProcess> of each process: its inode and references
  registry,   \* who holds the mutex of sentinel_registry, in each process
  writer,     \* whether .writer exists
  dep,        \* the deployment of this behaviour
  opens, fills, crashes,
  early,      \* history: caches whose directory was condemned before its lock
  dead,       \* history: the debris that was there when each sweep began
  abandoned   \* history: whether a writer has crashed

staging == <<dirs, owned, early, dead>>
sentinels == <<path, flock, sentinel, registry, fd>>
rendezvous == <<writer, abandoned>>
bounds == <<dep, opens, fills, crashes>>
vars == <<pc, todo, at, dir, filling, staging, sentinels, rendezvous, bounds>>

NoDir == [there |-> FALSE, owner |-> FALSE, work |-> FALSE, pid |-> None]

Init ==
  /\ dep \in Deployments
  /\ pc = [i \in Instances |-> "closed"]
  /\ todo = [i \in Instances |-> {}] /\ at = [i \in Instances |-> None]
  /\ fd = [i \in Instances |-> None] /\ dir = [i \in Instances |-> None]
  /\ filling = [i \in Instances |-> FALSE]
  /\ dirs = [d \in Dirs |-> NoDir] /\ owned = {}
  /\ path = [p \in Procs |-> None] /\ flock = [n \in Inodes |-> None]
  /\ sentinel = [p \in Procs |-> [inode |-> None, refs |-> 0]]
  /\ registry = [p \in Procs |-> None]
  /\ writer = FALSE
  /\ opens = 0 /\ fills = 0 /\ crashes = 0
  /\ early = {} /\ dead = [i \in Instances |-> {}] /\ abandoned = FALSE

At(i, label) == pc[i] = label
Goto(i, label) == pc' = [pc EXCEPT ![i] = label]
Self(i) == dep.procs[i]
-----------------------------------------------------------------------------
(* sweep_orphan_staging.                                                   *)

There == {d \in Dirs : dirs[d].there}
Debris == {d \in There : dirs[d].owner /\ \A i \in Instances : dir[i] # d}

(* open_with_options begins with the sweep.                                 *)
Open(i) ==
  /\ At(i, "closed") /\ opens < MaxOpens
  /\ opens' = opens + 1
  /\ todo' = [todo EXCEPT ![i] = There]
  /\ dead' = [dead EXCEPT ![i] = Debris]
  /\ early' = early \ {i}
  /\ Goto(i, "sweep")
  /\ UNCHANGED <<at, dir, filling, dirs, owned, sentinels, rendezvous, dep, fills, crashes>>

Condemn(i, d) ==
  /\ Goto(i, "sw_reap")
  /\ early' = early \cup {j \in Instances : dir[j] = d /\ pc[j] \in {"ow_open", "ow_lock"}}

Examine(i, d) == at' = [at EXCEPT ![i] = d]
Leave(i) == at' = [at EXCEPT ![i] = None]

(* staging_owner_is_dead                                                    *)
ProcessDead(p) == path[p] # None => flock[path[p]] = None
ForeignDead(i, d) == dirs[d].pid # Self(i) /\ ProcessDead(dirs[d].pid)

(* instance_dir_is_orphan: without a sentinel the process lock decides, and *)
(* a directory of the sweeper's own PID is spared.                          *)
(* SwOpenByPid is a mutation: the PID is looked at first.                   *)
SwOpenAs(i, d, bySentinel) ==
  /\ At(i, "sweep") /\ d \in todo[i]
  /\ todo' = [todo EXCEPT ![i] = @ \ {d}]
  /\ \/ bySentinel /\ Examine(i, d) /\ Goto(i, "sw_try") /\ UNCHANGED early
     \/ ~bySentinel /\ ForeignDead(i, d) /\ Examine(i, d) /\ Condemn(i, d)
     \/ ~bySentinel /\ ~ForeignDead(i, d) /\ UNCHANGED <<pc, at, early>>
  /\ UNCHANGED <<dir, filling, dirs, owned, dead, sentinels, rendezvous, bounds>>
SwOpenByPid(i, d) == SwOpenAs(i, d, dirs[d].owner /\ dirs[d].pid # Self(i))
SwOpen(i, d) == SwOpenAs(i, d, dirs[d].owner)

(* try_lock_exclusive fails against the owner and against another sweep.    *)
Probed(d) == \E j \in Instances : At(j, "sw_held") /\ at[j] = d
SwTry(i) ==
  /\ At(i, "sw_try")
  /\ IF at[i] \in owned \/ Probed(at[i]) THEN Leave(i) /\ Goto(i, "sweep")
                                         ELSE UNCHANGED at /\ Goto(i, "sw_held")
  /\ UNCHANGED <<todo, dir, filling, staging, sentinels, rendezvous, bounds>>

(* The probe's file is closed before the directory is removed.              *)
SwClose(i) ==
  /\ At(i, "sw_held")
  /\ Condemn(i, at[i])
  /\ UNCHANGED <<todo, at, dir, filling, dirs, owned, dead, sentinels, rendezvous, bounds>>

Remove(d) == dirs' = [dirs EXCEPT ![d] = [NoDir EXCEPT !.pid = dirs[d].pid]]

SwReap(i) ==
  /\ At(i, "sw_reap")
  /\ Remove(at[i])
  /\ Leave(i) /\ Goto(i, "sweep")
  /\ UNCHANGED <<todo, dir, filling, owned, early, dead, sentinels, rendezvous, bounds>>

SwEnd(i) ==
  /\ At(i, "sweep") /\ todo[i] = {}
  /\ Goto(i, "mkdir")
  /\ UNCHANGED <<todo, at, dir, filling, staging, sentinels, rendezvous, bounds>>
-----------------------------------------------------------------------------
(* The staging directory of this cache, and its sentinel.                  *)

NextDir == CHOOSE d \in Dirs : dirs[d].pid = None /\ \A e \in Dirs : e < d => dirs[e].pid # None

MakeDir(i) ==
  /\ At(i, "mkdir")
  /\ dir' = [dir EXCEPT ![i] = NextDir]
  /\ dirs' = [dirs EXCEPT ![NextDir] = [NoDir EXCEPT !.there = TRUE, !.pid = Self(i)]]
  /\ dead' = [dead EXCEPT ![i] = {}]
  /\ Goto(i, "ow_open")
  /\ UNCHANGED <<todo, at, filling, owned, early, sentinels, rendezvous, bounds>>

(* acquire_staging_owner_lock; its open fails if the directory is gone.     *)
(* OwOpenDrops is a mutation: the failure drops a cache as a whole.         *)
OwOpenAs(i, failed) ==
  /\ At(i, "ow_open")
  /\ \/ /\ dirs[dir[i]].there
        /\ dirs' = [dirs EXCEPT ![dir[i]].owner = TRUE]
        /\ Goto(i, "ow_lock") /\ UNCHANGED dir
     \/ /\ ~dirs[dir[i]].there
        /\ dir' = [dir EXCEPT ![i] = None]
        /\ Goto(i, failed) /\ UNCHANGED dirs
  /\ UNCHANGED <<todo, at, filling, owned, early, dead, sentinels, rendezvous, bounds>>
OwOpenDrops(i) == OwOpenAs(i, "dr_proc")
OwOpen(i) == OwOpenAs(i, "closed")

(* OwLockDropped is a mutation: the locked file is not kept.                *)
OwLockWith(i, kept) ==
  /\ At(i, "ow_lock") /\ ~Probed(dir[i])
  /\ owned' = owned \cup kept
  /\ Goto(i, "se_get")
  /\ UNCHANGED <<todo, at, dir, filling, dirs, early, dead, sentinels, rendezvous, bounds>>
OwLockDropped(i) == OwLockWith(i, {})
OwLock(i) == OwLockWith(i, {dir[i]})
-----------------------------------------------------------------------------
(* The index is opened and migrated; if that fails, the directory stays.    *)
IndexFails(i) ==
  /\ At(i, "se_get")
  /\ Goto(i, "dr_owner")
  /\ UNCHANGED <<todo, at, dir, filling, staging, sentinels, rendezvous, bounds>>
-----------------------------------------------------------------------------
(* process_sentinel.                                                       *)

InUse == {path[p] : p \in Procs} \cup {fd[i] : i \in Instances}
         \cup {sentinel[p].inode : p \in Procs}
FreshInode == CHOOSE n \in Inodes : n \notin InUse

(* A live sentinel is shared; otherwise the file is opened or created.      *)
SeGet(i) ==
  LET p == Self(i)
      n == IF path[p] = None THEN FreshInode ELSE path[p] IN
  /\ At(i, "se_get") /\ registry[p] = None
  /\ \/ /\ sentinel[p].refs > 0
        /\ sentinel' = [sentinel EXCEPT ![p].refs = @ + 1]
        /\ Goto(i, "writer") /\ UNCHANGED <<path, registry, fd>>
     \/ /\ sentinel[p].refs = 0
        /\ registry' = [registry EXCEPT ![p] = i]
        /\ path' = [path EXCEPT ![p] = n] /\ fd' = [fd EXCEPT ![i] = n]
        /\ Goto(i, "se_lock") /\ UNCHANGED sentinel
  /\ UNCHANGED <<todo, at, dir, filling, staging, flock, rendezvous, bounds>>

(* lock_exclusive blocks, with the mutex of the registry held.              *)
SeLock(i) ==
  LET p == Self(i) IN
  /\ At(i, "se_lock") /\ flock[fd[i]] = None
  /\ flock' = [flock EXCEPT ![fd[i]] = p]
  /\ sentinel' = [sentinel EXCEPT ![p] = [inode |-> fd[i], refs |-> 1]]
  /\ registry' = [registry EXCEPT ![p] = None]
  /\ fd' = [fd EXCEPT ![i] = None]
  /\ Goto(i, "writer")
  /\ UNCHANGED <<todo, at, dir, filling, staging, path, rendezvous, bounds>>

(* acquire_writer_rendezvous: O_EXCL.  No ByteCache exists yet that would   *)
(* release the file in its drop.                                            *)
(* AcquireWriterShared is a mutation: create instead of create_new.         *)
AcquireAs(i, free) ==
  /\ At(i, "writer")
  /\ writer' = (writer \/ i \in dep.writers)
  /\ Goto(i, IF i \in dep.writers /\ ~free THEN "dr_proc" ELSE "rv_list")
  /\ UNCHANGED <<todo, at, dir, filling, staging, sentinels, abandoned, bounds>>
AcquireWriterShared(i) == AcquireAs(i, TRUE)
AcquireWriter(i) == AcquireAs(i, ~writer)
-----------------------------------------------------------------------------
(* The liveness sweep of recover_internal.                                 *)

RvList(i) ==
  /\ At(i, "rv_list")
  /\ todo' = [todo EXCEPT ![i] = {p \in Procs : path[p] # None} \ {Self(i)}]
  /\ Goto(i, "recover")
  /\ UNCHANGED <<at, dir, filling, staging, sentinels, rendezvous, bounds>>

RvOpen(i, p) ==
  /\ At(i, "recover") /\ p \in todo[i]
  /\ todo' = [todo EXCEPT ![i] = @ \ {p}]
  /\ IF path[p] = None THEN UNCHANGED <<pc, at>> ELSE Examine(i, p) /\ Goto(i, "rv_try")
  /\ fd' = [fd EXCEPT ![i] = path[p]]
  /\ UNCHANGED <<dir, filling, staging, path, flock, sentinel, registry, rendezvous, bounds>>

RvTry(i) ==
  /\ At(i, "rv_try")
  /\ \/ /\ flock[fd[i]] = None
        /\ flock' = [flock EXCEPT ![fd[i]] = i]
        /\ Goto(i, "rv_unlock") /\ UNCHANGED <<fd, at>>
     \/ /\ flock[fd[i]] # None
        /\ fd' = [fd EXCEPT ![i] = None]
        /\ Leave(i) /\ Goto(i, "recover") /\ UNCHANGED flock
  /\ UNCHANGED <<todo, dir, filling, staging, path, sentinel, registry, rendezvous, bounds>>

RvUnlock(i) ==
  /\ At(i, "rv_unlock")
  /\ flock' = [flock EXCEPT ![fd[i]] = None]
  /\ Goto(i, "rv_unlink")
  /\ UNCHANGED <<todo, at, dir, filling, staging, path, sentinel, registry, fd, rendezvous, bounds>>

(* remove_file takes whatever is at the path by now.                        *)
RvUnlink(i) ==
  /\ At(i, "rv_unlink")
  /\ path' = [path EXCEPT ![at[i]] = None]
  /\ fd' = [fd EXCEPT ![i] = None]
  /\ Leave(i) /\ Goto(i, "recover")
  /\ UNCHANGED <<todo, dir, filling, staging, flock, sentinel, registry, rendezvous, bounds>>

(* The cache is ready; or the index fails and the new cache is dropped.     *)
RvEnd(i) ==
  /\ At(i, "recover") /\ todo[i] = {}
  /\ \/ Goto(i, "open") \/ Goto(i, "dr_writer")
  /\ UNCHANGED <<todo, at, dir, filling, staging, sentinels, rendezvous, bounds>>
-----------------------------------------------------------------------------
(* A StreamingPut: begin_streaming_put makes the directory again if need be. *)

BeginFill(i) ==
  /\ At(i, "open") /\ ~filling[i] /\ fills < MaxFills
  /\ fills' = fills + 1
  /\ filling' = [filling EXCEPT ![i] = TRUE]
  /\ dirs' = [dirs EXCEPT ![dir[i]].there = TRUE, ![dir[i]].work = TRUE]
  /\ UNCHANGED <<pc, todo, at, dir, owned, early, dead, sentinels, rendezvous, dep, opens, crashes>>

EndFill(i) ==
  /\ filling[i]
  /\ filling' = [filling EXCEPT ![i] = FALSE]
  /\ dirs' = [dirs EXCEPT ![dir[i]].work = FALSE]
  /\ UNCHANGED <<pc, todo, at, dir, owned, early, dead, sentinels, rendezvous, bounds>>
-----------------------------------------------------------------------------
(* The drop of a ByteCache.  A fill keeps it alive.                        *)

Close(i) ==
  /\ At(i, "open") /\ ~filling[i]
  /\ Goto(i, "dr_writer")
  /\ UNCHANGED <<todo, at, dir, filling, staging, sentinels, rendezvous, bounds>>

DrWriter(i) ==
  /\ At(i, "dr_writer")
  /\ writer' = (writer /\ i \notin dep.writers)
  /\ Goto(i, "dr_dir")
  /\ UNCHANGED <<todo, at, dir, filling, staging, sentinels, abandoned, bounds>>

DrDir(i) ==
  /\ At(i, "dr_dir")
  /\ Remove(dir[i])
  /\ Goto(i, "dr_proc")
  /\ UNCHANGED <<todo, at, dir, filling, owned, early, dead, sentinels, rendezvous, bounds>>

(* The fields follow: Arc<CacheProcess>, with CacheProcess::drop after the  *)
(* last reference, then the owner lock.                                     *)
DrProc(i) ==
  LET p == Self(i)
      last == sentinel[p].refs = 1 IN
  /\ At(i, "dr_proc")
  /\ sentinel' = [sentinel EXCEPT ![p] = IF last THEN [inode |-> None, refs |-> 0]
                                                 ELSE [inode |-> @.inode, refs |-> @.refs - 1]]
  /\ fd' = [fd EXCEPT ![i] = IF last THEN sentinel[p].inode ELSE None]
  /\ Goto(i, IF last THEN "dr_unlock" ELSE "dr_owner")
  /\ UNCHANGED <<todo, at, dir, filling, staging, path, flock, registry, rendezvous, bounds>>

(* DrUnlockRegistered is a mutation: the entry is taken from the registry   *)
(* first, under its mutex.                                                  *)
DrUnlockAs(i, allowed) ==
  /\ At(i, "dr_unlock") /\ allowed
  /\ flock' = [flock EXCEPT ![fd[i]] = None]
  /\ fd' = [fd EXCEPT ![i] = None]
  /\ Goto(i, "dr_unlink")
  /\ UNCHANGED <<todo, at, dir, filling, staging, path, sentinel, registry, rendezvous, bounds>>
DrUnlockRegistered(i) == DrUnlockAs(i, registry[Self(i)] = None)
DrUnlock(i) == DrUnlockAs(i, TRUE)

DrUnlink(i) ==
  /\ At(i, "dr_unlink")
  /\ path' = [path EXCEPT ![Self(i)] = None]
  /\ Goto(i, "dr_owner")
  /\ UNCHANGED <<todo, at, dir, filling, staging, flock, sentinel, registry, fd, rendezvous, bounds>>

DrOwner(i) ==
  /\ At(i, "dr_owner")
  /\ owned' = owned \ {dir[i]}
  /\ dir' = [dir EXCEPT ![i] = None]
  /\ Goto(i, "closed")
  /\ UNCHANGED <<todo, at, filling, dirs, early, dead, sentinels, rendezvous, bounds>>
-----------------------------------------------------------------------------
(* A process dies: the operating system drops its locks, and nothing else.  *)
HoldsWriter(i) == i \in dep.writers /\ pc[i] \in {"rv_list", "recover", "rv_try", "rv_unlock",
                                              "rv_unlink", "open", "dr_writer"}

Crash(p) ==
  LET mine == {i \in Instances : Self(i) = p}
      Reset(f, v) == [i \in Instances |-> IF i \in mine THEN v ELSE f[i]] IN
  /\ crashes < MaxCrashes
  /\ crashes' = crashes + 1
  /\ pc' = Reset(pc, "closed") /\ todo' = Reset(todo, {}) /\ at' = Reset(at, None)
  /\ fd' = Reset(fd, None) /\ dir' = Reset(dir, None) /\ filling' = Reset(filling, FALSE)
  /\ owned' = owned \ {dir[i] : i \in mine}
  /\ flock' = [n \in Inodes |-> IF flock[n] \in mine \cup {p} THEN None ELSE flock[n]]
  /\ sentinel' = [sentinel EXCEPT ![p] = [inode |-> None, refs |-> 0]]
  /\ registry' = [registry EXCEPT ![p] = None]
  /\ abandoned' = (abandoned \/ \E i \in mine : HoldsWriter(i))
  \* what a dying sweep had condemned is left to the next one
  /\ dead' = [i \in Instances |-> IF i \in mine THEN {} ELSE dead[i] \ {at[j] : j \in mine}]
  /\ UNCHANGED <<dirs, path, writer, early, dep, opens, fills>>
-----------------------------------------------------------------------------
Step(i) ==
  \/ \E d \in Dirs : SwOpen(i, d)
  \/ SwTry(i) \/ SwClose(i) \/ SwReap(i) \/ SwEnd(i)
  \/ MakeDir(i) \/ OwOpen(i) \/ OwLock(i)
  \/ IndexFails(i) \/ SeGet(i) \/ SeLock(i) \/ AcquireWriter(i) \/ RvList(i)
  \/ \E p \in Procs : RvOpen(i, p)
  \/ RvTry(i) \/ RvUnlock(i) \/ RvUnlink(i) \/ RvEnd(i)
  \/ DrWriter(i) \/ DrDir(i) \/ DrProc(i) \/ DrUnlock(i) \/ DrUnlink(i) \/ DrOwner(i)

Next ==
  \/ \E i \in Instances : Open(i) \/ Step(i) \/ BeginFill(i) \/ EndFill(i) \/ Close(i)
  \/ \E p \in Procs : Crash(p)

Spec == Init /\ [][Next]_vars

(* A thread inside an open or a drop is scheduled again; nobody has to open, *)
(* fill or close anything.                                                  *)
FairSpec == Spec /\ \A i \in Instances : WF_vars(Step(i))
-----------------------------------------------------------------------------
Sweeping == {"sw_try", "sw_held", "sw_reap"}
Probing == {"rv_try", "rv_unlock", "rv_unlink"}
Labels == Sweeping \cup Probing
          \cup {"closed", "sweep", "mkdir", "ow_open", "ow_lock", "se_get", "se_lock", "writer",
                "rv_list", "recover", "open", "dr_writer", "dr_dir", "dr_proc", "dr_unlock", "dr_unlink",
                "dr_owner"}

(* Type correctness of the threads, the directories and the sentinels of    *)
(* open_with_options; no reference to a CacheProcess is given back twice.   *)
TypeOK ==
  /\ pc \in [Instances -> Labels]
  /\ todo \in [Instances -> SUBSET (Dirs \cup Procs)]
  /\ at \in [Instances -> Dirs \cup Procs \cup {None}]
  /\ fd \in [Instances -> Inodes \cup {None}]
  /\ dir \in [Instances -> Dirs \cup {None}]
  /\ filling \in [Instances -> BOOLEAN]
  /\ dirs \in [Dirs -> [there : BOOLEAN, owner : BOOLEAN, work : BOOLEAN,
                        pid : Procs \cup {None}]]
  /\ owned \subseteq Dirs
  /\ path \in [Procs -> Inodes \cup {None}]
  /\ flock \in [Inodes -> Procs \cup Instances \cup {None}]
  /\ sentinel \in [Procs -> [inode : Inodes \cup {None}, refs : 0 .. Cardinality(Instances)]]
  /\ registry \in [Procs -> Instances \cup {None}]
  /\ writer \in BOOLEAN /\ dep \in Deployments
  /\ opens \in 0 .. MaxOpens /\ fills \in 0 .. MaxFills /\ crashes \in 0 .. MaxCrashes
  /\ early \subseteq Instances /\ dead \in [Instances -> SUBSET Dirs] /\ abandoned \in BOOLEAN

(* SharedSingleWriter: no two caches are writers at once, and .writer is    *)
(* there exactly while one is, whatever order opens are refused, fail and   *)
(* are dropped in; but after the crash of a writer it stays for ever, and   *)
(* with it the refusal of every later writer.                               *)
WriterExclusive ==
  /\ \A i, j \in Instances : HoldsWriter(i) /\ HoldsWriter(j) => i = j
  /\ writer <=> (abandoned \/ \E i \in Instances : HoldsWriter(i))
  /\ abandoned => \A i \in Instances : ~HoldsWriter(i)

(* The file of a fill in progress is not swept by another cache's open,     *)
(* except by one that examined the directory before open_with_options had   *)
(* locked .owner.                                                           *)
FillKept == \A i \in Instances : filling[i] => dirs[dir[i]].work \/ i \in early

(* The sweep of an open leaves no directory, with a sentinel, of a cache    *)
(* that was dead when it began, whatever PID it had; except one that a      *)
(* concurrent sweep has in hand.                                            *)
Reclaimed ==
  \A i \in Instances : At(i, "mkdir") =>
    \A d \in dead[i] \cap There : \E j \in Instances : pc[j] \in Sweeping /\ at[j] = d

(* Neither an open nor a drop waits for ever, the locks of files and of the *)
(* registry included: as opens are bounded, all of them are over in the end. *)
OpensReturn == []<>(\A i \in Instances : pc[i] \in {"closed", "open"})
=============================================================================
