----------------------------- MODULE ByteStore -----------------------------
(***************************************************************************)
(* The content-addressed byte store of ovstorage-cache (byte.rs, lease.rs).  *)
(*                                                                         *)
(* One pair of roots (a SQLite index and a directory of blobs) is shared by *)
(* several cache instances, each in a process of its own, each used by     *)
(* several threads.  A step of the model is one SQL statement, one whole   *)
(* IMMEDIATE transaction, or one file-system call: these are what the      *)
(* program can be interrupted between.  Three locks order the steps:       *)
(*   mutex[i]    the process-local mutex around instance i's connection;   *)
(*   writer      SQLite's write lock, held by an open transaction and      *)
(*               awaited by every statement that writes;                   *)
(*   keylock[t]  the flock that serialises the fills of target t.          *)
(*                                                                         *)
(* A blob is named by the digest of its bytes, so a key stands for its     *)
(* content.  pin_count is left out: no code ever raises it from zero.  The *)
(* access times are left out with it: the clock they come from is neither  *)
(* strictly increasing nor shared, so eviction may take rows in any order. *)
(***************************************************************************)
EXTENDS Naturals, FiniteSets

CONSTANTS
  Instances,     \* cache instances over the same roots, one per process
  Threads,       \* the threads that call them
  InstanceOf,    \* the instance each thread belongs to
  ReadOnly,      \* the instances opened in ReadOnly coordination
  Targets,       \* the resolved targets that `entries` is indexed by
  Prefixes,      \* the sets of targets that share a key prefix
  Keys,          \* the CAS keys
  Size,          \* the size of each key's content
  MaxBytes,      \* the size budget, or None for an uncapped cache
  Ops,           \* the operations the callers use
  MaxOps,        \* bound: calls made in a behaviour
  MaxCrashes,    \* bound: process crashes in a behaviour
  IoFaults,      \* whether a link or an unlink may fail
  Corruptible,   \* the blobs whose file may be damaged from outside
  None           \* no key, no thread, no target

ASSUME ThreadsAssumption == /\ InstanceOf \in [Threads -> Instances]
                            /\ None \notin Threads
ASSUME KeysAssumption == /\ None \notin Keys
                         /\ None \notin Targets
                         /\ IsFiniteSet(Targets)
                         /\ Size \in [Keys -> Nat]
ASSUME BoundsAssumption == /\ MaxBytes \in Nat \cup {None}
                           /\ MaxOps \in Nat
                           /\ MaxCrashes \in Nat
                           /\ IoFaults \in BOOLEAN
ASSUME ShapeAssumption == /\ ReadOnly \subseteq Instances
                          /\ Prefixes \subseteq SUBSET Targets
                          /\ Corruptible \subseteq Keys

VARIABLES
  entries,      \* `entries`: the key each target's row names, or None
  tracked,      \* `cache_entries`: the keys that have a tracking row
  lease_count,  \* its lease_count column; zero where there is no row
  files,        \* the blobs on disk
  corrupt,      \* those whose bytes no longer match
  mutex, writer, keylock,
  up,           \* each instance: "down", "opening" or "open"
  pc,           \* where each thread is; "idle" between calls
  loc,          \* its local variables
  held,         \* the key of the Lease it holds, or None
  got,          \* the key of the bytes that came with that Lease in a lookup
  ops, crashes  \* how much of MaxOps and MaxCrashes is used

db == <<entries, tracked, lease_count>>
fs == <<files, corrupt>>
locks == <<mutex, writer, keylock>>
lease == <<held, got>>
bounds == <<ops, crashes>>
vars == <<db, fs, locks, up, pc, loc, lease, bounds>>

NoLocals ==
  [op |-> "none",                       \* the call being served
   tgt |-> None,                        \* its target, or the eviction victim
   key |-> None,                        \* the key it stores or leases
   cur |-> None,                        \* the blob in hand
   accept |-> {},                       \* PublishGuard: the rows it may replace
   snap |-> [t \in Targets |-> None],   \* rows of a query still to visit
   todo |-> {},                         \* blobs to reclaim or to unlink
   gone |-> {},                         \* blobs unlinked and still tracked
   total |-> 0,                         \* the running size of an eviction
   err |-> FALSE,                       \* an unlink of the eviction failed
   reset |-> FALSE]                     \* recovery may zero the lease counts

Init ==
  /\ entries = [t \in Targets |-> None]
  /\ tracked = {}
  /\ lease_count = [k \in Keys |-> 0]
  /\ files = {} /\ corrupt = {}
  /\ mutex = [i \in Instances |-> None]
  /\ writer = None
  /\ keylock = [t \in Targets |-> None]
  /\ up = [i \in Instances |-> "down"]
  /\ pc = [th \in Threads |-> "idle"]
  /\ loc = [th \in Threads |-> NoLocals]
  /\ held = [th \in Threads |-> None]
  /\ got = [th \in Threads |-> None]
  /\ ops = 0 /\ crashes = 0
-----------------------------------------------------------------------------
(* What the SQL statements read.                                           *)

Referenced(k) == \E t \in Targets : entries[t] = k

(* cas_is_reclaimable: no row names the blob and no lease holds it.         *)
Reclaimable(k) == ~Referenced(k) /\ lease_count[k] = 0

(* SELECT COALESCE(SUM(size), 0) FROM entries: the bytes of every row,      *)
(* counted once per row even where rows share a blob.                       *)
RowBytes ==
  Cardinality(UNION {{t} \X (1 .. Size[entries[t]]) : t \in {u \in Targets : entries[u] # None}})

(* The process sentinel: its flock is held while the cache or a Lease lives.*)
Sentinel(i) ==
  \/ up[i] # "down"
  \/ \E th \in Threads : InstanceOf[th] = i /\ (held[th] # None \/ loc[th].op = "drop")
-----------------------------------------------------------------------------
(* Locks and control.                                                      *)

Inst(th) == InstanceOf[th]
Writable(th) == Inst(th) \notin ReadOnly

MutexFree(th) == mutex[Inst(th)] = None
WriteLockFree == writer = None

(* Transaction::new_unchecked(conn, Immediate): the write lock is taken at  *)
(* BEGIN, before the transaction reads anything.                            *)
(* BeginDeferred and KeepConn are mutations of the definitions below them.  *)
BeginDeferred(th) == WriteLockFree /\ UNCHANGED writer
BeginImmediate(th) == WriteLockFree /\ writer' = th

Acquire(th) == mutex' = [mutex EXCEPT ![Inst(th)] = th]
KeepConn(th) == UNCHANGED mutex
Release(th) == mutex' = [mutex EXCEPT ![Inst(th)] = None]

At(th, label) == pc[th] = label
Goto(th, label) == pc' = [pc EXCEPT ![th] = label]

(* The call returns: its locals die and its key lock is released.           *)
Return(th) ==
  /\ Goto(th, "idle")
  /\ loc' = [loc EXCEPT ![th] = NoLocals]
  /\ keylock' = [t \in Targets |-> IF keylock[t] = th THEN None ELSE keylock[t]]

(* Steps that stay inside a call and keep its key lock.                     *)
Continue(th, label, l) ==
  /\ Goto(th, label)
  /\ loc' = [loc EXCEPT ![th] = l]
  /\ UNCHANGED keylock

(* A caller enters operation o on an open cache.                            *)
Call(th, o) ==
  /\ At(th, "idle")
  /\ o \in Ops
  /\ up[Inst(th)] = "open"
  /\ ops < MaxOps
  /\ ops' = ops + 1
  /\ UNCHANGED crashes
-----------------------------------------------------------------------------
(* put, put_and_lease, compare_and_put.                                    *)

(* A mutation: the blob is published before its rows are written.           *)
StagePublished(th, o, t, k, accept) ==
  /\ Writable(th)
  /\ keylock[t] = None
  /\ keylock' = [keylock EXCEPT ![t] = th]
  /\ Goto(th, "put_tx")
  /\ files' = files \cup {k}
  /\ loc' = [loc EXCEPT ![th] = [NoLocals EXCEPT !.op = o, !.tgt = t, !.key = k,
                                                !.accept = accept]]
  /\ UNCHANGED <<db, corrupt, mutex, writer, up, lease>>

(* The key lock is taken and the bytes are staged, in a file of this call.  *)
Stage(th, o, t, k, accept) ==
  /\ Writable(th)
  /\ keylock[t] = None
  /\ keylock' = [keylock EXCEPT ![t] = th]
  /\ Goto(th, "put_tx")
  /\ loc' = [loc EXCEPT ![th] = [NoLocals EXCEPT !.op = o, !.tgt = t, !.key = k,
                                                !.accept = accept]]
  /\ UNCHANGED <<db, fs, mutex, writer, up, lease>>

Put(th, t, k) ==
  /\ Call(th, "put")
  /\ Stage(th, "put", t, k, Keys \cup {None})

PutAndLease(th, t, k) ==
  /\ Call(th, "putlease")
  /\ held[th] = None
  /\ Stage(th, "putlease", t, k, Keys \cup {None})

(* The advisory pre-check; a mismatch returns false and changes nothing.    *)
CompareAndPut(th, t, expected, k) ==
  /\ Call(th, "cas")
  /\ MutexFree(th)
  /\ entries[t] = expected
  /\ Stage(th, "cas", t, k, {expected})

(* The publishing transaction of put_staged_locked.  A guard that refuses   *)
(* rolls it back.                                                           *)
PutTx(th) ==
  LET l == loc[th]
      old == entries[l.tgt]
  IN /\ At(th, "put_tx")
     /\ MutexFree(th) /\ WriteLockFree
     /\ IF old \in l.accept
        THEN /\ entries' = [entries EXCEPT ![l.tgt] = l.key]
             /\ tracked' = tracked \cup {l.key}
             /\ Acquire(th)
             /\ Continue(th, "put_link", [l EXCEPT !.todo = {old} \ {None, l.key}])
        ELSE Return(th) /\ UNCHANGED <<entries, tracked, mutex>>
     /\ UNCHANGED <<lease_count, fs, writer, up, lease, bounds>>

(* The callers that end with evict_to_limit.                                *)
(* EvictsButCas is a mutation.                                              *)
EvictsButCas(o) == o \in {"put", "putlease", "open"}
Evicts(o) == o \in {"put", "putlease", "cas", "open"}

(* What follows a reclaim: the next blob, or the end of the call.           *)
Reclaimed(th, l) ==
  IF l.todo # {}
  THEN Continue(th, "rc_check", l) /\ UNCHANGED mutex
  ELSE /\ Release(th)
       /\ IF Evicts(l.op)
          THEN Continue(th, "ev_start", l)
          ELSE Return(th)

(* publish_cas: link the staged file, or accept the one already there.      *)
PutLink(th) ==
  /\ At(th, "put_link")
  /\ files' = files \cup {loc[th].key}
  /\ Reclaimed(th, loc[th])
  /\ UNCHANGED <<db, corrupt, writer, up, lease, bounds>>

(* The link fails: the rows are committed already and stay.                 *)
PutLinkFails(th) ==
  /\ IoFaults
  /\ At(th, "put_link")
  /\ Release(th) /\ Return(th)
  /\ UNCHANGED <<db, fs, writer, up, lease, bounds>>
-----------------------------------------------------------------------------
(* reclaim_unreferenced_cas: check, unlink and untrack in one IMMEDIATE    *)
(* transaction, under the instance's mutex.                                *)

RcCheck(th) ==
  /\ At(th, "rc_check")
  /\ \E k \in loc[th].todo :
       IF Reclaimable(k)
       THEN /\ BeginImmediate(th)
            /\ Continue(th, "rc_unlink", [loc[th] EXCEPT !.cur = k])
            /\ UNCHANGED mutex
       ELSE /\ WriteLockFree
            /\ Reclaimed(th, [loc[th] EXCEPT !.todo = @ \ {k}])
            /\ UNCHANGED writer
  /\ UNCHANGED <<db, fs, up, lease, bounds>>

RcUnlink(th) ==
  /\ At(th, "rc_unlink")
  /\ files' = files \ {loc[th].cur}
  /\ corrupt' = corrupt \ {loc[th].cur}
  /\ Continue(th, "rc_commit", loc[th])
  /\ UNCHANGED <<db, mutex, writer, up, lease, bounds>>

(* The unlink fails: rollback, the tracking row stays for a later pass.     *)
RcUnlinkFails(th) ==
  /\ IoFaults
  /\ At(th, "rc_unlink")
  /\ writer' = None
  /\ Reclaimed(th, [loc[th] EXCEPT !.todo = @ \ {loc[th].cur}])
  /\ UNCHANGED <<db, fs, up, lease, bounds>>

RcCommit(th) ==
  /\ At(th, "rc_commit")
  /\ tracked' = tracked \ {loc[th].cur}
  /\ writer' = None
  /\ Reclaimed(th, [loc[th] EXCEPT !.todo = @ \ {loc[th].cur}])
  /\ UNCHANGED <<entries, lease_count, fs, up, lease, bounds>>
-----------------------------------------------------------------------------
(* evict_to_limit.  Phase 1 deletes rows under the mutex, phase 2 unlinks   *)
(* outside it, phase 3 drops the tracking rows under it again.             *)

(* put_and_lease goes on to lease, having released the key lock; an open   *)
(* is complete; every other caller returns.  An unlink error fails the put *)
(* or the open.                                                            *)
AfterEvict(th, l) ==
  IF l.op = "putlease" /\ ~l.err
  THEN /\ Goto(th, "ls_row")
       /\ loc' = [loc EXCEPT ![th] = [NoLocals EXCEPT !.op = "putlease", !.key = l.key]]
       /\ keylock' = [t \in Targets |-> IF keylock[t] = th THEN None ELSE keylock[t]]
       /\ UNCHANGED up
  ELSE /\ Return(th)
       /\ up' = IF l.op = "open"
                THEN [up EXCEPT ![Inst(th)] = IF l.err THEN "down" ELSE "open"]
                ELSE up

EvStart(th) ==
  /\ At(th, "ev_start")
  /\ IF Writable(th) /\ MaxBytes # None
     THEN /\ MutexFree(th)
          /\ IF RowBytes <= MaxBytes
             THEN AfterEvict(th, loc[th]) /\ UNCHANGED mutex
             ELSE /\ Acquire(th)
                  /\ Continue(th, "ev_pick",
                              [loc[th] EXCEPT !.snap = entries, !.total = RowBytes])
                  /\ UNCHANGED up
     ELSE AfterEvict(th, loc[th]) /\ UNCHANGED mutex
  /\ UNCHANGED <<db, fs, writer, lease, bounds>>

(* The next victim, skipped when a lease pins its blob.                     *)
EvPick(th) ==
  LET l == loc[th]
      victims == {t \in Targets : l.snap[t] # None}
  IN /\ At(th, "ev_pick")
     /\ IF l.total > MaxBytes /\ victims # {}
        THEN /\ \E t \in victims :
                  Continue(th, IF lease_count[l.snap[t]] > 0 THEN "ev_pick" ELSE "ev_delete",
                           [l EXCEPT !.snap[t] = None, !.tgt = t, !.cur = l.snap[t]])
             /\ UNCHANGED <<mutex, up>>
        ELSE /\ Release(th)
             /\ IF l.todo = {}
                THEN AfterEvict(th, loc[th])
                ELSE Continue(th, "ev_unlink", l) /\ UNCHANGED up
     /\ UNCHANGED <<db, fs, writer, lease, bounds>>

EvDelete(th) ==
  LET l == loc[th]
  IN /\ At(th, "ev_delete")
     /\ WriteLockFree
     /\ entries' = [entries EXCEPT ![l.tgt] = None]
     /\ Continue(th, "ev_ref", [l EXCEPT !.total = IF @ < Size[l.cur] THEN 0 ELSE @ - Size[l.cur]])
     /\ UNCHANGED <<tracked, lease_count, fs, mutex, writer, up, lease, bounds>>

EvRef(th) ==
  LET l == loc[th]
  IN /\ At(th, "ev_ref")
     /\ Continue(th, "ev_pick",
                 [l EXCEPT !.todo = IF Referenced(l.cur) THEN @ ELSE @ \cup {l.cur}])
     /\ UNCHANGED <<db, fs, mutex, writer, up, lease, bounds>>

EvictFiles(th, l) ==
  IF l.todo # {} THEN Continue(th, "ev_unlink", l) /\ UNCHANGED up
  ELSE IF l.gone # {} THEN Continue(th, "ev_untrack", l) /\ UNCHANGED up
  ELSE AfterEvict(th, l)

EvUnlink(th) ==
  /\ At(th, "ev_unlink")
  /\ \E k \in loc[th].todo :
       /\ files' = files \ {k}
       /\ corrupt' = corrupt \ {k}
       /\ EvictFiles(th, [loc[th] EXCEPT !.todo = @ \ {k}, !.gone = @ \cup {k}])
  /\ UNCHANGED <<db, mutex, writer, lease, bounds>>

EvUnlinkFails(th) ==
  /\ IoFaults
  /\ At(th, "ev_unlink")
  /\ \E k \in loc[th].todo : EvictFiles(th, [loc[th] EXCEPT !.todo = @ \ {k}, !.err = TRUE])
  /\ UNCHANGED <<db, fs, mutex, writer, lease, bounds>>

EvUntrack(th) ==
  /\ At(th, "ev_untrack")
  /\ mutex[Inst(th)] \in {None, th}
  /\ WriteLockFree
  /\ \E k \in loc[th].gone :
       LET l == [loc[th] EXCEPT !.gone = @ \ {k}]
       IN /\ tracked' = IF Reclaimable(k) THEN tracked \ {k} ELSE tracked
          /\ IF l.gone = {}
             THEN Release(th) /\ AfterEvict(th, l)
             ELSE Acquire(th) /\ Continue(th, "ev_untrack", l) /\ UNCHANGED up
  /\ UNCHANGED <<entries, lease_count, fs, writer, lease, bounds>>

Gc(th) ==
  /\ Call(th, "gc")
  /\ Continue(th, "ev_start", [NoLocals EXCEPT !.op = "gc"])
  /\ UNCHANGED <<db, fs, mutex, writer, up, lease>>
-----------------------------------------------------------------------------
(* lease: three statements under the mutex, no transaction around them.    *)

LsRow(th) ==
  /\ At(th, "ls_row")
  /\ MutexFree(th)
  /\ IF loc[th].key \in tracked
     THEN Acquire(th) /\ Continue(th, "ls_path", loc[th])
     ELSE Return(th) /\ UNCHANGED mutex
  /\ UNCHANGED <<db, fs, writer, up, lease, bounds>>

LsPath(th) ==
  /\ At(th, "ls_path")
  /\ IF loc[th].key \in files
     THEN Continue(th, "ls_inc", loc[th]) /\ UNCHANGED mutex
     ELSE Release(th) /\ Return(th)
  /\ UNCHANGED <<db, fs, writer, up, lease, bounds>>

(* The UPDATE matches no row when a sibling has untracked the key meanwhile;*)
(* the Lease is returned all the same.                                      *)
LsInc(th) ==
  LET k == loc[th].key
  IN /\ At(th, "ls_inc")
     /\ WriteLockFree
     /\ lease_count' = IF k \in tracked THEN [lease_count EXCEPT ![k] = @ + 1] ELSE lease_count
     /\ held' = [held EXCEPT ![th] = k]
     /\ Release(th)
     /\ IF loc[th].op = "lookup" THEN Continue(th, "rd_row", loc[th]) ELSE Return(th)
     /\ UNCHANGED <<entries, tracked, fs, writer, up, got, bounds>>
-----------------------------------------------------------------------------
(* Dropping a Lease: the cleanup closure, on a connection of its own.       *)

BeginDrop(th) ==
  /\ held' = [held EXCEPT ![th] = None]
  /\ got' = [got EXCEPT ![th] = None]
  /\ Continue(th, "ld_dec", [NoLocals EXCEPT !.op = "drop", !.cur = held[th]])

DropLease(th) ==
  /\ At(th, "idle")
  /\ "drop" \in Ops
  /\ held[th] # None
  /\ BeginDrop(th)
  /\ UNCHANGED <<db, fs, mutex, writer, up, bounds>>

(* A mutation: the decrement without MAX(0, ...).                           *)
LdDecNoFloor(th) ==
  /\ At(th, "ld_dec")
  /\ WriteLockFree
  /\ lease_count' = [lease_count EXCEPT ![loc[th].cur] = @ - 1]
  /\ Continue(th, "ld_ref", loc[th])
  /\ UNCHANGED <<entries, tracked, fs, mutex, writer, up, lease, bounds>>

LdDec(th) ==
  LET k == loc[th].cur
  IN /\ At(th, "ld_dec")
     /\ WriteLockFree
     /\ lease_count' = [lease_count EXCEPT ![k] = IF @ > 0 THEN @ - 1 ELSE 0]
     /\ Continue(th, "ld_ref", loc[th])
     /\ UNCHANGED <<entries, tracked, fs, mutex, writer, up, lease, bounds>>

LdRef(th) ==
  /\ At(th, "ld_ref")
  /\ IF Referenced(loc[th].cur) THEN Return(th) ELSE Continue(th, "ld_pin", loc[th])
  /\ UNCHANGED <<db, fs, mutex, writer, up, lease, bounds>>

LdPin(th) ==
  /\ At(th, "ld_pin")
  /\ IF lease_count[loc[th].cur] > 0 THEN Return(th) ELSE Continue(th, "ld_unlink", loc[th])
  /\ UNCHANGED <<db, fs, mutex, writer, up, lease, bounds>>

LdUnlink(th) ==
  /\ At(th, "ld_unlink")
  /\ files' = files \ {loc[th].cur}
  /\ corrupt' = corrupt \ {loc[th].cur}
  /\ Continue(th, "ld_delete", loc[th])
  /\ UNCHANGED <<db, mutex, writer, up, lease, bounds>>

LdUnlinkFails(th) ==
  /\ IoFaults
  /\ At(th, "ld_unlink")
  /\ Return(th)
  /\ UNCHANGED <<db, fs, mutex, writer, up, lease, bounds>>

Untrack(k) ==
  /\ tracked' = tracked \ {k}
  /\ lease_count' = [lease_count EXCEPT ![k] = 0]

LdDelete(th) ==
  /\ At(th, "ld_delete")
  /\ WriteLockFree
  /\ Untrack(loc[th].cur)
  /\ Return(th)
  /\ UNCHANGED <<entries, fs, mutex, writer, up, lease, bounds>>
-----------------------------------------------------------------------------
(* get_entry and lookup.                                                   *)

Get(th, t) ==
  /\ Call(th, "get")
  /\ MutexFree(th)
  /\ entries[t] # None
  /\ Continue(th, "rd_file", [NoLocals EXCEPT !.op = "get", !.tgt = t, !.cur = entries[t]])
  /\ UNCHANGED <<db, fs, mutex, writer, up, lease>>

(* lookup leases the key of the row it reads here, then reads the row again.*)
Lookup(th, t) ==
  /\ Call(th, "lookup")
  /\ held[th] = None
  /\ MutexFree(th)
  /\ entries[t] # None
  /\ Continue(th, "ls_row", [NoLocals EXCEPT !.op = "lookup", !.tgt = t, !.key = entries[t]])
  /\ UNCHANGED <<db, fs, mutex, writer, up, lease>>

(* A miss returns None; lookup drops the lease it minted on the way out.    *)
Miss(th) ==
  IF loc[th].op = "lookup" THEN BeginDrop(th) ELSE Return(th) /\ UNCHANGED lease

RdRow(th) ==
  LET k == entries[loc[th].tgt]
  IN /\ At(th, "rd_row")
     /\ MutexFree(th)
     /\ IF k = None
        THEN Miss(th)
        ELSE Continue(th, "rd_file", [loc[th] EXCEPT !.cur = k]) /\ UNCHANGED lease
     /\ UNCHANGED <<db, fs, mutex, writer, up, bounds>>

RdFile(th) ==
  LET l == loc[th]
  IN /\ At(th, "rd_file")
     /\ IF l.cur \notin files THEN Continue(th, "rd_orphan", l) /\ UNCHANGED lease
        ELSE IF l.cur \in corrupt THEN Continue(th, "qr_row", l) /\ UNCHANGED lease
        ELSE /\ Return(th)
             /\ got' = IF l.op = "lookup" THEN [got EXCEPT ![th] = l.cur] ELSE got
             /\ UNCHANGED held
     /\ UNCHANGED <<db, fs, mutex, writer, up, bounds>>

(* drop_orphan_entry: deletes whatever row the target has by now.           *)
RdOrphan(th) ==
  /\ At(th, "rd_orphan")
  /\ MutexFree(th) /\ WriteLockFree
  /\ entries' = [entries EXCEPT ![loc[th].tgt] = None]
  /\ Miss(th)
  /\ UNCHANGED <<tracked, lease_count, fs, mutex, writer, up, bounds>>

(* quarantine_corrupt and purge_corrupt_cas.                                *)
QrRow(th) ==
  /\ At(th, "qr_row")
  /\ MutexFree(th) /\ WriteLockFree
  /\ Acquire(th)
  /\ entries' = [entries EXCEPT ![loc[th].tgt] = None]
  /\ Continue(th, "qr_pin", loc[th])
  /\ UNCHANGED <<tracked, lease_count, fs, writer, up, lease, bounds>>

QrPin(th) ==
  /\ At(th, "qr_pin")
  /\ IF lease_count[loc[th].cur] > 0
     THEN Release(th) /\ Miss(th)
     ELSE Continue(th, "qr_unlink", loc[th]) /\ UNCHANGED <<mutex, lease>>
  /\ UNCHANGED <<db, fs, writer, up, bounds>>

QrUnlink(th) ==
  /\ At(th, "qr_unlink")
  /\ files' = files \ {loc[th].cur}
  /\ corrupt' = corrupt \ {loc[th].cur}
  /\ Continue(th, "qr_delete", loc[th])
  /\ UNCHANGED <<db, mutex, writer, up, lease, bounds>>

QrUnlinkFails(th) ==
  /\ IoFaults
  /\ At(th, "qr_unlink")
  /\ Release(th) /\ Miss(th)
  /\ UNCHANGED <<db, fs, writer, up, bounds>>

QrDelete(th) ==
  /\ At(th, "qr_delete")
  /\ WriteLockFree
  /\ Untrack(loc[th].cur)
  /\ Release(th) /\ Miss(th)
  /\ UNCHANGED <<entries, fs, writer, up, bounds>>
-----------------------------------------------------------------------------
(* remove_index, remove_prefix, remove_index_returning, compare_and_remove. *)

Removed(th, o, t) ==
  /\ Acquire(th)
  /\ entries' = [entries EXCEPT ![t] = None]
  /\ Goto(th, "rc_check")
  /\ loc' = [loc EXCEPT ![th] = [NoLocals EXCEPT !.op = o, !.todo = {entries[t]}]]
  /\ UNCHANGED <<tracked, lease_count, fs, writer, up, lease>>

(* remove_prefix; remove_index is the prefix that only its target has.      *)
RemovePrefix(th, P) ==
  /\ Call(th, "remove")
  /\ Writable(th) /\ MutexFree(th)
  /\ \E t \in P : entries[t] # None
  /\ Acquire(th)
  /\ Continue(th, "rm_delete",
              [NoLocals EXCEPT !.op = "remove",
                               !.snap = [t \in Targets |-> IF t \in P THEN entries[t] ELSE None]])
  /\ UNCHANGED <<db, fs, writer, up, lease>>

RmDelete(th) ==
  /\ At(th, "rm_delete")
  /\ WriteLockFree
  /\ \E t \in Targets :
       LET l == [loc[th] EXCEPT !.snap[t] = None, !.todo = @ \cup {loc[th].snap[t]}]
       IN /\ loc[th].snap[t] # None
          /\ entries' = [entries EXCEPT ![t] = None]
          /\ Continue(th, IF \A u \in Targets : l.snap[u] = None
                          THEN "rc_check" ELSE "rm_delete", l)
  /\ UNCHANGED <<tracked, lease_count, fs, mutex, writer, up, lease, bounds>>

(* Its transaction also reads the blob; a bad or missing one is an error.   *)
RemoveIndexReturning(th, t) ==
  /\ Call(th, "removeret")
  /\ Writable(th) /\ MutexFree(th) /\ WriteLockFree
  /\ entries[t] \in files \ corrupt
  /\ Removed(th, "removeret", t)
  /\ UNCHANGED keylock

(* compare_and_put with new = None.                                         *)
CompareAndRemove(th, t, expected) ==
  /\ Call(th, "casremove")
  /\ Writable(th) /\ MutexFree(th) /\ WriteLockFree
  /\ keylock[t] = None
  /\ expected # None /\ entries[t] = expected
  /\ keylock' = [keylock EXCEPT ![t] = th]
  /\ Removed(th, "casremove", t)
-----------------------------------------------------------------------------
(* open_with_options and recover_internal.                                 *)

(* Only the open that creates the process sentinel may reset lease counts.  *)
Open(th) ==
  LET i == Inst(th)
  IN /\ At(th, "idle")
     /\ up[i] = "down"
     /\ up' = [up EXCEPT ![i] = "opening"]
     /\ Continue(th, "rv_sweep", [NoLocals EXCEPT !.op = "open", !.reset = ~Sentinel(i)])
     /\ UNCHANGED <<db, fs, mutex, writer, lease, bounds>>

(* The public recover(), which never resets.                                *)
Recover(th) ==
  /\ Call(th, "recover")
  /\ Continue(th, "rv_sweep", [NoLocals EXCEPT !.op = "recover"])
  /\ UNCHANGED <<db, fs, mutex, writer, up, lease>>

RvSweep(th) ==
  /\ At(th, "rv_sweep")
  /\ Continue(th, "rv_rows",
              [loc[th] EXCEPT !.reset = @ /\ \A j \in Instances \ {Inst(th)} : ~Sentinel(j)])
  /\ UNCHANGED <<db, fs, mutex, writer, up, lease, bounds>>

RvRows(th) ==
  /\ At(th, "rv_rows")
  /\ MutexFree(th)
  /\ Acquire(th)
  /\ Continue(th, "rv_row", [loc[th] EXCEPT !.snap = entries])
  /\ UNCHANGED <<db, fs, writer, up, lease, bounds>>

(* The next row of the query: kept if its blob is on disk.                  *)
RvRow(th) ==
  LET l == loc[th]
      rows == {t \in Targets : l.snap[t] # None}
  IN /\ At(th, "rv_row")
     /\ IF rows = {}
        THEN Continue(th, "rv_reset", [l EXCEPT !.tgt = None])
        ELSE \E t \in rows :
               Continue(th, IF l.snap[t] \in files THEN "rv_row" ELSE "rv_delete",
                        [l EXCEPT !.snap[t] = None, !.tgt = t])
     /\ UNCHANGED <<db, fs, mutex, writer, up, lease, bounds>>

RvDelete(th) ==
  /\ At(th, "rv_delete")
  /\ WriteLockFree
  /\ entries' = [entries EXCEPT ![loc[th].tgt] = None]
  /\ Continue(th, "rv_row", loc[th])
  /\ UNCHANGED <<tracked, lease_count, fs, mutex, writer, up, lease, bounds>>

(* A mutation: the lease counts of a dead process are left as they are.     *)
RvKeepCounts(th) ==
  /\ At(th, "rv_reset")
  /\ WriteLockFree
  /\ Continue(th, "rv_orphans", loc[th])
  /\ UNCHANGED <<db, fs, mutex, writer, up, lease, bounds>>

RvReset(th) ==
  /\ At(th, "rv_reset")
  /\ WriteLockFree
  /\ lease_count' = IF loc[th].reset THEN [k \in Keys |-> 0] ELSE lease_count
  /\ Continue(th, "rv_orphans", loc[th])
  /\ UNCHANGED <<entries, tracked, fs, mutex, writer, up, lease, bounds>>

RvOrphans(th) ==
  /\ At(th, "rv_orphans")
  /\ Reclaimed(th, [loc[th] EXCEPT !.todo = {k \in tracked : Reclaimable(k)}])
  /\ UNCHANGED <<db, fs, writer, up, lease, bounds>>
-----------------------------------------------------------------------------
(* Drop for ByteCache.  Leases may outlive it.                              *)
Close(i) ==
  /\ up[i] = "open"
  /\ \A th \in Threads : Inst(th) = i => pc[th] = "idle"
  /\ "close" \in Ops
  /\ ops < MaxOps
  /\ ops' = ops + 1
  /\ up' = [up EXCEPT ![i] = "down"]
  /\ UNCHANGED <<db, fs, locks, pc, loc, lease, crashes>>

(* The process dies: its locks are released by the operating system, its    *)
(* open transaction rolls back, and what it did to the files stays.         *)
Crash(i) ==
  /\ Sentinel(i)
  /\ crashes < MaxCrashes
  /\ crashes' = crashes + 1
  /\ up' = [up EXCEPT ![i] = "down"]
  /\ mutex' = [mutex EXCEPT ![i] = None]
  /\ writer' = IF \E th \in Threads : writer = th /\ Inst(th) = i THEN None ELSE writer
  /\ keylock' = [t \in Targets |->
                   IF \E th \in Threads : keylock[t] = th /\ Inst(th) = i
                   THEN None ELSE keylock[t]]
  /\ pc' = [th \in Threads |-> IF Inst(th) = i THEN "idle" ELSE pc[th]]
  /\ loc' = [th \in Threads |-> IF Inst(th) = i THEN NoLocals ELSE loc[th]]
  /\ held' = [th \in Threads |-> IF Inst(th) = i THEN None ELSE held[th]]
  /\ got' = [th \in Threads |-> IF Inst(th) = i THEN None ELSE got[th]]
  /\ UNCHANGED <<db, fs, ops>>

(* A file is damaged from outside the program.                              *)
Damage(k) ==
  /\ k \in (files \cap Corruptible) \ corrupt
  /\ corrupt' = corrupt \cup {k}
  /\ UNCHANGED <<db, files, locks, up, pc, loc, lease, bounds>>
-----------------------------------------------------------------------------
(* A thread inside a call takes its next step.                              *)
Step(th) ==
  \/ PutTx(th) \/ PutLink(th)
  \/ RcCheck(th) \/ RcUnlink(th) \/ RcCommit(th)
  \/ EvStart(th) \/ EvPick(th) \/ EvDelete(th) \/ EvRef(th) \/ EvUnlink(th) \/ EvUntrack(th)
  \/ LsRow(th) \/ LsPath(th) \/ LsInc(th)
  \/ LdDec(th) \/ LdRef(th) \/ LdPin(th) \/ LdUnlink(th) \/ LdDelete(th)
  \/ RdRow(th) \/ RdFile(th) \/ RdOrphan(th)
  \/ QrRow(th) \/ QrPin(th) \/ QrUnlink(th) \/ QrDelete(th)
  \/ RmDelete(th)
  \/ RvSweep(th) \/ RvRows(th) \/ RvRow(th) \/ RvDelete(th) \/ RvReset(th) \/ RvOrphans(th)

Fault(th) ==
  \/ PutLinkFails(th) \/ RcUnlinkFails(th) \/ EvUnlinkFails(th)
  \/ LdUnlinkFails(th) \/ QrUnlinkFails(th)

(* An idle thread is given something to do.                                 *)
Start(th) ==
  \/ \E t \in Targets, k \in Keys : Put(th, t, k) \/ PutAndLease(th, t, k)
  \/ \E t \in Targets, e \in Keys \cup {None}, k \in Keys : CompareAndPut(th, t, e, k)
  \/ \E t \in Targets, e \in Keys : CompareAndRemove(th, t, e)
  \/ \E t \in Targets : Get(th, t) \/ Lookup(th, t) \/ RemoveIndexReturning(th, t)
  \/ \E P \in Prefixes : RemovePrefix(th, P)
  \/ DropLease(th) \/ Gc(th) \/ Open(th) \/ Recover(th)

Next ==
  \/ \E th \in Threads : Step(th) \/ Fault(th) \/ Start(th)
  \/ \E i \in Instances : Close(i) \/ Crash(i)
  \/ \E k \in Keys : Damage(k)

Spec == Init /\ [][Next]_vars

(* A thread that can take its next step eventually does: the locks it may   *)
(* wait for are released by threads that run.                               *)
FairSpec == Spec /\ \A th \in Threads : WF_vars(Step(th))
-----------------------------------------------------------------------------
(* Where each thread holds the mutex, and where the write lock.             *)
MutexLabels == {"put_link", "rc_check", "rc_unlink", "rc_commit",
                "ev_pick", "ev_delete", "ev_ref", "ls_path", "ls_inc",
                "qr_pin", "qr_unlink", "qr_delete", "rm_delete",
                "rv_row", "rv_delete", "rv_reset", "rv_orphans"}
FreeLabels == {"idle", "put_tx", "ev_start", "ev_unlink", "ev_untrack", "ls_row",
               "ld_dec", "ld_ref", "ld_pin", "ld_unlink", "ld_delete",
               "rd_row", "rd_file", "rd_orphan", "qr_row", "rv_sweep", "rv_rows"}
OpNames == {"none", "put", "putlease", "cas", "casremove", "get", "lookup", "remove",
            "removeret", "gc", "drop", "open", "recover"}

Locals == [op : OpNames, tgt : Targets \cup {None}, key : Keys \cup {None},
           cur : Keys \cup {None}, accept : SUBSET (Keys \cup {None}),
           snap : [Targets -> Keys \cup {None}], todo : SUBSET Keys, gone : SUBSET Keys,
           total : Nat, err : BOOLEAN, reset : BOOLEAN]

(* Every variable stays within its type; a damaged blob is on disk and an   *)
(* untracked key has no lease count.                                        *)
TypeOK ==
  /\ entries \in [Targets -> Keys \cup {None}]
  /\ tracked \subseteq Keys
  /\ lease_count \in [Keys -> Nat]
  /\ \A k \in Keys \ tracked : lease_count[k] = 0
  /\ files \subseteq Keys
  /\ corrupt \subseteq files
  /\ mutex \in [Instances -> Threads \cup {None}]
  /\ writer \in Threads \cup {None}
  /\ keylock \in [Targets -> Threads \cup {None}]
  /\ up \in [Instances -> {"down", "opening", "open"}]
  /\ pc \in [Threads -> MutexLabels \cup FreeLabels]
  /\ loc \in [Threads -> Locals]
  /\ held \in [Threads -> Keys \cup {None}]
  /\ got \in [Threads -> Keys \cup {None}]
  /\ ops \in 0 .. MaxOps
  /\ crashes \in 0 .. MaxCrashes

(* A blob the reclaim transaction is about to unlink, or has unlinked and   *)
(* not yet untracked, is named by no row and held by no counted lease, with *)
(* any number of sibling processes publishing and leasing at the same time. *)
ReclaimSafe ==
  \A th \in Threads : pc[th] \in {"rc_unlink", "rc_commit"} =>
    /\ ~Referenced(loc[th].cur)
    /\ lease_count[loc[th].cur] = 0

(* What a run may leave out, and what a theorem then has as a hypothesis:    *)
(* sibling processes; Leases; the drop of a Lease.                          *)
SingleProcess == \A x, y \in Threads : InstanceOf[x] = InstanceOf[y]
NoLeases == Ops \cap {"putlease", "lookup"} = {}
NoDrops == Ops \cap {"drop", "lookup"} = {}

(* A published row names a blob that is on disk, or that its publisher is   *)
(* about to link: reclamation never takes a blob a row still names.         *)
RowBacked ==
  \A t \in Targets : entries[t] # None =>
    \/ entries[t] \in files
    \/ \E th \in Threads : pc[th] = "put_link" /\ loc[th].key = entries[t]

(* A live Lease's path stays readable for the lease's lifetime.             *)
LeasePromise == \A th \in Threads : held[th] # None => held[th] \in files

AllIdle == \A th \in Threads : pc[th] = "idle"

(* Whenever no call is in progress, every blob on disk has a tracking row   *)
(* or an entries row, so that some later pass can find it.                  *)
NoStrandedBlob == AllIdle => \A k \in files : k \in tracked \/ Referenced(k)

(* Whenever no call is in progress the rows fit the size budget, although   *)
(* two evictions may have worked from overlapping snapshots.                *)
WithinBudget == (AllIdle /\ MaxBytes # None) => RowBytes <= MaxBytes

(* The recovery of the first open of a process that finds no other process  *)
(* leaves a clean index, whatever the crashed run was doing: every row's    *)
(* blob is on disk, every tracked blob is named by a row, and no lease of   *)
(* the dead process is counted any more.                                    *)
RecoveredClean ==
  \A th \in Threads :
    (pc[th] = "ev_start" /\ loc[th].op = "open" /\ loc[th].reset) =>
      /\ \A t \in Targets : entries[t] # None => entries[t] \in files
      /\ \A k \in tracked : Referenced(k)
      /\ \A k \in Keys : lease_count[k] = 0

(* Every call that is begun returns: no thread waits for ever for a lock.   *)
Quiesces == <>[]AllIdle
=============================================================================
