# Verification of ovstorage

ovstorage is a client library, a plugin host and a broker for object storage.
This directory holds TLA+ models of its core, the TLC runs that check them on
small instances and the TLAPS proofs that carry the main results to every
instance. `PROJECT.json` maps each definition to the source lines it models and
lists runs, mutants, findings, hazards and theorems.

## The system

| part | state it keeps | operations | hard behaviour |
|---|---|---|---|
| byte store (`ovstorage-cache/src/byte.rs`, `lease.rs`, `coordination.rs`) | a SQLite index (`entries`: target to blob; `cache_entries`: tracked blobs and their lease counts), a directory of content-addressed blobs, staging files, flocks | put, put_and_lease, compare_and_put, streaming put, get, lookup, lease and its drop, removals, eviction, gc, recovery, open, close | several threads and processes over the same roots; files and rows change in separate steps; crashes; failing unlinks; damaged blobs |
| metadata store (`metadata.rs`) | a table of stat and list rows under one mutex, their last access and expiry, the budget they use | get, insert with eviction, invalidation by address, by prefix and of containing lists, purge | an account kept through replacement, eviction and expiry |
| byte-cache layer (`ovstorage-plugin-cache/src/byte_cache.rs`) | one availability row per object in the byte store, generation counters of the fills in progress, guards | read, write, copy, rename, delete, watch, through to the inner layer | an availability row must never name a validator the backend has superseded, across awaits, cancellation and failed mutations |
| notification drain (`notification_drain.rs`) | the advertised roots with generations and what their watch answered, a bounded table of candidate directories, refusals, the drains that run, the handles of cancelled ones | watch a root, or directories below it; discover roots; supervise, retire and freeze | late answers of cancelled drains, lost wakes, changes nobody is told of, threads that never return |
| metadata-cache layer (`metadata_cache.rs`) | none but the store | stat (also from a parent's listing), list, every mutation, watch | a response on its way while others invalidate; rows of one kind of request answering another |
| core layers (`ovstorage-plugin-core`) | none across calls; within one, the attempts and the bridge between a streamed read and a streamed write | routing, aliases, retry, copy/rename by read, write and delete | partial failure of a rename, lost replies, other writers, cancellation of a stalled transfer |
| plugin host (`ovstorage-plugin`) | connection sets, subscriptions, cancellation tokens | FFI calls in both directions | cancellation racing completion |
| local file backend, host, loader, credentials (`ovstorage`) | files, temporary files, tokens | conditional writes, configuration, token refresh | crash between write and rename |
| broker and its clients (`ovstorage-remote`) | sessions, watches, upstream credentials | gRPC and REST handlers, drain, idle shutdown | watch limit, shutdown racing requests |
| authorization (`ovstorage-authz*`) | policy rules | evaluation | none: pure |
| cloud, HTTP, Nucleus and hub plugins; CLI, MCP, Python and C bindings; USD resolver | none of their own that is shared | adapters and front ends | in the remote services |

The layers form a stack: a front end calls the router, which calls the caches,
which call a backend plugin. The byte-cache layer calls the byte store from a
blocking thread pool; the notification drain calls the byte-cache layer's
invalidations; the broker runs a stack of its own for remote clients. Processes
on one host share the byte store's roots and nothing else.

What makes each part correct: the byte store must not delete a blob that a row
names or a lease promises, must not lose track of a blob, must stay within its
budget, and must be repaired by the next open after a crash, and its caches must not take a live
sibling for a dead one nor keep a dead one's files; streaming fills
must stay within their slots and staging bytes; the byte-cache layer must not
serve superseded bytes as current; the drain must not miss a change it was told
of; a rename by copy and delete must not lose the object.

## The modules

**`ByteStore`** models the byte store. A step is one SQL statement, one whole
IMMEDIATE transaction or one file-system call, since the program can be
interrupted between any two of them by another thread, another process or a
crash. The state:

* `entries`, `tracked`, `lease_count` are the index; `files` and `corrupt` the
  blobs on disk. A blob is named by the digest of its bytes, so a key stands
  for its content.
* `mutex` is the process-local mutex around the connection, `writer` SQLite's
  write lock, `keylock` the flock (and in-process mutex) of a target. A
  statement that writes waits for `writer` to be free, an IMMEDIATE transaction
  takes it at BEGIN.
* `up` is whether an instance is open; a process's sentinel flock is derived
  from it and from the leases that outlive it. `pc` and `loc` are the threads.
* `held` is the Lease a thread holds, `got` the blob whose bytes came with it
  from `lookup`.

Each operation is a start action (`Put`, `CompareAndPut`, `Lookup`, ...) and one
action per step: `PutTx`, `PutLink`; `RcCheck`, `RcUnlink`, `RcCommit` for the
reclaim transaction; `EvStart` to `EvUntrack` for the three phases of eviction;
`LsRow`, `LsPath`, `LsInc` for `lease`; `LdDec` to `LdDelete` for the closure of
a dropped Lease; `RdRow`, `RdFile`, `RdOrphan` and `QrRow` to `QrDelete` for
reads with their orphan and corruption paths; `RmDelete` for removals; `RvSweep`
to `RvOrphans` for recovery. Failing links and unlinks are actions of their own
(`PutLinkFails`, ...), guarded by `IoFaults`; `Crash` kills a process at any
step, and `Damage` corrupts a blob from outside.

Abstracted: `pin_count`, which no code raises from zero; access times, whose
clock is neither strictly increasing nor shared, so that eviction may take rows
in any order; the contents of blobs beyond their key, size and integrity;
observers and counters; the per-process probes of the recovery sweep, which are
one step. An operation that returns without changing anything (a miss, a refused
precondition) has no action.

**`StreamingFill`** models `StreamingPut` and `StreamingBudget`: two atomic
counters that are raised first and tested afterwards, and the staging file of
each fill. A step is one atomic operation or one file-system call. What a commit
publishes is a `put` of `ByteStore`; here (`Finish`) it is the step that publishes
or removes the staging file. Every removal of a staging file in the code ignores
its error, so `Finish` may also leave the file; `ReleaseBytes` then gives its bytes
back all the same, and `left` counts them until `DropCache` (`Drop for ByteCache`)
removes the staging directory. The 64-bit counters are unbounded naturals: they are bounded by the
staging budget plus one chunk per thread.

**`Availability`** models the byte-cache layer: the availability row of each
address and everything that reads, writes or fences it. Rows and bodies live in
the byte store, whose operations are atomic here, so a step is one of them, one
call of the inner layer, or what is computed between two awaits. The state:

* `backend` is the version of each object and whether it exists; a version
  stands for the strong etag and for the bytes. `events` are the notifications
  under way about changes made behind the layer's back.
* `row` is the availability row, a nonce and an etag (a tombstone has none);
  `content` the versions whose body is cached.
* `gens` is the `GenerationMap` of each process: the tees registered and the
  generation of each address.
* `pc`, `loc` are the calls; `loc.guards` the armed `AvailabilityClear`s,
  `loc.snap` the snapshot a publish is fenced on, `loc.kept` what
  `MutationGuard` preserved. `tasks` are blocking tasks whose caller is gone.
* `floor` is history: the newest version that a returned mutation or a handled
  notification has established. A call whose invalidation failed for good (the
  row could not be removed and no later guard removed it) vouches for nothing.

Reads are `Stat` (`lookup_etag`), `Known` (the fallback), `Lookup`, `Snap` and
`Seed` (`snapshot_avail`), `Fetch`, then `Fill` or `Tee` to `TeeCommit`, and
`RlSwap` to `RlRemove` (`record_latest_guarded_impl`). Mutations are `ArmRead`,
`ArmClear` (`MutationGuard::arm`), `InnerOk`, `InnerFails` or `InnerRedirects`,
then `WtCommit` to `PubRemove` for a write-through or `ClRead` to `ClBody`
(`clear_latest_impl`), `StSelect` to `StBody` for a subtree, and `Disarm`.
`DropRow`, `DropBody` are the drop of a guard. `Cancel` drops a future at an
await and leaves its blocking task in `tasks`; `Crash` kills a process;
`ReadFails`, `SwapFails`, `RemoveFails` are calls of the byte store that fail.
Nonces are random 128-bit numbers in the code: a new row takes one that no
comparison still to come can meet, and the finite set of them is large enough
(`NonceLeft` never blocks a step in the runs).

Abstracted: sizes, caps and formats (a fill may be refused at any time); the
credential bypass and conditional or ranged reads, which do not touch the cache;
`note_cached`; the sweep of legacy rows at start-up; a body reclaim that fails,
which only leaves a body behind.

**`ScopedWatch`** models the notification drain. Each advertised root has a
drain that tries to watch the whole root; where the backend refuses, a
supervisor watches directories that the cache holds instead. The state:

* `roots` is `ScopedWatchState::roots`: generation, answer and probe budget of
  each advertised root. `rtask` and `stask` are the drains in the manager's and
  in the supervisor's map, with their place in `cache_watch_drain_loop`.
* `recency`, `hot`, `marked`, `denied` are `WatchScopes`: for each candidate
  the ones touched after it, those read lately, those a drain holds, and the
  refusals that still count.
* `sup`, `wake`, `retiring` are the supervisor: what its pass has decided, the
  permit of its `Notify`, the handles it has not pruned. `mgr` is the manager
  between the withdrawal of old roots and the spawning of drains for new ones.
* `old` are drains that were cancelled after their last look at the token and
  still make the write they had come to.
* `row` is what the cache holds for a directory: who vouched for it when it was
  filled, under which advertisement, and whether a change has gone by unreported.

`Read` is `note_cached` with its admission to a full table; `OpenRoot`,
`SweepRoot`, `EndRoot` and `TopScope`, `OpenScope`, `SweepScope`, `EndScope` are
the loops of the drains; `OldRoot`, `OldScope` the late writes; `SupSelect`,
`RetireSweep`, `RetireStop`, `SupSpawn` one pass of `reconcile_scopes`, with
`Select` for `select_scopes`; `Discover`, `Advertise`, `SpawnRoots` are
`reconcile_roots`. A clock is never read: each deadline is a flag that `Cool`,
`Expire`, `Unpause` or `Age` lets pass at any time.

Abstracted: where the manager gets its list of roots (any set, any of them able
to watch, any of them on a new connection); backoffs; one row per directory; a
read that stores its answer in the step in which it got it.

**`ObjectStore`**, **`RelocationPromise`**, **`Relocation`** model a `copy` or
`rename` call. `ObjectStore` is what can be seen from outside: the objects, the
preconditions, the other clients, and the history of what the call has stored
and removed. `RelocationPromise` is the abstract specification: a call may place
a whole content that the source had, remove a source whose content was placed
(or, when the caller named no etag, is newer than the call), and returns one
answer, which must be earned: `Ok` only when the destination was written and,
for a rename, the source has been vacated since; a clean refusal only when
nothing was done; `CommitAmbiguous` only when the destination was written. After
the answer nothing happens any more, except that a write may still land for a
caller who dropped the call.

`Relocation` is the code: `CopyRenameFallbackWrapper` over `RetryWrapper` over a
backend. `pc` and `reply` are the call, `attempt` the retry loop; `chan`, `sent`,
`bridge` are the channel and the task of `body_stream_from_read_stream`, and `rx` is
who holds the receiver of the channel. `Probe`,
`Emulate`, `CopyProbe`, `Transfer` and the `After...` actions are the steps of
the layer; `Retry` is one turn of `with_retry_async`; `BridgeSends`,
`BridgeCancelled`, `BridgeClosed`, `BridgeDies` the spawned task; `Pull` and
`PullClosed` the body as the destination reads it. The body is pulled on a blocking
thread (its contract, and `body_stream_to_async` and
`execute_file_streaming_request` in `redirect.rs` for example), which a dropped
future does not stop: when the call is dropped, or the destination gives up, the
receiver goes with it or stays with that thread (`LeavesBody`), which pulls on
(`ThreadPulls`, `ThreadClosed`) and, at the clean end of the body of a dropped call,
may still store the object. `Drain` is the buffered drain, which awaits the source
and nothing else. The `Backend...` actions are
external: an operation is performed in one step or not at all, and its reply may
be lost, which the caller sees as a transient error. `Promise` instantiates
`RelocationPromise` with `answer` mapped to the reply of a finished call; the
other variables are shared, so the mapping is the identity on them, and the
steps that only move the call or the bridge are stutters.

Abstracted: sizes other than "over the cap"; delays; `AlreadyExists` and the
other codes that the layer passes through are `Refused`; a request that the
backend executes after its reply was given up, other than the end of a streamed
write above.

**`MetaCache`** models the metadata store and the layer above it. A step is one
lock section of the store, one call of the inner layer, or a change at the
backend. `cache` is `CacheState`: the rows, `current_size`, and the `last_accessed`
of each row, of which only the order matters (`Ranks`). A hit stamps its row under
the lock; an insert reads the clock before it takes the lock, so that rows touched
in between have later stamps (`newer` in `Fill`). `job` is what
each request has in hand between two steps, `events` and `stream` the watch.
`StatLookup`, `ParentLookup`, `FreshListing`, `DirectStat` are `stat`; `List` and
`Fill` a listing and its inserts, row by row (`store_list`); `Mutate` every
mutating slot and `Sweep` one of the invalidations that follow; `Foreign` a change
by another client with its event, `Deliver` the handler of an event, `EndStream`
the end of a stream and its gap sweep (`GapSweepStream`); `Expire` and `Purge` the
TTL. `settled` is history: the version of each node whose change has been
invalidated; a row that was on its way across that invalidation is marked `late`.

Abstracted: principals and credential scopes, which only make keys differ while
invalidation ignores them; the OAuth bypass; versioned addresses and the two
spellings of a directory; metadata other than a version, existence and flags. List
requests that `list_is_cacheable` refuses pass by the cache and are left out. A page
is complete when it shows every entry: that it carries no `next_page_token` then, and
carries one otherwise, is assumed of the backend. A directory is renamed to a place
outside the modelled tree, so only the invalidation of its source shows.

**`Coordination`** models how caches over the same roots tell the living from the
dead. A step is one call of the operating system. `dirs` are the staging
directories, `owned` those whose `.owner` is locked; `path`, `flock` and
`sentinel` are the `<pid>.lock` files, with inodes apart from paths since a lock
belongs to the former and `remove_file` to the latter; `registry` is the mutex of
`sentinel_registry`, `writer` the `.writer` file. `Open` and the `Sw` actions are
`sweep_orphan_staging`, `MakeDir` and the `Ow` actions the cache's own directory,
`SeGet` and `SeLock` `process_sentinel`, the `Rv` actions the liveness sweep of
`recover_internal`, the `Dr` actions the drop of a cache in the order of Rust's
field drops, `BeginFill` and `EndFill` a StreamingPut, `Crash` the death of a
process, which keeps its PID when it comes back. `early`, `dead` and `abandoned`
are history. A ReadOnly cache sweeps and recovers like any other, and is not told
apart here.

Abstracted: directory removal, and the creation of a fill's directory and file,
are one step each; a Lease that keeps the process sentinel alive (in `ByteStore`);
the index, which may only fail.

**`MCByteStore`**, **`MCStreamingFill`**, **`MCAvailability`**, **`MCScopedWatch`**,
**`MCRelocation`**, **`MCMetaCache`**, **`MCCoordination`** are the instances
for TLC; **`ByteStore_proofs`**, **`ByteStoreRows_proofs`**, **`StreamingFill_proofs`**,
**`Coordination_proofs`**,
**`Relocation_proofs`**, **`MetaCache_proofs`**, **`ScopedWatch_proofs`**,
**`Availability_proofs`** hold the proofs. Operators
whose comment says "a mutation" are the plausible bugs that `PROJECT.json` lists
under mutants: each makes TLC violate the property it is listed with.

## The runs

| run | instance | what it shows |
|---|---|---|
| `store_all` | 2 processes, 1 thread each, every operation, 2 calls, 1 crash, failing links and unlinks, a damaged blob, budget 2 | `TypeOK`; `ReclaimSafe`: the reclaim transaction never unlinks what a row names or a counted lease holds |
| `store_publish` | 3 processes, one ReadOnly; fills, conditional removals, reads, removals, 3 calls | `RowBacked`: a committed row has its blob on disk or its publisher about to link it |
| `store_evict` | 1 process, 2 threads, budget 2, 4 calls, fair | `WithinBudget`: the rows fit the budget whenever no call is in progress; `Quiesces` |
| `store_crash` | 1 process, 2 threads, 4 calls, a crash at any step, a damaged blob | `NoStrandedBlob`, `RecoveredClean` |
| `streaming` | 3 fills, 2 slots, 5 bytes of staging, chunks of 1 and 2, removals that fail up to 5 bytes | `Conserved`, `FillsBounded`, `StagingBounded`: the files of the fills that hold a reservation fit the budget |
| `availability` | 2 clients on 1 object, reads, write-throughs and mutations, 2 calls, in one process with 1 cancelled future or in two with 1 failing swap; 2 clients on a directory and its child, 2 calls, 1 failing removal, reads with subtree mutations, notifications and gaps, or with renames; 1 client, 4 calls, 2 mishaps (a crash, a failing read or swap), evictions, every kind of backend answer | `TypeOK`; `NoResurrection`: no row names a validator older than a finished mutation; `ServedFresh`: no read is answered from the cache with what was superseded before it began; `RowCurrent`: with one client, at every instant the row names nothing or what the backend has |
| `watch` | a root and a root nested in it, 3 directories, 2 candidates, 1 watch, 1 stuck handle, 2 failures, six scenarios | `TypeOK`; `LiveRootIsOpen`; `Settled`: no wake is lost; `FreshUnderWatch`; `StaleIsOwed`; `ThreadsBounded` |
| `relocation` | 24 requests, 12 kinds of backend, 2 attempts, 2 chunks, a channel of 1, 1 foreign version, fair | `TypeOK`; `NothingLost`; `PromiseKept` (the refinement); `CancelReturns`; `SourceReleased` |
| `metadata` | a directory with 2 files, 2 requests and a watch stream, 2 changes, five scenarios | `TypeOK`; `Accounted`; `StaleOnlyInFlight`; `Honest` |
| `coordination` | 2 caches in one process or in two, writers or not, 3 opens, 1 fill, 1 crash, fair | `TypeOK`; `WriterExclusive`; `FillKept`; `Reclaimed`; `OpensReturn` |
| `evict_lease` | 1 process, 2 threads, 3 calls, budget 2 | the first finding, below |
| `orphan_evict` | 1 process, 3 threads, 4 calls, budget 2 | the second finding, below |

Bounds. Two targets are needed for two rows to share a blob, two blobs for a
target to be overwritten, sizes 1 and 2 with a budget of 2 for a row to be
evictable by one fill and not by another. The races are between two threads (or
two processes) and at most one earlier call that sets the scene, so two to four
calls reach them: every mutant is caught and every finding appears within the
same bounds. One crash suffices because recovery restores the state that the
first open starts from, which is what `RecoveredClean` says. Calls are counted
by `ops`, crashes by `crashes`.

The `availability` run starts from a store that is cold or was filled by an
earlier process, so that two calls are enough for a fill to race a mutation and
for a fallback to be consulted. `CasAttempts` is 2, so that a clear is refused
twice before it removes the row. The scenarios with several clients leave out `continue` (Observations), and subtree
mutations neither fail after taking effect (`FailOps`) nor are cancelled: the code says that their sweep is outside the guards, and a failed
one leaves the rows of children. `RowCurrent` is about one client: a concurrent
reader may publish, between the change at the backend and the clear, what it read
before. It excludes failing removals, which the comment in `MutationGuard::arm`
concedes. The two clients of one process are interchangeable, hence `Symmetry`.

A scenario of `ScopedWatch` or `MetaCache` names what may happen together in one
behaviour: all of it at once is out of reach, and each scenario is built around
one hazard (a nested root that comes and goes; a root bound to another
connection; a directory that competes with one below it for one watch; refused
depth; more directories than candidates; a backend that answers anything;
mutations of a file, of a directory; a watch stream that lapses; pages that are
cut short under a budget; a listing over the whole budget). The limits are
smaller than the code's, so that a table overflows, a budget is spent and a
freeze is reached with two or three directories. The clock "late" of
`ScopedWatch` is off (Observations). Two chunks and a channel of one make a
truncation and a full channel possible; two attempts one retry.

`StagingBounded` is about the files that are charged to somebody. A file whose
removal failed is outside the budget from then on, so the staging directory may
hold more than `max_streaming_staging_bytes` (`left`, which `LeftBound` bounds for
TLC) until the cache is dropped or a later open sweeps its directory.

`Relocation` assumes weak fairness of the call (the executor polls it), of the
backend once asked, of the two branches of the bridge's `select!` that are
woken by a token or a closed channel, and of a thread in `recv_blocking` when there
is an item or the channel has closed. It assumes nothing of the source stream,
which may stall for ever, nor that a destination gives up on a body that does
not come. `CancelReturns` therefore says that a cancelled call returns or is in the
buffered drain, whose loop does not look at the token: over a stalled source it
stays there, unless the stream itself reports the cancellation. `SourceReleased` says
that once the call is over the bridge task ends and no thread stays parked, if the
receiver went with the call or the token is cancelled, then or later; without
either, a stalled source keeps the task, the thread and the connection
(Observations).
`NothingLost` covers what `PromiseKept` does not say in one place: every stored
object is whole, nothing is removed in place, and no content of the source is
gone that is not at the destination, unless the caller named no etag and another
client stored it during the call.

`StaleOnlyInFlight` is as strong as the code allows: the store has no generation
that an insert could be fenced on. `StaleIsOwed` concerns rows filled under a
directory's watch; a row that was filled when nothing watched it has its TTL in
the metadata cache and the validator in the byte cache.

In `coordination` three opens let a cache crash, and then two sweeps meet its
debris, or let a restarted process meet a sibling's recovery. `FillKept` and
`Reclaimed` have exceptions that are as narrow as the code allows: a sweep that
examined a directory before its owner had locked it (Observations), and a
directory that a concurrent sweep has in hand. `OpensReturn` assumes weak fairness
of the threads inside an open or a drop, and distinct PIDs.

Deadlock is not checked in the `ScopedWatch`, `MetaCache` and `Coordination` runs,
which end at their bounds, nor in the `ByteStore` and `Availability` runs since callers may stop calling;
that no call is stuck is `Quiesces`. `FairSpec` assumes weak fairness of each
thread's next step inside a call and nothing of callers, faults or crashes: the
threads are operating-system threads, and mutexes, flocks and SQLite's busy
handler wake a waiter once the lock is free. SQLite's busy timeout (an error
after a long wait) is not modelled. The bounded number of calls keeps waiters
from being overtaken for ever.

`ReclaimSafe` and `RowBacked` are about processes: the process mutex would be
enough for one, and the mutant that begins the transaction without the write
lock is caught only by the sibling. `NoStrandedBlob` is checked inside one
process. With two it does not hold, as TLC shows at once: a recovery or a
removal of a sibling untracks a blob between the commit of its rows and its
link. The code accepts this and says that such a blob is orphaned
(`reclaim_unreferenced_cas`). It does not hold either when Leases are dropped
beside a fill of the same content, when a crash falls between the phases of
an eviction, or in a capped store of three threads (the second finding); two
threads do not reach that one.

## Findings

`evict_to_limit` tests leases in phase 1 and unlinks in phase 2, after releasing
the mutex. A Lease minted in between loses its file, which the comment on
`put_and_lease` excludes; `PROJECT.json` quotes it and `evict_lease` shows it.

`drop_orphan_entry` deletes whatever row its target has when it gets the mutex, and
leaves the tracking row, which its comment calls safe because the publisher's own
rows supersede it. Beside an eviction they do not. An evictor has deleted the row
of a key and released the mutex; a put of the same content commits its rows; the
evictor unlinks the old file; a reader of the old row finds no file; the put links
its blob; the reader deletes the row of the put; and phase 3 of the eviction finds
the key unreferenced and deletes its tracking row. The blob is on disk with no row,
what the same comment calls "unbudgeted, invisible to recovery's orphan sweep,
permanent". It was met when the proof of `NoStrandedBlob` for a capped store could
not be made inductive; `orphan_evict` shows it.

## Observations

What the code does that a reader of the properties should know. The byte store:

* `lookup` reads the row, leases its key, and reads the row again for the
  bytes: a put in between returns bytes that the Lease does not pin.
* The first open of a process decides that it is alone and zeroes the lease
  counts later; a process that opened and leased in between is reset.
* The closure of a dropped Lease tests, unlinks and untracks outside any
  transaction, so that a `put_and_lease` of the same content in between loses
  its file, as in the finding.
* Every removal of a staging file ignores its error and the reservation is given
  back regardless; such a file is charged to nobody until the directory goes.
* A read through a ReadOnly cache deletes an orphaned row (`drop_orphan_entry`
  has no writability check), although a comment in `get_entry_inner` says it
  cannot. A refused `try_acquire` inflates the slot counter until its second
  step, so another caller may be refused when a slot is free.

* A staging directory is made before its `.owner`, and `.owner` before the flock.
  A sibling's sweep in between takes it for debris (a directory without `.owner`
  by the process lock, which the first open of a process takes later), and may
  remove it when the cache is already open and filling; the comment in
  `open_with_options` says "never a live instance's dir". It is the exception in
  `FillKept`, and TLC finds the loss without it.
* `CacheProcess::drop` and recovery unlock `<pid>.lock` and then unlink it by
  path. An open that takes the lock in between (the same process opening again,
  or a process restarting under a sibling's probe) has a live sentinel that no
  path leads to: recovery of a sibling takes the process for absent.
* Two live processes with the same PID, as in two containers that share the
  roots, wait for each other's `<pid>.lock` until the other ends.
* A directory of a cache that died before it had made `.owner` is never
  reclaimed by a process of the same PID.
* After the crash of a single writer `.writer` stays and every later writer is
  refused. Dropping the file, which two comments call the release, does not
  release it; the drop of the cache does.

The byte-cache layer:

* `continue_write` puts the availability row back after a redirect if the row is
  absent. Another mutation that changed the object and dropped its guard in
  between also leaves it absent, so a superseded validator comes back.
* A directory mutation that fails or is cancelled after it took effect leaves
  the rows of children in place, as its comment says.

The notification drain:

* A directory's drain that ends terminally while a nested root owns the
  directory records no refusal. If the nested root is withdrawn before the
  supervisor looks, the finished drain matches the selection and stays in the
  map, which a comment of `scope_drain_task` excludes; `Settled` therefore asks
  for a drain and not for a running one.
* A refusal that lapses between the reading of the candidates and the decision
  about the tick is seen by neither, and the supervisor parks (clock "late").
* A root without a drain that is withdrawn, and a nested root that takes over
  cached rows, leave the rows of the old route until their TTL.
* A retirement sweeps first and cancels afterwards; the stream may still report
  in between, which is harmless, and a row filled in between counts as unwatched.

Copy and rename:

* A rename without `if_source` deletes whatever is at the source by then: content
  that another client stored between the copy and the delete is lost. This is
  the exception in `NothingLost`.
* A conditional operation whose first attempt landed and whose reply was lost is
  retried and meets its own result: the caller is told `NotFound`,
  `PreconditionFailed` or `AlreadyExists` though the work was done.

* A streamed transfer whose future is dropped, with no token or with one that nobody
  cancels, over a source that has stalled: the destination's blocking thread is
  parked in `recv_blocking` and holds the receiver, so `tx.closed()` never fires and
  the bridge task keeps the source. The comment there speaks of a consumer that was
  dropped "before draining"; a consumer that had begun to drain is not dropped with
  the future. When the source comes to its end, the write of the dropped call may
  still be committed.
* A cancelled transfer on the buffered path waits for its source
  (`read_to_bytes` awaits `stream.next()` without the token).

The metadata cache:

* The insert of a response that was in flight across an invalidation is not
  fenced: the stale row lives until its TTL.
* The rename of a directory invalidates its two addresses and not the rows of
  its children; a mutation that fails after it took effect invalidates nothing.

## The proofs

`ByteStore_proofs` proves `TypeOK` and `ReclaimSafe` of `Spec` for any sets of
processes, threads, targets (finite) and blobs, any sizes, budget, bounds and
faults. `ReclaimSafe` is not inductive: that the tested facts still hold at the
unlink follows only if no one else can write, so the invariant adds that a
thread inside the reclaim transaction owns the write lock (`Reclaiming`). Type
correctness needs it in turn, since the commit untracks a key whose count must
be zero, and needs that locals are defined at the labels that use them
(`LocalsSound`). Every step of a thread is shown to move only that thread
(`Proceeds`) and to leave the index and the write lock alone while another
thread owns it (`Yields`); `MovesPreserves` draws the conclusion once. The steps
of the reclaim transaction and the crash are proved by themselves.

`ByteStoreRows_proofs` proves the four properties of rows and blobs, each under the
weakest hypothesis on the constants that we know it to hold under:

* `RowBacked` (`RowsBacked`) if the store is `Transactional`: no cap, no Leases,
  no failing call, no crash, no damaged file. Eviction, the closure of a Lease and
  the quarantine unlink outside the reclaim transaction; a failed link and a crash
  leave a row whose blob never came.
* `NoStrandedBlob` (`NothingStranded`) if it is `Unshared`: one process, no cap and
  no dropped Lease, with crashes, failing calls and damaged files.
* `RecoveredClean` (`RecoversClean`) for one process in which links and unlinks do
  not fail, with Leases, a cap, damage and any number of crashes.
* `WithinBudget` (`StaysInBudget`) if it is `Faultless`: one process, no Leases, no
  failing call, no crash. A Lease keeps a row from eviction.

Each hypothesis admits any number of threads, targets, blobs and calls, and
`Transactional` any number of processes; those of the runs `store_publish`,
`store_crash` and `store_evict` satisfy them. The four arguments share one layer:
every action of a thread is shown once to be an `Effect`, which says along which edge of
the control flow it goes, what it does to the mutex of its process, which operation
it serves, and which rows, files, tracking rows and leases it may change. The rest
reasons about effects. `Calls` says that labels go with operations, that a thread
inside the mutex owns it, and that a first open has its process to itself.
`BackedInv` then needs that the reclaim takes no blob that a row names, which is the
invariant of `ByteStore_proofs`. `TrackedInv` needs that a publisher's key stays tracked
until its link, by the mutex, and that a transaction untracks only what it has unlinked.
`RecoverInv` says which part of the index is clean at each label of a first open, and
that an open that resets the lease counts is the only call in its process (`Sole`).
`BudgetInv` says that the rows fit or some call has an eviction still to do (`Pending`), and
that the running total of phase 1 is the size of the rows (`Counting`), as a
cardinality (`Space`).

`StreamingFill_proofs` proves `Conserved`, `FillsBounded` and `StagingBounded`
for any finite set of fills and any limits, cap and chunk sizes. The sum of what
the fills are charged is the cardinality of a set of units (`Total`), and three
lemmas say how it grows and compares. The invariant adds that the charges fit
the budget, which the counter does not show while a failed charge inflates it
(`ChargesBounded`), and that what a fill has on disk has been charged
(`StagedCharged`), which a file that could not be removed stops being in the step
that gives its bytes back.

`Coordination_proofs` proves `TypeOK`, `WriterExclusive`, `FillKept` and
`Reclaimed`, for any finite number of processes and caches and any bound on opens,
fills and crashes. Type correctness needs that the reference count of a process
sentinel is the number of caches of the process that are between taking and
dropping it (`RefsCounted`), and that directory names are used in order, with one
left for each open that has still to make its own (`NamesLeft`).
`FillKept` needs the lock argument of the sweep: every cache past its lock has a
directory of its own, locked (`OwnDir`), a probe holds only a lock that no cache has
(`ProbeFree`), and the directory of a cache that is up is about to be removed only
if it was condemned before its owner had locked it (`Spared`). `Reclaimed` adds that
debris belongs to no cache (`DebrisDead`) and is in the list of the open that met
it or in the hands of a sweep (`DebrisListed`).

`Relocation_proofs` proves `TypeOK`, `NothingLost`, and that `Spec` implements
`RelocationPromise` (`PromiseKept`), for any addresses, requests and backends, any
number of concurrent changes, attempts and chunks and any capacity of the bridge. The
refinement mapping is the identity on the store, and the answer is the reply once
the call is done. The invariant ties
each label of the call to what has been stored and removed by then
(`ProgressInv`) and to what the reply of the layer below means (`ReplyInv`); it
says that the source is other clients' work and everything stored is whole
(`StoreInv`), that a read is pinned to a content the source had, and to the wanted
one before its bytes can reach the destination (`PinInv`), and what is in the
bridge (`WireInv`: the chunks sent and taken add up, and an end marker comes only
after all of a wanted source). That a thread left behind by a dropped call stores
only such a content whole follows from the last two, for which the bridge has
to be pinned beyond the end of the call (`BodyInv`). The first attempt failed for a good reason: two CASE expressions had
overlapping arms, between which TLA+ leaves the choice open and TLC takes the
first. They are IFs now, in the order of the code's matches; so are two in
`MetaCache`.

`MetaCache_proofs` proves `Honest` and `StaleOnlyInFlight` for any finite tree, any
callers, changes and budget. A property of the rows in the table is not
inductive: a fill that is on its way stores what it read some steps ago. The
invariant is therefore about the rows stored and the rows on their way
(`Present`): each shows what was there at the versions it has seen, with the
flags of what it carries (`ServedInv`), and for each invalidation that has run,
each one that runs and each event in the queue, the rows it is about are gone,
are caught in flight, or are covered by what it has still to do (`SweepInv`).
Two properties of this module stay with TLC: `Accounted`, a sum by a fold, which is
induction over data, and `TypeOK`, which says that a row is stored under the key of
what it shows and that the stamps of the rows are distinct ranks. What the proofs
need of it is in `TypeInv` and `ServedInv`.

`ScopedWatch_proofs` proves all six properties of its run. `TypeOK`, `LiveRootIsOpen`,
`FreshUnderWatch`, `StaleIsOwed` and `ThreadsBounded` hold for any finite sets of directories and roots,
any limits and any scenario of answers. `LiveRootIsOpen` needs that a generation is never
issued twice (`GenInv`) and that a cancelled drain's generation is that of no
current advertisement (`RootInv`): the late write of an old drain is then refused
by the generation test, and only by it. The two properties of rows need that a
drain that is open or sweeping has been so under its own task (`ever`), and who
owes the sweep of a stale row (`Owes`): a held drain above it, unless the pass
has just swept for it. `ThreadsBounded` needs a fact about the selection, that at
most `Budget` + 1 scopes are chosen. The candidates are in a weak order of
recency in which only those at different depths tie (`TableInv`, since one read touches
a chain of directories); the order of the selection is then strict and total, so
at most `Budget` candidates are in front of its last choice, and the one cover
that may be added is counted apart.

`Settled` is proved (`AlwaysSettled`) for every value of the constants that
satisfies `OnTime`: no refusal lapses within a pass (the clock "late" of the
Observations, which refutes `Settled`); `RunsOnTime` has TLC evaluate it on the
run. The invariant (`WakeInv`, checked by TLC before it was proved) says what
remains true as long as nobody has set the permit. During a pass (`PassInv`):
each choice belongs to the route that owns it now, each drain that stays is one
of the choices, and the two grounds on which the pass may do without a tick hold:
where as many scopes are chosen as there are candidates and no refusal is
remembered, every candidate is chosen; where nothing is held, chosen, retiring,
refused or paused, no candidate lies below a refused root. The second rests on a
fact about the selection, that it is not empty when a scope is asked for
(`SomeChosen`: the head of a finite queue in a strict total order has none before
it). When the supervisor parks (`ParkInv`) these become: every drain is right, and
every candidate has one or none has a use. Each action then either sets the permit or
leaves the advertisements, their answers and the set of candidates alone, and no
drain's write forgets a refusal or a pause (`NotesKeep`): what the choice had to
respect is still there when the pass decides on the tick.

`Availability_proofs` proves `TypeOK` for every value of the constants, and
`NoResurrection` and `ServedFresh` for every value that satisfies `Guarded`: any
addresses, clients and processes, any number of calls, versions and retries,
crashes, cancelled calls and their detached tasks, evictions and failing calls of
the store. `Guarded` leaves out what two hazards of the list show to be real:
a `continue_write` that puts its row back while another client is at work or
after a cancellation (byte_cache.rs:1845), and a subtree mutation that fails or is
cancelled after the backend changed children (byte_cache.rs:3841). `MCAvailability`
assumes it as `RunsGuarded`, so TLC evaluates it for the constants of the runs.

Neither property is inductive. Rows are compared with what has finished (`floor`),
but a row published while a mutation runs becomes too old when it returns.
A call therefore binds an address as soon as it has changed it and cleared it
(`Binds`: what it has still to clear is `Owed`), and every row is as new as all that
binds its address (`RowInv`). What is about to be published was read some steps
ago and may be older; it is as new only as long as the row is still the one that
the publication is fenced on (`PubInv`, and `TaskInv` for a swap that outlives its
call). A clear that replaces or removes the row makes that hypothesis false for
good, because a nonce is new when it is written: the row that a
detached swap will write has been seen nowhere (`NonceInv`). `KeptInv` is about the
row that `continue_write` keeps, and `FreshInv` carries the bound from the
validator that a read looks up to its answer. Each step of a call is shown to be one
of a few kinds (it moves with the store unchanged, clears, loses an address,
publishes, changes the backend), and each kind preserves the invariant once.

`RowCurrent` is proved under `Guarded` and `WriteAhead`, on top of that invariant.
`WriteAhead` leaves out, where one client is at work, a removal that fails (arming
goes on regardless) and subtree mutations (they arm their own addresses and not
those of children); `RunsGuarded` assumes it too. What has to be added
(`CurrentInv`): from arming until the backend has answered, the row names nothing
and is none that a detached publication is fenced on (`Hushed`), so the change at
the backend makes no row wrong; and what a call has read, will publish or will put
back is what the backend has (`Proven`), since nobody else changes it. A swap left
behind by a cancelled call may be outdated by the next mutation; its fence is
then gone from the row, and the row that arming leaves is a new tombstone or none.

Assumptions: the named ASSUMEs of the modules and, in the theorems that state one, `Guarded`,
`WriteAhead`, `OnTime` or a hypothesis above. The ASSUMEs give the
types of the constants (requests, backends, scenarios, deployments), positive limits
where the code has non-zero constants, finite sets of processes, caches, fills,
directories and nodes, and the shape of the path tree (`AboveAssumption` is what
its recursive function computes, which TLC evaluates and induction would prove).

Only model checked, besides what is said above: `Quiesces`, `CancelReturns`,
`SourceReleased` and `OpensReturn`, since liveness under fairness is out of this
prover's reach.

## Not modelled

Smaller things that the modules merge or leave out. `ByteStore`: `remove_prefix` of
a target that had no row when it was selected and has one when it is deleted; a write
of a sibling process between the sum and the victims of `evict_to_limit`; a link
that succeeds and whose staging file cannot be removed. `ScopedWatch`: the uncharged
retry of an open that was answered `Cancelled`, and the limit on remembered refusals.

Loose files of the old staging layout and the `process_leases` rows, which only
status counts. How the manager of the notification drain discovers
roots, its backoffs and its shutdown. Routing and alias rewriting, the retry of a
listing stream. Migrations, the file-system probe, status and
doctor, which change no shared state. The parts that `PROJECT.json` lists as
not modelled: adapters, front ends, generated code, and what is planned below.

## Plan

Done: `ByteStore`, `StreamingFill`, `Availability`, `ScopedWatch`, `Relocation` with
its abstract specification, `MetaCache`, `Coordination`.

1. An abstract compare-and-put store, and `ByteStore` without eviction shown to
   implement it, so that `Availability` and `ByteStore` compose.
2. The watch limit and drain of the broker; conditional writes of the local file
   backend; cancellation across the plugin boundary.
