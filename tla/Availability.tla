---------------------------- MODULE Availability ----------------------------
(***************************************************************************)
(* The availability index of the byte-cache layer (byte_cache.rs): one row  *)
(* per address that names the validator of the newest cached body, and that *)
(* answers reads while the backend cannot.                                  *)
(*                                                                         *)
(* A row is a nonce and an etag; a row with the empty etag is a tombstone.  *)
(* Rows and bodies live in the byte store, whose operations are atomic here: *)
(* a step of the model is one of them, one call of the inner layer, or what *)
(* the layer computes between two of those.  Handlers are futures: they may *)
(* be cancelled at an await, which drops their guards at once and leaves the *)
(* blocking task they waited for running on its own (tasks).                *)
(*                                                                         *)
(* Every change of an object gives it a new version, which stands for its   *)
(* strong etag and for its bytes.                                           *)
(***************************************************************************)
EXTENDS Naturals, Sequences

CONSTANTS
  Addrs,        \* the addresses
  Below,        \* the addresses under the subtree of each
  Clients,      \* the tasks that call the layer
  Hosts,        \* the processes they run in, which share the byte store
  Host,         \* the process of each client
  Nonces,       \* the nonces of rows
  MaxVer,       \* bound: versions of an object
  FailOps,      \* the operations that may fail after the backend took effect
  CasAttempts,  \* AVAIL_CAS_ATTEMPTS
  Fallback,     \* lost_backing_fallback
  Scenarios,    \* who does what in a behaviour, and what may happen to them
  None          \* no row

Versions == 1 .. MaxVer
Rows == [nonce : Nonces, etag : 0 .. MaxVer]
OpNames == {"none", "read", "write", "mutate", "continue", "tree", "rename",
            "watch", "watchdel", "lapse"}

ASSUME ShapeAssumption == /\ Below \in [Addrs -> SUBSET Addrs]
                          /\ Host \in [Clients -> Hosts]
                          /\ Nonces # {} /\ None \notin Rows
ASSUME BoundsAssumption == MaxVer \in Nat \ {0} /\ CasAttempts \in Nat \ {0}

ASSUME ScenarioAssumption ==
  Scenarios \subseteq
    [clients : SUBSET Clients,   \* the clients that make calls
     addrs : SUBSET Addrs,       \* the addresses they name
     ops : SUBSET STRING,        \* the operations they use
     max_ops : Nat,              \* bound: calls made in a behaviour
     max_ver : Versions,         \* bound: versions of an object
     mishaps : SUBSET STRING,    \* "cancel", "crash", or a call of the byte
                                 \* store fails ("read", "swap", "remove")
     max_mishaps : Nat,          \* bound: how many of them in a behaviour
     answers : SUBSET STRING,    \* what the backend may say of an etag
     evicts : BOOLEAN]           \* whether the byte store evicts

VARIABLES
  backend,   \* the version of each object, and whether it exists
  events,    \* change notifications that are under way
  row,       \* the availability row of each address, or None
  content,   \* the versions of each object whose body is cached
  gens,      \* GenerationMap of each process: registrations and generation
  pc, loc,   \* where each client is, and its local variables
  tasks,     \* blocking tasks whose caller was cancelled
  floor,     \* history: the newest version of each object that a finished
             \* mutation or a handled notification has established
  sc,        \* the scenario of this behaviour
  ops, mishaps

world == <<backend, events>>
bounds == <<ops, mishaps, sc>>
vars == <<world, row, content, gens, pc, loc, tasks, floor, bounds>>

NoVersions == [a \in Addrs |-> 0]

NoLocals ==
  [op |-> "none",        \* the call being served
   addrs |-> <<>>,       \* the addresses it names
   todo |-> <<>>,        \* those that the current phase has still to visit
   guards |-> <<>>,      \* those with an armed guard, the latest first
   probe |-> "fence",    \* ValidatorProbe: may snapshot, or "settled", "refused"
   snap |-> None,        \* the row that a publish is fenced on
   seen |-> None,        \* the row that a clear compares with
   kept |-> None,        \* MutationGuard.preserved
   etag |-> 0,           \* the validator looked up, proven or published
   old |-> NoVersions,   \* the superseded validators, whose bodies to reclaim
   body |-> {},          \* bodies that a clear has to reclaim
   sub |-> {},           \* rows that a subtree sweep has still to remove
   tries |-> 0,          \* compare-and-swap attempts
   reg |-> FALSE,        \* whether it holds a TeeRegistration
   gen |-> 0,            \* the generation it started from
   lost |-> {},          \* addresses whose invalidation failed
   ver |-> NoVersions,   \* history: the versions it has established
   start |-> NoVersions] \* history: floor when it began

(* The store may hold what an earlier process filled.                       *)
Init ==
  /\ sc \in Scenarios
  /\ backend = [a \in Addrs |-> [ver |-> 1, live |-> TRUE]]
  /\ events = {}
  /\ \E warm \in SUBSET sc.addrs, n \in {CHOOSE n \in Nonces : TRUE} :
       /\ row = [a \in Addrs |-> IF a \in warm THEN [nonce |-> n, etag |-> 1] ELSE None]
       /\ content = [a \in Addrs |-> IF a \in warm THEN {1} ELSE {}]
  /\ gens = [h \in Hosts |-> [a \in Addrs |-> [refs |-> 0, gen |-> 0]]]
  /\ pc = [c \in Clients |-> "idle"]
  /\ loc = [c \in Clients |-> NoLocals]
  /\ tasks = {}
  /\ floor = NoVersions
  /\ ops = 0 /\ mishaps = 0
-----------------------------------------------------------------------------
(* Rows.                                                                   *)

(* parse_avail: the validator a row names; zero for a tombstone.            *)
(* NamedByHeader is a mutation: the header is taken for the validator.      *)
NamedByHeader(r) == IF r = None THEN 0 ELSE r.nonce
Named(r) == IF r = None THEN 0 ELSE r.etag

(* The nonces that a later comparison may still meet.                       *)
LiveRows == {row[a] : a \in Addrs}
            \cup (UNION {{loc[c].snap, loc[c].seen, loc[c].kept} : c \in Clients})
            \cup (UNION {{t.from, t.to} : t \in tasks})
Used == {r.nonce : r \in LiveRows \ {None}}

(* encode_avail: a row with a nonce of its own.                             *)
encode_avail(etag) == [nonce |-> CHOOSE n \in Nonces : n \notin Used, etag |-> etag]
NonceLeft == Nonces \ Used # {}

Mishap(kind) == kind \in sc.mishaps /\ mishaps < sc.max_mishaps /\ mishaps' = mishaps + 1
SetRow(a, r) == row' = [row EXCEPT ![a] = r]
DropBodies(a, V) == content' = [content EXCEPT ![a] = @ \ V]
-----------------------------------------------------------------------------
(* Control.                                                                *)

At(c, label) == pc[c] = label
Addr(c) == loc[c].addrs[1]
Generation(c) == gens[Host[c]][Addr(c)].gen

Goto(c, label, l) ==
  /\ pc' = [pc EXCEPT ![c] = label]
  /\ loc' = [loc EXCEPT ![c] = l]
  /\ UNCHANGED floor

Continue(c, label, l) == Goto(c, label, l) /\ UNCHANGED gens

(* bump_generation_key, bump_generations_under_prefix: only registered      *)
(* addresses have a generation.                                             *)
Bump(h, A) ==
  gens' = [gens EXCEPT ![h] = [a \in Addrs |->
             LET g == gens[h][a] IN IF a \in A /\ g.refs > 0 THEN [g EXCEPT !.gen = @ + 1] ELSE g]]

(* TeeRegistration::register, and its drop with the last one of an address. *)
Register(h, a) == gens' = [gens EXCEPT ![h][a].refs = @ + 1]
Deregister(h, a) ==
  LET g == gens[h][a] IN
  gens' = [gens EXCEPT ![h][a] = IF g.refs <= 1 THEN [refs |-> 0, gen |-> 0]
                                                ELSE [g EXCEPT !.refs = @ - 1]]

(* The call is over.  What it has established at the backend is finished;  *)
(* except where an invalidation failed and no guard made up for it.         *)
Vouched(c) == {a \in Addrs : loc[c].ver[a] > floor[a] /\ a \notin loc[c].lost}

Return(c) ==
  /\ pc' = [pc EXCEPT ![c] = "idle"]
  /\ loc' = [loc EXCEPT ![c] = NoLocals]
  /\ floor' = [a \in Addrs |-> IF a \in Vouched(c) THEN loc[c].ver[a] ELSE floor[a]]
  /\ IF loc[c].reg THEN Deregister(Host[c], Addr(c)) ELSE UNCHANGED gens

(* Dropping what is armed.                                                  *)
Unwind(c, l) ==
  IF l.guards = <<>> THEN Return(c)
                     ELSE Continue(c, "drop_row", [l EXCEPT !.todo = l.guards])

(* clear_latest of the next address, whose first statement is the bump.     *)
EnterClear(c, l) ==
  /\ Goto(c, "cl_read", [l EXCEPT !.tries = 0, !.body = {}])
  /\ Bump(Host[c], {Head(l.todo)})

Call(c, op) == At(c, "idle") /\ op \in sc.ops /\ ops < sc.max_ops /\ ops' = ops + 1
Begun(op, addrs) == [NoLocals EXCEPT !.op = op, !.addrs = addrs, !.todo = addrs, !.start = floor]
-----------------------------------------------------------------------------
(* Reads: read and materialize of a cacheable request.                      *)

Read(c, a) ==
  /\ Call(c, "read")
  /\ Continue(c, "stat", Begun("read", <<a>>))
  /\ UNCHANGED <<world, row, content, tasks, mishaps, sc>>

(* lookup_etag.  An object that is gone answers NotFound, which is an       *)
(* outage under lost_backing_fallback and no validator otherwise; a stat    *)
(* that answers Cancelled ends the call.                                    *)
Stat(c) ==
  /\ At(c, "stat")
  /\ LET obj == backend[Addr(c)] IN
     \/ /\ obj.live /\ "strong" \in sc.answers
        /\ Continue(c, "lookup", [loc[c] EXCEPT !.etag = obj.ver])
     \/ /\ obj.live /\ "weak" \in sc.answers
        /\ Continue(c, "live", [loc[c] EXCEPT !.probe = "settled"])
     \/ /\ (obj.live /\ "silent" \in sc.answers) \/ (~obj.live /\ ~Fallback)
        /\ Continue(c, "snap", loc[c])
     \/ /\ "outage" \in sc.answers \/ (~obj.live /\ Fallback)
        /\ Continue(c, "known", loc[c])
     \/ /\ "refused" \in sc.answers
        /\ Continue(c, "fetch", [loc[c] EXCEPT !.probe = "refused"])
     \/ Return(c)
  /\ UNCHANGED <<row, content>>

(* last_known_validator                                                     *)
Known(c) ==
  /\ At(c, "known")
  /\ LET etag == Named(row[Addr(c)]) IN
     Continue(c, IF etag = 0 THEN "snap" ELSE "lookup", [loc[c] EXCEPT !.etag = etag])
  /\ UNCHANGED <<row, content>>

(* A hit under the validator is the answer.                                 *)
Lookup(c) ==
  /\ At(c, "lookup")
  /\ IF loc[c].etag \in content[Addr(c)]
     THEN Continue(c, "hit", loc[c])
     ELSE Continue(c, "snap", [loc[c] EXCEPT !.etag = 0])
  /\ UNCHANGED <<row, content>>

Hit(c) ==
  /\ At(c, "hit")
  /\ Return(c)
  /\ UNCHANGED <<row, content>>

(* What follows the snapshot: the inner read, or the inner write with the   *)
(* tee registered (unless its buffer cannot be staged).                     *)
Snapped(c, l) ==
  \/ l.op = "read" /\ Continue(c, "fetch", l)
  \/ l.op = "write" /\ Continue(c, "inner", l)
  \/ /\ l.op = "write"
     /\ Register(Host[c], Addr(c))
     /\ Goto(c, "inner", [l EXCEPT !.reg = TRUE, !.gen = Generation(c)])

(* snapshot_avail: read the row, seed an absent one, give up after          *)
(* CasAttempts or on a failure.                                             *)
Snap(c) ==
  /\ At(c, "snap")
  /\ \/ row[Addr(c)] # None /\ Snapped(c, [loc[c] EXCEPT !.snap = row[Addr(c)]])
     \/ row[Addr(c)] = None /\ Continue(c, "seed", loc[c])
  /\ UNCHANGED <<row, content>>

Seed(c) ==
  /\ At(c, "seed") /\ NonceLeft
  /\ LET l == loc[c]
         new == encode_avail(0) IN
     \/ /\ row[Addr(c)] = None
        /\ SetRow(Addr(c), new)
        /\ Snapped(c, [l EXCEPT !.snap = new])
     \/ /\ row[Addr(c)] # None
        /\ UNCHANGED row
        /\ IF l.tries + 1 < CasAttempts
           THEN Continue(c, "snap", [l EXCEPT !.tries = @ + 1])
           ELSE Snapped(c, l)
  /\ UNCHANGED content

(* The inner read.  A completed read that names a strong validator proves   *)
(* it, and arms the ReadGuard; one that names none settles the seed.        *)
Fetch(c) ==
  /\ At(c, "fetch")
  /\ LET l == loc[c]
         obj == backend[Addr(c)] IN
     \/ Continue(c, "discard", l)
     \/ /\ obj.live /\ "strong" \in sc.answers
        /\ Continue(c, "fill", [l EXCEPT !.etag = obj.ver, !.guards = l.addrs,
             !.old[Addr(c)] = IF Named(l.snap) = obj.ver THEN 0 ELSE Named(l.snap)])
     \/ /\ obj.live /\ "weak" \in sc.answers /\ l.probe # "settled"
        /\ Continue(c, "live", l)
     \/ /\ obj.live /\ ("silent" \in sc.answers \/ ("weak" \in sc.answers /\ l.probe = "settled"))
        /\ Continue(c, "discard", l)
  /\ UNCHANGED <<row, content>>

(* clear_live_fallback: an untrusted validator disproves the row, once, and *)
(* only a row that names a validator.                                       *)
AfterLive(c, l) == Continue(c, IF l.probe = "settled" THEN "fetch" ELSE "discard", l)

Live(c) ==
  /\ At(c, "live")
  /\ LET l == loc[c] IN
     \/ /\ Named(row[Addr(c)]) = 0
        /\ AfterLive(c, l)
     \/ /\ Named(row[Addr(c)]) # 0
        /\ Bump(Host[c], {Addr(c)})
        /\ Goto(c, "live_swap", [l EXCEPT !.seen = row[Addr(c)]])
  /\ UNCHANGED <<row, content>>

LiveSwap(c) ==
  /\ At(c, "live_swap") /\ NonceLeft
  /\ LET l == loc[c] IN
     \/ /\ row[Addr(c)] = l.seen
        /\ SetRow(Addr(c), encode_avail(0))
        /\ Continue(c, "live_body", [l EXCEPT !.body = {Named(l.seen)}])
     \/ /\ row[Addr(c)] # l.seen
        /\ UNCHANGED row
        /\ AfterLive(c, l)
  /\ UNCHANGED content

LiveBody(c) ==
  /\ At(c, "live_body")
  /\ DropBodies(Addr(c), loc[c].body)
  /\ AfterLive(c, [loc[c] EXCEPT !.seen = None, !.body = {}])
  /\ UNCHANGED row

(* discard_unused_seed: a snapshot that names nothing is taken back.        *)
Discard(c) ==
  /\ At(c, "discard")
  /\ LET s == loc[c].snap IN
     IF s # None /\ Named(s) = 0 /\ row[Addr(c)] = s
     THEN SetRow(Addr(c), None)
     ELSE UNCHANGED row
  /\ Return(c)
  /\ UNCHANGED content
-----------------------------------------------------------------------------
(* The fill of a read that proved a validator.                              *)

(* The body is in the cache: publish it, if there is a fence to publish on. *)
Filled(c, l) ==
  IF l.snap = None THEN Unwind(c, l) ELSE Continue(c, "rl_swap", l)

(* The arms of read and materialize: a body that is not kept (too large, a  *)
(* failed put, a delegate passed through); one that is put or spooled, with *)
(* or without a lease; a stream that is teed; one that finds no fill slot.  *)
Fill(c) ==
  /\ At(c, "fill")
  /\ LET l == loc[c] IN
     \/ Unwind(c, l) /\ UNCHANGED content
     \/ /\ content' = [content EXCEPT ![Addr(c)] = @ \cup {l.etag}]
        /\ Filled(c, l) \/ Unwind(c, l)
     \/ /\ Register(Host[c], Addr(c))
        /\ Goto(c, "tee", [l EXCEPT !.reg = TRUE, !.gen = Generation(c)])
        /\ UNCHANGED content
     \/ EnterClear(c, l) /\ UNCHANGED content
  /\ UNCHANGED row

(* tee_into_cache: the caller drains the stream.  It commits at a clean end *)
(* if the address was not mutated meanwhile.                                *)
Tee(c) ==
  /\ At(c, "tee")
  /\ \/ Generation(c) = loc[c].gen /\ Continue(c, "tee_commit", loc[c])
     \/ Unwind(c, loc[c])
  /\ UNCHANGED <<row, content>>

TeeCommit(c) ==
  /\ At(c, "tee_commit")
  /\ \/ /\ content' = [content EXCEPT ![Addr(c)] = @ \cup {loc[c].etag}]
        /\ Filled(c, loc[c])
     \/ Unwind(c, loc[c]) /\ UNCHANGED content
  /\ UNCHANGED row

(* A mutation: the publish is not fenced on the snapshot.                   *)
RlSwapUnfenced(c) ==
  /\ At(c, "rl_swap") /\ NonceLeft
  /\ SetRow(Addr(c), encode_avail(loc[c].etag))
  /\ Continue(c, "rl_prune", loc[c])
  /\ UNCHANGED content

(* record_latest_guarded_impl: one compare-and-swap against the snapshot.   *)
RlSwap(c) ==
  /\ At(c, "rl_swap") /\ NonceLeft
  /\ LET l == loc[c]
         new == encode_avail(l.etag) IN
     \/ /\ row[Addr(c)] = l.snap
        /\ SetRow(Addr(c), new)
        /\ Continue(c, "rl_prune", l)
     \/ /\ row[Addr(c)] # l.snap
        /\ UNCHANGED row
        /\ Continue(c, "rl_check", l)
  /\ UNCHANGED content

(* The validator that the fill supersedes loses its body.                   *)
RlPrune(c) ==
  /\ At(c, "rl_prune")
  /\ DropBodies(Addr(c), {loc[c].old[Addr(c)]})
  /\ Return(c)
  /\ UNCHANGED row

(* Refused: fine if the row names this validator already, else the row goes.*)
RlCheck(c) ==
  /\ At(c, "rl_check")
  /\ \/ Named(row[Addr(c)]) = loc[c].etag /\ Return(c)
     \/ /\ Named(row[Addr(c)]) # loc[c].etag
        /\ Continue(c, "rl_remove", loc[c])
  /\ UNCHANGED <<row, content>>

(* settled_by_removal                                                       *)
RlRemove(c) ==
  /\ At(c, "rl_remove")
  /\ SetRow(Addr(c), None)
  /\ Return(c)
  /\ UNCHANGED content

(* AvailabilityClear::drop: remove the row, then the body it pointed to.    *)
DropRow(c) ==
  /\ At(c, "drop_row")
  /\ SetRow(Head(loc[c].todo), None)
  /\ Continue(c, "drop_body", [loc[c] EXCEPT !.lost = @ \ {Head(loc[c].todo)}])
  /\ UNCHANGED content

DropBody(c) ==
  /\ At(c, "drop_body")
  /\ LET l == loc[c] IN
     /\ DropBodies(Head(l.todo), {l.old[Head(l.todo)]})
     /\ IF Tail(l.todo) = <<>> THEN Return(c)
        ELSE Continue(c, "drop_row", [l EXCEPT !.todo = Tail(@)])
  /\ UNCHANGED row
-----------------------------------------------------------------------------
(* Mutations.  "mutate" is delete, create_directory, update_metadata and a  *)
(* write whose body is not observed; "write" a write-through; "continue"    *)
(* continue_write; "tree" copy and delete_directory, "rename" rename, which *)
(* also change what is below their addresses.                               *)

Trees == {"tree", "rename", "watchdel", "lapse"}
Scope(l) == LET A == {l.addrs[i] : i \in 1 .. Len(l.addrs)} IN
            IF l.op \in Trees THEN A \cup UNION {Below[a] : a \in A} ELSE A

Mutate(c, op, addrs) ==
  /\ Call(c, op)
  /\ Continue(c, "arm_read", [Begun(op, addrs) EXCEPT !.guards = <<addrs[1]>>])
  /\ UNCHANGED <<world, row, content, tasks, mishaps, sc>>

(* MutationGuard::arm: what the row names is remembered, then the row is    *)
(* removed, before the backend is called.                                   *)
ArmRead(c) ==
  /\ At(c, "arm_read")
  /\ LET a == Head(loc[c].todo) IN
     Continue(c, "arm_clear", [loc[c] EXCEPT !.old[a] = Named(row[a]),
                                 !.kept = IF loc[c].op = "continue" THEN row[a] ELSE None])
  /\ UNCHANGED <<row, content>>

(* The next address, or the backend.  A write-through snapshots the row; it *)
(* is not captured if begin_streaming_put finds no slot.                    *)
Armed(c) ==
  LET l == [loc[c] EXCEPT !.todo = Tail(@)] IN
  IF l.todo # <<>> THEN Continue(c, "arm_read", [l EXCEPT !.guards = <<Head(l.todo)>> \o @])
  ELSE \/ l.op = "write" /\ Continue(c, "snap", l)
       \/ Continue(c, "inner", l)

(* A mutation: the row is left to the clear that follows the backend call.  *)
ArmLate(c) ==
  /\ At(c, "arm_clear")
  /\ Armed(c)
  /\ UNCHANGED <<row, content>>

ArmClear(c) ==
  /\ At(c, "arm_clear")
  /\ SetRow(Head(loc[c].todo), None)
  /\ Armed(c)
  /\ UNCHANGED content

(* The objects of A change: each gets a version of its own, and those in    *)
(* alive exist from now on.                                                 *)
Change(A, alive) ==
  /\ \A a \in A : backend[a].ver < sc.max_ver
  /\ backend' = [a \in Addrs |->
       IF a \in A THEN [ver |-> backend[a].ver + 1, live |-> a \in alive] ELSE backend[a]]
Established(A) == [a \in Addrs |-> IF a \in A THEN backend'[a].ver ELSE 0]

(* What exists afterwards: the destination of a rename and not its source, *)
(* what was written, and of other mutations all or nothing.                 *)
Outcomes(l) ==
  CASE l.op = "rename" -> {({l.addrs[2]} \cup Below[l.addrs[2]]) \ {l.addrs[1]}}
    [] l.op \in {"write", "continue"} -> {Scope(l)}
    [] OTHER -> {Scope(l), {}}

(* The inner call succeeds.  A write whose whole body was captured and that *)
(* has a strong validator goes on to commit the body if nothing was mutated *)
(* meanwhile; what cannot be committed clears.                              *)
InnerOk(c) ==
  /\ At(c, "inner")
  /\ LET l == loc[c] IN
     /\ \/ \E alive \in Outcomes(l) : Change(Scope(l), alive)
        \/ l.op = "write" /\ backend[Addr(c)].live /\ UNCHANGED backend
     /\ LET done == [l EXCEPT !.ver = Established(Scope(l)), !.todo = l.addrs] IN
        \/ /\ l.reg /\ "strong" \in sc.answers /\ Generation(c) = l.gen
           /\ Continue(c, "wt_commit", [done EXCEPT !.etag = backend'[Addr(c)].ver])
        \/ EnterClear(c, done)
  /\ UNCHANGED <<events, row, content>>

(* It fails, or is cancelled: it may have taken effect, in part or in full. *)
InnerFails(c) ==
  /\ At(c, "inner")
  /\ LET l == loc[c] IN
     \E A \in IF l.op \in FailOps THEN SUBSET Scope(l) ELSE {{}} :
       /\ \E alive \in SUBSET A : Change(A, alive)
       /\ Unwind(c, [l EXCEPT !.ver = Established(A)])
  /\ UNCHANGED <<events, row, content>>

(* continue_write answers with redirects: nothing has changed, and the row  *)
(* is put back if none was written meanwhile.                               *)
InnerRedirects(c) ==
  /\ At(c, "inner") /\ loc[c].op = "continue"
  /\ IF loc[c].kept = None THEN Return(c)
     ELSE Continue(c, "restore", [loc[c] EXCEPT !.guards = <<>>])
  /\ UNCHANGED <<world, row, content>>

Restore(c) ==
  /\ At(c, "restore")
  /\ IF row[Addr(c)] = None THEN SetRow(Addr(c), loc[c].kept) ELSE UNCHANGED row
  /\ Return(c)
  /\ UNCHANGED content
-----------------------------------------------------------------------------
(* Write-through.                                                           *)

(* StreamingPut::commit_to, and a commit that fails.                        *)
WtCommit(c) ==
  /\ At(c, "wt_commit")
  /\ \/ /\ content' = [content EXCEPT ![Addr(c)] = @ \cup {loc[c].etag}]
        /\ Continue(c, "wt_final", loc[c])
     \/ /\ UNCHANGED content
        /\ EnterClear(c, [loc[c] EXCEPT !.etag = 0])
  /\ UNCHANGED row

(* finalize_committed_tee: the generation again, now that the body is in.   *)
WtFinal(c) ==
  /\ At(c, "wt_final")
  /\ LET l == loc[c] IN
     IF Generation(c) = l.gen
     THEN /\ Bump(Host[c], {Addr(c)})
          /\ Goto(c, IF l.snap = None THEN "pub_remove" ELSE "pub_swap", l)
          /\ UNCHANGED content
     ELSE /\ DropBodies(Addr(c), {l.etag})
          /\ EnterClear(c, l)
  /\ UNCHANGED row

(* publish_mutation: one attempt, fenced on the row before the write.       *)
PubSwap(c) ==
  /\ At(c, "pub_swap") /\ NonceLeft
  /\ LET l == loc[c]
         new == encode_avail(l.etag) IN
     \/ /\ row[Addr(c)] = l.snap
        /\ SetRow(Addr(c), new)
        /\ Continue(c, "disarm", l)
     \/ /\ row[Addr(c)] # l.snap
        /\ UNCHANGED row
        /\ Continue(c, "pub_remove", l)
  /\ UNCHANGED content

PubRemove(c) ==
  /\ At(c, "pub_remove")
  /\ SetRow(Addr(c), None)
  /\ Continue(c, "disarm", loc[c])
  /\ UNCHANGED content

(* MutationGuard::disarm: the superseded body goes, unless it is the one    *)
(* just published.                                                          *)
Disarm(c) ==
  /\ At(c, "disarm")
  /\ LET l == loc[c]
         a == Head(l.todo) IN
     /\ DropBodies(a, {l.old[a]} \ {l.etag})
     /\ IF Tail(l.todo) = <<>> THEN Return(c)
        ELSE Continue(c, "disarm", [l EXCEPT !.todo = Tail(@)])
  /\ UNCHANGED row
-----------------------------------------------------------------------------
(* clear_latest: tombstone the row by compare-and-swap, remove it after     *)
(* CasAttempts or a failure; then reclaim the bodies it named.              *)

Cleared(c, l) ==
  LET m == [l EXCEPT !.todo = l.addrs] IN
  \/ l.op = "read" /\ Unwind(c, m)
  \/ l.op = "watch" /\ Return(c)
  \/ l.op \in Trees /\ Continue(c, "st_select", m)
  \/ l.op \notin {"read", "watch"} \cup Trees /\ l.lost # {} /\ Unwind(c, m)
  \/ l.op \notin {"read", "watch"} \cup Trees /\ l.lost = {} /\ Continue(c, "disarm", m)

NextClear(c, l) ==
  IF Tail(l.todo) = <<>> THEN Cleared(c, l) ELSE EnterClear(c, [l EXCEPT !.todo = Tail(@)])

ClRead(c) ==
  /\ At(c, "cl_read")
  /\ Continue(c, "cl_swap", [loc[c] EXCEPT !.seen = row[Head(loc[c].todo)]])
  /\ UNCHANGED <<row, content>>

ClSwap(c) ==
  /\ At(c, "cl_swap") /\ NonceLeft
  /\ LET l == loc[c]
         a == Head(l.todo) IN
     \/ /\ row[a] = l.seen
        /\ SetRow(a, encode_avail(0))
        /\ Continue(c, "cl_body", [l EXCEPT !.body = {Named(l.seen)}, !.seen = None])
     \/ /\ row[a] # l.seen
        /\ UNCHANGED row
        /\ Continue(c, IF l.tries + 1 < CasAttempts THEN "cl_read" ELSE "cl_remove",
                    [l EXCEPT !.tries = @ + 1, !.seen = None])
  /\ UNCHANGED content

(* A mutation: a clear that cannot swap the row gives up.                   *)
ClGiveUp(c) ==
  /\ At(c, "cl_remove")
  /\ Continue(c, "cl_body", loc[c])
  /\ UNCHANGED <<row, content>>

(* remove_availability_and_reclaim                                          *)
ClRemove(c) ==
  /\ At(c, "cl_remove")
  /\ LET l == loc[c]
         a == Head(l.todo) IN
     /\ SetRow(a, None)
     /\ Continue(c, "cl_body", [l EXCEPT !.body = @ \cup {Named(row[a])}])
  /\ UNCHANGED content

ClBody(c) ==
  /\ At(c, "cl_body")
  /\ DropBodies(Head(loc[c].todo), loc[c].body)
  /\ NextClear(c, [loc[c] EXCEPT !.body = {}])
  /\ UNCHANGED row
-----------------------------------------------------------------------------
(* clear_subtree: raise the generations, then remove the rows that a query  *)
(* found under the prefix, then the bodies.                                 *)

AfterTree(c, l) ==
  IF l.todo # <<>> THEN Continue(c, "st_select", l)
  ELSE IF l.op \in {"watchdel", "lapse"} THEN Return(c)
  ELSE IF l.lost # {} THEN Unwind(c, l)
  ELSE Continue(c, "disarm", [l EXCEPT !.todo = l.addrs])

StSelect(c) ==
  /\ At(c, "st_select")
  /\ LET below == Below[Head(loc[c].todo)] IN
     /\ Bump(Host[c], below)
     /\ Goto(c, "st_row", [loc[c] EXCEPT !.sub = {b \in below : row[b] # None}])
  /\ UNCHANGED <<row, content>>

(* A mutation: the sweep of the availability rows is left out.              *)
StSkip(c) ==
  /\ At(c, "st_row")
  /\ Continue(c, "st_body", loc[c])
  /\ UNCHANGED <<row, content>>

StRow(c) ==
  /\ At(c, "st_row")
  /\ LET l == loc[c] IN
     \/ /\ l.sub = {} /\ UNCHANGED row
        /\ Continue(c, "st_body", l)
     \/ \E b \in l.sub : SetRow(b, None) /\ Continue(c, "st_row", [l EXCEPT !.sub = @ \ {b}])
  /\ UNCHANGED content

StBody(c) ==
  /\ At(c, "st_body")
  /\ LET below == Below[Head(loc[c].todo)] IN
     content' = [a \in Addrs |-> IF a \in below THEN {} ELSE content[a]]
  /\ AfterTree(c, [loc[c] EXCEPT !.todo = Tail(@)])
  /\ UNCHANGED row
-----------------------------------------------------------------------------
(* Change notifications: the hooks of watch_directory.                      *)

(* An object changes behind the layer's back.                               *)
External(a) ==
  /\ "watch" \in sc.ops
  /\ \E alive \in SUBSET {a} :
       /\ Change({a}, alive)
       /\ events' = events \cup {[addr |-> a, ver |-> backend'[a].ver, del |-> alive = {}]}
  /\ UNCHANGED <<row, content, gens, pc, loc, tasks, floor, bounds>>

(* clear_watched_object: the bump comes first.                              *)
Watch(c, e) ==
  /\ Call(c, "watch") /\ e \in events
  /\ events' = events \ {e}
  /\ Bump(Host[c], {e.addr})
  /\ Goto(c, "cl_remove", [Begun(IF e.del THEN "watchdel" ELSE "watch", <<e.addr>>)
                              EXCEPT !.ver[e.addr] = e.ver])
  /\ UNCHANGED <<backend, row, content, tasks, mishaps, sc>>

(* Lapsed, or a gap in the stream: events about what is below are lost.     *)
Lapse(c, a) ==
  /\ Call(c, "lapse")
  /\ events' = {e \in events : e.addr \notin Below[a]}
  /\ Continue(c, "st_select", [Begun("lapse", <<a>>) EXCEPT !.ver =
       [b \in Addrs |-> IF b \in Below[a] THEN backend[b].ver ELSE 0]])
  /\ UNCHANGED <<backend, row, content, tasks, mishaps, sc>>
-----------------------------------------------------------------------------
(* Cancellation.                                                            *)

Task(c, kind, from, to, body, armed) ==
  [id |-> mishaps, host |-> Host[c], kind |-> kind, armed |-> armed,
   addr |-> IF loc[c].todo = <<>> THEN Addr(c) ELSE Head(loc[c].todo),
   from |-> from, to |-> to, body |-> body]

(* The blocking task that a client waits for, if any.                       *)
Blocking(c) ==
  LET l == loc[c]
      swap(from, to, body, armed) == {Task(c, "swap", from, to, body, armed)} IN
  CASE At(c, "seed") -> swap(None, encode_avail(0), {}, FALSE)
    [] pc[c] \in {"cl_swap", "live_swap"} -> swap(l.seen, encode_avail(0), {Named(l.seen)}, FALSE)
    [] At(c, "discard") -> IF Named(l.snap) = 0 /\ l.snap # None
                           THEN swap(l.snap, None, {}, FALSE) ELSE {}
    [] At(c, "rl_swap") -> swap(l.snap, encode_avail(l.etag), {l.old[Addr(c)]}, TRUE)
    [] At(c, "pub_swap") -> swap(l.snap, encode_avail(l.etag), {}, FALSE)
    [] At(c, "restore") -> swap(None, l.kept, {}, FALSE)
    [] pc[c] \in {"arm_clear", "pub_remove", "rl_remove"} -> {Task(c, "remove", None, None, {}, FALSE)}
    [] At(c, "cl_remove") -> {Task(c, "take", None, None, l.body, FALSE)}
    [] pc[c] \in {"tee_commit", "wt_commit"} -> {Task(c, "fill", None, None, {l.etag}, FALSE)}
    [] pc[c] \in {"cl_body", "live_body"} -> {Task(c, "reclaim", None, None, l.body, FALSE)}
    [] OTHER -> {}

Awaits == {"stat", "known", "lookup", "snap", "seed", "fetch", "live", "live_swap", "live_body",
           "discard", "tee_commit", "rl_swap", "rl_check", "rl_remove", "arm_read", "arm_clear",
           "restore", "wt_commit", "pub_swap", "pub_remove", "cl_read", "cl_swap", "cl_remove",
           "cl_body"}

(* The future is dropped.  A publish takes the ReadGuard with it.           *)
Cancel(c) ==
  /\ pc[c] \in Awaits /\ loc[c].op \notin {"watch", "watchdel", "lapse"}
  /\ Mishap("cancel")
  /\ NonceLeft
  /\ tasks' = tasks \cup Blocking(c)
  /\ IF At(c, "rl_swap") THEN Return(c) ELSE Unwind(c, loc[c])
  /\ UNCHANGED <<world, row, content, ops, sc>>

(* A detached task runs.  A swap that lands reclaims; one that does not     *)
(* drops the guard it owns.                                                 *)
RunTask(t) ==
  /\ t \in tasks
  /\ LET then(kind, body) == tasks' = (tasks \ {t}) \cup {[t EXCEPT !.kind = kind, !.body = body]}
         done == tasks' = tasks \ {t} IN
     \/ /\ t.kind = "swap" /\ row[t.addr] = t.from
        /\ SetRow(t.addr, t.to) /\ UNCHANGED content
        /\ then("reclaim", t.body)
     \/ /\ t.kind = "swap" /\ row[t.addr] # t.from
        /\ UNCHANGED <<row, content>>
        /\ IF t.armed THEN then("drop", t.body) ELSE done
     \/ /\ t.kind \in {"remove", "take", "drop"}
        /\ SetRow(t.addr, None) /\ UNCHANGED content
        /\ then("reclaim", IF t.kind = "take" THEN t.body \cup {Named(row[t.addr])} ELSE t.body)
     \/ /\ t.kind = "fill"
        /\ content' = [content EXCEPT ![t.addr] = @ \cup t.body] /\ UNCHANGED row
        /\ done
     \/ /\ t.kind = "reclaim"
        /\ DropBodies(t.addr, t.body) /\ UNCHANGED row
        /\ done
  /\ UNCHANGED <<world, gens, pc, loc, floor, bounds>>

(* A process is killed: its calls, tasks and generations are gone.          *)
Crash(h) ==
  /\ Mishap("crash")
  /\ pc' = [c \in Clients |-> IF Host[c] = h THEN "idle" ELSE pc[c]]
  /\ loc' = [c \in Clients |-> IF Host[c] = h THEN NoLocals ELSE loc[c]]
  /\ gens' = [gens EXCEPT ![h] = [a \in Addrs |-> [refs |-> 0, gen |-> 0]]]
  /\ tasks' = {t \in tasks : t.host # h}
  /\ UNCHANGED <<world, row, content, floor, ops, sc>>

(* Size pressure: the byte store may evict any row and any body.            *)
Evict(a) ==
  /\ sc.evicts
  /\ \/ row[a] # None /\ SetRow(a, None) /\ UNCHANGED content
     \/ \E v \in content[a] : DropBodies(a, {v}) /\ UNCHANGED row
  /\ UNCHANGED <<world, gens, pc, loc, tasks, floor, bounds>>
-----------------------------------------------------------------------------
(* A call of the byte store fails.                                          *)

(* An unreadable row is no fallback, no snapshot, nothing to supersede and  *)
(* nothing to compare with; an unreadable body fails the read.              *)
ReadFails(c) ==
  /\ Mishap("read")
  /\ LET l == loc[c] IN
     \/ At(c, "known") /\ Continue(c, "snap", l)
     \/ At(c, "lookup") /\ Return(c)
     \/ At(c, "snap") /\ Snapped(c, l)
     \/ At(c, "live") /\ AfterLive(c, l)
     \/ At(c, "rl_check") /\ Continue(c, "rl_remove", l)
     \/ At(c, "arm_read") /\ Continue(c, "arm_clear", l)
     \/ At(c, "cl_read") /\ Continue(c, "cl_remove", l)
  /\ UNCHANGED <<world, row, content, tasks, ops, sc>>

(* A compare-and-swap that fails may have landed.  Publishes and clears fall *)
(* back on a removal; that of an untrusted validator is part of its task.   *)
SwapFails(c) ==
  /\ Mishap("swap") /\ NonceLeft
  /\ \E t \in Blocking(c) :
       /\ t.kind = "swap"
       /\ \/ UNCHANGED row
          \/ row[t.addr] = t.from /\ SetRow(t.addr, t.to)
          \/ At(c, "live_swap") /\ SetRow(t.addr, None)
       /\ LET l == loc[c] IN
          \/ At(c, "seed") /\ Snapped(c, l)
          \/ pc[c] \in {"discard", "restore"} /\ Return(c)
          \/ At(c, "rl_swap") /\ Continue(c, "rl_remove", l)
          \/ At(c, "pub_swap") /\ Continue(c, "pub_remove", l)
          \/ At(c, "cl_swap") /\ Continue(c, "cl_remove", [l EXCEPT !.body = t.body, !.seen = None])
          \/ At(c, "live_swap") /\ Continue(c, "live_body", [l EXCEPT !.body = t.body])
  /\ UNCHANGED <<world, content, tasks, ops, sc>>

(* A removal of a row fails.  Arming goes on regardless, a guard that drops *)
(* can do no more, a publish leaves its guard armed, and a clear goes on to *)
(* the next scope and reports the failure at the end.                       *)
RemoveFails(c) ==
  /\ Mishap("remove")
  /\ LET l == loc[c] IN
     \/ At(c, "arm_clear") /\ Armed(c)
     \/ At(c, "drop_row") /\ Continue(c, "drop_body", [l EXCEPT !.lost = @ \cup {Head(l.todo)}])
     \/ pc[c] \in {"rl_remove", "pub_remove"} /\ Unwind(c, l)
     \/ At(c, "cl_remove") /\ Continue(c, "cl_body", [l EXCEPT !.lost = @ \cup {Head(l.todo)}])
     \/ /\ At(c, "st_row") /\ l.sub # {}
        /\ Continue(c, "st_body", [l EXCEPT !.sub = {}, !.lost = @ \cup l.sub])
  /\ UNCHANGED <<world, row, content, tasks, ops, sc>>
-----------------------------------------------------------------------------
Start(c) ==
  /\ c \in sc.clients
  /\ \/ \E a \in sc.addrs :
          \/ Read(c, a)
          \/ \E op \in {"write", "mutate", "continue", "tree"} : Mutate(c, op, <<a>>)
          \/ Lapse(c, a)
     \/ \E a, b \in sc.addrs : a # b /\ Mutate(c, "rename", <<a, b>>)
     \/ \E e \in events : Watch(c, e)

Local(c) ==
  \/ Stat(c) \/ Known(c) \/ Lookup(c) \/ Hit(c) \/ Snap(c) \/ Seed(c) \/ Fetch(c)
  \/ Live(c) \/ LiveSwap(c) \/ LiveBody(c) \/ Discard(c)
  \/ Fill(c) \/ Tee(c) \/ TeeCommit(c)
  \/ RlSwap(c) \/ RlPrune(c) \/ RlCheck(c) \/ RlRemove(c) \/ DropRow(c) \/ DropBody(c)
  \/ ArmRead(c) \/ ArmClear(c) \/ Restore(c)
  \/ WtCommit(c) \/ WtFinal(c) \/ PubSwap(c) \/ PubRemove(c) \/ Disarm(c)
  \/ ClRead(c) \/ ClSwap(c) \/ ClRemove(c) \/ ClBody(c)
  \/ StSelect(c) \/ StRow(c) \/ StBody(c)

Next ==
  \/ \E c \in Clients :
       \/ Start(c)
       \/ Local(c) /\ UNCHANGED <<world, tasks, bounds>>
       \/ (InnerOk(c) \/ InnerFails(c) \/ InnerRedirects(c)) /\ UNCHANGED <<events, tasks, bounds>>
       \/ ReadFails(c) \/ SwapFails(c) \/ RemoveFails(c)
       \/ Cancel(c)
  \/ \E t \in tasks : RunTask(t)
  \/ \E a \in Addrs : External(a) \/ Evict(a)
  \/ \E h \in Hosts : Crash(h)

Spec == Init /\ [][Next]_vars
-----------------------------------------------------------------------------
Labels == Awaits \cup {"idle", "hit", "fill", "tee", "rl_prune", "drop_row", "drop_body",
                       "inner", "wt_final", "disarm", "st_select", "st_row", "st_body"}
VersionMaps == [Addrs -> 0 .. MaxVer]

Locals == [op : OpNames, addrs : Seq(Addrs), todo : Seq(Addrs), guards : Seq(Addrs),
           probe : {"fence", "settled", "refused"},
           snap : Rows \cup {None}, seen : Rows \cup {None}, kept : Rows \cup {None},
           etag : 0 .. MaxVer, old : VersionMaps, body : SUBSET (0 .. MaxVer),
           sub : SUBSET Addrs, tries : Nat, reg : BOOLEAN, gen : Nat, lost : SUBSET Addrs,
           ver : VersionMaps, start : VersionMaps]

TaskRecords == [id : Nat, host : Hosts, addr : Addrs,
                kind : {"swap", "remove", "take", "drop", "fill", "reclaim"}, armed : BOOLEAN,
                from : Rows \cup {None}, to : Rows \cup {None}, body : SUBSET (0 .. MaxVer)]

(* The variables hold what their comments say, at every label of every     *)
(* handler of byte_cache.rs.                                                *)
TypeOK ==
  /\ backend \in [Addrs -> [ver : Versions, live : BOOLEAN]]
  /\ events \subseteq [addr : Addrs, ver : Versions, del : BOOLEAN]
  /\ row \in [Addrs -> Rows \cup {None}]
  /\ content \in [Addrs -> SUBSET (0 .. MaxVer)]
  /\ gens \in [Hosts -> [Addrs -> [refs : Nat, gen : Nat]]]
  /\ pc \in [Clients -> Labels]
  /\ loc \in [Clients -> Locals]
  /\ tasks \subseteq TaskRecords
  /\ floor \in VersionMaps
  /\ sc \in Scenarios /\ ops \in 0 .. sc.max_ops /\ mishaps \in 0 .. sc.max_mishaps

(* What has to be excluded for an old validator never to come back: a       *)
(* subtree mutation that fails or is dropped after the backend took effect, *)
(* whose children nobody sweeps, and a continue_write that is dropped, or   *)
(* that puts its row back while another client has changed the object.      *)
Guarded ==
  /\ FailOps \cap {"tree", "rename"} = {}
  /\ \A x \in Scenarios :
       /\ "cancel" \in x.mishaps => x.ops \cap {"tree", "rename", "continue"} = {}
       /\ "continue" \in x.ops => \A c, e \in x.clients : c = e

(* No resurrection: once a mutation through the layer has returned (in     *)
(* success, in failure or cancelled), or a change notification has been     *)
(* handled, no availability row names a validator older than what it        *)
(* established, whatever reads, fills, detached tasks, evictions and other  *)
(* processes do.                                                            *)
NoResurrection == \A a \in Addrs : Named(row[a]) # 0 => Named(row[a]) >= floor[a]

(* A read that is answered from the cache, the fallback included, returns a *)
(* version at least as new as every mutation finished before it began.      *)
ServedFresh == \A c \in Clients : At(c, "hit") => loc[c].etag >= loc[c].start[Addr(c)]

(* Write-ahead invalidation (MutationGuard::arm): at every instant, the     *)
(* instants of a crash included, the row names nothing or the validator     *)
(* that the backend has.  Only where one client makes all the changes: the  *)
(* backend tells of others' changes after they have happened.               *)
Alone(x) == "watch" \notin x.ops /\ \A c, e \in x.clients : c = e
OneClient == Alone(sc)
RowCurrent == OneClient => \A a \in Addrs : Named(row[a]) \in {0, backend[a].ver}

(* What has to be excluded for that: a removal that fails, after which      *)
(* arming goes on regardless, and subtree mutations, which arm the rows of  *)
(* their own addresses and not those of children.                           *)
WriteAhead ==
  \A x \in Scenarios : Alone(x) => "remove" \notin x.mishaps /\ x.ops \cap {"tree", "rename"} = {}
=============================================================================
