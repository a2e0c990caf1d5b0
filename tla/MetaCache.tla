----------------------------- MODULE MetaCache -----------------------------
(***************************************************************************)
(* The metadata cache: the store of `stat` and `list` rows with its budget *)
(* and its LRU eviction, and the wrapper layer that fills it from the      *)
(* layer below and invalidates it on mutations and on watch events.        *)
(*                                                                         *)
(* Every lock section of the store is one step, so a request that is on    *)
(* its way between the backend's answer and its insert meets the           *)
(* invalidations of others.  The backend (external) is a tree of nodes,    *)
(* each with a version that every change raises.  Principals and           *)
(* credentials only make keys differ, and are left out: an invalidation    *)
(* reaches the rows of all of them.                                        *)
(***************************************************************************)
EXTENDS Naturals, Sequences, FiniteSets, FiniteSetsExt, SequencesExt

CONSTANTS Files, Directories,   \* the nodes below the root
          Root,                 \* the listed root
          Parent,               \* the directory each node is in
          Callers,              \* concurrent requests
          Drain,                \* the consumer of a watch stream
          MaxChanges,           \* bound: changes of the backend
          MaxEvents,            \* bound: events waiting on the stream
          Scenarios             \* the requests, and MetadataCacheConfig::max_entries

ASSUME TreeAssumption ==
  /\ \A s \in Scenarios : s.max_entries \in Nat \ {0}
  /\ Drain \notin Callers
  /\ Parent \in [Files \cup Directories -> Directories \cup {Root}]
  /\ Root \notin Files \cup Directories
  /\ IsFiniteSet(Files \cup Directories)
  /\ MaxChanges \in Nat /\ MaxEvents \in Nat

\* The mutations considered.  Of another client's change the stream tells one
\* event, of one node: a rename is a deletion and a write there.
ASSUME ScenariosAssumption ==
  \A s \in Scenarios :
    /\ s.mutations \subseteq [op : {"write", "delete", "rename", "rename_directory", "delete_directory"},
                              node : Files \cup Directories, to : Files \cup Directories]
    /\ s.foreign \subseteq [op : {"write", "delete", "delete_directory"},
                            node : Files \cup Directories, to : Files \cup Directories]

VARIABLES scen,     \* the requests of this behaviour
          ver,      \* the version of each node
          here,     \* whether each node exists
          changes,  \* how many changes the backend has seen
          cache,    \* CacheState: the rows, their last_accessed, current_size
          job,      \* what each caller, and the drain, is doing
          stream,   \* the watch stream: "open" or "ended"
          events,   \* events the backend has put on it
          settled   \* the version of each node whose change has been invalidated,
                    \* in stat rows and in the listings it is an entry of

vars == <<scen, ver, here, changes, cache, job, stream, events, settled>>
backend == <<ver, here, changes>>

Nodes == Files \cup Directories
Above[n \in Nodes \cup {Root}] == IF n = Root THEN {Root} ELSE {n} \cup Above[Parent[n]]
UnderPrefix(n, prefix) == prefix \in Above[n]

\* Parents lead up to the root, never round in a circle.
ASSUME AboveAssumption ==
  /\ Above[Root] = {Root}
  /\ \A n \in Nodes : /\ Above[n] = {n} \cup Above[Parent[n]]
                      /\ Root \in Above[n] /\ Above[n] \subseteq Nodes \cup {Root}
                      /\ \A m \in Above[n] \ {Root} : Parent[m] \in Above[n]

Children(p) == {n \in Nodes : Parent[n] = p}

Flags == {"full_metadata", "versioned_address"}
Keys == ({"Stat"} \X Nodes) \cup ({"List"} \X (Directories \cup {Root}))

\* What a change or its invalidation is about: for each node, in stat rows and
\* in the listings it is an entry of, the version that must be gone.
Aspects == {"Stat", "List"}
Settles(pairs, v) == [aspect \in Aspects |-> [n \in Nodes |-> IF <<aspect, n>> \in pairs THEN v ELSE 0]]
Nothing == Settles({}, 0)

\* A row, and a page on its way to become one: the entries it shows, whether
\* they are all of them, the versions and the existence of the nodes it is
\* about as the backend had them, the flags it claims (`flags`) and the ones
\* the backend served (`carried`).  `late` marks a row that an invalidation
\* would have dropped had it been stored already.
Row(shown, about, flags, carried) ==
  [shown |-> shown, complete |-> shown = {n \in about : here[n]},
   seen |-> [n \in about |-> ver[n]], there |-> [n \in about |-> here[n]],
   flags |-> flags, carried |-> carried, live |-> TRUE, late |-> FALSE]

\* object_info_count(..).max(1)
Size(row) == IF row.shown = {} THEN 1 ELSE Cardinality(row.shown)

-----------------------------------------------------------------------------
(* MetadataCache: the store, as functions of its state.                    *)

Holds(c, key) == key \in DOMAIN c.rows

SizeOf(c, keys) == MapThenSumSet(LAMBDA key : Size(c.rows[key]), keys)

Minus(m, n) == IF n > m THEN 0 ELSE m - n

\* Instants matter only by their order: the stamps of `keys`, counted up from
\* the earliest.
Ranks(accessed, keys) ==
  [key \in keys |-> Cardinality({k \in keys : accessed[k] <= accessed[key]})]

\* A mutation: the rows go, and stay counted.
WithoutRefund(c, keys) ==
  LET gone == keys \cap DOMAIN c.rows
  IN [rows |-> [key \in DOMAIN c.rows \ gone |-> c.rows[key]],
      accessed |-> Ranks(c.accessed, DOMAIN c.rows \ gone),
      used |-> c.used]

\* Remove the rows of `keys` and take their sizes off current_size.
Without(c, keys) ==
  LET gone == keys \cap DOMAIN c.rows
  IN [rows |-> [key \in DOMAIN c.rows \ gone |-> c.rows[key]],
      accessed |-> Ranks(c.accessed, DOMAIN c.rows \ gone),
      used |-> Minus(c.used, SizeOf(c, gone))]

\* The row of `key` is stamped; `newer` of the other rows have a later stamp.
Stamped(c, key, newer) ==
  LET others == DOMAIN c.rows \ {key}
      rank == Ranks(c.accessed, others)
      at == Minus(Cardinality(others), newer) + 1
  IN [k \in others \cup {key} |->
        IF k = key THEN at ELSE IF rank[k] < at THEN rank[k] ELSE rank[k] + 1]

\* A hit is the latest access of all: the clock is read under the lock.
Touched(c, key) == [c EXCEPT !.accessed = Stamped(c, key, 0)]

\* get: a live row whose flags cover the request, a narrower one, or a miss.
Lookup(c, key, requested) ==
  CASE ~Holds(c, key) \/ ~c.rows[key].live -> "Miss"
    [] Holds(c, key) /\ c.rows[key].live /\ ~(requested \subseteq c.rows[key].flags) -> "Narrower"
    [] OTHER -> "Hit"

AfterLookup(c, key, requested) ==
  CASE Holds(c, key) /\ ~c.rows[key].live -> Without(c, {key})
    [] Lookup(c, key, requested) = "Hit"  -> Touched(c, key)
    [] OTHER -> c

\* The least recently used rows that must go for `size` more to fit.
Victims(c, size) ==
  LET first(i) == {key \in DOMAIN c.rows : c.accessed[key] <= i}
      over(i) == Minus(c.used, SizeOf(c, first(i))) + size > scen.max_entries
  IN first(Max({i \in 0 .. Cardinality(DOMAIN c.rows) : \A j \in 0 .. i - 1 : over(j)}))

Fitted(c, key, row, newer) ==
  LET room == Without(c, Victims(c, Size(row)))
  IN [rows |-> [k \in DOMAIN room.rows \cup {key} |-> IF k = key THEN row ELSE room.rows[k]],
      accessed |-> Stamped(room, key, newer),
      used |-> room.used + Size(row)]

\* insert: the prior row goes even when the new one does not fit the budget.
\* The clock is read before the lock is taken, so that `newer` rows may have
\* been stamped since.
Insert(c, key, row, newer) ==
  LET kept == Without(c, {key})
  IN IF Size(row) > scen.max_entries THEN kept ELSE Fitted(kept, key, row, newer)

\* A mutation: only the directory a node is directly in loses its listing.
MatchedParentOnly(how, n) ==
  CASE how = "address" -> {key \in Keys : key[2] = n}
    [] how = "prefix"  -> {key \in Keys : UnderPrefix(key[2], n)}
    [] how = "lists"   -> {key \in Keys : key[1] = "List" /\ n # Root /\ key[2] = Parent[n]}

\* The keys an invalidation drops: invalidate_address, invalidate_prefix and
\* invalidate_lists_containing.
Matched(how, n) ==
  CASE how = "address" -> {key \in Keys : key[2] = n}
    [] how = "prefix"  -> {key \in Keys : UnderPrefix(key[2], n)}
    [] how = "lists"   -> {key \in Keys : key[1] = "List" /\ UnderPrefix(n, key[2])}

-----------------------------------------------------------------------------
(* The work a request has in hand.                                         *)

Idle == [at |-> "idle", node |-> Root, want |-> {}, up |-> {}, todo |-> <<>>,
         settles |-> Nothing]

Init ==
  /\ scen \in Scenarios
  /\ ver = [n \in Nodes |-> 0]
  /\ here = [n \in Nodes |-> n \in scen.present]
  /\ changes = 0
  /\ cache = [rows |-> [key \in {} |-> {}], accessed |-> [key \in {} |-> 0], used |-> 0]
  /\ job = [c \in Callers \cup {Drain} |-> Idle]
  /\ stream = "ended"
  /\ events = <<>>
  /\ settled = Nothing

Becomes(c, j) == job' = [job EXCEPT ![c] = j]

\* A mutation: a listing is stored under the flags it was asked for.
ListFlagsAsked(want) == want

\* store_list: the listing's row, then one stat row per file on the page.  A
\* listing never vouches for full metadata.
ListFlags(want) == want \cap {"versioned_address"}
ListCarries(want) == want \cap {"versioned_address"}

\* A mutation: the entries' rows are stored under the listing's own address.
PageRowsUnderPrefix(p, row) ==
  <<[key |-> <<"List", p>>, row |-> row]>> \o
  [i \in 1 .. Cardinality(row.shown \cap Files) |->
     LET n == SetToSeq(row.shown \cap Files)[i]
     IN [key |-> <<"Stat", p>>,
         row |-> [row EXCEPT !.shown = {n}, !.complete = TRUE,
                             !.seen = [m \in {n} |-> row.seen[m]],
                             !.there = [m \in {n} |-> row.there[m]]]]]

PageRows(p, row) ==
  <<[key |-> <<"List", p>>, row |-> row]>> \o
  [i \in 1 .. Cardinality(row.shown \cap Files) |->
     LET n == SetToSeq(row.shown \cap Files)[i]
     IN [key |-> <<"Stat", n>>,
         row |-> [row EXCEPT !.shown = {n}, !.complete = TRUE,
                             !.seen = [m \in {n} |-> row.seen[m]],
                             !.there = [m \in {n} |-> row.there[m]]]]]

\* find_in_page: a file answers, a directory entry delegates, and what is not
\* there is absent only if the page is complete.
FindInPage(row, n) ==
  CASE n \in row.shown \cap Files -> "Found"
    [] n \in row.shown \ Files    -> "Unavailable"
    [] n \notin row.shown         -> IF row.complete THEN "NotFound" ELSE "Unavailable"

-----------------------------------------------------------------------------
(* Reads.                                                                  *)

Quiet == UNCHANGED <<scen, backend, stream, events, settled>>

\* stat: the row answers, or the request goes on under the union of its own
\* flags and those of a narrower row.
StatLookup(c, n, want) ==
  LET key == <<"Stat", n>>
      found == Lookup(cache, key, want)
  IN /\ job[c].at = "idle"
     /\ <<n, want>> \in scen.stats
     /\ cache' = AfterLookup(cache, key, want)
     /\ Becomes(c, IF found = "Hit" THEN Idle
                   ELSE [Idle EXCEPT !.at = "parent", !.node = n, !.want = want,
                           !.up = want \cup (IF found = "Narrower" THEN cache.rows[key].flags
                                             ELSE {})])
     /\ Quiet

\* stat_from_parent_list: a cached listing answers or delegates; without one,
\* only a request with no flags may ask for a fresh listing.
ParentLookup(c) ==
  LET j == job[c]
      key == <<"List", Parent[j.node]>>
      hit == Lookup(cache, key, j.want) = "Hit"
  IN /\ j.at = "parent"
     /\ cache' = AfterLookup(cache, key, j.want)
     /\ Becomes(c, CASE hit /\ FindInPage(cache.rows[key], j.node) # "Unavailable" -> Idle
                     [] ~hit /\ j.want = {} -> [j EXCEPT !.at = "offer"]
                     [] OTHER -> [j EXCEPT !.at = "direct"])
     /\ Quiet

\* The pages the backend may return for a directory (external).
Pages(p) ==
  LET present == {n \in Children(p) : here[n]}
  IN IF scen.paged THEN SUBSET present ELSE {present}

\* The answers of a list call of `p`: none when the directory is gone.
Listed(p, want) ==
  IF p # Root /\ ~here[p] THEN {}
  ELSE {Row(shown, Children(p), ListFlags(want), ListCarries(want)) : shown \in Pages(p)}

\* The route opts in and the listing arrives, or the stat goes to the backend.
FreshListing(c) ==
  LET j == job[c]
      p == Parent[j.node]
  IN /\ j.at = "offer"
     /\ \/ Becomes(c, [j EXCEPT !.at = "direct"])
        \/ \E row \in Listed(p, {}) :
             Becomes(c, [j EXCEPT !.at = IF FindInPage(row, j.node) = "Unavailable"
                                         THEN "fill_then_stat" ELSE "fill",
                                  !.todo = PageRows(p, row)])
     /\ UNCHANGED cache
     /\ Quiet

\* The direct stat: what it finds is stored under the flags it asked for.
DirectStat(c) ==
  LET j == job[c]
      row == Row({j.node}, {j.node}, j.up, j.up)
  IN /\ j.at = "direct"
     /\ \/ Becomes(c, Idle)
        \/ /\ here[j.node]
           /\ Becomes(c, [j EXCEPT !.at = "fill",
                                   !.todo = <<[key |-> <<"Stat", j.node>>, row |-> row]>>])
     /\ UNCHANGED cache
     /\ Quiet

List(c, p, want) ==
  /\ job[c].at = "idle"
  /\ <<p, want>> \in scen.lists
  /\ \E row \in Listed(p, want) :
       Becomes(c, [Idle EXCEPT !.at = "fill", !.todo = PageRows(p, row)])
  /\ UNCHANGED cache
  /\ Quiet

\* One insert of the rows on their way.
Fill(c) ==
  LET j == job[c]
      item == Head(j.todo)
      rest == [j EXCEPT !.todo = Tail(j.todo)]
  IN /\ j.at \in {"fill", "fill_then_stat"}
     /\ \E newer \in 0 .. Cardinality(DOMAIN cache.rows) :
          cache' = Insert(cache, item.key, item.row, newer)
     /\ Becomes(c, IF rest.todo # <<>> THEN rest
                   ELSE IF j.at = "fill" THEN Idle ELSE [rest EXCEPT !.at = "direct"])
     /\ Quiet

-----------------------------------------------------------------------------
(* Mutations, watch events and time.                                       *)

Subtree(n) == {m \in Nodes : UnderPrefix(m, n)}

\* The backend changes `nodes` (external).
Change(nodes, exist) ==
  /\ changes < MaxChanges
  /\ changes' = changes + 1
  /\ ver' = [n \in Nodes |-> IF n \in nodes THEN changes + 1 ELSE ver[n]]
  /\ here' = [n \in Nodes |-> IF n \in nodes THEN n \in exist ELSE here[n]]

\* Writing a node brings back the directories it is in.
Written(n) == {n} \cup {m \in Above[n] \ {Root} : ~here[m]}

\* invalidate_for
Both(n) == <<[how |-> "address", node |-> n], [how |-> "lists", node |-> n]>>
Prefix(n) == <<[how |-> "prefix", node |-> n]>>

\* A mutation of `n` (and `m.to`): the nodes the backend changes, the ones
\* that exist afterwards, the invalidations that follow its success, and the
\* nodes whose stat rows and listings are then to be gone.  A copy's
\* destination, update_metadata, create_directory and the last step of
\* continue_write invalidate as a write does.  A renamed directory takes its
\* subtree along; only its own address is invalidated.
Effect(m) ==
  LET n == m.node
      effect(nodes, exist, todo, stat, list) ==
        [nodes |-> nodes, exist |-> exist, todo |-> todo,
         settles |-> ({"Stat"} \X stat) \cup ({"List"} \X list)]
  IN CASE m.op = "write" ->
            effect(Written(n), Written(n), Both(n), {n}, Written(n))
       [] m.op = "delete" ->
            effect({n}, {}, Both(n), {n}, {n})
       [] m.op = "rename" ->
            effect({n} \cup Written(m.to), Written(m.to), Both(n) \o Both(m.to),
                   {n, m.to}, {n} \cup Written(m.to))
       [] m.op = "rename_directory" ->
            effect(Subtree(n), {}, Both(n), {n}, {n})
       [] m.op = "delete_directory" ->
            effect(Subtree(n), {}, Both(n) \o Prefix(n), Subtree(n), Subtree(n))

Possible(m) == m.op = "write" \/ here[m.node]

\* Every mutating slot: the layer below first, the invalidations only when it
\* succeeds.  It may fail after the backend has changed.
Mutate(c, m) ==
  /\ job[c].at = "idle"
  /\ m \in scen.mutations
  /\ Possible(m)
  /\ Change(Effect(m).nodes, Effect(m).exist)
  /\ \/ Becomes(c, Idle)
     \/ Becomes(c, [Idle EXCEPT !.at = "sweep", !.todo = Effect(m).todo,
                      !.settles = Settles(Effect(m).settles, changes + 1)])
  /\ UNCHANGED <<scen, cache, stream, events, settled>>

\* One invalidation: the matching rows go, and those still on their way are
\* marked.  With the last one the change is settled.
Sweep(c) ==
  LET j == job[c]
      keys == Matched(Head(j.todo).how, Head(j.todo).node)
      marked(item) == IF item.key \in keys
                      THEN [key |-> item.key, row |-> [item.row EXCEPT !.late = TRUE]] ELSE item
      mark(b) == IF job[b].at \in {"fill", "fill_then_stat"}
                 THEN [job[b] EXCEPT !.todo = [i \in DOMAIN job[b].todo |-> marked(job[b].todo[i])]]
                 ELSE job[b]
      over == Len(j.todo) = 1
  IN /\ j.at = "sweep"
     /\ cache' = Without(cache, keys)
     /\ job' = [b \in DOMAIN job |->
                  IF b # c THEN mark(b)
                  ELSE IF over THEN Idle ELSE [j EXCEPT !.todo = Tail(j.todo)]]
     /\ settled' = IF ~over THEN settled
                   ELSE [aspect \in Aspects |-> [n \in Nodes |->
                           IF j.settles[aspect][n] > settled[aspect][n]
                           THEN j.settles[aspect][n] ELSE settled[aspect][n]]]
     /\ UNCHANGED <<scen, backend, stream, events>>

\* Another client changes the backend; the stream, if it is open, carries an
\* event, or loses them all and says so.
Foreign(m) ==
  LET event == [gone |-> m.op # "write", node |-> m.node,
                settles |-> Settles(Effect(m).settles, changes + 1)]
      lapsed == [gone |-> FALSE, node |-> Root, settles |-> Nothing]
  IN /\ m \in scen.foreign
     /\ Possible(m)
     /\ Change(Effect(m).nodes, Effect(m).exist)
     /\ events' = IF stream = "ended" THEN events
                  ELSE IF Len(events) < MaxEvents THEN Append(events, event) ELSE <<lapsed>>
     /\ UNCHANGED <<scen, cache, job, stream, settled>>

\* The sweep of a gap: everything under the watched prefix, and the listings
\* that contain it.
GapSweep ==
  [Idle EXCEPT !.at = "sweep", !.todo = Prefix(Root) \o <<[how |-> "lists", node |-> Root]>>,
               !.settles = [aspect \in Aspects |-> ver]]

\* watch_directory's handler of one event: Created, Modified, Deleted, Lapsed.
Deliver ==
  LET e == Head(events)
  IN /\ job[Drain].at = "idle"
     /\ events # <<>>
     /\ events' = Tail(events)
     /\ Becomes(Drain, IF e.node = Root THEN GapSweep
                       ELSE [Idle EXCEPT !.at = "sweep", !.settles = e.settles,
                               !.todo = Both(e.node) \o (IF e.gone THEN Prefix(e.node) ELSE <<>>)])
     /\ UNCHANGED <<scen, backend, cache, stream, settled>>

\* GapSweepStream: an error sweeps once, a clean end does unless the stream is
\* a managed drain's or was torn down by its owner.
EndStream(how) ==
  /\ stream = "open"
  /\ job[Drain].at = "idle"
  /\ stream' = "ended"
  /\ events' = <<>>
  /\ Becomes(Drain, IF how \in {"error", "clean"} THEN GapSweep ELSE Idle)
  /\ UNCHANGED <<scen, backend, cache, settled>>

OpenStream ==
  /\ scen.watched
  /\ stream = "ended"
  /\ job[Drain].at = "idle"
  /\ stream' = "open"
  /\ UNCHANGED <<scen, backend, cache, job, events, settled>>

\* A row outlives its ttl.
Expire(key) ==
  /\ scen.ages
  /\ cache.rows[key].live
  /\ cache' = [cache EXCEPT !.rows = [cache.rows EXCEPT ![key] = [cache.rows[key] EXCEPT !.live = FALSE]]]
  /\ UNCHANGED <<scen, backend, job, stream, events, settled>>

\* purge_expired, by the sweeper task.
Purge ==
  /\ cache' = Without(cache, {key \in DOMAIN cache.rows : ~cache.rows[key].live})
  /\ cache' # cache
  /\ UNCHANGED <<scen, backend, job, stream, events, settled>>

Next ==
  \/ \E c \in Callers :
       \/ \E n \in Nodes, want \in SUBSET Flags : StatLookup(c, n, want)
       \/ ParentLookup(c) \/ FreshListing(c) \/ DirectStat(c)
       \/ \E p \in Directories \cup {Root}, want \in SUBSET Flags : List(c, p, want)
       \/ Fill(c)
       \/ \E m \in scen.mutations : Mutate(c, m)
  \/ \E c \in Callers \cup {Drain} : Sweep(c)
  \/ \E m \in scen.foreign : Foreign(m)
  \/ Deliver
  \/ \E how \in {"error", "clean", "managed", "teardown"} : EndStream(how)
  \/ OpenStream
  \/ \E key \in DOMAIN cache.rows : Expire(key)
  \/ Purge

Spec == Init /\ [][Next]_vars

-----------------------------------------------------------------------------
(* Properties.                                                             *)

\* The type invariant: a stat row tells of the node it is filed under, a
\* listing of entries of its own directory only, and no two rows share a
\* stamp.
TypeOK ==
  /\ changes \in 0 .. MaxChanges
  /\ ver \in [Nodes -> 0 .. MaxChanges]
  /\ here \in [Nodes -> BOOLEAN]
  /\ \A key \in DOMAIN cache.rows :
       /\ key \in Keys
       /\ cache.rows[key].shown \subseteq IF key[1] = "Stat" THEN {key[2]} ELSE Children(key[2])
       /\ cache.rows[key].flags \subseteq Flags
  /\ IsInjective(cache.accessed)
  /\ cache.accessed \in [DOMAIN cache.rows -> 1 .. Cardinality(DOMAIN cache.rows)]
  /\ \A c \in DOMAIN job : job[c].at \in {"idle", "parent", "offer", "direct", "fill",
                                          "fill_then_stat", "sweep"}
  /\ stream \in {"open", "ended"}
  /\ Len(events) <= MaxEvents

\* current_size is the sum of the sizes of the rows, and never over the
\* budget: neither a replaced row, an expired one nor an oversized page is
\* counted twice or forgotten.
Accounted ==
  /\ cache.used = SizeOf(cache, DOMAIN cache.rows)
  /\ cache.used <= scen.max_entries

Stale(key) ==
  \E n \in DOMAIN cache.rows[key].seen : cache.rows[key].seen[n] < settled[key[1]][n]

\* Once a mutation that named a node has returned, or the watch event of a
\* change has been handled, no row tells of the node as it was before, except
\* one whose request was already on its way back from the backend when the
\* invalidation ran.
StaleOnlyInFlight ==
  \A key \in DOMAIN cache.rows : Stale(key) => cache.rows[key].late

\* What the cache would answer is true of what the backend served: a row
\* never answers a request for a flag its payload was not fetched under, a
\* listing never denies a file that it was cut off before.
Honest ==
  \A n \in Nodes, want \in SUBSET Flags :
    LET stat == <<"Stat", n>>
        list == <<"List", Parent[n]>>
        row == cache.rows[list]
    IN /\ Lookup(cache, stat, want) = "Hit" =>
            want \subseteq cache.rows[stat].carried /\ cache.rows[stat].there[n]
       /\ Lookup(cache, list, want) = "Hit" =>
            CASE FindInPage(row, n) = "Found"    -> row.there[n] /\ want \subseteq row.carried
              [] FindInPage(row, n) = "NotFound" -> ~row.there[n]
              [] OTHER -> TRUE

=============================================================================
