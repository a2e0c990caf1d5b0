---------------------------- MODULE ScopedWatch ----------------------------
(***************************************************************************)
(* Watch-driven invalidation of a cache layer (notification_drain.rs).      *)
(*                                                                         *)
(* Each advertised address root has a drain that watches the whole root.    *)
(* Where that watch is refused, a supervisor watches directories the cache  *)
(* holds instead: a few at a time, chosen from a bounded table of           *)
(* candidates.  A watch that opens sweeps its subtree; so does a watch that *)
(* is given up.                                                             *)
(*                                                                         *)
(* Paths are sequences of names.  A clock is never read: each deadline is a *)
(* flag that an action of its own lets pass (Cool, Expire, Unpause, Age).   *)
(* A read takes its answer and stores it in one step, so a response that is *)
(* in flight across a sweep is not here (MetaCache has it).                 *)
(***************************************************************************)
EXTENDS Naturals, Sequences, FiniteSets

CONSTANTS
  Dirs,          \* the directories that hold cached objects
  RootPaths,     \* the paths at which an address root may be advertised
  MaxCands,      \* MAX_CANDIDATE_SCOPES
  Budget,        \* MAX_WATCH_SCOPES
  StuckLimit,    \* STUCK_RETIREMENT_LIMIT
  FailLimit,     \* MAX_CONSECUTIVE_SCOPE_FAILURES
  BarrenLimit,   \* BARREN_ENDS_BEFORE_DISTRUST
  Scenarios      \* bound: what may happen together in one behaviour

(* A scenario names the roots that may be advertised, and how often; the    *)
(* directories that are read; what a backend may answer to a root's watch   *)
(* and to a directory's; how a stream may end (whether it had worked, and   *)
(* whether with an error); how many cancelled drains may have a write       *)
(* outstanding; and which deadlines may pass ("late": a refusal may lapse   *)
(* while the supervisor is deciding).                                       *)
ASSUME PathsAssumption == /\ IsFiniteSet(Dirs) /\ IsFiniteSet(RootPaths)
                          /\ \A p \in Dirs \cup RootPaths : p \in Seq(STRING)
ASSUME LimitsAssumption == /\ {MaxCands, Budget, StuckLimit, FailLimit, BarrenLimit} \subseteq Nat \ {0}
                           /\ \A x \in Scenarios : {x.gens, x.old} \subseteq Nat
ASSUME AnswersAssumption ==
  \A x \in Scenarios :
    /\ x.roots \subseteq RootPaths
    /\ x.root_answers \subseteq {"granted", "refused", "unsupported", "terminal"}
    /\ x.scope_answers \subseteq {"granted", "refused", "terminal", "retry"}
    /\ x.ends \subseteq {"worked", "barren"} \X BOOLEAN

VARIABLES
  roots,     \* ScopedWatchState::roots: the advertised roots and what their watch answered
  rtask,     \* the root drains of the manager's map
  stask,     \* the scope drains of the supervisor's map, by directory
  old,       \* cancelled drains that still have a write to make
  recency,   \* WatchScopes::scopes: the candidates, each with those touched after it
  hot,       \* the candidates read within MIN_WATCH_RESIDENCY
  marked,    \* the candidates flagged as watched
  denied,    \* WatchScopes::denied: the refusals still inside their retry window
  wake,      \* the permit of the supervisor's Notify
  sup,       \* the supervisor's place and what it has decided
  retiring,  \* the handles of cancelled scope drains that it has not pruned
  mgr,       \* the manager's place: roots it still has to advertise
  next_generation,
  row,       \* what the cache holds for each directory
  scen       \* the scenario

tables == <<recency, hot, marked>>
vars == <<roots, rtask, stask, old, tables, denied, wake, sup, retiring, mgr,
          next_generation, row, scen>>

NoRoot == <<"no root">>
NoTask == [pc |-> "none"]
NoRow == [kind |-> "none", root |-> NoRoot, gen |-> 0]
NoMemo == [fully |-> FALSE, root |-> NoRoot, gen |-> 0]
Absent == [st |-> "absent", gen |-> 0, fails |-> 0, barren |-> 0, paused |-> "no"]

(* address::is_ancestor_or_self; the rank of a node is its depth.           *)
Under(p, d) == Len(p) <= Len(d) /\ SubSeq(d, 1, Len(p)) = p

Advertised(rt) == {r \in RootPaths : rt[r].st # "absent"}

(* A record of a withdrawn advertisement matches no later one.              *)
IsCurrent(rt, r, g) == r \in Advertised(rt) /\ rt[r].gen = g

(* RouteTable::lookup: the longest advertised prefix owns a path.           *)
Owner(rt, d) ==
  LET above == {r \in Advertised(rt) : Under(r, d)}
  IN IF above = {} THEN NoRoot
     ELSE CHOOSE r \in above : \A o \in above : Len(o) <= Len(r)

(* still_owns_scope.                                                        *)
Owns(rt, r, g, s) ==
  /\ IsCurrent(rt, r, g)
  /\ ~ \E o \in Advertised(rt) : o # r /\ Under(o, s) /\ Len(o) > Len(r)

Init ==
  /\ roots = [r \in RootPaths |-> Absent]
  /\ rtask = [r \in RootPaths |-> NoTask]
  /\ stask = [d \in Dirs |-> NoTask]
  /\ old = {}
  /\ recency = [s \in {} |-> {}] /\ hot = {} /\ marked = {}
  /\ denied = [d \in Dirs |-> NoMemo]
  /\ wake = FALSE
  /\ sup = [pc |-> "wait", timer |-> TRUE]
  /\ retiring = 0
  /\ mgr = [busy |-> FALSE, todo |-> {}, capable |-> {}]
  /\ next_generation = 1
  /\ row = [d \in Dirs |-> NoRow]
  /\ scen \in Scenarios

-----------------------------------------------------------------------------
(* What the watches report.  A stream is bound to the advertisement, a root *)
(* and its generation, under which it was opened, and reports that          *)
(* backend's changes while its drain is in the place "open".  A row         *)
(* remembers the advertisement it was read through, and who vouched for it. *)

Held == {s \in Dirs : stask[s] # NoTask}
Serves(t, d) == t.root = Owner(roots, d) /\ IsCurrent(roots, t.root, t.gen)
BeingRetired(s) == sup.pc = "retire" /\ s \in sup.stale

ScopeReports(r, g, d) ==
  \E s \in Held : /\ stask[s].pc = "open" /\ stask[s].root = r /\ stask[s].gen = g /\ ~BeingRetired(s)
                  /\ Under(s, d) /\ (stask[s].deep \/ s = d)
RootReports(r, g, d) == rtask[r].pc = "open" /\ rtask[r].gen = g /\ Under(r, d)

SweptAddress(rw, p) == [d \in Dirs |-> IF p = d THEN NoRow ELSE rw[d]]   \* a mutation
Swept(rw, p) == [d \in Dirs |-> IF Under(p, d) THEN NoRow ELSE rw[d]]

(* GapSweepStream of a managed drain: only an error leaves a gap to sweep.  *)
GapSwept(rw, p, error) == IF error THEN Swept(rw, p) ELSE rw

Fill(d) ==
  LET r == Owner(roots, d)
      g == roots[r].gen
  IN [kind |-> IF ScopeReports(r, g, d) THEN "scope" ELSE IF RootReports(r, g, d) THEN "root" ELSE "bare",
      root |-> r, gen |-> g]

(* The backend changes an object of d.  A watch that reports it invalidates *)
(* the row; otherwise nobody is told.  A row a root's watch stood for is    *)
(* left to its TTL, as one that was never watched.                          *)
Change(d) ==
  LET w == row[d]
  IN /\ w.kind \in {"scope", "root"}
     /\ row' = [row EXCEPT ![d] =
                  IF ScopeReports(w.root, w.gen, d) \/ RootReports(w.root, w.gen, d) THEN NoRow
                  ELSE [w EXCEPT !.kind = IF @ = "scope" THEN "stale" ELSE "bare"]]
     /\ UNCHANGED <<roots, rtask, stask, old, tables, denied, wake, sup, retiring, mgr,
                    next_generation, scen>>

-----------------------------------------------------------------------------
(* The table of candidates.                                                 *)

Cands == DOMAIN recency

(* The order of candidates(): the last touched first, then the deepest.  A  *)
(* tie is one chain of ancestors, so that no third key is needed.           *)
Hotter(a, b) == a \in recency[b] \/ (b \notin recency[a] /\ Len(a) > Len(b))

(* touched = now for the set T, which need not be in the table yet.         *)
Touch(T) == [s \in Cands \cup T |-> IF s \in T THEN {} ELSE recency[s] \cup T]
WithoutNone(table, x) == table   \* a mutation
Without(table, x) == [s \in DOMAIN table \ {x} |-> table[s] \ {x}]

(* The victims of admission: the coldest of those no drain holds, and the   *)
(* coldest of all when drains hold every one.                               *)
Coldest(table) ==
  LET from == IF DOMAIN table \subseteq marked THEN DOMAIN table ELSE DOMAIN table \ marked
  IN {x \in from : \A y \in from : x \notin table[y]}

(* A read of an object in d is stored, or hits, and note_cached registers   *)
(* the directory: it and every candidate above it are touched, and a        *)
(* newcomer to a full table takes the place of the coldest.                 *)
Read(d) ==
  LET touched == {c \in Cands : Under(c, d)}
      newcomer == d \notin Cands
  IN /\ d \in scen.dirs /\ Owner(roots, d) # NoRoot
     /\ row' = IF row[d] = NoRow THEN [row EXCEPT ![d] = Fill(d)] ELSE row
     /\ IF newcomer /\ Cardinality(Cands) >= MaxCands
        THEN \E v \in Coldest(Touch(touched)) :
               /\ recency' = Without(Touch(touched \cup {d}), v)
               /\ hot' = (hot \ {v}) \cup {d}
               /\ marked' = marked \ {v}
        ELSE /\ recency' = Touch(touched \cup {d})
             /\ hot' = hot \cup {d}
             /\ UNCHANGED marked
     /\ wake' = (wake \/ newcomer)
     /\ UNCHANGED <<roots, rtask, stask, old, denied, sup, retiring, mgr, next_generation, scen>>

(* A candidate has not been read for MIN_WATCH_RESIDENCY.                   *)
Cool(d) ==
  /\ "cool" \in scen.clocks /\ d \in hot
  /\ hot' = hot \ {d}
  /\ UNCHANGED <<roots, rtask, stask, old, recency, marked, denied, wake, sup, retiring, mgr, next_generation, scen, row>>

(* A refusal is DENIED_SCOPE_RETRY old.                                     *)
Expire(d) ==
  /\ "expire" \in scen.clocks /\ denied[d] # NoMemo
  /\ sup.pc = "wait" \/ "late" \in scen.clocks
  /\ denied' = [denied EXCEPT ![d] = NoMemo]
  /\ UNCHANGED <<roots, rtask, stask, old, tables, wake, sup, retiring, mgr, next_generation, scen, row>>

(* paused_until of a root has passed; root_views will notice.               *)
Unpause(r) ==
  /\ roots[r].paused = "yes"
  /\ roots' = [roots EXCEPT ![r].paused = "due"]
  /\ UNCHANGED <<rtask, stask, old, tables, denied, wake, sup, retiring, mgr, next_generation, scen, row>>

(* A watch stopped reporting more than two backoffs ago.                    *)
Age(s) ==
  /\ "age" \in scen.clocks /\ s \in Held /\ ~stask[s].live /\ stask[s].stopped = "recent"
  /\ stask' = [stask EXCEPT ![s].stopped = "long"]
  /\ UNCHANGED <<roots, rtask, old, tables, denied, wake, sup, retiring, mgr, next_generation, scen, row>>

-----------------------------------------------------------------------------
(* Refusals and selection.                                                  *)

(* A refusal speaks only for the advertisement that issued it.              *)
MemoHolds(s) == denied[s] # NoMemo /\ Owns(roots, denied[s].root, denied[s].gen, s)
StartsDeep(s) == ~MemoHolds(s)
Candidates == {s \in Cands : ~(MemoHolds(s) /\ denied[s].fully)}

(* root_views: a pause that is over is forgotten together with its counts.  *)
Views == [r \in RootPaths |->
            IF roots[r].paused = "due"
            THEN [roots[r] EXCEPT !.paused = "no", !.fails = 0, !.barren = 0] ELSE roots[r]]

(* scope_views: what a running drain is worth.                              *)
WorkingRecently(t) == t.ever /\ (t.live \/ t.stopped = "recent")
SubtreeRead(s) == \E d \in hot : d # s /\ Under(s, d) /\ Owner(roots, d) = stask[s].root
StillRead(s) == s \in hot \/ (stask[s].deep /\ SubtreeRead(s))
Fits(rt, s) == s \in Held /\ stask[s].root = Owner(rt, s) /\ stask[s].gen = rt[Owner(rt, s)].gen
Covering(rt, s) == Fits(rt, s) /\ stask[s].live /\ stask[s].deep
WorthKeeping(rt, s) == Fits(rt, s) /\ WorkingRecently(stask[s]) /\ StillRead(s)

(* select_scopes, rules 1 and 2: the scope's own root is refused and still  *)
(* probing, or its watch has opened under this advertisement.               *)
Assigned(rt) ==
  {s \in Candidates :
     LET r == Owner(rt, s)
     IN /\ r # NoRoot /\ r # s /\ rt[r].st # "live"
        /\ \/ rt[r].st = "refused" /\ rt[r].paused = "no"
           \/ s \in Held /\ stask[s].ever /\ stask[s].gen = rt[r].gen}

(* Rule 3: a scope below an open recursive watch of the same root is left   *)
(* to that watch.                                                           *)
Antichain(rt) ==
  LET all == Assigned(rt)
  IN {s \in all : ~ \E o \in all : /\ o # s /\ Under(o, s) /\ Owner(rt, o) = Owner(rt, s)
                                   /\ Covering(rt, o)}

Subsumed(rt, e, kept) == Cardinality({p \in kept : Owner(rt, p) = Owner(rt, e) /\ Under(e, p)})

(* Rules 4 and 5: defended watches first, then the hottest, up to the       *)
(* budget; one scope that would cover a defended one is granted a place     *)
(* above it, the one that would cover most.                                 *)
Select(rt) ==
  LET all == Antichain(rt)
      kept == {s \in all : WorthKeeping(rt, s)}
      may_cover == {e \in all \ kept : /\ Subsumed(rt, e, kept) > 0
                                       /\ e \notin Advertised(rt) /\ StartsDeep(e)}
      cover == IF may_cover = {} THEN {}
               ELSE {CHOOSE e \in may_cover :
                       \A o \in may_cover : Subsumed(rt, o, kept) <= Subsumed(rt, e, kept)}
      ahead(a, b) == IF (a \in kept) = (b \in kept) THEN Hotter(a, b) ELSE a \in kept
      queue == all \ cover
  IN {s \in queue : Cardinality({o \in queue : ahead(o, s)}) < Budget} \cup cover

-----------------------------------------------------------------------------
(* What the drains write back.                                              *)

(* enter_scoped_mode, leave_scoped_mode, root_unwatchable, root_watch_ended:*)
(* what a root's watch came to, for the advertisement the drain serves.     *)
AnsweredByAny(rt, r, g, st) ==   \* a mutation
  IF r \in Advertised(rt) /\ (st = "pending" => rt[r].st = "live")
  THEN [rt EXCEPT ![r] = [Absent EXCEPT !.st = st, !.gen = rt[r].gen]] ELSE rt
Answered(rt, r, g, st) ==
  IF IsCurrent(rt, r, g) /\ rt[r].st # st /\ (st = "pending" => rt[r].st = "live")
  THEN [rt EXCEPT ![r] = [Absent EXCEPT !.st = st, !.gen = g]] ELSE rt

(* Only a real transition wakes the supervisor.                             *)
Transition(rt, new) == new # rt

(* note_scope_outcome: the probe budget of a refused root.                  *)
Failed(e) ==
  LET f == IF e.fails < FailLimit THEN e.fails + 1 ELSE FailLimit
  IN [e EXCEPT !.fails = f, !.paused = IF f = FailLimit /\ @ = "no" THEN "yes" ELSE @]
Barren(e) ==
  LET b == IF e.barren < BarrenLimit THEN e.barren + 1 ELSE BarrenLimit
      x == [e EXCEPT !.barren = b]
  IN IF b < BarrenLimit THEN x ELSE Failed(x)
Noted(rt, r, g, outcome) ==
  IF IsCurrent(rt, r, g) /\ rt[r].st = "refused"
  THEN [rt EXCEPT ![r] =
          CASE outcome = "opened" -> IF @.barren < BarrenLimit THEN [@ EXCEPT !.fails = 0] ELSE @
            [] outcome = "worked" -> [@ EXCEPT !.fails = 0, !.barren = 0]
            [] outcome = "barren" -> Barren(@)
            [] OTHER -> Failed(@)]
  ELSE rt

-----------------------------------------------------------------------------
(* The drain of a root.  An answer, the look at the cancellation token and  *)
(* the write are one step: nobody sees the drain between them.  A drain     *)
(* that is cancelled right there leaves its write behind (RootLeft).        *)

RootState(answer) == CASE answer = "granted" -> "live" [] answer = "refused" -> "refused"
                       [] answer = "unsupported" -> "unwatchable" [] answer = "ended" -> "pending"

OpenRoot(r, answer) ==
  /\ rtask[r].pc = "opening"
  /\ roots' = IF answer = "terminal" THEN roots ELSE Answered(roots, r, rtask[r].gen, RootState(answer))
  /\ wake' = (wake \/ Transition(roots, roots'))
  /\ rtask' = [rtask EXCEPT ![r].pc = CASE answer = "granted" -> "sweeping" [] answer = "refused" -> "opening"
                                          [] OTHER -> "dead"]
  /\ UNCHANGED <<stask, old, tables, denied, sup, retiring, mgr, next_generation, scen, row>>

SweepRoot(r) ==
  /\ rtask[r].pc = "sweeping"
  /\ row' = Swept(row, r)
  /\ rtask' = [rtask EXCEPT ![r].pc = "open"]
  /\ UNCHANGED <<roots, stask, old, tables, denied, wake, sup, retiring, mgr, next_generation, scen>>

(* The stream ends; GapSweepStream sweeps when it ended with an error.      *)
EndRoot(r, error) ==
  /\ rtask[r].pc = "open"
  /\ row' = GapSwept(row, r, error)
  /\ roots' = Answered(roots, r, rtask[r].gen, "pending")
  /\ wake' = (wake \/ Transition(roots, roots'))
  /\ rtask' = [rtask EXCEPT ![r].pc = "opening"]
  /\ UNCHANGED <<stask, old, tables, denied, sup, retiring, mgr, next_generation, scen>>

-----------------------------------------------------------------------------
(* The drain of a directory, in the same steps.                             *)

Refuses(t, answer) == answer = "refused" /\ t.mode
Exits(t, answer) == answer = "terminal" \/ (answer = "refused" /\ ~t.mode)

(* deny: the refusal of one mode, or of both.                               *)
Deny(s, fully, r, g) == [denied EXCEPT ![s] = [fully |-> fully, root |-> r, gen |-> g]]

(* What the drain t of directory s writes to the shared state on an answer: *)
(* the budget of its root, the refusal, the supervisor's permit.            *)
ScopeNotes(s, t, answer) ==
  LET owns == Owns(roots, t.root, t.gen, s)
      charged == answer = "retry" /\ ~t.charged /\ ~t.ever
      outcome == IF answer = "granted" THEN "opened" ELSE IF answer \in {"worked", "barren"} THEN answer ELSE "failed"
  IN /\ roots' = IF answer \in {"granted", "worked", "barren"} \/ charged \/ (Exits(t, answer) /\ owns)
                 THEN Noted(roots, t.root, t.gen, outcome) ELSE roots
     /\ denied' = IF (Refuses(t, answer) \/ Exits(t, answer)) /\ owns
                  THEN Deny(s, Exits(t, answer), t.root, t.gen) ELSE denied
     /\ wake' = (wake \/ answer = "granted" \/ (Refuses(t, answer) /\ owns))

(* starting_mode is read again at the top of every turn of the loop.        *)
TopScope(s) ==
  /\ s \in Held /\ stask[s].pc = "top"
  /\ stask' = [stask EXCEPT ![s].pc = "opening", ![s].mode = StartsDeep(s)]
  /\ UNCHANGED <<roots, rtask, old, tables, denied, wake, sup, retiring, mgr, next_generation, scen, row>>

OpenScope(s, answer) ==
  LET t == stask[s]
      owns == Owns(roots, t.root, t.gen, s)
  IN /\ s \in Held /\ t.pc = "opening"
     /\ ScopeNotes(s, t, answer)
     /\ stask' = [stask EXCEPT ![s] =
          CASE answer = "granted" -> [t EXCEPT !.pc = "sweeping", !.ever = TRUE, !.deep = t.mode, !.live = TRUE]
            [] Exits(t, answer) -> [t EXCEPT !.pc = "bury"]
            [] Refuses(t, answer) -> [t EXCEPT !.pc = "top", !.deep = t.deep /\ ~owns]
            [] answer = "retry" -> [t EXCEPT !.pc = "top", !.charged = t.charged \/ ~t.ever]]
     /\ UNCHANGED <<rtask, old, tables, sup, retiring, mgr, next_generation, scen, row>>

(* The sweep after an open, and the one at the end of scope_drain_task,     *)
(* which leaves a finished task in the supervisor's map.                    *)
SweepScope(s) ==
  /\ s \in Held /\ stask[s].pc \in {"sweeping", "bury"}
  /\ row' = IF stask[s].ever THEN Swept(row, s) ELSE row
  /\ wake' = (wake \/ stask[s].pc = "bury")
  /\ stask' = [stask EXCEPT ![s].pc = IF @ = "bury" THEN "dead" ELSE "open"]
  /\ UNCHANGED <<roots, rtask, old, tables, denied, sup, retiring, mgr, next_generation, scen>>

(* The stream ends: barren when it ended at once and said nothing.          *)
EndScope(s, how, error) ==
  LET t == stask[s]
  IN /\ s \in Held /\ t.pc = "open"
     /\ row' = GapSwept(row, s, error)
     /\ ScopeNotes(s, t, how)
     /\ stask' = [stask EXCEPT ![s] = [t EXCEPT !.pc = "top", !.live = FALSE,
                                               !.stopped = IF how = "worked" THEN "recent" ELSE @]]
     /\ UNCHANGED <<rtask, old, tables, sup, retiring, mgr, next_generation, scen>>

-----------------------------------------------------------------------------
(* Drains that were cancelled after their last look at the token still make *)
(* the write they had come to.  A root's drain is also aborted, so that it  *)
(* makes no other step; a directory's goes on to its next look.             *)

RootLeft(r) ==
  {[kind |-> "root", root |-> r, gen |-> rtask[r].gen, answer |-> a] :
     a \in CASE rtask[r].pc = "opening" -> scen.root_answers \ {"terminal"}
            [] rtask[r].pc = "open" -> {"ended"} [] OTHER -> {}}

ScopeLeft(s) ==
  LET t == stask[s]
  IN {[kind |-> "scope", scope |-> s, root |-> t.root, gen |-> t.gen, mode |-> t.mode, ever |-> t.ever,
       charged |-> t.charged, answer |-> a] :
        a \in CASE t.pc = "opening" -> scen.scope_answers
               [] t.pc = "open" -> {e[1] : e \in scen.ends}
               [] t.pc \in {"sweeping", "bury"} -> {t.pc} [] OTHER -> {}}
(* One that is sweeping completes the sweep; otherwise the drain may have   *)
(* looked before the token fired, within the bound, or after.               *)
Sweeping(x) == x.answer \in {"sweeping", "bury"}
MayLeave(left) ==
  IF \E x \in left : Sweeping(x) THEN {left}
  ELSE {{}} \cup {{x} : x \in {y \in left : Cardinality({t \in old : ~Sweeping(t)}) < scen.old}}

OldRoot(t) ==
  /\ t \in old /\ t.kind = "root"
  /\ roots' = Answered(roots, t.root, t.gen, RootState(t.answer))
  /\ wake' = (wake \/ Transition(roots, roots'))
  /\ old' = old \ {t}
  /\ UNCHANGED <<rtask, stask, tables, denied, sup, retiring, mgr, next_generation, scen, row>>

OldScope(t) ==
  /\ t \in old /\ t.kind = "scope"
  /\ IF Sweeping(t)
     THEN /\ row' = IF t.ever THEN Swept(row, t.scope) ELSE row
          /\ wake' = (wake \/ t.answer = "bury")
          /\ old' = old \ {t}
          /\ UNCHANGED <<roots, denied>>
     ELSE /\ ScopeNotes(t.scope, t, t.answer)
          /\ UNCHANGED row
          /\ old' = (old \ {t}) \cup
               (IF t.answer = "granted" THEN {[t EXCEPT !.answer = "sweeping", !.ever = TRUE]}
                ELSE IF Exits(t, t.answer) THEN {[t EXCEPT !.answer = "bury"]} ELSE {})
  /\ UNCHANGED <<rtask, stask, tables, sup, retiring, mgr, next_generation, scen>>

-----------------------------------------------------------------------------
(* The supervisor.                                                          *)

Stragglers == Cardinality({t \in old : t.kind = "scope"})

(* A pass begins with the permit, or with the tick when the last pass armed *)
(* it (the first needs neither).                                            *)
Woken == \/ wake /\ wake' = FALSE
         \/ sup.timer /\ UNCHANGED wake

(* mark_watched: the candidates a drain holds.                              *)
MarkWatched(held) == held \cap Cands

(* reconcile_scopes up to the retirements: handles that have finished are   *)
(* pruned, the roots and the candidates are read and the scopes chosen.     *)
(* With too many handles unfinished the held set is left as it is.          *)
FrozenAtTwice(handles) == handles >= 2 * StuckLimit + Budget /\ Held # {}   \* a mutation
Frozen(handles) == handles >= StuckLimit /\ Held # {}
SupSelect ==
  LET chosen == {[scope |-> s, root |-> Owner(roots, s), gen |-> roots[Owner(roots, s)].gen] : s \in Select(Views)}
      matches(s) == [scope |-> s, root |-> stask[s].root, gen |-> stask[s].gen] \in chosen
  IN /\ sup.pc = "wait"
     /\ Woken
     /\ \E k \in 0..(retiring - Stragglers) : retiring' = retiring - k
     /\ roots' = Views
     /\ IF Frozen(retiring')
        THEN /\ sup' = [pc |-> "wait", timer |-> TRUE]
             /\ marked' = MarkWatched(Held)
        ELSE /\ sup' = [pc |-> "retire", chosen |-> chosen, stale |-> {s \in Held : ~matches(s)}, swept |-> {},
                        more |-> Cardinality(chosen) < Cardinality(Candidates)]
             /\ UNCHANGED marked
     /\ UNCHANGED <<rtask, stask, old, recency, hot, denied, mgr, next_generation, scen, row>>

(* One retirement: what the watch stood for is swept if it ever opened, and *)
(* when that is done the drain is cancelled and its handle kept.            *)
RetireSweepIfLive(s) ==   \* a mutation
  /\ sup.pc = "retire" /\ s \in sup.stale /\ sup.swept = {}
  /\ sup' = [sup EXCEPT !.swept = {s}]
  /\ row' = IF stask[s].live THEN Swept(row, s) ELSE row
  /\ UNCHANGED <<roots, rtask, stask, old, tables, denied, wake, retiring, mgr, next_generation, scen>>
RetireSweep(s) ==
  /\ sup.pc = "retire" /\ s \in sup.stale /\ sup.swept = {}
  /\ sup' = [sup EXCEPT !.swept = {s}]
  /\ row' = IF stask[s].ever THEN Swept(row, s) ELSE row
  /\ UNCHANGED <<roots, rtask, stask, old, tables, denied, wake, retiring, mgr, next_generation, scen>>

RetireStop(s) ==
  /\ sup.pc = "retire" /\ sup.swept = {s}
  /\ sup' = [sup EXCEPT !.swept = {}, !.stale = @ \ {s}]
  /\ stask' = [stask EXCEPT ![s] = NoTask]
  /\ \E left \in MayLeave(ScopeLeft(s)) : old' = old \cup left
  /\ retiring' = retiring + 1
  /\ UNCHANGED <<roots, rtask, tables, denied, wake, mgr, next_generation, scen, row>>

(* supervisor_needs_timer: what may change with no event to announce it.    *)
NeedsTimerForDrains(deferred) == retiring > 0 \/ deferred   \* a mutation
MemoPending == \E d \in Dirs : denied[d] # NoMemo
PausePending == \E r \in RootPaths : roots[r].paused # "no"
NeedsTimer(deferred) == retiring > 0 \/ deferred \/ MemoPending \/ PausePending

(* The rest of the pass: a drain for every chosen scope without one, and    *)
(* the decision whether to wake on the tick.                                *)
SupSpawn ==
  LET add == {c \in sup.chosen : c.scope \notin Held}
      held == Held \cup {c.scope : c \in add}
  IN /\ sup.pc = "retire" /\ sup.stale = {}
     /\ stask' = [s \in Dirs |->
          IF \E c \in add : c.scope = s
          THEN LET c == CHOOSE x \in add : x.scope = s
               IN [root |-> c.root, gen |-> c.gen, pc |-> "top", mode |-> StartsDeep(s), deep |-> StartsDeep(s),
                   ever |-> FALSE, live |-> FALSE, stopped |-> "never", charged |-> FALSE]
          ELSE stask[s]]
     /\ marked' = MarkWatched(held)
     /\ sup' = [pc |-> "wait", timer |-> NeedsTimer(held # {} /\ sup.more)]
     /\ UNCHANGED <<roots, rtask, old, recency, hot, denied, wake, retiring, mgr, next_generation, scen, row>>

-----------------------------------------------------------------------------
(* The manager: discovery reports any set of roots, with what each can do.  *)

(* withdraw, retain_advertised.                                             *)
Withdrawn(rt, gone) == [r \in RootPaths |-> IF r \in gone THEN Absent ELSE rt[r]]

(* reconcile_roots, first half: drains whose root is gone, can no longer    *)
(* watch or is served by another connection are swept, withdrawn and        *)
(* stopped; records of roots that are gone are dropped.                     *)
Discover(advertised, capable, rebound) ==
  LET stale == {r \in RootPaths : rtask[r] # NoTask /\ (r \notin capable \/ r \in rebound)}
      gone == (stale \cup (RootPaths \ advertised)) \cap Advertised(roots)
      kept == Advertised(roots) \ gone
      idle == {r \in capable : rtask[r] = NoTask}
  IN /\ ~mgr.busy
     /\ stale \cup gone \cup (advertised \ kept) \cup idle # {}
     /\ next_generation + Cardinality(advertised \ kept) <= scen.gens + 1
     /\ row' = [d \in Dirs |-> IF \E r \in stale : Under(r, d) THEN NoRow ELSE row[d]]
     /\ roots' = Withdrawn(roots, gone)
     /\ rtask' = [r \in RootPaths |-> IF r \in stale THEN NoTask ELSE rtask[r]]
     /\ \E left \in MayLeave(UNION {RootLeft(r) : r \in stale}) : old' = old \cup left
     /\ wake' = (wake \/ gone # {})
     /\ mgr' = [busy |-> TRUE, todo |-> advertised \ kept, capable |-> capable]
     /\ UNCHANGED <<stask, tables, denied, sup, retiring, next_generation, scen>>

(* ScopedWatchState::advertise, for one new root.                           *)
Advertise(r) ==
  /\ r \in mgr.todo
  /\ mgr' = [mgr EXCEPT !.todo = @ \ {r}]
  /\ roots' = [roots EXCEPT ![r] = [Absent EXCEPT !.st = "pending", !.gen = next_generation]]
  /\ next_generation' = next_generation + 1
  /\ wake' = TRUE
  /\ UNCHANGED <<rtask, stask, old, tables, denied, sup, retiring, row, scen>>

(* reconcile_roots, second half: a drain for every root that can watch.     *)
SpawnRoots ==
  /\ mgr.busy /\ mgr.todo = {}
  /\ mgr' = [busy |-> FALSE, todo |-> {}, capable |-> {}]
  /\ rtask' = [r \in RootPaths |-> IF r \in mgr.capable /\ rtask[r] = NoTask
                                   THEN [gen |-> roots[r].gen, pc |-> "opening"] ELSE rtask[r]]
  /\ UNCHANGED <<roots, stask, old, tables, denied, wake, sup, retiring, next_generation, scen, row>>

-----------------------------------------------------------------------------
Cache == \E d \in Dirs : Change(d) \/ Read(d)
Time == \/ \E d \in Dirs : Cool(d) \/ Expire(d) \/ Age(d)
        \/ \E r \in RootPaths : Unpause(r)
RootDrains == \E r \in RootPaths : \/ \E a \in scen.root_answers : OpenRoot(r, a)
                                   \/ SweepRoot(r)
                                   \/ \E e \in scen.ends : EndRoot(r, e[2])
ScopeDrains == \E s \in Dirs : \/ TopScope(s)
                               \/ \E a \in scen.scope_answers : OpenScope(s, a)
                               \/ SweepScope(s)
                               \/ \E e \in scen.ends : EndScope(s, e[1], e[2])
OldDrains == \E t \in old : OldRoot(t) \/ OldScope(t)
Supervisor == SupSelect \/ SupSpawn \/ \E s \in Dirs : RetireSweep(s) \/ RetireStop(s)
Manager == \/ \E a \in SUBSET scen.roots : \E c \in SUBSET a, b \in SUBSET a : Discover(a, c, b)
           \/ \E r \in RootPaths : Advertise(r)
           \/ SpawnRoots

Next == Cache \/ Time \/ RootDrains \/ ScopeDrains \/ OldDrains \/ Supervisor \/ Manager

Spec == Init /\ [][Next]_vars

-----------------------------------------------------------------------------
(* The type invariant; the table of candidates keeps to its size.            *)
TypeOK ==
  /\ roots \in [RootPaths -> [st : {"absent", "pending", "live", "refused", "unwatchable"}, gen : 0..scen.gens,
                              fails : 0..FailLimit, barren : 0..BarrenLimit, paused : {"no", "yes", "due"}]]
  /\ \A r \in RootPaths :
       rtask[r] = NoTask \/ rtask[r] \in [gen : 1..scen.gens, pc : {"opening", "sweeping", "open", "dead"}]
  /\ \A s \in Dirs :
       stask[s] = NoTask \/
       stask[s] \in [root : RootPaths, gen : 1..scen.gens, mode : BOOLEAN, deep : BOOLEAN, ever : BOOLEAN,
                     live : BOOLEAN, stopped : {"never", "recent", "long"}, charged : BOOLEAN,
                     pc : {"top", "opening", "sweeping", "open", "bury", "dead"}]
  /\ Cands \subseteq Dirs /\ recency \in [Cands -> SUBSET Cands]
  /\ hot \subseteq Cands /\ marked \subseteq Cands /\ Cardinality(Cands) <= MaxCands
  /\ denied \in [Dirs -> [fully : BOOLEAN, root : RootPaths \cup {NoRoot}, gen : 0..scen.gens]]
  /\ wake \in BOOLEAN /\ mgr \in [busy : BOOLEAN, todo : SUBSET RootPaths, capable : SUBSET RootPaths]
  /\ retiring \in Nat /\ Stragglers <= retiring
  /\ next_generation \in 1..(scen.gens + 1)
  /\ row \in [Dirs -> [kind : {"none", "bare", "scope", "root", "stale"}, root : RootPaths \cup {NoRoot}, gen : 0..scen.gens]]

(* A root is recorded as Live only while the drain of its current           *)
(* advertisement holds an open stream, whatever answers of cancelled drains *)
(* still arrive: a phantom Live root would silence every scope below it     *)
(* (ScopedWatchState, leave_scoped_mode).                                   *)
LiveRootIsOpen ==
  \A r \in RootPaths :
    roots[r].st = "live" =>
      /\ rtask[r].pc \in {"sweeping", "open"}
      /\ rtask[r].gen = roots[r].gen

(* No wake is lost: when the supervisor is parked without permit and        *)
(* without tick, every drain it holds serves the route that owns its        *)
(* directory now and no live root's watch stands above it, and every        *)
(* directory selection asks for has its drain (supervisor_needs_timer).     *)
Parked == sup.pc = "wait" /\ ~sup.timer /\ ~wake
Settled ==
  Parked => /\ \A s \in Held : Serves(stask[s], s) /\ roots[stask[s].root].st # "live"
            /\ Select(roots) \subseteq Held

(* No refusal lapses between a pass's reading of the candidates and its     *)
(* decision about the tick, two reads of one clock in reconcile_scopes and  *)
(* supervisor_needs_timer: a memo that does is seen by neither.             *)
OnTime == \A x \in Scenarios : "late" \notin x.clocks

(* An entry from before a watch opened does not survive under it: where an  *)
(* open watch reports a directory, what the cache holds for it was filled   *)
(* under that watch (the sweep of cache_watch_drain_loop after the open).   *)
FreshUnderWatch ==
  \A d \in Dirs : row[d].kind \in {"bare", "stale"} =>
    ~ScopeReports(row[d].root, row[d].gen, d) /\ ~RootReports(row[d].root, row[d].gen, d)

(* An entry filled under a directory's watch that has since gone stale is   *)
(* still owed a sweep: a drain above it was open once and will sweep when   *)
(* it reopens, ends or is retired.  The byte cache has no TTL to fall back  *)
(* on.                                                                      *)
StaleIsOwed ==
  \A d \in Dirs : row[d].kind = "stale" =>
    \E s \in Held : /\ Under(s, d) /\ stask[s].ever /\ stask[s].pc # "dead"
                    /\ ~(BeingRetired(s) /\ sup.swept = {s})

(* Blocking threads are bounded though no handle is ever released: the      *)
(* watches by the budget and one cover, the unfinished handles by the limit *)
(* and one rotation (the freeze of reconcile_scopes).                       *)
ThreadsBounded == Cardinality(Held) <= Budget + 1 /\ retiring <= StuckLimit + Budget

=============================================================================
