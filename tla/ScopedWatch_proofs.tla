------------------------- MODULE ScopedWatch_proofs -------------------------
(***************************************************************************)
(* Proofs about ScopedWatch, for any directories and roots, any limits and *)
(* any scenario: no phantom live root, no row from before a watch under    *)
(* it, no stale row that nobody will sweep, a bounded number of blocking   *)
(* threads, and no wake lost.  The inductive invariant has a part for each *)
(* piece of state that moves by itself; a second one follows the permit.   *)
(***************************************************************************)
EXTENDS ScopedWatch, FiniteSetTheorems, WellFoundedInduction, TLAPS

(* The types.                                                               *)
States == {"absent", "pending", "live", "refused", "unwatchable"}
RootRecs == [st : States, gen : Nat, fails : 0 .. FailLimit, barren : 0 .. BarrenLimit,
             paused : {"no", "yes", "due"}]
RootTasks == [gen : Nat, pc : {"opening", "sweeping", "open", "dead"}]
ScopeTasks == [root : RootPaths, gen : Nat, mode : BOOLEAN, deep : BOOLEAN, ever : BOOLEAN,
               live : BOOLEAN, stopped : {"never", "recent", "long"}, charged : BOOLEAN,
               pc : {"top", "opening", "sweeping", "open", "bury", "dead"}]
OldRoots == [kind : {"root"}, root : RootPaths, gen : Nat,
             answer : {"granted", "refused", "unsupported", "ended"}]
OldScopes == [kind : {"scope"}, scope : Dirs, root : RootPaths, gen : Nat, mode : BOOLEAN,
              ever : BOOLEAN, charged : BOOLEAN,
              answer : {"granted", "refused", "terminal", "retry", "worked", "barren", "sweeping", "bury"}]
Memos == [fully : BOOLEAN, root : RootPaths \cup {NoRoot}, gen : Nat]
RowRecs == [kind : {"none", "bare", "scope", "root", "stale"}, root : RootPaths \cup {NoRoot}, gen : Nat]
Choices == [scope : Dirs, root : RootPaths, gen : Nat]
Waits == [pc : {"wait"}, timer : BOOLEAN]
Retires == [pc : {"retire"}, chosen : SUBSET Choices, stale : SUBSET Dirs, swept : SUBSET Dirs, more : BOOLEAN]
Managers == [busy : BOOLEAN, todo : SUBSET RootPaths, capable : SUBSET RootPaths]

TypeInv ==
  /\ scen \in Scenarios
  /\ roots \in [RootPaths -> RootRecs]
  /\ rtask \in [RootPaths -> {NoTask} \cup RootTasks]
  /\ stask \in [Dirs -> {NoTask} \cup ScopeTasks]
  /\ old \subseteq OldRoots \cup OldScopes /\ IsFiniteSet(old)
  /\ denied \in [Dirs -> Memos]
  /\ wake \in BOOLEAN
  /\ sup \in Waits \cup Retires
  /\ retiring \in Nat
  /\ mgr \in Managers
  /\ next_generation \in Nat \ {0}
  /\ row \in [Dirs -> RowRecs]

(* Whatever remembers an advertisement remembers one that was issued.       *)
Issued(g) == g < next_generation
GenInv ==
  /\ \A r \in RootPaths : Issued(roots[r].gen) /\ (roots[r].st # "absent" => roots[r].gen > 0)
  /\ \A s \in Dirs : stask[s] # NoTask => Issued(stask[s].gen) /\ stask[s].gen > 0
  /\ \A t \in old : Issued(t.gen) /\ t.gen > 0
  /\ \A d \in Dirs : Issued(denied[d].gen) /\ Issued(row[d].gen)
  /\ sup.pc = "retire" => \A c \in sup.chosen : Issued(c.gen) /\ c.gen > 0

(* A root's drain serves the advertisement that is current; a cancelled one *)
(* serves none.                                                             *)
RootInv ==
  /\ \A r \in RootPaths : rtask[r] # NoTask => r \in Advertised(roots) /\ rtask[r].gen = roots[r].gen
  /\ LiveRootIsOpen
  /\ \A t \in old : t.kind = "root" => ~IsCurrent(roots, t.root, t.gen)
  /\ ~mgr.busy => mgr.todo = {}
  /\ mgr.todo \cap Advertised(roots) = {}
  /\ mgr.capable \subseteq Advertised(roots) \cup mgr.todo
  /\ next_generation + Cardinality(mgr.todo) <= scen.gens + 1

(* The table keeps to its size, and its order is a weak order in which two  *)
(* candidates that tie are at different depths.                             *)
Ordered(tb) ==
  /\ tb \in [DOMAIN tb -> SUBSET DOMAIN tb]
  /\ \A a \in DOMAIN tb : a \notin tb[a]
  /\ \A a, b, c \in DOMAIN tb : a \in tb[b] /\ b \in tb[c] => a \in tb[c]
  /\ \A a, b, c \in DOMAIN tb : a \in tb[c] => a \in tb[b] \/ b \in tb[c]
  /\ \A a, b \in DOMAIN tb : a \notin tb[b] /\ b \notin tb[a] /\ Len(a) = Len(b) => a = b
TableInv ==
  /\ Cands \subseteq Dirs
  /\ hot \subseteq Cands /\ marked \subseteq Cands
  /\ Cardinality(Cands) <= MaxCands
  /\ Ordered(recency)

(* The drain that owes a sweep to what lies under it.                       *)
Owes(s, d) ==
  /\ s \in Held /\ Under(s, d) /\ stask[s].ever = TRUE /\ stask[s].pc # "dead"
  /\ ~(BeingRetired(s) /\ sup.swept = {s})
WatchInv ==
  /\ \A s \in Held : stask[s].pc \in {"sweeping", "open"} => stask[s].ever = TRUE
  /\ FreshUnderWatch
  /\ \A d \in Dirs : row[d].kind # "none" => row[d].root \in RootPaths
  /\ \A d \in Dirs : row[d].kind \in {"scope", "stale"} => \E s \in Dirs : Owes(s, d)
  /\ sup.pc = "retire" => sup.swept \subseteq sup.stale /\ sup.stale \subseteq Held

(* The drains in the map and the handles of the ones that left it.          *)
Scopes(chosen) == {c.scope : c \in chosen}
ThreadInv ==
  /\ Stragglers <= retiring
  /\ Cardinality(Held) <= Budget + 1
  /\ sup.pc = "wait" => retiring <= StuckLimit + Budget
  /\ sup.pc = "retire" => /\ retiring + Cardinality(sup.stale) <= StuckLimit + Budget
                          /\ Cardinality(Scopes(sup.chosen)) <= Budget + 1
                          /\ Held \ sup.stale \subseteq Scopes(sup.chosen)

Inv == TypeInv /\ GenInv /\ RootInv /\ TableInv /\ WatchInv /\ ThreadInv

-----------------------------------------------------------------------------
(* The operators of the model.                                              *)

(* A bounded set of numbers has a greatest.                                 *)
LEMMA MaxExists ==
  ASSUME NEW N \in SUBSET Nat, N # {}, NEW n \in Nat, \A x \in N : x <= n
  PROVE  \E m \in N : \A x \in N : x <= m
<1> DEFINE above(i) == i .. n
           T == {above(i) : i \in N}
           L == StrictSubsetOrdering(0 .. n)
<1>1. T \subseteq FiniteSubsetsOf(0 .. n)
  <2>1. IsFiniteSet(0 .. n)
    BY FS_Interval
  <2>2. ASSUME NEW i \in N PROVE above(i) \subseteq 0 .. n /\ IsFiniteSet(above(i))
    <3>1. above(i) \subseteq 0 .. n
      OBVIOUS
    <3> QED BY <2>1, <3>1, FS_Subset
  <2> QED BY <2>2 DEF FiniteSubsetsOf
<1>2. T # {}
  OBVIOUS
<1>3. IsWellFoundedOn(L, FiniteSubsetsOf(0 .. n))
  BY FS_StrictSubsetOrderingWellFounded
<1>4. PICK t \in T : \A u \in T : ~(<<u, t>> \in L)
  <2> HIDE DEF T, L
  <2> QED BY <1>1, <1>2, <1>3, WFMin
<1>5. PICK m \in N : t = above(m)
  BY <1>4
<1>6. ASSUME NEW x \in N, x > m PROVE FALSE
  <2>1. above(x) \subseteq 0 .. n /\ above(m) \subseteq 0 .. n /\ above(x) \subseteq above(m)
    BY <1>6
  <2>2. m \in above(m) /\ m \notin above(x)
    BY <1>6
  <2>3. <<above(x), above(m)>> \in L
    <3> HIDE DEF above
    <3> QED BY <2>1, <2>2 DEF StrictSubsetOrdering
  <2> QED BY <2>3, <1>4, <1>5
<1> QED BY <1>6

LEMMA LensNat == \A p \in Dirs \cup RootPaths : p \in Seq(STRING) /\ Len(p) \in Nat
  BY PathsAssumption

(* The longest of some prefixes of a path.                                  *)
LEMMA LongestExists ==
  ASSUME NEW S \in SUBSET RootPaths, S # {}, NEW d \in Dirs, \A r \in S : Under(r, d)
  PROVE  \E r \in S : \A o \in S : Len(o) <= Len(r)
<1> DEFINE N == {Len(r) : r \in S}
<1>1. N \in SUBSET Nat /\ N # {}
  BY LensNat
<1>2. Len(d) \in Nat /\ \A x \in N : x <= Len(d)
  BY LensNat DEF Under
<1>3. PICK m \in N : \A x \in N : x <= m
  <2> HIDE DEF N
  <2> QED BY <1>1, <1>2, MaxExists
<1> QED BY <1>3

LEMMA OwnerIn ==
  ASSUME NEW rt, NEW d \in Dirs, Owner(rt, d) # NoRoot
  PROVE  /\ Owner(rt, d) \in Advertised(rt)
         /\ Owner(rt, d) \in RootPaths
         /\ Under(Owner(rt, d), d)
<1> DEFINE above == {r \in Advertised(rt) : Under(r, d)}
<1>1. above # {}
  BY DEF Owner
<1>2. above \in SUBSET RootPaths
  BY DEF Advertised
<1>3. \E r \in above : \A o \in above : Len(o) <= Len(r)
  <2>1. \A r \in above : Under(r, d)
    OBVIOUS
  <2> HIDE DEF above
  <2> QED BY <1>1, <1>2, <2>1, LongestExists
<1>4. Owner(rt, d) = CHOOSE r \in above : \A o \in above : Len(o) <= Len(r)
  BY <1>1 DEF Owner
<1>5. Owner(rt, d) \in above
  <2> HIDE DEF above
  <2> QED BY <1>3, <1>4
<1> QED BY <1>2, <1>5

(* The tasks and their absence.                                             *)
LEMMA TasksApart == NoTask \notin RootTasks /\ NoTask \notin ScopeTasks /\ NoTask.pc = "none"
<1>1. NoTask.pc = "none"
  BY DEF NoTask
<1>2. \A t \in RootTasks : t.pc # "none"
  BY DEF RootTasks
<1>3. \A t \in ScopeTasks : t.pc # "none"
  BY DEF ScopeTasks
<1> QED BY <1>1, <1>2, <1>3

(* A step that leaves every advertisement and its answer alone.             *)
SameAds(rt, new) == \A r \in RootPaths : new[r].st = rt[r].st /\ new[r].gen = rt[r].gen

LEMMA AdsSame ==
  ASSUME NEW rt, NEW new, SameAds(rt, new)
  PROVE  /\ Advertised(new) = Advertised(rt)
         /\ \A r, g : IsCurrent(new, r, g) <=> IsCurrent(rt, r, g)
         /\ \A d : Owner(new, d) = Owner(rt, d)
<1>1. Advertised(new) = Advertised(rt)
  BY DEF SameAds, Advertised
<1>2. \A r, g : IsCurrent(new, r, g) <=> IsCurrent(rt, r, g)
  BY <1>1 DEF IsCurrent, SameAds, Advertised
<1>3. \A d : Owner(new, d) = Owner(rt, d)
  BY <1>1 DEF Owner
<1> QED BY <1>1, <1>2, <1>3

LEMMA Zeros == 0 \in 0 .. FailLimit /\ 0 \in 0 .. BarrenLimit
  BY LimitsAssumption

LEMMA FailedOK ==
  ASSUME NEW e \in RootRecs
  PROVE  Failed(e) \in RootRecs /\ Failed(e).st = e.st /\ Failed(e).gen = e.gen
<1>1. PICK f : f = IF e.fails < FailLimit THEN e.fails + 1 ELSE FailLimit
  OBVIOUS
<1>2. e.fails \in 0 .. FailLimit /\ FailLimit \in Nat
  BY LimitsAssumption DEF RootRecs
<1>3. f \in 0 .. FailLimit
  BY <1>1, <1>2
<1>4. PICK p : p = IF f = FailLimit /\ e.paused = "no" THEN "yes" ELSE e.paused
  OBVIOUS
<1>5. p \in {"no", "yes", "due"}
  BY <1>4 DEF RootRecs
<1>6. Failed(e) = [e EXCEPT !.fails = f, !.paused = p]
  BY <1>1, <1>4 DEF Failed, RootRecs
<1> QED BY <1>3, <1>5, <1>6 DEF RootRecs

LEMMA BarrenOK ==
  ASSUME NEW e \in RootRecs
  PROVE  Barren(e) \in RootRecs /\ Barren(e).st = e.st /\ Barren(e).gen = e.gen
<1>1. PICK b : b = IF e.barren < BarrenLimit THEN e.barren + 1 ELSE BarrenLimit
  OBVIOUS
<1>2. e.barren \in 0 .. BarrenLimit /\ BarrenLimit \in Nat
  BY LimitsAssumption DEF RootRecs
<1>3. b \in 0 .. BarrenLimit
  BY <1>1, <1>2
<1>4. PICK x : x = [e EXCEPT !.barren = b]
  OBVIOUS
<1>5. x \in RootRecs /\ x.st = e.st /\ x.gen = e.gen
  BY <1>3, <1>4 DEF RootRecs
<1>6. Barren(e) = IF b < BarrenLimit THEN x ELSE Failed(x)
  BY <1>1, <1>4 DEF Barren
<1> QED BY <1>5, <1>6, FailedOK

LEMMA NotedOK ==
  ASSUME NEW rt \in [RootPaths -> RootRecs], NEW r \in RootPaths, NEW g,
         NEW outcome \in {"opened", "worked", "barren", "failed"}
  PROVE  /\ Noted(rt, r, g, outcome) \in [RootPaths -> RootRecs]
         /\ SameAds(rt, Noted(rt, r, g, outcome))
<1>1. CASE ~(IsCurrent(rt, r, g) /\ rt[r].st = "refused")
  BY <1>1 DEF Noted, SameAds
<1>2. CASE IsCurrent(rt, r, g) /\ rt[r].st = "refused"
  <2>1. PICK e : e = rt[r]
    OBVIOUS
  <2>2. e \in RootRecs /\ FailLimit \in Nat /\ BarrenLimit \in Nat
    BY <2>1, LimitsAssumption
  <2>3. PICK n : n = CASE outcome = "opened" -> IF e.barren < BarrenLimit THEN [e EXCEPT !.fails = 0] ELSE e
                       [] outcome = "worked" -> [e EXCEPT !.fails = 0, !.barren = 0]
                       [] outcome = "barren" -> Barren(e)
                       [] OTHER -> Failed(e)
    OBVIOUS
  <2>4. Noted(rt, r, g, outcome) = [rt EXCEPT ![r] = n]
    BY <1>2, <2>1, <2>3 DEF Noted
  <2>5. n \in RootRecs /\ n.st = e.st /\ n.gen = e.gen
    <3>1. CASE outcome = "opened"
      BY <3>1, <2>2, <2>3 DEF RootRecs
    <3>2. CASE outcome = "worked"
      <4>1. n = [e EXCEPT !.fails = 0, !.barren = 0]
        BY <3>2, <2>3
      <4> QED BY <4>1, <2>2, Zeros DEF RootRecs
    <3>3. CASE outcome = "barren"
      BY <3>3, <2>2, <2>3, BarrenOK
    <3>4. CASE outcome = "failed"
      BY <3>4, <2>2, <2>3, FailedOK
    <3> QED BY <3>1, <3>2, <3>3, <3>4
  <2> QED BY <2>1, <2>4, <2>5 DEF SameAds
<1> QED BY <1>1, <1>2

LEMMA ViewsOK ==
  ASSUME TypeInv
  PROVE  Views \in [RootPaths -> RootRecs] /\ SameAds(roots, Views)
<1>1. ASSUME NEW r \in RootPaths
      PROVE  Views[r] \in RootRecs /\ Views[r].st = roots[r].st /\ Views[r].gen = roots[r].gen
  <2>1. PICK e : e = roots[r]
    OBVIOUS
  <2>2. e \in RootRecs /\ FailLimit \in Nat /\ BarrenLimit \in Nat
    BY <2>1, LimitsAssumption DEF TypeInv
  <2>3. Views[r] = IF e.paused = "due" THEN [e EXCEPT !.paused = "no", !.fails = 0, !.barren = 0] ELSE e
    BY <2>1 DEF Views
  <2>4. CASE e.paused = "due"
    <3>1. Views[r] = [e EXCEPT !.paused = "no", !.fails = 0, !.barren = 0]
      BY <2>3, <2>4
    <3> QED BY <2>1, <2>2, <3>1, Zeros DEF RootRecs
  <2>5. CASE e.paused # "due"
    BY <2>1, <2>2, <2>3, <2>5
  <2> QED BY <2>4, <2>5
<1> QED BY <1>1 DEF Views, SameAds

(* What a root's drain writes: nothing unless its advertisement is current. *)
LEMMA AnsweredOK ==
  ASSUME NEW rt \in [RootPaths -> RootRecs], NEW r \in RootPaths, NEW g \in Nat, NEW st \in States,
         NEW new, new = Answered(rt, r, g, st)
  PROVE  /\ new \in [RootPaths -> RootRecs]
         /\ ~IsCurrent(rt, r, g) => new = rt
         /\ \A q \in RootPaths : new[q].gen = rt[q].gen
         /\ \A q \in RootPaths : q # r => new[q] = rt[q]
         /\ new[r].st \in {rt[r].st, st}
         /\ IsCurrent(rt, r, g) /\ st # "pending" => new[r].st = st
         /\ IsCurrent(rt, r, g) /\ st = "pending" => new[r].st # "live"
<1>1. CASE ~(IsCurrent(rt, r, g) /\ rt[r].st # st /\ (st = "pending" => rt[r].st = "live"))
  <2>1. new = rt
    BY <1>1 DEF Answered
  <2>2. IsCurrent(rt, r, g) /\ st # "pending" => rt[r].st = st
    BY <1>1
  <2>3. IsCurrent(rt, r, g) /\ st = "pending" => rt[r].st # "live"
    BY <1>1
  <2> QED BY <2>1, <2>2, <2>3
<1>2. CASE IsCurrent(rt, r, g) /\ rt[r].st # st /\ (st = "pending" => rt[r].st = "live")
  <2>1. PICK e : e = [Absent EXCEPT !.st = st, !.gen = g]
    OBVIOUS
  <2>2. e \in RootRecs /\ e.st = st /\ e.gen = g
    BY <2>1, Zeros DEF Absent, RootRecs
  <2>3. new = [rt EXCEPT ![r] = e]
    BY <1>2, <2>1 DEF Answered
  <2>4. rt[r].gen = g
    BY <1>2 DEF IsCurrent
  <2> QED BY <2>2, <2>3, <2>4, <1>2
<1> QED BY <1>1, <1>2

(* What a directory's drain writes touches no advertisement.                *)
LEMMA ScopeNotesOK ==
  ASSUME TypeInv, GenInv, NEW s \in Dirs, NEW t \in ScopeTasks \cup OldScopes, Issued(t.gen),
         NEW answer, ScopeNotes(s, t, answer)
  PROVE  /\ roots' \in [RootPaths -> RootRecs]
         /\ SameAds(roots, roots')
         /\ denied' \in [Dirs -> Memos]
         /\ \A d \in Dirs : Issued(denied'[d].gen)
         /\ wake' \in BOOLEAN
<1>1. t.root \in RootPaths /\ t.gen \in Nat
  BY DEF ScopeTasks, OldScopes
<1>2. roots \in [RootPaths -> RootRecs] /\ denied \in [Dirs -> Memos] /\ wake \in BOOLEAN
  BY DEF TypeInv
<1>3. PICK outcome : outcome = IF answer = "granted" THEN "opened"
                               ELSE IF answer \in {"worked", "barren"} THEN answer ELSE "failed"
  OBVIOUS
<1>4. outcome \in {"opened", "worked", "barren", "failed"}
  BY <1>3
<1>5. roots' = roots \/ roots' = Noted(roots, t.root, t.gen, outcome)
  BY <1>3 DEF ScopeNotes
<1>6. roots' \in [RootPaths -> RootRecs] /\ SameAds(roots, roots')
  <2>1. CASE roots' = roots
    BY <2>1, <1>2 DEF SameAds
  <2>2. CASE roots' = Noted(roots, t.root, t.gen, outcome)
    BY <2>2, <1>1, <1>2, <1>4, NotedOK
  <2> QED BY <1>5, <2>1, <2>2
<1>7. PICK full : full = Exits(t, answer)
  OBVIOUS
<1>8. full \in BOOLEAN
  BY <1>7 DEF Exits
<1>9. denied' = denied \/ denied' = [denied EXCEPT ![s] = [fully |-> full, root |-> t.root, gen |-> t.gen]]
  BY <1>7 DEF ScopeNotes, Deny
<1>10. PICK m : m = [fully |-> full, root |-> t.root, gen |-> t.gen]
  OBVIOUS
<1>11. m \in Memos /\ m.gen = t.gen
  BY <1>1, <1>8, <1>10 DEF Memos
<1>12. denied' \in [Dirs -> Memos] /\ \A d \in Dirs : denied'[d] = denied[d] \/ denied'[d] = m
  BY <1>2, <1>9, <1>10, <1>11
<1>13. \A d \in Dirs : Issued(denied'[d].gen)
  BY <1>11, <1>12 DEF GenInv, Issued
<1>14. wake' \in BOOLEAN
  BY <1>2, Zenon DEF ScopeNotes
<1> QED BY <1>6, <1>12, <1>13, <1>14

-----------------------------------------------------------------------------
(* The table of candidates and selection.                                   *)

(* Of one length there is one prefix.                                       *)
LEMMA ChainTies ==
  ASSUME NEW a, NEW b, NEW d, Under(a, d), Under(b, d), Len(a) = Len(b)
  PROVE  a = b
  BY DEF Under

LEMMA UnderSelf == \A d \in Dirs : Under(d, d)
  BY LensNat DEF Under

LEMMA TouchOrdered ==
  ASSUME TableInv, NEW d \in Dirs, NEW T, T = {c \in Cands : Under(c, d)} \cup {d}
  PROVE  DOMAIN Touch(T) = Cands \cup {d} /\ Ordered(Touch(T))
<1>1. PICK tb : tb = Touch(T)
  OBVIOUS
<1>2. Ordered(recency) /\ Cands = DOMAIN recency
  BY DEF TableInv, Cands
<1>3. Cands \cup T = Cands \cup {d}
  OBVIOUS
<1>4. /\ DOMAIN tb = Cands \cup {d}
      /\ \A s \in Cands \cup {d} : tb[s] = IF s \in T THEN {} ELSE recency[s] \cup T
  BY <1>1, <1>3 DEF Touch
<1>5. \A s \in Cands \cup {d} : s \notin T => s \in Cands /\ recency[s] \subseteq Cands
  BY <1>2 DEF Ordered
<1>6. tb \in [DOMAIN tb -> SUBSET DOMAIN tb]
  BY <1>1, <1>3, <1>4, <1>5 DEF Touch
<1>11. /\ \A a \in Cands : a \notin recency[a]
       /\ \A a, b, c \in Cands : a \in recency[b] /\ b \in recency[c] => a \in recency[c]
       /\ \A a, b, c \in Cands : a \in recency[c] => a \in recency[b] \/ b \in recency[c]
       /\ \A a, b \in Cands : a \notin recency[b] /\ b \notin recency[a] /\ Len(a) = Len(b) => a = b
  BY <1>2 DEF Ordered
<1>7. \A a \in DOMAIN tb : a \notin tb[a]
  BY <1>4, <1>5, <1>11
<1>8. ASSUME NEW a \in DOMAIN tb, NEW b \in DOMAIN tb, NEW c \in DOMAIN tb, a \in tb[b], b \in tb[c]
      PROVE  a \in tb[c]
  <2>1. b \notin T /\ c \notin T /\ b \in Cands /\ c \in Cands
    BY <1>4, <1>5, <1>8
  <2>2. b \in recency[c] /\ (a \in T \/ a \in recency[b])
    BY <2>1, <1>4, <1>8
  <2>3. a \in T \/ a \in Cands
    BY <2>1, <2>2, <1>5, <1>4
  <2>4. a \in T \/ a \in recency[c]
    BY <2>1, <2>2, <2>3, <1>5, <1>4, <1>11
  <2> QED BY <2>1, <2>4, <1>4
<1>9. ASSUME NEW a \in DOMAIN tb, NEW b \in DOMAIN tb, NEW c \in DOMAIN tb, a \in tb[c]
      PROVE  a \in tb[b] \/ b \in tb[c]
  <2>1. c \notin T /\ c \in Cands /\ (a \in T \/ a \in recency[c])
    BY <1>4, <1>5, <1>9
  <2>2. CASE b \in T
    BY <2>1, <2>2, <1>4
  <2>3. CASE b \notin T /\ a \in T
    BY <2>3, <1>4
  <2>4. CASE b \notin T /\ a \in recency[c]
    <3>1. a \in Cands /\ b \in Cands
      BY <2>1, <2>4, <1>4, <1>5
    <3>2. a \in recency[b] \/ b \in recency[c]
      BY <2>1, <2>4, <3>1, <1>11
    <3> QED BY <2>1, <2>4, <3>1, <3>2, <1>4
  <2> QED BY <2>1, <2>2, <2>3, <2>4
<1>10. ASSUME NEW a \in DOMAIN tb, NEW b \in DOMAIN tb, a \notin tb[b], b \notin tb[a], Len(a) = Len(b)
       PROVE  a = b
  <2>1. CASE a \in T /\ b \in T
    BY <2>1, <1>10, ChainTies, UnderSelf
  <2>2. CASE a \in T /\ b \notin T
    BY <2>2, <1>4, <1>10
  <2>3. CASE a \notin T /\ b \in T
    BY <2>3, <1>4, <1>10
  <2>4. CASE a \notin T /\ b \notin T
    <3>1. a \in Cands /\ b \in Cands
      BY <2>4, <1>4, <1>5
    <3>2. a \notin recency[b] /\ b \notin recency[a]
      BY <2>4, <3>1, <1>4, <1>10
    <3> QED BY <3>1, <3>2, <1>10, <1>11
  <2> QED BY <2>1, <2>2, <2>3, <2>4
<1> QED BY <1>1, <1>4, <1>6, <1>7, <1>8, <1>9, <1>10 DEF Ordered

LEMMA WithoutOrdered ==
  ASSUME NEW tb, Ordered(tb), NEW x
  PROVE  DOMAIN Without(tb, x) = DOMAIN tb \ {x} /\ Ordered(Without(tb, x))
<1>1. PICK w : w = Without(tb, x)
  OBVIOUS
<1>2. DOMAIN w = DOMAIN tb \ {x} /\ \A s \in DOMAIN w : w[s] = tb[s] \ {x}
  BY <1>1 DEF Without
<1>3. w \in [DOMAIN w -> SUBSET DOMAIN w]
  BY <1>1, <1>2 DEF Without, Ordered
<1> QED BY <1>1, <1>2, <1>3 DEF Ordered

LEMMA CandsFinite ==
  ASSUME TableInv
  PROVE  IsFiniteSet(Cands) /\ Cardinality(Cands) \in Nat
  BY PathsAssumption, FS_Subset, FS_CardinalityType DEF TableInv

(* A read leaves the table in order and within its size.                    *)
LEMMA TableRead ==
  ASSUME TableInv, NEW d \in Dirs, Read(d)
  PROVE  TableInv'
<1>1. PICK T : T = {c \in Cands : Under(c, d)} \cup {d}
  OBVIOUS
<1>2. DOMAIN Touch(T) = Cands \cup {d} /\ Ordered(Touch(T))
  BY <1>1, TouchOrdered
<1>3. Cands \subseteq Dirs /\ hot \subseteq Cands /\ marked \subseteq Cands /\ Cardinality(Cands) <= MaxCands
  BY DEF TableInv
<1>4. IsFiniteSet(Cands) /\ Cardinality(Cands) \in Nat /\ MaxCands \in Nat
  BY CandsFinite, LimitsAssumption
<1>5. CASE d \notin Cands /\ Cardinality(Cands) >= MaxCands
  <2>1. PICK v \in Coldest(Touch({c \in Cands : Under(c, d)})) :
               /\ recency' = Without(Touch(T), v)
               /\ hot' = (hot \ {v}) \cup {d}
               /\ marked' = marked \ {v}
    BY <1>1, <1>5 DEF Read
  <2>2. v \in Cands
    BY DEF Coldest, Touch
  <2>3. Cands' = (Cands \cup {d}) \ {v} /\ Ordered(recency')
    BY <2>1, <1>2, WithoutOrdered DEF Cands
  <2>4. Cardinality(Cands') <= MaxCands
    <3>1. IsFiniteSet(Cands \cup {d}) /\ Cardinality(Cands \cup {d}) = Cardinality(Cands) + 1
      BY <1>4, <1>5, FS_AddElement
    <3>2. Cardinality((Cands \cup {d}) \ {v}) = Cardinality(Cands \cup {d}) - 1
      BY <3>1, <2>2, FS_RemoveElement
    <3> QED BY <3>1, <3>2, <2>3, <1>3, <1>4
  <2> QED BY <2>1, <2>2, <2>3, <2>4, <1>3, <1>5 DEF TableInv
<1>6. CASE ~(d \notin Cands /\ Cardinality(Cands) >= MaxCands)
  <2>1. recency' = Touch(T) /\ hot' = hot \cup {d} /\ marked' = marked
    BY <1>1, <1>6 DEF Read
  <2>2. Cands' = Cands \cup {d} /\ Ordered(recency')
    BY <2>1, <1>2 DEF Cands
  <2>3. Cardinality(Cands') <= MaxCands
    <3>1. Cardinality(Cands \cup {d}) = IF d \in Cands THEN Cardinality(Cands) ELSE Cardinality(Cands) + 1
      BY <1>4, FS_AddElement
    <3> QED BY <3>1, <2>2, <1>3, <1>4, <1>6
  <2> QED BY <2>1, <2>2, <2>3, <1>3 DEF TableInv
<1> QED BY <1>5, <1>6

(* Selection, piece by piece.                                               *)
Kept(rt) == {s \in Antichain(rt) : WorthKeeping(rt, s)}
MayCover(rt) == {e \in Antichain(rt) \ Kept(rt) : /\ Subsumed(rt, e, Kept(rt)) > 0
                                                  /\ e \notin Advertised(rt) /\ StartsDeep(e)}
Cover(rt) == IF MayCover(rt) = {} THEN {}
             ELSE {CHOOSE e \in MayCover(rt) :
                     \A o \in MayCover(rt) : Subsumed(rt, o, Kept(rt)) <= Subsumed(rt, e, Kept(rt))}
Queue(rt) == Antichain(rt) \ Cover(rt)
Ahead(rt, a, b) == IF (a \in Kept(rt)) = (b \in Kept(rt)) THEN Hotter(a, b) ELSE a \in Kept(rt)
Before(rt, s) == {o \in Queue(rt) : Ahead(rt, o, s)}
Front(rt) == {s \in Queue(rt) : Cardinality(Before(rt, s)) < Budget}

LEMMA SelectIs == \A rt : Select(rt) = Front(rt) \cup Cover(rt)
  BY DEF Select, Front, Before, Ahead, Queue, Cover, MayCover, Kept

LEMMA ChosenFrom ==
  ASSUME TableInv, NEW rt
  PROVE  /\ Antichain(rt) \subseteq Assigned(rt) /\ Antichain(rt) \subseteq Cands
         /\ IsFiniteSet(Antichain(rt))
<1>1. Antichain(rt) \subseteq Assigned(rt)
  BY DEF Antichain
<1>2. Assigned(rt) \subseteq Cands
  BY DEF Assigned, Candidates
<1> QED BY <1>1, <1>2, CandsFinite, FS_Subset

LEMMA CoverIn ==
  ASSUME TableInv, NEW rt
  PROVE  Cover(rt) \subseteq Antichain(rt) /\ IsFiniteSet(Cover(rt)) /\ Cardinality(Cover(rt)) <= 1
<1>1. CASE MayCover(rt) = {}
  BY <1>1, FS_EmptySet DEF Cover
<1>2. CASE MayCover(rt) # {}
  <2> DEFINE N == {Subsumed(rt, o, Kept(rt)) : o \in MayCover(rt)}
  <2>1. IsFiniteSet(Kept(rt)) /\ Cardinality(Kept(rt)) \in Nat
    BY ChosenFrom, FS_Subset, FS_CardinalityType DEF Kept
  <2>2. ASSUME NEW e PROVE Subsumed(rt, e, Kept(rt)) \in Nat /\ Subsumed(rt, e, Kept(rt)) <= Cardinality(Kept(rt))
    <3>1. PICK Q : Q = {p \in Kept(rt) : Owner(rt, p) = Owner(rt, e) /\ Under(e, p)}
      OBVIOUS
    <3>2. Q \in SUBSET Kept(rt)
      BY <3>1
    <3>3. Subsumed(rt, e, Kept(rt)) = Cardinality(Q)
      BY <3>1 DEF Subsumed
    <3> QED BY <2>1, <3>2, <3>3, FS_Subset, FS_CardinalityType
  <2>3. N \in SUBSET Nat /\ N # {} /\ \A x \in N : x <= Cardinality(Kept(rt))
    BY <1>2, <2>2
  <2>4. PICK m \in N : \A x \in N : x <= m
    <3> HIDE DEF N
    <3> QED BY <2>1, <2>3, MaxExists
  <2>5. \E e \in MayCover(rt) : \A o \in MayCover(rt) : Subsumed(rt, o, Kept(rt)) <= Subsumed(rt, e, Kept(rt))
    BY <2>4
  <2>6. PICK c \in MayCover(rt) : Cover(rt) = {c}
    BY <1>2, <2>5 DEF Cover
  <2>7. c \in Antichain(rt)
    BY <2>6 DEF MayCover
  <2>8. IsFiniteSet({c}) /\ Cardinality({c}) = 1
    BY FS_Singleton
  <2>9. Cover(rt) \subseteq Antichain(rt)
    BY <2>6, <2>7
  <2> QED BY <2>6, <2>8, <2>9
<1> QED BY <1>1, <1>2

(* The order of the queue is a strict total order.                          *)
LEMMA HotterOrder ==
  ASSUME TableInv
  PROVE  /\ \A a \in Cands : ~Hotter(a, a)
         /\ \A a, b, c \in Cands : Hotter(a, b) /\ Hotter(b, c) => Hotter(a, c)
         /\ \A a, b \in Cands : a # b => Hotter(a, b) \/ Hotter(b, a)
<1>1. /\ \A a \in Cands : a \notin recency[a] /\ Len(a) \in Nat
      /\ \A a, b, c \in Cands : a \in recency[b] /\ b \in recency[c] => a \in recency[c]
      /\ \A a, b, c \in Cands : a \in recency[c] => a \in recency[b] \/ b \in recency[c]
      /\ \A a, b \in Cands : a \notin recency[b] /\ b \notin recency[a] /\ Len(a) = Len(b) => a = b
  BY LensNat DEF TableInv, Ordered, Cands
<1>2. \A a \in Cands : ~Hotter(a, a)
  BY <1>1 DEF Hotter
<1>3. ASSUME NEW a \in Cands, NEW b \in Cands, NEW c \in Cands, Hotter(a, b), Hotter(b, c)
      PROVE  Hotter(a, c)
  BY <1>1, <1>3 DEF Hotter
<1>4. \A a, b \in Cands : a # b => Hotter(a, b) \/ Hotter(b, a)
  BY <1>1 DEF Hotter
<1> QED BY <1>2, <1>3, <1>4

LEMMA AheadOrder ==
  ASSUME TableInv, NEW rt
  PROVE  /\ \A a \in Cands : ~Ahead(rt, a, a)
         /\ \A a, b, c \in Cands : Ahead(rt, a, b) /\ Ahead(rt, b, c) => Ahead(rt, a, c)
         /\ \A a, b \in Cands : a # b => Ahead(rt, a, b) \/ Ahead(rt, b, a)
<1>1. PICK K : K = Kept(rt)
  OBVIOUS
<1>2. \A a, b : Ahead(rt, a, b) <=> IF (a \in K) = (b \in K) THEN Hotter(a, b) ELSE a \in K
  BY <1>1 DEF Ahead
<1> QED BY <1>2, HotterOrder

(* No more than the budget are in front.                                    *)
LEMMA FrontBound ==
  ASSUME TableInv, NEW rt
  PROVE  IsFiniteSet(Front(rt)) /\ Cardinality(Front(rt)) <= Budget
<1>1. Queue(rt) \subseteq Cands /\ IsFiniteSet(Queue(rt)) /\ Cardinality(Queue(rt)) \in Nat
  BY ChosenFrom, FS_Subset, FS_CardinalityType DEF Queue
<1>2. IsFiniteSet(Front(rt)) /\ Front(rt) \subseteq Queue(rt)
  BY <1>1, FS_Subset DEF Front
<1>3. \A s : /\ IsFiniteSet(Before(rt, s)) /\ Cardinality(Before(rt, s)) \in Nat
             /\ Cardinality(Before(rt, s)) <= Cardinality(Queue(rt))
  BY <1>1, FS_Subset, FS_CardinalityType DEF Before
<1>4. Budget \in Nat
  BY LimitsAssumption
<1>5. CASE Front(rt) = {}
  BY <1>2, <1>4, <1>5, FS_EmptySet
<1>6. CASE Front(rt) # {}
  <2> DEFINE N == {Cardinality(Before(rt, s)) : s \in Front(rt)}
  <2>1. N \in SUBSET Nat /\ N # {} /\ \A x \in N : x <= Cardinality(Queue(rt))
    BY <1>3, <1>6
  <2>2. PICK n \in N : \A x \in N : x <= n
    <3> HIDE DEF N
    <3> QED BY <1>1, <2>1, MaxExists
  <2>3. PICK m \in Front(rt) : \A s \in Front(rt) : Cardinality(Before(rt, s)) <= Cardinality(Before(rt, m))
    BY <2>2
  <2>4. ASSUME NEW s \in Front(rt), s # m PROVE s \in Before(rt, m)
    <3>1. s \in Queue(rt) /\ m \in Queue(rt) /\ s \in Cands /\ m \in Cands
      BY <1>1, <1>2
    <3>2. SUFFICES ASSUME ~Ahead(rt, s, m) PROVE FALSE
      BY <3>1 DEF Before
    <3>3. Ahead(rt, m, s)
      BY <2>4, <3>1, <3>2, AheadOrder
    <3>4. Before(rt, m) \cup {m} \in SUBSET Before(rt, s)
      BY <1>1, <3>1, <3>3, AheadOrder DEF Before
    <3>5. m \notin Before(rt, m)
      BY <3>1, AheadOrder DEF Before
    <3>6. Cardinality(Before(rt, m) \cup {m}) = Cardinality(Before(rt, m)) + 1
      BY <1>3, <3>5, FS_AddElement
    <3>7. Cardinality(Before(rt, m) \cup {m}) <= Cardinality(Before(rt, s))
      BY <1>3, <3>4, FS_Subset
    <3> QED BY <1>3, <2>3, <3>6, <3>7
  <2>5. Front(rt) \ {m} \in SUBSET Before(rt, m)
    BY <2>4
  <2>6. Cardinality(Front(rt) \ {m}) <= Cardinality(Before(rt, m))
    BY <1>3, <2>5, FS_Subset
  <2>7. Cardinality(Front(rt) \ {m}) = Cardinality(Front(rt)) - 1 /\ Cardinality(Front(rt)) \in Nat
    BY <1>2, FS_RemoveElement, FS_CardinalityType
  <2>8. Cardinality(Before(rt, m)) < Budget
    BY <2>3 DEF Front
  <2> QED BY <1>2, <1>3, <1>4, <2>6, <2>7, <2>8
<1> QED BY <1>5, <1>6

(* Selection chooses candidates with an owner, at most one above budget.    *)
LEMMA SelectBound ==
  ASSUME TableInv, NEW rt
  PROVE  /\ \A s \in Select(rt) : s \in Cands /\ Owner(rt, s) # NoRoot
         /\ IsFiniteSet(Select(rt)) /\ Cardinality(Select(rt)) <= Budget + 1
<1>1. Select(rt) = Front(rt) \cup Cover(rt)
  BY SelectIs
<1>2. Select(rt) \subseteq Antichain(rt)
  BY <1>1, CoverIn DEF Front, Queue
<1>3. \A s \in Select(rt) : s \in Cands /\ Owner(rt, s) # NoRoot
  BY <1>2, ChosenFrom DEF Assigned
<1>4. /\ IsFiniteSet(Front(rt)) /\ Cardinality(Front(rt)) <= Budget
      /\ IsFiniteSet(Cover(rt)) /\ Cardinality(Cover(rt)) <= 1
  BY FrontBound, CoverIn
<1>5. /\ Cardinality(Front(rt)) \in Nat /\ Cardinality(Cover(rt)) \in Nat
      /\ Cardinality(Front(rt) \cap Cover(rt)) \in Nat /\ Budget \in Nat
  BY <1>4, FS_CardinalityType, FS_Intersection, LimitsAssumption
<1>6. /\ IsFiniteSet(Select(rt))
      /\ Cardinality(Select(rt)) = Cardinality(Front(rt)) + Cardinality(Cover(rt)) - Cardinality(Front(rt) \cap Cover(rt))
  BY <1>1, <1>4, FS_Union
<1> QED BY <1>3, <1>4, <1>5, <1>6

-----------------------------------------------------------------------------
(* What a step that leaves most of the state alone preserves.               *)

LEMMA TableSame ==
  ASSUME TableInv, UNCHANGED recency, hot' \subseteq hot, marked' \subseteq Cands
  PROVE  TableInv'
<1>1. Cands' = Cands
  BY DEF Cands
<1> QED BY <1>1 DEF TableInv

LEMMA RootSame ==
  ASSUME RootInv, SameAds(roots, roots'), UNCHANGED <<rtask, mgr, next_generation, scen>>,
         \A t \in old' : t.kind = "root" => t \in old
  PROVE  RootInv'
<1>1. /\ Advertised(roots') = Advertised(roots)
      /\ \A r, g : IsCurrent(roots', r, g) <=> IsCurrent(roots, r, g)
  BY AdsSame
<1>2. LiveRootIsOpen'
  BY DEF RootInv, LiveRootIsOpen, SameAds
<1>3. \A t \in old' : t.kind = "root" => ~IsCurrent(roots', t.root, t.gen)
  BY <1>1 DEF RootInv
<1>4. \A r \in RootPaths : rtask'[r] # NoTask => r \in Advertised(roots') /\ rtask'[r].gen = roots'[r].gen
  BY <1>1 DEF RootInv, SameAds
<1>5. /\ ~mgr.busy => mgr.todo = {}
      /\ mgr.todo \cap Advertised(roots) = {}
      /\ mgr.capable \subseteq Advertised(roots) \cup mgr.todo
      /\ next_generation + Cardinality(mgr.todo) <= scen.gens + 1
  BY DEF RootInv
<1> QED BY <1>1, <1>2, <1>3, <1>4, <1>5 DEF RootInv

LEMMA ThreadSame ==
  ASSUME ThreadInv, Held' = Held, UNCHANGED <<sup, retiring>>, Stragglers' <= retiring
  PROVE  ThreadInv'
  BY DEF ThreadInv

LEMMA StragglersSame ==
  ASSUME TypeInv, \A t \in old' : t.kind = "scope" => t \in old
  PROVE  Stragglers' \in Nat /\ Stragglers \in Nat /\ Stragglers' <= Stragglers
<1>1. PICK A, B : A = {t \in old : t.kind = "scope"} /\ B = {t \in old' : t.kind = "scope"}
  OBVIOUS
<1>2. B \in SUBSET A
  BY <1>1
<1>3. IsFiniteSet(A)
  BY <1>1, FS_Subset DEF TypeInv
<1>4. Stragglers = Cardinality(A) /\ Stragglers' = Cardinality(B)
  BY <1>1 DEF Stragglers
<1> QED BY <1>2, <1>3, <1>4, FS_Subset, FS_CardinalityType

LEMMA ThreadQuiet ==
  ASSUME TypeInv, ThreadInv, Held' = Held, UNCHANGED <<sup, retiring>>,
         \A t \in old' : t.kind = "scope" => t \in old
  PROVE  ThreadInv'
<1>1. Stragglers' <= retiring
  BY StragglersSame DEF ThreadInv, TypeInv
<1> QED BY <1>1, ThreadSame

LEMMA NoRowType == NoRow \in RowRecs /\ NoRow.kind = "none" /\ NoRow.gen = 0
  BY DEF NoRow, RowRecs

(* Rows only go, and a watch that starts to report has swept what it        *)
(* reports.                                                                 *)
Reporting(s) == s \in Held /\ stask[s].pc = "open" /\ ~BeingRetired(s)
LEMMA WatchStep ==
  ASSUME WatchInv,
         \A d \in Dirs : row'[d] = row[d] \/ row'[d] = NoRow,
         \A s \in Dirs : Reporting(s)' =>
            \/ /\ Reporting(s) /\ stask'[s].root = stask[s].root /\ stask'[s].gen = stask[s].gen
               /\ stask'[s].deep = stask[s].deep
            \/ \A d \in Dirs : Under(s, d) => row'[d] = NoRow,
         \A r \in RootPaths : rtask'[r].pc = "open" =>
            \/ rtask[r].pc = "open" /\ rtask'[r].gen = rtask[r].gen
            \/ \A d \in Dirs : Under(r, d) => row'[d] = NoRow,
         \A s, d \in Dirs : Owes(s, d) => Owes(s, d)' \/ row'[d] = NoRow,
         \A s \in Held' : stask'[s].pc \in {"sweeping", "open"} => stask'[s].ever = TRUE,
         sup'.pc = "retire" => sup'.swept \subseteq sup'.stale /\ sup'.stale \subseteq Held'
  PROVE  WatchInv'
<1>1. FreshUnderWatch'
  <2> SUFFICES ASSUME NEW d \in Dirs, row'[d].kind \in {"bare", "stale"}
               PROVE  ~ScopeReports(row[d].root, row[d].gen, d)' /\ ~RootReports(row[d].root, row[d].gen, d)'
    BY DEF FreshUnderWatch
  <2>1. PICK w : w = row[d]
    OBVIOUS
  <2>2. row'[d] = w /\ row'[d] # NoRow /\ w.root \in RootPaths
    BY <2>1, NoRowType DEF WatchInv
  <2>3. ~ScopeReports(w.root, w.gen, d) /\ ~RootReports(w.root, w.gen, d)
    BY <2>1, <2>2 DEF WatchInv, FreshUnderWatch
  <2>4. ~ScopeReports(w.root, w.gen, d)'
    <3> SUFFICES ASSUME NEW s \in Held', stask'[s].pc = "open", stask'[s].root = w.root, stask'[s].gen = w.gen,
                        ~BeingRetired(s)', Under(s, d), stask'[s].deep \/ s = d
                 PROVE  FALSE
      BY DEF ScopeReports
    <3>1. s \in Dirs /\ Reporting(s)'
      BY DEF Held, Reporting
    <3>2. /\ Reporting(s) /\ stask'[s].root = stask[s].root /\ stask'[s].gen = stask[s].gen
          /\ stask'[s].deep = stask[s].deep
      BY <3>1, <2>2
    <3> QED BY <3>2, <2>3 DEF ScopeReports, Reporting
  <2>5. ~RootReports(w.root, w.gen, d)'
    BY <2>2, <2>3 DEF RootReports
  <2>6. (row[d].root)' = w.root /\ (row[d].gen)' = w.gen
    BY <2>2
  <2> QED BY <2>4, <2>5, <2>6 DEF ScopeReports, RootReports
<1>2. ASSUME NEW d \in Dirs, row'[d].kind \in {"scope", "stale"} PROVE \E s \in Dirs : Owes(s, d)'
  <2>1. row'[d] = row[d] /\ row'[d] # NoRow
    BY <1>2, NoRowType
  <2>2. PICK s \in Dirs : Owes(s, d)
    BY <1>2, <2>1 DEF WatchInv
  <2> QED BY <2>1, <2>2
<1>3. \A d \in Dirs : row'[d].kind # "none" => row'[d].root \in RootPaths
  BY NoRowType DEF WatchInv
<1> QED BY <1>1, <1>2, <1>3 DEF WatchInv

LEMMA WatchRows ==
  ASSUME WatchInv, UNCHANGED <<stask, rtask, sup>>, \A d \in Dirs : row'[d] = row[d] \/ row'[d] = NoRow
  PROVE  WatchInv'
<1>1. Held' = Held /\ (\A s : BeingRetired(s)' <=> BeingRetired(s))
  BY DEF Held, BeingRetired
<1>2. \A s : Reporting(s)' <=> Reporting(s)
  BY <1>1 DEF Reporting
<1>3. \A s, d : Owes(s, d)' <=> Owes(s, d)
  BY <1>1 DEF Owes
<1>4. /\ \A s \in Held' : stask'[s].pc \in {"sweeping", "open"} => stask'[s].ever = TRUE
      /\ sup'.pc = "retire" => sup'.swept \subseteq sup'.stale /\ sup'.stale \subseteq Held'
  BY <1>1 DEF WatchInv
<1> QED BY <1>1, <1>2, <1>3, <1>4, WatchStep

LEMMA SweptOK ==
  ASSUME NEW rw \in [Dirs -> RowRecs], NEW p, NEW new, new = Swept(rw, p)
  PROVE  /\ new \in [Dirs -> RowRecs]
         /\ \A d \in Dirs : new[d] = rw[d] \/ new[d] = NoRow
         /\ \A d \in Dirs : Under(p, d) => new[d] = NoRow
  BY NoRowType DEF Swept

(* The rows after a step that sweeps, or does not.                          *)
RowsGo(new) == new \in [Dirs -> RowRecs] /\ \A d \in Dirs : new[d] = row[d] \/ new[d] = NoRow
LEMMA RowsGoIssued ==
  ASSUME TypeInv, GenInv, NEW new, RowsGo(new)
  PROVE  \A d \in Dirs : Issued(new[d].gen)
  BY NoRowType DEF RowsGo, GenInv, Issued, TypeInv

(* A generation is read off a record, so what is kept stays issued.         *)
LEMMA GenSame ==
  ASSUME TypeInv, GenInv, UNCHANGED next_generation,
         \A r \in RootPaths : roots'[r].gen = roots[r].gen /\ (roots'[r].st = "absent" <=> roots[r].st = "absent"),
         \A s \in Dirs : stask'[s] # NoTask => stask[s] # NoTask /\ stask'[s].gen = stask[s].gen,
         \A t \in old' : t \in old \/ \E u \in old : t.gen = u.gen,
         \A d \in Dirs : Issued(denied'[d].gen),
         RowsGo(row'),
         sup'.pc = "retire" => sup.pc = "retire" /\ sup'.chosen = sup.chosen
  PROVE  GenInv'
<1>1. \A d \in Dirs : Issued(row'[d].gen)
  BY RowsGoIssued
<1>2. \A g : Issued(g)' <=> Issued(g)
  BY DEF Issued
<1>3. \A r \in RootPaths : Issued(roots'[r].gen) /\ (roots'[r].st # "absent" => roots'[r].gen > 0)
  BY DEF GenInv
<1>4. \A s \in Dirs : stask'[s] # NoTask => Issued(stask'[s].gen) /\ stask'[s].gen > 0
  BY DEF GenInv
<1>5. \A t \in old' : Issued(t.gen) /\ t.gen > 0
  BY DEF GenInv
<1>6. sup'.pc = "retire" => \A c \in sup'.chosen : Issued(c.gen) /\ c.gen > 0
  BY DEF GenInv
<1> QED BY <1>1, <1>2, <1>3, <1>4, <1>5, <1>6 DEF GenInv, Issued

-----------------------------------------------------------------------------
(* The cache, and the passing of time.                                      *)

LEMMA ChangeStep ==
  ASSUME Inv, NEW d \in Dirs, Change(d)
  PROVE  Inv'
<1>1. UNCHANGED <<roots, rtask, stask, old, tables, denied, wake, sup, retiring, mgr, next_generation, scen>>
  BY DEF Change
<1>2. PICK w : w = row[d]
  OBVIOUS
<1>3. w \in RowRecs /\ row \in [Dirs -> RowRecs] /\ w.kind \in {"scope", "root"}
  BY <1>2 DEF Inv, TypeInv, Change
<1>4. PICK n : /\ n = (IF ScopeReports(w.root, w.gen, d) \/ RootReports(w.root, w.gen, d) THEN NoRow
                       ELSE [w EXCEPT !.kind = IF @ = "scope" THEN "stale" ELSE "bare"])
               /\ row' = [row EXCEPT ![d] = n]
  BY <1>2 DEF Change
<1>5. /\ n \in RowRecs
      /\ n = NoRow \/ (/\ n.root = w.root /\ n.gen = w.gen
                       /\ n.kind = IF w.kind = "scope" THEN "stale" ELSE "bare"
                       /\ ~ScopeReports(w.root, w.gen, d) /\ ~RootReports(w.root, w.gen, d))
  BY <1>3, <1>4, NoRowType DEF RowRecs
<1>6. row' \in [Dirs -> RowRecs] /\ row'[d] = n /\ \A e \in Dirs : e # d => row'[e] = row[e]
  BY <1>3, <1>4, <1>5
<1>7. TypeInv'
  BY <1>1, <1>6 DEF Inv, TypeInv
<1>8. GenInv'
  <2>1. \A e \in Dirs : Issued(row'[e].gen)
    BY <1>2, <1>5, <1>6, NoRowType DEF Inv, GenInv, TypeInv, Issued
  <2> QED BY <1>1, <2>1 DEF Inv, GenInv, Issued
<1>9. RootInv'
  BY <1>1, RootSame DEF Inv, SameAds
<1>10. TableInv'
  BY <1>1, TableSame DEF Inv, tables, TableInv
<1>11. WatchInv'
  <2>1. /\ Held' = Held /\ \A s : BeingRetired(s)' <=> BeingRetired(s)
        /\ \A r, g, e : ScopeReports(r, g, e)' <=> ScopeReports(r, g, e)
        /\ \A r, g, e : RootReports(r, g, e)' <=> RootReports(r, g, e)
        /\ \A s, e : Owes(s, e)' <=> Owes(s, e)
    BY <1>1 DEF Held, BeingRetired, ScopeReports, RootReports, Owes
  <2>2. FreshUnderWatch'
    <3> SUFFICES ASSUME NEW e \in Dirs, row'[e].kind \in {"bare", "stale"}
                 PROVE  ~ScopeReports(row'[e].root, row'[e].gen, e) /\ ~RootReports(row'[e].root, row'[e].gen, e)
      BY <2>1 DEF FreshUnderWatch
    <3>1. CASE e = d
      BY <3>1, <1>5, <1>6, NoRowType
    <3>2. CASE e # d
      BY <3>2, <1>6 DEF Inv, WatchInv, FreshUnderWatch
    <3> QED BY <3>1, <3>2
  <2>3. \A e \in Dirs : row'[e].kind # "none" => row'[e].root \in RootPaths
    BY <1>2, <1>3, <1>5, <1>6, NoRowType DEF Inv, WatchInv
  <2>4. \A e \in Dirs : row'[e].kind \in {"scope", "stale"} => \E s \in Dirs : Owes(s, e)
    BY <1>2, <1>3, <1>5, <1>6, NoRowType DEF Inv, WatchInv
  <2> QED BY <1>1, <2>1, <2>2, <2>3, <2>4 DEF Inv, WatchInv
<1>12. ThreadInv'
  <2>1. Held' = Held
    BY <1>1 DEF Held
  <2> QED BY <1>1, <2>1, ThreadQuiet DEF Inv
<1> QED BY <1>7, <1>8, <1>9, <1>10, <1>11, <1>12 DEF Inv

LEMMA FillOK ==
  ASSUME Inv, NEW d \in Dirs, Owner(roots, d) # NoRoot, NEW n, n = Fill(d)
  PROVE  /\ n \in RowRecs /\ Issued(n.gen) /\ n.root \in RootPaths
         /\ n.kind = "scope" => ScopeReports(n.root, n.gen, d)
         /\ n.kind = "bare" => ~ScopeReports(n.root, n.gen, d) /\ ~RootReports(n.root, n.gen, d)
         /\ n.kind \in {"scope", "root", "bare"}
<1>1. PICK r, g : r = Owner(roots, d) /\ g = roots[r].gen
  OBVIOUS
<1>2. r \in RootPaths
  BY <1>1, OwnerIn
<1>3. g \in Nat /\ Issued(g)
  BY <1>1, <1>2 DEF Inv, TypeInv, GenInv, RootRecs
<1>4. n = [kind |-> IF ScopeReports(r, g, d) THEN "scope" ELSE IF RootReports(r, g, d) THEN "root" ELSE "bare",
           root |-> r, gen |-> g]
  BY <1>1 DEF Fill
<1> QED BY <1>2, <1>3, <1>4 DEF RowRecs

LEMMA ReadStep ==
  ASSUME Inv, NEW d \in Dirs, Read(d)
  PROVE  Inv'
<1>1. UNCHANGED <<roots, rtask, stask, old, denied, sup, retiring, mgr, next_generation, scen>>
  BY DEF Read
<1>2. PICK n : n = Fill(d)
  OBVIOUS
<1>3. Owner(roots, d) # NoRoot
  BY DEF Read
<1>4. row \in [Dirs -> RowRecs]
  BY DEF Inv, TypeInv
<1>5. row' = row \/ row' = [row EXCEPT ![d] = n]
  BY <1>2 DEF Read
<1>6. /\ n \in RowRecs /\ Issued(n.gen) /\ n.root \in RootPaths
      /\ n.kind = "scope" => ScopeReports(n.root, n.gen, d)
      /\ n.kind = "bare" => ~ScopeReports(n.root, n.gen, d) /\ ~RootReports(n.root, n.gen, d)
      /\ n.kind \in {"scope", "root", "bare"}
  BY <1>2, <1>3, FillOK
<1>7. row' \in [Dirs -> RowRecs] /\ \A e \in Dirs : row'[e] = row[e] \/ (e = d /\ row'[e] = n)
  BY <1>4, <1>5, <1>6
<1>8. wake' \in BOOLEAN
  BY Zenon DEF Read, Inv, TypeInv
<1>9. TypeInv'
  BY <1>1, <1>7, <1>8 DEF Inv, TypeInv
<1>10. GenInv'
  <2>1. \A e \in Dirs : Issued(row'[e].gen)
    BY <1>6, <1>7 DEF Inv, GenInv
  <2> QED BY <1>1, <2>1 DEF Inv, GenInv, Issued
<1>11. RootInv'
  BY <1>1, RootSame DEF Inv, SameAds
<1>12. TableInv'
  BY TableRead DEF Inv
<1>13. WatchInv'
  <2>1. /\ Held' = Held /\ \A s : BeingRetired(s)' <=> BeingRetired(s)
        /\ \A r, g, e : ScopeReports(r, g, e)' <=> ScopeReports(r, g, e)
        /\ \A r, g, e : RootReports(r, g, e)' <=> RootReports(r, g, e)
        /\ \A s, e : Owes(s, e)' <=> Owes(s, e)
    BY <1>1 DEF Held, BeingRetired, ScopeReports, RootReports, Owes
  <2>2. FreshUnderWatch'
    <3> SUFFICES ASSUME NEW e \in Dirs, row'[e].kind \in {"bare", "stale"}
                 PROVE  ~ScopeReports(row'[e].root, row'[e].gen, e) /\ ~RootReports(row'[e].root, row'[e].gen, e)
      BY <2>1 DEF FreshUnderWatch
    <3>1. CASE e = d /\ row'[e] = n
      BY <3>1, <1>6
    <3>2. CASE row'[e] = row[e]
      BY <3>2 DEF Inv, WatchInv, FreshUnderWatch
    <3> QED BY <3>1, <3>2, <1>7
  <2>3. \A e \in Dirs : row'[e].kind # "none" => row'[e].root \in RootPaths
    BY <1>6, <1>7 DEF Inv, WatchInv
  <2>4. ASSUME NEW e \in Dirs, row'[e].kind \in {"scope", "stale"} PROVE \E s \in Dirs : Owes(s, e)
    <3>1. CASE row'[e] = row[e]
      BY <3>1, <2>4 DEF Inv, WatchInv
    <3>2. CASE e = d /\ row'[e] = n
      <4>1. ScopeReports(n.root, n.gen, d)
        BY <3>2, <2>4, <1>6
      <4>2. PICK s \in Held : stask[s].pc = "open" /\ Under(s, d) /\ ~BeingRetired(s)
        BY <4>1 DEF ScopeReports
      <4>3. s \in Dirs /\ stask[s].ever = TRUE
        BY <4>2 DEF Inv, WatchInv, Held
      <4> QED BY <3>2, <4>2, <4>3 DEF Owes
    <3> QED BY <3>1, <3>2, <1>7
  <2> QED BY <1>1, <2>1, <2>2, <2>3, <2>4 DEF Inv, WatchInv
<1>14. ThreadInv'
  <2>1. Held' = Held
    BY <1>1 DEF Held
  <2> QED BY <1>1, <2>1, ThreadQuiet DEF Inv
<1> QED BY <1>9, <1>10, <1>11, <1>12, <1>13, <1>14 DEF Inv

(* A step of a drain, or of the clock, moves no advertisement, starts and   *)
(* ends no task, and fills no row.                                          *)
LEMMA DrainStep ==
  ASSUME Inv,
         UNCHANGED <<rtask, recency, marked, sup, retiring, mgr, next_generation, scen>>, hot' \subseteq hot,
         roots' \in [RootPaths -> RootRecs], SameAds(roots, roots'),
         stask' \in [Dirs -> {NoTask} \cup ScopeTasks],
         \A s \in Dirs : /\ stask'[s] = NoTask <=> stask[s] = NoTask
                         /\ stask[s] # NoTask => stask'[s].gen = stask[s].gen,
         old' \subseteq OldRoots \cup OldScopes, IsFiniteSet(old'),
         \A t \in old' : t \in old \/ (t.kind = "scope" /\ \E u \in old : t.gen = u.gen),
         Stragglers' <= retiring,
         denied' \in [Dirs -> Memos], \A d \in Dirs : Issued(denied'[d].gen),
         wake' \in BOOLEAN, RowsGo(row'), WatchInv'
  PROVE  Inv'
<1>1. TypeInv'
  BY DEF Inv, TypeInv, RowsGo
<1>2. GenInv'
  <2>1. \A r \in RootPaths : roots'[r].gen = roots[r].gen /\ (roots'[r].st = "absent" <=> roots[r].st = "absent")
    BY DEF SameAds
  <2> QED BY <2>1, GenSame DEF Inv
<1>3. RootInv'
  <2>1. \A t \in old' : t.kind = "root" => t \in old
    OBVIOUS
  <2> QED BY <2>1, RootSame DEF Inv
<1>4. TableInv'
  BY TableSame DEF Inv, TableInv
<1>5. ThreadInv'
  <2>1. Held' = Held
    BY DEF Held
  <2> QED BY <2>1, ThreadSame DEF Inv
<1> QED BY <1>1, <1>2, <1>3, <1>4, <1>5 DEF Inv

(* What holds of a step that touches no drain.                              *)
LEMMA Still ==
  ASSUME Inv
  PROVE  /\ UNCHANGED roots => roots' \in [RootPaths -> RootRecs] /\ SameAds(roots, roots')
         /\ UNCHANGED stask => /\ stask' \in [Dirs -> {NoTask} \cup ScopeTasks]
                               /\ \A s \in Dirs : /\ stask'[s] = NoTask <=> stask[s] = NoTask
                                                  /\ stask[s] # NoTask => stask'[s].gen = stask[s].gen
         /\ UNCHANGED old => /\ old' \subseteq OldRoots \cup OldScopes /\ IsFiniteSet(old')
                             /\ Stragglers' <= retiring
                             /\ \A t \in old' : t \in old
         /\ UNCHANGED denied => denied' \in [Dirs -> Memos] /\ \A d \in Dirs : Issued(denied'[d].gen)
         /\ UNCHANGED wake => wake' \in BOOLEAN
         /\ UNCHANGED row => RowsGo(row')
<1>1. UNCHANGED roots => roots' \in [RootPaths -> RootRecs] /\ SameAds(roots, roots')
  BY DEF Inv, TypeInv, SameAds
<1>2. UNCHANGED stask => /\ stask' \in [Dirs -> {NoTask} \cup ScopeTasks]
                         /\ \A s \in Dirs : /\ stask'[s] = NoTask <=> stask[s] = NoTask
                                            /\ stask[s] # NoTask => stask'[s].gen = stask[s].gen
  BY DEF Inv, TypeInv
<1>3. UNCHANGED old => /\ old' \subseteq OldRoots \cup OldScopes /\ IsFiniteSet(old')
                       /\ Stragglers' <= retiring
                       /\ \A t \in old' : t \in old
  BY DEF Inv, TypeInv, ThreadInv, Stragglers
<1>4. UNCHANGED denied => denied' \in [Dirs -> Memos] /\ \A d \in Dirs : Issued(denied'[d].gen)
  BY DEF Inv, TypeInv, GenInv
<1>5. UNCHANGED wake => wake' \in BOOLEAN
  BY DEF Inv, TypeInv
<1>6. UNCHANGED row => RowsGo(row')
  BY DEF Inv, TypeInv, RowsGo
<1> QED BY <1>1, <1>2, <1>3, <1>4, <1>5, <1>6

LEMMA TimeStep ==
  ASSUME Inv, \/ \E d \in Dirs : Cool(d) \/ Expire(d)
              \/ \E r \in RootPaths : Unpause(r)
  PROVE  Inv'
<1>1. UNCHANGED <<rtask, stask, old, recency, marked, wake, sup, retiring, mgr, next_generation, scen, row>>
  BY DEF Cool, Expire, Unpause, tables
<1>2. WatchInv'
  BY <1>1, WatchRows DEF Inv
<1>3. ASSUME NEW d \in Dirs, Cool(d) PROVE Inv'
  <2>1. UNCHANGED <<roots, denied>> /\ hot' \subseteq hot
    BY <1>3 DEF Cool
  <2> QED BY <1>1, <1>2, <2>1, Still, DrainStep
<1>4. ASSUME NEW d \in Dirs, Expire(d) PROVE Inv'
  <2>1. UNCHANGED <<roots, hot>> /\ denied' = [denied EXCEPT ![d] = NoMemo]
    BY <1>4 DEF Expire, tables
  <2>2. NoMemo \in Memos /\ NoMemo.gen = 0
    BY DEF NoMemo, Memos
  <2>3. denied' \in [Dirs -> Memos] /\ \A e \in Dirs : Issued(denied'[e].gen)
    BY <2>1, <2>2 DEF Inv, TypeInv, GenInv, Issued
  <2> QED BY <1>1, <1>2, <2>1, <2>3, Still, DrainStep
<1>5. ASSUME NEW r \in RootPaths, Unpause(r) PROVE Inv'
  <2>1. UNCHANGED <<denied, hot>> /\ roots' = [roots EXCEPT ![r].paused = "due"]
    BY <1>5 DEF Unpause, tables
  <2>2. PICK e : e = [roots[r] EXCEPT !.paused = "due"]
    OBVIOUS
  <2>3. roots \in [RootPaths -> RootRecs]
    BY DEF Inv, TypeInv
  <2>4. e \in RootRecs /\ e.st = roots[r].st /\ e.gen = roots[r].gen /\ roots' = [roots EXCEPT ![r] = e]
    BY <2>1, <2>2, <2>3 DEF RootRecs
  <2>5. roots' \in [RootPaths -> RootRecs] /\ SameAds(roots, roots')
    BY <2>3, <2>4 DEF SameAds
  <2> QED BY <1>1, <1>2, <2>1, <2>5, Still, DrainStep
<1> QED BY <1>3, <1>4, <1>5

-----------------------------------------------------------------------------
(* The drains of directories.                                               *)

(* One task is replaced, in place.                                          *)
LEMMA TaskSet ==
  ASSUME Inv, NEW s \in Held, NEW n \in ScopeTasks, n.gen = stask[s].gen, stask' = [stask EXCEPT ![s] = n]
  PROVE  /\ stask' \in [Dirs -> {NoTask} \cup ScopeTasks]
         /\ \A x \in Dirs : /\ stask'[x] = NoTask <=> stask[x] = NoTask
                            /\ stask[x] # NoTask => stask'[x].gen = stask[x].gen
         /\ Held' = Held /\ stask'[s] = n /\ \A x \in Dirs : x # s => stask'[x] = stask[x]
<1>1. s \in Dirs /\ stask[s] # NoTask /\ n # NoTask
  BY TasksApart DEF Held
<1>2. stask \in [Dirs -> {NoTask} \cup ScopeTasks]
  BY DEF Inv, TypeInv
<1>3. /\ stask' \in [Dirs -> {NoTask} \cup ScopeTasks]
      /\ stask'[s] = n /\ \A x \in Dirs : x # s => stask'[x] = stask[x]
  BY <1>1, <1>2
<1>4. \A x \in Dirs : /\ stask'[x] = NoTask <=> stask[x] = NoTask
                      /\ stask[x] # NoTask => stask'[x].gen = stask[x].gen
  BY <1>1, <1>3
<1>5. Held' = Held
  BY <1>4 DEF Held
<1> QED BY <1>3, <1>4, <1>5

(* The watch that moves goes on owing what it owed, and when it starts to   *)
(* report, or is done, its sweep is made.                                   *)
LEMMA TaskWatch ==
  ASSUME Inv, NEW s \in Held, NEW n \in ScopeTasks, n.gen = stask[s].gen, stask' = [stask EXCEPT ![s] = n],
         UNCHANGED <<rtask, sup>>, RowsGo(row'),
         stask[s].ever = TRUE => n.ever = TRUE,
         n.pc \in {"sweeping", "open"} => n.ever = TRUE,
         n.pc \in {"open", "dead"} /\ n.ever = TRUE => \A d \in Dirs : Under(s, d) => row'[d] = NoRow
  PROVE  WatchInv'
<1>1. Held' = Held /\ stask'[s] = n /\ \A x \in Dirs : x # s => stask'[x] = stask[x]
  BY TaskSet
<1>2. \A x : BeingRetired(x)' <=> BeingRetired(x)
  BY DEF BeingRetired
<1>3. ASSUME NEW x \in Dirs, Reporting(x)'
      PROVE  \/ /\ Reporting(x) /\ stask'[x].root = stask[x].root /\ stask'[x].gen = stask[x].gen
                /\ stask'[x].deep = stask[x].deep
             \/ \A d \in Dirs : Under(x, d) => row'[d] = NoRow
  <2>1. CASE x = s
    BY <1>1, <1>3, <2>1 DEF Reporting
  <2>2. CASE x # s
    BY <1>1, <1>2, <1>3, <2>2 DEF Reporting
  <2> QED BY <2>1, <2>2
<1>4. ASSUME NEW x \in Dirs, NEW d \in Dirs, Owes(x, d) PROVE Owes(x, d)' \/ row'[d] = NoRow
  <2>1. CASE x = s
    <3>1. Under(s, d) /\ n.ever = TRUE
      BY <1>4, <2>1 DEF Owes
    <3>2. CASE n.pc = "dead"
      BY <3>1, <3>2
    <3>3. CASE n.pc # "dead"
      BY <1>1, <1>2, <1>4, <2>1, <3>1, <3>3 DEF Owes
    <3> QED BY <3>2, <3>3
  <2>2. CASE x # s
    BY <1>1, <1>2, <1>4, <2>2 DEF Owes
  <2> QED BY <2>1, <2>2
<1>5. \A x \in Held' : stask'[x].pc \in {"sweeping", "open"} => stask'[x].ever = TRUE
  BY <1>1 DEF Inv, WatchInv, Held
<1>6. sup'.pc = "retire" => sup'.swept \subseteq sup'.stale /\ sup'.stale \subseteq Held'
  BY <1>1 DEF Inv, WatchInv
<1>7. WatchInv /\ (\A d \in Dirs : row'[d] = row[d] \/ row'[d] = NoRow)
  BY DEF Inv, RowsGo
<1> QED BY <1>3, <1>4, <1>5, <1>6, <1>7, WatchStep

LEMMA HeldTask ==
  ASSUME Inv, NEW s \in Held
  PROVE  s \in Dirs /\ stask[s] \in ScopeTasks /\ Issued(stask[s].gen)
  BY DEF Inv, TypeInv, GenInv, Held

LEMMA AgeStep ==
  ASSUME Inv, NEW s \in Dirs, Age(s)
  PROVE  Inv'
<1>1. s \in Held /\ UNCHANGED <<roots, rtask, old, tables, denied, wake, sup, retiring, mgr, next_generation, scen, row>>
  BY DEF Age
<1>2. PICK t : t = stask[s]
  OBVIOUS
<1>3. t \in ScopeTasks
  BY <1>1, <1>2, HeldTask
<1>4. PICK n : n = [t EXCEPT !.stopped = "long"]
  OBVIOUS
<1>5. n \in ScopeTasks /\ n.gen = t.gen /\ n.ever = t.ever /\ n.pc = t.pc /\ n.root = t.root /\ n.deep = t.deep
  BY <1>3, <1>4 DEF ScopeTasks
<1>6. stask' = [stask EXCEPT ![s] = n]
  BY <1>2, <1>4 DEF Age
<1>7. /\ stask' \in [Dirs -> {NoTask} \cup ScopeTasks]
      /\ \A x \in Dirs : /\ stask'[x] = NoTask <=> stask[x] = NoTask
                         /\ stask[x] # NoTask => stask'[x].gen = stask[x].gen
      /\ Held' = Held /\ stask'[s] = n /\ \A x \in Dirs : x # s => stask'[x] = stask[x]
  BY <1>1, <1>2, <1>5, <1>6, TaskSet
<1>8. WatchInv'
  <2>1. \A x : BeingRetired(x)' <=> BeingRetired(x)
    BY <1>1 DEF BeingRetired
  <2>2. \A x \in Dirs : Reporting(x)' => /\ Reporting(x) /\ stask'[x].root = stask[x].root
                                         /\ stask'[x].gen = stask[x].gen /\ stask'[x].deep = stask[x].deep
    BY <1>2, <1>5, <1>7, <2>1 DEF Reporting
  <2>3. ASSUME NEW x \in Dirs, NEW d \in Dirs, Owes(x, d) PROVE Owes(x, d)'
    <3>1. stask'[x].ever = stask[x].ever /\ stask'[x].pc = stask[x].pc
      BY <1>2, <1>5, <1>7
    <3> QED BY <1>1, <1>7, <2>1, <2>3, <3>1 DEF Owes
  <2>4. \A x \in Held' : stask'[x].pc \in {"sweeping", "open"} => stask'[x].ever = TRUE
    BY <1>2, <1>5, <1>7 DEF Inv, WatchInv, Held
  <2>5. WatchInv /\ (sup'.pc = "retire" => sup'.swept \subseteq sup'.stale /\ sup'.stale \subseteq Held')
    BY <1>1, <1>7 DEF Inv, WatchInv
  <2> QED BY <1>1, <2>2, <2>3, <2>4, <2>5, WatchStep
<1>9. UNCHANGED <<recency, hot, marked>>
  BY <1>1 DEF tables
<1> QED BY <1>1, <1>7, <1>8, <1>9, Still, DrainStep

LEMMA TopScopeStep ==
  ASSUME Inv, NEW s \in Dirs, TopScope(s)
  PROVE  Inv'
<1>1. s \in Held /\ UNCHANGED <<roots, rtask, old, tables, denied, wake, sup, retiring, mgr, next_generation, scen, row>>
  BY DEF TopScope
<1>2. PICK t, m : t = stask[s] /\ m = StartsDeep(s)
  OBVIOUS
<1>3. t \in ScopeTasks /\ m \in BOOLEAN
  BY <1>1, <1>2, HeldTask DEF StartsDeep
<1>4. PICK n : n = [t EXCEPT !.pc = "opening", !.mode = m]
  OBVIOUS
<1>5. n \in ScopeTasks /\ n.gen = t.gen /\ n.ever = t.ever /\ n.pc = "opening"
  BY <1>3, <1>4 DEF ScopeTasks
<1>6. stask' = [stask EXCEPT ![s] = n]
  <2>1. stask' = [stask EXCEPT ![s].pc = "opening", ![s].mode = m]
    BY <1>2 DEF TopScope
  <2>2. stask \in [Dirs -> {NoTask} \cup ScopeTasks]
    BY DEF Inv, TypeInv
  <2> QED BY <1>2, <1>4, <2>1, <2>2
<1>7. /\ stask' \in [Dirs -> {NoTask} \cup ScopeTasks]
      /\ \A x \in Dirs : /\ stask'[x] = NoTask <=> stask[x] = NoTask
                         /\ stask[x] # NoTask => stask'[x].gen = stask[x].gen
  BY <1>1, <1>2, <1>5, <1>6, TaskSet
<1>8. RowsGo(row')
  BY <1>1, Still
<1>9. WatchInv'
  BY <1>1, <1>2, <1>5, <1>6, <1>8, TaskWatch
<1>10. UNCHANGED <<recency, hot, marked>>
  BY <1>1 DEF tables
<1> QED BY <1>1, <1>7, <1>8, <1>9, <1>10, Still, DrainStep

LEMMA OpenScopeStep ==
  ASSUME Inv, NEW s \in Dirs, NEW answer \in {"granted", "refused", "terminal", "retry"}, OpenScope(s, answer)
  PROVE  Inv'
<1>1. s \in Held /\ UNCHANGED <<rtask, old, tables, sup, retiring, mgr, next_generation, scen, row>>
  BY DEF OpenScope
<1>2. PICK t, owns : t = stask[s] /\ owns = Owns(roots, t.root, t.gen, s)
  OBVIOUS
<1>3. t \in ScopeTasks /\ Issued(t.gen) /\ owns \in BOOLEAN
  BY <1>1, <1>2, HeldTask DEF Owns
<1>4. ScopeNotes(s, t, answer)
  BY <1>2 DEF OpenScope
<1>5. /\ roots' \in [RootPaths -> RootRecs] /\ SameAds(roots, roots')
      /\ denied' \in [Dirs -> Memos] /\ (\A d \in Dirs : Issued(denied'[d].gen)) /\ wake' \in BOOLEAN
  BY <1>3, <1>4, ScopeNotesOK DEF Inv
<1>6. PICK n : /\ stask' = [stask EXCEPT ![s] = n]
               /\ n = CASE answer = "granted" -> [t EXCEPT !.pc = "sweeping", !.ever = TRUE, !.deep = t.mode, !.live = TRUE]
                        [] Exits(t, answer) -> [t EXCEPT !.pc = "bury"]
                        [] Refuses(t, answer) -> [t EXCEPT !.pc = "top", !.deep = t.deep /\ ~owns]
                        [] answer = "retry" -> [t EXCEPT !.pc = "top", !.charged = t.charged \/ ~t.ever]
  BY <1>2 DEF OpenScope
<1>7. t.mode \in BOOLEAN /\ t.deep \in BOOLEAN /\ t.charged \in BOOLEAN /\ t.ever \in BOOLEAN
  BY <1>3 DEF ScopeTasks
<1>8. n \in ScopeTasks /\ n.gen = t.gen /\ (t.ever = TRUE => n.ever = TRUE) /\ n.pc \in {"sweeping", "bury", "top"}
      /\ (n.pc = "sweeping" => n.ever = TRUE)
  <2>1. CASE answer = "granted"
    <3>1. n = [t EXCEPT !.pc = "sweeping", !.ever = TRUE, !.deep = t.mode, !.live = TRUE]
      BY <2>1, <1>6 DEF Exits, Refuses
    <3> QED BY <3>1, <1>3, <1>7 DEF ScopeTasks
  <2>2. CASE answer = "terminal" \/ (answer = "refused" /\ ~t.mode)
    <3>1. n = [t EXCEPT !.pc = "bury"]
      BY <2>2, <1>6 DEF Exits, Refuses
    <3> QED BY <3>1, <1>3 DEF ScopeTasks
  <2>3. CASE answer = "refused" /\ t.mode
    <3>1. PICK b : b = (t.deep /\ ~owns)
      OBVIOUS
    <3>2. b \in BOOLEAN
      BY <3>1, <1>3, <1>7
    <3>3. n = [t EXCEPT !.pc = "top", !.deep = b]
      BY <2>3, <3>1, <1>6 DEF Exits, Refuses
    <3> QED BY <3>2, <3>3, <1>3 DEF ScopeTasks
  <2>4. CASE answer = "retry"
    <3>1. PICK b : b = (t.charged \/ ~t.ever)
      OBVIOUS
    <3>2. b \in BOOLEAN
      BY <3>1, <1>7
    <3>3. n = [t EXCEPT !.pc = "top", !.charged = b]
      BY <2>4, <3>1, <1>6 DEF Exits, Refuses
    <3> QED BY <3>2, <3>3, <1>3 DEF ScopeTasks
  <2> QED BY <2>1, <2>2, <2>3, <2>4
<1>9. /\ stask' \in [Dirs -> {NoTask} \cup ScopeTasks]
      /\ \A x \in Dirs : /\ stask'[x] = NoTask <=> stask[x] = NoTask
                         /\ stask[x] # NoTask => stask'[x].gen = stask[x].gen
  BY <1>1, <1>2, <1>6, <1>8, TaskSet
<1>10. RowsGo(row')
  BY <1>1, Still
<1>11. WatchInv'
  BY <1>1, <1>2, <1>6, <1>8, <1>10, TaskWatch
<1>12. UNCHANGED <<recency, hot, marked>>
  BY <1>1 DEF tables
<1> QED BY <1>1, <1>5, <1>9, <1>10, <1>11, <1>12, Still, DrainStep

LEMMA SweepScopeStep ==
  ASSUME Inv, NEW s \in Dirs, SweepScope(s)
  PROVE  Inv'
<1>1. s \in Held /\ UNCHANGED <<roots, rtask, old, tables, denied, sup, retiring, mgr, next_generation, scen>>
  BY DEF SweepScope
<1>2. PICK t : t = stask[s]
  OBVIOUS
<1>3. t \in ScopeTasks /\ t.pc \in {"sweeping", "bury"}
  BY <1>1, <1>2, HeldTask DEF SweepScope
<1>4. PICK n : n = [t EXCEPT !.pc = IF t.pc = "bury" THEN "dead" ELSE "open"]
  OBVIOUS
<1>5. n \in ScopeTasks /\ n.gen = t.gen /\ n.ever = t.ever /\ (n.pc = "open" => t.pc = "sweeping") /\ n.pc \in {"open", "dead"}
  BY <1>3, <1>4 DEF ScopeTasks
<1>6. stask' = [stask EXCEPT ![s] = n]
  <2>1. stask \in [Dirs -> {NoTask} \cup ScopeTasks]
    BY DEF Inv, TypeInv
  <2> QED BY <1>2, <1>4, <2>1 DEF SweepScope
<1>7. /\ stask' \in [Dirs -> {NoTask} \cup ScopeTasks]
      /\ \A x \in Dirs : /\ stask'[x] = NoTask <=> stask[x] = NoTask
                         /\ stask[x] # NoTask => stask'[x].gen = stask[x].gen
  BY <1>1, <1>2, <1>5, <1>6, TaskSet
<1>8. row' = IF t.ever THEN Swept(row, s) ELSE row
  BY <1>2 DEF SweepScope
<1>9. RowsGo(row') /\ (t.ever = TRUE => \A d \in Dirs : Under(s, d) => row'[d] = NoRow)
  BY <1>8, SweptOK DEF Inv, TypeInv, RowsGo
<1>10. n.pc = "open" => n.ever = TRUE
  BY <1>1, <1>2, <1>5 DEF Inv, WatchInv
<1>11. WatchInv'
  BY <1>1, <1>2, <1>5, <1>6, <1>9, <1>10, TaskWatch
<1>12. UNCHANGED <<recency, hot, marked>>
  BY <1>1 DEF tables
<1>13. wake' \in BOOLEAN
  BY Zenon DEF SweepScope, Inv, TypeInv
<1> QED BY <1>1, <1>7, <1>9, <1>11, <1>12, <1>13, Still, DrainStep

LEMMA EndScopeStep ==
  ASSUME Inv, NEW s \in Dirs, NEW how, NEW error, EndScope(s, how, error)
  PROVE  Inv'
<1>1. s \in Held /\ UNCHANGED <<rtask, old, tables, sup, retiring, mgr, next_generation, scen>>
  BY DEF EndScope
<1>2. PICK t : t = stask[s]
  OBVIOUS
<1>3. t \in ScopeTasks /\ Issued(t.gen)
  BY <1>1, <1>2, HeldTask
<1>4. ScopeNotes(s, t, how)
  BY <1>2 DEF EndScope
<1>5. /\ roots' \in [RootPaths -> RootRecs] /\ SameAds(roots, roots')
      /\ denied' \in [Dirs -> Memos] /\ (\A d \in Dirs : Issued(denied'[d].gen)) /\ wake' \in BOOLEAN
  BY <1>3, <1>4, ScopeNotesOK DEF Inv
<1>6. PICK x : x = IF how = "worked" THEN "recent" ELSE t.stopped
  OBVIOUS
<1>7. x \in {"never", "recent", "long"}
  BY <1>3, <1>6 DEF ScopeTasks
<1>8. PICK n : n = [t EXCEPT !.pc = "top", !.live = FALSE, !.stopped = x]
  OBVIOUS
<1>9. n \in ScopeTasks /\ n.gen = t.gen /\ n.ever = t.ever /\ n.pc = "top"
  BY <1>3, <1>7, <1>8 DEF ScopeTasks
<1>10. stask' = [stask EXCEPT ![s] = n]
  BY <1>2, <1>3, <1>6, <1>8 DEF EndScope, ScopeTasks
<1>11. /\ stask' \in [Dirs -> {NoTask} \cup ScopeTasks]
       /\ \A y \in Dirs : /\ stask'[y] = NoTask <=> stask[y] = NoTask
                          /\ stask[y] # NoTask => stask'[y].gen = stask[y].gen
  BY <1>1, <1>2, <1>9, <1>10, TaskSet
<1>12. RowsGo(row')
  <2>1. row' = row \/ row' = Swept(row, s)
    BY DEF EndScope, GapSwept
  <2> QED BY <2>1, SweptOK DEF Inv, TypeInv, RowsGo
<1>13. WatchInv'
  BY <1>1, <1>2, <1>9, <1>10, <1>12, TaskWatch
<1>14. UNCHANGED <<recency, hot, marked>>
  BY <1>1 DEF tables
<1> QED BY <1>1, <1>5, <1>11, <1>12, <1>13, <1>14, Still, DrainStep

-----------------------------------------------------------------------------
(* The cancelled drains.                                                    *)

(* One of them ends, or goes on to its sweep.                               *)
LEMMA OldReplaced ==
  ASSUME Inv, NEW t \in old, t.kind = "scope", NEW X,
         X = {} \/ \E u \in OldScopes : u.gen = t.gen /\ X = {u},
         old' = (old \ {t}) \cup X
  PROVE  /\ old' \subseteq OldRoots \cup OldScopes /\ IsFiniteSet(old')
         /\ \A x \in old' : x \in old \/ (x.kind = "scope" /\ \E u \in old : x.gen = u.gen)
         /\ Stragglers' <= retiring
<1>1. old \subseteq OldRoots \cup OldScopes /\ IsFiniteSet(old)
  BY DEF Inv, TypeInv
<1>2. X \subseteq OldScopes /\ IsFiniteSet(X) /\ Cardinality(X) \in Nat /\ Cardinality(X) <= 1
  <2>1. CASE X = {}
    BY <2>1, FS_EmptySet
  <2>2. ASSUME NEW u \in OldScopes, X = {u} PROVE X \subseteq OldScopes /\ IsFiniteSet(X) /\ Cardinality(X) = 1
    BY <2>2, FS_Singleton
  <2> QED BY <2>1, <2>2
<1>3. IsFiniteSet(old \ {t})
  BY <1>1, FS_RemoveElement
<1>4. old' \subseteq OldRoots \cup OldScopes /\ IsFiniteSet(old')
  BY <1>1, <1>2, <1>3, FS_Union
<1>5. \A x \in old' : x \in old \/ (x.kind = "scope" /\ \E u \in old : x.gen = u.gen)
  BY <1>2 DEF OldScopes
<1>6. PICK A : A = {x \in old : x.kind = "scope"}
  OBVIOUS
<1>7. IsFiniteSet(A) /\ t \in A /\ Stragglers = Cardinality(A) /\ Cardinality(A) \in Nat
  BY <1>1, <1>6, FS_Subset, FS_CardinalityType DEF Stragglers
<1>8. IsFiniteSet(A \ {t}) /\ Cardinality(A \ {t}) = Cardinality(A) - 1
  BY <1>7, FS_RemoveElement
<1>9. Stragglers' = Cardinality((A \ {t}) \cup X)
  <2>1. {x \in old' : x.kind = "scope"} = (A \ {t}) \cup X
    BY <1>2, <1>6 DEF OldScopes
  <2> QED BY <2>1 DEF Stragglers
<1>10. Cardinality((A \ {t}) \cup X) = Cardinality(A \ {t}) + Cardinality(X) - Cardinality((A \ {t}) \cap X)
  BY <1>2, <1>8, FS_Union
<1>11. Cardinality((A \ {t}) \cap X) \in Nat
  BY <1>2, <1>8, FS_Intersection, FS_CardinalityType
<1>12. Stragglers <= retiring /\ retiring \in Nat
  BY DEF Inv, ThreadInv, TypeInv
<1>13. Stragglers' <= retiring
  BY <1>2, <1>7, <1>8, <1>9, <1>10, <1>11, <1>12
<1> QED BY <1>4, <1>5, <1>13

LEMMA OldScopeStep ==
  ASSUME Inv, NEW t \in old, OldScope(t)
  PROVE  Inv'
<1>1. t.kind = "scope" /\ UNCHANGED <<rtask, stask, tables, sup, retiring, mgr, next_generation, scen>>
  BY DEF OldScope
<1>2. t \in OldScopes /\ Issued(t.gen)
  BY <1>1 DEF Inv, TypeInv, GenInv, OldRoots
<1>3. UNCHANGED <<recency, hot, marked>>
  BY <1>1 DEF tables
<1>4. CASE Sweeping(t)
  <2>1. /\ row' = IF t.ever THEN Swept(row, t.scope) ELSE row
        /\ wake' = (wake \/ t.answer = "bury") /\ old' = old \ {t} /\ UNCHANGED <<roots, denied>>
    BY <1>4 DEF OldScope
  <2>2. RowsGo(row')
    BY <2>1, SweptOK DEF Inv, TypeInv, RowsGo
  <2>3. WatchInv'
    BY <1>1, <2>2, WatchRows DEF Inv, RowsGo
  <2>4. old' = (old \ {t}) \cup {}
    BY <2>1
  <2>5. /\ old' \subseteq OldRoots \cup OldScopes /\ IsFiniteSet(old')
        /\ \A x \in old' : x \in old \/ (x.kind = "scope" /\ \E u \in old : x.gen = u.gen)
        /\ Stragglers' <= retiring
    BY <1>1, <2>4, OldReplaced
  <2>6. wake' \in BOOLEAN
    BY <2>1, Zenon DEF Inv, TypeInv
  <2> QED BY <1>1, <1>3, <2>1, <2>2, <2>3, <2>5, <2>6, Still, DrainStep
<1>5. CASE ~Sweeping(t)
  <2>1. ScopeNotes(t.scope, t, t.answer) /\ UNCHANGED row
    BY <1>5 DEF OldScope
  <2>2. /\ roots' \in [RootPaths -> RootRecs] /\ SameAds(roots, roots')
        /\ denied' \in [Dirs -> Memos] /\ (\A d \in Dirs : Issued(denied'[d].gen)) /\ wake' \in BOOLEAN
    <3>1. t.scope \in Dirs
      BY <1>2 DEF OldScopes
    <3> QED BY <3>1, <2>1, <1>2, ScopeNotesOK DEF Inv
  <2>3. PICK X : /\ old' = (old \ {t}) \cup X
                 /\ X = IF t.answer = "granted" THEN {[t EXCEPT !.answer = "sweeping", !.ever = TRUE]}
                        ELSE IF Exits(t, t.answer) THEN {[t EXCEPT !.answer = "bury"]} ELSE {}
    BY <1>5 DEF OldScope
  <2>4. X = {} \/ \E u \in OldScopes : u.gen = t.gen /\ X = {u}
    <3>1. PICK u, v : u = [t EXCEPT !.answer = "sweeping", !.ever = TRUE] /\ v = [t EXCEPT !.answer = "bury"]
      OBVIOUS
    <3>2. u \in OldScopes /\ u.gen = t.gen /\ v \in OldScopes /\ v.gen = t.gen
      BY <1>2, <3>1 DEF OldScopes
    <3>3. X = {} \/ X = {u} \/ X = {v}
      BY <2>3, <3>1
    <3> QED BY <3>2, <3>3
  <2>5. /\ old' \subseteq OldRoots \cup OldScopes /\ IsFiniteSet(old')
        /\ \A x \in old' : x \in old \/ (x.kind = "scope" /\ \E u \in old : x.gen = u.gen)
        /\ Stragglers' <= retiring
    BY <1>1, <2>3, <2>4, OldReplaced
  <2>6. RowsGo(row')
    BY <2>1, Still
  <2>7. WatchInv'
    BY <1>1, <2>6, WatchRows DEF Inv, RowsGo
  <2> QED BY <1>1, <1>3, <2>1, <2>2, <2>5, <2>6, <2>7, Still, DrainStep
<1> QED BY <1>4, <1>5

(* The write of a cancelled drain of a root finds its advertisement gone.   *)
LEMMA OldRootStep ==
  ASSUME Inv, NEW t \in old, OldRoot(t)
  PROVE  Inv'
<1>1. t.kind = "root" /\ UNCHANGED <<rtask, stask, tables, denied, sup, retiring, mgr, next_generation, scen, row>>
  BY DEF OldRoot
<1>2. ~IsCurrent(roots, t.root, t.gen)
  BY <1>1 DEF Inv, RootInv
<1>3. UNCHANGED roots
  BY <1>2 DEF OldRoot, Answered
<1>4. old' = old \ {t}
  BY DEF OldRoot
<1>5. old' \subseteq OldRoots \cup OldScopes /\ IsFiniteSet(old')
  BY <1>4, FS_RemoveElement DEF Inv, TypeInv
<1>6. Stragglers' <= retiring
  <2>1. \A x \in old' : x.kind = "scope" => x \in old
    BY <1>4
  <2> QED BY <2>1, StragglersSame DEF Inv, ThreadInv, TypeInv
<1>7. wake' \in BOOLEAN
  BY Zenon DEF OldRoot, Inv, TypeInv
<1>8. RowsGo(row')
  BY <1>1, Still
<1>9. WatchInv'
  BY <1>1, <1>8, WatchRows DEF Inv, RowsGo
<1>10. UNCHANGED <<recency, hot, marked>>
  BY <1>1 DEF tables
<1> QED BY <1>1, <1>3, <1>4, <1>5, <1>6, <1>7, <1>8, <1>9, <1>10, Still, DrainStep

-----------------------------------------------------------------------------
(* The drains of roots.                                                     *)

(* A root's watch answers: its record and its task move together.           *)
LEMMA RootDrainStep ==
  ASSUME Inv, NEW r \in RootPaths, rtask[r] # NoTask, NEW n \in RootTasks, n.gen = rtask[r].gen,
         rtask' = [rtask EXCEPT ![r] = n],
         roots' \in [RootPaths -> RootRecs],
         \A q \in RootPaths : roots'[q].gen = roots[q].gen /\ (roots'[q].st = "absent" <=> roots[q].st = "absent"),
         \A q \in RootPaths : q # r => roots'[q] = roots[q],
         roots'[r].st = "live" => n.pc \in {"sweeping", "open"},
         UNCHANGED <<stask, old, tables, denied, sup, retiring, mgr, next_generation, scen>>,
         wake' \in BOOLEAN, RowsGo(row'),
         n.pc = "open" => \A d \in Dirs : Under(r, d) => row'[d] = NoRow
  PROVE  Inv'
<1>1. UNCHANGED <<recency, hot, marked>>
  BY DEF tables
<1>2. rtask \in [RootPaths -> {NoTask} \cup RootTasks]
  BY DEF Inv, TypeInv
<1>3. /\ rtask' \in [RootPaths -> {NoTask} \cup RootTasks]
      /\ rtask'[r] = n /\ \A q \in RootPaths : q # r => rtask'[q] = rtask[q]
  BY <1>2
<1>4. TypeInv'
  BY <1>3 DEF Inv, TypeInv, RowsGo
<1>5. GenInv'
  <2>1. \A d \in Dirs : Issued(denied'[d].gen)
    BY DEF Inv, GenInv
  <2> QED BY <2>1, GenSame DEF Inv
<1>6. /\ Advertised(roots') = Advertised(roots)
      /\ \A q, g : IsCurrent(roots', q, g) <=> IsCurrent(roots, q, g)
  <2>1. Advertised(roots') = Advertised(roots)
    BY DEF Advertised
  <2> QED BY <2>1 DEF IsCurrent, Advertised
<1>7. RootInv'
  <2>1. \A q \in RootPaths : rtask'[q] # NoTask => q \in Advertised(roots') /\ rtask'[q].gen = roots'[q].gen
    BY <1>3, <1>6 DEF Inv, RootInv
  <2>2. LiveRootIsOpen'
    BY <1>3 DEF Inv, RootInv, LiveRootIsOpen
  <2>3. /\ \A t \in old' : t.kind = "root" => ~IsCurrent(roots', t.root, t.gen)
        /\ ~mgr'.busy => mgr'.todo = {}
        /\ mgr'.todo \cap Advertised(roots') = {}
        /\ mgr'.capable \subseteq Advertised(roots') \cup mgr'.todo
        /\ next_generation' + Cardinality(mgr'.todo) <= scen'.gens + 1
    BY <1>6 DEF Inv, RootInv
  <2> QED BY <2>1, <2>2, <2>3 DEF RootInv
<1>8. TableInv'
  BY <1>1, TableSame DEF Inv, TableInv
<1>9. WatchInv'
  <2>1. Held' = Held /\ \A s : BeingRetired(s)' <=> BeingRetired(s)
    BY DEF Held, BeingRetired
  <2>2. (\A s : Reporting(s)' <=> Reporting(s)) /\ (\A s, d : Owes(s, d)' <=> Owes(s, d))
    BY <2>1 DEF Reporting, Owes
  <2>3. \A q \in RootPaths : rtask'[q].pc = "open" =>
          \/ rtask[q].pc = "open" /\ rtask'[q].gen = rtask[q].gen
          \/ \A d \in Dirs : Under(q, d) => row'[d] = NoRow
    BY <1>3
  <2>4. /\ WatchInv /\ (\A d \in Dirs : row'[d] = row[d] \/ row'[d] = NoRow)
        /\ \A s \in Held' : stask'[s].pc \in {"sweeping", "open"} => stask'[s].ever = TRUE
        /\ sup'.pc = "retire" => sup'.swept \subseteq sup'.stale /\ sup'.stale \subseteq Held'
    BY <2>1 DEF Inv, WatchInv, RowsGo
  <2> QED BY <2>2, <2>3, <2>4, WatchStep
<1>10. ThreadInv'
  <2>1. Held' = Held
    BY DEF Held
  <2> QED BY <2>1, ThreadQuiet DEF Inv
<1> QED BY <1>4, <1>5, <1>7, <1>8, <1>9, <1>10 DEF Inv

(* The drain of a root serves the advertisement that is current.            *)
LEMMA RootTask ==
  ASSUME Inv, NEW r \in RootPaths, rtask[r].pc # "none"
  PROVE  /\ rtask[r] \in RootTasks /\ rtask[r] # NoTask
         /\ IsCurrent(roots, r, rtask[r].gen) /\ roots[r].st # "absent"
         /\ roots[r].st = "live" => rtask[r].pc \in {"sweeping", "open"}
<1>1. rtask[r] # NoTask
  BY TasksApart
<1>2. rtask[r] \in RootTasks
  BY <1>1 DEF Inv, TypeInv
<1>3. r \in Advertised(roots) /\ rtask[r].gen = roots[r].gen
  BY <1>1 DEF Inv, RootInv
<1> QED BY <1>1, <1>2, <1>3 DEF IsCurrent, Advertised, Inv, RootInv, LiveRootIsOpen

LEMMA OpenRootStep ==
  ASSUME Inv, NEW r \in RootPaths, NEW answer \in {"granted", "refused", "unsupported", "terminal"},
         OpenRoot(r, answer)
  PROVE  Inv'
<1>1. UNCHANGED <<stask, old, tables, denied, sup, retiring, mgr, next_generation, scen, row>>
  BY DEF OpenRoot
<1>2. PICK t : t = rtask[r]
  OBVIOUS
<1>3. /\ t \in RootTasks /\ t # NoTask /\ t.pc = "opening" /\ t.gen \in Nat
      /\ IsCurrent(roots, r, t.gen) /\ roots[r].st # "absent" /\ roots[r].st # "live"
  BY <1>2, RootTask DEF OpenRoot, RootTasks
<1>4. PICK p : p = CASE answer = "granted" -> "sweeping" [] answer = "refused" -> "opening" [] OTHER -> "dead"
  OBVIOUS
<1>5. p \in {"sweeping", "opening", "dead"} /\ (answer = "granted" => p = "sweeping")
  BY <1>4
<1>6. PICK n : n = [t EXCEPT !.pc = p]
  OBVIOUS
<1>7. n \in RootTasks /\ n.gen = t.gen /\ n.pc = p
  BY <1>3, <1>5, <1>6 DEF RootTasks
<1>8. rtask' = [rtask EXCEPT ![r] = n]
  <2>1. rtask \in [RootPaths -> {NoTask} \cup RootTasks]
    BY DEF Inv, TypeInv
  <2> QED BY <1>2, <1>4, <1>6, <2>1 DEF OpenRoot
<1>9. roots \in [RootPaths -> RootRecs]
  BY DEF Inv, TypeInv
<1>10. /\ roots' \in [RootPaths -> RootRecs]
       /\ \A q \in RootPaths : roots'[q].gen = roots[q].gen
       /\ \A q \in RootPaths : q # r => roots'[q] = roots[q]
       /\ roots'[r].st # "absent" /\ (roots'[r].st = "live" => p = "sweeping")
  <2>1. CASE answer = "terminal"
    BY <2>1, <1>3, <1>9 DEF OpenRoot
  <2>2. CASE answer # "terminal"
    <3>1. PICK st : st = RootState(answer)
      OBVIOUS
    <3>2. st \in {"live", "refused", "unwatchable"} /\ st \in States /\ (st = "live" => answer = "granted")
      BY <2>2, <3>1 DEF RootState, States
    <3>3. roots' = Answered(roots, r, t.gen, st)
      BY <2>2, <3>1, <1>2 DEF OpenRoot
    <3>4. /\ roots' \in [RootPaths -> RootRecs]
          /\ \A q \in RootPaths : roots'[q].gen = roots[q].gen
          /\ \A q \in RootPaths : q # r => roots'[q] = roots[q]
          /\ roots'[r].st \in {roots[r].st, st}
      BY <1>3, <1>9, <3>2, <3>3, AnsweredOK
    <3> QED BY <3>2, <3>4, <1>3, <1>5
  <2> QED BY <2>1, <2>2
<1>11. \A q \in RootPaths : roots'[q].gen = roots[q].gen /\ (roots'[q].st = "absent" <=> roots[q].st = "absent")
  BY <1>3, <1>10
<1>12. wake' \in BOOLEAN
  BY Zenon DEF OpenRoot, Inv, TypeInv
<1>13. RowsGo(row')
  BY <1>1, Still
<1>14. roots'[r].st = "live" => n.pc \in {"sweeping", "open"}
  BY <1>7, <1>10
<1>15. n.pc # "open"
  BY <1>5, <1>7
<1> QED BY <1>1, <1>2, <1>3, <1>7, <1>8, <1>10, <1>11, <1>12, <1>13, <1>14, <1>15, RootDrainStep

LEMMA SweepRootStep ==
  ASSUME Inv, NEW r \in RootPaths, SweepRoot(r)
  PROVE  Inv'
<1>1. UNCHANGED <<roots, stask, old, tables, denied, wake, sup, retiring, mgr, next_generation, scen>>
  BY DEF SweepRoot
<1>2. PICK t : t = rtask[r]
  OBVIOUS
<1>3. t \in RootTasks /\ t # NoTask
  BY <1>2, RootTask DEF SweepRoot
<1>4. PICK n : n = [t EXCEPT !.pc = "open"]
  OBVIOUS
<1>5. n \in RootTasks /\ n.gen = t.gen /\ n.pc = "open"
  BY <1>3, <1>4 DEF RootTasks
<1>6. rtask' = [rtask EXCEPT ![r] = n]
  BY <1>2, <1>4 DEF SweepRoot
<1>7. RowsGo(row') /\ \A d \in Dirs : Under(r, d) => row'[d] = NoRow
  BY SweptOK DEF SweepRoot, Inv, TypeInv, RowsGo
<1>8. /\ roots' \in [RootPaths -> RootRecs]
      /\ \A q \in RootPaths : roots'[q].gen = roots[q].gen /\ (roots'[q].st = "absent" <=> roots[q].st = "absent")
      /\ \A q \in RootPaths : q # r => roots'[q] = roots[q]
      /\ wake' \in BOOLEAN
  BY <1>1 DEF Inv, TypeInv
<1> QED BY <1>1, <1>2, <1>3, <1>5, <1>6, <1>7, <1>8, RootDrainStep

LEMMA EndRootStep ==
  ASSUME Inv, NEW r \in RootPaths, NEW error, EndRoot(r, error)
  PROVE  Inv'
<1>1. UNCHANGED <<stask, old, tables, denied, sup, retiring, mgr, next_generation, scen>>
  BY DEF EndRoot
<1>2. PICK t : t = rtask[r]
  OBVIOUS
<1>3. t \in RootTasks /\ t # NoTask /\ t.gen \in Nat /\ IsCurrent(roots, r, t.gen) /\ roots[r].st # "absent"
  BY <1>2, RootTask DEF EndRoot, RootTasks
<1>4. PICK n : n = [t EXCEPT !.pc = "opening"]
  OBVIOUS
<1>5. n \in RootTasks /\ n.gen = t.gen /\ n.pc = "opening"
  BY <1>3, <1>4 DEF RootTasks
<1>6. rtask' = [rtask EXCEPT ![r] = n]
  BY <1>2, <1>4 DEF EndRoot
<1>7. RowsGo(row')
  <2>1. row' = row \/ row' = Swept(row, r)
    BY DEF EndRoot, GapSwept
  <2> QED BY <2>1, SweptOK DEF Inv, TypeInv, RowsGo
<1>8. roots \in [RootPaths -> RootRecs] /\ "pending" \in States /\ roots' = Answered(roots, r, t.gen, "pending")
  BY <1>2 DEF Inv, TypeInv, States, EndRoot
<1>9. /\ roots' \in [RootPaths -> RootRecs]
      /\ \A q \in RootPaths : roots'[q].gen = roots[q].gen
      /\ \A q \in RootPaths : q # r => roots'[q] = roots[q]
      /\ roots'[r].st \in {roots[r].st, "pending"}
      /\ roots'[r].st # "live"
  BY <1>3, <1>8, AnsweredOK
<1>10. \A q \in RootPaths : roots'[q].gen = roots[q].gen /\ (roots'[q].st = "absent" <=> roots[q].st = "absent")
  BY <1>3, <1>9
<1>11. wake' \in BOOLEAN
  BY Zenon DEF EndRoot, Inv, TypeInv
<1> QED BY <1>1, <1>2, <1>3, <1>5, <1>6, <1>7, <1>9, <1>10, <1>11, RootDrainStep

-----------------------------------------------------------------------------
(* The manager.                                                             *)

(* What the cancelled drains of roots leave: writes for the advertisement   *)
(* they served.                                                             *)
LEMMA RootsLeft ==
  ASSUME Inv, NEW stale \in SUBSET RootPaths, \A r \in stale : rtask[r] # NoTask,
         NEW left \in MayLeave(UNION {RootLeft(r) : r \in stale})
  PROVE  /\ IsFiniteSet(left) /\ left \subseteq OldRoots
         /\ \A x \in left : x.root \in stale /\ x.gen = roots[x.root].gen /\ Issued(x.gen) /\ x.gen > 0
<1>1. PICK all : all = UNION {RootLeft(r) : r \in stale}
  OBVIOUS
<1>2. ASSUME NEW x \in all
      PROVE  x \in OldRoots /\ ~Sweeping(x) /\ x.root \in stale /\ x.gen = roots[x.root].gen /\ Issued(x.gen) /\ x.gen > 0
  <2>1. PICK r \in stale : x \in RootLeft(r)
    BY <1>1
  <2>2. /\ rtask[r] \in RootTasks /\ rtask[r].gen = roots[r].gen /\ r \in Advertised(roots)
    BY DEF Inv, TypeInv, RootInv
  <2>3. Issued(roots[r].gen) /\ roots[r].gen > 0
    BY <2>2 DEF Inv, GenInv, Advertised
  <2>4. PICK t : t = rtask[r]
    OBVIOUS
  <2>5. PICK A : A = CASE t.pc = "opening" -> scen.root_answers \ {"terminal"}
                       [] t.pc = "open" -> {"ended"} [] OTHER -> {}
    OBVIOUS
  <2>6. A \subseteq {"granted", "refused", "unsupported", "ended"}
    <3>1. scen.root_answers \subseteq {"granted", "refused", "unsupported", "terminal"}
      BY AnswersAssumption DEF Inv, TypeInv
    <3>2. CASE t.pc = "opening"
      BY <2>5, <3>1, <3>2
    <3>3. CASE t.pc = "open"
      BY <2>5, <3>3
    <3>4. CASE t.pc # "opening" /\ t.pc # "open"
      BY <2>5, <3>4
    <3> QED BY <3>2, <3>3, <3>4
  <2>7. PICK a \in A : x = [kind |-> "root", root |-> r, gen |-> t.gen, answer |-> a]
    BY <2>1, <2>4, <2>5 DEF RootLeft
  <2>8. x \in OldRoots /\ x.root = r /\ x.gen = t.gen /\ x.answer = a
    BY <2>2, <2>4, <2>6, <2>7 DEF OldRoots, RootTasks
  <2> QED BY <2>2, <2>3, <2>4, <2>6, <2>8 DEF Sweeping
<1>3. left = {} \/ \E x \in all : left = {x}
  <2>1. ~ \E x \in all : Sweeping(x)
    BY <1>2
  <2>2. left \in MayLeave(all)
    BY <1>1
  <2>3. left \in {{}} \cup {{x} : x \in {y \in all : Cardinality({t \in old : ~Sweeping(t)}) < scen.old}}
    BY <2>1, <2>2 DEF MayLeave
  <2> QED BY <2>3
<1>4. CASE left = {}
  BY <1>4, FS_EmptySet
<1>5. ASSUME NEW x \in all, left = {x}
      PROVE  /\ IsFiniteSet(left) /\ left \subseteq OldRoots
             /\ \A y \in left : y.root \in stale /\ y.gen = roots[y.root].gen /\ Issued(y.gen) /\ y.gen > 0
  <2>1. IsFiniteSet({x})
    BY FS_Singleton
  <2> QED BY <1>2, <1>5, <2>1
<1> QED BY <1>3, <1>4, <1>5

LEMMA DiscoverStep ==
  ASSUME Inv, NEW advertised \in SUBSET RootPaths, NEW capable \in SUBSET advertised, NEW rebound,
         Discover(advertised, capable, rebound)
  PROVE  Inv'
<1> DEFINE stale == {r \in RootPaths : rtask[r] # NoTask /\ (r \notin capable \/ r \in rebound)}
           gone == (stale \cup (RootPaths \ advertised)) \cap Advertised(roots)
           kept == Advertised(roots) \ gone
<1>1. stale = {r \in RootPaths : rtask[r] # NoTask /\ (r \notin capable \/ r \in rebound)}
  OBVIOUS
<1>2. gone = (stale \cup (RootPaths \ advertised)) \cap Advertised(roots)
  OBVIOUS
<1>3. kept = Advertised(roots) \ gone
  OBVIOUS
<1>4. /\ next_generation + Cardinality(advertised \ kept) <= scen.gens + 1
      /\ row' = [d \in Dirs |-> IF \E r \in stale : Under(r, d) THEN NoRow ELSE row[d]]
      /\ roots' = Withdrawn(roots, gone)
      /\ rtask' = [r \in RootPaths |-> IF r \in stale THEN NoTask ELSE rtask[r]]
      /\ \E left \in MayLeave(UNION {RootLeft(r) : r \in stale}) : old' = old \cup left
      /\ wake' = (wake \/ gone # {})
      /\ mgr' = [busy |-> TRUE, todo |-> advertised \ kept, capable |-> capable]
      /\ UNCHANGED <<stask, tables, denied, sup, retiring, next_generation, scen>>
  BY Zenon DEF Discover
<1> HIDE DEF stale, gone, kept
<1>5. stale \in SUBSET RootPaths /\ (\A r \in stale : rtask[r] # NoTask)
  BY <1>1
<1>6. stale \subseteq gone
  BY <1>1, <1>2 DEF Inv, RootInv
<1>7. PICK left : /\ left \in MayLeave(UNION {RootLeft(r) : r \in stale}) /\ old' = old \cup left
  BY <1>4
<1>8. /\ IsFiniteSet(left) /\ left \subseteq OldRoots
      /\ \A x \in left : x.root \in stale /\ x.gen = roots[x.root].gen /\ Issued(x.gen) /\ x.gen > 0
  BY <1>5, <1>7, RootsLeft
<1>9. /\ roots \in [RootPaths -> RootRecs] /\ rtask \in [RootPaths -> {NoTask} \cup RootTasks]
      /\ row \in [Dirs -> RowRecs] /\ old \subseteq OldRoots \cup OldScopes /\ IsFiniteSet(old)
  BY DEF Inv, TypeInv
<1>10. Absent \in RootRecs /\ Absent.st = "absent" /\ Absent.gen = 0
  BY Zeros DEF Absent, RootRecs, States
<1>11. /\ roots' \in [RootPaths -> RootRecs]
       /\ \A r \in RootPaths : roots'[r] = IF r \in gone THEN Absent ELSE roots[r]
  BY <1>4, <1>9, <1>10 DEF Withdrawn
<1>12. Advertised(roots') = kept
  BY <1>3, <1>10, <1>11 DEF Advertised
<1>13. /\ rtask' \in [RootPaths -> {NoTask} \cup RootTasks]
       /\ \A r \in RootPaths : rtask'[r] = IF r \in stale THEN NoTask ELSE rtask[r]
  BY <1>4, <1>9
<1>14. RowsGo(row')
  BY <1>4, <1>9, NoRowType DEF RowsGo
<1>15. mgr'.busy = TRUE /\ mgr'.todo = advertised \ kept /\ mgr'.capable = capable /\ mgr' \in Managers
  BY <1>4 DEF Managers
<1>16. TypeInv'
  <2>1. old' \subseteq OldRoots \cup OldScopes /\ IsFiniteSet(old')
    BY <1>7, <1>8, <1>9, FS_Union
  <2>2. wake' \in BOOLEAN
    BY <1>4, Zenon DEF Inv, TypeInv
  <2> QED BY <1>4, <1>11, <1>13, <1>14, <1>15, <2>1, <2>2 DEF Inv, TypeInv, RowsGo
<1>17. GenInv'
  <2>1. \A d \in Dirs : Issued(row'[d].gen)
    BY <1>14, RowsGoIssued DEF Inv
  <2>2. \A r \in RootPaths : Issued(roots'[r].gen) /\ (roots'[r].st # "absent" => roots'[r].gen > 0)
    BY <1>10, <1>11 DEF Inv, GenInv, TypeInv, Issued
  <2>3. \A t \in old' : Issued(t.gen) /\ t.gen > 0
    BY <1>7, <1>8 DEF Inv, GenInv
  <2> QED BY <1>4, <2>1, <2>2, <2>3 DEF Inv, GenInv, Issued
<1>18. RootInv'
  <2>1. ASSUME NEW r \in RootPaths, rtask'[r] # NoTask
        PROVE  r \in Advertised(roots') /\ rtask'[r].gen = roots'[r].gen
    <3>1. r \notin stale /\ rtask'[r] = rtask[r] /\ rtask[r] # NoTask
      BY <1>13, <2>1
    <3>2. r \in Advertised(roots) /\ rtask[r].gen = roots[r].gen
      BY <3>1 DEF Inv, RootInv
    <3>3. r \in capable
      BY <1>1, <3>1
    <3>4. r \notin gone
      BY <1>2, <3>1, <3>3
    <3> QED BY <1>3, <1>11, <1>12, <3>1, <3>2, <3>4
  <2>2. ASSUME NEW r \in RootPaths, roots'[r].st = "live"
        PROVE  rtask'[r].pc \in {"sweeping", "open"} /\ rtask'[r].gen = roots'[r].gen
    <3>1. r \notin gone /\ roots'[r] = roots[r]
      BY <1>10, <1>11, <2>2
    <3>2. rtask'[r] = rtask[r]
      BY <1>6, <1>13, <3>1
    <3> QED BY <2>2, <3>1, <3>2 DEF Inv, RootInv, LiveRootIsOpen
  <2>3. ASSUME NEW t \in old', t.kind = "root" PROVE ~IsCurrent(roots', t.root, t.gen)
    <3>1. CASE t \in left
      BY <1>3, <1>6, <1>8, <1>12, <3>1 DEF IsCurrent
    <3>2. CASE t \in old
      <4>1. ~IsCurrent(roots, t.root, t.gen)
        BY <2>3, <3>2 DEF Inv, RootInv
      <4> QED BY <4>1, <1>3, <1>11, <1>12 DEF IsCurrent, Advertised
    <3> QED BY <1>7, <3>1, <3>2
  <2>4. capable \subseteq kept \cup (advertised \ kept)
    OBVIOUS
  <2>5. next_generation' + Cardinality(mgr'.todo) <= scen'.gens + 1
    BY <1>4, <1>15
  <2>6. LiveRootIsOpen'
    BY <2>2 DEF LiveRootIsOpen
  <2> QED BY <1>12, <1>15, <2>1, <2>3, <2>4, <2>5, <2>6 DEF RootInv
<1>19. TableInv'
  BY <1>4, TableSame DEF Inv, tables, TableInv
<1>20. WatchInv'
  <2>1. Held' = Held /\ \A s : BeingRetired(s)' <=> BeingRetired(s)
    BY <1>4 DEF Held, BeingRetired
  <2>2. (\A s : Reporting(s)' <=> Reporting(s)) /\ (\A s, d : Owes(s, d)' <=> Owes(s, d))
    BY <1>4, <2>1 DEF Reporting, Owes
  <2>3. \A q \in RootPaths : rtask'[q].pc = "open" => rtask[q].pc = "open" /\ rtask'[q].gen = rtask[q].gen
    BY <1>13, TasksApart
  <2>4. /\ WatchInv /\ (\A d \in Dirs : row'[d] = row[d] \/ row'[d] = NoRow)
        /\ \A s \in Held' : stask'[s].pc \in {"sweeping", "open"} => stask'[s].ever = TRUE
        /\ sup'.pc = "retire" => sup'.swept \subseteq sup'.stale /\ sup'.stale \subseteq Held'
    BY <1>4, <1>14, <2>1 DEF Inv, WatchInv, RowsGo
  <2> QED BY <1>4, <2>2, <2>3, <2>4, WatchStep
<1>21. ThreadInv'
  <2>1. Held' = Held /\ \A t \in old' : t.kind = "scope" => t \in old
    BY <1>4, <1>7, <1>8 DEF Held, OldRoots
  <2> QED BY <1>4, <2>1, ThreadQuiet DEF Inv
<1> QED BY <1>16, <1>17, <1>18, <1>19, <1>20, <1>21 DEF Inv

(* A new advertisement has a generation nobody remembers.                   *)
LEMMA AdvertiseStep ==
  ASSUME Inv, NEW r \in RootPaths, Advertise(r)
  PROVE  Inv'
<1>1. /\ r \in mgr.todo
      /\ mgr' = [mgr EXCEPT !.todo = @ \ {r}]
      /\ next_generation' = next_generation + 1 /\ wake' = TRUE
      /\ UNCHANGED <<rtask, stask, old, tables, denied, sup, retiring, row, scen>>
  BY DEF Advertise
<1>2. /\ roots \in [RootPaths -> RootRecs] /\ mgr \in Managers /\ next_generation \in Nat \ {0}
      /\ mgr.todo \subseteq RootPaths
  BY DEF Inv, TypeInv, Managers
<1>3. PICK e : e = [Absent EXCEPT !.st = "pending", !.gen = next_generation]
  OBVIOUS
<1>4. e \in RootRecs /\ e.st = "pending" /\ e.gen = next_generation
  BY <1>2, <1>3, Zeros DEF Absent, RootRecs, States
<1>5. /\ roots' \in [RootPaths -> RootRecs] /\ roots'[r] = e /\ \A q \in RootPaths : q # r => roots'[q] = roots[q]
  BY <1>2, <1>3, <1>4 DEF Advertise
<1>6. r \notin Advertised(roots) /\ rtask[r] = NoTask
  BY <1>1 DEF Inv, RootInv
<1>7. Advertised(roots') = Advertised(roots) \cup {r}
  BY <1>4, <1>5 DEF Advertised
<1>8. mgr' \in Managers /\ mgr'.todo = mgr.todo \ {r} /\ mgr'.capable = mgr.capable /\ mgr'.busy = mgr.busy
  BY <1>1, <1>2 DEF Managers
<1>9. TypeInv'
  BY <1>1, <1>2, <1>5, <1>8 DEF Inv, TypeInv
<1>10. \A g \in Nat : Issued(g) => Issued(g)'
  BY <1>1, <1>2 DEF Issued
<1>11. GenInv'
  <2>1. ASSUME NEW q \in RootPaths PROVE Issued(roots[q].gen)' /\ (roots'[q].st # "absent" => roots'[q].gen > 0)
    <3>1. CASE q = r
      BY <3>1, <1>1, <1>2, <1>4, <1>5 DEF Issued
    <3>2. CASE q # r
      BY <3>2, <1>1, <1>2, <1>5 DEF Inv, GenInv, Issued, RootRecs
    <3> QED BY <3>1, <3>2
  <2>2. ASSUME NEW s \in Dirs, stask'[s] # NoTask PROVE Issued(stask[s].gen)' /\ stask'[s].gen > 0
    <3>1. stask[s] \in ScopeTasks /\ Issued(stask[s].gen) /\ stask[s].gen > 0
      BY <1>1, <2>2 DEF Inv, TypeInv, GenInv
    <3> QED BY <1>1, <1>2, <3>1 DEF Issued, ScopeTasks
  <2>3. ASSUME NEW t \in old' PROVE Issued(t.gen)' /\ t.gen > 0
    <3>1. t \in OldRoots \cup OldScopes /\ Issued(t.gen) /\ t.gen > 0
      BY <1>1 DEF Inv, TypeInv, GenInv
    <3>2. t.gen \in Nat
      BY <3>1 DEF OldRoots, OldScopes
    <3> QED BY <1>10, <3>1, <3>2
  <2>4. ASSUME NEW d \in Dirs PROVE Issued(denied[d].gen)' /\ Issued(row[d].gen)'
    <3>1. /\ denied[d] \in Memos /\ Issued(denied[d].gen) /\ row[d] \in RowRecs /\ Issued(row[d].gen)
      BY DEF Inv, TypeInv, GenInv
    <3> QED BY <1>1, <1>2, <3>1 DEF Issued, Memos, RowRecs
  <2>5. ASSUME sup'.pc = "retire", NEW c \in sup'.chosen PROVE Issued(c.gen)' /\ c.gen > 0
    <3>1. sup \in Retires
      BY <1>1, <2>5 DEF Inv, TypeInv, Waits
    <3>2. c \in Choices /\ Issued(c.gen) /\ c.gen > 0
      BY <1>1, <2>5, <3>1 DEF Inv, GenInv, Retires
    <3>3. c.gen \in Nat
      BY <3>2 DEF Choices
    <3> QED BY <1>10, <3>2, <3>3
  <2> QED BY <2>1, <2>2, <2>3, <2>4, <2>5 DEF GenInv
<1>12. RootInv'
  <2>1. \A q \in RootPaths : rtask'[q] # NoTask => q \in Advertised(roots') /\ rtask'[q].gen = roots'[q].gen
    BY <1>1, <1>5, <1>6, <1>7 DEF Inv, RootInv
  <2>2. LiveRootIsOpen'
    BY <1>1, <1>4, <1>5 DEF Inv, RootInv, LiveRootIsOpen
  <2>3. ASSUME NEW t \in old', t.kind = "root" PROVE ~IsCurrent(roots', t.root, t.gen)
    <3>1. ~IsCurrent(roots, t.root, t.gen) /\ t.gen < next_generation /\ t \in OldRoots
      BY <1>1, <2>3 DEF Inv, RootInv, GenInv, Issued, TypeInv, OldScopes
    <3>2. t.gen \in Nat /\ t.root \in RootPaths
      BY <3>1 DEF OldRoots
    <3>3. CASE t.root = r
      BY <1>2, <1>4, <1>5, <3>1, <3>2, <3>3 DEF IsCurrent
    <3>4. CASE t.root # r
      BY <1>5, <1>7, <3>1, <3>2, <3>4 DEF IsCurrent
    <3> QED BY <3>3, <3>4
  <2>4. /\ mgr'.todo \cap Advertised(roots') = {}
        /\ mgr'.capable \subseteq Advertised(roots') \cup mgr'.todo
        /\ ~mgr'.busy => mgr'.todo = {}
    BY <1>1, <1>7, <1>8 DEF Inv, RootInv
  <2>5. next_generation' + Cardinality(mgr'.todo) <= scen'.gens + 1
    <3>1. IsFiniteSet(mgr.todo)
      BY <1>2, PathsAssumption, FS_Subset
    <3>2. Cardinality(mgr.todo \ {r}) = Cardinality(mgr.todo) - 1 /\ Cardinality(mgr.todo) \in Nat
      BY <1>1, <3>1, FS_RemoveElement, FS_CardinalityType
    <3>3. next_generation + Cardinality(mgr.todo) <= scen.gens + 1 /\ scen.gens \in Nat
      BY LimitsAssumption DEF Inv, RootInv, TypeInv
    <3> QED BY <1>1, <1>2, <1>8, <3>2, <3>3
  <2> QED BY <2>1, <2>2, <2>3, <2>4, <2>5 DEF RootInv
<1>13. TableInv'
  BY <1>1, TableSame DEF Inv, tables, TableInv
<1>14. WatchInv'
  BY <1>1, WatchRows DEF Inv
<1>15. ThreadInv'
  <2>1. Held' = Held
    BY <1>1 DEF Held
  <2> QED BY <1>1, <2>1, ThreadQuiet DEF Inv
<1> QED BY <1>9, <1>11, <1>12, <1>13, <1>14, <1>15 DEF Inv

LEMMA SpawnRootsStep ==
  ASSUME Inv, SpawnRoots
  PROVE  Inv'
<1>1. /\ mgr.busy /\ mgr.todo = {}
      /\ mgr' = [busy |-> FALSE, todo |-> {}, capable |-> {}]
      /\ UNCHANGED <<roots, stask, old, tables, denied, wake, sup, retiring, next_generation, scen, row>>
  BY DEF SpawnRoots
<1>2. /\ roots \in [RootPaths -> RootRecs] /\ rtask \in [RootPaths -> {NoTask} \cup RootTasks]
  BY DEF Inv, TypeInv
<1>3. ASSUME NEW r \in RootPaths
      PROVE  /\ rtask'[r] \in {NoTask} \cup RootTasks
             /\ \/ rtask'[r] = rtask[r]
                \/ /\ rtask[r] = NoTask /\ rtask'[r].gen = roots[r].gen /\ rtask'[r].pc = "opening"
                   /\ r \in Advertised(roots) /\ rtask'[r] # NoTask
  <2>1. CASE r \in mgr.capable /\ rtask[r] = NoTask
    <3>1. rtask'[r] = [gen |-> roots[r].gen, pc |-> "opening"]
      BY <2>1 DEF SpawnRoots
    <3>2. rtask'[r] \in RootTasks /\ rtask'[r].gen = roots[r].gen /\ rtask'[r].pc = "opening"
      BY <1>2, <3>1 DEF RootTasks, RootRecs
    <3>3. r \in Advertised(roots)
      BY <1>1, <2>1 DEF Inv, RootInv
    <3> QED BY <2>1, <3>2, <3>3, TasksApart
  <2>2. CASE ~(r \in mgr.capable /\ rtask[r] = NoTask)
    BY <1>2, <2>2 DEF SpawnRoots
  <2> QED BY <2>1, <2>2
<1>4. rtask' \in [RootPaths -> {NoTask} \cup RootTasks]
  <2>1. DOMAIN rtask' = RootPaths /\ rtask' = [r \in RootPaths |-> rtask'[r]]
    BY DEF SpawnRoots
  <2> QED BY <1>3, <2>1
<1>5. mgr' \in Managers /\ mgr'.busy = FALSE /\ mgr'.todo = {} /\ mgr'.capable = {}
  BY <1>1 DEF Managers
<1>6. TypeInv'
  BY <1>1, <1>4, <1>5 DEF Inv, TypeInv
<1>7. GenInv'
  BY <1>1 DEF Inv, GenInv, Issued
<1>8. RootInv'
  <2>1. \A r \in RootPaths : rtask'[r] # NoTask => r \in Advertised(roots) /\ rtask'[r].gen = roots[r].gen
    BY <1>3 DEF Inv, RootInv
  <2>2. LiveRootIsOpen'
    BY <1>1, <1>3, TasksApart DEF Inv, RootInv, LiveRootIsOpen
  <2>3. /\ \A t \in old' : t.kind = "root" => ~IsCurrent(roots', t.root, t.gen)
        /\ next_generation' + Cardinality(mgr'.todo) <= scen'.gens + 1
    BY <1>1, <1>5 DEF Inv, RootInv
  <2> QED BY <1>1, <1>5, <2>1, <2>2, <2>3 DEF RootInv
<1>9. TableInv'
  BY <1>1, TableSame DEF Inv, tables, TableInv
<1>10. WatchInv'
  <2>1. Held' = Held /\ \A s : BeingRetired(s)' <=> BeingRetired(s)
    BY <1>1 DEF Held, BeingRetired
  <2>2. (\A s : Reporting(s)' <=> Reporting(s)) /\ (\A s, d : Owes(s, d)' <=> Owes(s, d))
    BY <1>1, <2>1 DEF Reporting, Owes
  <2>3. \A q \in RootPaths : rtask'[q].pc = "open" => rtask[q].pc = "open" /\ rtask'[q].gen = rtask[q].gen
    BY <1>3
  <2>4. /\ WatchInv
        /\ \A s \in Held' : stask'[s].pc \in {"sweeping", "open"} => stask'[s].ever = TRUE
        /\ sup'.pc = "retire" => sup'.swept \subseteq sup'.stale /\ sup'.stale \subseteq Held'
    BY <1>1, <2>1 DEF Inv, WatchInv
  <2> QED BY <1>1, <2>2, <2>3, <2>4, WatchStep
<1>11. ThreadInv'
  <2>1. Held' = Held
    BY <1>1 DEF Held
  <2> QED BY <1>1, <2>1, ThreadQuiet DEF Inv
<1> QED BY <1>6, <1>7, <1>8, <1>9, <1>10, <1>11 DEF Inv

-----------------------------------------------------------------------------
(* The supervisor.                                                          *)

(* What a cancelled drain of a directory leaves: one write at most.         *)
LEMMA ScopesLeft ==
  ASSUME Inv, NEW s \in Held, NEW left \in MayLeave(ScopeLeft(s))
  PROVE  left = {} \/ \E u \in OldScopes : left = {u} /\ u.gen = stask[s].gen
<1>1. PICK t : t = stask[s]
  OBVIOUS
<1>2. t \in ScopeTasks /\ s \in Dirs
  BY <1>1, HeldTask
<1>3. PICK A : A = CASE t.pc = "opening" -> scen.scope_answers
                     [] t.pc = "open" -> {e[1] : e \in scen.ends}
                     [] t.pc \in {"sweeping", "bury"} -> {t.pc} [] OTHER -> {}
  OBVIOUS
<1>4. PICK all : all = {[kind |-> "scope", scope |-> s, root |-> t.root, gen |-> t.gen, mode |-> t.mode,
                         ever |-> t.ever, charged |-> t.charged, answer |-> a] : a \in A}
  OBVIOUS
<1>5. all = ScopeLeft(s)
  BY <1>1, <1>3, <1>4 DEF ScopeLeft
<1>6. scen.scope_answers \subseteq {"granted", "refused", "terminal", "retry"} /\ scen.ends \subseteq {"worked", "barren"} \X BOOLEAN
  BY AnswersAssumption DEF Inv, TypeInv
<1>7. {e[1] : e \in scen.ends} \subseteq {"worked", "barren"}
  BY <1>6
<1>8. \/ t.pc \in {"sweeping", "bury"} /\ A = {t.pc}
      \/ A \subseteq {"granted", "refused", "terminal", "retry", "worked", "barren"}
  <2>1. CASE t.pc = "opening"
    BY <1>3, <1>6, <2>1
  <2>2. CASE t.pc = "open"
    BY <1>3, <1>7, <2>2
  <2>3. CASE t.pc \in {"sweeping", "bury"}
    <3>1. t.pc # "opening" /\ t.pc # "open"
      BY <2>3
    <3> QED BY <1>3, <2>3, <3>1
  <2>4. CASE t.pc \notin {"opening", "open", "sweeping", "bury"}
    <3>1. A = {}
      BY <1>3, <2>4
    <3> QED BY <3>1
  <2> QED BY <2>1, <2>2, <2>3, <2>4
<1>9. \A x \in all : x \in OldScopes /\ x.gen = t.gen /\ x.answer \in A
  BY <1>2, <1>4, <1>8 DEF ScopeTasks, OldScopes
<1>10. CASE \E x \in all : Sweeping(x)
  <2>1. A = {t.pc}
    BY <1>8, <1>9, <1>10 DEF Sweeping
  <2>2. left = all
    BY <1>5, <1>10 DEF MayLeave
  <2>3. PICK u : u = [kind |-> "scope", scope |-> s, root |-> t.root, gen |-> t.gen, mode |-> t.mode,
                      ever |-> t.ever, charged |-> t.charged, answer |-> t.pc]
    OBVIOUS
  <2>4. all = {u}
    BY <1>4, <2>1, <2>3
  <2> QED BY <1>1, <1>9, <2>2, <2>4
<1>11. CASE ~ \E x \in all : Sweeping(x)
  <2>1. left \in {{}} \cup {{x} : x \in {y \in all : Cardinality({o \in old : ~Sweeping(o)}) < scen.old}}
    BY <1>5, <1>11 DEF MayLeave
  <2> QED BY <1>1, <1>9, <2>1
<1> QED BY <1>10, <1>11

LEMMA RetireType ==
  ASSUME Inv, sup.pc = "retire"
  PROVE  /\ sup \in Retires /\ sup.stale \subseteq Held /\ IsFiniteSet(sup.stale)
         /\ Cardinality(sup.stale) \in Nat /\ sup.swept \subseteq sup.stale
<1>1. sup \in Retires
  BY DEF Inv, TypeInv, Waits
<1>2. sup.stale \subseteq Held /\ sup.stale \subseteq Dirs /\ sup.swept \subseteq sup.stale
  BY <1>1 DEF Inv, WatchInv, Retires
<1> QED BY <1>1, <1>2, PathsAssumption, FS_Subset, FS_CardinalityType

LEMMA RetireSweepStep ==
  ASSUME Inv, NEW s \in Dirs, RetireSweep(s)
  PROVE  Inv'
<1>1. /\ sup.pc = "retire" /\ s \in sup.stale /\ sup.swept = {}
      /\ sup' = [sup EXCEPT !.swept = {s}]
      /\ row' = IF stask[s].ever THEN Swept(row, s) ELSE row
      /\ UNCHANGED <<roots, rtask, stask, old, tables, denied, wake, retiring, mgr, next_generation, scen>>
  BY DEF RetireSweep
<1>2. sup \in Retires
  BY <1>1, RetireType
<1>3. /\ sup' \in Retires /\ sup'.pc = "retire" /\ sup'.swept = {s} /\ sup'.stale = sup.stale
      /\ sup'.chosen = sup.chosen /\ sup'.more = sup.more
  BY <1>1, <1>2 DEF Retires
<1>4. RowsGo(row') /\ (stask[s].ever = TRUE => \A d \in Dirs : Under(s, d) => row'[d] = NoRow)
  BY <1>1, SweptOK DEF Inv, TypeInv, RowsGo
<1>5. TypeInv'
  BY <1>1, <1>3, <1>4 DEF Inv, TypeInv, RowsGo
<1>6. GenInv'
  <2>1. /\ \A d \in Dirs : Issued(denied'[d].gen)
        /\ \A r \in RootPaths : roots'[r].gen = roots[r].gen /\ (roots'[r].st = "absent" <=> roots[r].st = "absent")
    BY <1>1 DEF Inv, GenInv
  <2> QED BY <1>1, <1>3, <1>4, <2>1, GenSame DEF Inv
<1>7. RootInv'
  BY <1>1, RootSame DEF Inv, SameAds
<1>8. TableInv'
  BY <1>1, TableSame DEF Inv, tables, TableInv
<1>9. Held' = Held
  BY <1>1 DEF Held
<1>10. WatchInv'
  <2>1. \A x : BeingRetired(x)' <=> BeingRetired(x)
    BY <1>1, <1>3 DEF BeingRetired
  <2>2. \A x : Reporting(x)' <=> Reporting(x)
    BY <1>1, <1>9, <2>1 DEF Reporting
  <2>3. ASSUME NEW x \in Dirs, NEW d \in Dirs, Owes(x, d) PROVE Owes(x, d)' \/ row'[d] = NoRow
    <3>1. CASE x = s
      BY <1>4, <2>3, <3>1 DEF Owes
    <3>2. CASE x # s
      BY <1>1, <1>3, <1>9, <2>3, <3>2 DEF Owes
    <3> QED BY <3>1, <3>2
  <2>4. /\ WatchInv /\ (\A d \in Dirs : row'[d] = row[d] \/ row'[d] = NoRow)
        /\ \A x \in Held' : stask'[x].pc \in {"sweeping", "open"} => stask'[x].ever = TRUE
    BY <1>1, <1>4, <1>9 DEF Inv, WatchInv, RowsGo
  <2>5. sup'.swept \subseteq sup'.stale /\ sup'.stale \subseteq Held'
    BY <1>1, <1>3, <1>9, RetireType
  <2> QED BY <1>1, <2>2, <2>3, <2>4, <2>5, WatchStep
<1>11. ThreadInv'
  <2>1. Stragglers' = Stragglers
    BY <1>1 DEF Stragglers
  <2> QED BY <1>1, <1>3, <1>9, <2>1 DEF Inv, ThreadInv
<1> QED BY <1>5, <1>6, <1>7, <1>8, <1>10, <1>11 DEF Inv

LEMMA RetireStopStep ==
  ASSUME Inv, NEW s \in Dirs, RetireStop(s)
  PROVE  Inv'
<1>1. /\ sup.pc = "retire" /\ sup.swept = {s}
      /\ sup' = [sup EXCEPT !.swept = {}, !.stale = @ \ {s}]
      /\ stask' = [stask EXCEPT ![s] = NoTask]
      /\ retiring' = retiring + 1
      /\ UNCHANGED <<roots, rtask, tables, denied, wake, mgr, next_generation, scen, row>>
  BY DEF RetireStop
<1>2. /\ sup \in Retires /\ sup.stale \subseteq Held /\ s \in sup.stale /\ s \in Held
      /\ IsFiniteSet(sup.stale) /\ Cardinality(sup.stale) \in Nat
  BY <1>1, RetireType
<1>3. /\ sup' \in Retires /\ sup'.pc = "retire" /\ sup'.swept = {} /\ sup'.stale = sup.stale \ {s}
      /\ sup'.chosen = sup.chosen /\ sup'.more = sup.more
  BY <1>1, <1>2 DEF Retires
<1>4. /\ stask' \in [Dirs -> {NoTask} \cup ScopeTasks]
      /\ stask'[s] = NoTask /\ \A x \in Dirs : x # s => stask'[x] = stask[x]
  BY <1>1 DEF Inv, TypeInv
<1>5. Held' = Held \ {s}
  BY <1>4 DEF Held
<1>6. PICK left \in MayLeave(ScopeLeft(s)) : old' = old \cup left
  BY DEF RetireStop
<1>7. left = {} \/ \E u \in OldScopes : left = {u} /\ u.gen = stask[s].gen
  BY <1>2, ScopesLeft
<1>8. Issued(stask[s].gen) /\ stask[s].gen > 0
  BY <1>2 DEF Inv, GenInv, Held
<1>9. /\ left \subseteq OldScopes /\ IsFiniteSet(left) /\ Cardinality(left) \in Nat /\ Cardinality(left) <= 1
      /\ \A x \in left : x.gen = stask[s].gen
  <2>1. CASE left = {}
    BY <2>1, FS_EmptySet
  <2>2. ASSUME NEW u \in OldScopes, left = {u}, u.gen = stask[s].gen
        PROVE  /\ left \subseteq OldScopes /\ IsFiniteSet(left) /\ Cardinality(left) = 1
               /\ \A x \in left : x.gen = stask[s].gen
    BY <2>2, FS_Singleton
  <2> QED BY <1>7, <2>1, <2>2
<1>10. old \subseteq OldRoots \cup OldScopes /\ IsFiniteSet(old) /\ retiring \in Nat
  BY DEF Inv, TypeInv
<1>11. TypeInv'
  <2>1. old' \subseteq OldRoots \cup OldScopes /\ IsFiniteSet(old')
    BY <1>6, <1>9, <1>10, FS_Union
  <2> QED BY <1>1, <1>3, <1>4, <1>10, <2>1 DEF Inv, TypeInv
<1>12. GenInv'
  <2>1. \A t \in old' : Issued(t.gen) /\ t.gen > 0
    BY <1>6, <1>8, <1>9 DEF Inv, GenInv
  <2>2. \A x \in Dirs : stask'[x] # NoTask => Issued(stask'[x].gen) /\ stask'[x].gen > 0
    BY <1>4 DEF Inv, GenInv
  <2>3. \A c \in sup'.chosen : Issued(c.gen) /\ c.gen > 0
    BY <1>1, <1>3 DEF Inv, GenInv
  <2> QED BY <1>1, <2>1, <2>2, <2>3 DEF Inv, GenInv, Issued
<1>13. RootInv'
  <2>1. \A t \in old' : t.kind = "root" => t \in old
    BY <1>6, <1>9 DEF OldScopes
  <2> QED BY <1>1, <2>1, RootSame DEF Inv, SameAds
<1>14. TableInv'
  BY <1>1, TableSame DEF Inv, tables, TableInv
<1>15. WatchInv'
  <2>1. \A x : x # s => (BeingRetired(x)' <=> BeingRetired(x))
    BY <1>1, <1>3 DEF BeingRetired
  <2>2. \A x \in Dirs : Reporting(x)' => /\ Reporting(x) /\ stask'[x].root = stask[x].root
                                         /\ stask'[x].gen = stask[x].gen /\ stask'[x].deep = stask[x].deep
    BY <1>4, <1>5, <2>1 DEF Reporting
  <2>3. ASSUME NEW x \in Dirs, NEW d \in Dirs, Owes(x, d) PROVE Owes(x, d)'
    <3>1. x # s
      BY <1>1, <1>2, <2>3 DEF Owes, BeingRetired
    <3>2. sup'.swept # {x}
      BY <1>3
    <3> QED BY <1>4, <1>5, <2>3, <3>1, <3>2 DEF Owes
  <2>4. /\ WatchInv
        /\ \A x \in Held' : stask'[x].pc \in {"sweeping", "open"} => stask'[x].ever = TRUE
    BY <1>4, <1>5 DEF Inv, WatchInv, Held
  <2>5. sup'.swept \subseteq sup'.stale /\ sup'.stale \subseteq Held'
    BY <1>2, <1>3, <1>5
  <2> QED BY <1>1, <2>2, <2>3, <2>4, <2>5, WatchStep
<1>16. ThreadInv'
  <2>1. Stragglers' <= retiring + 1
    <3>1. PICK A : A = {x \in old : x.kind = "scope"}
      OBVIOUS
    <3>2. IsFiniteSet(A) /\ Stragglers = Cardinality(A) /\ Cardinality(A) \in Nat
      BY <1>10, <3>1, FS_Subset, FS_CardinalityType DEF Stragglers
    <3>3. {x \in old' : x.kind = "scope"} = A \cup left
      BY <1>6, <1>9, <3>1 DEF OldScopes
    <3>4. Stragglers' = Cardinality(A \cup left)
      BY <3>3 DEF Stragglers
    <3>5. Cardinality(A \cup left) = Cardinality(A) + Cardinality(left) - Cardinality(A \cap left)
      BY <1>9, <3>2, FS_Union
    <3>6. Cardinality(A \cap left) \in Nat
      BY <1>9, <3>2, FS_Intersection, FS_CardinalityType
    <3>7. Stragglers <= retiring
      BY DEF Inv, ThreadInv
    <3> QED BY <1>9, <1>10, <3>2, <3>4, <3>5, <3>6, <3>7
  <2>2. Cardinality(Held') <= Budget + 1
    <3>1. IsFiniteSet(Held) /\ Held \ {s} \in SUBSET Held
      BY PathsAssumption, FS_Subset DEF Held
    <3>2. Cardinality(Held \ {s}) <= Cardinality(Held) /\ Cardinality(Held) \in Nat /\ Cardinality(Held \ {s}) \in Nat
      BY <3>1, FS_Subset, FS_CardinalityType
    <3>3. Cardinality(Held) <= Budget + 1 /\ Budget \in Nat
      BY LimitsAssumption DEF Inv, ThreadInv
    <3> QED BY <1>5, <3>2, <3>3
  <2>3. retiring' + Cardinality(sup'.stale) <= StuckLimit + Budget
    <3>1. Cardinality(sup.stale \ {s}) = Cardinality(sup.stale) - 1
      BY <1>2, FS_RemoveElement
    <3>2. retiring + Cardinality(sup.stale) <= StuckLimit + Budget
      BY <1>1 DEF Inv, ThreadInv
    <3> QED BY <1>1, <1>2, <1>3, <1>10, <3>1, <3>2, LimitsAssumption
  <2>4. Held' \ sup'.stale \subseteq Scopes(sup'.chosen) /\ Cardinality(Scopes(sup'.chosen)) <= Budget + 1
    BY <1>1, <1>3, <1>5 DEF Inv, ThreadInv
  <2> QED BY <1>1, <1>3, <2>1, <2>2, <2>3, <2>4 DEF ThreadInv
<1> QED BY <1>11, <1>12, <1>13, <1>14, <1>15, <1>16 DEF Inv

(* The scopes that are chosen have an owner, and are few.                   *)
LEMMA ChosenOK ==
  ASSUME Inv, NEW chosen,
         chosen = {[scope |-> s, root |-> Owner(roots, s), gen |-> roots[Owner(roots, s)].gen] : s \in Select(Views)}
  PROVE  /\ chosen \subseteq Choices
         /\ \A c \in chosen : Issued(c.gen) /\ c.gen > 0
         /\ Scopes(chosen) = Select(Views)
         /\ Cardinality(Scopes(chosen)) <= Budget + 1
<1>1. /\ \A s \in Select(Views) : s \in Cands /\ Owner(Views, s) # NoRoot
      /\ Cardinality(Select(Views)) <= Budget + 1
  BY SelectBound DEF Inv
<1>2. \A s : Owner(Views, s) = Owner(roots, s)
  BY ViewsOK, AdsSame DEF Inv
<1>3. ASSUME NEW s \in Select(Views)
      PROVE  /\ s \in Dirs /\ Owner(roots, s) \in RootPaths /\ roots[Owner(roots, s)].gen \in Nat
             /\ Issued(roots[Owner(roots, s)].gen) /\ roots[Owner(roots, s)].gen > 0
  <2>1. s \in Dirs
    BY <1>1 DEF Inv, TableInv
  <2>2. Owner(roots, s) \in Advertised(roots) /\ Owner(roots, s) \in RootPaths
    BY <1>1, <1>2, <2>1, OwnerIn
  <2>3. PICK o : o = Owner(roots, s)
    OBVIOUS
  <2>4. o \in RootPaths /\ roots[o].st # "absent" /\ roots[o] \in RootRecs
    BY <2>2, <2>3 DEF Advertised, Inv, TypeInv
  <2>5. roots[o].gen \in Nat /\ Issued(roots[o].gen) /\ roots[o].gen > 0
    BY <2>4 DEF RootRecs, Inv, GenInv
  <2> QED BY <2>1, <2>2, <2>3, <2>5
<1>4. ASSUME NEW c \in chosen PROVE c \in Choices /\ Issued(c.gen) /\ c.gen > 0 /\ c.scope \in Select(Views)
  <2>1. PICK s \in Select(Views) :
             c = [scope |-> s, root |-> Owner(roots, s), gen |-> roots[Owner(roots, s)].gen]
    OBVIOUS
  <2>2. PICK o, g : o = Owner(roots, s) /\ g = roots[Owner(roots, s)].gen
    OBVIOUS
  <2>3. c = [scope |-> s, root |-> o, gen |-> g]
    BY <2>1, <2>2
  <2>4. s \in Dirs /\ o \in RootPaths /\ g \in Nat /\ Issued(g) /\ g > 0
    BY <1>3, <2>2
  <2> QED BY <2>3, <2>4 DEF Choices
<1>5. Scopes(chosen) = Select(Views)
  <2>1. ASSUME NEW s \in Select(Views) PROVE s \in Scopes(chosen)
    <3>1. PICK c : c = [scope |-> s, root |-> Owner(roots, s), gen |-> roots[Owner(roots, s)].gen]
      OBVIOUS
    <3>2. c \in chosen /\ c.scope = s
      BY <3>1
    <3> QED BY <3>2 DEF Scopes
  <2>2. Scopes(chosen) \subseteq Select(Views)
    BY <1>4 DEF Scopes
  <2> QED BY <2>1, <2>2
<1> QED BY <1>1, <1>4, <1>5

LEMMA SupSelectStep ==
  ASSUME Inv, SupSelect
  PROVE  Inv'
<1> DEFINE chosen == {[scope |-> s, root |-> Owner(roots, s), gen |-> roots[Owner(roots, s)].gen] : s \in Select(Views)}
           matches(s) == [scope |-> s, root |-> stask[s].root, gen |-> stask[s].gen] \in chosen
           stale == {s \in Held : ~matches(s)}
           more == Cardinality(chosen) < Cardinality(Candidates)
<1>1. /\ sup.pc = "wait" /\ Woken
      /\ \E k \in 0 .. (retiring - Stragglers) : retiring' = retiring - k
      /\ roots' = Views
      /\ UNCHANGED <<rtask, stask, old, recency, hot, denied, mgr, next_generation, scen, row>>
  BY Zenon DEF SupSelect
<1>2. \/ /\ Frozen(retiring') /\ sup' = [pc |-> "wait", timer |-> TRUE] /\ marked' = MarkWatched(Held)
      \/ /\ ~Frozen(retiring') /\ UNCHANGED marked
         /\ sup' = [pc |-> "retire", chosen |-> chosen, stale |-> stale, swept |-> {}, more |-> more]
  BY Zenon DEF SupSelect
<1>3. /\ chosen \subseteq Choices
      /\ \A c \in chosen : Issued(c.gen) /\ c.gen > 0
      /\ Cardinality(Scopes(chosen)) <= Budget + 1
  BY ChosenOK
<1>4. stale \subseteq Held /\ Held \ stale \subseteq Scopes(chosen)
  <2>1. ASSUME NEW s, matches(s) PROVE s \in Scopes(chosen)
    <3>1. PICK c : c = [scope |-> s, root |-> stask[s].root, gen |-> stask[s].gen]
      OBVIOUS
    <3>2. c \in chosen /\ c.scope = s
      BY <2>1, <3>1
    <3> HIDE DEF chosen
    <3> QED BY <3>2 DEF Scopes
  <2> HIDE DEF matches
  <2> QED BY <2>1
<1>5. more \in BOOLEAN
  OBVIOUS
<1> HIDE DEF chosen, matches, stale, more
<1>6. Held' = Held /\ Stragglers' = Stragglers
  BY <1>1 DEF Held, Stragglers
<1>7. /\ Held \subseteq Dirs /\ IsFiniteSet(Held) /\ Cardinality(Held) \in Nat /\ Stragglers \in Nat /\ retiring \in Nat
      /\ Budget \in Nat /\ StuckLimit \in Nat
  <2>1. Held \subseteq Dirs /\ IsFiniteSet(Held)
    BY PathsAssumption, FS_Subset DEF Held
  <2>2. Stragglers \in Nat
    BY FS_Subset, FS_CardinalityType DEF Stragglers, Inv, TypeInv
  <2> QED BY <2>1, <2>2, FS_CardinalityType, LimitsAssumption DEF Inv, TypeInv
<1>8. retiring' \in Nat /\ retiring' <= retiring /\ Stragglers <= retiring'
  <2>1. Stragglers <= retiring
    BY DEF Inv, ThreadInv
  <2>2. PICK k \in 0 .. (retiring - Stragglers) : retiring' = retiring - k
    BY <1>1
  <2> QED BY <1>7, <2>1, <2>2
<1>9. wake' \in BOOLEAN
  BY <1>1, Zenon DEF Woken, Inv, TypeInv
<1>10. /\ Views \in [RootPaths -> RootRecs] /\ SameAds(roots, roots')
  BY <1>1, ViewsOK DEF Inv
<1>11. RootInv'
  BY <1>1, <1>10, RootSame DEF Inv
<1>12. /\ \A r \in RootPaths : roots'[r].gen = roots[r].gen /\ (roots'[r].st = "absent" <=> roots[r].st = "absent")
       /\ \A d \in Dirs : Issued(denied'[d].gen)
       /\ RowsGo(row')
  BY <1>1, <1>10, Still DEF SameAds, Inv, GenInv
<1>13. CASE Frozen(retiring') /\ sup' = [pc |-> "wait", timer |-> TRUE] /\ marked' = MarkWatched(Held)
  <2>1. sup' \in Waits /\ sup'.pc = "wait"
    BY <1>13 DEF Waits
  <2>2. TypeInv'
    BY <1>1, <1>8, <1>9, <1>10, <2>1 DEF Inv, TypeInv
  <2>3. GenInv'
    BY <1>1, <1>12, <2>1, GenSame DEF Inv
  <2>4. TableInv'
    BY <1>1, <1>13, TableSame DEF Inv, MarkWatched
  <2>5. WatchInv'
    <3>1. \A x : ~BeingRetired(x)' /\ ~BeingRetired(x)
      BY <1>1, <2>1 DEF BeingRetired
    <3>2. (\A x : Reporting(x)' <=> Reporting(x)) /\ (\A x, d : Owes(x, d)' <=> Owes(x, d))
      BY <1>1, <1>6, <3>1 DEF Reporting, Owes
    <3>3. WatchInv /\ \A x \in Held' : stask'[x].pc \in {"sweeping", "open"} => stask'[x].ever = TRUE
      BY <1>1, <1>6 DEF Inv, WatchInv
    <3> QED BY <1>1, <2>1, <3>2, <3>3, WatchStep
  <2>6. ThreadInv'
    <3>1. retiring <= StuckLimit + Budget /\ Cardinality(Held) <= Budget + 1
      BY <1>1 DEF Inv, ThreadInv
    <3>2. retiring' <= StuckLimit + Budget
      BY <1>7, <1>8, <3>1
    <3> QED BY <1>6, <1>8, <2>1, <3>1, <3>2 DEF ThreadInv
  <2> QED BY <1>11, <2>2, <2>3, <2>4, <2>5, <2>6 DEF Inv
<1>14. CASE /\ ~Frozen(retiring') /\ UNCHANGED marked
            /\ sup' = [pc |-> "retire", chosen |-> chosen, stale |-> stale, swept |-> {}, more |-> more]
  <2>1. /\ sup' \in Retires /\ sup'.pc = "retire" /\ sup'.chosen = chosen /\ sup'.stale = stale /\ sup'.swept = {}
    BY <1>3, <1>4, <1>5, <1>7, <1>14 DEF Retires
  <2>2. TypeInv'
    BY <1>1, <1>8, <1>9, <1>10, <2>1 DEF Inv, TypeInv
  <2>3. GenInv'
    <3>1. \A d \in Dirs : Issued(row'[d].gen)
      BY <1>12, RowsGoIssued DEF Inv
    <3>2. \A r \in RootPaths : Issued(roots'[r].gen) /\ (roots'[r].st # "absent" => roots'[r].gen > 0)
      BY <1>12 DEF Inv, GenInv
    <3>3. \A c \in sup'.chosen : Issued(c.gen) /\ c.gen > 0
      BY <1>3, <2>1
    <3> QED BY <1>1, <1>12, <3>1, <3>2, <3>3 DEF Inv, GenInv, Issued
  <2>4. TableInv'
    BY <1>1, <1>14, TableSame DEF Inv, TableInv
  <2>5. WatchInv'
    <3>1. \A x : ~BeingRetired(x)
      BY <1>1 DEF BeingRetired
    <3>2. \A x : Reporting(x)' => Reporting(x)
      BY <1>1, <1>6, <3>1 DEF Reporting
    <3>3. ASSUME NEW x \in Dirs, NEW d \in Dirs, Owes(x, d) PROVE Owes(x, d)'
      <4>1. sup'.swept # {x}
        BY <2>1
      <4> QED BY <1>1, <1>6, <3>3, <4>1 DEF Owes
    <3>4. WatchInv /\ \A x \in Held' : stask'[x].pc \in {"sweeping", "open"} => stask'[x].ever = TRUE
      BY <1>1, <1>6 DEF Inv, WatchInv
    <3>5. sup'.swept \subseteq sup'.stale /\ sup'.stale \subseteq Held'
      BY <1>4, <1>6, <2>1
    <3> QED BY <1>1, <3>2, <3>3, <3>4, <3>5, WatchStep
  <2>6. ThreadInv'
    <3>1. retiring <= StuckLimit + Budget /\ Cardinality(Held) <= Budget + 1
      BY <1>1 DEF Inv, ThreadInv
    <3>2. IsFiniteSet(stale) /\ Cardinality(stale) \in Nat /\ Cardinality(stale) <= Cardinality(Held)
      BY <1>4, <1>7, FS_Subset, FS_CardinalityType
    <3>3. CASE retiring' < StuckLimit
      <4>1. retiring' + Cardinality(sup'.stale) <= StuckLimit + Budget
        BY <1>7, <1>8, <2>1, <3>1, <3>2, <3>3
      <4> QED BY <1>3, <1>4, <1>6, <1>8, <2>1, <3>1, <4>1 DEF ThreadInv
    <3>4. CASE Held = {}
      <4>1. stale = {}
        BY <1>4, <3>4
      <4>2. Cardinality(sup'.stale) = 0
        BY <2>1, <4>1, FS_EmptySet
      <4>3. retiring' + Cardinality(sup'.stale) <= StuckLimit + Budget
        <5>1. PICK n : n = Cardinality(sup'.stale)
          OBVIOUS
        <5>2. n = 0
          BY <4>2, <5>1
        <5>3. retiring' <= StuckLimit + Budget
          BY <1>7, <1>8, <3>1
        <5>4. retiring' + n <= StuckLimit + Budget
          <6>1. PICK q, b : q = retiring' /\ b = StuckLimit + Budget
            OBVIOUS
          <6>2. q \in Nat /\ b \in Nat /\ q <= b
            BY <1>7, <1>8, <5>3, <6>1
          <6>3. q + n <= b
            BY <5>2, <6>2
          <6> QED BY <6>1, <6>3
        <5> QED BY <5>1, <5>4
      <4> QED BY <1>3, <1>4, <1>6, <1>8, <2>1, <3>1, <4>3 DEF ThreadInv
    <3> QED BY <1>7, <1>8, <1>14, <3>3, <3>4 DEF Frozen
  <2> QED BY <1>11, <2>2, <2>3, <2>4, <2>5, <2>6 DEF Inv
<1> QED BY <1>2, <1>13, <1>14

LEMMA SupSpawnStep ==
  ASSUME Inv, SupSpawn
  PROVE  Inv'
<1> DEFINE add == {c \in sup.chosen : c.scope \notin Held}
           held == Held \cup {c.scope : c \in add}
<1>1. /\ sup.pc = "retire" /\ sup.stale = {}
      /\ marked' = MarkWatched(held)
      /\ sup' = [pc |-> "wait", timer |-> NeedsTimer(held # {} /\ sup.more)]
      /\ UNCHANGED <<roots, rtask, old, recency, hot, denied, wake, retiring, mgr, next_generation, scen, row>>
  BY Zenon DEF SupSpawn
<1>2. stask' = [s \in Dirs |->
          IF \E c \in add : c.scope = s
          THEN LET c == CHOOSE x \in add : x.scope = s
               IN [root |-> c.root, gen |-> c.gen, pc |-> "top", mode |-> StartsDeep(s), deep |-> StartsDeep(s),
                   ever |-> FALSE, live |-> FALSE, stopped |-> "never", charged |-> FALSE]
          ELSE stask[s]]
  BY Zenon DEF SupSpawn
<1>3. sup \in Retires
  BY <1>1, RetireType
<1>4. add \subseteq Choices /\ (\A c \in add : Issued(c.gen) /\ c.gen > 0 /\ c.scope \notin Held /\ c \in sup.chosen)
  BY <1>1, <1>3 DEF Retires, Inv, GenInv
<1> HIDE DEF add, held
<1>5. ASSUME NEW s \in Dirs
      PROVE  \/ /\ stask'[s] = stask[s] /\ s \notin Scopes(add)
             \/ /\ stask'[s] \in ScopeTasks /\ s \in Scopes(add) /\ s \notin Held /\ s \in Scopes(sup.chosen)
                /\ Issued(stask'[s].gen) /\ stask'[s].gen > 0 /\ stask'[s].pc = "top"
  <2>1. CASE \E c \in add : c.scope = s
    <3>1. PICK c : c = CHOOSE x \in add : x.scope = s
      OBVIOUS
    <3>2. c \in add /\ c.scope = s
      BY <2>1, <3>1
    <3>3. PICK m : m = StartsDeep(s)
      OBVIOUS
    <3>4. m \in BOOLEAN
      BY <3>3 DEF StartsDeep
    <3>5. stask'[s] = [root |-> c.root, gen |-> c.gen, pc |-> "top", mode |-> m, deep |-> m,
                       ever |-> FALSE, live |-> FALSE, stopped |-> "never", charged |-> FALSE]
      BY <1>2, <2>1, <3>1, <3>3
    <3>6. stask'[s] \in ScopeTasks /\ stask'[s].gen = c.gen /\ stask'[s].pc = "top"
      BY <1>4, <3>2, <3>4, <3>5 DEF ScopeTasks, Choices
    <3> QED BY <1>4, <3>2, <3>6 DEF Scopes
  <2>2. CASE ~ \E c \in add : c.scope = s
    BY <1>2, <2>2 DEF Scopes
  <2> QED BY <2>1, <2>2
<1>6. stask' \in [Dirs -> {NoTask} \cup ScopeTasks]
  <2>1. \A s \in Dirs : stask'[s] \in {NoTask} \cup ScopeTasks
    BY <1>5 DEF Inv, TypeInv
  <2>2. stask' = [s \in Dirs |-> stask'[s]]
    BY <1>2
  <2> QED BY <2>1, <2>2
<1>7. \A s \in Dirs : s \in Held => s \in Held' /\ stask'[s] = stask[s]
  BY <1>5 DEF Held
<1>8. Held' \subseteq Scopes(sup.chosen)
  <2>1. Held \subseteq Scopes(sup.chosen)
    BY <1>1 DEF Inv, ThreadInv
  <2>2. ASSUME NEW s \in Held' PROVE s \in Scopes(sup.chosen)
    <3>1. s \in Dirs /\ stask'[s] # NoTask
      BY DEF Held
    <3>2. CASE stask'[s] = stask[s]
      BY <2>1, <3>1, <3>2 DEF Held
    <3> QED BY <1>5, <3>1, <3>2
  <2> QED BY <2>2
<1>9. sup' \in Waits /\ sup'.pc = "wait"
  <2>1. PICK b : b = NeedsTimer(held # {} /\ sup.more)
    OBVIOUS
  <2>2. b \in BOOLEAN
    BY <2>1, Zenon DEF NeedsTimer
  <2> QED BY <1>1, <2>1, <2>2 DEF Waits
<1>10. TypeInv'
  BY <1>1, <1>6, <1>9 DEF Inv, TypeInv
<1>11. GenInv'
  <2>1. \A s \in Dirs : stask'[s] # NoTask => Issued(stask'[s].gen) /\ stask'[s].gen > 0
    BY <1>5 DEF Inv, GenInv
  <2> QED BY <1>1, <1>9, <2>1 DEF Inv, GenInv, Issued
<1>12. RootInv'
  BY <1>1, RootSame DEF Inv, SameAds
<1>13. TableInv'
  BY <1>1, TableSame DEF Inv, MarkWatched
<1>14. WatchInv'
  <2>1. \A x : ~BeingRetired(x)' /\ ~BeingRetired(x)
    BY <1>1, <1>9 DEF BeingRetired
  <2>2. ASSUME NEW x \in Dirs, Reporting(x)' PROVE Reporting(x) /\ stask'[x] = stask[x]
    <3>1. x \in Held' /\ stask'[x].pc = "open"
      BY <2>2 DEF Reporting
    <3>2. stask'[x] = stask[x]
      BY <1>5, <3>1
    <3> QED BY <2>1, <3>1, <3>2 DEF Reporting, Held
  <2>3. \A x, d \in Dirs : Owes(x, d) => Owes(x, d)'
    BY <1>7, <2>1 DEF Owes
  <2>4. WatchInv
    BY DEF Inv
  <2>5. ASSUME NEW x \in Held', stask'[x].pc \in {"sweeping", "open"} PROVE stask'[x].ever = TRUE
    <3>1. x \in Dirs /\ stask'[x] # NoTask
      BY DEF Held
    <3>2. stask'[x] = stask[x]
      BY <1>5, <2>5, <3>1
    <3> QED BY <2>4, <2>5, <3>1, <3>2 DEF WatchInv, Held
  <2> QED BY <1>1, <1>9, <2>2, <2>3, <2>4, <2>5, WatchStep
<1>15. ThreadInv'
  <2>1. Stragglers' <= retiring'
    BY <1>1 DEF Inv, ThreadInv, Stragglers
  <2>2. /\ retiring + Cardinality(sup.stale) <= StuckLimit + Budget
        /\ Cardinality(Scopes(sup.chosen)) <= Budget + 1
    BY <1>1 DEF Inv, ThreadInv
  <2>3. Cardinality(sup.stale) = 0 /\ retiring \in Nat /\ StuckLimit \in Nat /\ Budget \in Nat
    BY <1>1, FS_EmptySet, LimitsAssumption DEF Inv, TypeInv
  <2>4. Scopes(sup.chosen) \subseteq Dirs /\ IsFiniteSet(Scopes(sup.chosen))
    <3>1. Scopes(sup.chosen) \subseteq Dirs
      BY <1>3 DEF Scopes, Retires, Choices
    <3> QED BY <3>1, PathsAssumption, FS_Subset
  <2>5. Cardinality(Held') <= Cardinality(Scopes(sup.chosen)) /\ Cardinality(Held') \in Nat /\ Cardinality(Scopes(sup.chosen)) \in Nat
    BY <1>8, <2>4, FS_Subset, FS_CardinalityType
  <2>6. Cardinality(Held') <= Budget + 1 /\ retiring <= StuckLimit + Budget
    BY <2>2, <2>3, <2>5
  <2> QED BY <1>1, <1>9, <2>1, <2>6 DEF ThreadInv
<1> QED BY <1>10, <1>11, <1>12, <1>13, <1>14, <1>15 DEF Inv

-----------------------------------------------------------------------------
(* The invariant holds, and with it the properties.                         *)

LEMMA InvInit ==
  ASSUME Init
  PROVE  Inv
<1>1. Absent \in RootRecs /\ Absent.st = "absent" /\ Absent.gen = 0
  BY Zeros DEF Absent, RootRecs, States
<1>2. /\ roots \in [RootPaths -> RootRecs] /\ (\A r \in RootPaths : roots[r] = Absent)
      /\ \A r \in RootPaths : rtask[r] = NoTask
      /\ \A s \in Dirs : stask[s] = NoTask
      /\ old = {} /\ hot = {} /\ marked = {}
      /\ sup.pc = "wait" /\ retiring = 0 /\ next_generation = 1 /\ scen \in Scenarios
  BY <1>1 DEF Init
<1>3. Cands = {}
  BY DEF Init, Cands
<1>4. Held = {}
  BY <1>2 DEF Held
<1>5. mgr \in Managers /\ mgr.todo = {} /\ mgr.capable = {}
  BY DEF Init, Managers
<1>6. TypeInv
  <2>1. /\ rtask \in [RootPaths -> {NoTask} \cup RootTasks] /\ stask \in [Dirs -> {NoTask} \cup ScopeTasks]
        /\ old \subseteq OldRoots \cup OldScopes /\ IsFiniteSet(old) /\ retiring \in Nat
        /\ next_generation \in Nat \ {0}
    BY FS_EmptySet DEF Init
  <2>2. denied \in [Dirs -> Memos] /\ row \in [Dirs -> RowRecs] /\ sup \in Waits /\ wake \in BOOLEAN
    BY NoRowType DEF Init, NoMemo, Memos, Waits
  <2> QED BY <1>2, <1>5, <2>1, <2>2 DEF TypeInv
<1>7. GenInv
  <2>1. \A d \in Dirs : denied[d].gen = 0 /\ row[d].gen = 0
    BY NoRowType DEF Init, NoMemo
  <2> QED BY <1>1, <1>2, <2>1 DEF GenInv, Issued
<1>8. RootInv
  <2>1. Advertised(roots) = {}
    BY <1>1, <1>2 DEF Advertised
  <2>2. next_generation + Cardinality(mgr.todo) <= scen.gens + 1
    BY <1>2, <1>5, FS_EmptySet, LimitsAssumption
  <2>3. LiveRootIsOpen
    BY <1>1, <1>2 DEF LiveRootIsOpen
  <2> QED BY <1>2, <1>5, <2>1, <2>2, <2>3 DEF RootInv
<1>9. TableInv
  <2>1. Ordered(recency)
    BY <1>3 DEF Ordered, Cands, Init
  <2> QED BY <1>2, <1>3, <2>1, FS_EmptySet, LimitsAssumption DEF TableInv
<1>10. WatchInv
  <2>1. \A d \in Dirs : row[d].kind = "none"
    BY NoRowType DEF Init
  <2> QED BY <1>2, <1>4, <2>1 DEF WatchInv, FreshUnderWatch
<1>11. ThreadInv
  <2>1. Stragglers = 0
    <3>1. {t \in old : t.kind = "scope"} = {}
      BY <1>2
    <3> QED BY <3>1, FS_EmptySet DEF Stragglers
  <2> QED BY <1>2, <1>4, <2>1, FS_EmptySet, LimitsAssumption DEF ThreadInv
<1> QED BY <1>6, <1>7, <1>8, <1>9, <1>10, <1>11 DEF Inv

LEMMA InvStutter ==
  ASSUME Inv, UNCHANGED vars
  PROVE  Inv'
<1>1. UNCHANGED <<roots, rtask, stask, old, recency, hot, marked, denied, wake, sup, retiring, mgr, next_generation, scen, row>>
  BY DEF vars, tables
<1>2. WatchInv'
  BY <1>1, WatchRows DEF Inv
<1> QED BY <1>1, <1>2, Still, DrainStep

LEMMA InvStep ==
  ASSUME Inv, [Next]_vars
  PROVE  Inv'
<1>1. CASE Cache
  BY <1>1, ChangeStep, ReadStep DEF Cache
<1>2. CASE Time
  <2>1. ASSUME NEW d \in Dirs, Age(d) PROVE Inv'
    BY <2>1, AgeStep
  <2> QED BY <1>2, <2>1, TimeStep DEF Time
<1>3. CASE RootDrains
  <2>1. PICK r \in RootPaths : \/ \E a \in scen.root_answers : OpenRoot(r, a)
                               \/ SweepRoot(r)
                               \/ \E e \in scen.ends : EndRoot(r, e[2])
    BY <1>3 DEF RootDrains
  <2>2. scen.root_answers \subseteq {"granted", "refused", "unsupported", "terminal"}
    BY AnswersAssumption DEF Inv, TypeInv
  <2> QED BY <2>1, <2>2, OpenRootStep, SweepRootStep, EndRootStep
<1>4. CASE ScopeDrains
  <2>1. PICK s \in Dirs : \/ TopScope(s)
                          \/ \E a \in scen.scope_answers : OpenScope(s, a)
                          \/ SweepScope(s)
                          \/ \E e \in scen.ends : EndScope(s, e[1], e[2])
    BY <1>4 DEF ScopeDrains
  <2>2. scen.scope_answers \subseteq {"granted", "refused", "terminal", "retry"}
    BY AnswersAssumption DEF Inv, TypeInv
  <2> QED BY <2>1, <2>2, TopScopeStep, OpenScopeStep, SweepScopeStep, EndScopeStep
<1>5. CASE OldDrains
  BY <1>5, OldRootStep, OldScopeStep DEF OldDrains
<1>6. CASE Supervisor
  BY <1>6, SupSelectStep, SupSpawnStep, RetireSweepStep, RetireStopStep DEF Supervisor
<1>7. CASE Manager
  <2>1. ASSUME NEW a \in SUBSET scen.roots, NEW c \in SUBSET a, NEW b \in SUBSET a, Discover(a, c, b) PROVE Inv'
    <3>1. a \in SUBSET RootPaths
      BY AnswersAssumption DEF Inv, TypeInv
    <3> QED BY <2>1, <3>1, DiscoverStep
  <2> QED BY <1>7, <2>1, AdvertiseStep, SpawnRootsStep DEF Manager
<1>8. CASE UNCHANGED vars
  BY <1>8, InvStutter
<1> QED BY <1>1, <1>2, <1>3, <1>4, <1>5, <1>6, <1>7, <1>8 DEF Next

LEMMA InvAlways == Spec => []Inv
<1>1. Init => Inv
  BY InvInit
<1>2. Inv /\ [Next]_vars => Inv'
  BY InvStep
<1> QED BY <1>1, <1>2, PTL DEF Spec

(* Every record of the watch state has its type, whatever drains answer in  *)
(* whatever order, and the table of candidates keeps to                     *)
(* MAX_CANDIDATE_SCOPES (WatchScopes::note_cached evicts as it admits).     *)
THEOREM TypeCorrect == Spec => []TypeOK
<1>1. Inv => TypeOK
  <2> SUFFICES ASSUME Inv PROVE TypeOK
    OBVIOUS
  <2>1. TypeInv /\ GenInv /\ RootInv /\ TableInv /\ ThreadInv
    BY DEF Inv
  <2>2. scen.gens \in Nat /\ next_generation \in Nat \ {0}
    BY <2>1, LimitsAssumption DEF TypeInv
  <2>3. next_generation <= scen.gens + 1
    <3>1. IsFiniteSet(mgr.todo)
      BY <2>1, PathsAssumption, FS_Subset DEF TypeInv, Managers
    <3>2. Cardinality(mgr.todo) \in Nat
      BY <3>1, FS_CardinalityType
    <3> QED BY <2>1, <2>2, <3>2 DEF RootInv
  <2>4. \A g \in Nat : Issued(g) => g \in 0 .. scen.gens /\ (g > 0 => g \in 1 .. scen.gens)
    BY <2>2, <2>3 DEF Issued
  <2>5. ASSUME NEW r \in RootPaths
        PROVE  roots[r] \in [st : {"absent", "pending", "live", "refused", "unwatchable"}, gen : 0 .. scen.gens,
                             fails : 0 .. FailLimit, barren : 0 .. BarrenLimit, paused : {"no", "yes", "due"}]
    <3>1. roots[r] \in RootRecs /\ Issued(roots[r].gen)
      BY <2>1 DEF TypeInv, GenInv
    <3>2. roots[r].gen \in 0 .. scen.gens
      BY <2>4, <3>1 DEF RootRecs
    <3> QED BY <3>1, <3>2 DEF RootRecs, States
  <2>6. roots \in [RootPaths -> [st : {"absent", "pending", "live", "refused", "unwatchable"}, gen : 0 .. scen.gens,
                                 fails : 0 .. FailLimit, barren : 0 .. BarrenLimit, paused : {"no", "yes", "due"}]]
    <3>1. roots = [r \in RootPaths |-> roots[r]]
      BY <2>1 DEF TypeInv
    <3> QED BY <2>5, <3>1
  <2>7. ASSUME NEW r \in RootPaths, rtask[r] # NoTask
        PROVE  rtask[r] \in [gen : 1 .. scen.gens, pc : {"opening", "sweeping", "open", "dead"}]
    <3>1. rtask[r] \in RootTasks /\ rtask[r].gen = roots[r].gen /\ roots[r].st # "absent"
      BY <2>1, <2>7 DEF TypeInv, RootInv, Advertised
    <3>2. rtask[r].gen \in 1 .. scen.gens
      BY <2>1, <2>4, <3>1 DEF GenInv, RootTasks
    <3> QED BY <3>1, <3>2 DEF RootTasks
  <2>8. ASSUME NEW s \in Dirs, stask[s] # NoTask
        PROVE  stask[s] \in [root : RootPaths, gen : 1 .. scen.gens, mode : BOOLEAN, deep : BOOLEAN, ever : BOOLEAN,
                             live : BOOLEAN, stopped : {"never", "recent", "long"}, charged : BOOLEAN,
                             pc : {"top", "opening", "sweeping", "open", "bury", "dead"}]
    <3>1. stask[s] \in ScopeTasks /\ Issued(stask[s].gen) /\ stask[s].gen > 0
      BY <2>1, <2>8 DEF TypeInv, GenInv
    <3>2. stask[s].gen \in 1 .. scen.gens
      BY <2>4, <3>1 DEF ScopeTasks
    <3> QED BY <3>1, <3>2 DEF ScopeTasks
  <2>9. ASSUME NEW d \in Dirs
        PROVE  /\ denied[d] \in [fully : BOOLEAN, root : RootPaths \cup {NoRoot}, gen : 0 .. scen.gens]
               /\ row[d] \in [kind : {"none", "bare", "scope", "root", "stale"}, root : RootPaths \cup {NoRoot},
                              gen : 0 .. scen.gens]
    <3>1. denied[d] \in Memos /\ Issued(denied[d].gen) /\ row[d] \in RowRecs /\ Issued(row[d].gen)
      BY <2>1 DEF TypeInv, GenInv
    <3>2. denied[d].gen \in 0 .. scen.gens /\ row[d].gen \in 0 .. scen.gens
      BY <2>4, <3>1 DEF Memos, RowRecs
    <3> QED BY <3>1, <3>2 DEF Memos, RowRecs
  <2>10. /\ denied \in [Dirs -> [fully : BOOLEAN, root : RootPaths \cup {NoRoot}, gen : 0 .. scen.gens]]
         /\ row \in [Dirs -> [kind : {"none", "bare", "scope", "root", "stale"}, root : RootPaths \cup {NoRoot},
                              gen : 0 .. scen.gens]]
    <3>1. denied = [d \in Dirs |-> denied[d]] /\ row = [d \in Dirs |-> row[d]]
      BY <2>1 DEF TypeInv
    <3> QED BY <2>9, <3>1
  <2>11. /\ Cands \subseteq Dirs /\ recency \in [Cands -> SUBSET Cands]
         /\ hot \subseteq Cands /\ marked \subseteq Cands /\ Cardinality(Cands) <= MaxCands
    BY <2>1 DEF TableInv, Ordered, Cands
  <2>12. /\ wake \in BOOLEAN /\ mgr \in [busy : BOOLEAN, todo : SUBSET RootPaths, capable : SUBSET RootPaths]
         /\ retiring \in Nat /\ Stragglers <= retiring
    BY <2>1 DEF TypeInv, ThreadInv, Managers
  <2>13. next_generation \in 1 .. (scen.gens + 1)
    BY <2>2, <2>3
  <2> QED BY <2>6, <2>7, <2>8, <2>10, <2>11, <2>12, <2>13 DEF TypeOK
<1> QED BY <1>1, InvAlways, PTL

(* No phantom Live root: whatever a cancelled drain still writes, its       *)
(* advertisement is withdrawn and its generation is never issued again      *)
(* (ScopedWatchState::advertise, is_current).                               *)
THEOREM NoPhantomRoot == Spec => []LiveRootIsOpen
<1>1. Inv => LiveRootIsOpen
  BY DEF Inv, RootInv
<1> QED BY <1>1, InvAlways, PTL

(* No entry from before a watch opened survives under it: the open is       *)
(* followed by the sweep before the drain reads an event                    *)
(* (cache_watch_drain_loop).                                                *)
THEOREM FreshAlways == Spec => []FreshUnderWatch
<1>1. Inv => FreshUnderWatch
  BY DEF Inv, WatchInv
<1> QED BY <1>1, InvAlways, PTL

(* What a directory's watch stood for is never forgotten: a stale entry has *)
(* a drain above it that opened once and still has its sweep to make        *)
(* (scope_drain_task, the retirement in reconcile_scopes).                  *)
THEOREM StaleAlwaysOwed == Spec => []StaleIsOwed
<1>1. Inv => StaleIsOwed
  <2> SUFFICES ASSUME Inv, NEW d \in Dirs, row[d].kind = "stale"
               PROVE  \E s \in Held : /\ Under(s, d) /\ stask[s].ever /\ stask[s].pc # "dead"
                                      /\ ~(BeingRetired(s) /\ sup.swept = {s})
    BY DEF StaleIsOwed
  <2>1. PICK s \in Dirs : Owes(s, d)
    BY DEF Inv, WatchInv
  <2> QED BY <2>1 DEF Owes
<1> QED BY <1>1, InvAlways, PTL

(* The drains are at most the budget and one cover, and the handles of the  *)
(* cancelled ones at most the stuck limit and one rotation, though none     *)
(* ever finishes (select_scopes, the freeze of reconcile_scopes).           *)
THEOREM ThreadsAlwaysBounded == Spec => []ThreadsBounded
<1>1. Inv => ThreadsBounded
  <2> SUFFICES ASSUME Inv PROVE ThreadsBounded
    OBVIOUS
  <2>1. Cardinality(Held) <= Budget + 1
    BY DEF Inv, ThreadInv
  <2>2. CASE sup.pc = "wait"
    BY <2>1, <2>2 DEF Inv, ThreadInv, ThreadsBounded
  <2>3. CASE sup.pc = "retire"
    <3>1. Cardinality(sup.stale) \in Nat /\ retiring \in Nat /\ StuckLimit \in Nat /\ Budget \in Nat
      BY <2>3, RetireType, LimitsAssumption DEF Inv, TypeInv
    <3>2. retiring + Cardinality(sup.stale) <= StuckLimit + Budget
      BY <2>3 DEF Inv, ThreadInv
    <3> QED BY <2>1, <3>1, <3>2 DEF ThreadsBounded
  <2> QED BY <2>2, <2>3 DEF Inv, TypeInv, Waits, Retires
<1> QED BY <1>1, InvAlways, PTL

-----------------------------------------------------------------------------
(* No wake is lost.  While the permit is not set, what a pass has chosen    *)
(* stays right, and so does what a pass left behind when it parked.         *)

Right(s, r, g) == r = Owner(roots, s) /\ IsCurrent(roots, r, g) /\ roots[r].st # "live"
Idle == \A s \in Cands : Owner(roots, s) \in {NoRoot, s} \/ roots[Owner(roots, s)].st # "refused"

(* During a pass: the choice, the drains that stay, and the two reasons not *)
(* to ask for the tick (every candidate is chosen, or none has a use).      *)
ChosenRight == \A c \in sup.chosen : Right(c.scope, c.root, c.gen)
KeptChosen ==
  \A s \in Held \ sup.stale :
    \E c \in sup.chosen : c.scope = s /\ c.root = stask[s].root /\ c.gen = stask[s].gen
AllChosen == ~sup.more /\ ~MemoPending => Cands \subseteq Scopes(sup.chosen)
NoneWanted == retiring = 0 /\ Held = {} /\ sup.chosen = {} /\ ~MemoPending /\ ~PausePending => Idle
PassInv == sup.pc = "retire" /\ ~wake => ChosenRight /\ KeptChosen /\ AllChosen /\ NoneWanted

(* After one that left neither permit nor tick.                             *)
HeldRight == \A s \in Held : Right(s, stask[s].root, stask[s].gen)
NoneMissing == Cands \subseteq Held \/ (Held = {} /\ Idle)
ParkInv == Parked => HeldRight /\ NoneMissing
WakeInv == PassInv /\ ParkInv

(* The place in the pass and what was decided there.                        *)
SamePass ==
  /\ sup'.pc = sup.pc
  /\ sup.pc = "wait" => sup'.timer = sup.timer
  /\ sup.pc = "retire" => sup'.chosen = sup.chosen /\ sup'.stale = sup.stale /\ sup'.more = sup.more
SameDrains ==
  \A s \in Dirs : /\ stask'[s] = NoTask <=> stask[s] = NoTask
                  /\ stask[s] # NoTask => stask'[s].root = stask[s].root /\ stask'[s].gen = stask[s].gen

(* A step that changes neither an advertisement nor the candidates, or sets *)
(* the permit, and forgets neither a refusal nor a pause.                   *)
LEMMA WakeSame ==
  ASSUME Inv, WakeInv, SamePass, SameDrains, retiring' = retiring,
         ~wake' => ~wake /\ SameAds(roots, roots') /\ Cands' = Cands,
         ~wake' /\ sup.pc = "retire" => (MemoPending => MemoPending') /\ (PausePending => PausePending')
  PROVE  WakeInv'
<1>1. Held' = Held
  BY DEF SameDrains, Held
<1>2. SUFFICES ASSUME ~wake' PROVE WakeInv'
  BY DEF WakeInv, PassInv, ParkInv, Parked
<1>3. ~wake /\ Cands' = Cands
  BY <1>2
<1>4. \A s : Owner(roots', s) = Owner(roots, s)
  BY <1>2, AdsSame
<1>5. ASSUME NEW s, NEW r, NEW g, Right(s, r, g) PROVE Right(s, r, g)'
  <2>1. r = Owner(roots', s) /\ IsCurrent(roots', r, g)
    BY <1>2, <1>5, AdsSame DEF Right
  <2>2. r \in RootPaths /\ roots[r].st # "live"
    BY <1>5 DEF Right, IsCurrent, Advertised
  <2>3. roots'[r].st # "live"
    BY <1>2, <2>2 DEF SameAds
  <2> QED BY <2>1, <2>3 DEF Right
<1>6. ASSUME Idle PROVE Idle'
  <2>1. ASSUME NEW s \in Cands
        PROVE  Owner(roots', s) \in {NoRoot, s} \/ roots'[Owner(roots', s)].st # "refused"
    <3>1. CASE Owner(roots, s) = NoRoot
      BY <1>4, <3>1
    <3>2. CASE Owner(roots, s) # NoRoot
      <4>1. s \in Dirs
        BY DEF Inv, TableInv
      <4>2. PICK o : o = Owner(roots, s)
        OBVIOUS
      <4>3. o \in RootPaths
        BY <3>2, <4>1, <4>2, OwnerIn
      <4>4. roots'[o].st = roots[o].st
        BY <1>2, <4>3 DEF SameAds
      <4>5. o \in {NoRoot, s} \/ roots[o].st # "refused"
        BY <1>6, <4>2 DEF Idle
      <4> QED BY <1>4, <4>2, <4>4, <4>5
    <3> QED BY <3>1, <3>2
  <2> QED BY <1>3, <2>1 DEF Idle
<1>7. PassInv'
  <2>1. SUFFICES ASSUME sup'.pc = "retire" PROVE ChosenRight' /\ KeptChosen' /\ AllChosen' /\ NoneWanted'
    BY DEF PassInv
  <2>2. /\ sup.pc = "retire" /\ sup'.chosen = sup.chosen /\ sup'.stale = sup.stale /\ sup'.more = sup.more
    BY <2>1 DEF SamePass
  <2>3. ChosenRight /\ KeptChosen /\ AllChosen /\ NoneWanted
    BY <1>3, <2>2 DEF WakeInv, PassInv
  <2>4. (MemoPending => MemoPending') /\ (PausePending => PausePending')
    BY <1>2, <2>2
  <2>5. ChosenRight'
    BY <1>5, <2>2, <2>3 DEF ChosenRight
  <2>6. KeptChosen'
    BY <1>1, <2>2, <2>3 DEF KeptChosen, SameDrains, Held
  <2>7. AllChosen'
    BY <1>3, <2>2, <2>3, <2>4 DEF AllChosen
  <2>8. NoneWanted'
    BY <1>1, <1>6, <2>2, <2>3, <2>4 DEF NoneWanted
  <2> QED BY <2>5, <2>6, <2>7, <2>8
<1>8. ParkInv'
  <2>1. SUFFICES ASSUME Parked' PROVE HeldRight' /\ NoneMissing'
    BY DEF ParkInv
  <2>2. Parked
    BY <1>3, <2>1 DEF Parked, SamePass
  <2>3. HeldRight /\ NoneMissing
    BY <2>2 DEF WakeInv, ParkInv
  <2>4. HeldRight'
    <3>1. ASSUME NEW s \in Held PROVE Right(s, stask[s].root, stask[s].gen)'
      <4>1. stask'[s].root = stask[s].root /\ stask'[s].gen = stask[s].gen
        BY DEF SameDrains, Held
      <4>2. Right(s, stask[s].root, stask[s].gen)
        BY <2>3 DEF HeldRight
      <4>3. PICK r, g : r = stask[s].root /\ g = stask[s].gen
        OBVIOUS
      <4>4. Right(s, r, g)'
        BY <1>5, <4>2, <4>3
      <4> QED BY <4>1, <4>3, <4>4 DEF Right
    <3> QED BY <1>1, <3>1 DEF HeldRight
  <2>5. NoneMissing'
    BY <1>1, <1>3, <1>6, <2>3 DEF NoneMissing
  <2> QED BY <2>4, <2>5
<1> QED BY <1>7, <1>8 DEF WakeInv
(* What a drain reports to its root leaves a pause in place.                *)
LEMMA FailedKeeps ==
  ASSUME NEW e \in RootRecs, e.paused # "no"
  PROVE  Failed(e).paused # "no"
<1>1. PICK f : f = IF e.fails < FailLimit THEN e.fails + 1 ELSE FailLimit
  OBVIOUS
<1>2. Failed(e) = [e EXCEPT !.fails = f, !.paused = IF f = FailLimit /\ e.paused = "no" THEN "yes" ELSE e.paused]
  BY <1>1 DEF Failed, RootRecs
<1>3. Failed(e) = [e EXCEPT !.fails = f, !.paused = e.paused]
  BY <1>2
<1> QED BY <1>3 DEF RootRecs

LEMMA BarrenKeeps ==
  ASSUME NEW e \in RootRecs, e.paused # "no"
  PROVE  Barren(e).paused # "no"
<1>1. PICK b : b = IF e.barren < BarrenLimit THEN e.barren + 1 ELSE BarrenLimit
  OBVIOUS
<1>2. e.barren \in 0 .. BarrenLimit /\ BarrenLimit \in Nat
  BY LimitsAssumption DEF RootRecs
<1>3. b \in 0 .. BarrenLimit
  BY <1>1, <1>2
<1>4. PICK x : x = [e EXCEPT !.barren = b]
  OBVIOUS
<1>5. x \in RootRecs /\ x.paused # "no"
  BY <1>3, <1>4 DEF RootRecs
<1>6. Barren(e) = IF b < BarrenLimit THEN x ELSE Failed(x)
  BY <1>1, <1>4 DEF Barren
<1> QED BY <1>5, <1>6, FailedKeeps

LEMMA NotedKeeps ==
  ASSUME NEW rt \in [RootPaths -> RootRecs], NEW r \in RootPaths, NEW g,
         NEW outcome \in {"opened", "worked", "barren", "failed"},
         NEW q \in RootPaths, rt[q].paused # "no"
  PROVE  Noted(rt, r, g, outcome)[q].paused # "no"
<1>1. CASE ~(IsCurrent(rt, r, g) /\ rt[r].st = "refused")
  BY <1>1 DEF Noted
<1>2. CASE IsCurrent(rt, r, g) /\ rt[r].st = "refused"
  <2>1. PICK e : e = rt[r]
    OBVIOUS
  <2>2. e \in RootRecs
    BY <2>1
  <2>3. PICK n : n = CASE outcome = "opened" -> IF e.barren < BarrenLimit THEN [e EXCEPT !.fails = 0] ELSE e
                       [] outcome = "worked" -> [e EXCEPT !.fails = 0, !.barren = 0]
                       [] outcome = "barren" -> Barren(e)
                       [] OTHER -> Failed(e)
    OBVIOUS
  <2>4. Noted(rt, r, g, outcome) = [rt EXCEPT ![r] = n]
    BY <1>2, <2>1, <2>3 DEF Noted
  <2>5. ASSUME e.paused # "no" PROVE n.paused # "no"
    <3>1. CASE outcome = "opened"
      BY <3>1, <2>2, <2>3, <2>5 DEF RootRecs
    <3>2. CASE outcome = "worked"
      <4>1. n = [e EXCEPT !.fails = 0, !.barren = 0]
        BY <3>2, <2>3
      <4> QED BY <4>1, <2>2, <2>5 DEF RootRecs
    <3>3. CASE outcome = "barren"
      BY <3>3, <2>2, <2>3, <2>5, BarrenKeeps
    <3>4. CASE outcome = "failed"
      BY <3>4, <2>2, <2>3, <2>5, FailedKeeps
    <3> QED BY <3>1, <3>2, <3>3, <3>4
  <2> QED BY <2>1, <2>4, <2>5
<1> QED BY <1>1, <1>2

(* What a directory's drain writes forgets neither a refusal nor a pause.   *)
LEMMA NotesKeep ==
  ASSUME Inv, NEW s \in Dirs, NEW t \in ScopeTasks \cup OldScopes, t.gen > 0,
         NEW answer, ScopeNotes(s, t, answer)
  PROVE  /\ MemoPending => MemoPending'
         /\ PausePending => PausePending'
         /\ ~wake' => ~wake
<1>1. t.root \in RootPaths /\ t.gen \in Nat
  BY DEF ScopeTasks, OldScopes
<1>2. roots \in [RootPaths -> RootRecs] /\ denied \in [Dirs -> Memos]
  BY DEF Inv, TypeInv
<1>3. PICK outcome : outcome = IF answer = "granted" THEN "opened"
                               ELSE IF answer \in {"worked", "barren"} THEN answer ELSE "failed"
  OBVIOUS
<1>4. outcome \in {"opened", "worked", "barren", "failed"}
  BY <1>3
<1>5. roots' = roots \/ roots' = Noted(roots, t.root, t.gen, outcome)
  BY <1>3 DEF ScopeNotes
<1>6. \A q \in RootPaths : roots[q].paused # "no" => roots'[q].paused # "no"
  BY <1>1, <1>2, <1>4, <1>5, NotedKeeps
<1>7. PICK full : full = Exits(t, answer)
  OBVIOUS
<1>8. denied' = denied \/ denied' = [denied EXCEPT ![s] = [fully |-> full, root |-> t.root, gen |-> t.gen]]
  BY <1>7 DEF ScopeNotes, Deny
<1>9. PICK m : m = [fully |-> full, root |-> t.root, gen |-> t.gen]
  OBVIOUS
<1>10. m.gen > 0 /\ NoMemo.gen = 0
  BY <1>9 DEF NoMemo
<1>11. m # NoMemo
  BY <1>1, <1>10
<1>12. \A d \in Dirs : denied[d] # NoMemo => denied'[d] # NoMemo
  BY <1>2, <1>8, <1>9, <1>11
<1>13. ~wake' => ~wake
  BY DEF ScopeNotes
<1> QED BY <1>6, <1>12, <1>13 DEF MemoPending, PausePending
(* What a step that leaves a variable alone need not argue.                 *)
LEMMA Untouched ==
  /\ UNCHANGED sup => SamePass
  /\ UNCHANGED stask => SameDrains
  /\ UNCHANGED roots => SameAds(roots, roots') /\ (PausePending => PausePending')
  /\ UNCHANGED denied => (MemoPending => MemoPending')
  /\ UNCHANGED recency => Cands' = Cands
  /\ UNCHANGED wake => (~wake' => ~wake)
<1>1. UNCHANGED sup => SamePass
  BY DEF SamePass
<1>2. UNCHANGED stask => SameDrains
  BY DEF SameDrains
<1>3. UNCHANGED roots => SameAds(roots, roots') /\ (PausePending => PausePending')
  BY DEF SameAds, PausePending
<1>4. UNCHANGED denied => (MemoPending => MemoPending')
  BY DEF MemoPending
<1>5. UNCHANGED recency => Cands' = Cands
  BY DEF Cands
<1> QED BY <1>1, <1>2, <1>3, <1>4, <1>5

(* One task is replaced by another of the same advertisement.               *)
LEMMA DrainSet ==
  ASSUME Inv, NEW s \in Held, NEW n, n.pc # "none", n.root = stask[s].root, n.gen = stask[s].gen,
         stask' = [stask EXCEPT ![s] = n]
  PROVE  SameDrains
<1>1. stask \in [Dirs -> {NoTask} \cup ScopeTasks] /\ s \in Dirs /\ stask[s] # NoTask
  BY DEF Inv, TypeInv, Held
<1>2. n # NoTask
  BY TasksApart
<1> QED BY <1>1, <1>2 DEF SameDrains

(* A change at the backend, the residency of a candidate, and the steps of  *)
(* the manager's second half are no concern of the supervisor's.            *)
LEMMA WakeQuiet ==
  ASSUME Inv, WakeInv, UNCHANGED <<roots, stask, recency, denied, wake, sup, retiring>>
  PROVE  WakeInv'
  BY Untouched, WakeSame

(* Reads of what is in the table already.                                   *)
LEMMA WakeRead ==
  ASSUME Inv, WakeInv, NEW d \in Dirs, Read(d)
  PROVE  WakeInv'
<1>1. UNCHANGED <<roots, stask, denied, sup, retiring>> /\ wake' = (wake \/ d \notin Cands)
  BY DEF Read
<1>2. ASSUME ~wake' PROVE ~wake /\ Cands' = Cands
  <2>1. ~wake /\ d \in Cands
    BY <1>1, <1>2
  <2>2. recency' = Touch({c \in Cands : Under(c, d)} \cup {d})
    BY <2>1 DEF Read
  <2>3. Cands' = Cands
    BY <2>1, <2>2 DEF Cands, Touch
  <2> QED BY <2>1, <2>3
<1> QED BY <1>1, <1>2, Untouched, WakeSame

(* The deadlines: a refusal lapses only while no pass is under way.         *)
LEMMA WakeTime ==
  ASSUME Inv, WakeInv, OnTime, Time
  PROVE  WakeInv'
<1>1. ASSUME NEW d \in Dirs, Cool(d) PROVE WakeInv'
  BY <1>1, WakeQuiet DEF Cool
<1>2. ASSUME NEW d \in Dirs, Expire(d) PROVE WakeInv'
  <2>1. UNCHANGED <<roots, stask, recency, wake, sup, retiring>>
    BY <1>2 DEF Expire, tables
  <2>2. sup.pc = "wait"
    <3>1. "late" \notin scen.clocks
      BY DEF OnTime, Inv, TypeInv
    <3> QED BY <1>2, <3>1 DEF Expire
  <2> QED BY <2>1, <2>2, Untouched, WakeSame
<1>3. ASSUME NEW s \in Dirs, Age(s) PROVE WakeInv'
  <2>1. UNCHANGED <<roots, recency, denied, wake, sup, retiring>> /\ s \in Held
    BY <1>3 DEF Age, tables
  <2>2. PICK t : t = stask[s]
    OBVIOUS
  <2>3. t \in ScopeTasks
    BY <2>1, <2>2, HeldTask
  <2>4. PICK n : n = [t EXCEPT !.stopped = "long"]
    OBVIOUS
  <2>5. n.pc # "none" /\ n.root = t.root /\ n.gen = t.gen
    BY <2>3, <2>4 DEF ScopeTasks
  <2>6. stask' = [stask EXCEPT ![s] = n]
    BY <1>3, <2>2, <2>4 DEF Age
  <2>7. SameDrains
    BY <2>1, <2>2, <2>5, <2>6, DrainSet
  <2> QED BY <2>1, <2>7, Untouched, WakeSame
<1>4. ASSUME NEW r \in RootPaths, Unpause(r) PROVE WakeInv'
  <2>1. UNCHANGED <<stask, recency, denied, wake, sup, retiring>> /\ roots' = [roots EXCEPT ![r].paused = "due"]
    BY <1>4 DEF Unpause, tables
  <2>2. PICK e : e = [roots[r] EXCEPT !.paused = "due"]
    OBVIOUS
  <2>3. roots \in [RootPaths -> RootRecs]
    BY DEF Inv, TypeInv
  <2>4. e.st = roots[r].st /\ e.gen = roots[r].gen /\ e.paused = "due" /\ roots' = [roots EXCEPT ![r] = e]
    BY <2>1, <2>2, <2>3 DEF RootRecs
  <2>5. SameAds(roots, roots')
    BY <2>3, <2>4 DEF SameAds
  <2>6. PausePending'
    <3>1. roots'[r].paused = "due"
      BY <2>3, <2>4
    <3> QED BY <3>1 DEF PausePending
  <2> QED BY <2>1, <2>5, <2>6, Untouched, WakeSame
<1> QED BY <1>1, <1>2, <1>3, <1>4 DEF Time

(* A root's drain sets the permit with every answer that changes the state. *)
LEMMA WakeRoots ==
  ASSUME Inv, WakeInv,
         UNCHANGED <<stask, recency, denied, sup, retiring>>, wake' = (wake \/ Transition(roots, roots'))
  PROVE  WakeInv'
<1>1. ~wake' => ~wake /\ UNCHANGED roots
  BY DEF Transition
<1> QED BY <1>1, Untouched, WakeSame
(* The drains of directories.                                               *)
LEMMA WakeTop ==
  ASSUME Inv, WakeInv, NEW s \in Dirs, TopScope(s)
  PROVE  WakeInv'
<1>1. s \in Held /\ UNCHANGED <<roots, recency, denied, wake, sup, retiring>>
  BY DEF TopScope, tables
<1>2. PICK t, m : t = stask[s] /\ m = StartsDeep(s)
  OBVIOUS
<1>3. t \in ScopeTasks
  BY <1>1, <1>2, HeldTask
<1>4. PICK n : n = [t EXCEPT !.pc = "opening", !.mode = m]
  OBVIOUS
<1>5. n.pc # "none" /\ n.root = t.root /\ n.gen = t.gen
  BY <1>3, <1>4 DEF ScopeTasks
<1>6. stask' = [stask EXCEPT ![s] = n]
  <2>1. stask' = [stask EXCEPT ![s].pc = "opening", ![s].mode = m]
    BY <1>2 DEF TopScope
  <2>2. stask \in [Dirs -> {NoTask} \cup ScopeTasks]
    BY DEF Inv, TypeInv
  <2> QED BY <1>2, <1>4, <2>1, <2>2
<1>7. SameDrains
  BY <1>1, <1>2, <1>5, <1>6, DrainSet
<1> QED BY <1>1, <1>7, Untouched, WakeSame

(* A step of a drain that writes what it has learnt.                        *)
LEMMA WakeNotes ==
  ASSUME Inv, WakeInv, NEW s \in Dirs, NEW t \in ScopeTasks \cup OldScopes, Issued(t.gen), t.gen > 0,
         NEW answer, ScopeNotes(s, t, answer), SameDrains, UNCHANGED <<recency, sup, retiring>>
  PROVE  WakeInv'
<1>1. SameAds(roots, roots')
  BY ScopeNotesOK DEF Inv
<1> QED BY <1>1, NotesKeep, Untouched, WakeSame

LEMMA WakeOpen ==
  ASSUME Inv, WakeInv, NEW s \in Dirs, NEW answer \in {"granted", "refused", "terminal", "retry"},
         OpenScope(s, answer)
  PROVE  WakeInv'
<1>1. s \in Held /\ UNCHANGED <<recency, sup, retiring>>
  BY DEF OpenScope, tables
<1>2. PICK t, owns : t = stask[s] /\ owns = Owns(roots, t.root, t.gen, s)
  OBVIOUS
<1>3. t \in ScopeTasks /\ Issued(t.gen) /\ t.gen > 0 /\ ScopeNotes(s, t, answer)
  <2>1. t \in ScopeTasks /\ Issued(t.gen)
    BY <1>1, <1>2, HeldTask
  <2>2. t.gen > 0
    BY <1>1, <1>2 DEF Inv, GenInv, Held
  <2>3. ScopeNotes(s, t, answer)
    BY <1>2 DEF OpenScope
  <2> QED BY <2>1, <2>2, <2>3
<1>4. PICK n : /\ stask' = [stask EXCEPT ![s] = n]
               /\ n = CASE answer = "granted" -> [t EXCEPT !.pc = "sweeping", !.ever = TRUE, !.deep = t.mode, !.live = TRUE]
                        [] Exits(t, answer) -> [t EXCEPT !.pc = "bury"]
                        [] Refuses(t, answer) -> [t EXCEPT !.pc = "top", !.deep = t.deep /\ ~owns]
                        [] answer = "retry" -> [t EXCEPT !.pc = "top", !.charged = t.charged \/ ~t.ever]
  BY <1>2 DEF OpenScope
<1>5. n.pc # "none" /\ n.root = t.root /\ n.gen = t.gen
  <2>1. PICK b, c : b = (t.deep /\ ~owns) /\ c = (t.charged \/ ~t.ever)
    OBVIOUS
  <2>2. \/ n = [t EXCEPT !.pc = "sweeping", !.ever = TRUE, !.deep = t.mode, !.live = TRUE]
        \/ n = [t EXCEPT !.pc = "bury"]
        \/ n = [t EXCEPT !.pc = "top", !.deep = b]
        \/ n = [t EXCEPT !.pc = "top", !.charged = c]
    BY <1>4, <2>1 DEF Exits, Refuses
  <2> QED BY <1>3, <2>2 DEF ScopeTasks
<1>6. SameDrains
  BY <1>1, <1>2, <1>4, <1>5, DrainSet
<1> QED BY <1>1, <1>3, <1>6, WakeNotes

LEMMA WakeSweep ==
  ASSUME Inv, WakeInv, NEW s \in Dirs, SweepScope(s)
  PROVE  WakeInv'
<1>1. s \in Held /\ UNCHANGED <<roots, recency, denied, sup, retiring>> /\ (~wake' => ~wake)
  BY DEF SweepScope, tables
<1>2. PICK t : t = stask[s]
  OBVIOUS
<1>3. t \in ScopeTasks
  BY <1>1, <1>2, HeldTask
<1>4. PICK n : n = [t EXCEPT !.pc = IF t.pc = "bury" THEN "dead" ELSE "open"]
  OBVIOUS
<1>5. n.pc # "none" /\ n.root = t.root /\ n.gen = t.gen
  BY <1>3, <1>4 DEF ScopeTasks
<1>6. stask' = [stask EXCEPT ![s] = n]
  <2>1. stask \in [Dirs -> {NoTask} \cup ScopeTasks]
    BY DEF Inv, TypeInv
  <2> QED BY <1>2, <1>4, <2>1 DEF SweepScope
<1>7. SameDrains
  BY <1>1, <1>2, <1>5, <1>6, DrainSet
<1> QED BY <1>1, <1>7, Untouched, WakeSame

LEMMA WakeEnd ==
  ASSUME Inv, WakeInv, NEW s \in Dirs, NEW how, NEW error, EndScope(s, how, error)
  PROVE  WakeInv'
<1>1. s \in Held /\ UNCHANGED <<recency, sup, retiring>>
  BY DEF EndScope, tables
<1>2. PICK t : t = stask[s]
  OBVIOUS
<1>3. t \in ScopeTasks /\ Issued(t.gen) /\ t.gen > 0 /\ ScopeNotes(s, t, how)
  <2>1. t \in ScopeTasks /\ Issued(t.gen)
    BY <1>1, <1>2, HeldTask
  <2>2. t.gen > 0
    BY <1>1, <1>2 DEF Inv, GenInv, Held
  <2>3. ScopeNotes(s, t, how)
    BY <1>2 DEF EndScope
  <2> QED BY <2>1, <2>2, <2>3
<1>4. PICK x : x = IF how = "worked" THEN "recent" ELSE t.stopped
  OBVIOUS
<1>5. PICK n : n = [t EXCEPT !.pc = "top", !.live = FALSE, !.stopped = x]
  OBVIOUS
<1>6. n.pc # "none" /\ n.root = t.root /\ n.gen = t.gen
  BY <1>3, <1>5 DEF ScopeTasks
<1>7. stask' = [stask EXCEPT ![s] = n]
  BY <1>2, <1>3, <1>4, <1>5 DEF EndScope, ScopeTasks
<1>8. SameDrains
  BY <1>1, <1>2, <1>6, <1>7, DrainSet
<1> QED BY <1>1, <1>3, <1>8, WakeNotes

(* The cancelled drains.                                                    *)
LEMMA WakeOld ==
  ASSUME Inv, WakeInv, NEW t \in old, OldScope(t)
  PROVE  WakeInv'
<1>1. t.kind = "scope" /\ UNCHANGED <<stask, recency, sup, retiring>>
  BY DEF OldScope, tables
<1>2. t \in OldScopes /\ Issued(t.gen) /\ t.gen > 0
  BY <1>1 DEF Inv, TypeInv, GenInv, OldRoots
<1>3. CASE Sweeping(t)
  <2>1. (~wake' => ~wake) /\ UNCHANGED <<roots, denied>>
    BY <1>3 DEF OldScope
  <2> QED BY <1>1, <2>1, Untouched, WakeSame
<1>4. CASE ~Sweeping(t)
  <2>1. ScopeNotes(t.scope, t, t.answer) /\ t.scope \in Dirs
    BY <1>2, <1>4 DEF OldScope, OldScopes
  <2> QED BY <1>1, <1>2, <2>1, Untouched, WakeNotes
<1> QED BY <1>3, <1>4

(* The manager sets the permit with every root that goes or comes.          *)
LEMMA WakeDiscover ==
  ASSUME Inv, WakeInv, NEW advertised, NEW capable, NEW rebound, Discover(advertised, capable, rebound)
  PROVE  WakeInv'
<1> DEFINE stale == {r \in RootPaths : rtask[r] # NoTask /\ (r \notin capable \/ r \in rebound)}
           gone == (stale \cup (RootPaths \ advertised)) \cap Advertised(roots)
<1>1. /\ roots' = Withdrawn(roots, gone)
      /\ wake' = (wake \/ gone # {})
      /\ UNCHANGED <<stask, tables, denied, sup, retiring>>
  BY Zenon DEF Discover
<1> HIDE DEF gone
<1>2. UNCHANGED <<stask, recency, denied, sup, retiring>>
  BY <1>1 DEF tables
<1>3. ASSUME ~wake' PROVE ~wake /\ UNCHANGED roots
  <2>1. gone = {} /\ ~wake
    BY <1>1, <1>3
  <2>2. roots \in [RootPaths -> RootRecs]
    BY DEF Inv, TypeInv
  <2> QED BY <1>1, <2>1, <2>2 DEF Withdrawn
<1> QED BY <1>2, <1>3, Untouched, WakeSame

LEMMA WakeAdvertise ==
  ASSUME NEW r, Advertise(r)
  PROVE  WakeInv'
  BY DEF Advertise, WakeInv, PassInv, ParkInv, Parked
(* Something is chosen when something is asked for: the head of the queue   *)
(* has none before it.                                                      *)
LEMMA SomeChosen ==
  ASSUME TableInv, NEW rt, Antichain(rt) # {}
  PROVE  Select(rt) # {}
<1>1. CASE Cover(rt) # {}
  BY <1>1, SelectIs
<1>2. CASE Cover(rt) = {}
  <2> DEFINE left(s) == Cardinality(Queue(rt)) - Cardinality(Before(rt, s))
             N == {left(s) : s \in Queue(rt)}
  <2>1. Queue(rt) # {} /\ Queue(rt) \subseteq Cands /\ IsFiniteSet(Queue(rt)) /\ Cardinality(Queue(rt)) \in Nat
    BY <1>2, ChosenFrom, FS_Subset, FS_CardinalityType DEF Queue
  <2>2. \A s : /\ IsFiniteSet(Before(rt, s)) /\ Cardinality(Before(rt, s)) \in Nat
               /\ Cardinality(Before(rt, s)) <= Cardinality(Queue(rt))
    BY <2>1, FS_Subset, FS_CardinalityType DEF Before
  <2>3. N \in SUBSET Nat /\ N # {} /\ \A x \in N : x <= Cardinality(Queue(rt))
    BY <2>1, <2>2
  <2>4. PICK n \in N : \A x \in N : x <= n
    <3> HIDE DEF N
    <3> QED BY <2>1, <2>3, MaxExists
  <2>5. PICK s \in Queue(rt) : \A o \in Queue(rt) : left(o) <= left(s)
    BY <2>4
  <2>6. ASSUME NEW o \in Before(rt, s) PROVE FALSE
    <3>1. o \in Queue(rt) /\ Ahead(rt, o, s) /\ o \in Cands /\ s \in Cands
      BY <2>1 DEF Before
    <3>2. Before(rt, o) \cup {o} \in SUBSET Before(rt, s)
      BY <2>1, <3>1, AheadOrder DEF Before
    <3>3. o \notin Before(rt, o)
      BY <3>1, AheadOrder DEF Before
    <3>4. Cardinality(Before(rt, o) \cup {o}) = Cardinality(Before(rt, o)) + 1
      BY <2>2, <3>3, FS_AddElement
    <3>5. Cardinality(Before(rt, o) \cup {o}) <= Cardinality(Before(rt, s))
      BY <2>2, <3>2, FS_Subset
    <3>6. left(o) <= left(s)
      BY <2>5, <3>1
    <3> QED BY <2>1, <2>2, <3>4, <3>5, <3>6
  <2>7. Before(rt, s) = {}
    BY <2>6
  <2>8. Cardinality(Before(rt, s)) < Budget
    BY <2>7, FS_EmptySet, LimitsAssumption
  <2>9. s \in Front(rt)
    BY <2>5, <2>8 DEF Front
  <2> QED BY <2>9, SelectIs
<1> QED BY <1>1, <1>2

(* A pass that has chosen as many scopes as there are candidates has chosen *)
(* every one of them.                                                       *)
LEMMA EveryChosen ==
  ASSUME Inv, NEW chosen,
         chosen = {[scope |-> s, root |-> Owner(roots, s), gen |-> roots[Owner(roots, s)].gen] : s \in Select(Views)},
         ~(Cardinality(chosen) < Cardinality(Candidates))
  PROVE  Candidates \subseteq Scopes(chosen)
<1>1. Select(Views) \subseteq Candidates /\ IsFiniteSet(Candidates)
  <2>1. Select(Views) \subseteq Assigned(Views)
    BY SelectIs, CoverIn, ChosenFrom DEF Front, Queue, Inv
  <2>2. Assigned(Views) \subseteq Candidates /\ Candidates \subseteq Cands
    BY DEF Assigned, Candidates
  <2> QED BY <2>1, <2>2, CandsFinite, FS_Subset DEF Inv
<1>2. IsFiniteSet(Select(Views)) /\ Cardinality(Select(Views)) <= Cardinality(Candidates)
  BY <1>1, FS_Subset
<1>3. IsFiniteSet(chosen) /\ Cardinality(chosen) <= Cardinality(Select(Views))
  <2> DEFINE f == [s \in Select(Views) |->
                     [scope |-> s, root |-> Owner(roots, s), gen |-> roots[Owner(roots, s)].gen]]
  <2>1. f \in Surjection(Select(Views), chosen)
    <3>1. f \in [Select(Views) -> chosen]
      OBVIOUS
    <3>2. \A c \in chosen : \E s \in Select(Views) : f[s] = c
      OBVIOUS
    <3> HIDE DEF f
    <3> QED BY <3>1, <3>2 DEF Surjection
  <2> HIDE DEF f
  <2> QED BY <1>2, <2>1, FS_Surjection
<1>4. Cardinality(Select(Views)) = Cardinality(Candidates)
  BY <1>1, <1>2, <1>3, FS_CardinalityType
<1>5. Select(Views) = Candidates
  BY <1>1, <1>4, FS_Subset
<1> QED BY <1>5, ChosenOK

(* What is chosen belongs to the route that owns it, and no live root       *)
(* stands above it.                                                         *)
LEMMA RightChoice ==
  ASSUME Inv, NEW s \in Select(Views)
  PROVE  /\ s \in Dirs /\ Owner(roots, s) \in RootPaths
         /\ IsCurrent(roots, Owner(roots, s), roots[Owner(roots, s)].gen)
         /\ roots[Owner(roots, s)].st # "live"
<1>1. s \in Assigned(Views) /\ s \in Cands
  BY SelectIs, CoverIn, ChosenFrom DEF Front, Queue, Inv
<1>2. SameAds(roots, Views) /\ Owner(Views, s) = Owner(roots, s)
  BY ViewsOK, AdsSame DEF Inv
<1>3. PICK o : o = Owner(roots, s)
  OBVIOUS
<1>4. o # NoRoot /\ Views[o].st # "live"
  BY <1>1, <1>2, <1>3 DEF Assigned
<1>5. s \in Dirs
  BY <1>1 DEF Inv, TableInv
<1>6. o \in Advertised(roots) /\ o \in RootPaths
  BY <1>3, <1>4, <1>5, OwnerIn
<1>7. roots[o].st # "live"
  BY <1>2, <1>4, <1>6 DEF SameAds
<1> QED BY <1>3, <1>5, <1>6, <1>7 DEF IsCurrent
(* The supervisor's own steps.                                              *)
LEMMA WakeRetireSweep ==
  ASSUME Inv, WakeInv, NEW s \in Dirs, RetireSweep(s)
  PROVE  WakeInv'
<1>1. /\ UNCHANGED <<roots, stask, recency, denied, wake, retiring>>
      /\ sup.pc = "retire" /\ sup' = [sup EXCEPT !.swept = {s}]
  BY DEF RetireSweep, tables
<1>2. sup \in Retires
  BY <1>1, RetireType
<1>3. SamePass
  BY <1>1, <1>2 DEF Retires, SamePass
<1> QED BY <1>1, <1>3, Untouched, WakeSame

LEMMA WakeRetireStop ==
  ASSUME Inv, WakeInv, NEW s \in Dirs, RetireStop(s)
  PROVE  WakeInv'
<1>1. /\ sup.pc = "retire" /\ sup.swept = {s}
      /\ sup' = [sup EXCEPT !.swept = {}, !.stale = @ \ {s}]
      /\ stask' = [stask EXCEPT ![s] = NoTask]
      /\ retiring' = retiring + 1
      /\ UNCHANGED <<roots, recency, denied, wake>>
  BY DEF RetireStop, tables
<1>2. sup \in Retires /\ s \in sup.stale
  BY <1>1, RetireType
<1>3. /\ sup'.pc = "retire" /\ sup'.stale = sup.stale \ {s} /\ sup'.chosen = sup.chosen /\ sup'.more = sup.more
  BY <1>1, <1>2 DEF Retires
<1>4. stask'[s] = NoTask /\ \A x \in Dirs : x # s => stask'[x] = stask[x]
  BY <1>1 DEF Inv, TypeInv
<1>5. Held' = Held \ {s}
  BY <1>4 DEF Held
<1>6. ASSUME ~wake' PROVE ChosenRight' /\ KeptChosen' /\ AllChosen' /\ NoneWanted'
  <2>1. ChosenRight /\ KeptChosen /\ AllChosen
    BY <1>1, <1>6 DEF WakeInv, PassInv
  <2>2. ChosenRight'
    BY <1>1, <1>3, <2>1 DEF ChosenRight, Right
  <2>3. KeptChosen'
    <3>1. \A x \in Held' \ sup'.stale : x \in Held \ sup.stale /\ x \in Dirs /\ x # s
      BY <1>3, <1>5 DEF Held
    <3> QED BY <1>3, <1>4, <2>1, <3>1 DEF KeptChosen
  <2>4. AllChosen'
    BY <1>1, <1>3, <2>1 DEF AllChosen, MemoPending, Cands
  <2>5. retiring' # 0
    BY <1>1 DEF Inv, TypeInv
  <2> QED BY <2>2, <2>3, <2>4, <2>5 DEF NoneWanted
<1>7. ParkInv'
  BY <1>3 DEF ParkInv, Parked
<1> QED BY <1>6, <1>7 DEF WakeInv, PassInv

LEMMA WakeSelect ==
  ASSUME Inv, SupSelect
  PROVE  WakeInv'
<1> DEFINE chosen == {[scope |-> s, root |-> Owner(roots, s), gen |-> roots[Owner(roots, s)].gen] : s \in Select(Views)}
           matches(s) == [scope |-> s, root |-> stask[s].root, gen |-> stask[s].gen] \in chosen
           stale == {s \in Held : ~matches(s)}
           more == Cardinality(chosen) < Cardinality(Candidates)
<1>1. roots' = Views /\ UNCHANGED <<stask, recency, denied>>
  BY Zenon DEF SupSelect
<1>2. \/ sup' = [pc |-> "wait", timer |-> TRUE]
      \/ sup' = [pc |-> "retire", chosen |-> chosen, stale |-> stale, swept |-> {}, more |-> more]
  BY Zenon DEF SupSelect
<1>3. \A s \in Held \ stale : \E c \in chosen : c.scope = s /\ c.root = stask[s].root /\ c.gen = stask[s].gen
  <2>1. ASSUME NEW s, matches(s)
        PROVE  \E c \in chosen : c.scope = s /\ c.root = stask[s].root /\ c.gen = stask[s].gen
    <3>1. PICK c : c = [scope |-> s, root |-> stask[s].root, gen |-> stask[s].gen]
      OBVIOUS
    <3>2. c \in chosen /\ c.scope = s /\ c.root = stask[s].root /\ c.gen = stask[s].gen
      BY <2>1, <3>1
    <3> HIDE DEF chosen
    <3> QED BY <3>2
  <2> HIDE DEF matches
  <2> QED BY <2>1
<1>4. /\ Scopes(chosen) = Select(Views)
      /\ ~more => Candidates \subseteq Scopes(chosen)
  BY ChosenOK, EveryChosen
<1>5. ASSUME NEW c \in chosen
      PROVE  \E s \in Select(Views) : c.scope = s /\ c.root = Owner(roots, s) /\ c.gen = roots[Owner(roots, s)].gen
  <2>1. PICK s \in Select(Views) : c = [scope |-> s, root |-> Owner(roots, s), gen |-> roots[Owner(roots, s)].gen]
    BY <1>5
  <2> QED BY <2>1
<1> HIDE DEF chosen, matches, stale, more
<1>6. Held' = Held /\ Cands' = Cands /\ (MemoPending' <=> MemoPending)
  BY <1>1 DEF Held, Cands, MemoPending
<1>7. SameAds(roots, roots') /\ Views \in [RootPaths -> RootRecs]
  BY <1>1, ViewsOK DEF Inv
<1>8. ASSUME ~MemoPending PROVE Candidates = Cands
  <2>1. \A s \in Cands : s \in Dirs /\ ~MemoHolds(s)
    BY <1>8 DEF MemoPending, MemoHolds, Inv, TableInv
  <2> QED BY <2>1 DEF Candidates
<1>9. CASE sup' = [pc |-> "wait", timer |-> TRUE]
  BY <1>9 DEF WakeInv, PassInv, ParkInv, Parked
<1>10. CASE sup' = [pc |-> "retire", chosen |-> chosen, stale |-> stale, swept |-> {}, more |-> more]
  <2>1. sup'.pc = "retire" /\ sup'.chosen = chosen /\ sup'.stale = stale /\ sup'.more = more
    BY <1>10
  <2>2. ChosenRight'
    <3>1. ASSUME NEW c \in chosen PROVE Right(c.scope, c.root, c.gen)'
      <4>1. PICK s \in Select(Views) : c.scope = s /\ c.root = Owner(roots, s) /\ c.gen = roots[Owner(roots, s)].gen
        BY <1>5
      <4>2. /\ c.root \in RootPaths /\ IsCurrent(roots, c.root, c.gen) /\ roots[c.root].st # "live"
        BY <4>1, RightChoice
      <4>3. c.root = Owner(roots', c.scope) /\ IsCurrent(roots', c.root, c.gen)
        BY <1>7, <4>1, <4>2, AdsSame
      <4>4. roots'[c.root].st # "live"
        BY <1>7, <4>2 DEF SameAds
      <4> QED BY <4>3, <4>4 DEF Right
    <3> QED BY <2>1, <3>1 DEF ChosenRight
  <2>3. KeptChosen'
    BY <1>1, <1>3, <1>6, <2>1 DEF KeptChosen
  <2>4. AllChosen'
    BY <1>4, <1>6, <1>8, <2>1 DEF AllChosen
  <2>5. NoneWanted'
    <3>1. SUFFICES ASSUME Held = {}, chosen = {}, ~MemoPending, ~PausePending' PROVE Idle'
      BY <1>6, <2>1 DEF NoneWanted
    <3>2. Select(Views) = {}
      BY <1>4, <3>1 DEF Scopes
    <3>3. Antichain(Views) = {}
      BY <3>2, SomeChosen DEF Inv
    <3>4. Assigned(Views) = {}
      <4>1. \A s : ~Covering(Views, s)
        BY <3>1 DEF Covering, Fits
      <4> QED BY <3>3, <4>1 DEF Antichain
    <3>5. ASSUME NEW s \in Cands
          PROVE  Owner(roots', s) \in {NoRoot, s} \/ roots'[Owner(roots', s)].st # "refused"
      <4>1. PICK o : o = Owner(Views, s)
        OBVIOUS
      <4>2. SUFFICES ASSUME o \notin {NoRoot, s}, Views[o].st = "refused" PROVE FALSE
        BY <1>1, <4>1
      <4>3. s \in Dirs
        BY DEF Inv, TableInv
      <4>4. o \in RootPaths
        BY <4>1, <4>2, <4>3, OwnerIn
      <4>5. Views[o].paused = "no"
        BY <1>1, <3>1, <4>4 DEF PausePending
      <4>6. s \in Candidates
        BY <1>8, <3>1
      <4>7. s \in Assigned(Views)
        BY <4>1, <4>2, <4>5, <4>6 DEF Assigned
      <4> QED BY <3>4, <4>7
    <3> QED BY <1>6, <3>5 DEF Idle
  <2>6. ParkInv'
    BY <2>1 DEF ParkInv, Parked
  <2> QED BY <2>2, <2>3, <2>4, <2>5, <2>6 DEF WakeInv, PassInv
<1> QED BY <1>2, <1>9, <1>10

LEMMA WakeSpawn ==
  ASSUME Inv, WakeInv, SupSpawn
  PROVE  WakeInv'
<1> DEFINE add == {c \in sup.chosen : c.scope \notin Held}
           held == Held \cup {c.scope : c \in add}
<1>1. /\ sup.pc = "retire" /\ sup.stale = {}
      /\ sup' = [pc |-> "wait", timer |-> NeedsTimer(held # {} /\ sup.more)]
      /\ UNCHANGED <<roots, recency, denied, wake, retiring>>
  BY Zenon DEF SupSpawn
<1>2. stask' = [s \in Dirs |->
          IF \E c \in add : c.scope = s
          THEN LET c == CHOOSE x \in add : x.scope = s
               IN [root |-> c.root, gen |-> c.gen, pc |-> "top", mode |-> StartsDeep(s), deep |-> StartsDeep(s),
                   ever |-> FALSE, live |-> FALSE, stopped |-> "never", charged |-> FALSE]
          ELSE stask[s]]
  BY Zenon DEF SupSpawn
<1>3. sup \in Retires
  BY <1>1, RetireType
<1>4. \A c \in sup.chosen : c.scope \in Dirs
  BY <1>3 DEF Retires, Choices
<1>5. add \subseteq sup.chosen /\ \A c \in sup.chosen : c \in add \/ c.scope \in Held
  OBVIOUS
<1>6. held = {} => Held = {} /\ sup.chosen = {}
  BY <1>5
<1> HIDE DEF add, held
<1>7. ASSUME NEW s \in Dirs, ~ \E c \in add : c.scope = s PROVE stask'[s] = stask[s]
  BY <1>2, <1>7
<1>8. ASSUME NEW s \in Dirs, \E c \in add : c.scope = s
      PROVE  stask'[s] # NoTask /\ \E c \in add : c.scope = s /\ stask'[s].root = c.root /\ stask'[s].gen = c.gen
  <2>1. PICK c : c = CHOOSE x \in add : x.scope = s
    OBVIOUS
  <2>2. c \in add /\ c.scope = s
    BY <1>8, <2>1
  <2>3. PICK m : m = StartsDeep(s)
    OBVIOUS
  <2>4. stask'[s] = [root |-> c.root, gen |-> c.gen, pc |-> "top", mode |-> m, deep |-> m,
                     ever |-> FALSE, live |-> FALSE, stopped |-> "never", charged |-> FALSE]
    BY <1>2, <1>8, <2>1, <2>3
  <2>5. stask'[s].pc = "top" /\ stask'[s].root = c.root /\ stask'[s].gen = c.gen
    BY <2>4
  <2>6. stask'[s] # NoTask
    BY <2>5, TasksApart
  <2> QED BY <2>2, <2>5, <2>6
<1>9. sup'.pc = "wait" /\ sup'.timer = NeedsTimer(held # {} /\ sup.more)
  BY <1>1
<1>10. PassInv'
  BY <1>9 DEF PassInv
<1>11. ASSUME Parked' PROVE HeldRight' /\ NoneMissing'
  <2>1. ~wake /\ ~NeedsTimer(held # {} /\ sup.more)
    BY <1>1, <1>9, <1>11 DEF Parked
  <2>2. retiring = 0 /\ ~(held # {} /\ sup.more) /\ ~MemoPending /\ ~PausePending
    BY <2>1 DEF NeedsTimer, Inv, TypeInv
  <2>3. ChosenRight /\ KeptChosen /\ AllChosen /\ NoneWanted
    BY <1>1, <2>1 DEF WakeInv, PassInv
  <2>4. ASSUME NEW s \in Dirs, stask'[s] # NoTask
        PROVE  \E c \in sup.chosen : c.scope = s /\ c.root = stask'[s].root /\ c.gen = stask'[s].gen
    <3>1. CASE \E c \in add : c.scope = s
      BY <1>5, <1>8, <3>1
    <3>2. CASE ~ \E c \in add : c.scope = s
      <4>1. stask'[s] = stask[s] /\ s \in Held
        BY <1>7, <2>4, <3>2 DEF Held
      <4> QED BY <1>1, <2>3, <4>1 DEF KeptChosen
    <3> QED BY <3>1, <3>2
  <2>5. HeldRight'
    <3>1. ASSUME NEW s \in Held' PROVE Right(s, stask[s].root, stask[s].gen)'
      <4>1. PICK c \in sup.chosen : c.scope = s /\ c.root = stask'[s].root /\ c.gen = stask'[s].gen
        BY <2>4 DEF Held
      <4>2. Right(s, c.root, c.gen)
        BY <2>3, <4>1 DEF ChosenRight
      <4> QED BY <1>1, <4>1, <4>2 DEF Right
    <3> QED BY <3>1 DEF HeldRight
  <2>6. ASSUME NEW c \in sup.chosen PROVE c.scope \in Held'
    <3>1. c.scope \in Dirs
      BY <1>4
    <3>2. CASE \E x \in add : x.scope = c.scope
      BY <1>8, <3>1, <3>2 DEF Held
    <3>3. CASE ~ \E x \in add : x.scope = c.scope
      <4>1. c.scope \in Held /\ stask'[c.scope] = stask[c.scope]
        BY <1>5, <1>7, <3>1, <3>3
      <4> QED BY <3>1, <4>1 DEF Held
    <3> QED BY <3>2, <3>3
  <2>7. CASE ~sup.more
    <3>1. Cands \subseteq Scopes(sup.chosen)
      BY <2>2, <2>3, <2>7 DEF AllChosen
    <3>2. Scopes(sup.chosen) \subseteq Held'
      BY <2>6 DEF Scopes
    <3>3. Cands' = Cands
      BY <1>1 DEF Cands
    <3>4. NoneMissing'
      BY <3>1, <3>2, <3>3 DEF NoneMissing
    <3> QED BY <2>5, <3>4
  <2>8. CASE held = {}
    <3>1. Held = {} /\ sup.chosen = {}
      BY <1>6, <2>8
    <3>2. Idle
      BY <2>2, <2>3, <3>1 DEF NoneWanted
    <3>3. Held' = {}
      BY <2>4, <3>1 DEF Held
    <3>4. Idle'
      BY <1>1, <3>2 DEF Idle, Cands
    <3> QED BY <2>5, <3>3, <3>4 DEF NoneMissing
  <2> QED BY <2>2, <2>7, <2>8
<1> QED BY <1>10, <1>11 DEF WakeInv, ParkInv
LEMMA WakeStep ==
  ASSUME Inv, WakeInv, OnTime, [Next]_vars
  PROVE  WakeInv'
<1>1. CASE Cache
  <2>1. ASSUME NEW d \in Dirs, Change(d) PROVE WakeInv'
    <3>1. UNCHANGED <<roots, stask, recency, denied, wake, sup, retiring>>
      BY <2>1 DEF Change, tables
    <3> QED BY <3>1, WakeQuiet
  <2> QED BY <1>1, <2>1, WakeRead DEF Cache
<1>2. CASE Time
  BY <1>2, WakeTime
<1>3. CASE RootDrains
  <2>1. ASSUME NEW r \in RootPaths, NEW a, OpenRoot(r, a) PROVE WakeInv'
    <3>1. UNCHANGED <<stask, recency, denied, sup, retiring>> /\ wake' = (wake \/ Transition(roots, roots'))
      BY <2>1 DEF OpenRoot, tables
    <3> QED BY <3>1, WakeRoots
  <2>2. ASSUME NEW r \in RootPaths, SweepRoot(r) PROVE WakeInv'
    <3>1. UNCHANGED <<roots, stask, recency, denied, wake, sup, retiring>>
      BY <2>2 DEF SweepRoot, tables
    <3> QED BY <3>1, WakeQuiet
  <2>3. ASSUME NEW r \in RootPaths, NEW error, EndRoot(r, error) PROVE WakeInv'
    <3>1. UNCHANGED <<stask, recency, denied, sup, retiring>> /\ wake' = (wake \/ Transition(roots, roots'))
      BY <2>3 DEF EndRoot, tables
    <3> QED BY <3>1, WakeRoots
  <2> QED BY <1>3, <2>1, <2>2, <2>3 DEF RootDrains
<1>4. CASE ScopeDrains
  <2>1. scen.scope_answers \subseteq {"granted", "refused", "terminal", "retry"}
    BY AnswersAssumption DEF Inv, TypeInv
  <2> QED BY <1>4, <2>1, WakeTop, WakeOpen, WakeSweep, WakeEnd DEF ScopeDrains
<1>5. CASE OldDrains
  <2>1. ASSUME NEW t \in old, OldRoot(t) PROVE WakeInv'
    <3>1. UNCHANGED <<stask, recency, denied, sup, retiring>> /\ wake' = (wake \/ Transition(roots, roots'))
      BY <2>1 DEF OldRoot, tables
    <3> QED BY <3>1, WakeRoots
  <2> QED BY <1>5, <2>1, WakeOld DEF OldDrains
<1>6. CASE Supervisor
  BY <1>6, WakeSelect, WakeSpawn, WakeRetireSweep, WakeRetireStop DEF Supervisor
<1>7. CASE Manager
  <2>1. ASSUME SpawnRoots PROVE WakeInv'
    <3>1. UNCHANGED <<roots, stask, recency, denied, wake, sup, retiring>>
      BY <2>1 DEF SpawnRoots, tables
    <3> QED BY <3>1, WakeQuiet
  <2> QED BY <1>7, <2>1, WakeDiscover, WakeAdvertise DEF Manager
<1>8. CASE UNCHANGED vars
  <2>1. UNCHANGED <<roots, stask, recency, denied, wake, sup, retiring>>
    BY <1>8 DEF vars, tables
  <2> QED BY <2>1, WakeQuiet
<1> QED BY <1>1, <1>2, <1>3, <1>4, <1>5, <1>6, <1>7, <1>8 DEF Next

(* No wake of the supervisor is lost: parked with neither permit nor tick,  *)
(* it holds a drain for every directory selection asks for, each of them    *)
(* under the route that owns it, provided no refusal lapses within a pass   *)
(* (supervisor_needs_timer, the notify of every transition).                *)
THEOREM AlwaysSettled == ASSUME OnTime PROVE Spec => []Settled
<1>1. Init => WakeInv
  <2> SUFFICES ASSUME Init PROVE WakeInv
    OBVIOUS
  <2>1. sup.pc = "wait" /\ sup.timer
    BY DEF Init
  <2> QED BY <2>1 DEF WakeInv, PassInv, ParkInv, Parked
<1>2. Inv /\ WakeInv /\ [Next]_vars => WakeInv'
  BY WakeStep
<1>3. Inv /\ WakeInv => Settled
  <2> SUFFICES ASSUME Inv, WakeInv, Parked
               PROVE  /\ \A s \in Held : Serves(stask[s], s) /\ roots[stask[s].root].st # "live"
                      /\ Select(roots) \subseteq Held
    BY DEF Settled
  <2>1. HeldRight /\ NoneMissing
    BY DEF WakeInv, ParkInv
  <2>2. \A s \in Held : Serves(stask[s], s) /\ roots[stask[s].root].st # "live"
    BY <2>1 DEF HeldRight, Right, Serves
  <2>3. Select(roots) \subseteq Assigned(roots) /\ Assigned(roots) \subseteq Cands
    <3>1. Select(roots) \subseteq Assigned(roots)
      BY SelectIs, CoverIn, ChosenFrom DEF Front, Queue, Inv
    <3> QED BY <3>1 DEF Assigned, Candidates
  <2>4. CASE Cands \subseteq Held
    BY <2>2, <2>3, <2>4
  <2>5. CASE Held = {} /\ Idle
    <3>1. Assigned(roots) = {}
      BY <2>3, <2>5 DEF Assigned, Idle
    <3> QED BY <2>2, <2>3, <3>1
  <2> QED BY <2>1, <2>4, <2>5 DEF NoneMissing
<1> QED BY <1>1, <1>2, <1>3, InvAlways, PTL DEF Spec

=============================================================================
