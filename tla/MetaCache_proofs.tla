-------------------------- MODULE MetaCache_proofs --------------------------
(***************************************************************************)
(* The rows of the metadata cache are honest and not stale, whatever the    *)
(* tree, the callers, the changes and the budget.                           *)
(***************************************************************************)
EXTENDS MetaCache, SequenceTheorems, FiniteSetTheorems, TLAPS

(* The types.                                                               *)
Rows == [shown : SUBSET Nodes, complete : BOOLEAN,
         seen : UNION {[A -> Nat] : A \in SUBSET Nodes},
         there : UNION {[A -> BOOLEAN] : A \in SUBSET Nodes},
         flags : SUBSET Flags, carried : SUBSET Flags, live : BOOLEAN, late : BOOLEAN]
Items == [key : Keys, row : Rows]
Sweeps == [how : {"address", "prefix", "lists"}, node : Nodes \cup {Root}]
Bounds == [Aspects -> [Nodes -> Nat]]
Jobs == [at : {"idle", "parent", "offer", "direct", "fill", "fill_then_stat", "sweep"},
         node : Nodes \cup {Root}, want : SUBSET Flags, up : SUBSET Flags,
         todo : Seq(Items) \cup Seq(Sweeps), settles : Bounds]
Events == [gone : BOOLEAN, node : Nodes \cup {Root}, settles : Bounds]

Filling == {"fill", "fill_then_stat"}
Everyone == Callers \cup {Drain}

(* What a request has in hand fits where it is.                             *)
JobOK(j) ==
  /\ j.at \in {"parent", "offer", "direct", "fill_then_stat"} => j.node \in Nodes
  /\ j.at \in Filling => j.todo # <<>> /\ j.todo \in Seq(Items)
  /\ j.at = "sweep" => j.todo # <<>> /\ j.todo \in Seq(Sweeps)

TypeInv ==
  /\ scen \in Scenarios
  /\ changes \in Nat
  /\ ver \in [Nodes -> Nat]
  /\ here \in [Nodes -> BOOLEAN]
  /\ "rows" \in DOMAIN cache
  /\ DOMAIN cache.rows \subseteq Keys
  /\ \A key \in DOMAIN cache.rows : cache.rows[key] \in Rows
  /\ job \in [Everyone -> Jobs]
  /\ \A c \in Everyone : JobOK(job[c])
  /\ events \in Seq(Events)
  /\ settled \in Bounds

(* The rows, stored or on their way to be.                                  *)
Stored == {[key |-> k, row |-> cache.rows[k]] : k \in DOMAIN cache.rows}
RowsOf(j) == IF j.at \in Filling THEN {j.todo[i] : i \in 1 .. Len(j.todo)} ELSE {}
OnItsWay(c) == RowsOf(job[c])
Present == Stored \cup UNION {OnItsWay(c) : c \in Everyone}

(* The nodes a row is about, and the key of the row about a node.           *)
About(key) == IF key[1] = "Stat" THEN {key[2]} ELSE Children(key[2])
RowKey(aspect, n) == IF aspect = "Stat" THEN <<"Stat", n>> ELSE <<"List", Parent[n]>>

(* A row says what the backend served: it claims no flag it was not fetched *)
(* under, a stat row is of a node that was there, a page shows what was     *)
(* there, and all of it when it says so.                                    *)
Served(key, row) ==
  /\ DOMAIN row.seen = About(key) /\ DOMAIN row.there = About(key)
  /\ row.flags \subseteq row.carried
  /\ key[1] = "Stat" => row.there[key[2]] = TRUE
  /\ key[1] = "List" => /\ row.shown \subseteq About(key)
                        /\ \A n \in row.shown : row.there[n] = TRUE
                        /\ row.complete => \A n \in About(key) \ row.shown : row.there[n] = FALSE

ServedInv == \A x \in Present : Served(x.key, x.row)

(* No row of node n is from before version v, unless an invalidation met it *)
(* on its way.                                                              *)
Gone(aspect, n, v) ==
  \A x \in Present : x.key = RowKey(aspect, n) => x.row.late \/ x.row.seen[n] >= v

Covered(todo, aspect, n) ==
  \E i \in 1 .. Len(todo) : RowKey(aspect, n) \in Matched(todo[i].how, todo[i].node)

(* No invalidation is of a change that has not happened.                    *)
Past(bounds) == \A aspect \in Aspects, n \in Nodes : bounds[aspect][n] <= ver[n]

EventTodo(e) == Both(e.node) \o (IF e.gone THEN Prefix(e.node) ELSE <<>>)

(* What an invalidation that has run is about is gone; the rest of it is    *)
(* still to run.                                                            *)
SweepInv ==
  /\ \A n \in Nodes : ver[n] <= changes
  /\ Past(settled)
  /\ \A aspect \in Aspects, n \in Nodes : Gone(aspect, n, settled[aspect][n])
  /\ \A c \in Everyone : job[c].at = "sweep" =>
       /\ Past(job[c].settles)
       /\ \A aspect \in Aspects, n \in Nodes :
            \/ Covered(job[c].todo, aspect, n)
            \/ Gone(aspect, n, job[c].settles[aspect][n])
  /\ \A i \in 1 .. Len(events) : events[i].node # Root =>
       /\ Past(events[i].settles)
       /\ \A aspect \in Aspects, n \in Nodes :
            events[i].settles[aspect][n] > 0 => Covered(EventTodo(events[i]), aspect, n)

Inv == TypeInv /\ ServedInv /\ SweepInv
-----------------------------------------------------------------------------
(* Keys and rows.                                                          *)

LEMMA KeyShapes ==
  ASSUME NEW key \in Keys
  PROVE  /\ key[1] \in Aspects /\ key[2] \in Nodes \cup {Root}
         /\ key[1] = "Stat" => key[2] \in Nodes
         /\ About(key) \subseteq Nodes
         /\ \A n \in About(key) : key = RowKey(key[1], n)
<1>1. CASE key \in {"Stat"} \X Nodes
  <2>1. key[1] = "Stat" /\ key[2] \in Nodes /\ key = <<"Stat", key[2]>>
    BY <1>1
  <2> QED BY <2>1 DEF Aspects, About, RowKey
<1>2. CASE key \in {"List"} \X (Directories \cup {Root})
  <2>1. key[1] = "List" /\ key[2] \in Directories \cup {Root} /\ key = <<"List", key[2]>>
    BY <1>2
  <2>2. About(key) = Children(key[2])
    BY <2>1 DEF About
  <2> QED BY <2>1, <2>2 DEF Aspects, RowKey, Children, Nodes
<1> QED BY <1>1, <1>2 DEF Keys

LEMMA RowKeys ==
  ASSUME NEW aspect \in Aspects, NEW n \in Nodes
  PROVE  /\ RowKey(aspect, n) \in Keys /\ RowKey(aspect, n)[1] = aspect
         /\ n \in About(RowKey(aspect, n))
<1>1. Parent[n] \in Directories \cup {Root}
  BY TreeAssumption DEF Nodes
<1>2. CASE aspect = "Stat"
  BY <1>2 DEF RowKey, Keys, About
<1>3. CASE aspect = "List"
  <2>1. RowKey(aspect, n) = <<"List", Parent[n]>>
    BY <1>3 DEF RowKey
  <2>2. n \in Children(Parent[n])
    BY DEF Children
  <2> QED BY <1>1, <1>3, <2>1, <2>2 DEF Keys, About
<1> QED BY <1>2, <1>3 DEF Aspects

(* What the operations of the store leave of its rows.                      *)
LEMMA StoreOps ==
  ASSUME NEW c, "rows" \in DOMAIN c
  PROVE  /\ \A keys : /\ "rows" \in DOMAIN Without(c, keys)
                      /\ DOMAIN Without(c, keys).rows = DOMAIN c.rows \ keys
                      /\ \A k \in DOMAIN c.rows \ keys : Without(c, keys).rows[k] = c.rows[k]
         /\ \A key, want : /\ "rows" \in DOMAIN AfterLookup(c, key, want)
                           /\ DOMAIN AfterLookup(c, key, want).rows \subseteq DOMAIN c.rows
                           /\ \A k \in DOMAIN AfterLookup(c, key, want).rows :
                                AfterLookup(c, key, want).rows[k] = c.rows[k]
         /\ \A key, row, newer :
              /\ "rows" \in DOMAIN Insert(c, key, row, newer)
              /\ DOMAIN Insert(c, key, row, newer).rows \subseteq DOMAIN c.rows \cup {key}
              /\ \A k \in DOMAIN Insert(c, key, row, newer).rows :
                   Insert(c, key, row, newer).rows[k] = IF k = key THEN row ELSE c.rows[k]
<1>1. ASSUME NEW b, "rows" \in DOMAIN b, NEW keys
      PROVE  /\ "rows" \in DOMAIN Without(b, keys)
             /\ DOMAIN Without(b, keys).rows = DOMAIN b.rows \ keys
             /\ \A k \in DOMAIN b.rows \ keys : Without(b, keys).rows[k] = b.rows[k]
  BY DEF Without
<1>2. ASSUME NEW key, NEW want
      PROVE  /\ "rows" \in DOMAIN AfterLookup(c, key, want)
             /\ DOMAIN AfterLookup(c, key, want).rows \subseteq DOMAIN c.rows
             /\ \A k \in DOMAIN AfterLookup(c, key, want).rows :
                  AfterLookup(c, key, want).rows[k] = c.rows[k]
  <2>1. CASE Holds(c, key) /\ ~c.rows[key].live
    <3>1. Lookup(c, key, want) # "Hit"
      BY <2>1 DEF Lookup
    <3>2. AfterLookup(c, key, want) = Without(c, {key})
      BY <2>1, <3>1 DEF AfterLookup
    <3> QED BY <1>1, <3>2
  <2>2. CASE ~(Holds(c, key) /\ ~c.rows[key].live) /\ Lookup(c, key, want) = "Hit"
    <3>1. AfterLookup(c, key, want) = Touched(c, key)
      BY <2>2 DEF AfterLookup
    <3>2. Touched(c, key).rows = c.rows /\ DOMAIN Touched(c, key) = DOMAIN c
      BY DEF Touched
    <3> QED BY <3>1, <3>2
  <2>3. CASE ~(Holds(c, key) /\ ~c.rows[key].live) /\ Lookup(c, key, want) # "Hit"
    <3>1. AfterLookup(c, key, want) = c
      BY <2>3 DEF AfterLookup
    <3> QED BY <3>1
  <2> QED BY <2>1, <2>2, <2>3
<1>3. ASSUME NEW key, NEW row, NEW newer
      PROVE  /\ "rows" \in DOMAIN Insert(c, key, row, newer)
             /\ DOMAIN Insert(c, key, row, newer).rows \subseteq DOMAIN c.rows \cup {key}
             /\ \A k \in DOMAIN Insert(c, key, row, newer).rows :
                  Insert(c, key, row, newer).rows[k] = IF k = key THEN row ELSE c.rows[k]
  <2>1. PICK kept : kept = Without(c, {key})
    OBVIOUS
  <2>2. /\ "rows" \in DOMAIN kept /\ DOMAIN kept.rows = DOMAIN c.rows \ {key}
        /\ \A k \in DOMAIN kept.rows : kept.rows[k] = c.rows[k]
    BY <1>1, <2>1
  <2>3. CASE Size(row) > scen.max_entries
    <3>1. Insert(c, key, row, newer) = kept
      BY <2>1, <2>3 DEF Insert
    <3> QED BY <2>2, <3>1
  <2>4. CASE ~(Size(row) > scen.max_entries)
    <3>1. Insert(c, key, row, newer) = Fitted(kept, key, row, newer)
      BY <2>1, <2>4 DEF Insert
    <3>2. PICK room : room = Without(kept, Victims(kept, Size(row)))
      OBVIOUS
    <3>3. /\ DOMAIN room.rows \subseteq DOMAIN kept.rows
          /\ \A k \in DOMAIN room.rows : room.rows[k] = kept.rows[k]
      BY <1>1, <2>2, <3>2
    <3>4. /\ "rows" \in DOMAIN Fitted(kept, key, row, newer)
          /\ Fitted(kept, key, row, newer).rows
               = [k \in DOMAIN room.rows \cup {key} |-> IF k = key THEN row ELSE room.rows[k]]
      BY <3>2 DEF Fitted
    <3> QED BY <2>2, <3>1, <3>3, <3>4
  <2> QED BY <2>3, <2>4
<1> QED BY <1>1, <1>2, <1>3

(* The fields of what is present.                                           *)
LEMMA PresentShapes ==
  ASSUME TypeInv
  PROVE  \A x \in Present : /\ x \in Items /\ x.key \in Keys /\ x.row \in Rows
                            /\ \A n \in DOMAIN x.row.seen : x.row.seen[n] \in Nat
<1>1. Stored \subseteq Items
  BY DEF TypeInv, Stored, Items
<1>2. ASSUME NEW c \in Everyone
      PROVE  OnItsWay(c) \subseteq Items
  <2>1. CASE job[c].at \in Filling
    <3>1. job[c].todo \in Seq(Items)
      BY <2>1 DEF TypeInv, JobOK
    <3>2. \A i \in 1 .. Len(job[c].todo) : job[c].todo[i] \in Items
      BY <3>1, ElementOfSeq
    <3> QED BY <2>1, <3>2 DEF OnItsWay, RowsOf
  <2>2. CASE job[c].at \notin Filling
    BY <2>2 DEF OnItsWay, RowsOf
  <2> QED BY <2>1, <2>2
<1>3. Present \subseteq Items
  BY <1>1, <1>2 DEF Present
<1>4. \A x \in Items : x.key \in Keys /\ x.row \in Rows
  BY DEF Items
<1>5. ASSUME NEW r \in Rows, NEW n \in DOMAIN r.seen PROVE r.seen[n] \in Nat
  <2>1. PICK A \in SUBSET Nodes : r.seen \in [A -> Nat]
    BY DEF Rows
  <2> QED BY <2>1
<1> QED BY <1>3, <1>4, <1>5

(* A row that is present after a step was so before, but for being expired  *)
(* or marked by an invalidation, or the backend has just served it.         *)
From(x, y) ==
  /\ x.key = y.key /\ x.row.shown = y.row.shown /\ x.row.complete = y.row.complete
  /\ x.row.seen = y.row.seen /\ x.row.there = y.row.there
  /\ x.row.flags = y.row.flags /\ x.row.carried = y.row.carried
  /\ (y.row.late => x.row.late)
Fresh(x) ==
  /\ Served(x.key, x.row)
  /\ \A n \in About(x.key) : x.row.seen[n] = ver[n]

RowsGo == \A x \in Present' : (\E y \in Present : From(x, y)) \/ Fresh(x)

LEMMA PresentStep ==
  ASSUME Inv, RowsGo
  PROVE  /\ ServedInv'
         /\ \A aspect \in Aspects, n \in Nodes, v \in Nat :
              v <= ver[n] /\ Gone(aspect, n, v) => Gone(aspect, n, v)'
<1>1. ASSUME NEW x \in Present' PROVE Served(x.key, x.row)
  <2>1. CASE Fresh(x)
    BY <2>1 DEF Fresh
  <2>2. ASSUME NEW y \in Present, From(x, y) PROVE Served(x.key, x.row)
    <3>1. Served(y.key, y.row)
      BY DEF Inv, ServedInv
    <3> QED BY <2>2, <3>1 DEF From, Served
  <2> QED BY <2>1, <2>2 DEF RowsGo
<1>2. ASSUME NEW aspect \in Aspects, NEW n \in Nodes, NEW v \in Nat, v <= ver[n], Gone(aspect, n, v),
             NEW x \in Present', x.key = RowKey(aspect, n)
      PROVE  x.row.late \/ x.row.seen[n] >= v
  <2>1. CASE Fresh(x)
    <3>1. n \in About(x.key)
      BY <1>2, RowKeys
    <3>2. x.row.seen[n] = ver[n] /\ ver[n] \in Nat
      BY <2>1, <3>1 DEF Fresh, Inv, TypeInv
    <3> QED BY <1>2, <3>2
  <2>2. ASSUME NEW y \in Present, From(x, y) PROVE x.row.late \/ x.row.seen[n] >= v
    BY <1>2, <2>2 DEF From, Gone
  <2> QED BY <2>1, <2>2 DEF RowsGo
<1> QED BY <1>1, <1>2 DEF ServedInv, Gone

(* A step that settles nothing: invalidations that begin have all their     *)
(* work before them.                                                        *)
LEMMA SweepsGoOn ==
  ASSUME Inv, RowsGo, TypeInv', UNCHANGED settled,
         \A n \in Nodes : ver[n] <= ver'[n] /\ ver'[n] <= changes',
         \A c \in Everyone : job'[c].at = "sweep" =>
           \/ job'[c] = job[c]
           \/ \A aspect \in Aspects, n \in Nodes :
                /\ job'[c].settles[aspect][n] <= ver'[n]
                /\ Covered(job'[c].todo, aspect, n) \/ job'[c].settles[aspect][n] = 0,
         \A i \in 1 .. Len(events') : events'[i].node # Root =>
           \/ \E k \in 1 .. Len(events) : events'[i] = events[k]
           \/ \A aspect \in Aspects, n \in Nodes :
                /\ events'[i].settles[aspect][n] <= ver'[n]
                /\ events'[i].settles[aspect][n] > 0 => Covered(EventTodo(events'[i]), aspect, n)
  PROVE  SweepInv' /\ ServedInv'
<1>1. /\ ServedInv'
      /\ \A aspect \in Aspects, n \in Nodes, v \in Nat :
           v <= ver[n] /\ Gone(aspect, n, v) => Gone(aspect, n, v)'
  BY PresentStep
<1>2. ver \in [Nodes -> Nat] /\ ver' \in [Nodes -> Nat] /\ settled \in Bounds
  BY DEF Inv, TypeInv
<1>3. \A b \in Bounds : \A aspect \in Aspects, n \in Nodes : b[aspect][n] \in Nat
  BY DEF Bounds
<1>4. ASSUME NEW b \in Bounds, Past(b)
      PROVE  \A aspect \in Aspects, n \in Nodes : b[aspect][n] <= ver'[n]
  BY <1>2, <1>3, <1>4 DEF Past
<1>5. Past(settled)' /\ \A aspect \in Aspects, n \in Nodes : Gone(aspect, n, settled[aspect][n])'
  <2>1. Past(settled) /\ \A aspect \in Aspects, n \in Nodes : Gone(aspect, n, settled[aspect][n])
    BY DEF Inv, SweepInv
  <2>2. \A aspect \in Aspects, n \in Nodes : settled'[aspect][n] <= ver'[n]
    BY <1>2, <1>4, <2>1
  <2>3. Past(settled)'
    BY <2>2 DEF Past
  <2>4. ASSUME NEW aspect \in Aspects, NEW n \in Nodes PROVE Gone(aspect, n, settled[aspect][n])'
    <3>1. PICK v \in Nat : v = settled[aspect][n]
      BY <1>2, <1>3
    <3>2. v <= ver[n] /\ Gone(aspect, n, v)
      BY <2>1, <3>1 DEF Past
    <3>3. Gone(aspect, n, v)'
      BY <1>1, <3>2
    <3>4. v = settled'[aspect][n]
      BY <3>1
    <3> QED BY <3>3, <3>4 DEF Gone
  <2> QED BY <2>3, <2>4
<1>6. ASSUME NEW c \in Everyone, job'[c].at = "sweep"
      PROVE  /\ \A aspect \in Aspects, n \in Nodes : job'[c].settles[aspect][n] <= ver'[n]
             /\ \A aspect \in Aspects, n \in Nodes :
                  \/ Covered(job'[c].todo, aspect, n)
                  \/ Gone(aspect, n, job[c].settles[aspect][n])'
  <2>0. job[c].settles \in Bounds /\ job'[c].settles \in Bounds
    BY DEF Inv, TypeInv, Jobs
  <2>1. CASE job'[c] = job[c]
    <3>1. /\ Past(job[c].settles)
          /\ \A aspect \in Aspects, n \in Nodes :
               Covered(job[c].todo, aspect, n) \/ Gone(aspect, n, job[c].settles[aspect][n])
      BY <1>6, <2>1 DEF Inv, SweepInv
    <3>2. \A aspect \in Aspects, n \in Nodes : job'[c].settles[aspect][n] <= ver'[n]
      BY <1>4, <2>0, <2>1, <3>1
    <3>3. ASSUME NEW aspect \in Aspects, NEW n \in Nodes
          PROVE  Covered(job'[c].todo, aspect, n) \/ Gone(aspect, n, job[c].settles[aspect][n])'
      <4>1. CASE Covered(job[c].todo, aspect, n)
        BY <2>1, <4>1
      <4>2. CASE Gone(aspect, n, job[c].settles[aspect][n])
        <5>1. PICK v \in Nat : v = job[c].settles[aspect][n]
          BY <1>3, <2>0
        <5>2. v <= ver[n] /\ Gone(aspect, n, v)
          BY <3>1, <4>2, <5>1 DEF Past
        <5>3. Gone(aspect, n, v)'
          BY <1>1, <5>2
        <5>4. v = job'[c].settles[aspect][n]
          BY <2>1, <5>1
        <5> QED BY <5>3, <5>4 DEF Gone
      <4> QED BY <3>1, <4>1, <4>2
    <3> QED BY <3>2, <3>3
  <2>2. CASE \A aspect \in Aspects, n \in Nodes :
               /\ job'[c].settles[aspect][n] <= ver'[n]
               /\ Covered(job'[c].todo, aspect, n) \/ job'[c].settles[aspect][n] = 0
    <3>1. ASSUME NEW aspect \in Aspects, NEW n \in Nodes, job'[c].settles[aspect][n] = 0
          PROVE  Gone(aspect, n, job[c].settles[aspect][n])'
      <4>1. ASSUME NEW x \in Present', x.key = RowKey(aspect, n)
            PROVE  x.row.seen[n] >= 0
        <5>1. n \in About(x.key)
          BY <4>1, RowKeys
        <5>2. CASE Fresh(x)
          BY <1>2, <5>1, <5>2 DEF Fresh
        <5>3. ASSUME NEW y \in Present, From(x, y) PROVE x.row.seen[n] >= 0
          <6>1. DOMAIN y.row.seen = About(y.key)
            BY DEF Inv, ServedInv, Served
          <6>2. \A k \in DOMAIN y.row.seen : y.row.seen[k] \in Nat
            BY PresentShapes DEF Inv
          <6> QED BY <5>1, <5>3, <6>1, <6>2 DEF From
        <5> QED BY <5>2, <5>3 DEF RowsGo
      <4> QED BY <3>1, <4>1 DEF Gone
    <3> QED BY <2>2, <3>1
  <2> QED BY <1>6, <2>1, <2>2
<1>7. ASSUME NEW i \in 1 .. Len(events'), events'[i].node # Root
      PROVE  \A aspect \in Aspects, n \in Nodes :
               /\ events'[i].settles[aspect][n] <= ver'[n]
               /\ events'[i].settles[aspect][n] > 0 => Covered(EventTodo(events'[i]), aspect, n)
  <2>1. CASE \E k \in 1 .. Len(events) : events'[i] = events[k]
    <3>1. PICK k \in 1 .. Len(events) : events'[i] = events[k]
      BY <2>1
    <3>2. events[k].settles \in Bounds
      <4>1. events[k] \in Events
        BY ElementOfSeq DEF Inv, TypeInv
      <4> QED BY <4>1 DEF Events
    <3>3. /\ Past(events[k].settles)
          /\ \A aspect \in Aspects, n \in Nodes :
               events[k].settles[aspect][n] > 0 => Covered(EventTodo(events[k]), aspect, n)
      BY <1>7, <3>1 DEF Inv, SweepInv
    <3>4. \A aspect \in Aspects, n \in Nodes : events[k].settles[aspect][n] <= ver'[n]
      BY <1>4, <3>2, <3>3
    <3> QED BY <3>1, <3>3, <3>4
  <2> QED BY <1>7, <2>1
<1> QED BY <1>1, <1>5, <1>6, <1>7 DEF SweepInv, Past
-----------------------------------------------------------------------------
(* What the backend serves.                                                *)

LEMMA SetToSeqIn ==
  ASSUME NEW S, IsFiniteSet(S), NEW i \in 1 .. Cardinality(S)
  PROVE  SetToSeq(S)[i] \in S
<1>1. ExistsBijection(1 .. Cardinality(S), S)
  BY FS_CardinalityType
<1>2. \E f \in [1 .. Cardinality(S) -> S] : IsInjective(f)
  BY <1>1 DEF ExistsBijection, Bijection, Injection
<1>3. SetToSeq(S) \in [1 .. Cardinality(S) -> S]
  BY <1>2 DEF SetToSeq
<1> QED BY <1>3

(* A row of the backend as it is.                                           *)
LEMMA NewRow ==
  ASSUME TypeInv, NEW shown, NEW about \in SUBSET Nodes, shown \subseteq about,
         NEW flags \in SUBSET Flags, NEW carried \in SUBSET Flags, NEW row, row = Row(shown, about, flags, carried)
  PROVE  /\ row \in Rows /\ row.shown = shown /\ row.flags = flags /\ row.carried = carried
         /\ row.complete = (shown = {n \in about : here[n]})
         /\ row.seen = [n \in about |-> ver[n]] /\ row.there = [n \in about |-> here[n]]
<1>1. /\ [n \in about |-> ver[n]] \in [about -> Nat]
      /\ [n \in about |-> here[n]] \in [about -> BOOLEAN]
  BY DEF TypeInv
<1>2. shown \in SUBSET Nodes /\ (shown = {n \in about : here[n]}) \in BOOLEAN
  OBVIOUS
<1>3. row.seen = [n \in about |-> ver[n]] /\ row.there = [n \in about |-> here[n]]
  BY DEF Row
<1>4. row \in Rows
  BY <1>1, <1>2 DEF Row, Rows
<1> QED BY <1>3, <1>4 DEF Row

LEMMA StatRow ==
  ASSUME TypeInv, NEW n \in Nodes, here[n], NEW flags \in SUBSET Flags, NEW item,
         item = [key |-> <<"Stat", n>>, row |-> Row({n}, {n}, flags, flags)]
  PROVE  item \in Items /\ Fresh(item)
<1>1. PICK row : row = Row({n}, {n}, flags, flags)
  OBVIOUS
<1>2. /\ row \in Rows /\ row.flags = flags /\ row.carried = flags
      /\ row.seen = [k \in {n} |-> ver[k]] /\ row.there = [k \in {n} |-> here[k]]
  <2>1. PICK a \in SUBSET Nodes : a = {n}
    OBVIOUS
  <2>2. row = Row(a, a, flags, flags) /\ a \subseteq a
    BY <1>1, <2>1
  <2>3. /\ row \in Rows /\ row.flags = flags /\ row.carried = flags
        /\ row.seen = [k \in a |-> ver[k]] /\ row.there = [k \in a |-> here[k]]
    BY <2>2, NewRow
  <2> QED BY <2>1, <2>3
<1>3. <<"Stat", n>> \in Keys /\ About(<<"Stat", n>>) = {n}
  BY DEF Keys, About
<1>4. here[n] = TRUE
  BY DEF TypeInv
<1>5. item.key = <<"Stat", n>> /\ item.row = row /\ item \in Items
  BY <1>1, <1>2, <1>3 DEF Items
<1>6. Served(<<"Stat", n>>, row)
  BY <1>2, <1>3, <1>4 DEF Served
<1> QED BY <1>2, <1>3, <1>5, <1>6 DEF Fresh

LEMMA PageOK ==
  ASSUME TypeInv, NEW p \in Directories \cup {Root}, NEW want \in SUBSET Flags, NEW row \in Listed(p, want)
  PROVE  /\ PageRows(p, row) \in Seq(Items) /\ PageRows(p, row) # <<>>
         /\ \A i \in 1 .. Len(PageRows(p, row)) : Fresh(PageRows(p, row)[i])
<1>1. PICK shown \in Pages(p) : row = Row(shown, Children(p), ListFlags(want), ListCarries(want))
  BY DEF Listed
<1>2. shown \subseteq {n \in Children(p) : here[n]} /\ Children(p) \subseteq Nodes
  BY DEF Pages, Children
<1>3. ListFlags(want) \in SUBSET Flags /\ ListCarries(want) \in SUBSET Flags /\ ListFlags(want) = ListCarries(want)
  BY DEF ListFlags, ListCarries
<1>4. /\ row \in Rows /\ row.shown = shown /\ row.flags = ListFlags(want) /\ row.carried = ListFlags(want)
      /\ row.complete = (shown = {n \in Children(p) : here[n]})
      /\ row.seen = [n \in Children(p) |-> ver[n]] /\ row.there = [n \in Children(p) |-> here[n]]
  BY <1>1, <1>2, <1>3, NewRow
<1> DEFINE first == [key |-> <<"List", p>>, row |-> row]
           node(i) == SetToSeq(row.shown \cap Files)[i]
           item(i) == [key |-> <<"Stat", node(i)>>,
                       row |-> [row EXCEPT !.shown = {node(i)}, !.complete = TRUE,
                                           !.seen = [m \in {node(i)} |-> row.seen[m]],
                                           !.there = [m \in {node(i)} |-> row.there[m]]]]
           rest == [i \in 1 .. Cardinality(row.shown \cap Files) |-> item(i)]
<1>5. first \in Items /\ Fresh(first)
  <2>1. <<"List", p>> \in Keys /\ About(<<"List", p>>) = Children(p)
    BY DEF Keys, About
  <2>2. first.key = <<"List", p>> /\ first.row = row /\ first \in Items
    BY <1>4, <2>1 DEF Items
  <2>3. \A n \in Children(p) : here[n] \in BOOLEAN
    BY <1>2 DEF TypeInv
  <2>4. Served(<<"List", p>>, row)
    <3>1. DOMAIN row.seen = Children(p) /\ DOMAIN row.there = Children(p) /\ row.flags = row.carried
      BY <1>4
    <3>2. \A n \in Children(p) : row.there[n] = here[n]
      BY <1>4
    <3>3. row.shown \subseteq Children(p) /\ \A n \in row.shown : row.there[n] = TRUE
      BY <1>2, <1>4, <2>3, <3>2
    <3>4. row.complete => \A n \in Children(p) \ row.shown : row.there[n] = FALSE
      BY <1>4, <2>3, <3>2
    <3>5. <<"List", p>>[1] = "List"
      OBVIOUS
    <3> QED BY <2>1, <3>1, <3>3, <3>4, <3>5 DEF Served
  <2> QED BY <1>4, <2>1, <2>2, <2>4 DEF Fresh
<1>6. IsFiniteSet(row.shown \cap Files)
  <2>1. IsFiniteSet(Nodes)
    BY TreeAssumption DEF Nodes
  <2>2. row.shown \cap Files \subseteq Nodes
    BY DEF Nodes
  <2> QED BY <2>1, <2>2, FS_Subset
<1>7. ASSUME NEW i \in 1 .. Cardinality(row.shown \cap Files)
      PROVE  item(i) \in Items /\ Fresh(item(i))
  <2>1. PICK n : n = node(i)
    OBVIOUS
  <2>2. n \in shown /\ n \in Nodes /\ n \in Children(p) /\ here[n] = TRUE
    <3>1. n \in row.shown \cap Files
      BY <1>6, <2>1, SetToSeqIn
    <3> QED BY <1>2, <1>4, <3>1 DEF TypeInv
  <2>3. PICK r : r = [row EXCEPT !.shown = {n}, !.complete = TRUE,
                                 !.seen = [m \in {n} |-> row.seen[m]],
                                 !.there = [m \in {n} |-> row.there[m]]]
    OBVIOUS
  <2>4. /\ row.seen[n] = ver[n] /\ row.there[n] = TRUE /\ ver[n] \in Nat
    BY <1>4, <2>2 DEF TypeInv
  <2>5. /\ [m \in {n} |-> row.seen[m]] \in [{n} -> Nat]
        /\ [m \in {n} |-> row.there[m]] \in [{n} -> BOOLEAN]
        /\ {n} \in SUBSET Nodes
    BY <2>2, <2>4
  <2>6. /\ r.seen = [m \in {n} |-> row.seen[m]] /\ r.there = [m \in {n} |-> row.there[m]]
        /\ r.flags = row.flags /\ r.carried = row.carried
    BY <1>4, <2>3 DEF Rows
  <2>7. r \in Rows
    <3>1. /\ r.shown = {n} /\ r.complete = TRUE /\ r.live = row.live /\ r.late = row.late
          /\ r = [shown |-> r.shown, complete |-> r.complete, seen |-> r.seen, there |-> r.there,
                  flags |-> r.flags, carried |-> r.carried, live |-> r.live, late |-> r.late]
      BY <1>4, <2>3 DEF Rows
    <3>2. /\ row.flags \in SUBSET Flags /\ row.carried \in SUBSET Flags
          /\ row.live \in BOOLEAN /\ row.late \in BOOLEAN
      BY <1>4 DEF Rows
    <3>3. r.seen \in UNION {[A -> Nat] : A \in SUBSET Nodes}
      BY <2>5, <2>6
    <3>4. r.there \in UNION {[A -> BOOLEAN] : A \in SUBSET Nodes}
      BY <2>5, <2>6
    <3> QED BY <2>5, <2>6, <3>1, <3>2, <3>3, <3>4 DEF Rows
  <2>8. <<"Stat", n>> \in Keys /\ About(<<"Stat", n>>) = {n}
    BY <2>2 DEF Keys, About
  <2>9. Served(<<"Stat", n>>, r)
    BY <1>4, <2>4, <2>6, <2>8 DEF Served
  <2>10. item(i).key = <<"Stat", n>> /\ item(i).row = r /\ item(i) \in Items
    BY <2>1, <2>3, <2>7, <2>8 DEF Items
  <2>11. r.seen[n] = ver[n]
    BY <2>4, <2>6
  <2> HIDE DEF item
  <2> QED BY <2>8, <2>9, <2>10, <2>11 DEF Fresh
<1> HIDE DEF first, item
<1>8. Cardinality(row.shown \cap Files) \in Nat
  BY <1>6, FS_CardinalityType
<1>9. rest \in Seq(Items) /\ Len(rest) = Cardinality(row.shown \cap Files)
      /\ \A i \in 1 .. Len(rest) : rest[i] = item(i)
  <2>1. rest \in [1 .. Cardinality(row.shown \cap Files) -> Items]
    BY <1>7
  <2>2. \A i \in 1 .. Cardinality(row.shown \cap Files) : rest[i] = item(i)
    OBVIOUS
  <2>3. \A m \in Nat : \A f \in [1 .. m -> Items] : f \in Seq(Items) /\ Len(f) = m
    OBVIOUS
  <2> HIDE DEF rest
  <2> QED BY <1>8, <2>1, <2>2, <2>3
<1>10. <<first>> \in Seq(Items) /\ Len(<<first>>) = 1 /\ <<first>>[1] = first
  BY <1>5
<1> HIDE DEF rest
<1>11. /\ <<first>> \o rest \in Seq(Items) /\ Len(<<first>> \o rest) = 1 + Len(rest)
       /\ \A i \in 1 .. 1 + Len(rest) : (<<first>> \o rest)[i] = IF i <= 1 THEN <<first>>[i] ELSE rest[i - 1]
  BY <1>9, <1>10, ConcatProperties
<1>12. PageRows(p, row) = <<first>> \o rest
  BY DEF PageRows, first, rest, item
<1>13. ASSUME NEW i \in 1 .. 1 + Len(rest) PROVE Fresh((<<first>> \o rest)[i])
  <2>1. CASE i = 1
    BY <1>5, <1>10, <1>11, <2>1
  <2>2. CASE i > 1
    <3>1. PICK k : k = i - 1
      OBVIOUS
    <3>2. k \in 1 .. Len(rest) /\ k \in 1 .. Cardinality(row.shown \cap Files)
      BY <1>8, <1>9, <2>2, <3>1
    <3>3. (<<first>> \o rest)[i] = item(k)
      <4>1. (<<first>> \o rest)[i] = rest[i - 1]
        BY <1>8, <1>9, <1>11, <2>2
      <4> QED BY <1>9, <3>1, <3>2, <4>1
    <3> QED BY <1>7, <3>2, <3>3
  <2> QED BY <1>8, <1>9, <2>1, <2>2
<1>14. <<first>> \o rest # <<>>
  <2>1. Len(<<first>> \o rest) # 0
    BY <1>8, <1>9, <1>11
  <2> QED BY <2>1, EmptySeq
<1> QED BY <1>11, <1>12, <1>13, <1>14
-----------------------------------------------------------------------------
(* Reads.                                                                  *)

LEMMA IdleOK == Idle \in Jobs /\ JobOK(Idle) /\ Idle.at = "idle" /\ RowsOf(Idle) = {}
<1>1. Nothing \in Bounds
  BY DEF Nothing, Settles, Bounds
<1>2. <<>> \in Seq(Items)
  BY EmptySeq
<1>3. Idle \in Jobs
  BY <1>1, <1>2 DEF Idle, Jobs
<1>4. Idle.at = "idle"
  BY DEF Idle
<1> QED BY <1>3, <1>4 DEF JobOK, RowsOf, Filling

(* Nobody stores a row: the store only loses some.                          *)
Shrinks == /\ "rows" \in DOMAIN cache' /\ DOMAIN cache'.rows \subseteq DOMAIN cache.rows
           /\ \A k \in DOMAIN cache'.rows : cache'.rows[k] = cache.rows[k]

LEMMA ShrinksGo ==
  ASSUME TypeInv, Shrinks, \A c \in Everyone : \A x \in OnItsWay(c)' : x \in OnItsWay(c) \/ Fresh(x)
  PROVE  RowsGo
<1>1. \A x : From(x, x)
  BY DEF From
<1>2. ASSUME NEW x \in Stored' PROVE x \in Stored
  BY DEF Stored, Shrinks
<1>3. ASSUME NEW x \in Present' PROVE x \in Present \/ Fresh(x)
  BY <1>2 DEF Present
<1> QED BY <1>1, <1>3 DEF RowsGo

LEMMA ReadStep ==
  ASSUME Inv, NEW c \in Callers, NEW j \in Jobs, JobOK(j), j.at # "sweep", Becomes(c, j), Quiet, Shrinks,
         \A x \in RowsOf(j) : Fresh(x)
  PROVE  Inv'
<1>1. TypeInv
  BY DEF Inv
<1>2. c \in Everyone /\ job' = [job EXCEPT ![c] = j] /\ UNCHANGED <<scen, ver, here, changes, stream, events, settled>>
  BY DEF Everyone, Becomes, Quiet, backend
<1>3. \A b \in Everyone : job'[b] = IF b = c THEN j ELSE job[b]
  BY <1>1, <1>2 DEF TypeInv
<1>4. TypeInv'
  <2>1. job' \in [Everyone -> Jobs] /\ \A b \in Everyone : JobOK(job'[b])
    BY <1>1, <1>2, <1>3 DEF TypeInv
  <2>2. /\ "rows" \in DOMAIN cache' /\ DOMAIN cache'.rows \subseteq Keys
        /\ \A key \in DOMAIN cache'.rows : cache'.rows[key] \in Rows
    BY <1>1 DEF TypeInv, Shrinks
  <2> QED BY <1>1, <1>2, <2>1, <2>2 DEF TypeInv
<1>5. RowsGo
  <2>1. \A b \in Everyone : \A x \in OnItsWay(b)' : x \in OnItsWay(b) \/ Fresh(x)
    BY <1>3 DEF OnItsWay
  <2> QED BY <1>1, <2>1, ShrinksGo
<1>6. \A n \in Nodes : ver[n] <= ver'[n] /\ ver'[n] <= changes'
  BY <1>1, <1>2 DEF Inv, SweepInv, TypeInv
<1>7. \A b \in Everyone : job'[b].at = "sweep" => job'[b] = job[b]
  BY <1>3
<1>8. \A i \in 1 .. Len(events') : \E k \in 1 .. Len(events) : events'[i] = events[k]
  BY <1>2
<1>9. SweepInv' /\ ServedInv'
  BY <1>2, <1>4, <1>5, <1>6, <1>7, <1>8, SweepsGoOn
<1> QED BY <1>4, <1>9 DEF Inv

LEMMA StatLookupStep ==
  ASSUME Inv, NEW c \in Callers, NEW n \in Nodes, NEW want \in SUBSET Flags, StatLookup(c, n, want)
  PROVE  Inv'
<1> DEFINE key == <<"Stat", n>>
           found == Lookup(cache, key, want)
           up == want \cup (IF found = "Narrower" THEN cache.rows[key].flags ELSE {})
           j == [Idle EXCEPT !.at = "parent", !.node = n, !.want = want, !.up = up]
<1>1. Shrinks
  BY StoreOps DEF StatLookup, Shrinks, Inv, TypeInv
<1>2. Quiet /\ Becomes(c, IF found = "Hit" THEN Idle ELSE j)
  BY DEF StatLookup
<1>3. up \in SUBSET Flags
  <2>1. found = "Narrower" => key \in DOMAIN cache.rows
    BY DEF Lookup, Holds
  <2>2. \A r \in Rows : r.flags \in SUBSET Flags
    BY DEF Rows
  <2> QED BY <2>1, <2>2 DEF Inv, TypeInv
<1> HIDE DEF up
<1>4. j \in Jobs /\ j.at = "parent" /\ j.node = n
  BY <1>3, IdleOK DEF Jobs
<1>5. JobOK(j) /\ RowsOf(j) = {}
  BY <1>4 DEF JobOK, RowsOf, Filling
<1> HIDE DEF j
<1> QED BY <1>1, <1>2, <1>4, <1>5, IdleOK, ReadStep

LEMMA ParentLookupStep ==
  ASSUME Inv, NEW c \in Callers, ParentLookup(c)
  PROVE  Inv'
<1>1. Shrinks
  BY StoreOps DEF ParentLookup, Shrinks, Inv, TypeInv
<1>2. job[c] \in Jobs /\ job[c].node \in Nodes
  BY DEF ParentLookup, Inv, TypeInv, JobOK, Everyone
<1>3. PICK j \in {Idle, [job[c] EXCEPT !.at = "offer"], [job[c] EXCEPT !.at = "direct"]} : Becomes(c, j)
  <2> DEFINE key == <<"List", Parent[job[c].node]>>
             hit == Lookup(cache, key, job[c].want) = "Hit"
  <2>1. CASE hit /\ FindInPage(cache.rows[key], job[c].node) # "Unavailable"
    BY <2>1 DEF ParentLookup
  <2>2. CASE ~hit /\ job[c].want = {}
    BY <2>2 DEF ParentLookup
  <2>3. CASE ~(hit /\ FindInPage(cache.rows[key], job[c].node) # "Unavailable") /\ ~(~hit /\ job[c].want = {})
    BY <2>3 DEF ParentLookup
  <2> QED BY <2>1, <2>2, <2>3
<1>4. CASE j = Idle
  BY <1>1, <1>3, <1>4, IdleOK, ReadStep DEF ParentLookup
<1>5. CASE j # Idle
  <2>1. j \in Jobs /\ j.at \in {"offer", "direct"} /\ j.node \in Nodes
    BY <1>2, <1>3, <1>5 DEF Jobs
  <2>2. JobOK(j) /\ RowsOf(j) = {} /\ j.at # "sweep"
    BY <2>1 DEF JobOK, RowsOf, Filling
  <2> QED BY <1>1, <1>3, <2>1, <2>2, ReadStep DEF ParentLookup
<1> QED BY <1>4, <1>5

(* The request goes on to store what the backend served.                    *)
LEMMA ServedJob ==
  ASSUME Inv, NEW c \in Callers, NEW j \in Jobs, NEW at \in Filling, NEW todo \in Seq(Items), todo # <<>>,
         \A i \in 1 .. Len(todo) : Fresh(todo[i]),
         Becomes(c, [j EXCEPT !.at = at, !.todo = todo]), at = "fill_then_stat" => j.node \in Nodes,
         UNCHANGED cache, Quiet
  PROVE  Inv'
<1>1. PICK k : k = [j EXCEPT !.at = at, !.todo = todo]
  OBVIOUS
<1>2. k \in Jobs /\ k.at = at /\ k.todo = todo /\ k.node = j.node
  BY <1>1 DEF Jobs, Filling
<1>3. JobOK(k)
  BY <1>2 DEF JobOK, Filling
<1>4. \A x \in RowsOf(k) : Fresh(x)
  BY <1>2 DEF RowsOf
<1>5. k.at # "sweep"
  BY <1>2 DEF Filling
<1>6. Shrinks
  BY DEF Shrinks, Inv, TypeInv
<1> QED BY <1>1, <1>2, <1>3, <1>4, <1>5, <1>6, ReadStep

LEMMA FreshListingStep ==
  ASSUME Inv, NEW c \in Callers, FreshListing(c)
  PROVE  Inv'
<1>1. job[c] \in Jobs /\ job[c].node \in Nodes /\ UNCHANGED cache /\ Quiet
  BY DEF FreshListing, Inv, TypeInv, JobOK, Everyone
<1>2. CASE Becomes(c, [job[c] EXCEPT !.at = "direct"])
  <2>1. PICK j : j = [job[c] EXCEPT !.at = "direct"]
    OBVIOUS
  <2>2. j \in Jobs /\ j.at = "direct" /\ j.node \in Nodes
    BY <1>1, <2>1 DEF Jobs
  <2>3. JobOK(j) /\ RowsOf(j) = {}
    BY <2>2 DEF JobOK, RowsOf, Filling
  <2>4. Shrinks
    BY <1>1 DEF Shrinks, Inv, TypeInv
  <2> QED BY <1>1, <1>2, <2>1, <2>2, <2>3, <2>4, ReadStep
<1>3. ASSUME NEW row \in Listed(Parent[job[c].node], {}),
             Becomes(c, [job[c] EXCEPT !.at = IF FindInPage(row, job[c].node) = "Unavailable"
                                              THEN "fill_then_stat" ELSE "fill",
                                       !.todo = PageRows(Parent[job[c].node], row)])
      PROVE  Inv'
  <2>1. PICK at \in Filling : at = IF FindInPage(row, job[c].node) = "Unavailable" THEN "fill_then_stat" ELSE "fill"
    BY DEF Filling
  <2>2. Parent[job[c].node] \in Directories \cup {Root}
    BY <1>1, TreeAssumption DEF Nodes
  <2>3. PICK todo : todo = PageRows(Parent[job[c].node], row)
    OBVIOUS
  <2>4. todo \in Seq(Items) /\ todo # <<>> /\ \A i \in 1 .. Len(todo) : Fresh(todo[i])
    BY <2>2, <2>3, PageOK DEF Inv
  <2> QED BY <1>1, <1>3, <2>1, <2>3, <2>4, ServedJob
<1> QED BY <1>2, <1>3 DEF FreshListing

LEMMA DirectStatStep ==
  ASSUME Inv, NEW c \in Callers, DirectStat(c)
  PROVE  Inv'
<1>1. job[c] \in Jobs /\ job[c].node \in Nodes /\ UNCHANGED cache /\ Quiet /\ job[c].up \in SUBSET Flags
  BY DEF DirectStat, Inv, TypeInv, JobOK, Everyone, Jobs
<1>2. CASE Becomes(c, Idle)
  <2>1. Shrinks
    BY <1>1 DEF Shrinks, Inv, TypeInv
  <2> QED BY <1>1, <1>2, <2>1, IdleOK, ReadStep
<1>3. CASE /\ here[job[c].node]
           /\ Becomes(c, [job[c] EXCEPT !.at = "fill",
                            !.todo = <<[key |-> <<"Stat", job[c].node>>,
                                        row |-> Row({job[c].node}, {job[c].node}, job[c].up, job[c].up)]>>])
  <2>1. PICK item : item = [key |-> <<"Stat", job[c].node>>,
                            row |-> Row({job[c].node}, {job[c].node}, job[c].up, job[c].up)]
    OBVIOUS
  <2>2. item \in Items /\ Fresh(item)
    BY <1>1, <1>3, <2>1, StatRow DEF Inv
  <2>3. PICK todo : todo = <<item>>
    OBVIOUS
  <2>4. todo \in Seq(Items) /\ todo # <<>> /\ Len(todo) = 1 /\ todo[1] = item
    BY <2>2, <2>3
  <2>5. \A i \in 1 .. Len(todo) : Fresh(todo[i])
    BY <2>2, <2>4
  <2>6. "fill" \in Filling
    BY DEF Filling
  <2> QED BY <1>1, <1>3, <2>1, <2>3, <2>4, <2>5, <2>6, ServedJob
<1> QED BY <1>2, <1>3 DEF DirectStat

LEMMA ListStep ==
  ASSUME Inv, NEW c \in Callers, NEW p \in Directories \cup {Root}, NEW want \in SUBSET Flags, List(c, p, want)
  PROVE  Inv'
<1>1. PICK row \in Listed(p, want) : Becomes(c, [Idle EXCEPT !.at = "fill", !.todo = PageRows(p, row)])
  BY DEF List
<1>2. UNCHANGED cache /\ Quiet
  BY DEF List
<1>3. PICK todo : todo = PageRows(p, row)
  OBVIOUS
<1>4. todo \in Seq(Items) /\ todo # <<>> /\ \A i \in 1 .. Len(todo) : Fresh(todo[i])
  BY <1>3, PageOK DEF Inv
<1>5. "fill" \in Filling
  BY DEF Filling
<1> QED BY <1>1, <1>2, <1>3, <1>4, <1>5, IdleOK, ServedJob

LEMMA FillStep ==
  ASSUME Inv, NEW c \in Callers, Fill(c)
  PROVE  Inv'
<1>1. TypeInv /\ c \in Everyone
  BY DEF Inv, Everyone
<1>2. PICK j : j = job[c]
  OBVIOUS
<1>3. /\ j \in Jobs /\ j.at \in Filling /\ j.todo # <<>> /\ j.todo \in Seq(Items)
      /\ j.at = "fill_then_stat" => j.node \in Nodes
  BY <1>1, <1>2 DEF Fill, TypeInv, JobOK, Filling
<1>4. PICK q : q = j.todo
  OBVIOUS
<1>5. /\ Len(q) \in Nat /\ Len(q) > 0 /\ Head(q) = q[1] /\ Tail(q) \in Seq(Items) /\ Len(Tail(q)) = Len(q) - 1
      /\ \A i \in 1 .. Len(Tail(q)) : Tail(q)[i] = q[i + 1]
  BY <1>3, <1>4, HeadTailProperties, EmptySeq
<1>6. PICK item : item = Head(q)
  OBVIOUS
<1>7. item \in Items /\ item \in OnItsWay(c) /\ item = [key |-> item.key, row |-> item.row]
  <2>1. 1 \in 1 .. Len(q) /\ item = q[1]
    BY <1>5, <1>6
  <2>2. item \in Items
    BY <1>3, <1>4, <2>1, ElementOfSeq
  <2>3. item \in OnItsWay(c)
    BY <1>2, <1>3, <1>4, <2>1 DEF OnItsWay, RowsOf
  <2> QED BY <2>2, <2>3 DEF Items
<1>8. PICK rest : rest = [j EXCEPT !.todo = Tail(q)]
  OBVIOUS
<1>9. rest \in Jobs /\ rest.at = j.at /\ rest.todo = Tail(q) /\ rest.node = j.node
  BY <1>3, <1>5, <1>8 DEF Jobs
<1>10. PICK k : k = IF rest.todo # <<>> THEN rest
                    ELSE IF j.at = "fill" THEN Idle ELSE [rest EXCEPT !.at = "direct"]
  OBVIOUS
<1>11. /\ \E newer : cache' = Insert(cache, item.key, item.row, newer)
       /\ job' = [job EXCEPT ![c] = k]
       /\ UNCHANGED <<scen, ver, here, changes, stream, events, settled>>
  BY <1>2, <1>4, <1>6, <1>8, <1>10 DEF Fill, Becomes, Quiet, backend
<1>12. k \in Jobs /\ JobOK(k) /\ k.at # "sweep" /\ RowsOf(k) \subseteq OnItsWay(c)
  <2>1. CASE rest.todo # <<>>
    <3>1. k = rest
      BY <1>10, <2>1
    <3>2. JobOK(rest)
      BY <1>3, <1>5, <1>9, <2>1 DEF JobOK, Filling
    <3>3. ASSUME NEW x \in RowsOf(rest) PROVE x \in OnItsWay(c)
      <4>1. PICK i \in 1 .. Len(Tail(q)) : x = Tail(q)[i]
        BY <1>3, <1>9 DEF RowsOf
      <4>2. x = q[i + 1] /\ i + 1 \in 1 .. Len(q)
        BY <1>5, <4>1
      <4> QED BY <1>2, <1>3, <1>4, <4>2 DEF OnItsWay, RowsOf
    <3> QED BY <1>3, <1>9, <3>1, <3>2, <3>3 DEF Filling
  <2>2. CASE rest.todo = <<>> /\ j.at = "fill"
    <3>1. k = Idle
      BY <1>10, <2>2
    <3> QED BY <3>1, IdleOK
  <2>3. CASE rest.todo = <<>> /\ j.at # "fill"
    <3>1. k = [rest EXCEPT !.at = "direct"]
      BY <1>10, <2>3
    <3>2. j.at = "fill_then_stat"
      BY <1>3, <2>3 DEF Filling
    <3>3. k \in Jobs /\ k.at = "direct" /\ k.node \in Nodes
      BY <1>3, <1>9, <3>1, <3>2 DEF Jobs
    <3> QED BY <3>3 DEF JobOK, RowsOf, Filling
  <2> QED BY <2>1, <2>2, <2>3
<1>13. /\ "rows" \in DOMAIN cache' /\ DOMAIN cache'.rows \subseteq DOMAIN cache.rows \cup {item.key}
       /\ \A key \in DOMAIN cache'.rows : cache'.rows[key] = IF key = item.key THEN item.row ELSE cache.rows[key]
  BY <1>1, <1>11, StoreOps DEF TypeInv
<1>14. \A b \in Everyone : job'[b] = IF b = c THEN k ELSE job[b]
  BY <1>1, <1>11 DEF TypeInv
<1>15. TypeInv'
  <2>1. job' \in [Everyone -> Jobs] /\ \A b \in Everyone : JobOK(job'[b])
    BY <1>1, <1>11, <1>12, <1>14 DEF TypeInv
  <2>2. item.key \in Keys /\ item.row \in Rows
    BY <1>7 DEF Items
  <2>3. DOMAIN cache'.rows \subseteq Keys /\ \A key \in DOMAIN cache'.rows : cache'.rows[key] \in Rows
    BY <1>1, <1>13, <2>2 DEF TypeInv
  <2> QED BY <1>1, <1>11, <1>13, <2>1, <2>3 DEF TypeInv
<1>16. RowsGo
  <2>1. ASSUME NEW x \in Stored' PROVE x \in Stored \/ x = item
    <3>1. PICK key \in DOMAIN cache'.rows : x = [key |-> key, row |-> cache'.rows[key]]
      BY DEF Stored
    <3>2. CASE key = item.key
      BY <1>7, <1>13, <3>1, <3>2
    <3>3. CASE key # item.key
      BY <1>13, <3>1, <3>3 DEF Stored
    <3> QED BY <3>2, <3>3
  <2>2. ASSUME NEW b \in Everyone, NEW x \in OnItsWay(b)' PROVE x \in OnItsWay(b)
    BY <1>12, <1>14 DEF OnItsWay
  <2>3. Present' \subseteq Present
    BY <1>1, <1>7, <2>1, <2>2 DEF Present
  <2>4. \A x : From(x, x)
    BY DEF From
  <2> QED BY <2>3, <2>4 DEF RowsGo
<1>17. \A n \in Nodes : ver[n] <= ver'[n] /\ ver'[n] <= changes'
  BY <1>1, <1>11 DEF Inv, SweepInv, TypeInv
<1>18. \A b \in Everyone : job'[b].at = "sweep" => job'[b] = job[b]
  BY <1>12, <1>14
<1>19. \A i \in 1 .. Len(events') : \E m \in 1 .. Len(events) : events'[i] = events[m]
  BY <1>11
<1>20. SweepInv' /\ ServedInv'
  BY <1>11, <1>15, <1>16, <1>17, <1>18, <1>19, SweepsGoOn
<1> QED BY <1>15, <1>20 DEF Inv

(* Time: rows expire and are purged.                                        *)
LEMMA ExpireStep ==
  ASSUME Inv, (\E key \in DOMAIN cache.rows : Expire(key)) \/ Purge
  PROVE  Inv'
<1>1. TypeInv /\ UNCHANGED <<scen, ver, here, changes, job, stream, events, settled>>
  BY DEF Inv, Expire, Purge, backend
<1>2. \A c \in Everyone : OnItsWay(c)' = OnItsWay(c)
  BY <1>1 DEF OnItsWay
<1>3. TypeInv' /\ RowsGo
  <2>1. CASE Purge
    <3>1. Shrinks
      BY <1>1, <2>1, StoreOps DEF Purge, Shrinks, TypeInv
    <3>2. RowsGo
      BY <1>1, <1>2, <3>1, ShrinksGo
    <3>3. TypeInv'
      BY <1>1, <3>1 DEF TypeInv, Shrinks
    <3> QED BY <3>2, <3>3
  <2>2. ASSUME NEW key \in DOMAIN cache.rows, Expire(key) PROVE TypeInv' /\ RowsGo
    <3>1. PICK r : r = [cache.rows[key] EXCEPT !.live = FALSE]
      OBVIOUS
    <3>2. /\ "rows" \in DOMAIN cache' /\ cache'.rows = [cache.rows EXCEPT ![key] = r]
      BY <1>1, <2>2, <3>1 DEF Expire, TypeInv
    <3>3. DOMAIN cache'.rows = DOMAIN cache.rows
          /\ \A k \in DOMAIN cache.rows : cache'.rows[k] = IF k = key THEN r ELSE cache.rows[k]
      BY <3>2
    <3>4. /\ r \in Rows /\ cache.rows[key] \in Rows
          /\ r.shown = cache.rows[key].shown /\ r.complete = cache.rows[key].complete
          /\ r.seen = cache.rows[key].seen /\ r.there = cache.rows[key].there
          /\ r.flags = cache.rows[key].flags /\ r.carried = cache.rows[key].carried
          /\ r.late = cache.rows[key].late
      BY <1>1, <3>1 DEF TypeInv, Rows
    <3>5. TypeInv'
      BY <1>1, <3>2, <3>3, <3>4 DEF TypeInv
    <3>6. ASSUME NEW x \in Stored' PROVE \E y \in Stored : From(x, y)
      <4>1. PICK k \in DOMAIN cache.rows : x = [key |-> k, row |-> cache'.rows[k]]
        BY <3>3 DEF Stored
      <4>2. PICK y : y = [key |-> k, row |-> cache.rows[k]]
        OBVIOUS
      <4>3. y \in Stored
        BY <4>2 DEF Stored
      <4>4. From(x, y)
        BY <3>3, <3>4, <4>1, <4>2 DEF From
      <4> QED BY <4>3, <4>4
    <3>7. \A x : From(x, x)
      BY DEF From
    <3>8. ASSUME NEW x \in Present' PROVE \E y \in Present : From(x, y)
      BY <1>2, <3>6, <3>7 DEF Present
    <3> QED BY <3>5, <3>8 DEF RowsGo
  <2> QED BY <2>1, <2>2
<1>4. \A n \in Nodes : ver[n] <= ver'[n] /\ ver'[n] <= changes'
  BY <1>1 DEF Inv, SweepInv, TypeInv
<1>5. SweepInv' /\ ServedInv'
  BY <1>1, <1>3, <1>4, SweepsGoOn
<1> QED BY <1>3, <1>5 DEF Inv
-----------------------------------------------------------------------------
(* What the invalidations reach.                                           *)

LEMMA Reached ==
  ASSUME NEW n \in Nodes
  PROVE  /\ RowKey("Stat", n) \in Matched("address", n)
         /\ \A m \in Above[n] \ {Root} : m \in Nodes /\ RowKey("List", m) \in Matched("lists", n)
         /\ \A m \in Subtree(n) : /\ m \in Nodes /\ RowKey("Stat", m) \in Matched("prefix", n)
                                  /\ m # n => RowKey("List", m) \in Matched("prefix", n)
         /\ n \in Above[n] /\ n # Root
<1>1. "Stat" \in Aspects /\ "List" \in Aspects
  BY DEF Aspects
<1>2. n \in Above[n] /\ n # Root
  BY AboveAssumption, TreeAssumption DEF Nodes
<1>3. RowKey("Stat", n) \in Matched("address", n)
  <2>1. RowKey("Stat", n) = <<"Stat", n>> /\ RowKey("Stat", n) \in Keys
    BY <1>1, RowKeys DEF RowKey
  <2>2. Matched("address", n) = {key \in Keys : key[2] = n}
    BY DEF Matched
  <2> QED BY <2>1, <2>2
<1>4. ASSUME NEW m \in Above[n] \ {Root} PROVE m \in Nodes /\ RowKey("List", m) \in Matched("lists", n)
  <2>1. m \in Nodes /\ Parent[m] \in Above[n]
    BY AboveAssumption
  <2>2. RowKey("List", m) = <<"List", Parent[m]>> /\ RowKey("List", m) \in Keys
    BY <1>1, <2>1, RowKeys DEF RowKey
  <2>3. Matched("lists", n) = {key \in Keys : key[1] = "List" /\ key[2] \in Above[n]}
    BY DEF Matched, UnderPrefix
  <2> QED BY <2>1, <2>2, <2>3
<1>5. Matched("prefix", n) = {key \in Keys : n \in Above[key[2]]}
  BY DEF Matched, UnderPrefix
<1>6. ASSUME NEW m \in Subtree(n)
      PROVE  /\ m \in Nodes /\ RowKey("Stat", m) \in Matched("prefix", n)
             /\ m # n => RowKey("List", m) \in Matched("prefix", n)
  <2>1. m \in Nodes /\ n \in Above[m]
    BY DEF Subtree, UnderPrefix
  <2>2. /\ RowKey("Stat", m) = <<"Stat", m>> /\ RowKey("Stat", m) \in Keys
        /\ RowKey("List", m) = <<"List", Parent[m]>> /\ RowKey("List", m) \in Keys
    BY <1>1, <2>1, RowKeys DEF RowKey
  <2>3. m # n => n \in Above[Parent[m]]
    BY <2>1, AboveAssumption
  <2> QED BY <1>5, <2>1, <2>2, <2>3
<1> QED BY <1>2, <1>3, <1>4, <1>6

LEMMA AllReached ==
  ASSUME NEW aspect \in Aspects, NEW n \in Nodes
  PROVE  RowKey(aspect, n) \in Matched("prefix", Root)
<1>1. RowKey(aspect, n) \in Keys /\ RowKey(aspect, n)[2] \in Nodes \cup {Root}
  BY RowKeys, KeyShapes
<1>2. Matched("prefix", Root) = {key \in Keys : Root \in Above[key[2]]}
  BY DEF Matched, UnderPrefix
<1>3. \A m \in Nodes \cup {Root} : Root \in Above[m]
  BY AboveAssumption
<1> QED BY <1>1, <1>2, <1>3

LEMMA SweepSeqs ==
  /\ \A n \in Nodes \cup {Root} :
       /\ Both(n) \in Seq(Sweeps) /\ Both(n) # <<>> /\ Prefix(n) \in Seq(Sweeps) /\ Prefix(n) # <<>>
       /\ \A aspect \in Aspects, m \in Nodes :
            /\ RowKey(aspect, m) \in Matched("address", n) => Covered(Both(n), aspect, m)
            /\ RowKey(aspect, m) \in Matched("lists", n) => Covered(Both(n), aspect, m)
            /\ RowKey(aspect, m) \in Matched("prefix", n) => Covered(Prefix(n), aspect, m)
  /\ \A s, t \in Seq(Sweeps) :
       /\ s \o t \in Seq(Sweeps) /\ (s # <<>> => s \o t # <<>>)
       /\ \A aspect \in Aspects, m \in Nodes :
            Covered(s, aspect, m) \/ Covered(t, aspect, m) => Covered(s \o t, aspect, m)
<1>1. ASSUME NEW n \in Nodes \cup {Root}
      PROVE  /\ Both(n) \in Seq(Sweeps) /\ Both(n) # <<>> /\ Prefix(n) \in Seq(Sweeps) /\ Prefix(n) # <<>>
             /\ \A aspect \in Aspects, m \in Nodes :
                  /\ RowKey(aspect, m) \in Matched("address", n) => Covered(Both(n), aspect, m)
                  /\ RowKey(aspect, m) \in Matched("lists", n) => Covered(Both(n), aspect, m)
                  /\ RowKey(aspect, m) \in Matched("prefix", n) => Covered(Prefix(n), aspect, m)
  <2>1. PICK a, b, p : /\ a = [how |-> "address", node |-> n] /\ b = [how |-> "lists", node |-> n]
                       /\ p = [how |-> "prefix", node |-> n]
    OBVIOUS
  <2>2. a \in Sweeps /\ b \in Sweeps /\ p \in Sweeps
    BY <2>1 DEF Sweeps
  <2>3. Both(n) = <<a, b>> /\ Prefix(n) = <<p>>
    BY <2>1 DEF Both, Prefix
  <2>4. /\ <<a, b>> \in Seq(Sweeps) /\ <<p>> \in Seq(Sweeps) /\ Len(<<a, b>>) = 2 /\ Len(<<p>>) = 1
        /\ <<a, b>>[1] = a /\ <<a, b>>[2] = b /\ <<p>>[1] = p
    BY <2>2
  <2>5. <<a, b>> # <<>> /\ <<p>> # <<>>
    OBVIOUS
  <2>6. ASSUME NEW aspect \in Aspects, NEW m \in Nodes
        PROVE  /\ RowKey(aspect, m) \in Matched("address", n) => Covered(<<a, b>>, aspect, m)
               /\ RowKey(aspect, m) \in Matched("lists", n) => Covered(<<a, b>>, aspect, m)
               /\ RowKey(aspect, m) \in Matched("prefix", n) => Covered(<<p>>, aspect, m)
    BY <2>1, <2>4 DEF Covered
  <2> QED BY <2>3, <2>4, <2>5, <2>6
<1>2. ASSUME NEW s \in Seq(Sweeps), NEW t \in Seq(Sweeps)
      PROVE  /\ s \o t \in Seq(Sweeps) /\ (s # <<>> => s \o t # <<>>)
             /\ \A aspect \in Aspects, m \in Nodes :
                  Covered(s, aspect, m) \/ Covered(t, aspect, m) => Covered(s \o t, aspect, m)
  <2>1. PICK u : u = s \o t
    OBVIOUS
  <2>2. /\ u \in Seq(Sweeps) /\ Len(u) = Len(s) + Len(t) /\ Len(s) \in Nat /\ Len(t) \in Nat
        /\ \A i \in 1 .. Len(s) + Len(t) : u[i] = IF i <= Len(s) THEN s[i] ELSE t[i - Len(s)]
    BY <2>1, ConcatProperties
  <2>3. \A i \in 1 .. Len(s) : i \in 1 .. Len(u) /\ u[i] = s[i]
    BY <2>2
  <2>4. \A i \in 1 .. Len(t) : Len(s) + i \in 1 .. Len(u) /\ u[Len(s) + i] = t[i]
    <3>1. ASSUME NEW i \in 1 .. Len(t) PROVE Len(s) + i \in 1 .. Len(u) /\ u[Len(s) + i] = t[i]
      <4>1. PICK k : k = Len(s) + i
        OBVIOUS
      <4>2. k \in 1 .. Len(s) + Len(t) /\ ~(k <= Len(s)) /\ k - Len(s) = i
        BY <2>2, <4>1
      <4>3. u[k] = t[k - Len(s)]
        BY <2>2, <4>2
      <4> QED BY <2>2, <4>1, <4>2, <4>3
    <3> QED BY <3>1
  <2>5. s # <<>> => u # <<>>
    BY <2>2, EmptySeq
  <2> QED BY <2>1, <2>2, <2>3, <2>4, <2>5 DEF Covered
<1> QED BY <1>1, <1>2

LEMMA EffectOK ==
  ASSUME TypeInv, NEW m, NEW n \in Nodes, m.node = n, m.to \in Nodes,
         m.op \in {"write", "delete", "rename", "rename_directory", "delete_directory"}
  PROVE  /\ Effect(m).todo \in Seq(Sweeps) /\ Effect(m).todo # <<>>
         /\ \A aspect \in Aspects, k \in Nodes : <<aspect, k>> \in Effect(m).settles =>
              k \in Effect(m).nodes /\ Covered(Effect(m).todo, aspect, k)
         /\ m.op \in {"write", "delete"} => Effect(m).todo = Both(n)
         /\ m.op = "delete_directory" => Effect(m).todo = Both(n) \o Prefix(n)
<1>1. ASSUME NEW i \in Nodes
      PROVE  /\ Both(i) \in Seq(Sweeps) /\ Both(i) # <<>> /\ Prefix(i) \in Seq(Sweeps)
             /\ Covered(Both(i), "Stat", i) /\ Covered(Both(i), "List", i)
             /\ \A k \in Written(i) : k \in Nodes /\ Covered(Both(i), "List", k)
             /\ \A k \in Subtree(i) : k \in Nodes /\ Covered(Prefix(i), "Stat", k)
             /\ \A k \in Subtree(i) : k # i => Covered(Prefix(i), "List", k)
             /\ i \in Written(i) /\ i \in Subtree(i)
  <2>1. "Stat" \in Aspects /\ "List" \in Aspects /\ i \in Nodes \cup {Root}
    BY DEF Aspects
  <2>2. Written(i) \subseteq Above[i] \ {Root} /\ i \in Written(i) /\ i \in Subtree(i)
    BY Reached DEF Written, Subtree, UnderPrefix
  <2>3. Both(i) \in Seq(Sweeps) /\ Both(i) # <<>> /\ Prefix(i) \in Seq(Sweeps)
    BY <2>1, SweepSeqs
  <2>4. Covered(Both(i), "Stat", i)
    BY <2>1, Reached, SweepSeqs
  <2>5. \A k \in Written(i) : k \in Nodes /\ Covered(Both(i), "List", k)
    BY <2>1, <2>2, Reached, SweepSeqs
  <2>6. \A k \in Subtree(i) : k \in Nodes /\ Covered(Prefix(i), "Stat", k)
    BY <2>1, Reached, SweepSeqs
  <2>7. \A k \in Subtree(i) : k # i => Covered(Prefix(i), "List", k)
    BY <2>1, Reached, SweepSeqs
  <2> QED BY <2>2, <2>3, <2>4, <2>5, <2>6, <2>7
<1>2. \A s, t \in Seq(Sweeps) :
       /\ s \o t \in Seq(Sweeps) /\ (s # <<>> => s \o t # <<>>)
       /\ \A aspect \in Aspects, k \in Nodes :
            Covered(s, aspect, k) \/ Covered(t, aspect, k) => Covered(s \o t, aspect, k)
  BY SweepSeqs
<1>3. \A A, B, aspect, k : <<aspect, k>> \in ({"Stat"} \X A) \cup ({"List"} \X B)
                             => (aspect = "Stat" /\ k \in A) \/ (aspect = "List" /\ k \in B)
  OBVIOUS
<1>4. CASE m.op \in {"write", "delete", "rename_directory"}
  <2>1. Effect(m).todo = Both(n)
    BY <1>4 DEF Effect
  <2>2. CASE m.op = "write"
    <3>1. Effect(m).nodes = Written(n) /\ Effect(m).settles = ({"Stat"} \X {n}) \cup ({"List"} \X Written(n))
      BY <2>2 DEF Effect
    <3> QED BY <1>1, <1>3, <1>4, <2>1, <2>2, <3>1
  <2>3. CASE m.op = "delete"
    <3>1. Effect(m).nodes = {n} /\ Effect(m).settles = ({"Stat"} \X {n}) \cup ({"List"} \X {n})
      BY <2>3 DEF Effect
    <3> QED BY <1>1, <1>3, <1>4, <2>1, <2>3, <3>1
  <2>4. CASE m.op = "rename_directory"
    <3>1. Effect(m).nodes = Subtree(n) /\ Effect(m).settles = ({"Stat"} \X {n}) \cup ({"List"} \X {n})
      BY <2>4 DEF Effect
    <3> QED BY <1>1, <1>3, <1>4, <2>1, <2>4, <3>1
  <2> QED BY <1>4, <2>2, <2>3, <2>4
<1>5. CASE m.op = "rename"
  <2>1. /\ Effect(m).todo = Both(n) \o Both(m.to) /\ Effect(m).nodes = {n} \cup Written(m.to)
        /\ Effect(m).settles = ({"Stat"} \X {n, m.to}) \cup ({"List"} \X ({n} \cup Written(m.to)))
    BY <1>5 DEF Effect
  <2>2. PICK t : t = Both(n) \o Both(m.to)
    OBVIOUS
  <2>3. /\ t \in Seq(Sweeps) /\ t # <<>>
        /\ \A aspect \in Aspects, k \in Nodes :
             Covered(Both(n), aspect, k) \/ Covered(Both(m.to), aspect, k) => Covered(t, aspect, k)
    BY <1>1, <1>2, <2>2
  <2>4. ASSUME NEW aspect \in Aspects, NEW k \in Nodes, <<aspect, k>> \in Effect(m).settles
        PROVE  k \in Effect(m).nodes /\ Covered(t, aspect, k)
    <3>1. CASE aspect = "Stat" /\ k \in {n, m.to}
      BY <1>1, <2>1, <2>3, <3>1
    <3>2. CASE aspect = "List" /\ k \in {n} \cup Written(m.to)
      BY <1>1, <2>1, <2>3, <3>2
    <3> QED BY <1>3, <2>1, <2>4, <3>1, <3>2
  <2> QED BY <1>5, <2>1, <2>2, <2>3, <2>4
<1>6. CASE m.op = "delete_directory"
  <2>1. /\ Effect(m).todo = Both(n) \o Prefix(n) /\ Effect(m).nodes = Subtree(n)
        /\ Effect(m).settles = ({"Stat"} \X Subtree(n)) \cup ({"List"} \X Subtree(n))
    BY <1>6 DEF Effect
  <2>2. PICK t : t = Both(n) \o Prefix(n)
    OBVIOUS
  <2>3. /\ t \in Seq(Sweeps) /\ t # <<>>
        /\ \A aspect \in Aspects, k \in Nodes :
             Covered(Both(n), aspect, k) \/ Covered(Prefix(n), aspect, k) => Covered(t, aspect, k)
    BY <1>1, <1>2, <2>2
  <2>4. ASSUME NEW aspect \in Aspects, NEW k \in Nodes, <<aspect, k>> \in Effect(m).settles
        PROVE  k \in Effect(m).nodes /\ Covered(t, aspect, k)
    <3>1. k \in Subtree(n) /\ aspect \in {"Stat", "List"}
      BY <1>3, <2>1, <2>4
    <3>2. Covered(Both(n), aspect, k) \/ Covered(Prefix(n), aspect, k)
      BY <1>1, <3>1
    <3> QED BY <2>1, <2>3, <3>1, <3>2
  <2> QED BY <1>6, <2>1, <2>2, <2>3, <2>4
<1> QED BY <1>4, <1>5, <1>6

(* The versions after a change of the backend.                              *)
LEMMA ChangeOK ==
  ASSUME Inv, NEW nodes, NEW exist, Change(nodes, exist)
  PROVE  /\ changes' = changes + 1 /\ changes' \in Nat /\ ver' \in [Nodes -> Nat] /\ here' \in [Nodes -> BOOLEAN]
         /\ \A n \in Nodes : ver[n] <= ver'[n] /\ ver'[n] <= changes'
         /\ \A n \in Nodes \cap nodes : ver'[n] = changes + 1
<1>1. changes \in Nat /\ ver \in [Nodes -> Nat] /\ here \in [Nodes -> BOOLEAN] /\ \A n \in Nodes : ver[n] <= changes
  BY DEF Inv, TypeInv, SweepInv
<1>2. /\ changes' = changes + 1
      /\ ver' = [n \in Nodes |-> IF n \in nodes THEN changes + 1 ELSE ver[n]]
      /\ here' = [n \in Nodes |-> IF n \in nodes THEN n \in exist ELSE here[n]]
  BY DEF Change
<1>3. changes' \in Nat /\ ver' \in [Nodes -> Nat]
  BY <1>1, <1>2
<1>4. here' \in [Nodes -> BOOLEAN]
  <2>1. ASSUME NEW n \in Nodes
        PROVE  (IF n \in nodes THEN n \in exist ELSE here[n]) \in BOOLEAN
    <3>1. CASE n \in nodes
      <4>1. (n \in exist) \in BOOLEAN
        OBVIOUS
      <4>2. (IF n \in nodes THEN n \in exist ELSE here[n]) = (n \in exist)
        BY <3>1
      <4> QED BY <4>1, <4>2
    <3>2. CASE n \notin nodes
      BY <1>1, <3>2
    <3> QED BY <3>1, <3>2
  <2> QED BY <1>2, <2>1, Zenon
<1>5. \A n \in Nodes : ver[n] <= ver'[n] /\ ver'[n] <= changes'
  BY <1>1, <1>2
<1> QED BY <1>2, <1>3, <1>4, <1>5

(* What is settled is no later than the versions it was taken from.         *)
LEMMA SettlesOK ==
  ASSUME NEW pairs, NEW v \in Nat, NEW b, b = Settles(pairs, v)
  PROVE  /\ b \in Bounds
         /\ \A aspect \in Aspects, n \in Nodes : b[aspect][n] = IF <<aspect, n>> \in pairs THEN v ELSE 0
<1>1. \A aspect \in Aspects : [n \in Nodes |-> IF <<aspect, n>> \in pairs THEN v ELSE 0] \in [Nodes -> Nat]
  OBVIOUS
<1> QED BY <1>1 DEF Settles, Bounds
-----------------------------------------------------------------------------
(* Changes of the backend.                                                 *)

(* A sweep begins with all of its work before it.                           *)
SweepOf(todo, b) == [Idle EXCEPT !.at = "sweep", !.todo = todo, !.settles = b]

LEMMA SweepJob ==
  ASSUME NEW todo \in Seq(Sweeps), todo # <<>>, NEW b \in Bounds, NEW j, j = SweepOf(todo, b)
  PROVE  j \in Jobs /\ JobOK(j) /\ j.at = "sweep" /\ j.todo = todo /\ j.settles = b /\ RowsOf(j) = {}
<1>1. j \in Jobs /\ j.at = "sweep" /\ j.todo = todo /\ j.settles = b
  BY IdleOK DEF Jobs, SweepOf
<1> QED BY <1>1 DEF JobOK, RowsOf, Filling

(* Nothing is stored or served: somebody begins or ends something else.     *)
LEMMA ControlStep ==
  ASSUME Inv, NEW c \in Everyone, NEW j \in Jobs, JobOK(j), RowsOf(j) = {}, job' = [job EXCEPT ![c] = j],
         UNCHANGED <<scen, cache, settled>>, changes' \in Nat, ver' \in [Nodes -> Nat], here' \in [Nodes -> BOOLEAN],
         events' \in Seq(Events),
         \A n \in Nodes : ver[n] <= ver'[n] /\ ver'[n] <= changes',
         j.at = "sweep" => \A aspect \in Aspects, n \in Nodes :
                             /\ j.settles[aspect][n] <= ver'[n]
                             /\ Covered(j.todo, aspect, n) \/ j.settles[aspect][n] = 0,
         \A i \in 1 .. Len(events') : events'[i].node # Root =>
           \/ \E k \in 1 .. Len(events) : events'[i] = events[k]
           \/ \A aspect \in Aspects, n \in Nodes :
                /\ events'[i].settles[aspect][n] <= ver'[n]
                /\ events'[i].settles[aspect][n] > 0 => Covered(EventTodo(events'[i]), aspect, n)
  PROVE  Inv'
<1>1. TypeInv
  BY DEF Inv
<1>2. \A b \in Everyone : job'[b] = IF b = c THEN j ELSE job[b]
  BY <1>1 DEF TypeInv
<1>3. TypeInv'
  <2>1. job' \in [Everyone -> Jobs] /\ \A b \in Everyone : JobOK(job'[b])
    BY <1>1, <1>2 DEF TypeInv
  <2> QED BY <1>1, <2>1 DEF TypeInv
<1>4. RowsGo
  <2>1. Shrinks
    BY <1>1 DEF Shrinks, TypeInv
  <2>2. \A b \in Everyone : \A x \in OnItsWay(b)' : x \in OnItsWay(b) \/ Fresh(x)
    BY <1>2 DEF OnItsWay
  <2> QED BY <1>1, <2>1, <2>2, ShrinksGo
<1>5. \A b \in Everyone : job'[b].at = "sweep" =>
        \/ job'[b] = job[b]
        \/ \A aspect \in Aspects, n \in Nodes :
             /\ job'[b].settles[aspect][n] <= ver'[n]
             /\ Covered(job'[b].todo, aspect, n) \/ job'[b].settles[aspect][n] = 0
  BY <1>2
<1>6. SweepInv' /\ ServedInv'
  BY <1>3, <1>4, <1>5, SweepsGoOn
<1> QED BY <1>3, <1>6 DEF Inv

LEMMA MutateStep ==
  ASSUME Inv, NEW c \in Callers, NEW m \in scen.mutations, Mutate(c, m)
  PROVE  Inv'
<1>1. TypeInv /\ c \in Everyone /\ scen \in Scenarios
  BY DEF Inv, TypeInv, Everyone
<1>2. /\ m.node \in Nodes /\ m.to \in Nodes
      /\ m.op \in {"write", "delete", "rename", "rename_directory", "delete_directory"}
  BY <1>1, ScenariosAssumption DEF Nodes
<1>3. PICK e : e = Effect(m)
  OBVIOUS
<1>4. /\ e.todo \in Seq(Sweeps) /\ e.todo # <<>>
      /\ \A aspect \in Aspects, k \in Nodes : <<aspect, k>> \in e.settles =>
           k \in e.nodes /\ Covered(e.todo, aspect, k)
  BY <1>1, <1>2, <1>3, EffectOK
<1>5. Change(e.nodes, e.exist) /\ UNCHANGED <<scen, cache, stream, events, settled>>
  BY <1>3 DEF Mutate
<1>6. /\ changes' = changes + 1 /\ changes' \in Nat /\ ver' \in [Nodes -> Nat] /\ here' \in [Nodes -> BOOLEAN]
      /\ \A n \in Nodes : ver[n] <= ver'[n] /\ ver'[n] <= changes'
      /\ \A n \in Nodes \cap e.nodes : ver'[n] = changes + 1
  BY <1>5, ChangeOK
<1>7. /\ events' \in Seq(Events)
      /\ \A i \in 1 .. Len(events') : \E k \in 1 .. Len(events) : events'[i] = events[k]
  BY <1>1, <1>5 DEF TypeInv
<1>8. CASE Becomes(c, Idle)
  BY <1>1, <1>5, <1>6, <1>7, <1>8, IdleOK, ControlStep DEF Becomes
<1>9. CASE Becomes(c, [Idle EXCEPT !.at = "sweep", !.todo = e.todo, !.settles = Settles(e.settles, changes + 1)])
  <2>1. PICK v \in Nat : v = changes + 1
    BY <1>6
  <2>2. PICK b : b = Settles(e.settles, v)
    OBVIOUS
  <2>3. /\ b \in Bounds
        /\ \A aspect \in Aspects, n \in Nodes : b[aspect][n] = IF <<aspect, n>> \in e.settles THEN v ELSE 0
    BY <2>2, SettlesOK
  <2>4. PICK j : j = [Idle EXCEPT !.at = "sweep", !.todo = e.todo, !.settles = b]
    OBVIOUS
  <2>5. j \in Jobs /\ JobOK(j) /\ j.at = "sweep" /\ j.todo = e.todo /\ j.settles = b /\ RowsOf(j) = {}
    <3>1. PICK todo \in Seq(Sweeps) : todo = e.todo /\ todo # <<>>
      BY <1>4
    <3>2. j = SweepOf(todo, b)
      BY <2>4, <3>1 DEF SweepOf
    <3> QED BY <2>3, <3>1, <3>2, SweepJob
  <2>6. job' = [job EXCEPT ![c] = j]
    BY <1>9, <2>1, <2>2, <2>4 DEF Becomes
  <2>7. ASSUME NEW aspect \in Aspects, NEW n \in Nodes
        PROVE  b[aspect][n] <= ver'[n] /\ (Covered(e.todo, aspect, n) \/ b[aspect][n] = 0)
    <3>1. CASE <<aspect, n>> \in e.settles
      BY <1>4, <1>6, <2>1, <2>3, <3>1
    <3>2. CASE <<aspect, n>> \notin e.settles
      BY <1>6, <2>3, <3>2
    <3> QED BY <3>1, <3>2
  <2> QED BY <1>1, <1>5, <1>6, <1>7, <2>5, <2>6, <2>7, ControlStep
<1> QED BY <1>3, <1>8, <1>9 DEF Mutate

(* The backend or the stream moves, no request does.                        *)
LEMMA StreamStep ==
  ASSUME Inv, UNCHANGED <<scen, cache, job, settled>>,
         changes' \in Nat, ver' \in [Nodes -> Nat], here' \in [Nodes -> BOOLEAN], events' \in Seq(Events),
         \A n \in Nodes : ver[n] <= ver'[n] /\ ver'[n] <= changes',
         \A i \in 1 .. Len(events') : events'[i].node # Root =>
           \/ \E k \in 1 .. Len(events) : events'[i] = events[k]
           \/ \A aspect \in Aspects, n \in Nodes :
                /\ events'[i].settles[aspect][n] <= ver'[n]
                /\ events'[i].settles[aspect][n] > 0 => Covered(EventTodo(events'[i]), aspect, n)
  PROVE  Inv'
<1>1. TypeInv
  BY DEF Inv
<1>2. TypeInv'
  BY <1>1 DEF TypeInv
<1>3. RowsGo
  <2>1. Shrinks
    BY <1>1 DEF Shrinks, TypeInv
  <2>2. \A b \in Everyone : \A x \in OnItsWay(b)' : x \in OnItsWay(b) \/ Fresh(x)
    BY DEF OnItsWay
  <2> QED BY <1>1, <2>1, <2>2, ShrinksGo
<1>4. SweepInv' /\ ServedInv'
  BY <1>2, <1>3, SweepsGoOn
<1> QED BY <1>2, <1>4 DEF Inv

LEMMA ForeignStep ==
  ASSUME Inv, NEW m \in scen.foreign, Foreign(m)
  PROVE  Inv'
<1>1. TypeInv /\ scen \in Scenarios /\ events \in Seq(Events)
  BY DEF Inv, TypeInv
<1>2. m.node \in Nodes /\ m.to \in Nodes /\ m.op \in {"write", "delete", "delete_directory"}
  BY <1>1, ScenariosAssumption DEF Nodes
<1>3. PICK e : e = Effect(m)
  OBVIOUS
<1>4. /\ e.todo \in Seq(Sweeps)
      /\ \A aspect \in Aspects, k \in Nodes : <<aspect, k>> \in e.settles =>
           k \in e.nodes /\ Covered(e.todo, aspect, k)
      /\ m.op \in {"write", "delete"} => e.todo = Both(m.node)
      /\ m.op = "delete_directory" => e.todo = Both(m.node) \o Prefix(m.node)
  BY <1>1, <1>2, <1>3, EffectOK
<1>5. Change(e.nodes, e.exist) /\ UNCHANGED <<scen, cache, job, stream, settled>>
  BY <1>3 DEF Foreign
<1>6. /\ changes' = changes + 1 /\ changes' \in Nat /\ ver' \in [Nodes -> Nat] /\ here' \in [Nodes -> BOOLEAN]
      /\ \A n \in Nodes : ver[n] <= ver'[n] /\ ver'[n] <= changes'
      /\ \A n \in Nodes \cap e.nodes : ver'[n] = changes + 1
  BY <1>5, ChangeOK
<1>7. PICK v \in Nat : v = changes + 1
  BY <1>6
<1>8. PICK b : b = Settles(e.settles, v)
  OBVIOUS
<1>9. /\ b \in Bounds
      /\ \A aspect \in Aspects, n \in Nodes : b[aspect][n] = IF <<aspect, n>> \in e.settles THEN v ELSE 0
  BY <1>8, SettlesOK
<1>10. PICK event : event = [gone |-> m.op # "write", node |-> m.node, settles |-> b]
  OBVIOUS
<1>11. PICK lapsed : lapsed = [gone |-> FALSE, node |-> Root, settles |-> Nothing]
  OBVIOUS
<1>12. events' = IF stream = "ended" THEN events
                 ELSE IF Len(events) < MaxEvents THEN Append(events, event) ELSE <<lapsed>>
  BY <1>3, <1>7, <1>8, <1>10, <1>11 DEF Foreign
<1>13. event \in Events /\ lapsed \in Events /\ lapsed.node = Root
  <2>1. Nothing \in Bounds
    BY IdleOK DEF Idle, Jobs
  <2>2. (m.op # "write") \in BOOLEAN
    OBVIOUS
  <2>3. m.node \in Nodes \cup {Root}
    BY <1>2
  <2> QED BY <1>9, <1>10, <1>11, <2>1, <2>2, <2>3 DEF Events
<1>14. ASSUME NEW aspect \in Aspects, NEW n \in Nodes
       PROVE  /\ event.settles[aspect][n] <= ver'[n]
              /\ event.settles[aspect][n] > 0 => Covered(EventTodo(event), aspect, n)
  <2>1. event.settles = b /\ event.node = m.node /\ (event.gone <=> m.op # "write")
    BY <1>10
  <2>2. CASE <<aspect, n>> \notin e.settles
    BY <1>6, <1>9, <2>1, <2>2
  <2>3. CASE <<aspect, n>> \in e.settles
    <3>1. b[aspect][n] = v /\ ver'[n] = v /\ Covered(e.todo, aspect, n)
      BY <1>4, <1>6, <1>7, <1>9, <2>3
    <3>2. Covered(EventTodo(event), aspect, n)
      <4>0. /\ Both(m.node) \in Seq(Sweeps) /\ Prefix(m.node) \in Seq(Sweeps)
        BY <1>2, SweepSeqs
      <4>1. CASE m.op = "write"
        <5>1. EventTodo(event) = Both(m.node) \o <<>>
          BY <2>1, <4>1 DEF EventTodo
        <5>2. <<>> \in Seq(Sweeps)
          BY EmptySeq
        <5>3. Covered(Both(m.node), aspect, n)
          BY <1>4, <3>1, <4>1
        <5> QED BY <4>0, <5>1, <5>2, <5>3, SweepSeqs
      <4>2. CASE m.op = "delete"
        <5>1. EventTodo(event) = Both(m.node) \o Prefix(m.node)
          BY <2>1, <4>2 DEF EventTodo
        <5>2. Covered(Both(m.node), aspect, n)
          BY <1>4, <3>1, <4>2
        <5> QED BY <4>0, <5>1, <5>2, SweepSeqs
      <4>3. CASE m.op = "delete_directory"
        <5>1. EventTodo(event) = Both(m.node) \o Prefix(m.node)
          BY <2>1, <4>3 DEF EventTodo
        <5> QED BY <1>4, <3>1, <4>3, <5>1
      <4> QED BY <1>2, <4>1, <4>2, <4>3
    <3> QED BY <2>1, <3>1, <3>2
  <2> QED BY <2>2, <2>3
<1>15. CASE stream = "ended"
  <2>1. events' = events
    BY <1>12, <1>15
  <2> QED BY <1>1, <1>5, <1>6, <2>1, StreamStep
<1>16. CASE stream # "ended" /\ Len(events) < MaxEvents
  <2>1. events' = Append(events, event)
    BY <1>12, <1>16
  <2>2. /\ events' \in Seq(Events) /\ Len(events') = Len(events) + 1 /\ events'[Len(events) + 1] = event
        /\ \A i \in 1 .. Len(events) : events'[i] = events[i]
    BY <1>1, <1>13, <2>1, AppendProperties
  <2>3. Len(events) \in Nat
    BY <1>1
  <2>4. ASSUME NEW i \in 1 .. Len(events')
        PROVE  (\E k \in 1 .. Len(events) : events'[i] = events[k]) \/ events'[i] = event
    BY <2>2, <2>3
  <2> QED BY <1>5, <1>6, <1>14, <2>2, <2>4, StreamStep
<1>17. CASE stream # "ended" /\ ~(Len(events) < MaxEvents)
  <2>1. events' = <<lapsed>>
    BY <1>12, <1>17
  <2>2. events' \in Seq(Events) /\ Len(events') = 1 /\ events'[1] = lapsed
    BY <1>13, <2>1
  <2>3. \A i \in 1 .. Len(events') : events'[i].node = Root
    BY <1>13, <2>2
  <2> QED BY <1>5, <1>6, <2>2, <2>3, StreamStep
<1> QED BY <1>15, <1>16, <1>17

LEMMA OpenStreamStep ==
  ASSUME Inv, OpenStream
  PROVE  Inv'
<1>1. UNCHANGED <<scen, ver, here, changes, cache, job, events, settled>>
  BY DEF OpenStream, backend
<1>2. \A n \in Nodes : ver[n] <= ver'[n] /\ ver'[n] <= changes'
  BY <1>1 DEF Inv, SweepInv, TypeInv
<1> QED BY <1>1, <1>2, StreamStep DEF Inv, TypeInv

(* The sweep of a gap reaches every row.                                    *)
LEMMA GapSweepOK ==
  ASSUME TypeInv
  PROVE  /\ GapSweep \in Jobs /\ JobOK(GapSweep) /\ GapSweep.at = "sweep" /\ RowsOf(GapSweep) = {}
         /\ \A aspect \in Aspects, n \in Nodes :
              GapSweep.settles[aspect][n] = ver[n] /\ Covered(GapSweep.todo, aspect, n)
<1>1. PICK b : b = [aspect \in Aspects |-> ver]
  OBVIOUS
<1>2. b \in Bounds /\ \A aspect \in Aspects, n \in Nodes : b[aspect][n] = ver[n]
  BY <1>1 DEF Bounds, TypeInv
<1>3. PICK s : s = <<[how |-> "lists", node |-> Root]>>
  OBVIOUS
<1>4. s \in Seq(Sweeps) /\ Prefix(Root) \in Seq(Sweeps) /\ Prefix(Root) # <<>>
  <2>1. [how |-> "lists", node |-> Root] \in Sweeps
    BY DEF Sweeps
  <2> QED BY <1>3, <2>1, SweepSeqs
<1>5. PICK todo : todo = Prefix(Root) \o s
  OBVIOUS
<1>6. todo \in Seq(Sweeps) /\ todo # <<>> /\ \A aspect \in Aspects, n \in Nodes : Covered(todo, aspect, n)
  <2>1. \A aspect \in Aspects, n \in Nodes : Covered(Prefix(Root), aspect, n)
    BY AllReached, SweepSeqs
  <2> QED BY <1>4, <1>5, <2>1, SweepSeqs
<1>7. PICK j : j = GapSweep
  OBVIOUS
<1>8. j = SweepOf(todo, b)
  BY <1>1, <1>3, <1>5, <1>7 DEF GapSweep, SweepOf
<1>9. j \in Jobs /\ JobOK(j) /\ j.at = "sweep" /\ j.todo = todo /\ j.settles = b /\ RowsOf(j) = {}
  BY <1>2, <1>6, <1>8, SweepJob
<1> QED BY <1>2, <1>6, <1>7, <1>9

LEMMA DeliverStep ==
  ASSUME Inv, Deliver
  PROVE  Inv'
<1>1. TypeInv /\ Drain \in Everyone /\ events \in Seq(Events) /\ events # <<>>
  BY DEF Inv, TypeInv, Everyone, Deliver
<1>2. UNCHANGED <<scen, ver, here, changes, cache, stream, settled>> /\ events' = Tail(events)
  BY DEF Deliver, backend
<1>3. /\ changes' \in Nat /\ ver' \in [Nodes -> Nat] /\ here' \in [Nodes -> BOOLEAN] /\ ver' = ver
      /\ \A n \in Nodes : ver[n] <= ver'[n] /\ ver'[n] <= changes'
  BY <1>1, <1>2 DEF Inv, SweepInv, TypeInv
<1>4. /\ events' \in Seq(Events) /\ Head(events) = events[1] /\ 1 \in 1 .. Len(events) /\ Head(events) \in Events
      /\ \A i \in 1 .. Len(events') : \E k \in 1 .. Len(events) : events'[i] = events[k]
  <2>1. /\ Tail(events) \in Seq(Events) /\ Len(Tail(events)) = Len(events) - 1 /\ Head(events) \in Events
        /\ \A i \in 1 .. Len(Tail(events)) : Tail(events)[i] = events[i + 1]
    BY <1>1, HeadTailProperties
  <2>2. Len(events) \in Nat /\ Len(events) > 0 /\ Head(events) = events[1]
    BY <1>1, EmptySeq
  <2>3. ASSUME NEW i \in 1 .. Len(Tail(events)) PROVE \E k \in 1 .. Len(events) : Tail(events)[i] = events[k]
    <3>1. i + 1 \in 1 .. Len(events) /\ Tail(events)[i] = events[i + 1]
      BY <2>1, <2>2
    <3> QED BY <3>1
  <2> QED BY <1>2, <2>1, <2>2, <2>3
<1>5. PICK e : e = Head(events)
  OBVIOUS
<1>6. e \in Events /\ e.node \in Nodes \cup {Root} /\ e.settles \in Bounds
  BY <1>4, <1>5 DEF Events
<1>7. CASE e.node = Root
  <2>1. job' = [job EXCEPT ![Drain] = GapSweep]
    BY <1>5, <1>7 DEF Deliver, Becomes
  <2>2. PICK j : j = GapSweep
    OBVIOUS
  <2>3. /\ j \in Jobs /\ JobOK(j) /\ RowsOf(j) = {}
        /\ \A aspect \in Aspects, n \in Nodes : j.settles[aspect][n] = ver[n] /\ Covered(j.todo, aspect, n)
    BY <1>1, <2>2, GapSweepOK
  <2>4. \A aspect \in Aspects, n \in Nodes : j.settles[aspect][n] <= ver'[n]
    BY <1>3, <2>3
  <2> QED BY <1>1, <1>2, <1>3, <1>4, <2>1, <2>2, <2>3, <2>4, ControlStep
<1>8. CASE e.node # Root
  <2>1. PICK todo : todo = EventTodo(e)
    OBVIOUS
  <2>2. todo \in Seq(Sweeps) /\ todo # <<>>
    <3>1. Both(e.node) \in Seq(Sweeps) /\ Both(e.node) # <<>> /\ Prefix(e.node) \in Seq(Sweeps)
      BY <1>6, SweepSeqs
    <3>2. <<>> \in Seq(Sweeps)
      BY EmptySeq
    <3>3. PICK t \in Seq(Sweeps) : t = IF e.gone THEN Prefix(e.node) ELSE <<>>
      BY <3>1, <3>2
    <3>4. todo = Both(e.node) \o t
      BY <2>1, <3>3 DEF EventTodo
    <3> QED BY <3>1, <3>4, SweepSeqs
  <2>3. PICK b \in Bounds : b = e.settles
    BY <1>6
  <2>4. PICK j : j = SweepOf(todo, b)
    OBVIOUS
  <2>5. j \in Jobs /\ JobOK(j) /\ j.at = "sweep" /\ j.todo = todo /\ j.settles = b /\ RowsOf(j) = {}
    BY <2>2, <2>4, SweepJob
  <2>6. job' = [job EXCEPT ![Drain] = j]
    <3>1. job' = [job EXCEPT ![Drain] = [Idle EXCEPT !.at = "sweep", !.settles = b, !.todo = todo]]
      BY <1>5, <1>8, <2>1, <2>3 DEF Deliver, Becomes, EventTodo
    <3>2. [Idle EXCEPT !.at = "sweep", !.settles = b, !.todo = todo] = j
      BY <2>4, IdleOK DEF SweepOf, Jobs
    <3> QED BY <3>1, <3>2
  <2>7. /\ Past(e.settles)
        /\ \A aspect \in Aspects, n \in Nodes : e.settles[aspect][n] > 0 => Covered(EventTodo(e), aspect, n)
    BY <1>4, <1>5, <1>8 DEF Inv, SweepInv
  <2>8. \A aspect \in Aspects, n \in Nodes :
          b[aspect][n] <= ver'[n] /\ (Covered(todo, aspect, n) \/ b[aspect][n] = 0)
    <3>1. \A aspect \in Aspects, n \in Nodes : b[aspect][n] \in Nat
      BY DEF Bounds
    <3> QED BY <1>3, <2>1, <2>3, <2>7, <3>1 DEF Past
  <2> QED BY <1>1, <1>2, <1>3, <1>4, <2>5, <2>6, <2>8, ControlStep
<1> QED BY <1>7, <1>8

LEMMA EndStreamStep ==
  ASSUME Inv, NEW how, EndStream(how)
  PROVE  Inv'
<1>1. TypeInv /\ Drain \in Everyone
  BY DEF Inv, Everyone
<1>2. UNCHANGED <<scen, ver, here, changes, cache, settled>> /\ events' = <<>>
  BY DEF EndStream, backend
<1>3. /\ changes' \in Nat /\ ver' \in [Nodes -> Nat] /\ here' \in [Nodes -> BOOLEAN] /\ ver' = ver
      /\ \A n \in Nodes : ver[n] <= ver'[n] /\ ver'[n] <= changes'
  BY <1>1, <1>2 DEF Inv, SweepInv, TypeInv
<1>4. events' \in Seq(Events) /\ Len(events') = 0
  BY <1>2, EmptySeq
<1>5. PICK j : j = IF how \in {"error", "clean"} THEN GapSweep ELSE Idle
  OBVIOUS
<1>6. job' = [job EXCEPT ![Drain] = j]
  BY <1>5 DEF EndStream, Becomes
<1>7. /\ j \in Jobs /\ JobOK(j) /\ RowsOf(j) = {}
      /\ j.at = "sweep" => \A aspect \in Aspects, n \in Nodes :
                             j.settles[aspect][n] = ver[n] /\ Covered(j.todo, aspect, n)
  <2>1. CASE j = GapSweep
    BY <1>1, <2>1, GapSweepOK
  <2>2. CASE j = Idle
    BY <2>2, IdleOK
  <2> QED BY <1>5, <2>1, <2>2
<1>8. j.at = "sweep" => \A aspect \in Aspects, n \in Nodes :
                          /\ j.settles[aspect][n] <= ver'[n]
                          /\ Covered(j.todo, aspect, n) \/ j.settles[aspect][n] = 0
  BY <1>3, <1>7
<1>9. \A i \in 1 .. Len(events') : FALSE
  BY <1>4
<1> QED BY <1>1, <1>2, <1>3, <1>4, <1>6, <1>7, <1>8, <1>9, ControlStep
-----------------------------------------------------------------------------
(* One invalidation.                                                       *)

Marked(keys, item) == IF item.key \in keys
                      THEN [key |-> item.key, row |-> [item.row EXCEPT !.late = TRUE]] ELSE item
MarkedJob(keys, j) ==
  IF j.at \in Filling
  THEN [j EXCEPT !.todo = [i \in DOMAIN j.todo |-> Marked(keys, j.todo[i])]] ELSE j

LEMMA MarkedOK ==
  ASSUME NEW keys, NEW y \in Items, NEW x, x = Marked(keys, y)
  PROVE  x \in Items /\ From(x, y) /\ (x.key \in keys => x.row.late = TRUE)
<1>1. CASE y.key \notin keys
  BY <1>1 DEF Marked, From
<1>2. CASE y.key \in keys
  <2>1. PICK r : r = [y.row EXCEPT !.late = TRUE]
    OBVIOUS
  <2>2. y.key \in Keys /\ y.row \in Rows
    BY DEF Items
  <2>3. /\ r \in Rows /\ r.late = TRUE
        /\ r.shown = y.row.shown /\ r.complete = y.row.complete /\ r.seen = y.row.seen /\ r.there = y.row.there
        /\ r.flags = y.row.flags /\ r.carried = y.row.carried
    BY <2>1, <2>2 DEF Rows
  <2>4. x = [key |-> y.key, row |-> r]
    BY <1>2, <2>1 DEF Marked
  <2>5. x.key = y.key /\ x.row = r /\ x \in Items
    BY <2>2, <2>3, <2>4 DEF Items
  <2> QED BY <2>3, <2>5 DEF From
<1> QED BY <1>1, <1>2

LEMMA MarkedJobOK ==
  ASSUME NEW keys, NEW j \in Jobs, JobOK(j), NEW k, k = MarkedJob(keys, j)
  PROVE  /\ k \in Jobs /\ JobOK(k) /\ (k.at = "sweep" => k = j)
         /\ \A x \in RowsOf(k) : \E y \in RowsOf(j) : From(x, y) /\ (x.key \in keys => x.row.late = TRUE)
<1>1. CASE j.at \notin Filling
  <2>1. k = j
    BY <1>1 DEF MarkedJob
  <2> QED BY <1>1, <2>1 DEF RowsOf
<1>2. CASE j.at \in Filling
  <2>1. PICK q \in Seq(Items) : q = j.todo /\ q # <<>>
    BY <1>2 DEF JobOK
  <2>2. PICK t : t = [i \in DOMAIN q |-> Marked(keys, q[i])]
    OBVIOUS
  <2>3. Len(q) \in Nat /\ Len(q) > 0 /\ DOMAIN q = 1 .. Len(q) /\ \A i \in 1 .. Len(q) : q[i] \in Items
    BY <2>1, EmptySeq, ElementOfSeq
  <2>4. ASSUME NEW i \in 1 .. Len(q)
        PROVE  /\ t[i] \in Items /\ From(t[i], q[i]) /\ (t[i].key \in keys => t[i].row.late = TRUE)
    <3>1. t[i] = Marked(keys, q[i]) /\ q[i] \in Items
      BY <2>2, <2>3
    <3> QED BY <3>1, MarkedOK
  <2>5. t \in Seq(Items) /\ Len(t) = Len(q)
    <3>1. t \in [1 .. Len(q) -> Items]
      BY <2>2, <2>3, <2>4
    <3>2. \A m \in Nat : \A f \in [1 .. m -> Items] : f \in Seq(Items) /\ Len(f) = m
      OBVIOUS
    <3> QED BY <2>3, <3>1, <3>2
  <2>6. t # <<>>
    BY <2>3, <2>5, EmptySeq
  <2>7. k = [j EXCEPT !.todo = t]
    BY <1>2, <2>1, <2>2 DEF MarkedJob
  <2>8. k \in Jobs /\ k.at = j.at /\ k.todo = t /\ k.node = j.node
    BY <2>5, <2>7 DEF Jobs
  <2>9. JobOK(k) /\ k.at # "sweep"
    BY <1>2, <2>5, <2>6, <2>8 DEF JobOK, Filling
  <2>10. RowsOf(k) = {t[i] : i \in 1 .. Len(q)} /\ RowsOf(j) = {q[i] : i \in 1 .. Len(q)}
    BY <1>2, <2>1, <2>5, <2>8 DEF RowsOf
  <2> QED BY <2>4, <2>8, <2>9, <2>10
<1> QED BY <1>1, <1>2

LEMMA SweepStep ==
  ASSUME Inv, NEW c \in Everyone, Sweep(c)
  PROVE  Inv'
<1>1. TypeInv
  BY DEF Inv
<1>2. PICK j : j = job[c]
  OBVIOUS
<1>3. j \in Jobs /\ j.at = "sweep" /\ j.todo # <<>> /\ j.todo \in Seq(Sweeps) /\ j.settles \in Bounds
  BY <1>1, <1>2 DEF Sweep, TypeInv, JobOK, Jobs
<1>4. PICK q \in Seq(Sweeps) : q = j.todo /\ q # <<>>
  BY <1>3
<1>5. /\ Len(q) \in Nat /\ Len(q) > 0 /\ Head(q) = q[1] /\ Tail(q) \in Seq(Sweeps) /\ Len(Tail(q)) = Len(q) - 1
      /\ \A i \in 1 .. Len(Tail(q)) : Tail(q)[i] = q[i + 1]
  BY <1>4, HeadTailProperties, EmptySeq
<1>6. PICK keys : keys = Matched(q[1].how, q[1].node)
  OBVIOUS
<1>7. PICK k : k = IF Len(q) = 1 THEN Idle ELSE [j EXCEPT !.todo = Tail(q)]
  OBVIOUS
<1>8. /\ cache' = Without(cache, keys) /\ UNCHANGED <<scen, ver, here, changes, stream, events>>
      /\ settled' = IF Len(q) # 1 THEN settled
                    ELSE [aspect \in Aspects |-> [n \in Nodes |->
                            IF j.settles[aspect][n] > settled[aspect][n]
                            THEN j.settles[aspect][n] ELSE settled[aspect][n]]]
  BY <1>2, <1>4, <1>5, <1>6 DEF Sweep, backend
<1>9. job' = [b \in Everyone |-> IF b # c THEN MarkedJob(keys, job[b]) ELSE k]
  <2>1. DOMAIN job = Everyone /\ keys = Matched(Head(job[c].todo).how, Head(job[c].todo).node)
    BY <1>1, <1>2, <1>4, <1>5, <1>6 DEF TypeInv
  <2>2. k = IF Len(job[c].todo) = 1 THEN Idle ELSE [job[c] EXCEPT !.todo = Tail(job[c].todo)]
    BY <1>2, <1>4, <1>7
  <2> QED BY <2>1, <2>2 DEF Sweep, MarkedJob, Marked, Filling
<1>10. k \in Jobs /\ JobOK(k) /\ RowsOf(k) = {} /\ k.at \in {"idle", "sweep"}
       /\ (k.at = "sweep" => Len(q) # 1 /\ k.todo = Tail(q) /\ k.settles = j.settles)
  <2>1. CASE Len(q) = 1
    BY <1>7, <2>1, IdleOK
  <2>2. CASE Len(q) # 1
    <3>1. k = [j EXCEPT !.todo = Tail(q)]
      BY <1>7, <2>2
    <3>2. k \in Jobs /\ k.at = "sweep" /\ k.todo = Tail(q) /\ k.settles = j.settles
      BY <1>3, <1>5, <3>1 DEF Jobs
    <3>3. Tail(q) # <<>>
      BY <1>5, <2>2, EmptySeq
    <3> QED BY <1>5, <2>2, <3>2, <3>3 DEF JobOK, RowsOf, Filling
  <2> QED BY <2>1, <2>2
<1>11. ASSUME NEW b \in Everyone
       PROVE  /\ job'[b] \in Jobs /\ JobOK(job'[b])
              /\ b # c /\ job'[b].at = "sweep" => job'[b] = job[b]
              /\ \A x \in RowsOf(job'[b]) :
                   \E y \in RowsOf(job[b]) : From(x, y) /\ (x.key \in keys => x.row.late = TRUE)
  <2>1. CASE b = c
    BY <1>9, <1>10, <2>1
  <2>2. CASE b # c
    <3>1. PICK i \in Jobs : i = job[b] /\ JobOK(i)
      BY <1>1 DEF TypeInv
    <3>2. PICK l : l = MarkedJob(keys, i)
      OBVIOUS
    <3>3. /\ l \in Jobs /\ JobOK(l) /\ (l.at = "sweep" => l = i)
          /\ \A x \in RowsOf(l) : \E y \in RowsOf(i) : From(x, y) /\ (x.key \in keys => x.row.late = TRUE)
      BY <3>1, <3>2, MarkedJobOK
    <3>4. job'[b] = l
      BY <1>9, <2>2, <3>1, <3>2
    <3> QED BY <3>1, <3>3, <3>4
  <2> QED BY <2>1, <2>2
<1>12. /\ "rows" \in DOMAIN cache' /\ DOMAIN cache'.rows = DOMAIN cache.rows \ keys
       /\ \A key \in DOMAIN cache'.rows : cache'.rows[key] = cache.rows[key]
  BY <1>1, <1>8, StoreOps DEF TypeInv
<1>13. ASSUME NEW x \in Present'
       PROVE  \E y \in Present : From(x, y) /\ (x.key \in keys => x.row.late = TRUE)
  <2>1. CASE x \in Stored'
    <3>1. PICK key \in DOMAIN cache'.rows : x = [key |-> key, row |-> cache'.rows[key]]
      BY <2>1 DEF Stored
    <3>2. key \in DOMAIN cache.rows /\ key \notin keys /\ x = [key |-> key, row |-> cache.rows[key]]
      BY <1>12, <3>1
    <3>3. x \in Present /\ x.key = key
      BY <3>2 DEF Stored, Present
    <3> QED BY <3>2, <3>3 DEF From
  <2>2. ASSUME NEW b \in Everyone, x \in OnItsWay(b)'
        PROVE  \E y \in Present : From(x, y) /\ (x.key \in keys => x.row.late = TRUE)
    <3>1. x \in RowsOf(job'[b])
      BY <2>2 DEF OnItsWay
    <3>2. PICK y \in RowsOf(job[b]) : From(x, y) /\ (x.key \in keys => x.row.late = TRUE)
      BY <1>11, <3>1
    <3>3. y \in Present
      BY <3>2 DEF Present, OnItsWay
    <3> QED BY <3>2, <3>3
  <2> QED BY <2>1, <2>2 DEF Present
<1>14. RowsGo
  BY <1>13 DEF RowsGo
<1>15. /\ ServedInv'
       /\ \A aspect \in Aspects, n \in Nodes, v \in Nat :
            v <= ver[n] /\ Gone(aspect, n, v) => Gone(aspect, n, v)'
  BY <1>14, PresentStep
<1>16. ASSUME NEW aspect \in Aspects, NEW n \in Nodes, RowKey(aspect, n) \in keys, NEW v
       PROVE  Gone(aspect, n, v)'
  BY <1>13, <1>16 DEF Gone
<1>17. /\ settled \in Bounds /\ \A aspect \in Aspects, n \in Nodes : settled[aspect][n] \in Nat
       /\ \A aspect \in Aspects, n \in Nodes : j.settles[aspect][n] \in Nat /\ ver[n] \in Nat
  BY <1>1, <1>3 DEF TypeInv, Bounds
<1>18. \A aspect \in Aspects, n \in Nodes :
         settled'[aspect][n] \in {settled[aspect][n]} \cup (IF Len(q) = 1 THEN {j.settles[aspect][n]} ELSE {})
  <2>1. CASE Len(q) # 1
    BY <1>8, <2>1
  <2>2. CASE Len(q) = 1
    <3>1. \A aspect \in Aspects, n \in Nodes :
            settled'[aspect][n] = IF j.settles[aspect][n] > settled[aspect][n]
                                  THEN j.settles[aspect][n] ELSE settled[aspect][n]
      BY <1>8, <2>2
    <3> QED BY <2>2, <3>1
  <2> QED BY <2>1, <2>2
<1>19. settled' \in Bounds
  <2>1. CASE Len(q) # 1
    BY <1>8, <1>17, <2>1
  <2>2. CASE Len(q) = 1
    <3>1. \A aspect \in Aspects : [n \in Nodes |->
                            IF j.settles[aspect][n] > settled[aspect][n]
                            THEN j.settles[aspect][n] ELSE settled[aspect][n]] \in [Nodes -> Nat]
      BY <1>17
    <3> QED BY <1>8, <2>2, <3>1 DEF Bounds
  <2> QED BY <2>1, <2>2
<1>20. TypeInv'
  <2>1. job' \in [Everyone -> Jobs]
    BY <1>9, <1>11
  <2>2. DOMAIN cache'.rows \subseteq Keys /\ \A key \in DOMAIN cache'.rows : cache'.rows[key] \in Rows
    BY <1>1, <1>12 DEF TypeInv
  <2> QED BY <1>1, <1>8, <1>11, <1>12, <1>19, <2>1, <2>2 DEF TypeInv
<1>21. /\ Past(j.settles)
       /\ \A aspect \in Aspects, n \in Nodes : Covered(q, aspect, n) \/ Gone(aspect, n, j.settles[aspect][n])
  BY <1>2, <1>3, <1>4 DEF Inv, SweepInv
<1>22. ASSUME NEW aspect \in Aspects, NEW n \in Nodes, NEW v \in Nat, v = j.settles[aspect][n]
       PROVE  v <= ver[n] /\ (Gone(aspect, n, v)' \/ (Len(q) # 1 /\ Covered(Tail(q), aspect, n)))
  <2>1. v <= ver[n]
    BY <1>21, <1>22 DEF Past
  <2>2. CASE Gone(aspect, n, v)
    BY <1>15, <2>1, <2>2
  <2>3. CASE Covered(q, aspect, n)
    <3>1. PICK i \in 1 .. Len(q) : RowKey(aspect, n) \in Matched(q[i].how, q[i].node)
      BY <2>3 DEF Covered
    <3>2. CASE i = 1
      <4>1. RowKey(aspect, n) \in keys
        BY <1>6, <3>1, <3>2
      <4> QED BY <1>16, <2>1, <4>1
    <3>3. CASE i # 1
      <4>1. PICK l \in Int : l = i - 1
        OBVIOUS
      <4>2. l \in 1 .. Len(Tail(q)) /\ Tail(q)[l] = q[i] /\ Len(q) # 1
        BY <1>5, <3>3, <4>1
      <4> QED BY <2>1, <3>1, <4>2 DEF Covered
    <3> QED BY <3>2, <3>3
  <2> QED BY <1>21, <1>22, <2>2, <2>3
<1>23. ASSUME NEW aspect \in Aspects, NEW n \in Nodes
       PROVE  settled'[aspect][n] <= ver'[n] /\ Gone(aspect, n, settled[aspect][n])'
  <2>1. PICK v \in Nat : v = settled'[aspect][n]
    BY <1>19 DEF Bounds
  <2>2. ver' = ver
    BY <1>8
  <2>3. CASE v = settled[aspect][n]
    <3>1. v <= ver[n] /\ Gone(aspect, n, v)
      BY <2>3 DEF Inv, SweepInv, Past
    <3>2. Gone(aspect, n, v)'
      BY <1>15, <3>1
    <3> QED BY <2>1, <2>2, <3>1, <3>2 DEF Gone
  <2>4. CASE v = j.settles[aspect][n] /\ Len(q) = 1
    <3>1. v <= ver[n] /\ Gone(aspect, n, v)'
      BY <1>22, <2>4
    <3> QED BY <2>1, <2>2, <3>1 DEF Gone
  <2> QED BY <1>18, <2>1, <2>3, <2>4
<1>24. ASSUME NEW b \in Everyone, job'[b].at = "sweep"
       PROVE  \A aspect \in Aspects, n \in Nodes :
                /\ job'[b].settles[aspect][n] <= ver'[n]
                /\ Covered(job'[b].todo, aspect, n) \/ Gone(aspect, n, job[b].settles[aspect][n])'
  <2>0. SUFFICES ASSUME NEW aspect \in Aspects, NEW n \in Nodes
                 PROVE  /\ job'[b].settles[aspect][n] <= ver'[n]
                        /\ Covered(job'[b].todo, aspect, n) \/ Gone(aspect, n, job[b].settles[aspect][n])'
    OBVIOUS
  <2>1. PICK v \in Nat : v = job'[b].settles[aspect][n]
    <3>1. PICK l \in Jobs : l = job'[b]
      BY <1>11
    <3>2. l.settles \in Bounds
      BY DEF Jobs
    <3>3. l.settles[aspect][n] \in Nat
      BY <3>2 DEF Bounds
    <3> QED BY <3>1, <3>3
  <2>2. ver' = ver
    BY <1>8
  <2>3. CASE b = c
    <3>1. job'[b] = k /\ v = j.settles[aspect][n] /\ k.todo = Tail(q)
      BY <1>9, <1>10, <1>24, <2>1, <2>3
    <3>2. v <= ver[n] /\ (Gone(aspect, n, v)' \/ Covered(Tail(q), aspect, n))
      BY <1>22, <3>1
    <3> QED BY <2>1, <2>2, <3>1, <3>2 DEF Gone
  <2>4. CASE b # c
    <3>1. job'[b] = job[b]
      BY <1>11, <1>24, <2>4
    <3>2. v <= ver[n] /\ (Covered(job[b].todo, aspect, n) \/ Gone(aspect, n, v))
      BY <1>24, <2>1, <3>1 DEF Inv, SweepInv, Past
    <3>3. Covered(job[b].todo, aspect, n) \/ Gone(aspect, n, v)'
      BY <1>15, <3>2
    <3> QED BY <2>1, <2>2, <3>1, <3>2, <3>3 DEF Gone
  <2> QED BY <2>3, <2>4
<1>25. SweepInv'
  <2>1. \A n \in Nodes : ver'[n] <= changes'
    BY <1>8 DEF Inv, SweepInv
  <2>2. \A i \in 1 .. Len(events') : events'[i].node # Root =>
          /\ Past(events[i].settles)'
          /\ \A aspect \in Aspects, n \in Nodes :
               events'[i].settles[aspect][n] > 0 => Covered(EventTodo(events'[i]), aspect, n)
    BY <1>8 DEF Inv, SweepInv, Past
  <2> QED BY <1>23, <1>24, <2>1, <2>2 DEF SweepInv, Past
<1> QED BY <1>15, <1>20, <1>25 DEF Inv
-----------------------------------------------------------------------------
(* The theorems.                                                           *)

LEMMA InvInit == Init => Inv
<1> SUFFICES ASSUME Init PROVE Inv
  OBVIOUS
<1>1. /\ scen \in Scenarios /\ ver = [n \in Nodes |-> 0] /\ changes = 0 /\ here = [n \in Nodes |-> n \in scen.present]
      /\ job = [c \in Everyone |-> Idle] /\ events = <<>> /\ settled = Nothing
      /\ "rows" \in DOMAIN cache /\ DOMAIN cache.rows = {}
  BY DEF Init, Everyone
<1>2. events \in Seq(Events) /\ Len(events) = 0
  BY <1>1, EmptySeq
<1>3. PICK none \in Nat : none = 0
  OBVIOUS
<1>4. settled \in Bounds /\ \A aspect \in Aspects, n \in Nodes : settled[aspect][n] = 0
  <2>1. PICK pairs : pairs = {}
    OBVIOUS
  <2>2. settled = Settles(pairs, none)
    BY <1>1, <1>3, <2>1 DEF Nothing
  <2>3. /\ settled \in Bounds
        /\ \A aspect \in Aspects, n \in Nodes : settled[aspect][n] = IF <<aspect, n>> \in pairs THEN none ELSE 0
    BY <2>2, SettlesOK
  <2> QED BY <1>3, <2>3
<1>5. here \in [Nodes -> BOOLEAN]
  <2>1. \A n \in Nodes : (n \in scen.present) \in BOOLEAN
    OBVIOUS
  <2> QED BY <1>1, <2>1, Zenon
<1>6. \A c \in Everyone : job[c] = Idle
  BY <1>1
<1>7. TypeInv
  <2>1. job \in [Everyone -> Jobs] /\ \A c \in Everyone : JobOK(job[c])
    BY <1>1, IdleOK
  <2> QED BY <1>1, <1>2, <1>4, <1>5, <2>1 DEF TypeInv
<1>8. Present = {}
  BY <1>1, <1>6, IdleOK DEF Present, Stored, OnItsWay
<1>9. SweepInv
  <2>1. \A n \in Nodes : ver[n] = 0
    BY <1>1
  <2>2. \A c \in Everyone : job[c].at # "sweep"
    BY <1>6, IdleOK
  <2> QED BY <1>1, <1>2, <1>4, <1>8, <2>1, <2>2 DEF SweepInv, Past, Gone
<1> QED BY <1>7, <1>8, <1>9 DEF Inv, ServedInv

LEMMA InvStep == Inv /\ [Next]_vars => Inv'
<1> SUFFICES ASSUME Inv, [Next]_vars PROVE Inv'
  OBVIOUS
<1>1. ASSUME NEW c \in Callers, NEW n \in Nodes, NEW want \in SUBSET Flags, StatLookup(c, n, want) PROVE Inv'
  BY <1>1, StatLookupStep
<1>2. ASSUME NEW c \in Callers, ParentLookup(c) PROVE Inv'
  BY <1>2, ParentLookupStep
<1>3. ASSUME NEW c \in Callers, FreshListing(c) PROVE Inv'
  BY <1>3, FreshListingStep
<1>4. ASSUME NEW c \in Callers, DirectStat(c) PROVE Inv'
  BY <1>4, DirectStatStep
<1>5. ASSUME NEW c \in Callers, NEW p \in Directories \cup {Root}, NEW want \in SUBSET Flags, List(c, p, want)
      PROVE  Inv'
  BY <1>5, ListStep
<1>6. ASSUME NEW c \in Callers, Fill(c) PROVE Inv'
  BY <1>6, FillStep
<1>7. ASSUME NEW c \in Callers, NEW m \in scen.mutations, Mutate(c, m) PROVE Inv'
  BY <1>7, MutateStep
<1>8. ASSUME NEW c \in Callers \cup {Drain}, Sweep(c) PROVE Inv'
  BY <1>8, SweepStep DEF Everyone
<1>9. ASSUME NEW m \in scen.foreign, Foreign(m) PROVE Inv'
  BY <1>9, ForeignStep
<1>10. CASE Deliver
  BY <1>10, DeliverStep
<1>11. ASSUME NEW how \in {"error", "clean", "managed", "teardown"}, EndStream(how) PROVE Inv'
  BY <1>11, EndStreamStep
<1>12. CASE OpenStream
  BY <1>12, OpenStreamStep
<1>13. CASE (\E key \in DOMAIN cache.rows : Expire(key)) \/ Purge
  BY <1>13, ExpireStep
<1>14. CASE UNCHANGED vars
  <2>1. UNCHANGED <<scen, ver, here, changes, cache, job, events, settled>>
    BY <1>14 DEF vars
  <2>2. \A n \in Nodes : ver[n] <= ver'[n] /\ ver'[n] <= changes'
    BY <2>1 DEF Inv, SweepInv, TypeInv
  <2> QED BY <2>1, <2>2, StreamStep DEF Inv, TypeInv
<1> QED BY <1>1, <1>2, <1>3, <1>4, <1>5, <1>6, <1>7, <1>8, <1>9, <1>10, <1>11, <1>12, <1>13, <1>14 DEF Next

(* What the cache would answer is true of what the backend served.          *)
LEMMA InvHonest == Inv => Honest
<1> SUFFICES ASSUME Inv, NEW n \in Nodes, NEW want \in SUBSET Flags,
                    NEW stat, stat = <<"Stat", n>>, NEW list, list = <<"List", Parent[n]>>,
                    NEW row, row = cache.rows[list]
             PROVE  /\ Lookup(cache, stat, want) = "Hit" =>
                         want \subseteq cache.rows[stat].carried /\ cache.rows[stat].there[n]
                    /\ Lookup(cache, list, want) = "Hit" =>
                         CASE FindInPage(row, n) = "Found"    -> row.there[n] /\ want \subseteq row.carried
                           [] FindInPage(row, n) = "NotFound" -> ~row.there[n]
                           [] OTHER -> TRUE
  BY DEF Honest
<1>1. ASSUME NEW key \in DOMAIN cache.rows PROVE Served(key, cache.rows[key])
  <2>1. PICK x : x = [key |-> key, row |-> cache.rows[key]]
    OBVIOUS
  <2>2. x \in Present
    BY <2>1 DEF Present, Stored
  <2> QED BY <2>1, <2>2 DEF Inv, ServedInv
<1>2. ASSUME NEW key, Lookup(cache, key, want) = "Hit"
      PROVE  key \in DOMAIN cache.rows /\ want \subseteq cache.rows[key].flags
  BY <1>2 DEF Lookup, Holds
<1>3. ASSUME Lookup(cache, stat, want) = "Hit"
      PROVE  want \subseteq cache.rows[stat].carried /\ cache.rows[stat].there[n] = TRUE
  BY <1>1, <1>2, <1>3 DEF Served
<1>4. ASSUME Lookup(cache, list, want) = "Hit"
      PROVE  CASE FindInPage(row, n) = "Found"    -> row.there[n] /\ want \subseteq row.carried
               [] FindInPage(row, n) = "NotFound" -> ~row.there[n]
               [] OTHER -> TRUE
  <2>1. Served(list, row) /\ want \subseteq row.flags /\ list[1] = "List" /\ list[2] = Parent[n]
    BY <1>1, <1>2, <1>4
  <2>2. /\ n \in About(list) /\ row.flags \subseteq row.carried
        /\ \A m \in row.shown : row.there[m] = TRUE
        /\ row.complete => \A m \in About(list) \ row.shown : row.there[m] = FALSE
    BY <2>1 DEF Served, About, Children
  <2>3. CASE n \in row.shown
    <3>1. FindInPage(row, n) \in {"Found", "Unavailable"}
      BY <2>3 DEF FindInPage
    <3> QED BY <2>1, <2>2, <2>3, <3>1
  <2>4. CASE n \notin row.shown /\ row.complete
    <3>1. FindInPage(row, n) = "NotFound"
      BY <2>4 DEF FindInPage
    <3> QED BY <2>2, <2>4, <3>1
  <2>5. CASE n \notin row.shown /\ ~row.complete
    <3>1. FindInPage(row, n) = "Unavailable"
      BY <2>5 DEF FindInPage
    <3> QED BY <3>1
  <2> QED BY <2>3, <2>4, <2>5
<1> QED BY <1>3, <1>4

(* A row from before a settled change was on its way when the invalidation  *)
(* ran.                                                                     *)
LEMMA InvStale == Inv => StaleOnlyInFlight
<1> SUFFICES ASSUME Inv, NEW key \in DOMAIN cache.rows, Stale(key) PROVE cache.rows[key].late
  BY DEF StaleOnlyInFlight
<1>1. PICK n \in DOMAIN cache.rows[key].seen : cache.rows[key].seen[n] < settled[key[1]][n]
  BY DEF Stale
<1>2. PICK x : x = [key |-> key, row |-> cache.rows[key]]
  OBVIOUS
<1>3. x \in Present /\ x.key = key /\ x.row = cache.rows[key]
  BY <1>2 DEF Present, Stored
<1>4. DOMAIN x.row.seen = About(key) /\ x.key \in Keys /\ x.row.seen[n] \in Nat
  <2>1. DOMAIN x.row.seen = About(key)
    BY <1>3 DEF Inv, ServedInv, Served
  <2> QED BY <1>1, <1>3, <2>1, PresentShapes DEF Inv
<1>5. key[1] \in Aspects /\ n \in Nodes /\ key = RowKey(key[1], n)
  BY <1>1, <1>3, <1>4, KeyShapes
<1>6. PICK aspect \in Aspects : aspect = key[1]
  BY <1>5
<1>7. settled[aspect][n] \in Nat
  BY <1>5 DEF Inv, TypeInv, Bounds
<1>8. Gone(aspect, n, settled[aspect][n])
  BY <1>5 DEF Inv, SweepInv
<1>9. x.row.late \/ x.row.seen[n] >= settled[aspect][n]
  BY <1>3, <1>5, <1>6, <1>8 DEF Gone
<1> QED BY <1>1, <1>3, <1>4, <1>6, <1>7, <1>9

LEMMA Invariant == Spec => []Inv
BY InvInit, InvStep, PTL DEF Spec

(* MetadataCache::get and stat_from_parent_list answer with what the        *)
(* backend served: a hit never claims a flag its payload was not fetched    *)
(* under, and a page never denies a file it was cut off before.             *)
THEOREM AnswersHonest == Spec => []Honest
BY Invariant, InvHonest, PTL

(* Whatever fills, mutations, watch events, gaps and expiries interleave:   *)
(* once the invalidations of a change are through, no row is from before    *)
(* it but one that was already on its way to insert while they ran.         *)
THEOREM StaleBounded == Spec => []StaleOnlyInFlight
BY Invariant, InvStale, PTL
=============================================================================
