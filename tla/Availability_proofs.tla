------------------------ MODULE Availability_proofs ------------------------
(***************************************************************************)
(* Proofs about Availability, for any addresses, clients and processes, any *)
(* number of calls, versions and mishaps: the types; that no row, and no    *)
(* answer, is older than a mutation that has finished; and that a row is    *)
(* never wrong about the backend where one client makes all the changes.    *)
(*                                                                         *)
(* The second needs the restriction that the model calls Guarded, the third *)
(* also WriteAhead.                                                         *)
(***************************************************************************)
EXTENDS Availability, SequenceTheorems, TLAPS

(* Where a call is.                                                         *)
Mutations == {"write", "mutate", "continue", "tree", "rename"}
Reading == {"stat", "known", "lookup", "hit", "fetch", "live", "live_swap", "live_body", "discard",
            "fill", "tee", "tee_commit", "rl_swap", "rl_prune", "rl_check", "rl_remove"}
Arming == {"arm_read", "arm_clear"}
WritingThrough == {"wt_commit", "wt_final", "pub_swap"}
Clearing == {"cl_read", "cl_swap", "cl_remove", "cl_body"}
Sweeping == {"st_select", "st_row", "st_body"}
Dropping == {"drop_row", "drop_body"}
Late == Clearing \cup Sweeping \cup Dropping \cup WritingThrough \cup {"pub_remove", "disarm"}
Publishing == {"fill", "tee", "tee_commit", "rl_swap"} \cup WritingThrough

Elems(s) == {s[i] : i \in 1 .. Len(s)}
BelowAll(s) == UNION {Below[a] : a \in Elems(s)}

(* The locals that go with a label.                                         *)
Shape(label, l) ==
  /\ label # "idle" => l.addrs # <<>>
  /\ label \in Clearing \cup Sweeping \cup Dropping \cup Arming \cup {"disarm"} => l.todo # <<>>
  /\ Elems(l.todo) \subseteq Elems(l.addrs) /\ Elems(l.guards) \subseteq Elems(l.addrs)
  /\ label \notin Late \/ l.op = "read" => l.ver = NoVersions
  /\ label \in Reading => l.op = "read"
  /\ label \in {"snap", "seed"} => l.op \in {"read", "write"}
  /\ label \in Arming \cup {"inner", "disarm"} => l.op \in Mutations
  /\ label = "restore" => l.op = "continue"
  /\ label \in WritingThrough \cup {"pub_remove"} => l.op = "write"
  /\ label \in Sweeping => l.op \in Trees
  /\ label \in Dropping => l.op \in Mutations \cup {"read"}
  /\ label \in {"snap", "seed", "inner", "pub_remove"} \cup WritingThrough \cup Clearing \cup Sweeping =>
       (l.op \in Mutations => Elems(l.addrs) \subseteq Elems(l.guards))
  /\ label \in Arming => Elems(l.addrs) \subseteq Elems(l.guards) \cup Elems(Tail(l.todo))
  /\ l.op \in {"read", "write", "mutate", "continue"} => Elems(l.addrs) \subseteq {l.addrs[1]}
  /\ label \in WritingThrough => l.etag >= l.ver[l.addrs[1]]
  /\ l.kept # None => l.op = "continue"
  /\ l.op = "read" => l.todo # <<>>
  /\ label \in WritingThrough \cup {"pub_remove"} => l.todo = l.addrs
  /\ label \in {"rl_swap", "pub_swap"} => l.snap # None
  /\ label \in Clearing => l.op # "none"
  /\ label \in Arming \cup {"inner"} => (l.reg = TRUE => l.op = "write")

(* Its operation is one that the scenario has.                              *)
Allowed(l) == l.op \in {"tree", "rename", "continue"} => l.op \in sc.ops

(* The addresses that a call has still to clear, of those it has changed.   *)
Swept(l) == IF l.op \in Trees THEN BelowAll(l.addrs) ELSE {}
Owed(label, l) ==
  IF label \in {"cl_read", "cl_swap", "cl_remove"} THEN Elems(l.todo) \cup Swept(l)
  ELSE IF label = "cl_body" THEN Elems(Tail(l.todo)) \cup Swept(l)
  ELSE IF label = "drop_row" THEN Elems(l.todo)
  ELSE IF label = "drop_body" THEN Elems(Tail(l.todo))
  ELSE IF label \in WritingThrough \cup {"pub_remove"} THEN Elems(l.addrs)
  ELSE IF label = "st_select" THEN BelowAll(l.todo)
  ELSE IF label = "st_row" THEN l.sub \cup BelowAll(Tail(l.todo))
  ELSE IF label = "st_body" THEN BelowAll(Tail(l.todo))
  ELSE {}

(* A call binds an address that it has changed and cleared: from then on    *)
(* nothing older may be published there, whether it has returned or not.    *)
Binds(label, l, a) == l.ver[a] > 0 /\ a \notin l.lost /\ a \notin Owed(label, l)
AtLeast(a, v) == v >= floor[a] /\ \A c \in Clients : Binds(pc[c], loc[c], a) => v >= loc[c].ver[a]

(* The rows that have been seen, as against those that a task will write.   *)
KnownRows == {row[a] : a \in Addrs}
             \cup (UNION {{loc[c].snap, loc[c].seen, loc[c].kept} : c \in Clients})
             \cup {t.from : t \in tasks}

LocalInv == \A c \in Clients : /\ Shape(pc[c], loc[c]) /\ Allowed(loc[c])
                               /\ pc[c] = "idle" => loc[c] = NoLocals
                               /\ pc[c] # "idle" => c \in sc.clients
                               /\ "cancel" \notin sc.mishaps => tasks = {}
VerInv ==
  /\ \A a \in Addrs : floor[a] <= backend[a].ver
  /\ \A c \in Clients, a \in Addrs : loc[c].ver[a] <= backend[a].ver /\ loc[c].start[a] <= floor[a]
  /\ \A e \in events : e.ver <= backend[e.addr].ver

(* A row is as new as what binds its address; so is what will replace it,   *)
(* as long as the row is still the one that the replacement is fenced on.   *)
RowInv == \A a \in Addrs : Named(row[a]) # 0 => AtLeast(a, Named(row[a]))
PubInv == \A c \in Clients :
  pc[c] \in Publishing /\ loc[c].snap # None /\ row[Addr(c)] = loc[c].snap => AtLeast(Addr(c), loc[c].etag)
TaskInv == \A t \in tasks : t.kind = "swap" /\ Named(t.to) # 0 =>
  t.from # None /\ (row[t.addr] = t.from => AtLeast(t.addr, t.to.etag))

(* The row that a detached swap will write has been seen nowhere.           *)
NonceInv == \A t \in tasks : t.kind = "swap" /\ t.to # None =>
  t.to \notin KnownRows /\ \A u \in tasks : u.kind = "swap" /\ u.to = t.to => u = t

KeptInv == \A c \in Clients : pc[c] \in {"arm_read", "arm_clear", "inner", "restore"} /\ Named(loc[c].kept) # 0 =>
  Named(loc[c].kept) >= floor[Addr(c)]
FreshInv == \A c \in Clients : pc[c] \in {"lookup", "hit"} => loc[c].etag >= loc[c].start[Addr(c)]

SafeInv == RowInv /\ PubInv /\ TaskInv /\ NonceInv /\ KeptInv /\ FreshInv
Inv == TypeOK /\ LocalInv /\ VerInv /\ (Guarded => SafeInv)
-----------------------------------------------------------------------------
(* Sequences of addresses.                                                  *)

LEMMA ElemsOf ==
  /\ Elems(<<>>) = {}
  /\ \A a \in Addrs : Elems(<<a>>) = {a}
  /\ \A a \in Addrs, b \in Addrs : Elems(<<a, b>>) = {a, b}
  /\ \A s \in Seq(Addrs) : Elems(s) \subseteq Addrs /\ BelowAll(s) \subseteq Addrs
  /\ \A s \in Seq(Addrs) : s # <<>> =>
       /\ s[1] = Head(s) /\ Head(s) \in Addrs /\ Tail(s) \in Seq(Addrs) /\ Head(s) \in Elems(s)
       /\ Elems(s) = {Head(s)} \cup Elems(Tail(s))
       /\ BelowAll(s) = Below[Head(s)] \cup BelowAll(Tail(s))
  /\ BelowAll(<<>>) = {}
  /\ \A a \in Addrs, s \in Seq(Addrs) :
       <<a>> \o s \in Seq(Addrs) /\ <<a>> \o s # <<>> /\ Elems(<<a>> \o s) = {a} \cup Elems(s)
<1>1. Elems(<<>>) = {} /\ BelowAll(<<>>) = {}
  BY DEF Elems, BelowAll
<1>2. \A a \in Addrs : Elems(<<a>>) = {a}
  BY DEF Elems
<1>3. ASSUME NEW a \in Addrs, NEW b \in Addrs PROVE Elems(<<a, b>>) = {a, b}
  <2> DEFINE s == <<a, b>>
  <2>1. Len(s) = 2 /\ s[1] = a /\ s[2] = b
    OBVIOUS
  <2> HIDE DEF s
  <2>2. Elems(s) = {a, b}
    BY <2>1 DEF Elems
  <2> QED BY <2>2 DEF s
<1>4. \A s \in Seq(Addrs) : Elems(s) \subseteq Addrs
  BY DEF Elems
<1>5. \A s \in Seq(Addrs) : BelowAll(s) \subseteq Addrs
  BY <1>4, ShapeAssumption DEF BelowAll
<1>6. ASSUME NEW s \in Seq(Addrs), s # <<>>
      PROVE  /\ s[1] = Head(s) /\ Head(s) \in Addrs /\ Tail(s) \in Seq(Addrs) /\ Head(s) \in Elems(s)
             /\ Elems(s) = {Head(s)} \cup Elems(Tail(s))
  <2> DEFINE t == Tail(s)
  <2>1. /\ Len(s) \in Nat \ {0} /\ Len(t) = Len(s) - 1 /\ t \in Seq(Addrs) /\ s[1] = Head(s)
        /\ \A i \in 1 .. Len(t) : t[i] = s[i + 1]
    BY <1>6
  <2> HIDE DEF t
  <2>2. 1 \in 1 .. Len(s) /\ s[1] \in Addrs
    BY <2>1
  <2>3. ASSUME NEW i \in 1 .. Len(s) PROVE s[i] \in {s[1]} \cup Elems(t)
    <3>1. CASE i = 1 BY <3>1
    <3>2. CASE i # 1
      <4>1. i - 1 \in 1 .. Len(t) /\ t[i - 1] = s[(i - 1) + 1] /\ (i - 1) + 1 = i
        BY <2>1, <3>2
      <4> QED BY <4>1 DEF Elems
    <3> QED BY <3>1, <3>2
  <2>4. ASSUME NEW i \in 1 .. Len(t) PROVE t[i] \in Elems(s)
    <3>1. i + 1 \in 1 .. Len(s)
      BY <2>1
    <3> QED BY <2>1, <3>1 DEF Elems
  <2>5. Elems(s) = {s[1]} \cup Elems(t)
    <3>1. Elems(s) \subseteq {s[1]} \cup Elems(t)
      BY <2>3 DEF Elems
    <3>2. Elems(t) \subseteq Elems(s)
      BY <2>4 DEF Elems
    <3>3. s[1] \in Elems(s)
      BY <2>2 DEF Elems
    <3> QED BY <3>1, <3>2, <3>3
  <2> QED BY <2>1, <2>2, <2>5 DEF t
<1>7. ASSUME NEW s \in Seq(Addrs), s # <<>> PROVE BelowAll(s) = Below[Head(s)] \cup BelowAll(Tail(s))
  BY <1>6, <1>7 DEF BelowAll
<1>8. ASSUME NEW a \in Addrs, NEW s \in Seq(Addrs)
      PROVE  <<a>> \o s \in Seq(Addrs) /\ <<a>> \o s # <<>> /\ Elems(<<a>> \o s) = {a} \cup Elems(s)
  <2> DEFINE t == <<a>> \o s
  <2>1. t \in Seq(Addrs) /\ t # <<>> /\ Head(t) = a /\ Tail(t) = s
    BY <1>8
  <2> HIDE DEF t
  <2>2. Elems(t) = {a} \cup Elems(s)
    BY <1>6, <2>1
  <2> QED BY <2>1, <2>2 DEF t
<1> QED BY <1>1, <1>2, <1>3, <1>4, <1>5, <1>6, <1>7, <1>8
-----------------------------------------------------------------------------
(* Rows.                                                                    *)

Fresh(r) == r \in Rows /\ r.nonce \notin Used

(* encode_avail makes a row that nobody has seen.                           *)
LEMMA Encoded ==
  ASSUME NonceLeft, NEW e \in 0 .. MaxVer
  PROVE  Fresh(encode_avail(e)) /\ Named(encode_avail(e)) = e /\ encode_avail(e).etag = e
<1> DEFINE n == CHOOSE n \in Nonces : n \notin Used
<1>1. n \in Nonces /\ n \notin Used
  BY DEF NonceLeft
<1> HIDE DEF n
<1> DEFINE r == [nonce |-> n, etag |-> e]
<1>2. r \in Rows /\ r.nonce = n /\ r.etag = e
  BY <1>1 DEF Rows
<1>3. r # None
  BY <1>2, ShapeAssumption
<1>4. r = encode_avail(e)
  BY DEF encode_avail, n
<1> HIDE DEF r
<1> QED BY <1>1, <1>2, <1>3, <1>4 DEF Fresh, Named

LEMMA FreshUnseen ==
  ASSUME NEW r, Fresh(r)
  PROVE  r # None /\ r \notin KnownRows /\ (\A t \in tasks : t.to # r) /\ \A a \in Addrs : row[a] # r
<1>1. r # None
  BY ShapeAssumption DEF Fresh
<1>2. r \notin LiveRows
  BY <1>1 DEF Fresh, Used
<1>3. KnownRows \subseteq LiveRows /\ (\A t \in tasks : t.to \in LiveRows) /\ \A a \in Addrs : row[a] \in LiveRows
  BY DEF KnownRows, LiveRows
<1> QED BY <1>1, <1>2, <1>3

(* What a row names.                                                        *)
LEMMA Names ==
  /\ Named(None) = 0
  /\ \A r \in Rows : r # None /\ Named(r) = r.etag
  /\ \A r \in Rows \cup {None} : Named(r) \in 0 .. MaxVer
<1>1. \A r \in Rows : r # None /\ r.etag \in 0 .. MaxVer
  BY ShapeAssumption DEF Rows
<1>2. 0 \in 0 .. MaxVer
  BY BoundsAssumption
<1> QED BY <1>1, <1>2 DEF Named

LEMMA Nothing ==
  /\ NoLocals \in Locals /\ NoLocals.ver = NoVersions /\ NoLocals.start = NoVersions
  /\ NoLocals.snap = None /\ NoLocals.seen = None /\ NoLocals.kept = None /\ NoLocals.op = "none"
  /\ NoLocals.addrs = <<>> /\ NoLocals.todo = <<>> /\ NoLocals.guards = <<>>
  /\ NoVersions \in VersionMaps /\ (\A a \in Addrs : NoVersions[a] = 0)
  /\ \A label, l, a : l.ver = NoVersions /\ a \in Addrs => ~Binds(label, l, a)
<1>1. NoVersions \in VersionMaps /\ (\A a \in Addrs : NoVersions[a] = 0)
  BY BoundsAssumption DEF NoVersions, VersionMaps
<1>2. NoLocals \in Locals
  BY <1>1, BoundsAssumption DEF NoLocals, Locals, OpNames
<1>3. \A label, l, a : l.ver = NoVersions /\ a \in Addrs => ~Binds(label, l, a)
  BY <1>1 DEF Binds
<1> QED BY <1>1, <1>2, <1>3 DEF NoLocals
-----------------------------------------------------------------------------
(* The step of a client.                                                    *)

Moves(c, label, l) == pc' = [pc EXCEPT ![c] = label] /\ loc' = [loc EXCEPT ![c] = l]

(* The rows after it: one that is left binds nobody more than before; one   *)
(* that is written is new, and as new as it has to be.                      *)
Stays(c, label, l, b) ==
  row'[b] = row[b] /\ (Binds(label, l, b) => Binds(pc[c], loc[c], b) /\ l.ver[b] = loc[c].ver[b])
Goes(label, l, b) ==
  \/ row'[b] = None
  \/ /\ Fresh(row'[b])
     /\ Named(row'[b]) # 0 => /\ AtLeast(b, Named(row'[b]))
                              /\ Binds(label, l, b) => Named(row'[b]) >= l.ver[b]
RowsSafe(c, label, l) == \A b \in Addrs : Stays(c, label, l, b) \/ Goes(label, l, b)

(* What it remembers and will publish.                                      *)
Remembers(l) == {l.snap, l.seen, l.kept} \subseteq KnownRows \cup {None} \cup {row'[b] : b \in Addrs}
Pledged(label, l) ==
  label \in Publishing /\ l.snap # None /\ row'[l.addrs[1]] = l.snap => AtLeast(l.addrs[1], l.etag)
Keeps(label, l) ==
  label \in {"arm_read", "arm_clear", "inner", "restore"} /\ Named(l.kept) # 0 => Named(l.kept) >= floor[l.addrs[1]]
Answers(label, l) == label \in {"lookup", "hit"} => l.etag >= l.start[l.addrs[1]]

(* What it leaves behind.                                                   *)
TasksSafe ==
  /\ tasks \subseteq tasks'
  /\ \A t \in tasks' \ tasks :
       /\ t.from \in KnownRows \cup {None}
       /\ t.kind = "swap" =>
            /\ t.to = None \/ Fresh(t.to)
            /\ Named(t.to) # 0 => t.from # None /\ (row[t.addr] = t.from => AtLeast(t.addr, t.to.etag))
            /\ UNCHANGED row
            /\ \A u \in tasks' \ tasks : u.kind = "swap" => u = t

(* The rest of the state.                                                   *)
RestOK ==
  /\ backend \in [Addrs -> [ver : Versions, live : BOOLEAN]]
  /\ events \subseteq [addr : Addrs, ver : Versions, del : BOOLEAN]
  /\ row \in [Addrs -> Rows \cup {None}]
  /\ content \in [Addrs -> SUBSET (0 .. MaxVer)]
  /\ gens \in [Hosts -> [Addrs -> [refs : Nat, gen : Nat]]]
  /\ ops \in 0 .. sc.max_ops /\ mishaps \in 0 .. sc.max_mishaps
WorldSafe(l) ==
  /\ \A a \in Addrs : backend[a].ver <= backend'[a].ver /\ l.ver[a] <= backend'[a].ver /\ l.start[a] <= floor[a]
  /\ \A e \in events' : e.ver <= backend'[e.addr].ver

(* AtLeast, after the step.                                                 *)
Later(a, v) == v >= floor'[a] /\ \A c \in Clients : Binds(pc'[c], loc'[c], a) => v >= loc'[c].ver[a]

(* A pledge outlives a step that does not go against it.                    *)
LEMMA Transfer ==
  ASSUME TypeOK, NEW c \in Clients, NEW label, NEW l, Moves(c, label, l), NEW b \in Addrs, NEW v,
         AtLeast(b, v), v >= floor'[b], Binds(label, l, b) => v >= l.ver[b]
  PROVE  Later(b, v)
<1>1. ASSUME NEW e \in Clients, Binds(pc'[e], loc'[e], b) PROVE v >= loc'[e].ver[b]
  <2>1. CASE e = c
    <3>1. pc'[e] = label /\ loc'[e] = l
      BY <2>1 DEF TypeOK, Moves
    <3> QED BY <1>1, <3>1
  <2>2. CASE e # c
    <3>1. pc'[e] = pc[e] /\ loc'[e] = loc[e]
      BY <2>2 DEF TypeOK, Moves
    <3> QED BY <1>1, <3>1 DEF AtLeast
  <2> QED BY <2>1, <2>2
<1> QED BY <1>1 DEF Later

Carries(b) == \A v \in Nat : AtLeast(b, v) => Later(b, v)
RowCarried(b) ==
  \/ row'[b] = row[b] /\ Carries(b)
  \/ row'[b] = None
  \/ Fresh(row'[b]) /\ (Named(row'[b]) # 0 => Later(b, Named(row'[b])))

LEMMA SafeStep ==
  ASSUME TypeOK, LocalInv, SafeInv, TypeOK', LocalInv', NEW c \in Clients, NEW label, NEW l, Moves(c, label, l),
         TasksSafe, \A b \in Addrs : RowCarried(b), Remembers(l),
         (label \in Publishing /\ l.snap # None /\ row'[l.addrs[1]] = l.snap) => Later(l.addrs[1], l.etag)
  PROVE  RowInv' /\ PubInv' /\ TaskInv' /\ NonceInv'
<1>1. \A e \in Clients : IF e = c THEN pc'[e] = label /\ loc'[e] = l ELSE pc'[e] = pc[e] /\ loc'[e] = loc[e]
  BY DEF TypeOK, Moves
<1>2. \A b \in Addrs : row[b] \in Rows \cup {None} /\ row'[b] \in Rows \cup {None}
  BY DEF TypeOK
<1>3. \A b \in Addrs, r \in KnownRows : row'[b] = r /\ r # None => row[b] = r /\ Carries(b)
  BY FreshUnseen DEF RowCarried
<1>4. RowInv'
  <2> SUFFICES ASSUME NEW b \in Addrs, Named(row'[b]) # 0 PROVE Later(b, Named(row'[b]))
    BY DEF RowInv, AtLeast, Later
  <2>1. Named(row'[b]) \in Nat /\ row'[b] # None
    BY <1>2, Names
  <2> QED BY <2>1 DEF RowCarried, Carries, SafeInv, RowInv
<1>5. ASSUME NEW e \in Clients PROVE {loc[e].snap, loc[e].seen, loc[e].kept} \subseteq KnownRows
  BY DEF KnownRows
<1>6. PubInv'
  <2> SUFFICES ASSUME NEW e \in Clients, pc'[e] \in Publishing, loc'[e].snap # None, row'[loc'[e].addrs[1]] = loc'[e].snap
               PROVE  Later(loc'[e].addrs[1], loc'[e].etag)
    BY DEF PubInv, Addr, AtLeast, Later
  <2>1. CASE e = c BY <1>1, <2>1
  <2>2. CASE e # c
    <3>1. pc'[e] = pc[e] /\ loc'[e] = loc[e]
      BY <1>1, <2>2
    <3>2. loc[e] \in Locals /\ loc[e].addrs # <<>> /\ loc[e].etag \in Nat
      <4>1. loc[e] \in Locals /\ Shape(pc[e], loc[e]) /\ pc[e] # "idle"
        BY <3>1 DEF TypeOK, LocalInv, Publishing, WritingThrough
      <4> QED BY <4>1, BoundsAssumption DEF Shape, Locals
    <3>3. loc[e].addrs[1] \in Addrs
      <4>1. loc[e].addrs \in Seq(Addrs)
        BY <3>2 DEF Locals
      <4> QED BY <3>2, <4>1, ElemsOf
    <3>4. row[loc[e].addrs[1]] = loc[e].snap /\ Carries(loc[e].addrs[1])
      BY <1>3, <1>5, <3>1, <3>3
    <3>5. AtLeast(loc[e].addrs[1], loc[e].etag)
      BY <3>1, <3>4 DEF SafeInv, PubInv, Addr
    <3>6. PICK a \in Addrs : a = loc[e].addrs[1]
      BY <3>3
    <3>7. PICK v \in Nat : v = loc[e].etag
      BY <3>2
    <3>8. Later(a, v)
      BY <3>4, <3>5, <3>6, <3>7 DEF Carries
    <3> QED BY <3>1, <3>6, <3>7, <3>8
  <2> QED BY <2>1, <2>2
<1>7. \A t \in tasks : t.from \in KnownRows /\ t \in TaskRecords
  BY DEF KnownRows, TypeOK
<1>8. TaskInv'
  <2> SUFFICES ASSUME NEW t \in tasks', t.kind = "swap", Named(t.to) # 0
               PROVE  t.from # None /\ (row'[t.addr] = t.from => Later(t.addr, t.to.etag))
    BY DEF TaskInv, AtLeast, Later
  <2>1. t \in TaskRecords
    BY DEF TypeOK
  <2>2. t.addr \in Addrs /\ t.to.etag \in Nat /\ t.from \in Rows \cup {None}
    <3>1. t.addr \in Addrs /\ t.to \in Rows \cup {None} /\ t.from \in Rows \cup {None}
      BY <2>1 DEF TaskRecords
    <3>2. t.to # None
      BY Names
    <3> QED BY <3>1, <3>2, BoundsAssumption DEF Rows
  <2>3. t.from # None /\ (row[t.addr] = t.from => AtLeast(t.addr, t.to.etag))
    BY DEF TasksSafe, SafeInv, TaskInv
  <2>4. t.from \in KnownRows
    BY <1>7, <2>3 DEF TasksSafe
  <2>5. PICK a \in Addrs : a = t.addr
    BY <2>2
  <2>6. PICK v \in Nat : v = t.to.etag
    BY <2>2
  <2>7. row'[a] = t.from => Later(a, v)
    BY <1>3, <2>3, <2>4, <2>5, <2>6 DEF Carries
  <2> QED BY <2>3, <2>5, <2>6, <2>7
<1>9. KnownRows' \subseteq KnownRows \cup {None} \cup {row'[b] : b \in Addrs}
  <2>1. ASSUME NEW t \in tasks' PROVE t.from \in KnownRows \cup {None}
    BY <1>7 DEF TasksSafe
  <2>2. ASSUME NEW e \in Clients
        PROVE  {loc'[e].snap, loc'[e].seen, loc'[e].kept} \subseteq KnownRows \cup {None} \cup {row'[b] : b \in Addrs}
    BY <1>1, <1>5 DEF Remembers
  <2> QED BY <2>1, <2>2 DEF KnownRows
<1>10. NonceInv'
  <2> SUFFICES ASSUME NEW t \in tasks', t.kind = "swap", t.to # None
               PROVE  /\ t.to \notin KnownRows'
                      /\ \A u \in tasks' : u.kind = "swap" /\ u.to = t.to => u = t
    BY DEF NonceInv
  <2>1. CASE t \in tasks
    <3>1. t.to \notin KnownRows /\ \A u \in tasks : u.kind = "swap" /\ u.to = t.to => u = t
      BY <2>1 DEF SafeInv, NonceInv
    <3>2. \A b \in Addrs : row[b] \in KnownRows
      BY DEF KnownRows
    <3>3. \A b \in Addrs : row'[b] # t.to
      BY <2>1, <3>1, <3>2, FreshUnseen DEF RowCarried
    <3>4. \A u \in tasks' \ tasks : u.kind = "swap" => u.to # t.to
      BY <2>1, FreshUnseen DEF TasksSafe
    <3> QED BY <1>9, <3>1, <3>3, <3>4
  <2>2. CASE t \notin tasks
    <3>1. Fresh(t.to) /\ row' = row /\ \A u \in tasks' \ tasks : u.kind = "swap" => u = t
      BY <2>2 DEF TasksSafe
    <3>2. t.to \notin KnownRows /\ (\A b \in Addrs : row'[b] # t.to) /\ \A u \in tasks : u.to # t.to
      BY <3>1, FreshUnseen
    <3> QED BY <1>9, <3>1, <3>2
  <2> QED BY <2>1, <2>2
<1> QED BY <1>4, <1>6, <1>8, <1>10

(* A client goes on with its call.                                          *)
LEMMA ClientStep ==
  ASSUME Inv, NEW c \in Clients, NEW label \in Labels, NEW l \in Locals, Moves(c, label, l),
         Shape(label, l), Allowed(l), label # "idle", c \in sc.clients,
         UNCHANGED <<floor, sc>>, RestOK', WorldSafe(l),
         tasks' \subseteq TaskRecords, tasks' = tasks \/ "cancel" \in sc.mishaps,
         Guarded => /\ TasksSafe /\ RowsSafe(c, label, l) /\ Remembers(l) /\ Pledged(label, l)
                    /\ Keeps(label, l) /\ Answers(label, l)
  PROVE  Inv'
<1>1. \A e \in Clients : IF e = c THEN pc'[e] = label /\ loc'[e] = l ELSE pc'[e] = pc[e] /\ loc'[e] = loc[e]
  BY DEF Inv, TypeOK, Moves
<1>2. TypeOK'
  BY DEF Inv, TypeOK, RestOK, Moves
<1>3. LocalInv'
  BY <1>1 DEF Inv, LocalInv, Allowed
<1>4. VerInv'
  <2>1. \A a \in Addrs : floor[a] <= backend'[a].ver
    <3> TAKE a \in Addrs
    <3>1. floor[a] <= backend[a].ver /\ backend[a].ver <= backend'[a].ver
      BY DEF Inv, VerInv, WorldSafe
    <3>2. floor[a] \in Nat /\ backend[a].ver \in Nat /\ backend'[a].ver \in Nat
      BY <1>2 DEF Inv, TypeOK, VersionMaps, Versions
    <3> QED BY <3>1, <3>2
  <2>2. ASSUME NEW e \in Clients, NEW a \in Addrs
        PROVE  loc'[e].ver[a] <= backend'[a].ver /\ loc'[e].start[a] <= floor[a]
    <3>1. CASE e = c BY <1>1, <3>1 DEF WorldSafe
    <3>2. CASE e # c
      <4>1. loc[e].ver[a] <= backend[a].ver /\ backend[a].ver <= backend'[a].ver /\ loc[e].start[a] <= floor[a]
        BY DEF Inv, VerInv, WorldSafe
      <4>2. loc[e].ver \in VersionMaps /\ backend[a].ver \in Nat /\ backend'[a].ver \in Nat
        <5>1. loc[e] \in Locals /\ backend[a] \in [ver : Versions, live : BOOLEAN]
              /\ backend'[a] \in [ver : Versions, live : BOOLEAN]
          BY <1>2 DEF Inv, TypeOK
        <5>2. Versions \subseteq Nat
          BY DEF Versions
        <5> QED BY <5>1, <5>2 DEF Locals
      <4>3. loc[e].ver[a] \in Nat
        BY <4>2 DEF VersionMaps
      <4> QED BY <1>1, <3>2, <4>1, <4>2, <4>3
    <3> QED BY <3>1, <3>2
  <2> QED BY <2>1, <2>2 DEF VerInv, WorldSafe
<1>5. ASSUME Guarded PROVE SafeInv'
  <2>1. \A a \in Addrs : floor[a] \in Nat /\ floor'[a] = floor[a]
    BY DEF Inv, TypeOK, VersionMaps
  <2>2. ASSUME NEW e \in Clients, NEW a \in Addrs PROVE loc[e].ver[a] \in Nat
    <3>1. loc[e].ver \in VersionMaps
      BY DEF Inv, TypeOK, Locals
    <3> QED BY <3>1 DEF VersionMaps
  <2>3. ASSUME NEW b \in Addrs PROVE RowCarried(b)
    <3>1. CASE Stays(c, label, l, b)
      <4>1. Carries(b)
        <5> SUFFICES ASSUME NEW v \in Nat, AtLeast(b, v) PROVE Later(b, v)
          BY DEF Carries
        <5>1. Binds(label, l, b) => v >= l.ver[b]
          BY <3>1 DEF Stays, AtLeast
        <5>2. v >= floor'[b]
          BY <2>1 DEF AtLeast
        <5> QED BY <5>1, <5>2, Transfer DEF Inv
      <4> QED BY <3>1, <4>1 DEF RowCarried, Stays
    <3>2. CASE row'[b] = None BY <3>2 DEF RowCarried
    <3>3. CASE Fresh(row'[b]) /\ Goes(label, l, b) /\ row'[b] # None
      <4>1. ASSUME Named(row'[b]) # 0 PROVE Later(b, Named(row'[b]))
        <5>1. PICK v : v = Named(row'[b])
          OBVIOUS
        <5>2. AtLeast(b, v) /\ (Binds(label, l, b) => v >= l.ver[b])
          BY <3>3, <4>1, <5>1 DEF Goes
        <5>3. v >= floor'[b]
          BY <2>1, <5>2 DEF AtLeast
        <5>4. Later(b, v)
          BY <5>2, <5>3, Transfer DEF Inv
        <5> QED BY <5>1, <5>4
      <4> QED BY <3>3, <4>1 DEF RowCarried
    <3> QED BY <1>5, <3>1, <3>2, <3>3 DEF RowsSafe, Goes
  <2>4. ASSUME label \in Publishing, l.snap # None, row'[l.addrs[1]] = l.snap PROVE Later(l.addrs[1], l.etag)
    <3>1. AtLeast(l.addrs[1], l.etag)
      BY <1>5, <2>4 DEF Pledged
    <3>2. l.addrs[1] \in Addrs /\ l.addrs[1] \in Elems(l.addrs)
      <4>1. l.addrs \in Seq(Addrs) /\ l.addrs # <<>>
        BY DEF Locals, Shape
      <4> QED BY <4>1, ElemsOf
    <3>3. ~Binds(label, l, l.addrs[1])
      <4>1. CASE l.op = "read"
        <5>1. l.ver = NoVersions
          BY <4>1 DEF Shape
        <5> QED BY <3>2, <5>1, Nothing
      <4>2. CASE l.op # "read"
        <5>1. label \in WritingThrough
          BY <2>4, <4>2 DEF Shape, Publishing, Reading
        <5>2. Owed(label, l) = Elems(l.addrs)
          BY <5>1 DEF Owed, WritingThrough
        <5> QED BY <3>2, <5>2 DEF Binds
      <4> QED BY <4>1, <4>2
    <3>4. PICK a \in Addrs : a = l.addrs[1]
      BY <3>2
    <3>5. l.etag >= floor'[a]
      BY <2>1, <3>1, <3>4 DEF AtLeast
    <3>6. Later(a, l.etag)
      BY <3>1, <3>3, <3>4, <3>5, Transfer DEF Inv
    <3> QED BY <3>4, <3>6
  <2>5. RowInv' /\ PubInv' /\ TaskInv' /\ NonceInv'
    BY <1>2, <1>3, <1>5, <2>3, <2>4, SafeStep DEF Inv
  <2>6. KeptInv'
    BY <1>1, <1>5 DEF KeptInv, Keeps, Inv, SafeInv, Addr
  <2>7. FreshInv'
    BY <1>1, <1>5 DEF FreshInv, Answers, Inv, SafeInv, Addr
  <2> QED BY <2>5, <2>6, <2>7 DEF SafeInv
<1> QED BY <1>2, <1>3, <1>4, <1>5 DEF Inv

(* Where continue_write is used, nobody else is at work.                    *)
LEMMA Lone ==
  ASSUME TypeOK, LocalInv, Guarded, NEW c \in Clients, loc[c].op = "continue", pc[c] # "idle"
  PROVE  tasks = {} /\ \A e \in Clients : e # c => pc[e] = "idle" /\ loc[e] = NoLocals
<1>1. "continue" \in sc.ops /\ c \in sc.clients /\ sc \in Scenarios
  BY DEF LocalInv, Allowed, TypeOK
<1>2. "cancel" \notin sc.mishaps /\ \A e \in sc.clients : e = c
  BY <1>1 DEF Guarded
<1> QED BY <1>2 DEF LocalInv

(* Returns: what the call has established is finished.                      *)
Finishes(c) ==
  /\ pc' = [pc EXCEPT ![c] = "idle"]
  /\ loc' = [loc EXCEPT ![c] = NoLocals]
  /\ floor' = [a \in Addrs |-> IF a \in Vouched(c) THEN loc[c].ver[a] ELSE floor[a]]

LEMMA Finished ==
  ASSUME Inv, NEW c \in Clients, Finishes(c)
  PROVE  /\ Moves(c, "idle", NoLocals) /\ floor' \in VersionMaps
         /\ \A a \in Addrs : floor'[a] \in Nat /\ floor[a] <= floor'[a] /\ floor'[a] <= backend[a].ver
         /\ Shape("idle", NoLocals) /\ Allowed(NoLocals)
<1>1. Moves(c, "idle", NoLocals)
  BY DEF Finishes, Moves
<1>2. floor \in VersionMaps /\ loc[c].ver \in VersionMaps
  BY DEF Inv, TypeOK, Locals
<1>3. \A a \in Addrs : floor[a] \in 0 .. MaxVer /\ loc[c].ver[a] \in 0 .. MaxVer
  BY <1>2 DEF VersionMaps
<1>4. floor' \in VersionMaps
  BY <1>3 DEF VersionMaps, Finishes
<1>5. ASSUME NEW a \in Addrs
      PROVE  floor'[a] \in Nat /\ floor[a] <= floor'[a] /\ floor'[a] <= backend[a].ver
  <2>1. floor[a] <= backend[a].ver /\ loc[c].ver[a] <= backend[a].ver
    BY DEF Inv, VerInv
  <2>2. floor'[a] = IF a \in Vouched(c) THEN loc[c].ver[a] ELSE floor[a]
    BY DEF Finishes
  <2>3. a \in Vouched(c) => loc[c].ver[a] > floor[a]
    BY DEF Vouched
  <2> QED BY <1>3, <2>1, <2>2, <2>3, BoundsAssumption
<1>6. Shape("idle", NoLocals) /\ Allowed(NoLocals)
  BY Nothing, ElemsOf DEF Shape, Allowed, Late, Clearing, Sweeping, Dropping, Arming, WritingThrough, Reading
<1> QED BY <1>1, <1>4, <1>5, <1>6

LEMMA EndTypes ==
  ASSUME Inv, NEW c \in Clients, Finishes(c), UNCHANGED <<world, sc>>, RestOK',
         tasks' \subseteq TaskRecords, tasks' = tasks \/ "cancel" \in sc.mishaps
  PROVE  TypeOK' /\ LocalInv' /\ VerInv'
<1>1. \A e \in Clients : IF e = c THEN pc'[e] = "idle" /\ loc'[e] = NoLocals ELSE pc'[e] = pc[e] /\ loc'[e] = loc[e]
  BY DEF Inv, TypeOK, Finishes
<1>2. TypeOK'
  <2>1. pc' \in [Clients -> Labels] /\ loc' \in [Clients -> Locals]
    BY Nothing DEF Inv, TypeOK, Finishes, Labels
  <2> QED BY <2>1, Finished DEF Inv, TypeOK, RestOK
<1>3. LocalInv'
  BY <1>1, Finished DEF Inv, LocalInv, Allowed
<1>4. VerInv'
  <2>1. ASSUME NEW e \in Clients, NEW a \in Addrs
        PROVE  loc'[e].ver[a] <= backend[a].ver /\ loc'[e].start[a] <= floor'[a]
    <3>1. floor'[a] \in Nat /\ floor[a] <= floor'[a] /\ backend[a].ver \in Nat /\ floor[a] \in Nat
      BY Finished DEF Inv, TypeOK, Versions, VersionMaps
    <3>2. CASE e = c
      <4>1. loc'[e].ver[a] = 0 /\ loc'[e].start[a] = 0
        BY <1>1, <3>2, Nothing
      <4> QED BY <3>1, <4>1
    <3>3. CASE e # c
      <4>1. loc[e].ver[a] <= backend[a].ver /\ loc[e].start[a] <= floor[a]
        BY DEF Inv, VerInv
      <4>2. loc[e].start \in VersionMaps
        BY DEF Inv, TypeOK, Locals
      <4>3. loc[e].start[a] \in Nat
        BY <4>2 DEF VersionMaps
      <4> QED BY <1>1, <3>1, <3>3, <4>1, <4>3
    <3> QED BY <3>2, <3>3
  <2> QED BY <2>1, Finished DEF VerInv, world, Inv
<1> QED BY <1>2, <1>3, <1>4

(* A call is over.                                                          *)
LEMMA EndStep ==
  ASSUME Inv, NEW c \in Clients, pc[c] # "idle", Finishes(c), UNCHANGED <<world, sc>>, RestOK',
         tasks' \subseteq TaskRecords, tasks' = tasks \/ "cancel" \in sc.mishaps,
         Guarded => /\ TasksSafe
                    /\ \A b \in Addrs : \/ row'[b] = None
                                        \/ row'[b] = row[b] /\ (b \in Vouched(c) => Binds(pc[c], loc[c], b))
  PROVE  Inv'
<1>1. \A e \in Clients : IF e = c THEN pc'[e] = "idle" /\ loc'[e] = NoLocals ELSE pc'[e] = pc[e] /\ loc'[e] = loc[e]
  BY DEF Inv, TypeOK, Finishes
<1>2. TypeOK' /\ LocalInv' /\ VerInv'
  BY EndTypes
<1>3. ASSUME Guarded PROVE SafeInv'
  <2>1. ASSUME NEW b \in Addrs PROVE RowCarried(b)
    <3>1. CASE row'[b] = None BY <3>1 DEF RowCarried
    <3>2. CASE row'[b] = row[b] /\ (b \in Vouched(c) => Binds(pc[c], loc[c], b))
      <4> SUFFICES ASSUME NEW v \in Nat, AtLeast(b, v) PROVE Later(b, v)
        BY <3>2 DEF RowCarried, Carries
      <4>1. floor'[b] = IF b \in Vouched(c) THEN loc[c].ver[b] ELSE floor[b]
        BY DEF Finishes
      <4>2. v >= floor'[b]
        BY <3>2, <4>1 DEF AtLeast
      <4>3. ~Binds("idle", NoLocals, b)
        BY Nothing
      <4> QED BY <4>2, <4>3, Finished, Transfer DEF Inv
    <3> QED BY <1>3, <3>1, <3>2
  <2>2. RowInv' /\ PubInv' /\ TaskInv' /\ NonceInv'
    <3>1. Remembers(NoLocals)
      BY Nothing DEF Remembers
    <3>2. "idle" \notin Publishing
      BY DEF Publishing, WritingThrough
    <3> QED BY <1>2, <1>3, <2>1, <3>1, <3>2, Finished, SafeStep DEF Inv
  <2>3. KeptInv'
    <3> SUFFICES ASSUME NEW e \in Clients, pc'[e] \in {"arm_read", "arm_clear", "inner", "restore"}, Named(loc'[e].kept) # 0
                 PROVE  FALSE
      BY DEF KeptInv
    <3>1. e # c /\ pc[e] \in {"arm_read", "arm_clear", "inner", "restore"} /\ Named(loc[e].kept) # 0
      BY <1>1
    <3>2. Shape(pc[e], loc[e]) /\ loc[e].kept # None
      BY <3>1, Names DEF Inv, LocalInv
    <3>3. loc[e].op = "continue"
      BY <3>2 DEF Shape
    <3> QED BY <1>3, <3>1, <3>3, Lone DEF Inv
  <2>4. FreshInv'
    BY <1>1, <1>3 DEF FreshInv, Inv, SafeInv, Addr
  <2> QED BY <2>2, <2>3, <2>4 DEF SafeInv
<1> QED BY <1>2, <1>3 DEF Inv
-----------------------------------------------------------------------------
(* The frame of a step.                                                     *)

MiscOK ==
  /\ content \in [Addrs -> SUBSET (0 .. MaxVer)]
  /\ gens \in [Hosts -> [Addrs -> [refs : Nat, gen : Nat]]]
  /\ ops \in 0 .. sc.max_ops /\ mishaps \in 0 .. sc.max_mishaps

LEMMA Here ==
  ASSUME Inv, NEW c \in Clients, pc[c] # "idle"
  PROVE  /\ loc[c] \in Locals /\ Shape(pc[c], loc[c]) /\ Allowed(loc[c]) /\ c \in sc.clients
         /\ loc[c].addrs \in Seq(Addrs) /\ loc[c].addrs # <<>> /\ Addr(c) = loc[c].addrs[1]
         /\ Addr(c) \in Addrs /\ Addr(c) \in Elems(loc[c].addrs)
         /\ loc[c].todo \in Seq(Addrs) /\ loc[c].guards \in Seq(Addrs)
         /\ row[Addr(c)] \in Rows \cup {None} /\ row[Addr(c)] \in KnownRows
         /\ {loc[c].snap, loc[c].seen, loc[c].kept} \subseteq KnownRows
         /\ Host[c] \in Hosts
<1>1. loc[c] \in Locals /\ Shape(pc[c], loc[c]) /\ Allowed(loc[c]) /\ c \in sc.clients
  BY DEF Inv, TypeOK, LocalInv
<1>2. loc[c].addrs \in Seq(Addrs) /\ loc[c].addrs # <<>> /\ loc[c].todo \in Seq(Addrs) /\ loc[c].guards \in Seq(Addrs)
  BY <1>1 DEF Locals, Shape
<1>3. Addr(c) = loc[c].addrs[1] /\ Addr(c) \in Addrs /\ Addr(c) \in Elems(loc[c].addrs)
  BY <1>2, ElemsOf DEF Addr
<1>4. row[Addr(c)] \in Rows \cup {None} /\ row[Addr(c)] \in KnownRows
  BY <1>3 DEF Inv, TypeOK, KnownRows
<1>5. {loc[c].snap, loc[c].seen, loc[c].kept} \subseteq KnownRows
  BY DEF KnownRows
<1> QED BY <1>1, <1>2, <1>3, <1>4, <1>5, ShapeAssumption

LEMMA GensOK ==
  ASSUME TypeOK, NEW h \in Hosts
  PROVE  /\ gens' = gens => gens' \in [Hosts -> [Addrs -> [refs : Nat, gen : Nat]]]
         /\ \A A : Bump(h, A) => gens' \in [Hosts -> [Addrs -> [refs : Nat, gen : Nat]]]
         /\ \A a \in Addrs : Register(h, a) \/ Deregister(h, a) =>
              gens' \in [Hosts -> [Addrs -> [refs : Nat, gen : Nat]]]
<1> DEFINE G == [refs : Nat, gen : Nat]
<1>1. gens \in [Hosts -> [Addrs -> G]]
  BY DEF TypeOK
<1>2. \A x \in G : [x EXCEPT !.gen = @ + 1] \in G /\ [x EXCEPT !.refs = @ + 1] \in G
  OBVIOUS
<1>3. \A x \in G : x.refs > 1 => [x EXCEPT !.refs = @ - 1] \in G
  OBVIOUS
<1>4. [refs |-> 0, gen |-> 0] \in G
  OBVIOUS
<1>5. \A x \in G : x.refs \in Nat
  OBVIOUS
<1> HIDE DEF G
<1>6. ASSUME NEW A, Bump(h, A) PROVE gens' \in [Hosts -> [Addrs -> G]]
  <2> DEFINE f == [a \in Addrs |-> IF a \in A /\ gens[h][a].refs > 0 THEN [gens[h][a] EXCEPT !.gen = @ + 1]
                                                                   ELSE gens[h][a]]
  <2>1. f \in [Addrs -> G]
    BY <1>1, <1>2
  <2>2. gens' = [gens EXCEPT ![h] = f]
    BY <1>6 DEF Bump
  <2> HIDE DEF f
  <2> QED BY <1>1, <2>1, <2>2
<1>7. ASSUME NEW a \in Addrs, Register(h, a) PROVE gens' \in [Hosts -> [Addrs -> G]]
  <2>1. [gens[h][a] EXCEPT !.refs = @ + 1] \in G
    BY <1>1, <1>2
  <2> DEFINE x == [gens[h][a] EXCEPT !.refs = @ + 1]
  <2>2. gens' = [gens EXCEPT ![h] = [gens[h] EXCEPT ![a] = x]]
    BY <1>7 DEF Register
  <2> HIDE DEF x
  <2> QED BY <1>1, <2>1, <2>2 DEF x
<1>8. ASSUME NEW a \in Addrs, Deregister(h, a) PROVE gens' \in [Hosts -> [Addrs -> G]]
  <2> DEFINE x == IF gens[h][a].refs <= 1 THEN [refs |-> 0, gen |-> 0] ELSE [gens[h][a] EXCEPT !.refs = @ - 1]
  <2>1. x \in G
    BY <1>1, <1>3, <1>4, <1>5
  <2>2. gens' = [gens EXCEPT ![h] = [gens[h] EXCEPT ![a] = x]]
    BY <1>8 DEF Deregister
  <2> HIDE DEF x
  <2> QED BY <1>1, <2>1, <2>2
<1> QED BY <1>1, <1>6, <1>7, <1>8 DEF G

(* A step that leaves the rows, the backend and the tasks alone.            *)
Calm(c, label, l) ==
  \/ l.ver = NoVersions
  \/ /\ l.ver = loc[c].ver /\ loc[c].lost \subseteq l.lost
     /\ \A b \in Owed(pc[c], loc[c]) : b \notin Owed(label, l) \cup l.lost => row[b] = None

LEMMA WorldKept ==
  ASSUME Inv, NEW c \in Clients, NEW l, l.ver = loc[c].ver \/ l.ver = NoVersions, l.start = loc[c].start, UNCHANGED world
  PROVE  WorldSafe(l)
<1>1. backend' = backend /\ events' = events
  BY DEF world
<1>2. ASSUME NEW a \in Addrs
      PROVE  backend[a].ver <= backend'[a].ver /\ l.ver[a] <= backend'[a].ver /\ l.start[a] <= floor[a]
  <2>1. loc[c].ver[a] <= backend[a].ver /\ loc[c].start[a] <= floor[a]
    BY DEF Inv, VerInv
  <2>2. backend[a].ver \in Nat
    BY DEF Inv, TypeOK, Versions
  <2>3. NoVersions[a] = 0
    BY Nothing
  <2> QED BY <1>1, <2>1, <2>2, <2>3
<1> QED BY <1>1, <1>2 DEF WorldSafe, Inv, VerInv

TasksOK ==
  /\ tasks' \subseteq TaskRecords /\ (tasks' = tasks \/ "cancel" \in sc.mishaps)
  /\ Guarded => TasksSafe

LEMMA TasksKept ==
  ASSUME Inv, UNCHANGED tasks
  PROVE  TasksOK
  BY DEF Inv, TypeOK, TasksOK, TasksSafe

LEMMA Quiet ==
  ASSUME Inv, NEW c \in Clients, pc[c] # "idle", NEW label \in Labels, NEW l \in Locals, Moves(c, label, l),
         Shape(label, l), label # "idle", l.op = loc[c].op,
         UNCHANGED <<floor, world, row, sc>>, TasksOK, MiscOK',
         l.ver = loc[c].ver \/ l.ver = NoVersions, l.start = loc[c].start,
         Guarded => Calm(c, label, l), {l.snap, l.seen, l.kept} \subseteq KnownRows \cup {None},
         Guarded => Pledged(label, l) /\ Keeps(label, l) /\ Answers(label, l)
  PROVE  Inv'
<1>1. Allowed(l) /\ c \in sc.clients
  BY Here DEF Allowed
<1>2. RestOK'
  BY DEF Inv, TypeOK, RestOK, MiscOK, world
<1>3. WorldSafe(l)
  BY WorldKept
<1>4. tasks' \subseteq TaskRecords /\ (tasks' = tasks \/ "cancel" \in sc.mishaps) /\ (Guarded => TasksSafe)
  BY DEF TasksOK
<1>5. Guarded => RowsSafe(c, label, l)
  <2> SUFFICES ASSUME Calm(c, label, l), NEW b \in Addrs, row[b] # None PROVE Stays(c, label, l, b)
    BY DEF RowsSafe, Goes
  <2>1. CASE l.ver = NoVersions
    <3>1. ~Binds(label, l, b)
      BY <2>1, Nothing
    <3> QED BY <3>1 DEF Stays
  <2>2. CASE /\ l.ver = loc[c].ver /\ loc[c].lost \subseteq l.lost
             /\ \A d \in Owed(pc[c], loc[c]) : d \notin Owed(label, l) \cup l.lost => row[d] = None
    BY <2>2 DEF Stays, Binds
  <2> QED BY <2>1, <2>2 DEF Calm
<1>6. Remembers(l)
  BY DEF Remembers
<1> QED BY <1>1, <1>2, <1>3, <1>4, <1>5, <1>6, ClientStep

(* A step that writes one row.                                              *)
Settles(c, label, l, a) ==
  \/ l.ver = NoVersions
  \/ /\ l.ver = loc[c].ver /\ loc[c].lost \subseteq l.lost \cup {a}
     /\ Owed(pc[c], loc[c]) \subseteq Owed(label, l) \cup l.lost \cup {a}

LEMMA Writes ==
  ASSUME Inv, NEW c \in Clients, pc[c] # "idle", NEW label \in Labels, NEW l \in Locals, Moves(c, label, l),
         Shape(label, l), label # "idle", l.op = loc[c].op,
         NEW a \in Addrs, NEW r \in Rows \cup {None}, r = None \/ Fresh(r), SetRow(a, r),
         UNCHANGED <<floor, world, tasks, sc>>, MiscOK',
         l.ver = loc[c].ver \/ l.ver = NoVersions, l.start = loc[c].start,
         Guarded => Settles(c, label, l, a), {l.snap, l.seen, l.kept} \subseteq KnownRows \cup {None, r},
         Guarded => /\ Pledged(label, l) /\ Keeps(label, l) /\ Answers(label, l)
                    /\ Named(r) # 0 => AtLeast(a, Named(r)) /\ Named(r) >= l.ver[a]
  PROVE  Inv'
<1>1. Allowed(l) /\ c \in sc.clients
  BY Here DEF Allowed
<1>2. row' = [row EXCEPT ![a] = r] /\ row' \in [Addrs -> Rows \cup {None}] /\ row'[a] = r
      /\ \A b \in Addrs : b # a => row'[b] = row[b]
  BY DEF Inv, TypeOK, SetRow
<1>3. RestOK'
  BY <1>2 DEF Inv, TypeOK, RestOK, MiscOK, world
<1>4. WorldSafe(l)
  BY WorldKept
<1>5. tasks' \subseteq TaskRecords /\ tasks' = tasks /\ TasksSafe
  BY DEF Inv, TypeOK, TasksSafe
<1>6. ASSUME Guarded, NEW b \in Addrs PROVE Stays(c, label, l, b) \/ Goes(label, l, b)
  <2>1. CASE b = a
    BY <1>2, <1>6, <2>1 DEF Goes
  <2>2. CASE b # a
    <3>1. CASE l.ver = NoVersions
      <4>1. ~Binds(label, l, b)
        BY <3>1, Nothing
      <4> QED BY <1>2, <2>2, <4>1 DEF Stays
    <3>2. CASE /\ l.ver = loc[c].ver /\ loc[c].lost \subseteq l.lost \cup {a}
               /\ Owed(pc[c], loc[c]) \subseteq Owed(label, l) \cup l.lost \cup {a}
      BY <1>2, <2>2, <3>2 DEF Stays, Binds
    <3> QED BY <1>6, <3>1, <3>2 DEF Settles
  <2> QED BY <2>1, <2>2
<1>7. Guarded => RowsSafe(c, label, l)
  BY <1>6 DEF RowsSafe
<1>8. Remembers(l)
  BY <1>2 DEF Remembers
<1> QED BY <1>1, <1>3, <1>4, <1>5, <1>7, <1>8, ClientStep
-----------------------------------------------------------------------------
(* The ends of a call.                                                      *)

(* Everything but the generations, which a return may give back.            *)
BodyOK ==
  /\ content \in [Addrs -> SUBSET (0 .. MaxVer)]
  /\ ops \in 0 .. sc.max_ops /\ mishaps \in 0 .. sc.max_mishaps

LEMMA BodyKept ==
  ASSUME Inv, UNCHANGED <<content, bounds>>
  PROVE  BodyOK'
  BY DEF Inv, TypeOK, BodyOK, bounds

LEMMA Returns ==
  ASSUME Inv, NEW c \in Clients, pc[c] # "idle", Return(c), UNCHANGED <<world, sc>>, TasksOK, BodyOK',
         \/ row' = row /\ (Guarded => loc[c].ver = NoVersions \/ Owed(pc[c], loc[c]) = {})
         \/ loc[c].ver = NoVersions /\ \E a \in Addrs : SetRow(a, None)
  PROVE  Inv'
<1>1. Finishes(c)
  BY DEF Return, Finishes
<1>2. gens' \in [Hosts -> [Addrs -> [refs : Nat, gen : Nat]]]
  BY Here, GensOK DEF Return, Inv
<1>3. row' \in [Addrs -> Rows \cup {None}] /\ \A b \in Addrs : row'[b] = None \/ row'[b] = row[b]
  BY DEF Inv, TypeOK, SetRow
<1>4. RestOK'
  BY <1>2, <1>3 DEF Inv, TypeOK, RestOK, BodyOK, world
<1>5. ASSUME Guarded, NEW b \in Addrs, row'[b] = row[b] PROVE b \in Vouched(c) => Binds(pc[c], loc[c], b)
  <2>1. floor[b] \in Nat
    BY DEF Inv, TypeOK, VersionMaps
  <2>2. loc[c].ver[b] \in Nat
    <3>1. loc[c].ver \in VersionMaps
      BY Here DEF Locals
    <3> QED BY <3>1 DEF VersionMaps
  <2>3. CASE loc[c].ver = NoVersions
    <3>1. loc[c].ver[b] = 0
      BY <2>3, Nothing
    <3> QED BY <2>1, <3>1 DEF Vouched
  <2>4. CASE Owed(pc[c], loc[c]) = {}
    BY <2>1, <2>2, <2>4 DEF Vouched, Binds
  <2> QED BY <1>5, <2>3, <2>4
<1> QED BY <1>1, <1>3, <1>4, <1>5, EndStep DEF TasksOK

(* Unwinding drops what is armed, or returns.                               *)
LEMMA Unwinds ==
  ASSUME Inv, NEW c \in Clients, pc[c] # "idle", NEW l \in Locals, Unwind(c, l),
         UNCHANGED <<world, row, sc>>, TasksOK, BodyOK',
         l.op = loc[c].op, l.op \in Mutations \cup {"read"}, l.addrs = loc[c].addrs, l.guards = loc[c].guards,
         l.ver = loc[c].ver, l.start = loc[c].start, l.lost = loc[c].lost, l.kept = loc[c].kept,
         {l.snap, l.seen} \subseteq KnownRows \cup {None},
         Guarded => loc[c].ver = NoVersions \/ Owed(pc[c], loc[c]) \subseteq Elems(l.guards)
  PROVE  Inv'
<1>1. CASE l.guards = <<>>
  <2>1. Return(c) /\ Elems(l.guards) = {}
    BY <1>1, ElemsOf DEF Unwind
  <2> QED BY <2>1, Returns
<1>2. CASE l.guards # <<>>
  <2> DEFINE m == [l EXCEPT !.todo = l.guards]
  <2>1. Goto(c, "drop_row", m) /\ UNCHANGED gens
    BY <1>2 DEF Unwind, Continue
  <2>2. /\ m \in Locals /\ m.todo = l.guards /\ m.guards = l.guards /\ m.addrs = l.addrs /\ m.op = l.op /\ m.ver = l.ver
        /\ m.start = l.start /\ m.lost = l.lost /\ m.snap = l.snap /\ m.seen = l.seen /\ m.kept = l.kept
    BY DEF Locals
  <2> HIDE DEF m
  <2>3. Shape(pc[c], loc[c]) /\ loc[c].addrs # <<>> /\ l.guards \in Seq(Addrs)
    BY Here
  <2>4. Shape("drop_row", m)
    BY <1>2, <2>2, <2>3 DEF Shape, Late, Clearing, Sweeping, Dropping, Arming, WritingThrough, Reading
  <2>5. Guarded => Calm(c, "drop_row", m)
    <3>1. Owed("drop_row", m) = Elems(l.guards)
      BY <2>2 DEF Owed
    <3> QED BY <2>2, <3>1 DEF Calm
  <2>6. Pledged("drop_row", m) /\ Keeps("drop_row", m) /\ Answers("drop_row", m)
    BY DEF Pledged, Keeps, Answers, Publishing, WritingThrough
  <2>7. MiscOK'
    BY <2>1 DEF Inv, TypeOK, BodyOK, MiscOK
  <2>8. Moves(c, "drop_row", m) /\ UNCHANGED floor /\ "drop_row" \in Labels
    BY <2>1 DEF Goto, Moves, Labels
  <2>9. {m.snap, m.seen, m.kept} \subseteq KnownRows \cup {None}
    BY <2>2, Here
  <2> QED BY <2>2, <2>4, <2>5, <2>6, <2>7, <2>8, <2>9, Quiet
<1> QED BY <1>1, <1>2
-----------------------------------------------------------------------------
(* Reads.                                                                   *)

(* Whatever binds an address, the backend is at least as new.               *)
LEMMA Current ==
  ASSUME Inv, NEW a \in Addrs
  PROVE  AtLeast(a, backend[a].ver) /\ backend[a].ver \in Versions /\ backend[a].ver \in 0 .. MaxVer
         /\ backend[a].ver \in Nat \ {0}
<1>1. backend[a].ver \in Versions
  BY DEF Inv, TypeOK
<1>2. floor[a] <= backend[a].ver /\ \A c \in Clients : loc[c].ver[a] <= backend[a].ver
  BY DEF Inv, VerInv
<1>3. floor[a] \in Nat /\ backend[a].ver \in Nat
  BY <1>1 DEF Inv, TypeOK, VersionMaps, Versions
<1>4. ASSUME NEW c \in Clients PROVE loc[c].ver[a] \in Nat
  <2>1. loc[c].ver \in VersionMaps
    BY DEF Inv, TypeOK, Locals
  <2> QED BY <2>1 DEF VersionMaps
<1>5. AtLeast(a, backend[a].ver)
  BY <1>2, <1>3, <1>4 DEF AtLeast
<1> QED BY <1>1, <1>3, <1>5, BoundsAssumption DEF Versions

(* The locals of a read.                                                    *)
Same(c, l) ==
  /\ l.op = loc[c].op /\ l.addrs = loc[c].addrs /\ l.ver = loc[c].ver /\ l.start = loc[c].start
  /\ l.lost = loc[c].lost /\ l.kept = loc[c].kept

LEMMA ReadShape ==
  ASSUME Inv, NEW c \in Clients, pc[c] # "idle", loc[c].op = "read", NEW l, Same(c, l),
         NEW label \in Reading \cup {"snap", "seed"},
         label = "rl_swap" => l.snap # None,
         l.todo = loc[c].todo, Elems(l.guards) \subseteq Elems(l.addrs)
  PROVE  Shape(label, l) /\ l.ver = NoVersions /\ loc[c].ver = NoVersions
<1>1. Shape(pc[c], loc[c]) /\ loc[c].addrs # <<>>
  BY Here
<1>2. /\ loc[c].ver = NoVersions /\ loc[c].kept = None /\ l.todo # <<>>
      /\ Elems(loc[c].todo) \subseteq Elems(loc[c].addrs) /\ Elems(loc[c].addrs) \subseteq {loc[c].addrs[1]}
  BY <1>1 DEF Shape
<1>3. /\ l.op = "read" /\ l.ver = NoVersions /\ l.kept = None /\ l.addrs # <<>>
      /\ Elems(l.todo) \subseteq Elems(l.addrs) /\ Elems(l.addrs) \subseteq {l.addrs[1]}
  BY <1>1, <1>2 DEF Same
<1>4. label \notin Late /\ label \notin Arming /\ label \notin {"inner", "restore", "pub_swap"}
  BY DEF Reading, Late, Clearing, Sweeping, Dropping, Arming, WritingThrough
<1> QED BY <1>2, <1>3, <1>4 DEF Shape, Late, Mutations

LEMMA Reads ==
  ASSUME Inv, NEW c \in Clients, pc[c] # "idle", loc[c].op = "read", NEW l \in Locals, Same(c, l),
         NEW label \in Reading \cup {"snap", "seed"}, Goto(c, label, l),
         label = "rl_swap" => l.snap # None,
         l.todo = loc[c].todo, Elems(l.guards) \subseteq Elems(l.addrs),
         {l.snap, l.seen} \subseteq KnownRows \cup {None},
         UNCHANGED <<world, row, tasks, sc>>, MiscOK',
         Guarded => Pledged(label, l) /\ Answers(label, l)
  PROVE  Inv'
<1>1. Shape(label, l) /\ l.ver = NoVersions
  BY ReadShape
<1>2. label \in Labels /\ label # "idle" /\ Keeps(label, l)
  BY DEF Reading, Labels, Awaits, Keeps
<1>3. {l.snap, l.seen, l.kept} \subseteq KnownRows \cup {None}
  BY Here DEF Same
<1>4. Moves(c, label, l) /\ UNCHANGED floor
  BY DEF Goto, Moves
<1> QED BY <1>1, <1>2, <1>3, <1>4, TasksKept, Quiet DEF Calm, Same

LEMMA MiscKept ==
  ASSUME Inv, UNCHANGED <<content, gens, bounds>>
  PROVE  MiscOK'
  BY DEF Inv, TypeOK, MiscOK, bounds

(* A read that edits none of what Same names.                               *)
LEMMA ReadEdits ==
  ASSUME Inv, NEW c \in Clients, pc[c] # "idle", loc[c].op = "read"
  PROVE  /\ loc[c] \in Locals /\ Same(c, loc[c])
         /\ Elems(loc[c].todo) \subseteq Elems(loc[c].addrs) /\ Elems(loc[c].guards) \subseteq Elems(loc[c].addrs)
         /\ {loc[c].snap, loc[c].seen} \subseteq KnownRows \cup {None}
  BY Here DEF Same, Shape

LEMMA StatStep ==
  ASSUME Inv, NEW c \in Clients, Stat(c), UNCHANGED <<world, tasks, bounds>>
  PROVE  Inv'
<1> DEFINE obj == backend[Addr(c)]
<1>1. pc[c] # "idle" /\ loc[c].op = "read" /\ UNCHANGED <<row, content, sc>>
  <2>1. pc[c] = "stat" /\ UNCHANGED <<row, content, sc>>
    BY DEF Stat, At, bounds
  <2> QED BY <2>1, Here DEF Shape, Reading
<1>2. BodyOK' /\ TasksOK
  BY <1>1, BodyKept, TasksKept
<1>3. Addr(c) \in Addrs /\ Addr(c) = loc[c].addrs[1]
  BY <1>1, Here
<1>4. obj.ver \in 0 .. MaxVer
  BY <1>3, Current
<1>5. \/ Continue(c, "lookup", [loc[c] EXCEPT !.etag = obj.ver])
      \/ Continue(c, "live", [loc[c] EXCEPT !.probe = "settled"])
      \/ Continue(c, "snap", loc[c])
      \/ Continue(c, "known", loc[c])
      \/ Continue(c, "fetch", [loc[c] EXCEPT !.probe = "refused"])
      \/ Return(c)
  BY Zenon DEF Stat
<1>6. CASE Return(c)
  <2>1. loc[c].ver = NoVersions
    BY <1>1, ReadShape, ReadEdits DEF Reading
  <2> QED BY <1>1, <1>2, <1>6, <2>1, Returns
<1>7. CASE Continue(c, "lookup", [loc[c] EXCEPT !.etag = obj.ver])
  <2> DEFINE m == [loc[c] EXCEPT !.etag = obj.ver]
  <2>1. /\ m \in Locals /\ m.etag = obj.ver /\ Same(c, m) /\ m.todo = loc[c].todo /\ m.guards = loc[c].guards
        /\ m.snap = loc[c].snap /\ m.seen = loc[c].seen
    <3>1. loc[c] \in Locals
      BY <1>1, ReadEdits
    <3> QED BY <1>4, <3>1, ZenonT(60) DEF Locals, Same
  <2>2. Goto(c, "lookup", m) /\ MiscOK'
    BY <1>1, <1>7, MiscKept DEF Continue
  <2> HIDE DEF m
  <2>3. Answers("lookup", m)
    <3>1. m.start[Addr(c)] <= floor[Addr(c)] /\ floor[Addr(c)] <= obj.ver
      BY <1>3, <2>1 DEF Inv, VerInv, Same
    <3>2. m.start \in VersionMaps /\ floor \in VersionMaps
      BY <2>1 DEF Locals, Inv, TypeOK
    <3>3. m.start[Addr(c)] \in Nat /\ floor[Addr(c)] \in Nat
      BY <1>3, <3>2 DEF VersionMaps
    <3> QED BY <1>3, <1>4, <2>1, <3>1, <3>3, BoundsAssumption DEF Answers, Same
  <2>4. Pledged("lookup", m)
    BY DEF Pledged, Publishing, WritingThrough
  <2>5. Elems(m.todo) \subseteq Elems(m.addrs) /\ Elems(m.guards) \subseteq Elems(m.addrs)
        /\ {m.snap, m.seen} \subseteq KnownRows \cup {None}
    BY <1>1, <2>1, ReadEdits DEF Same
  <2> QED BY <1>1, <2>1, <2>2, <2>3, <2>4, <2>5, Reads DEF Reading
<1>8. ASSUME NEW label \in {"live", "snap", "known", "fetch"}, NEW p \in {"fence", "settled", "refused"}, NEW m,
             m = [loc[c] EXCEPT !.probe = p], Continue(c, label, m)
      PROVE  Inv'
  <2>1. /\ m \in Locals /\ Same(c, m) /\ m.todo = loc[c].todo /\ m.guards = loc[c].guards
        /\ m.snap = loc[c].snap /\ m.seen = loc[c].seen
    <3>1. loc[c] \in Locals
      BY <1>1, ReadEdits
    <3> QED BY <1>8, <3>1 DEF Locals, Same
  <2>2. Goto(c, label, m) /\ MiscOK'
    BY <1>1, <1>8, MiscKept DEF Continue
  <2>3. Pledged(label, m) /\ Answers(label, m) /\ label \in Reading \cup {"snap", "seed"}
    BY DEF Pledged, Publishing, WritingThrough, Answers, Reading
  <2>5. Elems(m.todo) \subseteq Elems(m.addrs) /\ Elems(m.guards) \subseteq Elems(m.addrs)
        /\ {m.snap, m.seen} \subseteq KnownRows \cup {None}
    BY <1>1, <2>1, ReadEdits DEF Same
  <2> QED BY <1>1, <2>1, <2>2, <2>3, <2>5, Reads
<1>9. loc[c] = [loc[c] EXCEPT !.probe = loc[c].probe] /\ loc[c].probe \in {"fence", "settled", "refused"}
  BY <1>1, ReadEdits DEF Locals
<1> HIDE DEF obj
<1> QED BY <1>5, <1>6, <1>7, <1>8, <1>9

(* A read that goes on, with nothing to publish or to answer yet.           *)
LEMMA ReadsOn ==
  ASSUME Inv, NEW c \in Clients, pc[c] # "idle", loc[c].op = "read", NEW m \in Locals, Same(c, m),
         m.todo = loc[c].todo, m.guards = loc[c].guards, {m.snap, m.seen} \subseteq KnownRows \cup {None},
         NEW label \in (Reading \cup {"snap", "seed"}) \ (Publishing \cup {"lookup", "hit"}), Goto(c, label, m),
         UNCHANGED <<world, row, tasks, sc>>, BodyOK',
         UNCHANGED gens \/ \E A : Bump(Host[c], A)
  PROVE  Inv'
<1>1. MiscOK'
  BY Here, GensOK DEF BodyOK, MiscOK, Inv
<1>2. Pledged(label, m) /\ Answers(label, m) /\ label # "rl_swap"
  BY DEF Pledged, Answers, Publishing
<1>3. Elems(m.todo) \subseteq Elems(m.addrs) /\ Elems(m.guards) \subseteq Elems(m.addrs)
  BY ReadEdits DEF Same
<1> QED BY <1>1, <1>2, <1>3, Reads

LEMMA AtRead ==
  ASSUME Inv, NEW c \in Clients, pc[c] \in Reading
  PROVE  /\ pc[c] # "idle" /\ loc[c].op = "read" /\ loc[c].ver = NoVersions /\ loc[c] \in Locals /\ Same(c, loc[c])
         /\ Addr(c) \in Addrs /\ Addr(c) = loc[c].addrs[1]
         /\ {loc[c].snap, loc[c].seen} \subseteq KnownRows \cup {None}
<1>1. pc[c] # "idle"
  BY DEF Reading
<1>2. loc[c].op = "read"
  BY <1>1, Here DEF Shape
<1> QED BY <1>1, <1>2, Here, ReadEdits DEF Shape

LEMMA KnownStep ==
  ASSUME Inv, NEW c \in Clients, Known(c), UNCHANGED <<world, tasks, bounds>>
  PROVE  Inv'
<1> DEFINE e == Named(row[Addr(c)])
           m == [loc[c] EXCEPT !.etag = e]
<1>1. /\ pc[c] \in Reading /\ UNCHANGED <<row, content, sc>>
      /\ Continue(c, IF e = 0 THEN "snap" ELSE "lookup", m)
  BY DEF Known, At, bounds, Reading
<1>2. e \in 0 .. MaxVer
  BY <1>1, AtRead, Here, Names
<1>3. /\ m \in Locals /\ m.etag = e /\ Same(c, m) /\ m.todo = loc[c].todo /\ m.guards = loc[c].guards
      /\ m.snap = loc[c].snap /\ m.seen = loc[c].seen
  <2>1. loc[c] \in Locals
    BY <1>1, AtRead
  <2> HIDE DEF e
  <2> QED BY <1>2, <2>1 DEF Locals, Same
<1>4. BodyOK' /\ MiscOK' /\ UNCHANGED gens
  BY <1>1, BodyKept, MiscKept DEF Continue
<1>5. CASE e = 0
  <2>1. Goto(c, "snap", m)
    BY <1>1, <1>5 DEF Continue
  <2>2. "snap" \in (Reading \cup {"snap", "seed"}) \ (Publishing \cup {"lookup", "hit"})
    BY DEF Publishing, WritingThrough
  <2> HIDE DEF m
  <2> QED BY <1>1, <1>3, <1>4, <2>1, <2>2, AtRead, ReadsOn
<1>6. CASE e # 0
  <2>1. Goto(c, "lookup", m) /\ "lookup" \in Reading /\ Pledged("lookup", m)
    BY <1>1, <1>6 DEF Continue, Reading, Pledged, Publishing, WritingThrough
  <2>2. ASSUME Guarded PROVE Answers("lookup", m)
    <3>1. AtLeast(Addr(c), e)
      BY <1>1, <1>6, <2>2, AtRead DEF Inv, SafeInv, RowInv
    <3>2. e >= floor[Addr(c)]
      BY <3>1 DEF AtLeast
    <3>3. loc[c].start[Addr(c)] <= floor[Addr(c)]
      BY <1>1, AtRead DEF Inv, VerInv
    <3>4. loc[c].start \in VersionMaps /\ floor \in VersionMaps
      BY <1>1, AtRead DEF Locals, Inv, TypeOK
    <3>5. loc[c].start[Addr(c)] \in Nat /\ floor[Addr(c)] \in Nat
      BY <1>1, <3>4, AtRead DEF VersionMaps
    <3>6. e >= loc[c].start[Addr(c)]
      BY <1>2, <3>2, <3>3, <3>5, BoundsAssumption
    <3> HIDE DEF m, e
    <3> QED BY <1>1, <1>3, <3>6, AtRead DEF Answers, Same
  <2> HIDE DEF m
  <2>3. Elems(m.todo) \subseteq Elems(m.addrs) /\ Elems(m.guards) \subseteq Elems(m.addrs)
    BY <1>1, <1>3, AtRead, ReadEdits DEF Same
  <2> QED BY <1>1, <1>3, <1>4, <2>1, <2>2, <2>3, AtRead, Reads
<1> QED BY <1>5, <1>6

LEMMA LookupStep ==
  ASSUME Inv, NEW c \in Clients, Lookup(c), UNCHANGED <<world, tasks, bounds>>
  PROVE  Inv'
<1> DEFINE m == [loc[c] EXCEPT !.etag = 0]
<1>1. /\ pc[c] = "lookup" /\ pc[c] \in Reading /\ UNCHANGED <<row, content, sc>>
      /\ Continue(c, "hit", loc[c]) \/ Continue(c, "snap", m)
  BY DEF Lookup, At, bounds, Reading
<1>2. /\ m \in Locals /\ Same(c, m) /\ m.todo = loc[c].todo /\ m.guards = loc[c].guards
      /\ m.snap = loc[c].snap /\ m.seen = loc[c].seen
  <2>1. loc[c] \in Locals /\ 0 \in 0 .. MaxVer
    BY <1>1, AtRead, BoundsAssumption
  <2> QED BY <2>1 DEF Locals, Same
<1> HIDE DEF m
<1>3. BodyOK' /\ MiscOK' /\ UNCHANGED gens
  BY <1>1, BodyKept, MiscKept DEF Continue
<1>4. CASE Continue(c, "snap", m)
  <2>1. Goto(c, "snap", m) /\ "snap" \in (Reading \cup {"snap", "seed"}) \ (Publishing \cup {"lookup", "hit"})
    BY <1>4 DEF Continue, Publishing, WritingThrough
  <2> QED BY <1>1, <1>2, <1>3, <2>1, AtRead, ReadsOn
<1>5. CASE Continue(c, "hit", loc[c])
  <2>1. Goto(c, "hit", loc[c]) /\ "hit" \in Reading /\ Pledged("hit", loc[c])
    BY <1>5 DEF Continue, Reading, Pledged, Publishing, WritingThrough
  <2>2. Guarded => Answers("hit", loc[c])
    BY <1>1, AtRead DEF Answers, Inv, SafeInv, FreshInv
  <2> QED BY <1>1, <1>3, <2>1, <2>2, AtRead, ReadEdits, Reads
<1> QED BY <1>1, <1>4, <1>5

LEMMA HitStep ==
  ASSUME Inv, NEW c \in Clients, Hit(c), UNCHANGED <<world, tasks, bounds>>
  PROVE  Inv'
<1>1. pc[c] \in Reading /\ Return(c) /\ UNCHANGED <<row, content, sc>>
  BY DEF Hit, At, bounds, Reading
<1> QED BY <1>1, AtRead, BodyKept, TasksKept, Returns

LEMMA GenerationNat ==
  ASSUME Inv, NEW c \in Clients, pc[c] # "idle"
  PROVE  Generation(c) \in Nat
<1>1. Host[c] \in Hosts /\ Addr(c) \in Addrs
  BY Here
<1>2. gens[Host[c]][Addr(c)] \in [refs : Nat, gen : Nat]
  BY <1>1 DEF Inv, TypeOK
<1> QED BY <1>2 DEF Generation

LEMMA SnapShape ==
  ASSUME Inv, NEW c \in Clients, pc[c] \in {"snap", "seed"}, NEW l \in Locals, Same(c, l),
         l.todo = loc[c].todo, l.guards = loc[c].guards, Snapped(c, l)
  PROVE  \E label \in {"fetch", "inner"}, m \in Locals :
           /\ Moves(c, label, m) /\ UNCHANGED floor /\ Shape(label, m) /\ m.ver = NoVersions
           /\ m.op = loc[c].op /\ m.start = loc[c].start
           /\ m.snap = l.snap /\ m.seen = l.seen /\ m.kept = None
           /\ gens' \in [Hosts -> [Addrs -> [refs : Nat, gen : Nat]]]
<1>1. /\ pc[c] # "idle" /\ loc[c] \in Locals /\ Shape(pc[c], loc[c]) /\ loc[c].addrs # <<>>
      /\ Host[c] \in Hosts /\ Addr(c) \in Addrs
  BY Here
<1>2. loc[c].op \in {"read", "write"} /\ loc[c].ver = NoVersions /\ loc[c].kept = None
  BY <1>1 DEF Shape, Late, Clearing, Sweeping, Dropping, WritingThrough
<1>3. ASSUME NEW label \in {"fetch", "inner"}, label = "fetch" <=> loc[c].op = "read", NEW m, Same(c, m),
             m.todo = l.todo, m.guards = l.guards
      PROVE  Shape(label, m)
  <2>1. m.op = loc[c].op /\ m.addrs = loc[c].addrs /\ m.ver = NoVersions /\ m.kept = None
    BY <1>2, <1>3 DEF Same
  <2>2. label \notin Late /\ label \notin Arming \cup WritingThrough \cup Clearing \cup Sweeping \cup Dropping
    BY DEF Late, Clearing, Sweeping, Dropping, Arming, WritingThrough
  <2>3. label \in Reading <=> label = "fetch"
    BY DEF Reading
  <2>4. loc[c].op \in Mutations => Elems(loc[c].addrs) \subseteq Elems(loc[c].guards)
    BY <1>1 DEF Shape
  <2>5. /\ loc[c].op = "read" => loc[c].todo # <<>>
        /\ Elems(loc[c].todo) \subseteq Elems(loc[c].addrs) /\ Elems(loc[c].guards) \subseteq Elems(loc[c].addrs)
        /\ loc[c].op \in {"read", "write", "mutate", "continue"} => Elems(loc[c].addrs) \subseteq {loc[c].addrs[1]}
    BY <1>1 DEF Shape
  <2> QED BY <1>1, <1>2, <1>3, <2>1, <2>2, <2>3, <2>4, <2>5 DEF Shape, Mutations
<1>4. /\ l.op = loc[c].op /\ l.ver = NoVersions /\ l.start = loc[c].start /\ l.kept = None
  BY <1>2 DEF Same
<1>5. gens \in [Hosts -> [Addrs -> [refs : Nat, gen : Nat]]]
  BY DEF Inv, TypeOK
<1>6. CASE l.op = "read" /\ Continue(c, "fetch", l)
  <2>1. Moves(c, "fetch", l) /\ UNCHANGED floor /\ UNCHANGED gens
    BY <1>6 DEF Continue, Goto, Moves
  <2>2. Shape("fetch", l)
    BY <1>3, <1>4, <1>6
  <2> QED BY <1>4, <1>5, <2>1, <2>2
<1>7. CASE l.op = "write" /\ Continue(c, "inner", l)
  <2>1. Moves(c, "inner", l) /\ UNCHANGED floor /\ UNCHANGED gens
    BY <1>7 DEF Continue, Goto, Moves
  <2>2. Shape("inner", l)
    BY <1>3, <1>4, <1>7
  <2> QED BY <1>4, <1>5, <2>1, <2>2
<1>8. CASE /\ l.op = "write" /\ Register(Host[c], Addr(c))
           /\ Goto(c, "inner", [l EXCEPT !.reg = TRUE, !.gen = Generation(c)])
  <2> DEFINE m == [l EXCEPT !.reg = TRUE, !.gen = Generation(c)]
  <2>1. Generation(c) \in Nat
    BY <1>1, GenerationNat
  <2>2. /\ m \in Locals /\ m.op = l.op /\ m.addrs = l.addrs /\ m.ver = l.ver /\ m.start = l.start /\ m.lost = l.lost
        /\ m.kept = l.kept /\ m.todo = l.todo /\ m.guards = l.guards /\ m.snap = l.snap /\ m.seen = l.seen
    BY <2>1 DEF Locals
  <2>3. Moves(c, "inner", m) /\ UNCHANGED floor
    BY <1>8 DEF Goto, Moves
  <2> HIDE DEF m
  <2>4. Same(c, m)
    BY <2>2 DEF Same
  <2>5. Shape("inner", m)
    BY <1>3, <1>4, <1>8, <2>2, <2>4
  <2>6. gens' \in [Hosts -> [Addrs -> [refs : Nat, gen : Nat]]]
    BY <1>1, <1>8, GensOK DEF Inv
  <2> QED BY <1>4, <2>2, <2>3, <2>5, <2>6
<1> QED BY <1>6, <1>7, <1>8 DEF Snapped

LEMMA SnapsOn ==
  ASSUME Inv, NEW c \in Clients, pc[c] \in {"snap", "seed"}, NEW l \in Locals, Same(c, l),
         l.todo = loc[c].todo, l.guards = loc[c].guards, Snapped(c, l), UNCHANGED <<world, tasks, sc>>, BodyOK',
         NEW r \in Rows \cup {None}, {l.snap, l.seen} \subseteq KnownRows \cup {None, r},
         \/ UNCHANGED row /\ r = None
         \/ SetRow(Addr(c), r) /\ (r = None \/ Fresh(r)) /\ Named(r) = 0
  PROVE  Inv'
<1>1. PICK label \in {"fetch", "inner"}, m \in Locals :
           /\ Moves(c, label, m) /\ UNCHANGED floor /\ Shape(label, m) /\ m.ver = NoVersions
           /\ m.op = loc[c].op /\ m.start = loc[c].start
           /\ m.snap = l.snap /\ m.seen = l.seen /\ m.kept = None
           /\ gens' \in [Hosts -> [Addrs -> [refs : Nat, gen : Nat]]]
  BY SnapShape
<1>2. label \in Labels /\ label # "idle" /\ pc[c] # "idle" /\ Addr(c) \in Addrs
  BY Here DEF Labels, Awaits
<1>3. Pledged(label, m) /\ Keeps(label, m) /\ Answers(label, m)
  <2>1. label \notin Publishing
    BY DEF Publishing, WritingThrough
  <2>2. Named(m.kept) = 0
    BY <1>1, Names
  <2> QED BY <2>1, <2>2 DEF Pledged, Keeps, Answers
<1>4. MiscOK'
  BY <1>1 DEF MiscOK, BodyOK
<1>5. Calm(c, label, m) /\ Settles(c, label, m, Addr(c))
  BY <1>1 DEF Calm, Settles
<1>6. {m.snap, m.seen, m.kept} \subseteq KnownRows \cup {None, r}
  BY <1>1
<1>7. CASE UNCHANGED row /\ r = None
  <2>1. {m.snap, m.seen, m.kept} \subseteq KnownRows \cup {None}
    BY <1>6, <1>7
  <2> QED BY <1>1, <1>2, <1>3, <1>4, <1>5, <1>7, <2>1, TasksKept, Quiet
<1>8. CASE SetRow(Addr(c), r) /\ (r = None \/ Fresh(r)) /\ Named(r) = 0
  BY <1>1, <1>2, <1>3, <1>4, <1>5, <1>6, <1>8, Writes
<1> QED BY <1>7, <1>8

LEMMA SnapStep ==
  ASSUME Inv, NEW c \in Clients, Snap(c), UNCHANGED <<world, tasks, bounds>>
  PROVE  Inv'
<1> DEFINE m == [loc[c] EXCEPT !.snap = row[Addr(c)]]
<1>1. /\ pc[c] = "snap" /\ UNCHANGED <<row, content, sc>>
      /\ Snapped(c, m) \/ Continue(c, "seed", loc[c])
  BY DEF Snap, At, bounds
<1>2. /\ loc[c] \in Locals /\ row[Addr(c)] \in Rows \cup {None} /\ row[Addr(c)] \in KnownRows
      /\ {loc[c].snap, loc[c].seen} \subseteq KnownRows /\ pc[c] # "idle" /\ Shape(pc[c], loc[c])
  BY <1>1, Here
<1>3. BodyOK'
  BY <1>1, BodyKept
<1>4. CASE Snapped(c, m)
  <2>1. /\ m \in Locals /\ Same(c, m) /\ m.todo = loc[c].todo /\ m.guards = loc[c].guards
        /\ m.snap = row[Addr(c)] /\ m.seen = loc[c].seen
    BY <1>2 DEF Locals, Same
  <2> HIDE DEF m
  <2>2. {m.snap, m.seen} \subseteq KnownRows \cup {None, None}
    BY <1>2, <2>1
  <2> QED BY <1>1, <1>3, <1>4, <2>1, <2>2, SnapsOn
<1>5. CASE Continue(c, "seed", loc[c])
  <2>1. Moves(c, "seed", loc[c]) /\ UNCHANGED floor /\ UNCHANGED gens
    BY <1>5 DEF Continue, Goto, Moves
  <2>2. Shape("seed", loc[c]) /\ loc[c].ver = NoVersions
    BY <1>1, <1>2 DEF Shape, Late, Clearing, Sweeping, Dropping, WritingThrough, Arming, Reading
  <2>3. Pledged("seed", loc[c]) /\ Keeps("seed", loc[c]) /\ Answers("seed", loc[c]) /\ "seed" \in Labels
    BY DEF Pledged, Keeps, Answers, Publishing, WritingThrough, Labels, Awaits
  <2>4. {loc[c].snap, loc[c].seen, loc[c].kept} \subseteq KnownRows \cup {None}
    BY <1>2, Here
  <2>5. MiscOK'
    BY <1>1, <2>1, MiscKept
  <2> QED BY <1>1, <1>2, <2>1, <2>2, <2>3, <2>4, <2>5, TasksKept, Quiet DEF Calm
<1> QED BY <1>1, <1>4, <1>5

LEMMA SeedStep ==
  ASSUME Inv, NEW c \in Clients, Seed(c), UNCHANGED <<world, tasks, bounds>>
  PROVE  Inv'
<1> DEFINE new == encode_avail(0)
           m == [loc[c] EXCEPT !.snap = new]
           n == loc[c].tries + 1
           k == [loc[c] EXCEPT !.tries = n]
<1>1. /\ pc[c] = "seed" /\ NonceLeft /\ UNCHANGED <<content, sc>>
      /\ \/ SetRow(Addr(c), new) /\ Snapped(c, m)
         \/ UNCHANGED row /\ Continue(c, "snap", k)
         \/ UNCHANGED row /\ Snapped(c, loc[c])
  BY Zenon DEF Seed, At, bounds
<1>2. /\ loc[c] \in Locals /\ {loc[c].snap, loc[c].seen, loc[c].kept} \subseteq KnownRows
      /\ pc[c] # "idle" /\ Shape(pc[c], loc[c])
  BY <1>1, Here
<1>3. Fresh(new) /\ Named(new) = 0 /\ new \in Rows
  <2>1. 0 \in 0 .. MaxVer
    BY BoundsAssumption
  <2> QED BY <1>1, <2>1, Encoded DEF Fresh
<1> HIDE DEF new
<1>4. BodyOK'
  BY <1>1, BodyKept
<1>5. CASE SetRow(Addr(c), new) /\ Snapped(c, m)
  <2>1. /\ m \in Locals /\ Same(c, m) /\ m.todo = loc[c].todo /\ m.guards = loc[c].guards
        /\ m.snap = new /\ m.seen = loc[c].seen
    BY <1>2, <1>3 DEF Locals, Same
  <2> HIDE DEF m
  <2>2. {m.snap, m.seen} \subseteq KnownRows \cup {None, new}
    BY <1>2, <2>1
  <2> QED BY <1>1, <1>3, <1>4, <1>5, <2>1, <2>2, SnapsOn
<1>6. CASE UNCHANGED row /\ Snapped(c, loc[c])
  <2>1. {loc[c].snap, loc[c].seen} \subseteq KnownRows \cup {None, None}
    BY <1>2
  <2> QED BY <1>1, <1>2, <1>4, <1>6, <2>1, SnapsOn DEF Same
<1>7. CASE UNCHANGED row /\ Continue(c, "snap", k)
  <2>1. Moves(c, "snap", k) /\ UNCHANGED floor /\ UNCHANGED gens
    BY <1>7 DEF Continue, Goto, Moves
  <2>2. /\ k \in Locals /\ k.op = loc[c].op /\ k.addrs = loc[c].addrs /\ k.ver = loc[c].ver /\ k.start = loc[c].start
        /\ k.kept = loc[c].kept /\ k.todo = loc[c].todo /\ k.guards = loc[c].guards
        /\ k.snap = loc[c].snap /\ k.seen = loc[c].seen
    <3>1. n \in Nat
      BY <1>2 DEF Locals
    <3> HIDE DEF n
    <3> QED BY <1>2, <3>1 DEF Locals
  <2> HIDE DEF k
  <2>3. Shape("snap", k) /\ k.ver = NoVersions
    BY <1>1, <1>2, <2>2 DEF Shape, Late, Clearing, Sweeping, Dropping, WritingThrough, Arming, Reading
  <2>4. Pledged("snap", k) /\ Keeps("snap", k) /\ Answers("snap", k) /\ "snap" \in Labels
    BY DEF Pledged, Keeps, Answers, Publishing, WritingThrough, Labels, Awaits
  <2>5. {k.snap, k.seen, k.kept} \subseteq KnownRows \cup {None}
    BY <1>2, <2>2
  <2>6. MiscOK'
    BY <1>1, <2>1, MiscKept
  <2> QED BY <1>1, <1>2, <1>7, <2>1, <2>2, <2>3, <2>4, <2>5, <2>6, TasksKept, Quiet DEF Calm
<1> QED BY <1>1, <1>5, <1>6, <1>7

(* The fields that the invariant speaks of.                                 *)
Alike(m, l) ==
  /\ m.op = l.op /\ m.addrs = l.addrs /\ m.ver = l.ver /\ m.start = l.start /\ m.lost = l.lost /\ m.kept = l.kept
  /\ m.todo = l.todo /\ m.guards = l.guards /\ m.snap = l.snap /\ m.seen = l.seen

(* A read that writes the row of its address.                               *)
LEMMA ReadWrites ==
  ASSUME Inv, NEW c \in Clients, pc[c] # "idle", loc[c].op = "read", NEW l \in Locals, Alike(l, loc[c]),
         NEW label \in Reading \ (Publishing \cup {"lookup", "hit"}), Continue(c, label, l),
         NEW r \in Rows \cup {None}, r = None \/ Fresh(r), SetRow(Addr(c), r), UNCHANGED <<world, tasks, sc>>, BodyOK',
         Guarded => (Named(r) # 0 => AtLeast(Addr(c), Named(r)))
  PROVE  Inv'
<1>1. Shape(label, l) /\ l.ver = NoVersions
  BY ReadShape, ReadEdits DEF Alike, Same, Publishing
<1>2. label \in Labels /\ label # "idle" /\ Keeps(label, l) /\ Pledged(label, l) /\ Answers(label, l)
  BY DEF Reading, Labels, Awaits, Keeps, Pledged, Answers
<1>3. {l.snap, l.seen, l.kept} \subseteq KnownRows \cup {None, r}
  BY Here DEF Alike
<1>4. Moves(c, label, l) /\ UNCHANGED floor /\ UNCHANGED gens
  BY DEF Continue, Goto, Moves
<1>5. MiscOK'
  BY <1>4 DEF BodyOK, MiscOK, Inv, TypeOK
<1>6. Addr(c) \in Addrs
  BY Here
<1>7. Named(r) >= l.ver[Addr(c)]
  <2>1. l.ver[Addr(c)] = 0 /\ Named(r) \in Nat
    BY <1>1, <1>6, Nothing, Names, BoundsAssumption
  <2> QED BY <2>1
<1>8. Settles(c, label, l, Addr(c))
  BY <1>1 DEF Settles
<1>9. l.op = loc[c].op /\ l.ver = NoVersions /\ l.start = loc[c].start
  BY <1>1 DEF Alike
<1> QED BY <1>1, <1>2, <1>3, <1>4, <1>5, <1>6, <1>7, <1>8, <1>9, Writes

LEMMA FetchStep ==
  ASSUME Inv, NEW c \in Clients, Fetch(c), UNCHANGED <<world, tasks, bounds>>
  PROVE  Inv'
<1> DEFINE obj == backend[Addr(c)]
           x == IF Named(loc[c].snap) = obj.ver THEN 0 ELSE Named(loc[c].snap)
           o == [loc[c].old EXCEPT ![Addr(c)] = x]
           m == [loc[c] EXCEPT !.etag = obj.ver, !.guards = loc[c].addrs, !.old = o]
<1>1. pc[c] = "fetch" /\ UNCHANGED <<row, content, sc>>
  BY DEF Fetch, At, bounds
<1>2. \/ Continue(c, "discard", loc[c])
      \/ Continue(c, "live", loc[c])
      \/ Continue(c, "fill", m)
  BY DEF Fetch
<1>3. pc[c] \in Reading
  BY <1>1 DEF Reading
<1>4. BodyOK' /\ MiscOK' /\ UNCHANGED gens
  BY <1>1, <1>2, BodyKept, MiscKept DEF Continue
<1>5. ASSUME NEW label \in {"discard", "live"}, Continue(c, label, loc[c]) PROVE Inv'
  <2>1. label \in (Reading \cup {"snap", "seed"}) \ (Publishing \cup {"lookup", "hit"}) /\ Goto(c, label, loc[c])
    BY <1>5 DEF Reading, Publishing, WritingThrough, Continue
  <2> QED BY <1>1, <1>3, <1>4, <2>1, AtRead, ReadsOn
<1>6. CASE Continue(c, "fill", m)
  <2>1. obj.ver \in 0 .. MaxVer /\ AtLeast(Addr(c), obj.ver) /\ Addr(c) \in Addrs /\ loc[c] \in Locals
    BY <1>3, AtRead, Current
  <2>2. o \in VersionMaps
    <3>1. loc[c].old \in VersionMaps /\ loc[c].snap \in Rows \cup {None}
      BY <2>1 DEF Locals
    <3>2. x \in 0 .. MaxVer
      BY <3>1, Names, BoundsAssumption
    <3> HIDE DEF x
    <3> QED BY <3>1, <3>2 DEF VersionMaps
  <2>3. /\ m \in Locals /\ Same(c, m) /\ m.todo = loc[c].todo /\ m.guards = m.addrs
        /\ m.snap = loc[c].snap /\ m.seen = loc[c].seen /\ m.etag = obj.ver
    <3> HIDE DEF obj, o
    <3> QED BY <2>1, <2>2 DEF Locals, Same
  <2>4. Goto(c, "fill", m) /\ "fill" \in Reading
    BY <1>6 DEF Continue, Reading
  <2> HIDE DEF m
  <2>5. m.addrs[1] = Addr(c)
    BY <1>3, <2>3, AtRead DEF Same
  <2>6. Pledged("fill", m) /\ Answers("fill", m)
    BY <2>1, <2>3, <2>5 DEF Pledged, Answers
  <2> QED BY <1>1, <1>3, <1>4, <2>3, <2>4, <2>6, AtRead, Reads
<1> QED BY <1>2, <1>5, <1>6

LEMMA LiveOn ==
  ASSUME Inv, NEW c \in Clients, pc[c] \in Reading, NEW l \in Locals, Same(c, l), l.todo = loc[c].todo,
         l.guards = loc[c].guards, l.snap = loc[c].snap, l.seen \in {None, loc[c].seen},
         AfterLive(c, l), UNCHANGED <<world, row, tasks, sc>>, BodyOK'
  PROVE  Inv'
<1>1. PICK label \in {"fetch", "discard"} : Continue(c, label, l)
  BY DEF AfterLive
<1>2. label \in (Reading \cup {"snap", "seed"}) \ (Publishing \cup {"lookup", "hit"}) /\ Goto(c, label, l) /\ UNCHANGED gens
  BY <1>1 DEF Reading, Publishing, WritingThrough, Continue
<1>3. {l.snap, l.seen} \subseteq KnownRows \cup {None}
  BY AtRead
<1> QED BY <1>2, <1>3, AtRead, ReadsOn

LEMMA LiveStep ==
  ASSUME Inv, NEW c \in Clients, Live(c), UNCHANGED <<world, tasks, bounds>>
  PROVE  Inv'
<1> DEFINE m == [loc[c] EXCEPT !.seen = row[Addr(c)]]
<1>1. pc[c] \in Reading /\ UNCHANGED <<row, content, sc>>
  BY DEF Live, At, bounds, Reading
<1>2. AfterLive(c, loc[c]) \/ (Bump(Host[c], {Addr(c)}) /\ Goto(c, "live_swap", m))
  BY DEF Live
<1>3. BodyOK'
  BY <1>1, BodyKept
<1>4. CASE AfterLive(c, loc[c])
  BY <1>1, <1>3, <1>4, AtRead, LiveOn
<1>5. CASE Bump(Host[c], {Addr(c)}) /\ Goto(c, "live_swap", m)
  <2>1. loc[c] \in Locals /\ row[Addr(c)] \in Rows \cup {None} /\ row[Addr(c)] \in KnownRows
    BY <1>1, AtRead, Here
  <2>2. /\ m \in Locals /\ Same(c, m) /\ m.todo = loc[c].todo /\ m.guards = loc[c].guards
        /\ m.snap = loc[c].snap /\ m.seen = row[Addr(c)]
    BY <2>1 DEF Locals, Same
  <2> HIDE DEF m
  <2>3. "live_swap" \in (Reading \cup {"snap", "seed"}) \ (Publishing \cup {"lookup", "hit"})
    BY DEF Reading, Publishing, WritingThrough
  <2>4. {m.snap, m.seen} \subseteq KnownRows \cup {None}
    BY <1>1, <2>1, <2>2, AtRead
  <2> QED BY <1>1, <1>3, <1>5, <2>2, <2>3, <2>4, AtRead, ReadsOn
<1> QED BY <1>2, <1>4, <1>5

(* The bodies that are put and reclaimed.                                   *)
LEMMA BodiesOK ==
  ASSUME Inv, NEW a \in Addrs, UNCHANGED bounds,
         \/ UNCHANGED content
         \/ \E V : DropBodies(a, V)
         \/ \E V \in SUBSET (0 .. MaxVer) : content' = [content EXCEPT ![a] = @ \cup V]
  PROVE  BodyOK'
<1>1. content \in [Addrs -> SUBSET (0 .. MaxVer)]
  BY DEF Inv, TypeOK
<1>2. content' \in [Addrs -> SUBSET (0 .. MaxVer)]
  <2>1. CASE UNCHANGED content BY <1>1, <2>1
  <2>2. ASSUME NEW V, DropBodies(a, V) PROVE content' \in [Addrs -> SUBSET (0 .. MaxVer)]
    BY <1>1, <2>2 DEF DropBodies
  <2>3. ASSUME NEW V \in SUBSET (0 .. MaxVer), content' = [content EXCEPT ![a] = @ \cup V]
        PROVE  content' \in [Addrs -> SUBSET (0 .. MaxVer)]
    BY <1>1, <2>3
  <2> QED BY <2>1, <2>2, <2>3
<1> QED BY <1>2 DEF Inv, TypeOK, BodyOK, bounds

LEMMA LiveSwapStep ==
  ASSUME Inv, NEW c \in Clients, LiveSwap(c), UNCHANGED <<world, tasks, bounds>>
  PROVE  Inv'
<1> DEFINE new == encode_avail(0)
           x == {Named(loc[c].seen)}
           m == [loc[c] EXCEPT !.body = x]
<1>1. pc[c] \in Reading /\ NonceLeft /\ UNCHANGED <<content, sc>>
  BY DEF LiveSwap, At, bounds, Reading
<1>2. (SetRow(Addr(c), new) /\ Continue(c, "live_body", m)) \/ (UNCHANGED row /\ AfterLive(c, loc[c]))
  BY Zenon DEF LiveSwap
<1>3. Fresh(new) /\ Named(new) = 0 /\ new \in Rows
  <2>1. 0 \in 0 .. MaxVer
    BY BoundsAssumption
  <2> QED BY <1>1, <2>1, Encoded DEF Fresh
<1> HIDE DEF new
<1>4. BodyOK'
  BY <1>1, BodyKept
<1>5. CASE UNCHANGED row /\ AfterLive(c, loc[c])
  BY <1>1, <1>4, <1>5, AtRead, LiveOn
<1>6. CASE SetRow(Addr(c), new) /\ Continue(c, "live_body", m)
  <2>1. loc[c] \in Locals
    BY <1>1, AtRead
  <2>2. x \subseteq 0 .. MaxVer
    <3>1. loc[c].seen \in Rows \cup {None}
      BY <2>1 DEF Locals
    <3> QED BY <3>1, Names
  <2>3. m \in Locals /\ Alike(m, loc[c])
    <3> HIDE DEF x
    <3> QED BY <2>1, <2>2 DEF Locals, Alike
  <2> HIDE DEF m
  <2>4. "live_body" \in Reading \ (Publishing \cup {"lookup", "hit"})
    BY DEF Reading, Publishing, WritingThrough
  <2> QED BY <1>1, <1>3, <1>4, <1>6, <2>3, <2>4, AtRead, ReadWrites
<1> QED BY <1>2, <1>5, <1>6

LEMMA LiveBodyStep ==
  ASSUME Inv, NEW c \in Clients, LiveBody(c), UNCHANGED <<world, tasks, bounds>>
  PROVE  Inv'
<1> DEFINE m == [loc[c] EXCEPT !.seen = None, !.body = {}]
<1>1. pc[c] \in Reading /\ UNCHANGED <<row, sc>> /\ DropBodies(Addr(c), loc[c].body) /\ AfterLive(c, m)
  BY DEF LiveBody, At, bounds, Reading
<1>2. loc[c] \in Locals /\ Addr(c) \in Addrs
  BY <1>1, AtRead
<1>3. BodyOK'
  BY <1>1, <1>2, BodiesOK
<1>4. /\ m \in Locals /\ Same(c, m) /\ m.todo = loc[c].todo /\ m.guards = loc[c].guards
      /\ m.snap = loc[c].snap /\ m.seen = None
  BY <1>2 DEF Locals, Same
<1> HIDE DEF m
<1> QED BY <1>1, <1>3, <1>4, LiveOn

LEMMA DiscardStep ==
  ASSUME Inv, NEW c \in Clients, Discard(c), UNCHANGED <<world, tasks, bounds>>
  PROVE  Inv'
<1>1. pc[c] \in Reading /\ UNCHANGED <<content, sc>> /\ (SetRow(Addr(c), None) \/ UNCHANGED row) /\ Return(c)
  BY DEF Discard, At, bounds, Reading
<1> QED BY <1>1, AtRead, BodyKept, TasksKept, Returns

(* Entering a clear.                                                        *)
LEMMA ClearEntry ==
  ASSUME Inv, NEW c \in Clients, NEW l \in Locals, EnterClear(c, l)
  PROVE  \E m \in Locals : /\ Moves(c, "cl_read", m) /\ UNCHANGED floor /\ Alike(m, l)
                           /\ gens' \in [Hosts -> [Addrs -> [refs : Nat, gen : Nat]]]
<1> DEFINE m == [l EXCEPT !.tries = 0, !.body = {}]
<1>1. Goto(c, "cl_read", m) /\ Bump(Host[c], {Head(l.todo)})
  BY DEF EnterClear
<1>2. m \in Locals /\ Alike(m, l)
  BY DEF Locals, Alike
<1> HIDE DEF m
<1>3. gens' \in [Hosts -> [Addrs -> [refs : Nat, gen : Nat]]]
  BY <1>1, ShapeAssumption, GensOK DEF Inv
<1> QED BY <1>1, <1>2, <1>3 DEF Goto, Moves

LEMMA ClearShape ==
  ASSUME NEW l, l.addrs # <<>>, l.todo # <<>>, Elems(l.todo) \subseteq Elems(l.addrs),
         Elems(l.guards) \subseteq Elems(l.addrs), l.op = "read" => l.ver = NoVersions,
         l.op \in Mutations => Elems(l.addrs) \subseteq Elems(l.guards),
         l.op \in {"read", "write", "mutate", "continue"} => Elems(l.addrs) \subseteq {l.addrs[1]}, l.kept # None => l.op = "continue",
         l.op # "none", NEW label \in Clearing
  PROVE  Shape(label, l)
<1>1. label \in Late /\ label \notin Sweeping \cup Dropping \cup Arming \cup Reading \cup WritingThrough
  BY DEF Late, Clearing, Sweeping, Dropping, Arming, WritingThrough, Reading
<1>2. label \notin {"idle", "disarm", "snap", "seed", "inner", "restore", "pub_remove", "rl_swap", "pub_swap"}
  BY DEF Clearing
<1> QED BY <1>1, <1>2 DEF Shape

LEMMA EntersClear ==
  ASSUME Inv, NEW c \in Clients, pc[c] # "idle", NEW l \in Locals, EnterClear(c, l), Same(c, l),
         UNCHANGED <<world, row, tasks, sc>>, BodyOK', l.guards = loc[c].guards,
         l.todo # <<>>, Elems(l.todo) \subseteq Elems(l.addrs), {l.snap, l.seen} \subseteq KnownRows \cup {None},
         l.op # "none", l.op \in Mutations => Elems(l.addrs) \subseteq Elems(l.guards),
         Guarded => loc[c].ver = NoVersions \/ Owed(pc[c], loc[c]) \subseteq Elems(l.todo) \cup Swept(l)
  PROVE  Inv'
<1>1. PICK m \in Locals : /\ Moves(c, "cl_read", m) /\ UNCHANGED floor /\ Alike(m, l)
                          /\ gens' \in [Hosts -> [Addrs -> [refs : Nat, gen : Nat]]]
  BY ClearEntry
<1>2. Shape(pc[c], loc[c]) /\ loc[c].addrs # <<>>
  BY Here
<1>3. /\ Elems(loc[c].guards) \subseteq Elems(loc[c].addrs) /\ (loc[c].op = "read" => loc[c].ver = NoVersions)
      /\ (loc[c].kept # None => loc[c].op = "continue")
      /\ loc[c].op \in {"read", "write", "mutate", "continue"} => Elems(loc[c].addrs) \subseteq {loc[c].addrs[1]}
  BY <1>2 DEF Shape
<1>4. Shape("cl_read", m)
  BY <1>1, <1>2, <1>3, ClearShape DEF Same, Alike, Clearing
<1>5. Guarded => Calm(c, "cl_read", m)
  <2>1. Owed("cl_read", m) = Elems(l.todo) \cup Swept(l)
    BY <1>1 DEF Owed, Alike, Swept
  <2> QED BY <1>1, <2>1 DEF Calm, Alike, Same
<1>6. Pledged("cl_read", m) /\ Keeps("cl_read", m) /\ Answers("cl_read", m) /\ "cl_read" \in Labels
  BY DEF Pledged, Keeps, Answers, Publishing, WritingThrough, Labels, Awaits
<1>7. {m.snap, m.seen, m.kept} \subseteq KnownRows \cup {None}
  BY <1>1, Here DEF Alike, Same
<1>8. MiscOK'
  BY <1>1 DEF BodyOK, MiscOK
<1>9. m.op = loc[c].op /\ m.ver = loc[c].ver /\ m.start = loc[c].start
  BY <1>1 DEF Alike, Same
<1> QED BY <1>1, <1>4, <1>5, <1>6, <1>7, <1>8, <1>9, TasksKept, Quiet
-----------------------------------------------------------------------------
(* Fills.                                                                   *)

LEMMA ReadUnwinds ==
  ASSUME Inv, NEW c \in Clients, pc[c] \in Reading, Unwind(c, loc[c]), UNCHANGED <<world, row, sc>>, TasksOK, BodyOK'
  PROVE  Inv'
  BY AtRead, Unwinds DEF Same

(* A fill that goes on keeps its pledge.                                    *)
Filling == {"fill", "tee", "tee_commit", "rl_swap"}

LEMMA FillsOn ==
  ASSUME Inv, NEW c \in Clients, pc[c] \in Filling, NEW label \in Filling, NEW m \in Locals, Alike(m, loc[c]),
         label = "rl_swap" => loc[c].snap # None,
         m.etag = loc[c].etag, Goto(c, label, m), UNCHANGED <<world, row, tasks, sc>>, BodyOK',
         gens' \in [Hosts -> [Addrs -> [refs : Nat, gen : Nat]]]
  PROVE  Inv'
<1>1. pc[c] \in Reading /\ label \in Reading /\ pc[c] \in Publishing
  BY DEF Filling, Reading, Publishing
<1>2. MiscOK'
  BY DEF MiscOK, BodyOK
<1>3. Same(c, m) /\ m.todo = loc[c].todo /\ Elems(m.guards) \subseteq Elems(m.addrs) /\ m.addrs[1] = Addr(c)
  BY <1>1, AtRead, ReadEdits DEF Alike, Same
<1>4. Guarded => Pledged(label, m) /\ Answers(label, m)
  <2>1. ASSUME Guarded, m.snap # None, row'[Addr(c)] = m.snap PROVE AtLeast(Addr(c), m.etag)
    BY <1>1, <2>1 DEF Inv, SafeInv, PubInv, Alike
  <2> QED BY <1>3, <2>1 DEF Pledged, Answers, Filling
<1>5. {m.snap, m.seen} \subseteq KnownRows \cup {None} /\ (label = "rl_swap" => m.snap # None)
  BY <1>1, AtRead DEF Alike
<1> QED BY <1>1, <1>2, <1>3, <1>4, <1>5, AtRead, Reads

LEMMA FilledOn ==
  ASSUME Inv, NEW c \in Clients, pc[c] \in Filling, Filled(c, loc[c]), UNCHANGED <<world, row, tasks, sc>>, BodyOK'
  PROVE  Inv'
<1>1. pc[c] \in Reading
  BY DEF Filling, Reading
<1>2. CASE Unwind(c, loc[c])
  BY <1>1, <1>2, TasksKept, ReadUnwinds
<1>3. CASE Continue(c, "rl_swap", loc[c]) /\ loc[c].snap # None
  <2>1. Goto(c, "rl_swap", loc[c]) /\ UNCHANGED gens
    BY <1>3 DEF Continue
  <2>2. gens' \in [Hosts -> [Addrs -> [refs : Nat, gen : Nat]]]
    BY <2>1 DEF Inv, TypeOK
  <2> QED BY <1>1, <1>3, <2>1, <2>2, AtRead, FillsOn DEF Alike, Filling
<1> QED BY <1>2, <1>3 DEF Filled

LEMMA FillStep ==
  ASSUME Inv, NEW c \in Clients, Fill(c), UNCHANGED <<world, tasks, bounds>>
  PROVE  Inv'
<1> DEFINE m == [loc[c] EXCEPT !.reg = TRUE, !.gen = Generation(c)]
<1>1. pc[c] = "fill" /\ UNCHANGED <<row, sc>>
  BY DEF Fill, At, bounds
<1>2. \/ Unwind(c, loc[c]) /\ UNCHANGED content
      \/ content' = [content EXCEPT ![Addr(c)] = @ \cup {loc[c].etag}] /\ Filled(c, loc[c])
      \/ content' = [content EXCEPT ![Addr(c)] = @ \cup {loc[c].etag}] /\ Unwind(c, loc[c])
      \/ Register(Host[c], Addr(c)) /\ Goto(c, "tee", m) /\ UNCHANGED content
      \/ EnterClear(c, loc[c]) /\ UNCHANGED content
  BY DEF Fill
<1>3. pc[c] \in Reading /\ pc[c] \in Filling
  BY <1>1 DEF Reading, Filling
<1>4. pc[c] # "idle" /\ loc[c] \in Locals /\ Addr(c) \in Addrs /\ Host[c] \in Hosts /\ {loc[c].etag} \subseteq 0 .. MaxVer
  <2>1. pc[c] # "idle" /\ loc[c] \in Locals /\ Addr(c) \in Addrs /\ Host[c] \in Hosts
    BY <1>3, AtRead, Here
  <2> QED BY <2>1 DEF Locals
<1>5. BodyOK'
  BY <1>2, <1>4, BodiesOK
<1>6. CASE Unwind(c, loc[c])
  BY <1>1, <1>3, <1>5, <1>6, TasksKept, ReadUnwinds
<1>7. CASE Filled(c, loc[c])
  BY <1>1, <1>3, <1>5, <1>7, FilledOn
<1>8. CASE Register(Host[c], Addr(c)) /\ Goto(c, "tee", m)
  <2>1. Generation(c) \in Nat
    BY <1>4, GenerationNat
  <2>2. m \in Locals /\ Alike(m, loc[c]) /\ m.etag = loc[c].etag
    BY <1>4, <2>1 DEF Locals, Alike
  <2> HIDE DEF m
  <2>3. gens' \in [Hosts -> [Addrs -> [refs : Nat, gen : Nat]]]
    BY <1>4, <1>8, GensOK DEF Inv
  <2> QED BY <1>1, <1>3, <1>5, <1>8, <2>2, <2>3, FillsOn DEF Filling
<1>9. CASE EnterClear(c, loc[c])
  <2>1. Shape(pc[c], loc[c]) /\ loc[c].op = "read" /\ loc[c].ver = NoVersions
    BY <1>3, <1>4, AtRead, Here
  <2>2. loc[c].todo # <<>> /\ Elems(loc[c].todo) \subseteq Elems(loc[c].addrs) /\ "read" \notin Mutations
    BY <2>1 DEF Shape, Mutations
  <2> QED BY <1>1, <1>3, <1>4, <1>5, <1>9, <2>1, <2>2, AtRead, EntersClear
<1> QED BY <1>2, <1>6, <1>7, <1>8, <1>9

LEMMA TeeStep ==
  ASSUME Inv, NEW c \in Clients, Tee(c), UNCHANGED <<world, tasks, bounds>>
  PROVE  Inv'
<1>1. pc[c] = "tee" /\ UNCHANGED <<row, content, sc>> /\ (Continue(c, "tee_commit", loc[c]) \/ Unwind(c, loc[c]))
  BY DEF Tee, At, bounds
<1>2. pc[c] \in Reading /\ pc[c] \in Filling
  BY <1>1 DEF Reading, Filling
<1>3. BodyOK'
  BY <1>1, BodyKept
<1>4. CASE Unwind(c, loc[c])
  BY <1>1, <1>2, <1>3, <1>4, TasksKept, ReadUnwinds
<1>5. CASE Continue(c, "tee_commit", loc[c])
  <2>1. Goto(c, "tee_commit", loc[c]) /\ UNCHANGED gens
    BY <1>5 DEF Continue
  <2>2. gens' \in [Hosts -> [Addrs -> [refs : Nat, gen : Nat]]]
    BY <2>1 DEF Inv, TypeOK
  <2> QED BY <1>1, <1>2, <1>3, <2>1, <2>2, AtRead, FillsOn DEF Alike, Filling
<1> QED BY <1>1, <1>4, <1>5

LEMMA TeeCommitStep ==
  ASSUME Inv, NEW c \in Clients, TeeCommit(c), UNCHANGED <<world, tasks, bounds>>
  PROVE  Inv'
<1>1. /\ pc[c] = "tee_commit" /\ UNCHANGED <<row, sc>>
      /\ \/ content' = [content EXCEPT ![Addr(c)] = @ \cup {loc[c].etag}] /\ Filled(c, loc[c])
         \/ Unwind(c, loc[c]) /\ UNCHANGED content
  BY DEF TeeCommit, At, bounds
<1>2. pc[c] \in Reading /\ pc[c] \in Filling
  BY <1>1 DEF Reading, Filling
<1>3. Addr(c) \in Addrs /\ {loc[c].etag} \subseteq 0 .. MaxVer
  <2>1. loc[c] \in Locals /\ Addr(c) \in Addrs
    BY <1>2, AtRead
  <2> QED BY <2>1 DEF Locals
<1>4. BodyOK'
  BY <1>1, <1>3, BodiesOK
<1> QED BY <1>1, <1>2, <1>4, TasksKept, ReadUnwinds, FilledOn

LEMMA RlSwapStep ==
  ASSUME Inv, NEW c \in Clients, RlSwap(c), UNCHANGED <<world, tasks, bounds>>
  PROVE  Inv'
<1> DEFINE new == encode_avail(loc[c].etag)
<1>1. pc[c] = "rl_swap" /\ NonceLeft /\ UNCHANGED <<content, sc>>
  BY DEF RlSwap, At, bounds
<1>2. \/ row[Addr(c)] = loc[c].snap /\ SetRow(Addr(c), new) /\ Continue(c, "rl_prune", loc[c])
      \/ UNCHANGED row /\ Continue(c, "rl_check", loc[c])
  BY Zenon DEF RlSwap
<1>3. pc[c] \in Reading /\ pc[c] \in Publishing
  BY <1>1 DEF Reading, Publishing
<1>4. loc[c] \in Locals /\ loc[c].etag \in 0 .. MaxVer /\ Addr(c) \in Addrs
  <2>1. loc[c] \in Locals /\ Addr(c) \in Addrs
    BY <1>3, AtRead
  <2> QED BY <2>1 DEF Locals
<1>5. Fresh(new) /\ Named(new) = loc[c].etag /\ new \in Rows
  BY <1>1, <1>4, Encoded DEF Fresh
<1> HIDE DEF new
<1>6. BodyOK'
  BY <1>1, BodyKept
<1>7. CASE UNCHANGED row /\ Continue(c, "rl_check", loc[c])
  <2>1. /\ Goto(c, "rl_check", loc[c]) /\ UNCHANGED gens
        /\ "rl_check" \in (Reading \cup {"snap", "seed"}) \ (Publishing \cup {"lookup", "hit"})
    BY <1>7 DEF Continue, Reading, Publishing, WritingThrough
  <2> QED BY <1>1, <1>3, <1>6, <1>7, <2>1, AtRead, ReadsOn
<1>8. CASE row[Addr(c)] = loc[c].snap /\ SetRow(Addr(c), new) /\ Continue(c, "rl_prune", loc[c])
  <2>1. "rl_prune" \in Reading \ (Publishing \cup {"lookup", "hit"})
    BY DEF Reading, Publishing, WritingThrough
  <2>2. ASSUME Guarded, Named(new) # 0 PROVE AtLeast(Addr(c), Named(new))
    <3>1. loc[c].snap # None
      <4>1. Shape(pc[c], loc[c])
        BY <1>3, AtRead, Here
      <4> QED BY <1>1, <4>1 DEF Shape
    <3> QED BY <1>3, <1>5, <1>8, <2>2, <3>1 DEF Inv, SafeInv, PubInv
  <2> QED BY <1>1, <1>3, <1>4, <1>5, <1>6, <1>8, <2>1, <2>2, AtRead, ReadWrites DEF Alike
<1> QED BY <1>2, <1>7, <1>8

LEMMA RlPruneStep ==
  ASSUME Inv, NEW c \in Clients, RlPrune(c), UNCHANGED <<world, tasks, bounds>>
  PROVE  Inv'
<1>1. pc[c] \in Reading /\ UNCHANGED <<row, sc>> /\ DropBodies(Addr(c), {loc[c].old[Addr(c)]}) /\ Return(c)
  BY DEF RlPrune, At, bounds, Reading
<1>2. BodyOK'
  BY <1>1, AtRead, BodiesOK
<1> QED BY <1>1, <1>2, AtRead, TasksKept, Returns

LEMMA RlCheckStep ==
  ASSUME Inv, NEW c \in Clients, RlCheck(c), UNCHANGED <<world, tasks, bounds>>
  PROVE  Inv'
<1>1. pc[c] \in Reading /\ UNCHANGED <<row, content, sc>> /\ (Return(c) \/ Continue(c, "rl_remove", loc[c]))
  BY DEF RlCheck, At, bounds, Reading
<1>2. BodyOK'
  BY <1>1, BodyKept
<1>3. CASE Return(c)
  BY <1>1, <1>2, <1>3, AtRead, TasksKept, Returns
<1>4. CASE Continue(c, "rl_remove", loc[c])
  <2>1. /\ Goto(c, "rl_remove", loc[c]) /\ UNCHANGED gens
        /\ "rl_remove" \in (Reading \cup {"snap", "seed"}) \ (Publishing \cup {"lookup", "hit"})
    BY <1>4 DEF Continue, Reading, Publishing, WritingThrough
  <2> QED BY <1>1, <1>2, <2>1, AtRead, ReadsOn
<1> QED BY <1>1, <1>3, <1>4

LEMMA RlRemoveStep ==
  ASSUME Inv, NEW c \in Clients, RlRemove(c), UNCHANGED <<world, tasks, bounds>>
  PROVE  Inv'
<1>1. pc[c] \in Reading /\ UNCHANGED <<content, sc>> /\ SetRow(Addr(c), None) /\ Return(c)
  BY DEF RlRemove, At, bounds, Reading
<1> QED BY <1>1, AtRead, BodyKept, TasksKept, Returns
-----------------------------------------------------------------------------
(* Dropping what is armed.                                                  *)

LEMMA DropShape ==
  ASSUME NEW l, l.addrs # <<>>, l.todo # <<>>, Elems(l.todo) \subseteq Elems(l.addrs),
         Elems(l.guards) \subseteq Elems(l.addrs), l.op = "read" => l.ver = NoVersions,
         l.op \in Mutations \cup {"read"},
         l.op \in {"read", "write", "mutate", "continue"} => Elems(l.addrs) \subseteq {l.addrs[1]}, l.kept # None => l.op = "continue",
         NEW label \in Dropping
  PROVE  Shape(label, l)
<1>1. label \in Late /\ label \notin Sweeping \cup Clearing \cup Arming \cup Reading \cup WritingThrough
  BY DEF Late, Clearing, Sweeping, Dropping, Arming, WritingThrough, Reading
<1>2. label \notin {"idle", "disarm", "snap", "seed", "inner", "restore", "pub_remove", "rl_swap", "pub_swap"}
  BY DEF Dropping
<1> QED BY <1>1, <1>2 DEF Shape

LEMMA AtDrop ==
  ASSUME Inv, NEW c \in Clients, pc[c] \in Dropping
  PROVE  /\ pc[c] # "idle" /\ loc[c] \in Locals /\ loc[c].addrs # <<>> /\ loc[c].todo # <<>>
         /\ loc[c].todo \in Seq(Addrs) /\ Head(loc[c].todo) \in Addrs /\ Tail(loc[c].todo) \in Seq(Addrs)
         /\ Elems(loc[c].todo) = {Head(loc[c].todo)} \cup Elems(Tail(loc[c].todo))
         /\ Elems(loc[c].todo) \subseteq Elems(loc[c].addrs) /\ Elems(loc[c].guards) \subseteq Elems(loc[c].addrs)
         /\ (loc[c].op = "read" => loc[c].ver = NoVersions) /\ loc[c].op \in Mutations \cup {"read"}
         /\ (loc[c].op \in {"read", "write", "mutate", "continue"} => Elems(loc[c].addrs) \subseteq {loc[c].addrs[1]})
         /\ (loc[c].kept # None => loc[c].op = "continue")
         /\ {loc[c].snap, loc[c].seen, loc[c].kept} \subseteq KnownRows
<1>1. pc[c] # "idle"
  BY DEF Dropping
<1>2. Shape(pc[c], loc[c]) /\ loc[c] \in Locals /\ loc[c].addrs # <<>> /\ loc[c].todo \in Seq(Addrs)
      /\ {loc[c].snap, loc[c].seen, loc[c].kept} \subseteq KnownRows
  BY <1>1, Here
<1>3. loc[c].todo # <<>>
  BY <1>2 DEF Shape
<1>4. Head(loc[c].todo) \in Addrs /\ Tail(loc[c].todo) \in Seq(Addrs)
      /\ Elems(loc[c].todo) = {Head(loc[c].todo)} \cup Elems(Tail(loc[c].todo))
  BY <1>2, <1>3, ElemsOf
<1> QED BY <1>1, <1>2, <1>3, <1>4 DEF Shape

LEMMA DropRowStep ==
  ASSUME Inv, NEW c \in Clients, DropRow(c), UNCHANGED <<world, tasks, bounds>>
  PROVE  Inv'
<1> DEFINE a == Head(loc[c].todo)
           x == loc[c].lost \ {a}
           m == [loc[c] EXCEPT !.lost = x]
<1>1. pc[c] = "drop_row" /\ UNCHANGED <<content, sc>> /\ SetRow(a, None) /\ Continue(c, "drop_body", m)
  BY DEF DropRow, At, bounds
<1>2. pc[c] \in Dropping
  BY <1>1 DEF Dropping
<1>3. loc[c] \in Locals
  BY <1>2, AtDrop
<1>4. /\ m \in Locals /\ m.op = loc[c].op /\ m.addrs = loc[c].addrs /\ m.ver = loc[c].ver /\ m.start = loc[c].start
      /\ m.kept = loc[c].kept /\ m.todo = loc[c].todo /\ m.guards = loc[c].guards /\ m.snap = loc[c].snap
      /\ m.seen = loc[c].seen /\ m.lost = x
  <2>1. x \subseteq Addrs
    BY <1>3 DEF Locals
  <2> HIDE DEF x
  <2> QED BY <1>3, <2>1 DEF Locals
<1> HIDE DEF m
<1>5. Shape("drop_body", m)
  BY <1>2, <1>4, AtDrop, DropShape DEF Dropping
<1>6. Settles(c, "drop_body", m, a)
  <2>1. Owed("drop_body", m) = Elems(Tail(loc[c].todo)) /\ Owed(pc[c], loc[c]) = Elems(loc[c].todo)
    BY <1>1, <1>4 DEF Owed
  <2>2. Elems(loc[c].todo) = {a} \cup Elems(Tail(loc[c].todo))
    BY <1>2, AtDrop
  <2> HIDE DEF a
  <2> QED BY <1>4, <2>1, <2>2 DEF Settles
<1>7. a \in Addrs /\ pc[c] # "idle" /\ {loc[c].snap, loc[c].seen, loc[c].kept} \subseteq KnownRows
  BY <1>2, AtDrop
<1>8. Pledged("drop_body", m) /\ Keeps("drop_body", m) /\ Answers("drop_body", m) /\ "drop_body" \in Labels
  BY DEF Pledged, Keeps, Answers, Publishing, WritingThrough, Labels
<1>9. Moves(c, "drop_body", m) /\ UNCHANGED floor /\ MiscOK'
  BY <1>1, MiscKept DEF Continue, Goto, Moves
<1>10. {m.snap, m.seen, m.kept} \subseteq KnownRows \cup {None, None}
  BY <1>4, <1>7
<1> HIDE DEF a
<1> QED BY <1>1, <1>4, <1>5, <1>6, <1>7, <1>8, <1>9, <1>10, Names, Writes

LEMMA DropBodyStep ==
  ASSUME Inv, NEW c \in Clients, DropBody(c), UNCHANGED <<world, tasks, bounds>>
  PROVE  Inv'
<1> DEFINE a == Head(loc[c].todo)
           x == Tail(loc[c].todo)
           m == [loc[c] EXCEPT !.todo = x]
<1>1. /\ pc[c] = "drop_body" /\ UNCHANGED <<row, sc>> /\ DropBodies(a, {loc[c].old[a]})
      /\ (x = <<>> /\ Return(c)) \/ (x # <<>> /\ Continue(c, "drop_row", m))
  BY DEF DropBody, At, bounds
<1>2. pc[c] \in Dropping
  BY <1>1 DEF Dropping
<1>3. loc[c] \in Locals /\ a \in Addrs /\ x \in Seq(Addrs) /\ pc[c] # "idle"
  BY <1>2, AtDrop
<1>4. BodyOK'
  BY <1>1, <1>3, BodiesOK
<1>5. Owed(pc[c], loc[c]) = Elems(x)
  BY <1>1 DEF Owed
<1>6. CASE x = <<>> /\ Return(c)
  <2>1. Owed(pc[c], loc[c]) = {}
    BY <1>5, <1>6, ElemsOf
  <2> QED BY <1>1, <1>3, <1>4, <1>6, <2>1, TasksKept, Returns
<1>7. CASE x # <<>> /\ Continue(c, "drop_row", m)
  <2>1. /\ m \in Locals /\ m.op = loc[c].op /\ m.addrs = loc[c].addrs /\ m.ver = loc[c].ver /\ m.start = loc[c].start
        /\ m.kept = loc[c].kept /\ m.todo = x /\ m.guards = loc[c].guards /\ m.snap = loc[c].snap
        /\ m.seen = loc[c].seen /\ m.lost = loc[c].lost
    <3> HIDE DEF x
    <3> QED BY <1>3 DEF Locals
  <2> HIDE DEF m
  <2>2. Elems(x) \subseteq Elems(loc[c].addrs)
    BY <1>2, AtDrop
  <2>3. Shape("drop_row", m)
    <3> HIDE DEF x
    <3> QED BY <1>2, <1>7, <2>1, <2>2, AtDrop, DropShape DEF Dropping
  <2>4. Calm(c, "drop_row", m)
    <3>1. Owed("drop_row", m) = Elems(x)
      BY <2>1 DEF Owed
    <3> QED BY <1>5, <2>1, <3>1 DEF Calm
  <2>5. Pledged("drop_row", m) /\ Keeps("drop_row", m) /\ Answers("drop_row", m) /\ "drop_row" \in Labels
    BY DEF Pledged, Keeps, Answers, Publishing, WritingThrough, Labels
  <2>6. Moves(c, "drop_row", m) /\ UNCHANGED floor /\ UNCHANGED gens
    BY <1>7 DEF Continue, Goto, Moves
  <2>7. MiscOK'
    BY <1>4, <2>6 DEF MiscOK, BodyOK, Inv, TypeOK
  <2>8. {m.snap, m.seen, m.kept} \subseteq KnownRows \cup {None}
    BY <1>2, <2>1, AtDrop
  <2> QED BY <1>1, <1>3, <2>1, <2>3, <2>4, <2>5, <2>6, <2>7, <2>8, TasksKept, Quiet
<1> QED BY <1>1, <1>6, <1>7
-----------------------------------------------------------------------------
(* Mutations, up to the backend.                                            *)

(* A step of a call that has changed nothing yet.                           *)
LEMMA Early ==
  ASSUME Inv, NEW c \in Clients, pc[c] # "idle", NEW label \in Labels, NEW l \in Locals, Continue(c, label, l),
         Shape(label, l), label # "idle", l.op = loc[c].op, l.ver = NoVersions, l.start = loc[c].start,
         NEW a \in Addrs, UNCHANGED row \/ SetRow(a, None), UNCHANGED <<world, tasks, sc>>, BodyOK',
         {l.snap, l.seen, l.kept} \subseteq KnownRows \cup {None}, label \notin Publishing \cup {"lookup", "hit"},
         Guarded => Keeps(label, l)
  PROVE  Inv'
<1>1. Moves(c, label, l) /\ UNCHANGED floor /\ MiscOK'
  BY DEF Continue, Goto, Moves, MiscOK, BodyOK, Inv, TypeOK
<1>2. Pledged(label, l) /\ Answers(label, l) /\ Calm(c, label, l) /\ Settles(c, label, l, a)
  BY DEF Pledged, Answers, Calm, Settles
<1>3. CASE UNCHANGED row
  BY <1>1, <1>2, <1>3, TasksKept, Quiet
<1>4. CASE SetRow(a, None)
  <2>1. {l.snap, l.seen, l.kept} \subseteq KnownRows \cup {None, None}
    OBVIOUS
  <2> QED BY <1>1, <1>2, <1>4, <2>1, Names, Writes
<1> QED BY <1>3, <1>4

LEMMA AtArm ==
  ASSUME Inv, NEW c \in Clients, pc[c] \in Arming
  PROVE  /\ pc[c] # "idle" /\ loc[c] \in Locals /\ loc[c].addrs # <<>> /\ loc[c].todo # <<>>
         /\ loc[c].todo \in Seq(Addrs) /\ Head(loc[c].todo) \in Addrs /\ Tail(loc[c].todo) \in Seq(Addrs)
         /\ Elems(loc[c].todo) = {Head(loc[c].todo)} \cup Elems(Tail(loc[c].todo))
         /\ Elems(loc[c].todo) \subseteq Elems(loc[c].addrs) /\ Elems(loc[c].guards) \subseteq Elems(loc[c].addrs)
         /\ Elems(loc[c].addrs) \subseteq Elems(loc[c].guards) \cup Elems(Tail(loc[c].todo))
         /\ loc[c].ver = NoVersions /\ loc[c].op \in Mutations /\ loc[c].guards \in Seq(Addrs)
         /\ (loc[c].op \in {"read", "write", "mutate", "continue"} => Elems(loc[c].addrs) \subseteq {loc[c].addrs[1]})
         /\ (loc[c].kept # None => loc[c].op = "continue")
         /\ {loc[c].snap, loc[c].seen, loc[c].kept} \subseteq KnownRows
<1>1. pc[c] # "idle" /\ pc[c] \notin Late
  BY DEF Arming, Late, Clearing, Sweeping, Dropping, WritingThrough
<1>2. Shape(pc[c], loc[c]) /\ loc[c] \in Locals /\ loc[c].addrs # <<>> /\ loc[c].todo \in Seq(Addrs)
      /\ {loc[c].snap, loc[c].seen, loc[c].kept} \subseteq KnownRows /\ loc[c].guards \in Seq(Addrs)
  BY <1>1, Here
<1>3. loc[c].todo # <<>>
  BY <1>2 DEF Shape
<1>4. Head(loc[c].todo) \in Addrs /\ Tail(loc[c].todo) \in Seq(Addrs)
      /\ Elems(loc[c].todo) = {Head(loc[c].todo)} \cup Elems(Tail(loc[c].todo))
  BY <1>2, <1>3, ElemsOf
<1> QED BY <1>1, <1>2, <1>3, <1>4 DEF Shape

LEMMA ArmReg ==
  ASSUME Inv, NEW c \in Clients, pc[c] \in Arming
  PROVE  loc[c].reg = TRUE => loc[c].op = "write"
<1>1. pc[c] # "idle"
  BY DEF Arming
<1>2. Shape(pc[c], loc[c])
  BY <1>1, Here
<1> QED BY <1>2 DEF Shape

LEMMA ArmShape ==
  ASSUME NEW l, l.addrs # <<>>, Elems(l.todo) \subseteq Elems(l.addrs), Elems(l.guards) \subseteq Elems(l.addrs),
         l.ver = NoVersions, l.op \in Mutations, NEW label \in Arming \cup {"snap", "inner"},
         label \in Arming => l.todo # <<>> /\ Elems(l.addrs) \subseteq Elems(l.guards) \cup Elems(Tail(l.todo)),
         label = "snap" => l.op = "write", l.reg = TRUE => l.op = "write",
         label \notin Arming => Elems(l.addrs) \subseteq Elems(l.guards),
         l.op \in {"read", "write", "mutate", "continue"} => Elems(l.addrs) \subseteq {l.addrs[1]}, l.kept # None => l.op = "continue"
  PROVE  Shape(label, l) /\ label \in Labels /\ label # "idle" /\ label \notin Publishing \cup {"lookup", "hit"}
<1>1. label \notin Sweeping \cup Clearing \cup Dropping \cup Reading \cup WritingThrough
  BY DEF Clearing, Sweeping, Dropping, Arming, WritingThrough, Reading
<1>2. label \notin {"idle", "disarm", "seed", "restore", "pub_remove", "rl_swap", "pub_swap"} /\ l.op # "read"
  BY DEF Arming, Mutations
<1>3. label \in Labels /\ label \notin Publishing \cup {"lookup", "hit"}
  BY DEF Arming, Labels, Awaits, Publishing, WritingThrough
<1>4. label = "inner" => label \notin Arming
  BY DEF Arming
<1>5. label = "snap" => label \notin Arming
  BY DEF Arming
<1> QED BY <1>1, <1>2, <1>3, <1>4, <1>5 DEF Shape

LEMMA ArmReadStep ==
  ASSUME Inv, NEW c \in Clients, ArmRead(c), UNCHANGED <<world, tasks, bounds>>
  PROVE  Inv'
<1> DEFINE a == Head(loc[c].todo)
           x == Named(row[a])
           o == [loc[c].old EXCEPT ![a] = x]
           k == IF loc[c].op = "continue" THEN row[a] ELSE None
           m == [loc[c] EXCEPT !.old = o, !.kept = k]
<1>1. pc[c] = "arm_read" /\ UNCHANGED <<row, content, sc>> /\ Continue(c, "arm_clear", m)
  BY DEF ArmRead, At, bounds
<1>2. pc[c] \in Arming
  BY <1>1 DEF Arming
<1>3. loc[c] \in Locals /\ a \in Addrs
  BY <1>2, AtArm
<1>4. row[a] \in Rows \cup {None} /\ row[a] \in KnownRows
  BY <1>3 DEF Inv, TypeOK, KnownRows
<1>5. o \in VersionMaps
  <2>1. loc[c].old \in VersionMaps /\ x \in 0 .. MaxVer
    BY <1>3, <1>4, Names DEF Locals
  <2> HIDE DEF x
  <2> QED BY <2>1 DEF VersionMaps
<1>6. k \in Rows \cup {None} /\ k \in KnownRows \cup {None} /\ (k # None => loc[c].op = "continue" /\ k = row[a])
  BY <1>4
<1>7. /\ m \in Locals /\ m.op = loc[c].op /\ m.addrs = loc[c].addrs /\ m.ver = loc[c].ver /\ m.start = loc[c].start
      /\ m.kept = k /\ m.todo = loc[c].todo /\ m.guards = loc[c].guards /\ m.snap = loc[c].snap
      /\ m.seen = loc[c].seen
  <2> HIDE DEF o, k
  <2> QED BY <1>3, <1>5, <1>6 DEF Locals
<1>13. m.reg = TRUE => m.op = "write"
  <2>1. m.reg = loc[c].reg
    BY <1>3 DEF Locals
  <2> QED BY <1>2, <1>7, <2>1, ArmReg
<1> HIDE DEF m, k, o
<1>8. /\ Shape("arm_clear", m) /\ "arm_clear" \in Labels /\ "arm_clear" # "idle"
      /\ "arm_clear" \notin Publishing \cup {"lookup", "hit"}
  BY <1>2, <1>6, <1>7, <1>13, AtArm, ArmShape DEF Arming
<1>9. ASSUME Guarded, Named(k) # 0 PROVE Named(k) >= floor[m.addrs[1]]
  <2>1. k # None
    BY <1>9, Names
  <2>2. a \in Elems(loc[c].addrs) /\ Elems(loc[c].addrs) \subseteq {loc[c].addrs[1]}
    BY <1>2, <1>6, <2>1, AtArm
  <2>3. AtLeast(a, Named(k))
    BY <1>3, <1>6, <1>9, <2>1 DEF Inv, SafeInv, RowInv
  <2> QED BY <1>7, <2>2, <2>3 DEF AtLeast
<1>10. Guarded => Keeps("arm_clear", m)
  BY <1>7, <1>9 DEF Keeps
<1>11. {m.snap, m.seen, m.kept} \subseteq KnownRows \cup {None}
  BY <1>2, <1>6, <1>7, AtArm
<1>12. BodyOK' /\ pc[c] # "idle" /\ m.ver = NoVersions
  BY <1>1, <1>2, <1>7, BodyKept, AtArm
<1> HIDE DEF a
<1> QED BY <1>1, <1>3, <1>7, <1>8, <1>10, <1>11, <1>12, Early

LEMMA ArmedOn ==
  ASSUME Inv, NEW c \in Clients, pc[c] = "arm_clear", Armed(c), UNCHANGED <<world, tasks, sc>>, BodyOK',
         UNCHANGED row \/ SetRow(Head(loc[c].todo), None)
  PROVE  Inv'
<1> DEFINE x == Tail(loc[c].todo)
           m == [loc[c] EXCEPT !.todo = x]
           g == <<Head(x)>> \o loc[c].guards
           n == [m EXCEPT !.guards = g]
<1>2. pc[c] \in Arming
  BY DEF Arming
<1>3. loc[c] \in Locals /\ Head(loc[c].todo) \in Addrs /\ x \in Seq(Addrs) /\ pc[c] # "idle" /\ loc[c].guards \in Seq(Addrs)
  BY <1>2, AtArm
<1>7. /\ m \in Locals /\ m.op = loc[c].op /\ m.addrs = loc[c].addrs /\ m.ver = loc[c].ver /\ m.start = loc[c].start
      /\ m.kept = loc[c].kept /\ m.todo = x /\ m.guards = loc[c].guards /\ m.snap = loc[c].snap
      /\ m.seen = loc[c].seen
  <2> HIDE DEF x
  <2> QED BY <1>3 DEF Locals
<1>8. m.reg = TRUE => m.op = "write"
  <2>1. m.reg = loc[c].reg
    BY <1>3 DEF Locals
  <2> QED BY <1>2, <1>7, <2>1, ArmReg
<1>1. \/ x # <<>> /\ Continue(c, "arm_read", n)
      \/ x = <<>> /\ loc[c].op = "write" /\ Continue(c, "snap", m)
      \/ x = <<>> /\ Continue(c, "inner", m)
  <2>1. \/ m.todo # <<>> /\ Continue(c, "arm_read", [m EXCEPT !.guards = <<Head(m.todo)>> \o m.guards])
        \/ m.todo = <<>> /\ m.op = "write" /\ Continue(c, "snap", m)
        \/ m.todo = <<>> /\ Continue(c, "inner", m)
    BY DEF Armed
  <2> HIDE DEF m
  <2> QED BY <1>7, <2>1
<1>4. Guarded => (Named(loc[c].kept) # 0 => Named(loc[c].kept) >= floor[loc[c].addrs[1]])
  BY DEF Inv, SafeInv, KeptInv, Addr
<1>5. ASSUME NEW label \in {"snap", "inner"}, x = <<>>, label = "snap" => loc[c].op = "write", Continue(c, label, m)
      PROVE  Inv'
  <2>2. label \notin Arming /\ Elems(x) = {}
    BY <1>5, ElemsOf DEF Arming
  <2> HIDE DEF m
  <2>3. Elems(loc[c].addrs) \subseteq Elems(loc[c].guards)
    BY <1>2, <2>2, AtArm
  <2>4. Shape(label, m) /\ label \in Labels /\ label # "idle" /\ label \notin Publishing \cup {"lookup", "hit"}
    <3> HIDE DEF x
    <3> QED BY <1>2, <1>5, <1>7, <2>2, <2>3, <1>8, AtArm, ArmShape
  <2>5. {m.snap, m.seen, m.kept} \subseteq KnownRows \cup {None} /\ m.ver = NoVersions
    BY <1>2, <1>7, AtArm
  <2>6. Guarded => Keeps(label, m)
    BY <1>4, <1>7 DEF Keeps
  <2> QED BY <1>3, <1>5, <1>7, <2>4, <2>5, <2>6, Early
<1>6. CASE x # <<>> /\ Continue(c, "arm_read", n)
  <2>1. /\ g \in Seq(Addrs) /\ Elems(g) = {Head(x)} \cup Elems(loc[c].guards)
        /\ Elems(x) = {Head(x)} \cup Elems(Tail(x))
    <3>1. Head(x) \in Addrs /\ Elems(x) = {Head(x)} \cup Elems(Tail(x))
      BY <1>3, <1>6, ElemsOf
    <3> QED BY <1>3, <3>1, ElemsOf
  <2>2. /\ n \in Locals /\ n.op = loc[c].op /\ n.addrs = loc[c].addrs /\ n.ver = loc[c].ver /\ n.start = loc[c].start
        /\ n.kept = loc[c].kept /\ n.todo = x /\ n.guards = g /\ n.snap = loc[c].snap
        /\ n.seen = loc[c].seen
    <3> HIDE DEF x, g, m
    <3> QED BY <1>7, <2>1 DEF Locals
  <2>8. n.reg = TRUE => n.op = "write"
    <3>1. n.reg = m.reg /\ n.op = m.op
      BY <1>7 DEF Locals
    <3> QED BY <1>8, <3>1
  <2> HIDE DEF n
  <2>3. /\ Elems(x) \subseteq Elems(loc[c].addrs) /\ Elems(loc[c].guards) \subseteq Elems(loc[c].addrs)
        /\ Elems(loc[c].addrs) \subseteq Elems(loc[c].guards) \cup Elems(x)
    BY <1>2, AtArm
  <2> HIDE DEF x, g
  <2>4. Elems(g) \subseteq Elems(loc[c].addrs) /\ Elems(loc[c].addrs) \subseteq Elems(g) \cup Elems(Tail(x))
    BY <2>1, <2>3
  <2>5. /\ Shape("arm_read", n) /\ "arm_read" \in Labels /\ "arm_read" # "idle"
        /\ "arm_read" \notin Publishing \cup {"lookup", "hit"}
    <3>1. "arm_read" \in Arming
      BY DEF Arming
    <3>2. /\ n.addrs # <<>> /\ n.ver = NoVersions /\ n.op \in Mutations /\ (n.kept # None => n.op = "continue")
          /\ (n.op \in {"read", "write", "mutate", "continue"} => Elems(n.addrs) \subseteq {n.addrs[1]})
      BY <1>2, <2>2, AtArm
    <3>3. /\ n.todo # <<>> /\ Elems(n.todo) \subseteq Elems(n.addrs) /\ Elems(n.guards) \subseteq Elems(n.addrs)
          /\ Elems(n.addrs) \subseteq Elems(n.guards) \cup Elems(Tail(n.todo))
      BY <1>6, <2>2, <2>3, <2>4
    <3> QED BY <2>8, <3>1, <3>2, <3>3, ArmShape
  <2>6. {n.snap, n.seen, n.kept} \subseteq KnownRows \cup {None} /\ n.ver = NoVersions
    BY <1>2, <2>2, AtArm
  <2>7. Guarded => Keeps("arm_read", n)
    BY <1>4, <2>2 DEF Keeps
  <2> QED BY <1>3, <1>6, <2>2, <2>5, <2>6, <2>7, Early
<1> QED BY <1>1, <1>5, <1>6

LEMMA ArmClearStep ==
  ASSUME Inv, NEW c \in Clients, ArmClear(c), UNCHANGED <<world, tasks, bounds>>
  PROVE  Inv'
<1>1. pc[c] = "arm_clear" /\ UNCHANGED <<content, sc>> /\ SetRow(Head(loc[c].todo), None) /\ Armed(c)
  BY DEF ArmClear, At, bounds
<1> QED BY <1>1, BodyKept, ArmedOn
-----------------------------------------------------------------------------
(* Write-through.                                                           *)

LEMMA AtWrite ==
  ASSUME Inv, NEW c \in Clients, pc[c] \in WritingThrough \cup {"pub_remove"}
  PROVE  /\ pc[c] # "idle" /\ loc[c] \in Locals /\ loc[c].addrs # <<>> /\ loc[c].todo = loc[c].addrs
         /\ loc[c].addrs \in Seq(Addrs) /\ Addr(c) = loc[c].addrs[1] /\ Addr(c) \in Addrs
         /\ Elems(loc[c].addrs) = {Addr(c)} /\ Elems(loc[c].guards) \subseteq Elems(loc[c].addrs)
         /\ Elems(loc[c].addrs) \subseteq Elems(loc[c].guards) /\ loc[c].op = "write" /\ loc[c].kept = None
         /\ (pc[c] \in WritingThrough => loc[c].etag >= loc[c].ver[Addr(c)])
         /\ {loc[c].snap, loc[c].seen, loc[c].kept} \subseteq KnownRows /\ loc[c].etag \in 0 .. MaxVer
         /\ Owed(pc[c], loc[c]) = {Addr(c)} /\ Host[c] \in Hosts /\ Shape(pc[c], loc[c])
<1>1. pc[c] # "idle"
  BY DEF WritingThrough
<1>2. Shape(pc[c], loc[c]) /\ loc[c] \in Locals /\ loc[c].addrs # <<>> /\ loc[c].addrs \in Seq(Addrs)
      /\ {loc[c].snap, loc[c].seen, loc[c].kept} \subseteq KnownRows /\ Addr(c) = loc[c].addrs[1] /\ Addr(c) \in Addrs
      /\ Addr(c) \in Elems(loc[c].addrs) /\ Host[c] \in Hosts
  BY <1>1, Here
<1>3. loc[c].op = "write" /\ "write" \in Mutations
  BY <1>2 DEF Shape, Mutations
<1>4. Elems(loc[c].addrs) = {Addr(c)}
  BY <1>2, <1>3 DEF Shape
<1>5. Owed(pc[c], loc[c]) = Elems(loc[c].addrs)
  BY DEF Owed, WritingThrough
<1>6. loc[c].etag \in 0 .. MaxVer
  BY <1>2 DEF Locals
<1> QED BY <1>1, <1>2, <1>3, <1>4, <1>5, <1>6 DEF Shape

LEMMA WritesOn ==
  ASSUME Inv, NEW c \in Clients, pc[c] \in WritingThrough, NEW label \in {"wt_final", "pub_swap", "pub_remove"},
         label = "pub_swap" => loc[c].snap # None, Goto(c, label, loc[c]), UNCHANGED <<world, row, tasks, sc>>, BodyOK',
         gens' \in [Hosts -> [Addrs -> [refs : Nat, gen : Nat]]]
  PROVE  Inv'
<1>1. label \in WritingThrough \cup {"pub_remove"} /\ label \in Labels /\ label # "idle" /\ label \in Late
  BY DEF WritingThrough, Labels, Awaits, Late
<1>2. Shape(label, loc[c])
  <2>1. /\ label \notin Clearing \cup Sweeping \cup Dropping \cup Arming \cup Reading
        /\ label \notin {"disarm", "snap", "seed", "inner", "restore", "rl_swap"}
    BY DEF Clearing, Sweeping, Dropping, Arming, Reading
  <2>2. pc[c] \in Late
    BY DEF Late
  <2> QED BY <1>1, <2>1, <2>2, AtWrite DEF Shape
<1>3. Owed(label, loc[c]) = Elems(loc[c].addrs)
  BY DEF Owed, WritingThrough
<1>4. Calm(c, label, loc[c])
  BY <1>3, AtWrite DEF Calm
<1>5. Keeps(label, loc[c]) /\ Answers(label, loc[c])
  BY <1>1 DEF Keeps, Answers, WritingThrough
<1>6. Guarded => Pledged(label, loc[c])
  <2>1. pc[c] \in Publishing
    BY DEF Publishing
  <2> QED BY <2>1 DEF Pledged, Inv, SafeInv, PubInv, Addr
<1>7. Moves(c, label, loc[c]) /\ UNCHANGED floor /\ MiscOK'
  BY DEF Goto, Moves, MiscOK, BodyOK
<1> QED BY <1>1, <1>2, <1>4, <1>5, <1>6, <1>7, AtWrite, TasksKept, Quiet

LEMMA WriteClears ==
  ASSUME Inv, NEW c \in Clients, pc[c] \in WritingThrough, NEW e \in 0 .. MaxVer,
         EnterClear(c, [loc[c] EXCEPT !.etag = e]), UNCHANGED <<world, row, tasks, sc>>, BodyOK'
  PROVE  Inv'
<1> DEFINE m == [loc[c] EXCEPT !.etag = e]
<1>1. loc[c] \in Locals
  BY AtWrite
<1>2. m \in Locals /\ Same(c, m) /\ m.todo = loc[c].todo /\ m.guards = loc[c].guards /\ m.snap = loc[c].snap
      /\ m.seen = loc[c].seen
  BY <1>1 DEF Locals, Same
<1>3. EnterClear(c, m)
  OBVIOUS
<1> HIDE DEF m
<1>4. /\ m.todo # <<>> /\ Elems(m.todo) \subseteq Elems(m.addrs) /\ {m.snap, m.seen} \subseteq KnownRows \cup {None}
      /\ Elems(m.addrs) \subseteq Elems(m.guards) /\ Owed(pc[c], loc[c]) \subseteq Elems(m.todo) \cup Swept(m)
  <2>1. /\ loc[c].addrs # <<>> /\ loc[c].todo = loc[c].addrs /\ {loc[c].snap, loc[c].seen} \subseteq KnownRows
        /\ Elems(loc[c].addrs) \subseteq Elems(loc[c].guards) /\ Owed(pc[c], loc[c]) = Elems(loc[c].addrs)
    BY AtWrite
  <2>2. m.addrs = loc[c].addrs
    BY <1>2 DEF Same
  <2> QED BY <1>2, <2>1, <2>2
<1>5. m.op # "none" /\ pc[c] # "idle"
  BY <1>2, AtWrite DEF Same
<1> QED BY <1>2, <1>3, <1>4, <1>5, EntersClear

LEMMA WtCommitStep ==
  ASSUME Inv, NEW c \in Clients, WtCommit(c), UNCHANGED <<world, tasks, bounds>>
  PROVE  Inv'
<1>1. /\ pc[c] = "wt_commit" /\ UNCHANGED <<row, sc>>
      /\ \/ content' = [content EXCEPT ![Addr(c)] = @ \cup {loc[c].etag}] /\ Continue(c, "wt_final", loc[c])
         \/ UNCHANGED content /\ EnterClear(c, [loc[c] EXCEPT !.etag = 0])
  BY DEF WtCommit, At, bounds
<1>2. pc[c] \in WritingThrough
  BY <1>1 DEF WritingThrough
<1>3. Addr(c) \in Addrs /\ {loc[c].etag} \subseteq 0 .. MaxVer /\ 0 \in 0 .. MaxVer
  BY <1>2, AtWrite, BoundsAssumption
<1>4. BodyOK'
  BY <1>1, <1>3, BodiesOK
<1>5. CASE Continue(c, "wt_final", loc[c])
  <2>1. Goto(c, "wt_final", loc[c]) /\ UNCHANGED gens
    BY <1>5 DEF Continue
  <2>2. gens' \in [Hosts -> [Addrs -> [refs : Nat, gen : Nat]]]
    BY <2>1 DEF Inv, TypeOK
  <2> QED BY <1>1, <1>2, <1>4, <2>1, <2>2, WritesOn
<1>6. CASE EnterClear(c, [loc[c] EXCEPT !.etag = 0])
  BY <1>1, <1>2, <1>3, <1>4, <1>6, WriteClears
<1> QED BY <1>1, <1>5, <1>6

LEMMA WtFinalStep ==
  ASSUME Inv, NEW c \in Clients, WtFinal(c), UNCHANGED <<world, tasks, bounds>>
  PROVE  Inv'
<1> DEFINE label == IF loc[c].snap = None THEN "pub_remove" ELSE "pub_swap"
<1>1. /\ pc[c] = "wt_final" /\ UNCHANGED <<row, sc>>
      /\ \/ Bump(Host[c], {Addr(c)}) /\ Goto(c, label, loc[c]) /\ UNCHANGED content
         \/ DropBodies(Addr(c), {loc[c].etag}) /\ EnterClear(c, loc[c])
  BY DEF WtFinal, At, bounds
<1>2. pc[c] \in WritingThrough
  BY <1>1 DEF WritingThrough
<1>3. Addr(c) \in Addrs /\ Host[c] \in Hosts /\ loc[c] \in Locals
  BY <1>2, AtWrite
<1>4. BodyOK'
  BY <1>1, <1>3, BodiesOK
<1>5. CASE Bump(Host[c], {Addr(c)}) /\ Goto(c, label, loc[c])
  <2>1. label \in {"wt_final", "pub_swap", "pub_remove"} /\ (label = "pub_swap" => loc[c].snap # None)
    OBVIOUS
  <2>2. gens' \in [Hosts -> [Addrs -> [refs : Nat, gen : Nat]]]
    BY <1>3, <1>5, GensOK DEF Inv
  <2> HIDE DEF label
  <2> QED BY <1>1, <1>2, <1>4, <1>5, <2>1, <2>2, WritesOn
<1>6. CASE EnterClear(c, loc[c])
  <2>1. loc[c] = [loc[c] EXCEPT !.etag = loc[c].etag] /\ loc[c].etag \in 0 .. MaxVer
    BY <1>3 DEF Locals
  <2>2. PICK e \in 0 .. MaxVer : e = loc[c].etag
    BY <2>1
  <2>3. EnterClear(c, [loc[c] EXCEPT !.etag = e])
    BY <1>6, <2>1, <2>2
  <2> QED BY <1>1, <1>2, <1>4, <2>3, WriteClears
<1> QED BY <1>1, <1>5, <1>6

LEMMA DisarmShape ==
  ASSUME NEW l, l.addrs # <<>>, l.todo # <<>>, Elems(l.todo) \subseteq Elems(l.addrs),
         Elems(l.guards) \subseteq Elems(l.addrs), l.op \in Mutations,
         l.op \in {"read", "write", "mutate", "continue"} => Elems(l.addrs) \subseteq {l.addrs[1]}, l.kept # None => l.op = "continue"
  PROVE  Shape("disarm", l) /\ "disarm" \in Labels /\ Owed("disarm", l) = {}
         /\ Pledged("disarm", l) /\ Keeps("disarm", l) /\ Answers("disarm", l)
<1>1. "disarm" \in Late /\ "disarm" \notin Sweeping \cup Clearing \cup Dropping \cup Arming \cup Reading \cup WritingThrough
  BY DEF Late, Clearing, Sweeping, Dropping, Arming, WritingThrough, Reading
<1>2. l.op # "read"
  BY DEF Mutations
<1>3. Shape("disarm", l)
  BY <1>1, <1>2 DEF Shape
<1> QED BY <1>1, <1>3 DEF Labels, Owed, WritingThrough, Pledged, Publishing, Keeps, Answers

LEMMA WriteDisarms ==
  ASSUME Inv, NEW c \in Clients, pc[c] \in WritingThrough \cup {"pub_remove"}, Continue(c, "disarm", loc[c]),
         NEW r \in Rows \cup {None}, r = None \/ Fresh(r), SetRow(Addr(c), r), UNCHANGED <<world, tasks, sc>>, BodyOK',
         Guarded => (Named(r) # 0 => AtLeast(Addr(c), Named(r)) /\ Named(r) >= loc[c].ver[Addr(c)])
  PROVE  Inv'
<1>1. /\ loc[c] \in Locals /\ pc[c] # "idle" /\ loc[c].addrs # <<>> /\ loc[c].todo = loc[c].addrs /\ Addr(c) \in Addrs
      /\ Elems(loc[c].addrs) = {Addr(c)} /\ Elems(loc[c].guards) \subseteq Elems(loc[c].addrs)
      /\ loc[c].op = "write" /\ loc[c].kept = None /\ loc[c].addrs[1] = Addr(c) /\ Owed(pc[c], loc[c]) = {Addr(c)}
  BY AtWrite
<1>2. loc[c].op \in Mutations
  BY <1>1 DEF Mutations
<1>3. Shape("disarm", loc[c]) /\ "disarm" \in Labels /\ Owed("disarm", loc[c]) = {}
      /\ Pledged("disarm", loc[c]) /\ Keeps("disarm", loc[c]) /\ Answers("disarm", loc[c])
  BY <1>1, <1>2, DisarmShape
<1>4. Settles(c, "disarm", loc[c], Addr(c))
  BY <1>1 DEF Settles
<1>5. Moves(c, "disarm", loc[c]) /\ UNCHANGED floor /\ MiscOK'
  BY DEF Continue, Goto, Moves, MiscOK, BodyOK, Inv, TypeOK
<1>6. {loc[c].snap, loc[c].seen, loc[c].kept} \subseteq KnownRows \cup {None, r}
  BY AtWrite
<1> QED BY <1>1, <1>3, <1>4, <1>5, <1>6, Writes

LEMMA PubSwapStep ==
  ASSUME Inv, NEW c \in Clients, PubSwap(c), UNCHANGED <<world, tasks, bounds>>
  PROVE  Inv'
<1> DEFINE new == encode_avail(loc[c].etag)
<1>1. pc[c] = "pub_swap" /\ NonceLeft /\ UNCHANGED <<content, sc>>
  BY DEF PubSwap, At, bounds
<1>2. \/ row[Addr(c)] = loc[c].snap /\ SetRow(Addr(c), new) /\ Continue(c, "disarm", loc[c])
      \/ UNCHANGED row /\ Continue(c, "pub_remove", loc[c])
  BY Zenon DEF PubSwap
<1>3. pc[c] \in WritingThrough /\ pc[c] \in Publishing
  BY <1>1 DEF WritingThrough, Publishing
<1>4. /\ loc[c] \in Locals /\ loc[c].etag \in 0 .. MaxVer /\ Addr(c) \in Addrs /\ Shape(pc[c], loc[c])
      /\ loc[c].etag >= loc[c].ver[Addr(c)]
  BY <1>3, AtWrite
<1>5. Fresh(new) /\ Named(new) = loc[c].etag /\ new \in Rows
  BY <1>1, <1>4, Encoded DEF Fresh
<1> HIDE DEF new
<1>6. BodyOK'
  BY <1>1, BodyKept
<1>7. CASE UNCHANGED row /\ Continue(c, "pub_remove", loc[c])
  <2>1. Goto(c, "pub_remove", loc[c]) /\ UNCHANGED gens
    BY <1>7 DEF Continue
  <2>2. gens' \in [Hosts -> [Addrs -> [refs : Nat, gen : Nat]]]
    BY <2>1 DEF Inv, TypeOK
  <2> QED BY <1>1, <1>3, <1>6, <1>7, <2>1, <2>2, WritesOn
<1>8. CASE row[Addr(c)] = loc[c].snap /\ SetRow(Addr(c), new) /\ Continue(c, "disarm", loc[c])
  <2>1. loc[c].snap # None
    BY <1>1, <1>4 DEF Shape
  <2>2. Guarded => AtLeast(Addr(c), Named(new))
    BY <1>3, <1>5, <1>8, <2>1 DEF Inv, SafeInv, PubInv
  <2> QED BY <1>1, <1>3, <1>4, <1>5, <1>6, <1>8, <2>2, WriteDisarms
<1> QED BY <1>2, <1>7, <1>8

LEMMA PubRemoveStep ==
  ASSUME Inv, NEW c \in Clients, PubRemove(c), UNCHANGED <<world, tasks, bounds>>
  PROVE  Inv'
<1>1. pc[c] = "pub_remove" /\ UNCHANGED <<content, sc>> /\ SetRow(Addr(c), None) /\ Continue(c, "disarm", loc[c])
  BY DEF PubRemove, At, bounds
<1> QED BY <1>1, BodyKept, Names, WriteDisarms

LEMMA DisarmStep ==
  ASSUME Inv, NEW c \in Clients, Disarm(c), UNCHANGED <<world, tasks, bounds>>
  PROVE  Inv'
<1> DEFINE a == Head(loc[c].todo)
           x == Tail(loc[c].todo)
           m == [loc[c] EXCEPT !.todo = x]
<1>1. /\ pc[c] = "disarm" /\ UNCHANGED <<row, sc>> /\ DropBodies(a, {loc[c].old[a]} \ {loc[c].etag})
      /\ (x = <<>> /\ Return(c)) \/ (x # <<>> /\ Continue(c, "disarm", m))
  BY DEF Disarm, At, bounds
<1>2. /\ loc[c] \in Locals /\ loc[c].addrs # <<>> /\ loc[c].todo \in Seq(Addrs) /\ pc[c] # "idle" /\ Shape(pc[c], loc[c])
      /\ {loc[c].snap, loc[c].seen, loc[c].kept} \subseteq KnownRows
  BY <1>1, Here
<1>3. /\ loc[c].todo # <<>> /\ loc[c].op \in Mutations /\ Elems(loc[c].todo) \subseteq Elems(loc[c].addrs)
      /\ Elems(loc[c].guards) \subseteq Elems(loc[c].addrs)
      /\ (loc[c].op \in {"read", "write", "mutate", "continue"} => Elems(loc[c].addrs) \subseteq {loc[c].addrs[1]})
      /\ (loc[c].kept # None => loc[c].op = "continue")
  BY <1>1, <1>2 DEF Shape
<1>4. a \in Addrs /\ x \in Seq(Addrs) /\ Elems(x) \subseteq Elems(loc[c].addrs)
  BY <1>2, <1>3, ElemsOf
<1>5. BodyOK'
  BY <1>1, <1>4, BodiesOK
<1>6. Owed(pc[c], loc[c]) = {}
  BY <1>1, <1>2, <1>3, DisarmShape
<1>7. CASE Return(c)
  BY <1>1, <1>2, <1>5, <1>6, <1>7, TasksKept, Returns
<1>8. CASE x # <<>> /\ Continue(c, "disarm", m)
  <2>1. /\ m \in Locals /\ m.op = loc[c].op /\ m.addrs = loc[c].addrs /\ m.ver = loc[c].ver /\ m.start = loc[c].start
        /\ m.kept = loc[c].kept /\ m.todo = x /\ m.guards = loc[c].guards /\ m.snap = loc[c].snap
        /\ m.seen = loc[c].seen /\ m.lost = loc[c].lost
    <3> HIDE DEF x
    <3> QED BY <1>2, <1>4 DEF Locals
  <2> HIDE DEF m, x
  <2>2. Shape("disarm", m) /\ "disarm" \in Labels /\ Owed("disarm", m) = {}
        /\ Pledged("disarm", m) /\ Keeps("disarm", m) /\ Answers("disarm", m)
    BY <1>2, <1>3, <1>4, <1>8, <2>1, DisarmShape
  <2>3. Calm(c, "disarm", m)
    BY <1>6, <2>1, <2>2 DEF Calm
  <2>4. Moves(c, "disarm", m) /\ UNCHANGED floor /\ MiscOK'
    BY <1>5, <1>8 DEF Continue, Goto, Moves, MiscOK, BodyOK, Inv, TypeOK
  <2>5. {m.snap, m.seen, m.kept} \subseteq KnownRows \cup {None}
    BY <1>2, <2>1
  <2> QED BY <1>1, <1>2, <2>1, <2>2, <2>3, <2>4, <2>5, TasksKept, Quiet
<1> QED BY <1>1, <1>7, <1>8
-----------------------------------------------------------------------------
(* Clears.                                                                  *)

LEMMA AtClear ==
  ASSUME Inv, NEW c \in Clients, pc[c] \in Clearing
  PROVE  /\ pc[c] # "idle" /\ loc[c] \in Locals /\ loc[c].addrs # <<>> /\ loc[c].todo # <<>>
         /\ loc[c].addrs \in Seq(Addrs) /\ loc[c].guards \in Seq(Addrs)
         /\ loc[c].todo \in Seq(Addrs) /\ Head(loc[c].todo) \in Addrs /\ Tail(loc[c].todo) \in Seq(Addrs)
         /\ Elems(loc[c].todo) = {Head(loc[c].todo)} \cup Elems(Tail(loc[c].todo))
         /\ Elems(loc[c].todo) \subseteq Elems(loc[c].addrs) /\ Elems(loc[c].guards) \subseteq Elems(loc[c].addrs)
         /\ (loc[c].op = "read" => loc[c].ver = NoVersions) /\ loc[c].op # "none"
         /\ (loc[c].op \in Mutations => Elems(loc[c].addrs) \subseteq Elems(loc[c].guards))
         /\ (loc[c].op \in {"read", "write", "mutate", "continue"} => Elems(loc[c].addrs) \subseteq {loc[c].addrs[1]})
         /\ (loc[c].kept # None => loc[c].op = "continue")
         /\ {loc[c].snap, loc[c].seen, loc[c].kept} \subseteq KnownRows
<1>1. pc[c] # "idle"
  BY DEF Clearing
<1>2. Shape(pc[c], loc[c]) /\ loc[c] \in Locals /\ loc[c].addrs # <<>> /\ loc[c].todo \in Seq(Addrs)
      /\ {loc[c].snap, loc[c].seen, loc[c].kept} \subseteq KnownRows
      /\ loc[c].addrs \in Seq(Addrs) /\ loc[c].guards \in Seq(Addrs)
  BY <1>1, Here
<1>3. loc[c].todo # <<>>
  BY <1>2 DEF Shape
<1>4. Head(loc[c].todo) \in Addrs /\ Tail(loc[c].todo) \in Seq(Addrs)
      /\ Elems(loc[c].todo) = {Head(loc[c].todo)} \cup Elems(Tail(loc[c].todo))
  BY <1>2, <1>3, ElemsOf
<1> QED BY <1>1, <1>2, <1>3, <1>4 DEF Shape

Uncleared == {"cl_read", "cl_swap", "cl_remove"}

(* A clear that goes on, and one that has dealt with the row of its address.*)
LEMMA ClearsOn ==
  ASSUME Inv, NEW c \in Clients, pc[c] \in Uncleared, NEW label \in Clearing, NEW m \in Locals, Continue(c, label, m),
         Same(c, m), m.todo = loc[c].todo, m.guards = loc[c].guards, m.snap = loc[c].snap,
         m.seen \in KnownRows \cup {None}, UNCHANGED <<world, tasks, sc>>, BodyOK',
         \/ UNCHANGED row /\ label \in Uncleared
         \/ \E r \in Rows \cup {None} : (r = None \/ Fresh(r)) /\ Named(r) = 0 /\ SetRow(Head(loc[c].todo), r)
  PROVE  Inv'
<1> DEFINE a == Head(loc[c].todo)
<1>1. pc[c] \in Clearing
  BY DEF Clearing, Uncleared
<1>2. /\ pc[c] # "idle" /\ a \in Addrs /\ {loc[c].snap, loc[c].seen, loc[c].kept} \subseteq KnownRows
      /\ Elems(loc[c].todo) = {a} \cup Elems(Tail(loc[c].todo))
  BY <1>1, AtClear
<1>3. Shape(label, m)
  BY <1>1, AtClear, ClearShape DEF Same
<1>4. Owed(pc[c], loc[c]) = Elems(loc[c].todo) \cup Swept(loc[c]) /\ Swept(m) = Swept(loc[c])
  BY DEF Owed, Uncleared, Swept, Same
<1>5. label \in Uncleared => Owed(label, m) = Elems(loc[c].todo) \cup Swept(loc[c])
  BY <1>4 DEF Owed, Uncleared
<1>6. label \notin Uncleared => Owed(label, m) = Elems(Tail(loc[c].todo)) \cup Swept(loc[c])
  BY <1>4 DEF Owed, Uncleared, Clearing
<1>7. Pledged(label, m) /\ Keeps(label, m) /\ Answers(label, m) /\ label \in Labels /\ label # "idle"
  BY DEF Pledged, Keeps, Answers, Publishing, WritingThrough, Labels, Awaits, Clearing
<1>8. Moves(c, label, m) /\ UNCHANGED floor /\ MiscOK'
  BY DEF Continue, Goto, Moves, MiscOK, BodyOK, Inv, TypeOK
<1>9. m.op = loc[c].op /\ m.ver = loc[c].ver /\ m.start = loc[c].start /\ m.lost = loc[c].lost
      /\ {m.snap, m.seen, m.kept} \subseteq KnownRows \cup {None}
  BY <1>2 DEF Same
<1> HIDE DEF a
<1>10. CASE UNCHANGED row /\ label \in Uncleared
  <2>1. Calm(c, label, m)
    BY <1>4, <1>5, <1>9, <1>10 DEF Calm
  <2> QED BY <1>2, <1>3, <1>7, <1>8, <1>9, <1>10, <2>1, TasksKept, Quiet
<1>11. ASSUME NEW r \in Rows \cup {None}, r = None \/ Fresh(r), Named(r) = 0, SetRow(a, r) PROVE Inv'
  <2>1. Settles(c, label, m, a)
    BY <1>2, <1>4, <1>5, <1>6, <1>9 DEF Settles
  <2>2. {m.snap, m.seen, m.kept} \subseteq KnownRows \cup {None, r}
    BY <1>9
  <2> QED BY <1>2, <1>3, <1>7, <1>8, <1>9, <1>11, <2>1, <2>2, Writes
<1> QED BY <1>10, <1>11 DEF a

LEMMA ClReadStep ==
  ASSUME Inv, NEW c \in Clients, ClRead(c), UNCHANGED <<world, tasks, bounds>>
  PROVE  Inv'
<1> DEFINE x == row[Head(loc[c].todo)]
           m == [loc[c] EXCEPT !.seen = x]
<1>1. pc[c] = "cl_read" /\ UNCHANGED <<row, content, sc>> /\ Continue(c, "cl_swap", m)
  BY DEF ClRead, At, bounds
<1>2. pc[c] \in Clearing /\ pc[c] \in Uncleared
  BY <1>1 DEF Clearing, Uncleared
<1>3. loc[c] \in Locals /\ Head(loc[c].todo) \in Addrs
  BY <1>2, AtClear
<1>4. x \in Rows \cup {None} /\ x \in KnownRows
  BY <1>3 DEF Inv, TypeOK, KnownRows
<1>5. m \in Locals /\ Same(c, m) /\ m.todo = loc[c].todo /\ m.guards = loc[c].guards /\ m.snap = loc[c].snap /\ m.seen = x
  <2> HIDE DEF x
  <2> QED BY <1>3, <1>4 DEF Locals, Same
<1> HIDE DEF m
<1>6. m.seen \in KnownRows \cup {None} /\ BodyOK' /\ "cl_swap" \in Clearing /\ "cl_swap" \in Uncleared
  BY <1>1, <1>4, <1>5, BodyKept DEF Clearing, Uncleared
<1> QED BY <1>1, <1>2, <1>5, <1>6, ClearsOn

LEMMA ClSwapStep ==
  ASSUME Inv, NEW c \in Clients, ClSwap(c), UNCHANGED <<world, tasks, bounds>>
  PROVE  Inv'
<1> DEFINE new == encode_avail(0)
           x == {Named(loc[c].seen)}
           m == [loc[c] EXCEPT !.body = x, !.seen = None]
           n == loc[c].tries + 1
           k == [loc[c] EXCEPT !.tries = n, !.seen = None]
<1>1. pc[c] = "cl_swap" /\ NonceLeft /\ UNCHANGED <<content, sc>>
  BY DEF ClSwap, At, bounds
<1>2. \/ SetRow(Head(loc[c].todo), new) /\ Continue(c, "cl_body", m)
      \/ UNCHANGED row /\ Continue(c, IF n < CasAttempts THEN "cl_read" ELSE "cl_remove", k)
  BY Zenon DEF ClSwap
<1>3. pc[c] \in Clearing /\ pc[c] \in Uncleared
  BY <1>1 DEF Clearing, Uncleared
<1>4. loc[c] \in Locals
  BY <1>3, AtClear
<1>5. Fresh(new) /\ Named(new) = 0 /\ new \in Rows
  <2>1. 0 \in 0 .. MaxVer
    BY BoundsAssumption
  <2> QED BY <1>1, <2>1, Encoded DEF Fresh
<1> HIDE DEF new
<1>6. BodyOK'
  BY <1>1, BodyKept
<1>7. CASE SetRow(Head(loc[c].todo), new) /\ Continue(c, "cl_body", m)
  <2>1. x \subseteq 0 .. MaxVer
    <3>1. loc[c].seen \in Rows \cup {None}
      BY <1>4 DEF Locals
    <3> QED BY <3>1, Names
  <2>2. m \in Locals /\ Same(c, m) /\ m.todo = loc[c].todo /\ m.guards = loc[c].guards /\ m.snap = loc[c].snap /\ m.seen = None
    <3> HIDE DEF x
    <3> QED BY <1>4, <2>1 DEF Locals, Same
  <2> HIDE DEF m
  <2>3. "cl_body" \in Clearing
    BY DEF Clearing
  <2> QED BY <1>1, <1>3, <1>5, <1>6, <1>7, <2>2, <2>3, ClearsOn
<1>8. CASE UNCHANGED row /\ Continue(c, IF n < CasAttempts THEN "cl_read" ELSE "cl_remove", k)
  <2>1. PICK label \in {"cl_read", "cl_remove"} : Continue(c, label, k)
    BY <1>8
  <2>2. k \in Locals /\ Same(c, k) /\ k.todo = loc[c].todo /\ k.guards = loc[c].guards /\ k.snap = loc[c].snap /\ k.seen = None
    <3>1. n \in Nat
      BY <1>4 DEF Locals
    <3> HIDE DEF n
    <3> QED BY <1>4, <3>1, ZenonT(60) DEF Locals, Same
  <2> HIDE DEF k
  <2>3. label \in Clearing /\ label \in Uncleared
    BY DEF Clearing, Uncleared
  <2> QED BY <1>1, <1>3, <1>6, <1>8, <2>1, <2>2, <2>3, ClearsOn
<1> QED BY <1>2, <1>7, <1>8

LEMMA ClRemoveStep ==
  ASSUME Inv, NEW c \in Clients, ClRemove(c), UNCHANGED <<world, tasks, bounds>>
  PROVE  Inv'
<1> DEFINE a == Head(loc[c].todo)
           x == loc[c].body \cup {Named(row[a])}
           m == [loc[c] EXCEPT !.body = x]
<1>1. pc[c] = "cl_remove" /\ UNCHANGED <<content, sc>> /\ SetRow(a, None) /\ Continue(c, "cl_body", m)
  BY DEF ClRemove, At, bounds
<1>2. pc[c] \in Clearing /\ pc[c] \in Uncleared
  BY <1>1 DEF Clearing, Uncleared
<1>3. loc[c] \in Locals /\ a \in Addrs /\ {loc[c].snap, loc[c].seen} \subseteq KnownRows
  BY <1>2, AtClear
<1>4. x \subseteq 0 .. MaxVer
  <2>1. row[a] \in Rows \cup {None} /\ loc[c].body \subseteq 0 .. MaxVer
    BY <1>3 DEF Inv, TypeOK, Locals
  <2> QED BY <2>1, Names
<1>5. /\ m \in Locals /\ Same(c, m) /\ m.todo = loc[c].todo /\ m.guards = loc[c].guards /\ m.snap = loc[c].snap
      /\ m.seen = loc[c].seen
  <2> HIDE DEF x
  <2> QED BY <1>3, <1>4 DEF Locals, Same
<1> HIDE DEF m
<1>6. "cl_body" \in Clearing /\ BodyOK'
  BY <1>1, BodyKept DEF Clearing
<1> QED BY <1>1, <1>2, <1>3, <1>5, <1>6, Names, ClearsOn
-----------------------------------------------------------------------------
(* Sweeps of a subtree.                                                     *)

LEMMA SweepShape ==
  ASSUME NEW l, l.addrs # <<>>, l.todo # <<>>, Elems(l.todo) \subseteq Elems(l.addrs),
         Elems(l.guards) \subseteq Elems(l.addrs), l.op \in Trees,
         l.op \in Mutations => Elems(l.addrs) \subseteq Elems(l.guards), l.kept # None => l.op = "continue",
         NEW label \in Sweeping
  PROVE  Shape(label, l) /\ label \in Labels /\ label # "idle"
         /\ Pledged(label, l) /\ Keeps(label, l) /\ Answers(label, l)
<1>1. label \in Late /\ label \notin Clearing \cup Dropping \cup Arming \cup Reading \cup WritingThrough
  BY DEF Late, Clearing, Sweeping, Dropping, Arming, WritingThrough, Reading
<1>2. label \notin {"idle", "disarm", "snap", "seed", "inner", "restore", "pub_remove", "rl_swap", "pub_swap"}
  BY DEF Sweeping
<1>3. l.op \notin {"read", "write", "mutate", "continue"}
  BY DEF Trees
<1>4. Shape(label, l)
  BY <1>1, <1>2, <1>3 DEF Shape
<1>5. label \notin Publishing /\ label \notin {"arm_read", "arm_clear", "lookup", "hit"} /\ label \in Labels
  BY DEF Publishing, WritingThrough, Sweeping, Labels
<1> QED BY <1>2, <1>4, <1>5 DEF Pledged, Keeps, Answers

LEMMA AtSweep ==
  ASSUME Inv, NEW c \in Clients, pc[c] \in Sweeping
  PROVE  /\ pc[c] # "idle" /\ loc[c] \in Locals /\ loc[c].addrs # <<>> /\ loc[c].todo # <<>>
         /\ loc[c].addrs \in Seq(Addrs) /\ loc[c].guards \in Seq(Addrs)
         /\ loc[c].todo \in Seq(Addrs) /\ Head(loc[c].todo) \in Addrs /\ Tail(loc[c].todo) \in Seq(Addrs)
         /\ Elems(loc[c].todo) = {Head(loc[c].todo)} \cup Elems(Tail(loc[c].todo))
         /\ BelowAll(loc[c].todo) = Below[Head(loc[c].todo)] \cup BelowAll(Tail(loc[c].todo))
         /\ Elems(loc[c].todo) \subseteq Elems(loc[c].addrs) /\ Elems(loc[c].guards) \subseteq Elems(loc[c].addrs)
         /\ loc[c].op \in Trees
         /\ (loc[c].op \in Mutations => Elems(loc[c].addrs) \subseteq Elems(loc[c].guards))
         /\ (loc[c].kept # None => loc[c].op = "continue")
         /\ {loc[c].snap, loc[c].seen, loc[c].kept} \subseteq KnownRows /\ Host[c] \in Hosts
<1>1. pc[c] # "idle"
  BY DEF Sweeping
<1>2. Shape(pc[c], loc[c]) /\ loc[c] \in Locals /\ loc[c].addrs # <<>> /\ loc[c].todo \in Seq(Addrs)
      /\ {loc[c].snap, loc[c].seen, loc[c].kept} \subseteq KnownRows /\ Host[c] \in Hosts
      /\ loc[c].addrs \in Seq(Addrs) /\ loc[c].guards \in Seq(Addrs)
  BY <1>1, Here
<1>3. loc[c].todo # <<>>
  BY <1>2 DEF Shape
<1>4. Head(loc[c].todo) \in Addrs /\ Tail(loc[c].todo) \in Seq(Addrs)
      /\ Elems(loc[c].todo) = {Head(loc[c].todo)} \cup Elems(Tail(loc[c].todo))
      /\ BelowAll(loc[c].todo) = Below[Head(loc[c].todo)] \cup BelowAll(Tail(loc[c].todo))
  BY <1>2, <1>3, ElemsOf
<1> QED BY <1>1, <1>2, <1>3, <1>4 DEF Shape

LEMMA StSelectStep ==
  ASSUME Inv, NEW c \in Clients, StSelect(c), UNCHANGED <<world, tasks, bounds>>
  PROVE  Inv'
<1> DEFINE below == Below[Head(loc[c].todo)]
           x == {b \in below : row[b] # None}
           m == [loc[c] EXCEPT !.sub = x]
<1>1. pc[c] = "st_select" /\ UNCHANGED <<row, content, sc>> /\ Bump(Host[c], below) /\ Goto(c, "st_row", m)
  BY DEF StSelect, At, bounds
<1>2. pc[c] \in Sweeping
  BY <1>1 DEF Sweeping
<1>3. loc[c] \in Locals /\ below \subseteq Addrs /\ Host[c] \in Hosts /\ pc[c] # "idle"
  BY <1>2, AtSweep, ShapeAssumption
<1>4. m \in Locals /\ Alike(m, loc[c]) /\ m.sub = x
  <2>1. x \subseteq Addrs
    BY <1>3
  <2> HIDE DEF x
  <2> QED BY <1>3, <2>1 DEF Locals, Alike
<1> HIDE DEF m
<1>5. /\ Shape("st_row", m) /\ "st_row" \in Labels /\ Pledged("st_row", m) /\ Keeps("st_row", m) /\ Answers("st_row", m)
  BY <1>2, <1>4, AtSweep, SweepShape DEF Alike, Sweeping
<1>6. Calm(c, "st_row", m)
  <2>1. Owed("st_row", m) = x \cup BelowAll(Tail(loc[c].todo)) /\ Owed(pc[c], loc[c]) = BelowAll(loc[c].todo)
    BY <1>1, <1>4 DEF Owed, Alike, WritingThrough
  <2>2. BelowAll(loc[c].todo) = below \cup BelowAll(Tail(loc[c].todo))
    BY <1>2, AtSweep
  <2> HIDE DEF below
  <2> QED BY <1>4, <2>1, <2>2 DEF Calm, Alike
<1>7. gens' \in [Hosts -> [Addrs -> [refs : Nat, gen : Nat]]]
  BY <1>1, <1>3, GensOK DEF Inv
<1>8. Moves(c, "st_row", m) /\ UNCHANGED floor /\ MiscOK'
  BY <1>1, <1>7, BodyKept DEF Goto, Moves, MiscOK, BodyOK
<1>9. {m.snap, m.seen, m.kept} \subseteq KnownRows \cup {None} /\ m.op = loc[c].op /\ m.ver = loc[c].ver /\ m.start = loc[c].start
  BY <1>2, <1>4, AtSweep DEF Alike
<1> QED BY <1>1, <1>3, <1>4, <1>5, <1>6, <1>8, <1>9, TasksKept, Quiet

LEMMA StRowStep ==
  ASSUME Inv, NEW c \in Clients, StRow(c), UNCHANGED <<world, tasks, bounds>>
  PROVE  Inv'
<1>1. pc[c] = "st_row" /\ UNCHANGED <<content, sc>>
  BY DEF StRow, At, bounds
<1>2. \/ loc[c].sub = {} /\ UNCHANGED row /\ Continue(c, "st_body", loc[c])
      \/ \E b \in loc[c].sub : SetRow(b, None) /\ Continue(c, "st_row", [loc[c] EXCEPT !.sub = loc[c].sub \ {b}])
  BY DEF StRow
<1>3. pc[c] \in Sweeping
  BY <1>1 DEF Sweeping
<1>4. loc[c] \in Locals /\ pc[c] # "idle" /\ {loc[c].snap, loc[c].seen, loc[c].kept} \subseteq KnownRows
  BY <1>3, AtSweep
<1>5. Owed(pc[c], loc[c]) = loc[c].sub \cup BelowAll(Tail(loc[c].todo))
  BY <1>1 DEF Owed, WritingThrough
<1>6. CASE loc[c].sub = {} /\ UNCHANGED row /\ Continue(c, "st_body", loc[c])
  <2>1. /\ Shape("st_body", loc[c]) /\ "st_body" \in Labels /\ Pledged("st_body", loc[c]) /\ Keeps("st_body", loc[c])
        /\ Answers("st_body", loc[c])
    BY <1>3, AtSweep, SweepShape DEF Sweeping
  <2>2. Owed("st_body", loc[c]) = BelowAll(Tail(loc[c].todo))
    BY DEF Owed, WritingThrough
  <2>3. Calm(c, "st_body", loc[c])
    BY <1>5, <1>6, <2>2 DEF Calm
  <2>4. Moves(c, "st_body", loc[c]) /\ UNCHANGED floor /\ MiscOK'
    BY <1>1, <1>6, MiscKept DEF Continue, Goto, Moves
  <2> QED BY <1>1, <1>4, <1>6, <2>1, <2>3, <2>4, TasksKept, Quiet
<1>7. ASSUME NEW b \in loc[c].sub, SetRow(b, None), Continue(c, "st_row", [loc[c] EXCEPT !.sub = loc[c].sub \ {b}]) PROVE Inv'
  <2> DEFINE x == loc[c].sub \ {b}
             m == [loc[c] EXCEPT !.sub = x]
  <2>1. b \in Addrs /\ x \subseteq Addrs
    BY <1>4 DEF Locals
  <2>2. m \in Locals /\ Alike(m, loc[c]) /\ m.sub = x
    <3> HIDE DEF x
    <3> QED BY <1>4, <2>1 DEF Locals, Alike
  <2>3. Moves(c, "st_row", m) /\ UNCHANGED floor /\ MiscOK'
    BY <1>1, <1>7, MiscKept DEF Continue, Goto, Moves
  <2> HIDE DEF m
  <2>4. /\ Shape("st_row", m) /\ "st_row" \in Labels /\ Pledged("st_row", m) /\ Keeps("st_row", m) /\ Answers("st_row", m)
    BY <1>3, <2>2, AtSweep, SweepShape DEF Alike, Sweeping
  <2>5. Settles(c, "st_row", m, b)
    <3>1. Owed("st_row", m) = x \cup BelowAll(Tail(loc[c].todo))
      BY <2>2 DEF Owed, Alike, WritingThrough
    <3> QED BY <1>5, <2>2, <3>1 DEF Settles, Alike
  <2>6. {m.snap, m.seen, m.kept} \subseteq KnownRows \cup {None, None} /\ m.op = loc[c].op /\ m.ver = loc[c].ver
        /\ m.start = loc[c].start
    BY <1>4, <2>2 DEF Alike
  <2> QED BY <1>1, <1>4, <1>7, <2>1, <2>2, <2>3, <2>4, <2>5, <2>6, Names, Writes
<1> QED BY <1>2, <1>6, <1>7

(* The call has cleared what it had to: it lets go of its guards.           *)
LEMMA Disarms ==
  ASSUME Inv, NEW c \in Clients, pc[c] \in Clearing \cup Sweeping, Owed(pc[c], loc[c]) = {}, NEW m \in Locals, Same(c, m),
         m.todo = m.addrs, m.guards = loc[c].guards, m.snap = loc[c].snap, m.seen = loc[c].seen, m.op \in Mutations,
         Continue(c, "disarm", m), UNCHANGED <<world, row, tasks, sc>>, BodyOK'
  PROVE  Inv'
<1>1. pc[c] # "idle"
  BY DEF Clearing, Sweeping
<1>2. Shape(pc[c], loc[c]) /\ loc[c].addrs # <<>> /\ {loc[c].snap, loc[c].seen, loc[c].kept} \subseteq KnownRows
  BY <1>1, Here
<1>3. /\ Elems(loc[c].guards) \subseteq Elems(loc[c].addrs) /\ (loc[c].kept # None => loc[c].op = "continue")
      /\ (loc[c].op \in {"read", "write", "mutate", "continue"} => Elems(loc[c].addrs) \subseteq {loc[c].addrs[1]})
  BY <1>2 DEF Shape
<1>4. Shape("disarm", m) /\ "disarm" \in Labels /\ Owed("disarm", m) = {}
      /\ Pledged("disarm", m) /\ Keeps("disarm", m) /\ Answers("disarm", m)
  BY <1>2, <1>3, DisarmShape DEF Same
<1>5. Calm(c, "disarm", m)
  BY DEF Calm, Same
<1>6. Moves(c, "disarm", m) /\ UNCHANGED floor /\ MiscOK'
  BY DEF Continue, Goto, Moves, MiscOK, BodyOK, Inv, TypeOK
<1>7. {m.snap, m.seen, m.kept} \subseteq KnownRows \cup {None} /\ m.op = loc[c].op /\ m.ver = loc[c].ver /\ m.start = loc[c].start
  BY <1>2 DEF Same
<1> QED BY <1>1, <1>4, <1>5, <1>6, <1>7, TasksKept, Quiet

LEMMA Sweeps ==
  ASSUME Inv, NEW c \in Clients, pc[c] \in {"cl_body", "st_body"}, NEW m \in Locals, Same(c, m), m.todo # <<>>,
         Elems(m.todo) \subseteq Elems(m.addrs), m.guards = loc[c].guards, m.snap = loc[c].snap, m.seen = loc[c].seen,
         m.op \in Trees, Owed(pc[c], loc[c]) \subseteq BelowAll(m.todo),
         Continue(c, "st_select", m), UNCHANGED <<world, row, tasks, sc>>, BodyOK'
  PROVE  Inv'
<1>1. pc[c] # "idle"
  OBVIOUS
<1>2. Shape(pc[c], loc[c]) /\ loc[c].addrs # <<>> /\ {loc[c].snap, loc[c].seen, loc[c].kept} \subseteq KnownRows
  BY <1>1, Here
<1>3. /\ Elems(loc[c].guards) \subseteq Elems(loc[c].addrs) /\ (loc[c].kept # None => loc[c].op = "continue")
      /\ (loc[c].op \in Mutations => Elems(loc[c].addrs) \subseteq Elems(loc[c].guards))
  BY <1>2 DEF Shape, Clearing, Sweeping
<1>4. /\ Shape("st_select", m) /\ "st_select" \in Labels
      /\ Pledged("st_select", m) /\ Keeps("st_select", m) /\ Answers("st_select", m)
  BY <1>2, <1>3, SweepShape DEF Same, Sweeping
<1>5. Calm(c, "st_select", m)
  <2>1. Owed("st_select", m) = BelowAll(m.todo)
    BY DEF Owed, WritingThrough
  <2> QED BY <2>1 DEF Calm, Same
<1>6. Moves(c, "st_select", m) /\ UNCHANGED floor /\ MiscOK'
  BY DEF Continue, Goto, Moves, MiscOK, BodyOK, Inv, TypeOK
<1>7. {m.snap, m.seen, m.kept} \subseteq KnownRows \cup {None} /\ m.op = loc[c].op /\ m.ver = loc[c].ver /\ m.start = loc[c].start
  BY <1>2 DEF Same
<1> QED BY <1>1, <1>4, <1>5, <1>6, <1>7, TasksKept, Quiet

LEMMA StBodyStep ==
  ASSUME Inv, NEW c \in Clients, StBody(c), UNCHANGED <<world, tasks, bounds>>
  PROVE  Inv'
<1> DEFINE x == Tail(loc[c].todo)
           m == [loc[c] EXCEPT !.todo = x]
           n == [m EXCEPT !.todo = m.addrs]
<1>1. /\ pc[c] = "st_body" /\ UNCHANGED <<row, sc>> /\ AfterTree(c, m)
      /\ content' = [a \in Addrs |-> IF a \in Below[Head(loc[c].todo)] THEN {} ELSE content[a]]
  BY DEF StBody, At, bounds
<1>2. pc[c] \in Sweeping
  BY <1>1 DEF Sweeping
<1>3. /\ loc[c] \in Locals /\ pc[c] # "idle" /\ x \in Seq(Addrs) /\ {loc[c].snap, loc[c].seen, loc[c].kept} \subseteq KnownRows
      /\ Elems(x) \subseteq Elems(loc[c].addrs) /\ loc[c].op \in Trees
  BY <1>2, AtSweep
<1>4. BodyOK'
  <2>1. content' \in [Addrs -> SUBSET (0 .. MaxVer)]
    BY <1>1 DEF Inv, TypeOK
  <2> QED BY <2>1 DEF Inv, TypeOK, BodyOK, bounds
<1>5. Owed(pc[c], loc[c]) = BelowAll(x)
  BY <1>1 DEF Owed, WritingThrough
<1>6. m \in Locals /\ Same(c, m) /\ m.todo = x /\ m.guards = loc[c].guards /\ m.snap = loc[c].snap /\ m.seen = loc[c].seen
  <2> HIDE DEF x
  <2> QED BY <1>3 DEF Locals, Same
<1> HIDE DEF m
<1>7. n \in Locals /\ Same(c, n) /\ n.todo = n.addrs /\ n.guards = loc[c].guards /\ n.snap = loc[c].snap /\ n.seen = loc[c].seen
  BY <1>6 DEF Locals, Same
<1>8. \/ x # <<>> /\ Continue(c, "st_select", m)
      \/ x = <<>> /\ Return(c)
      \/ x = <<>> /\ loc[c].op \notin {"watchdel", "lapse"} /\ Unwind(c, m)
      \/ x = <<>> /\ loc[c].op \notin {"watchdel", "lapse"} /\ Continue(c, "disarm", n)
  BY <1>1, <1>6 DEF AfterTree, Same
<1> HIDE DEF n
<1>9. x = <<>> => Owed(pc[c], loc[c]) = {}
  BY <1>5, ElemsOf
<1>10. m.op = loc[c].op /\ m.addrs = loc[c].addrs /\ n.op = loc[c].op
  BY <1>6, <1>7 DEF Same
<1>11. loc[c].op \notin {"watchdel", "lapse"} => loc[c].op \in Mutations
  BY <1>3 DEF Trees, Mutations
<1> HIDE DEF x
<1>12. CASE x # <<>> /\ Continue(c, "st_select", m)
  BY <1>1, <1>3, <1>4, <1>5, <1>6, <1>10, <1>12, Sweeps
<1>13. CASE x = <<>> /\ Return(c)
  BY <1>1, <1>3, <1>4, <1>9, <1>13, TasksKept, Returns
<1>14. CASE x = <<>> /\ loc[c].op \notin {"watchdel", "lapse"} /\ Unwind(c, m)
  <2>1. {m.snap, m.seen} \subseteq KnownRows \cup {None}
    BY <1>3, <1>6
  <2> QED BY <1>1, <1>3, <1>4, <1>6, <1>9, <1>10, <1>11, <1>14, <2>1, TasksKept, Unwinds DEF Same
<1>15. CASE x = <<>> /\ loc[c].op \notin {"watchdel", "lapse"} /\ Continue(c, "disarm", n)
  BY <1>1, <1>2, <1>4, <1>7, <1>9, <1>10, <1>11, <1>15, Disarms
<1> QED BY <1>8, <1>12, <1>13, <1>14, <1>15

LEMMA ClBodyStep ==
  ASSUME Inv, NEW c \in Clients, ClBody(c), UNCHANGED <<world, tasks, bounds>>
  PROVE  Inv'
<1> DEFINE x == Tail(loc[c].todo)
           m == [loc[c] EXCEPT !.body = {}]
           n == [m EXCEPT !.todo = m.addrs]
           k == [m EXCEPT !.todo = Tail(m.todo)]
<1>1. /\ pc[c] = "cl_body" /\ UNCHANGED <<row, sc>> /\ NextClear(c, m)
      /\ DropBodies(Head(loc[c].todo), loc[c].body)
  BY DEF ClBody, At, bounds
<1>2. pc[c] \in Clearing
  BY <1>1 DEF Clearing
<1>3. /\ loc[c] \in Locals /\ pc[c] # "idle" /\ x \in Seq(Addrs) /\ {loc[c].snap, loc[c].seen, loc[c].kept} \subseteq KnownRows
      /\ Elems(x) \subseteq Elems(loc[c].addrs) /\ loc[c].op # "none" /\ Head(loc[c].todo) \in Addrs
      /\ loc[c].addrs \in Seq(Addrs) /\ loc[c].addrs # <<>>
  BY <1>2, AtClear
<1>4. BodyOK'
  BY <1>1, <1>3, BodiesOK
<1>5. Owed(pc[c], loc[c]) = Elems(x) \cup Swept(loc[c])
  BY <1>1 DEF Owed
<1>6. /\ m \in Locals /\ Same(c, m) /\ m.todo = loc[c].todo /\ m.guards = loc[c].guards /\ m.snap = loc[c].snap
      /\ m.seen = loc[c].seen
  BY <1>3 DEF Locals, Same
<1> HIDE DEF m
<1>7. n \in Locals /\ Same(c, n) /\ n.todo = n.addrs /\ n.guards = loc[c].guards /\ n.snap = loc[c].snap /\ n.seen = loc[c].seen
  BY <1>6 DEF Locals, Same
<1>8. k \in Locals /\ Same(c, k) /\ k.todo = x /\ k.guards = loc[c].guards /\ k.snap = loc[c].snap /\ k.seen = loc[c].seen
  BY <1>3, <1>6 DEF Locals, Same
<1>9. m.op = loc[c].op /\ n.op = loc[c].op /\ k.op = loc[c].op /\ n.addrs = loc[c].addrs /\ k.addrs = loc[c].addrs
  BY <1>6, <1>7, <1>8 DEF Same
<1>10. \/ x # <<>> /\ EnterClear(c, k)
       \/ x = <<>> /\ loc[c].op = "watch" /\ Return(c)
       \/ x = <<>> /\ loc[c].op \in Trees /\ Continue(c, "st_select", n)
       \/ x = <<>> /\ loc[c].op \notin {"watch"} \cup Trees /\ Unwind(c, n)
       \/ x = <<>> /\ loc[c].op \notin {"read", "watch"} \cup Trees /\ Continue(c, "disarm", n)
  <2>1. \/ x # <<>> /\ EnterClear(c, k)
        \/ x = <<>> /\ Cleared(c, m)
    BY <1>1, <1>6 DEF NextClear
  <2>2. ASSUME Cleared(c, m)
        PROVE  \/ m.op = "watch" /\ Return(c)
               \/ m.op \in Trees /\ Continue(c, "st_select", n)
               \/ m.op = "read" /\ Unwind(c, n)
               \/ m.op \notin {"read", "watch"} \cup Trees /\ Unwind(c, n)
               \/ m.op \notin {"read", "watch"} \cup Trees /\ Continue(c, "disarm", n)
    BY <2>2, Zenon DEF Cleared
  <2>3. "read" \notin {"watch"} \cup Trees
    BY DEF Trees
  <2> HIDE DEF n, k, x
  <2> QED BY <1>9, <2>1, <2>2, <2>3
<1> HIDE DEF n, k
<1>11. loc[c].op \notin Trees => Swept(loc[c]) = {}
  BY DEF Swept
<1>12. loc[c].op \in Trees => Swept(loc[c]) = BelowAll(loc[c].addrs)
  BY DEF Swept
<1>13. x = <<>> => Elems(x) = {}
  BY ElemsOf
<1>14. loc[c].op \notin {"watch"} \cup Trees => loc[c].op \in Mutations \cup {"read"}
  <2>1. loc[c].op \in OpNames
    BY <1>3 DEF Locals
  <2> QED BY <1>3, <2>1 DEF OpNames, Trees, Mutations
<1> HIDE DEF x
<1>15. CASE x # <<>> /\ EnterClear(c, k)
  <2>1. Swept(k) = Swept(loc[c])
    BY <1>9 DEF Swept
  <2>2. loc[c].op \in Mutations => Elems(k.addrs) \subseteq Elems(k.guards)
    BY <1>2, <1>8, <1>9, AtClear
  <2>3. {k.snap, k.seen} \subseteq KnownRows \cup {None}
    BY <1>3, <1>8
  <2> QED BY <1>1, <1>3, <1>4, <1>5, <1>8, <1>9, <1>15, <2>1, <2>2, <2>3, EntersClear
<1>16. CASE x = <<>> /\ loc[c].op = "watch" /\ Return(c)
  <2>1. "watch" \notin Trees
    BY DEF Trees
  <2>2. Owed(pc[c], loc[c]) = {}
    BY <1>5, <1>11, <1>13, <1>16, <2>1
  <2> QED BY <1>1, <1>3, <1>4, <1>16, <2>2, TasksKept, Returns
<1>17. CASE x = <<>> /\ loc[c].op \in Trees /\ Continue(c, "st_select", n)
  BY <1>1, <1>3, <1>4, <1>5, <1>7, <1>9, <1>12, <1>13, <1>17, Sweeps
<1>18. CASE x = <<>> /\ loc[c].op \notin {"watch"} \cup Trees /\ Unwind(c, n)
  <2>1. {n.snap, n.seen} \subseteq KnownRows \cup {None}
    BY <1>3, <1>7
  <2>2. Owed(pc[c], loc[c]) = {}
    BY <1>5, <1>11, <1>13, <1>18
  <2> QED BY <1>1, <1>3, <1>4, <1>7, <1>9, <1>14, <1>18, <2>1, <2>2, TasksKept, Unwinds DEF Same
<1>19. CASE x = <<>> /\ loc[c].op \notin {"read", "watch"} \cup Trees /\ Continue(c, "disarm", n)
  <2>1. Owed(pc[c], loc[c]) = {}
    BY <1>5, <1>11, <1>13, <1>19
  <2>2. n.op \in Mutations
    BY <1>9, <1>14, <1>19
  <2> QED BY <1>1, <1>2, <1>4, <1>7, <1>19, <2>1, <2>2, Disarms
<1> QED BY <1>10, <1>15, <1>16, <1>17, <1>18, <1>19
-----------------------------------------------------------------------------
(* The backend.                                                             *)

Changed(A) == UNCHANGED backend \/ \E alive : Change(A, alive)

LEMMA ChangeOK ==
  ASSUME Inv, NEW A, Changed(A)
  PROVE  /\ backend' \in [Addrs -> [ver : Versions, live : BOOLEAN]]
         /\ \A a \in Addrs : /\ backend[a].ver \in Nat /\ backend'[a].ver \in 0 .. MaxVer
                             /\ backend[a].ver <= backend'[a].ver
         /\ Established(A) \in VersionMaps
         /\ \A a \in Addrs : /\ Established(A)[a] <= backend'[a].ver
                             /\ Established(A)[a] > 0 => a \in A
<1>1. backend \in [Addrs -> [ver : Versions, live : BOOLEAN]] /\ sc.max_ver \in Versions
  BY ScenarioAssumption DEF Inv, TypeOK
<1>2. ASSUME NEW alive, Change(A, alive)
      PROVE  /\ backend' \in [Addrs -> [ver : Versions, live : BOOLEAN]]
             /\ \A a \in Addrs : backend[a].ver <= backend'[a].ver
  <2>1. ASSUME NEW a \in Addrs
        PROVE  /\ backend[a] \in [ver : Versions, live : BOOLEAN] /\ backend[a].ver \in Nat
               /\ a \in A => backend[a].ver + 1 \in Versions
    <3>1. backend[a] \in [ver : Versions, live : BOOLEAN]
      BY <1>1
    <3>2. backend[a].ver \in Versions
      BY <3>1
    <3> QED BY <1>1, <1>2, <3>1, <3>2, BoundsAssumption DEF Versions, Change
  <2>2. backend' = [a \in Addrs |-> IF a \in A THEN [ver |-> backend[a].ver + 1, live |-> a \in alive] ELSE backend[a]]
    BY <1>2 DEF Change
  <2>3. ASSUME NEW a \in Addrs PROVE backend'[a] \in [ver : Versions, live : BOOLEAN] /\ backend[a].ver <= backend'[a].ver
    <3>1. CASE a \in A
      <4>1. PICK v \in Versions : v = backend[a].ver + 1
        BY <2>1, <3>1
      <4>2. backend'[a] = [ver |-> v, live |-> a \in alive]
        BY <2>2, <3>1, <4>1
      <4>3. backend'[a] \in [ver : Versions, live : BOOLEAN] /\ backend'[a].ver = v
        BY <4>2
      <4> QED BY <2>1, <4>1, <4>3 DEF Versions
    <3>2. CASE a \notin A
      BY <2>1, <2>2, <3>2
    <3> QED BY <3>1, <3>2
  <2> QED BY <2>2, <2>3
<1>3. /\ backend' \in [Addrs -> [ver : Versions, live : BOOLEAN]]
      /\ \A a \in Addrs : backend[a].ver <= backend'[a].ver
  <2>1. CASE UNCHANGED backend
    <3>1. \A a \in Addrs : backend[a].ver \in Nat
      BY <1>1 DEF Versions
    <3> QED BY <1>1, <2>1, <3>1
  <2> QED BY <1>2, <2>1 DEF Changed
<1>4. \A a \in Addrs : backend[a].ver \in Nat /\ backend'[a].ver \in 0 .. MaxVer
  BY <1>1, <1>3, BoundsAssumption DEF Versions
<1>5. ASSUME NEW a \in Addrs
      PROVE  Established(A)[a] \in 0 .. MaxVer /\ Established(A)[a] <= backend'[a].ver /\ (Established(A)[a] > 0 => a \in A)
  <2>1. Established(A)[a] = IF a \in A THEN backend'[a].ver ELSE 0
    BY DEF Established
  <2> QED BY <1>4, <2>1, BoundsAssumption
<1>6. Established(A) \in VersionMaps
  <2>1. Established(A) = [a \in Addrs |-> IF a \in A THEN backend'[a].ver ELSE 0]
    BY DEF Established
  <2> QED BY <1>4, <2>1, BoundsAssumption DEF VersionMaps
<1> QED BY <1>3, <1>4, <1>5, <1>6

LEMMA AtInner ==
  ASSUME Inv, NEW c \in Clients, pc[c] = "inner"
  PROVE  /\ loc[c] \in Locals /\ loc[c].addrs \in Seq(Addrs) /\ loc[c].addrs # <<>> /\ Addr(c) = loc[c].addrs[1]
         /\ Addr(c) \in Addrs /\ Addr(c) \in Elems(loc[c].addrs) /\ loc[c].guards \in Seq(Addrs)
         /\ Elems(loc[c].addrs) \subseteq Elems(loc[c].guards) /\ Elems(loc[c].guards) \subseteq Elems(loc[c].addrs)
         /\ loc[c].op \in Mutations /\ loc[c].ver = NoVersions
         /\ (loc[c].op \in {"read", "write", "mutate", "continue"} => Elems(loc[c].addrs) \subseteq {loc[c].addrs[1]})
         /\ (loc[c].kept # None => loc[c].op = "continue")
         /\ {loc[c].snap, loc[c].seen, loc[c].kept} \subseteq KnownRows
         /\ Scope(loc[c]) = Elems(loc[c].addrs) \cup Swept(loc[c])
<1>1. pc[c] # "idle" /\ pc[c] \notin Late
  BY DEF Late, Clearing, Sweeping, Dropping, WritingThrough
<1>2. Shape(pc[c], loc[c]) /\ loc[c] \in Locals /\ loc[c].addrs \in Seq(Addrs) /\ loc[c].addrs # <<>>
      /\ Addr(c) = loc[c].addrs[1] /\ Addr(c) \in Addrs /\ Addr(c) \in Elems(loc[c].addrs) /\ loc[c].guards \in Seq(Addrs)
      /\ {loc[c].snap, loc[c].seen, loc[c].kept} \subseteq KnownRows
  BY <1>1, Here
<1>3. loc[c].op \in Mutations
  BY <1>2 DEF Shape
<1>4. Scope(loc[c]) = Elems(loc[c].addrs) \cup Swept(loc[c])
  BY DEF Scope, Elems, Swept, BelowAll
<1> QED BY <1>1, <1>2, <1>3, <1>4 DEF Shape

(* The call has changed the objects of A, and has still to clear them.      *)
LEMMA InnerOn ==
  ASSUME Inv, NEW c \in Clients, pc[c] = "inner", NEW label \in Labels, label \notin {"idle", "inner", "restore", "arm_read",
         "arm_clear", "lookup", "hit"}, NEW m \in Locals, Moves(c, label, m), UNCHANGED floor, NEW A, m.ver = Established(A), Changed(A),
         UNCHANGED <<events, row, content, tasks, bounds>>, gens' \in [Hosts -> [Addrs -> [refs : Nat, gen : Nat]]],
         Shape(label, m), m.op = loc[c].op, m.start = loc[c].start, m.snap = loc[c].snap, m.seen = loc[c].seen,
         m.kept = loc[c].kept, Guarded => Pledged(label, m) /\ A \subseteq Owed(label, m)
  PROVE  Inv'
<1>1. Allowed(m) /\ c \in sc.clients
  BY Here DEF Allowed
<1>2. RestOK'
  BY ChangeOK DEF RestOK, Inv, TypeOK, bounds
<1>3. WorldSafe(m)
  <2>1. ASSUME NEW a \in Addrs
        PROVE  backend[a].ver <= backend'[a].ver /\ m.ver[a] <= backend'[a].ver /\ m.start[a] <= floor[a]
    <3>1. loc[c].start[a] <= floor[a]
      BY DEF Inv, VerInv
    <3> QED BY <3>1, ChangeOK
  <2>2. ASSUME NEW e \in events' PROVE e.ver <= backend'[e.addr].ver
    <3>1. e \in [addr : Addrs, ver : Versions, del : BOOLEAN] /\ e.ver <= backend[e.addr].ver
      BY DEF Inv, TypeOK, VerInv
    <3>2. e.addr \in Addrs /\ e.ver \in Nat
      BY <3>1 DEF Versions
    <3>3. backend[e.addr].ver \in Nat /\ backend'[e.addr].ver \in Nat /\ backend[e.addr].ver <= backend'[e.addr].ver
      BY <3>2, ChangeOK, BoundsAssumption
    <3> QED BY <3>1, <3>2, <3>3
  <2> QED BY <2>1, <2>2 DEF WorldSafe
<1>4. tasks' \subseteq TaskRecords /\ tasks' = tasks /\ TasksSafe
  BY DEF Inv, TypeOK, TasksSafe
<1>5. Guarded => RowsSafe(c, label, m)
  <2> SUFFICES ASSUME Guarded, NEW b \in Addrs PROVE ~Binds(label, m, b)
    BY DEF RowsSafe, Stays
  <2>1. m.ver[b] > 0 => b \in A
    BY ChangeOK
  <2> QED BY <2>1 DEF Binds
<1>6. Remembers(m)
  BY AtInner DEF Remembers
<1>7. Keeps(label, m) /\ Answers(label, m) /\ label # "idle" /\ UNCHANGED sc
  BY DEF Keeps, Answers, bounds
<1> QED BY <1>1, <1>2, <1>3, <1>4, <1>5, <1>6, <1>7, ClientStep

LEMMA InnerOkStep ==
  ASSUME Inv, NEW c \in Clients, InnerOk(c), UNCHANGED <<events, tasks, bounds>>
  PROVE  Inv'
<1> DEFINE A == Scope(loc[c])
           v == Established(A)
           done == [loc[c] EXCEPT !.ver = v, !.todo = loc[c].addrs]
           e == backend'[Addr(c)].ver
           wt == [done EXCEPT !.etag = e]
<1>1. pc[c] = "inner" /\ UNCHANGED <<row, content, events, tasks, bounds>>
  BY DEF InnerOk, At
<1>2. /\ Changed(A)
      /\ (loc[c].reg = TRUE /\ Continue(c, "wt_commit", wt)) \/ EnterClear(c, done)
  BY DEF InnerOk, Changed
<1>3. v \in VersionMaps /\ e \in 0 .. MaxVer /\ backend[Addr(c)].ver <= e /\ v[Addr(c)] <= e
  BY <1>1, <1>2, AtInner, ChangeOK
<1>4. /\ done \in Locals /\ done.op = loc[c].op /\ done.addrs = loc[c].addrs /\ done.ver = v /\ done.start = loc[c].start
      /\ done.kept = loc[c].kept /\ done.todo = loc[c].addrs /\ done.guards = loc[c].guards /\ done.snap = loc[c].snap
      /\ done.seen = loc[c].seen
  <2>1. loc[c] \in Locals
    BY <1>1, AtInner
  <2> HIDE DEF v
  <2> QED BY <1>3, <2>1 DEF Locals
<1> HIDE DEF done
<1>5. EnterClear(c, done) => Inv'
  <2> SUFFICES ASSUME EnterClear(c, done) PROVE Inv'
    OBVIOUS
  <2>1. PICK m \in Locals : /\ Moves(c, "cl_read", m) /\ UNCHANGED floor /\ Alike(m, done)
                            /\ gens' \in [Hosts -> [Addrs -> [refs : Nat, gen : Nat]]]
    BY <1>4, ClearEntry
  <2>2. m.op # "read" /\ m.op # "none"
    BY <1>1, <1>4, <2>1, AtInner DEF Alike, Mutations
  <2>3. Shape("cl_read", m)
    <3>1. /\ m.addrs = loc[c].addrs /\ m.todo = loc[c].addrs /\ m.guards = loc[c].guards /\ m.op = loc[c].op
          /\ m.kept = loc[c].kept
      BY <1>4, <2>1 DEF Alike
    <3> QED BY <1>1, <2>2, <3>1, AtInner, ClearShape DEF Clearing
  <2>4. A = Owed("cl_read", m)
    <3>1. m.addrs = loc[c].addrs /\ m.todo = loc[c].addrs /\ m.op = loc[c].op
      BY <1>4, <2>1 DEF Alike
    <3>2. Owed("cl_read", m) = Elems(loc[c].addrs) \cup Swept(loc[c])
      BY <3>1 DEF Owed, Swept
    <3> QED BY <1>1, <3>2, AtInner
  <2>5. "cl_read" \in Labels /\ Pledged("cl_read", m)
    BY DEF Labels, Awaits, Pledged, Publishing, WritingThrough
  <2>6. m.ver = v /\ m.op = loc[c].op /\ m.start = loc[c].start /\ m.snap = loc[c].snap /\ m.seen = loc[c].seen /\ m.kept = loc[c].kept
    BY <1>4, <2>1 DEF Alike
  <2> HIDE DEF A
  <2> QED BY <1>1, <1>2, <2>1, <2>3, <2>4, <2>5, <2>6, InnerOn
<1>6. loc[c].reg = TRUE /\ Continue(c, "wt_commit", wt) => Inv'
  <2> SUFFICES ASSUME loc[c].reg = TRUE, Continue(c, "wt_commit", wt) PROVE Inv'
    OBVIOUS
  <2>1. loc[c].op = "write"
    <3>1. Shape(pc[c], loc[c])
      BY <1>1, Here
    <3> QED BY <1>1, <3>1 DEF Shape
  <2>2. /\ wt \in Locals /\ wt.op = loc[c].op /\ wt.addrs = loc[c].addrs /\ wt.ver = v /\ wt.start = loc[c].start
        /\ wt.kept = loc[c].kept /\ wt.todo = loc[c].addrs /\ wt.guards = loc[c].guards /\ wt.snap = loc[c].snap
        /\ wt.seen = loc[c].seen /\ wt.etag = e
    <3> HIDE DEF v, e
    <3> QED BY <1>3, <1>4 DEF Locals
  <2>3. Moves(c, "wt_commit", wt) /\ UNCHANGED floor /\ gens' \in [Hosts -> [Addrs -> [refs : Nat, gen : Nat]]]
    BY DEF Continue, Goto, Moves, Inv, TypeOK
  <2> HIDE DEF wt
  <2>4. Shape("wt_commit", wt)
    <3>1. wt.etag >= wt.ver[wt.addrs[1]]
      <4>1. v[Addr(c)] \in Nat /\ e \in Nat /\ Addr(c) = loc[c].addrs[1]
        BY <1>1, <1>3, AtInner, BoundsAssumption DEF VersionMaps
      <4> HIDE DEF v, e
      <4> QED BY <1>3, <2>2, <4>1
    <3>2. /\ "wt_commit" \in Late /\ "wt_commit" \in WritingThrough
          /\ "wt_commit" \notin Clearing \cup Sweeping \cup Dropping \cup Arming \cup Reading
      BY DEF Late, WritingThrough, Clearing, Sweeping, Dropping, Arming, Reading
    <3>3. /\ loc[c].addrs # <<>> /\ Elems(loc[c].addrs) \subseteq Elems(loc[c].guards)
          /\ Elems(loc[c].guards) \subseteq Elems(loc[c].addrs)
          /\ Elems(loc[c].addrs) \subseteq {loc[c].addrs[1]} /\ loc[c].kept = None
      BY <1>1, <2>1, AtInner
    <3> HIDE DEF v, e
    <3> QED BY <2>1, <2>2, <3>1, <3>2, <3>3 DEF Shape
  <2>5. A = Owed("wt_commit", wt)
    <3>1. Swept(loc[c]) = {}
      BY <2>1 DEF Swept, Trees
    <3>2. Owed("wt_commit", wt) = Elems(loc[c].addrs)
      BY <2>2 DEF Owed, WritingThrough
    <3> QED BY <1>1, <3>1, <3>2, AtInner
  <2>6. Pledged("wt_commit", wt)
    <3>1. AtLeast(Addr(c), backend[Addr(c)].ver) /\ backend[Addr(c)].ver \in Nat /\ Addr(c) \in Addrs
      BY <1>1, AtInner, Current
    <3>2. PICK a \in Addrs : a = Addr(c)
      BY <3>1
    <3>3. PICK w \in Nat : w = e
      BY <1>3, BoundsAssumption
    <3>4. PICK u \in Nat : u = backend[a].ver
      BY <3>1, <3>2
    <3>5. AtLeast(a, u) /\ u <= w
      BY <1>3, <3>1, <3>2, <3>3, <3>4
    <3>6. floor[a] \in Nat
      BY DEF Inv, TypeOK, VersionMaps
    <3>7. ASSUME NEW d \in Clients PROVE loc[d].ver[a] \in Nat
      <4>1. loc[d].ver \in VersionMaps
        BY DEF Inv, TypeOK, Locals
      <4> QED BY <4>1 DEF VersionMaps
    <3>8. AtLeast(a, w)
      BY <3>5, <3>6, <3>7 DEF AtLeast
    <3>9. wt.addrs[1] = a /\ wt.etag = w
      BY <1>1, <2>2, <3>2, <3>3, AtInner
    <3> QED BY <3>8, <3>9 DEF Pledged
  <2>7. "wt_commit" \in Labels
    BY DEF Labels, Awaits
  <2> HIDE DEF A
  <2> QED BY <1>1, <1>2, <2>2, <2>3, <2>4, <2>5, <2>6, <2>7, InnerOn
<1> QED BY <1>2, <1>5, <1>6

LEMMA InnerFailsStep ==
  ASSUME Inv, NEW c \in Clients, InnerFails(c), UNCHANGED <<events, tasks, bounds>>
  PROVE  Inv'
<1>1. pc[c] = "inner" /\ UNCHANGED <<row, content, events, tasks, bounds>>
  BY DEF InnerFails, At
<1>2. PICK A \in IF loc[c].op \in FailOps THEN SUBSET Scope(loc[c]) ELSE {{}} :
        (\E alive \in SUBSET A : Change(A, alive)) /\ Unwind(c, [loc[c] EXCEPT !.ver = Established(A)])
  BY DEF InnerFails
<1> DEFINE v == Established(A)
           l == [loc[c] EXCEPT !.ver = v]
           m == [l EXCEPT !.todo = l.guards]
<1>3. Changed(A) /\ v \in VersionMaps
  BY <1>2, ChangeOK DEF Changed
<1>4. loc[c] \in Locals /\ loc[c].guards # <<>> /\ loc[c].guards \in Seq(Addrs)
  <2>1. loc[c] \in Locals /\ Elems(loc[c].addrs) \subseteq Elems(loc[c].guards) /\ Addr(c) \in Elems(loc[c].addrs)
        /\ loc[c].guards \in Seq(Addrs)
    BY <1>1, AtInner
  <2> QED BY <2>1, ElemsOf
<1>5. /\ l \in Locals /\ l.op = loc[c].op /\ l.addrs = loc[c].addrs /\ l.ver = v /\ l.start = loc[c].start
      /\ l.kept = loc[c].kept /\ l.guards = loc[c].guards /\ l.snap = loc[c].snap
      /\ l.seen = loc[c].seen
  <2> HIDE DEF v
  <2> QED BY <1>3, <1>4 DEF Locals
<1>6. Unwind(c, l)
  BY <1>2
<1> HIDE DEF l
<1>7. Continue(c, "drop_row", m)
  BY <1>4, <1>5, <1>6 DEF Unwind
<1>8. /\ m \in Locals /\ m.op = loc[c].op /\ m.addrs = loc[c].addrs /\ m.ver = v /\ m.start = loc[c].start
      /\ m.kept = loc[c].kept /\ m.guards = loc[c].guards /\ m.todo = loc[c].guards /\ m.snap = loc[c].snap
      /\ m.seen = loc[c].seen
  <2> HIDE DEF v
  <2> QED BY <1>5 DEF Locals
<1> HIDE DEF m, v
<1>9. Moves(c, "drop_row", m) /\ UNCHANGED floor /\ gens' \in [Hosts -> [Addrs -> [refs : Nat, gen : Nat]]]
  BY <1>7 DEF Continue, Goto, Moves, Inv, TypeOK
<1>10. Shape("drop_row", m)
  <2>1. m.op \in Mutations /\ m.op # "read"
    BY <1>1, <1>8, AtInner DEF Mutations
  <2> QED BY <1>1, <1>4, <1>8, <2>1, AtInner, DropShape DEF Dropping
<1>11. Guarded => A \subseteq Owed("drop_row", m)
  <2> SUFFICES ASSUME Guarded PROVE A \subseteq Elems(loc[c].guards)
    BY <1>8 DEF Owed
  <2>1. CASE loc[c].op \notin FailOps
    BY <1>2, <2>1
  <2>2. CASE loc[c].op \in FailOps
    <3>1. loc[c].op \notin {"tree", "rename"}
      BY <2>2 DEF Guarded
    <3>2. Swept(loc[c]) = {}
      BY <1>1, <3>1, AtInner DEF Swept, Trees, Mutations
    <3> QED BY <1>1, <1>2, <2>2, <3>2, AtInner
  <2> QED BY <2>1, <2>2
<1>12. "drop_row" \in Labels /\ Pledged("drop_row", m)
  BY DEF Labels, Pledged, Publishing, WritingThrough
<1>13. m.ver = Established(A)
  BY <1>8 DEF v
<1> QED BY <1>1, <1>3, <1>8, <1>9, <1>10, <1>11, <1>12, <1>13, InnerOn

LEMMA InnerRedirectsStep ==
  ASSUME Inv, NEW c \in Clients, InnerRedirects(c), UNCHANGED <<events, tasks, bounds>>
  PROVE  Inv'
<1> DEFINE m == [loc[c] EXCEPT !.guards = <<>>]
<1>1. pc[c] = "inner" /\ loc[c].op = "continue" /\ UNCHANGED <<world, row, content, tasks, bounds, sc>>
      /\ (Return(c) \/ Continue(c, "restore", m))
  BY DEF InnerRedirects, At, bounds
<1>2. BodyOK' /\ loc[c] \in Locals /\ loc[c].ver = NoVersions /\ pc[c] # "idle" /\ Addr(c) \in Addrs
  BY <1>1, BodyKept, AtInner
<1>3. CASE Return(c)
  BY <1>1, <1>2, <1>3, TasksKept, Returns
<1>4. CASE Continue(c, "restore", m)
  <2>1. /\ m \in Locals /\ m.op = loc[c].op /\ m.addrs = loc[c].addrs /\ m.ver = loc[c].ver /\ m.start = loc[c].start
        /\ m.kept = loc[c].kept /\ m.guards = <<>> /\ m.todo = loc[c].todo /\ m.snap = loc[c].snap
        /\ m.seen = loc[c].seen
    <3>1. <<>> \in Seq(Addrs)
      OBVIOUS
    <3> QED BY <1>2, <3>1 DEF Locals
  <2> HIDE DEF m
  <2>2. Shape("restore", m)
    <3>1. "restore" \notin Clearing \cup Sweeping \cup Dropping \cup Arming \cup Reading \cup WritingThrough
      BY DEF WritingThrough, Clearing, Sweeping, Dropping, Arming, Reading
    <3>2. Elems(loc[c].todo) \subseteq Elems(loc[c].addrs) /\ loc[c].addrs # <<>>
          /\ Elems(loc[c].addrs) \subseteq {loc[c].addrs[1]}
      <4>1. Shape(pc[c], loc[c])
        BY <1>1, Here
      <4> QED BY <1>1, <4>1, AtInner DEF Shape
    <3>3. Elems(m.guards) = {}
      BY <2>1, ElemsOf
    <3> QED BY <1>1, <1>2, <2>1, <3>1, <3>2, <3>3 DEF Shape
  <2>3. Guarded => Keeps("restore", m)
    BY <1>1, <2>1 DEF Keeps, Inv, SafeInv, KeptInv, Addr
  <2>4. "restore" \in Labels /\ "restore" \notin Publishing \cup {"lookup", "hit"}
    BY DEF Labels, Awaits, Publishing, WritingThrough
  <2>5. {m.snap, m.seen, m.kept} \subseteq KnownRows \cup {None}
    BY <1>1, <2>1, AtInner
  <2> QED BY <1>1, <1>2, <1>4, <2>1, <2>2, <2>3, <2>4, <2>5, Early
<1> QED BY <1>1, <1>3, <1>4

(* The row that continue_write puts back.                                   *)
LEMMA Restores ==
  ASSUME Inv, NEW c \in Clients, pc[c] = "restore", Return(c), UNCHANGED <<world, tasks, sc>>, BodyOK',
         UNCHANGED row \/ SetRow(Addr(c), loc[c].kept)
  PROVE  Inv'
<1>1. /\ loc[c] \in Locals /\ Shape(pc[c], loc[c]) /\ Addr(c) \in Addrs /\ Host[c] \in Hosts /\ pc[c] # "idle"
  BY Here
<1>2. loc[c].op = "continue" /\ loc[c].ver = NoVersions
  BY <1>1 DEF Shape, Late, Clearing, Sweeping, Dropping, WritingThrough
<1>3. Finishes(c)
  BY DEF Return, Finishes
<1>4. gens' \in [Hosts -> [Addrs -> [refs : Nat, gen : Nat]]]
  BY <1>1, GensOK DEF Return, Inv
<1>5. row' \in [Addrs -> Rows \cup {None}] /\ \A b \in Addrs : row'[b] = row[b] \/ (b = Addr(c) /\ row'[b] = loc[c].kept)
  <2>1. loc[c].kept \in Rows \cup {None}
    BY <1>1 DEF Locals
  <2> QED BY <1>1, <2>1 DEF Inv, TypeOK, SetRow
<1>6. RestOK'
  BY <1>4, <1>5 DEF Inv, TypeOK, RestOK, BodyOK, world
<1>7. tasks' \subseteq TaskRecords /\ tasks' = tasks
  BY DEF Inv, TypeOK
<1>8. TypeOK' /\ LocalInv' /\ VerInv'
  BY <1>3, <1>6, <1>7, EndTypes
<1>9. ASSUME NEW b \in Addrs PROVE floor'[b] = floor[b]
  <2>1. loc[c].ver[b] = 0 /\ floor[b] \in Nat
    BY <1>2, Nothing DEF Inv, TypeOK, VersionMaps
  <2>2. b \notin Vouched(c)
    BY <2>1 DEF Vouched
  <2> QED BY <1>3, <2>2 DEF Finishes
<1>10. ASSUME Guarded PROVE SafeInv'
  <2>1. tasks = {} /\ \A e \in Clients : e # c => pc[e] = "idle" /\ loc[e] = NoLocals
    BY <1>1, <1>2, <1>10, Lone DEF Inv
  <2>2. \A e \in Clients : pc'[e] = "idle" /\ loc'[e] = NoLocals
    BY <1>3, <2>1 DEF Finishes, Inv, TypeOK
  <2>3. RowInv'
    <3> SUFFICES ASSUME NEW b \in Addrs, Named(row'[b]) # 0 PROVE Later(b, Named(row'[b]))
      BY DEF RowInv, AtLeast, Later
    <3>1. \A e \in Clients : ~Binds(pc'[e], loc'[e], b)
      BY <2>2, Nothing
    <3>2. Named(row'[b]) >= floor[b]
      <4>1. CASE row'[b] = row[b]
        BY <1>10, <4>1 DEF Inv, SafeInv, RowInv, AtLeast
      <4>2. CASE b = Addr(c) /\ row'[b] = loc[c].kept
        BY <1>10, <4>2 DEF Inv, SafeInv, KeptInv
      <4> QED BY <1>5, <4>1, <4>2
    <3> QED BY <1>9, <3>1, <3>2 DEF Later
  <2>4. PubInv' /\ KeptInv' /\ FreshInv'
    BY <2>2 DEF PubInv, KeptInv, FreshInv, Publishing, WritingThrough
  <2>5. TaskInv' /\ NonceInv'
    BY <2>1 DEF TaskInv, NonceInv
  <2> QED BY <2>3, <2>4, <2>5 DEF SafeInv
<1> QED BY <1>8, <1>10 DEF Inv

LEMMA RestoreStep ==
  ASSUME Inv, NEW c \in Clients, Restore(c), UNCHANGED <<world, tasks, bounds>>
  PROVE  Inv'
<1>1. pc[c] = "restore" /\ Return(c) /\ UNCHANGED <<content, sc>> /\ (UNCHANGED row \/ SetRow(Addr(c), loc[c].kept))
  BY DEF Restore, At, bounds
<1> QED BY <1>1, BodyKept, Restores
-----------------------------------------------------------------------------
(* Calls of the byte store that fail.                                       *)

LEMMA MishapOK ==
  ASSUME Inv, NEW kind, Mishap(kind), UNCHANGED <<content, ops, sc>>
  PROVE  BodyOK' /\ sc \in Scenarios /\ kind \in sc.mishaps
<1>1. sc \in Scenarios /\ sc.max_mishaps \in Nat
  BY ScenarioAssumption DEF Inv, TypeOK
<1>2. mishaps \in 0 .. sc.max_mishaps /\ mishaps < sc.max_mishaps /\ mishaps' = mishaps + 1 /\ kind \in sc.mishaps
  BY DEF Inv, TypeOK, Mishap
<1>3. mishaps' \in 0 .. sc.max_mishaps
  BY <1>1, <1>2
<1> QED BY <1>1, <1>2, <1>3 DEF Inv, TypeOK, BodyOK

LEMMA ReadFailsStep ==
  ASSUME Inv, NEW c \in Clients, ReadFails(c)
  PROVE  Inv'
<1>1. UNCHANGED <<world, row, content, tasks, ops, sc>> /\ Mishap("read")
  BY DEF ReadFails
<1>2. \/ pc[c] = "known" /\ Continue(c, "snap", loc[c])
      \/ pc[c] = "lookup" /\ Return(c)
      \/ pc[c] = "snap" /\ Snapped(c, loc[c])
      \/ pc[c] = "live" /\ AfterLive(c, loc[c])
      \/ pc[c] = "rl_check" /\ Continue(c, "rl_remove", loc[c])
      \/ pc[c] = "arm_read" /\ Continue(c, "arm_clear", loc[c])
      \/ pc[c] = "cl_read" /\ Continue(c, "cl_remove", loc[c])
  BY DEF ReadFails, At
<1>3. BodyOK' /\ TasksOK
  BY <1>1, MishapOK, TasksKept
<1>4. ASSUME pc[c] \in Reading, NEW label \in {"snap", "rl_remove"}, Continue(c, label, loc[c]) PROVE Inv'
  <2>1. /\ label \in (Reading \cup {"snap", "seed"}) \ (Publishing \cup {"lookup", "hit"})
        /\ Goto(c, label, loc[c]) /\ UNCHANGED gens
    BY <1>4 DEF Reading, Publishing, WritingThrough, Continue
  <2> QED BY <1>1, <1>3, <1>4, <2>1, AtRead, ReadsOn
<1>5. CASE pc[c] = "known" /\ Continue(c, "snap", loc[c])
  BY <1>4, <1>5 DEF Reading
<1>6. CASE pc[c] = "lookup" /\ Return(c)
  <2>1. pc[c] \in Reading
    BY <1>6 DEF Reading
  <2> QED BY <1>1, <1>3, <1>6, <2>1, AtRead, Returns
<1>7. CASE pc[c] = "snap" /\ Snapped(c, loc[c])
  <2>1. pc[c] # "idle" /\ loc[c] \in Locals /\ {loc[c].snap, loc[c].seen} \subseteq KnownRows \cup {None, None}
    BY <1>7, Here
  <2> QED BY <1>1, <1>3, <1>7, <2>1, SnapsOn DEF Same
<1>8. CASE pc[c] = "live" /\ AfterLive(c, loc[c])
  <2>1. pc[c] \in Reading
    BY <1>8 DEF Reading
  <2> QED BY <1>1, <1>3, <1>8, <2>1, AtRead, LiveOn
<1>9. CASE pc[c] = "rl_check" /\ Continue(c, "rl_remove", loc[c])
  BY <1>4, <1>9 DEF Reading
<1>10. CASE pc[c] = "arm_read" /\ Continue(c, "arm_clear", loc[c])
  <2>1. pc[c] \in Arming
    BY <1>10 DEF Arming
  <2>2. /\ Shape("arm_clear", loc[c]) /\ "arm_clear" \in Labels /\ "arm_clear" # "idle"
        /\ "arm_clear" \notin Publishing \cup {"lookup", "hit"}
    BY <2>1, AtArm, ArmReg, ArmShape DEF Arming
  <2>3. Guarded => Keeps("arm_clear", loc[c])
    BY <1>10 DEF Keeps, Inv, SafeInv, KeptInv, Addr
  <2>4. /\ pc[c] # "idle" /\ loc[c] \in Locals /\ loc[c].ver = NoVersions /\ Head(loc[c].todo) \in Addrs
        /\ {loc[c].snap, loc[c].seen, loc[c].kept} \subseteq KnownRows \cup {None}
    BY <2>1, AtArm
  <2> QED BY <1>1, <1>3, <1>10, <2>2, <2>3, <2>4, Early
<1>11. CASE pc[c] = "cl_read" /\ Continue(c, "cl_remove", loc[c])
  <2>1. pc[c] \in Clearing /\ pc[c] \in Uncleared /\ "cl_remove" \in Clearing /\ "cl_remove" \in Uncleared
    BY <1>11 DEF Clearing, Uncleared
  <2>2. loc[c] \in Locals /\ loc[c].seen \in KnownRows \cup {None}
    BY <2>1, AtClear
  <2> QED BY <1>1, <1>3, <1>11, <2>1, <2>2, ClearsOn DEF Same
<1> QED BY <1>2, <1>5, <1>6, <1>7, <1>8, <1>9, <1>10, <1>11

(* A removal that failed is owned up to.                                    *)
LEMMA Loses ==
  ASSUME Inv, NEW c \in Clients, pc[c] # "idle", NEW label \in Labels, label # "idle", NEW m \in Locals, Continue(c, label, m),
         NEW x \in SUBSET Addrs, Shape(label, m), m.op = loc[c].op, m.ver = loc[c].ver, m.start = loc[c].start,
         m.snap = loc[c].snap, m.seen = loc[c].seen, m.kept = loc[c].kept, m.lost = loc[c].lost \cup x,
         Owed(pc[c], loc[c]) \subseteq Owed(label, m) \cup x,
         label \notin Publishing \cup {"arm_read", "arm_clear", "inner", "restore", "lookup", "hit"},
         UNCHANGED <<world, row, tasks, sc>>, BodyOK'
  PROVE  Inv'
<1>1. Calm(c, label, m)
  BY DEF Calm
<1>2. Pledged(label, m) /\ Keeps(label, m) /\ Answers(label, m)
  BY DEF Pledged, Keeps, Answers
<1>3. Moves(c, label, m) /\ UNCHANGED floor /\ MiscOK'
  BY DEF Continue, Goto, Moves, MiscOK, BodyOK, Inv, TypeOK
<1>4. {m.snap, m.seen, m.kept} \subseteq KnownRows \cup {None}
  BY Here
<1> QED BY <1>1, <1>2, <1>3, <1>4, TasksKept, Quiet

LEMMA RemoveFailsStep ==
  ASSUME Inv, NEW c \in Clients, RemoveFails(c)
  PROVE  Inv'
<1> DEFINE a == Head(loc[c].todo)
           x == loc[c].lost \cup {a}
           m == [loc[c] EXCEPT !.lost = x]
           y == loc[c].lost \cup loc[c].sub
           n == [loc[c] EXCEPT !.sub = {}, !.lost = y]
<1>1. UNCHANGED <<world, row, content, tasks, ops, sc>> /\ Mishap("remove")
  BY DEF RemoveFails
<1>2. \/ pc[c] = "arm_clear" /\ Armed(c)
      \/ pc[c] = "drop_row" /\ Continue(c, "drop_body", m)
      \/ pc[c] = "rl_remove" /\ Unwind(c, loc[c])
      \/ pc[c] = "pub_remove" /\ Unwind(c, loc[c])
      \/ pc[c] = "cl_remove" /\ Continue(c, "cl_body", m)
      \/ pc[c] = "st_row" /\ Continue(c, "st_body", n)
  BY DEF RemoveFails, At
<1>3. BodyOK' /\ TasksOK
  BY <1>1, MishapOK, TasksKept
<1>4. ASSUME loc[c] \in Locals, a \in Addrs PROVE m \in Locals /\ m.lost = x
        /\ m.todo = loc[c].todo /\ m.guards = loc[c].guards /\ m.snap = loc[c].snap /\ m.seen = loc[c].seen
        /\ m.op = loc[c].op /\ m.addrs = loc[c].addrs /\ m.ver = loc[c].ver /\ m.start = loc[c].start /\ m.kept = loc[c].kept
  <2>1. x \subseteq Addrs
    BY <1>4 DEF Locals
  <2> HIDE DEF x
  <2> QED BY <1>4, <2>1 DEF Locals, Same
<1> HIDE DEF m
<1>5. CASE pc[c] = "arm_clear" /\ Armed(c)
  BY <1>1, <1>3, <1>5, ArmedOn
<1>6. CASE pc[c] = "drop_row" /\ Continue(c, "drop_body", m)
  <2>1. pc[c] \in Dropping /\ "drop_body" \in Dropping
    BY <1>6 DEF Dropping
  <2>2. loc[c] \in Locals /\ a \in Addrs /\ pc[c] # "idle" /\ Elems(loc[c].todo) = {a} \cup Elems(Tail(loc[c].todo))
    BY <2>1, AtDrop
  <2>3. Shape("drop_body", m)
    BY <1>4, <2>1, <2>2, AtDrop, DropShape
  <2>4. Owed("drop_body", m) = Elems(Tail(loc[c].todo)) /\ Owed(pc[c], loc[c]) = Elems(loc[c].todo)
    BY <1>4, <1>6, <2>2 DEF Owed
  <2>5. "drop_body" \in Labels /\ "drop_body" \notin Publishing
    BY DEF Labels, Publishing, WritingThrough
  <2>6. /\ {a} \in SUBSET Addrs /\ m.lost = loc[c].lost \cup {a}
        /\ Owed(pc[c], loc[c]) \subseteq Owed("drop_body", m) \cup {a}
    BY <1>4, <2>2, <2>4, <2>5
  <2>7. m \in Locals /\ m.op = loc[c].op /\ m.ver = loc[c].ver /\ m.start = loc[c].start
        /\ m.snap = loc[c].snap /\ m.seen = loc[c].seen /\ m.kept = loc[c].kept
    BY <1>4, <2>2
  <2> HIDE DEF a
  <2> QED BY <1>1, <1>3, <1>6, <2>2, <2>3, <2>5, <2>6, <2>7, Loses
<1>7. CASE pc[c] = "rl_remove" /\ Unwind(c, loc[c])
  <2>1. pc[c] \in Reading
    BY <1>7 DEF Reading
  <2> QED BY <1>1, <1>3, <1>7, <2>1, ReadUnwinds
<1>8. CASE pc[c] = "pub_remove" /\ Unwind(c, loc[c])
  <2>1. /\ loc[c] \in Locals /\ pc[c] # "idle" /\ loc[c].op \in Mutations /\ Owed(pc[c], loc[c]) \subseteq Elems(loc[c].guards)
        /\ {loc[c].snap, loc[c].seen} \subseteq KnownRows \cup {None}
    BY <1>8, AtWrite DEF Mutations
  <2> QED BY <1>1, <1>3, <1>8, <2>1, Unwinds
<1>9. CASE pc[c] = "cl_remove" /\ Continue(c, "cl_body", m)
  <2>1. pc[c] \in Clearing /\ "cl_body" \in Clearing
    BY <1>9 DEF Clearing
  <2>2. loc[c] \in Locals /\ a \in Addrs /\ pc[c] # "idle" /\ Elems(loc[c].todo) = {a} \cup Elems(Tail(loc[c].todo))
    BY <2>1, AtClear
  <2>3. Shape("cl_body", m)
    BY <1>4, <2>1, <2>2, AtClear, ClearShape
  <2>4. Owed("cl_body", m) = Elems(Tail(loc[c].todo)) \cup Swept(m) /\ Owed(pc[c], loc[c]) = Elems(loc[c].todo) \cup Swept(loc[c])
    BY <1>4, <1>9, <2>2 DEF Owed
  <2>5. "cl_body" \in Labels /\ "cl_body" \notin Publishing /\ Swept(m) = Swept(loc[c])
    BY <1>4, <2>2 DEF Labels, Awaits, Publishing, WritingThrough, Swept
  <2>6. /\ {a} \in SUBSET Addrs /\ m.lost = loc[c].lost \cup {a}
        /\ Owed(pc[c], loc[c]) \subseteq Owed("cl_body", m) \cup {a}
    BY <1>4, <2>2, <2>4, <2>5
  <2>7. m \in Locals /\ m.op = loc[c].op /\ m.ver = loc[c].ver /\ m.start = loc[c].start
        /\ m.snap = loc[c].snap /\ m.seen = loc[c].seen /\ m.kept = loc[c].kept
    BY <1>4, <2>2
  <2> HIDE DEF a
  <2> QED BY <1>1, <1>3, <1>9, <2>2, <2>3, <2>5, <2>6, <2>7, Loses
<1>10. CASE pc[c] = "st_row" /\ Continue(c, "st_body", n)
  <2>1. pc[c] \in Sweeping /\ "st_body" \in Sweeping
    BY <1>10 DEF Sweeping
  <2>2. loc[c] \in Locals /\ pc[c] # "idle"
    BY <2>1, AtSweep
  <2>3. n \in Locals /\ n.lost = y /\ n.todo = loc[c].todo /\ n.guards = loc[c].guards /\ n.snap = loc[c].snap /\ n.seen = loc[c].seen
        /\ n.op = loc[c].op /\ n.addrs = loc[c].addrs /\ n.ver = loc[c].ver /\ n.start = loc[c].start /\ n.kept = loc[c].kept
    <3>1. y \subseteq Addrs
      BY <2>2 DEF Locals
    <3> HIDE DEF y
    <3> QED BY <2>2, <3>1 DEF Locals
  <2> HIDE DEF n
  <2>4. Shape("st_body", n)
    BY <2>1, <2>3, AtSweep, SweepShape
  <2>5. Owed("st_body", n) = BelowAll(Tail(loc[c].todo)) /\ Owed(pc[c], loc[c]) = loc[c].sub \cup BelowAll(Tail(loc[c].todo))
    BY <1>10, <2>3 DEF Owed, WritingThrough
  <2>6. "st_body" \in Labels /\ "st_body" \notin Publishing /\ loc[c].sub \subseteq Addrs
    BY <2>2 DEF Labels, Publishing, WritingThrough, Locals
  <2> QED BY <1>1, <1>3, <1>10, <2>2, <2>3, <2>4, <2>5, <2>6, Loses
<1> QED BY <1>2, <1>5, <1>6, <1>7, <1>8, <1>9, <1>10
-----------------------------------------------------------------------------
(* The blocking task that a client waits for.                               *)

Target(c) == IF loc[c].todo = <<>> THEN Addr(c) ELSE Head(loc[c].todo)

LEMMA TargetOf ==
  ASSUME Inv, NEW c \in Clients, pc[c] # "idle"
  PROVE  /\ Target(c) \in Addrs /\ (pc[c] \in Clearing => Target(c) = Head(loc[c].todo))
         /\ (loc[c].op \in {"read", "write", "mutate", "continue"} => Target(c) = Addr(c))
<1>1. /\ Shape(pc[c], loc[c]) /\ Addr(c) \in Addrs /\ Addr(c) = loc[c].addrs[1]
      /\ loc[c].todo \in Seq(Addrs)
  BY Here
<1>2. loc[c].todo # <<>> => Head(loc[c].todo) \in Addrs /\ Head(loc[c].todo) \in Elems(loc[c].todo)
  BY <1>1, ElemsOf
<1>3. loc[c].op \in {"read", "write", "mutate", "continue"} => Elems(loc[c].todo) \subseteq {Addr(c)}
  BY <1>1 DEF Shape
<1>4. pc[c] \in Clearing => loc[c].todo # <<>>
  BY <1>1 DEF Shape
<1> QED BY <1>1, <1>2, <1>3, <1>4 DEF Target

Kinds == {"swap", "remove", "take", "drop", "fill", "reclaim"}

Tasked(c, t, kind, from, to, body) == \E armed \in BOOLEAN : t = Task(c, kind, from, to, body, armed)

LEMMA TaskOK ==
  ASSUME Inv, NEW c \in Clients, pc[c] # "idle", NEW kind \in Kinds, NEW from \in Rows \cup {None},
         NEW to \in Rows \cup {None}, NEW body \in SUBSET (0 .. MaxVer), NEW t, Tasked(c, t, kind, from, to, body)
  PROVE  /\ t \in TaskRecords /\ t.kind = kind /\ t.from = from /\ t.to = to /\ t.body = body
         /\ t.addr = Target(c)
<1>1. mishaps \in Nat
  <2>1. sc.max_mishaps \in Nat /\ mishaps \in 0 .. sc.max_mishaps
    BY ScenarioAssumption DEF Inv, TypeOK
  <2> QED BY <2>1
<1>2. Host[c] \in Hosts /\ Target(c) \in Addrs
  BY Here, TargetOf
<1>3. PICK armed \in BOOLEAN :
           t = [id |-> mishaps, host |-> Host[c], kind |-> kind, armed |-> armed, addr |-> Target(c),
                from |-> from, to |-> to, body |-> body]
  BY DEF Tasked, Task, Target
<1> QED BY <1>1, <1>2, <1>3 DEF TaskRecords, Kinds

(* It is one task, of these fields.                                         *)
Blocks(c, t, kind, from, to, body) ==
  /\ t \in TaskRecords /\ t.kind = kind /\ t.from = from /\ t.to = to /\ t.body = body /\ t.addr = Target(c)
  /\ \A u \in Blocking(c) : u = t

LEMMA BlocksOne ==
  ASSUME Inv, NEW c \in Clients, pc[c] # "idle", NEW t \in Blocking(c), NEW kind \in Kinds, NEW from \in Rows \cup {None},
         NEW to \in Rows \cup {None}, NEW body \in SUBSET (0 .. MaxVer), NEW u, Blocking(c) = {u},
         Tasked(c, u, kind, from, to, body)
  PROVE  Blocks(c, t, kind, from, to, body)
<1>1. t = u /\ \A w \in Blocking(c) : w = t
  OBVIOUS
<1>2. u \in TaskRecords /\ u.kind = kind /\ u.from = from /\ u.to = to /\ u.body = body /\ u.addr = Target(c)
  BY TaskOK
<1> QED BY <1>1, <1>2 DEF Blocks

LEMMA BlocksOn ==
  ASSUME Inv, NEW c \in Clients, pc[c] # "idle", NonceLeft, NEW t \in Blocking(c)
  PROVE  \/ pc[c] = "seed" /\ Blocks(c, t, "swap", None, encode_avail(0), {})
         \/ pc[c] \in {"cl_swap", "live_swap"} /\ Blocks(c, t, "swap", loc[c].seen, encode_avail(0), {Named(loc[c].seen)})
         \/ pc[c] = "discard" /\ loc[c].snap # None /\ Blocks(c, t, "swap", loc[c].snap, None, {})
         \/ pc[c] = "rl_swap" /\ Blocks(c, t, "swap", loc[c].snap, encode_avail(loc[c].etag), {loc[c].old[Addr(c)]})
         \/ pc[c] = "pub_swap" /\ Blocks(c, t, "swap", loc[c].snap, encode_avail(loc[c].etag), {})
         \/ pc[c] = "restore" /\ Blocks(c, t, "swap", None, loc[c].kept, {})
         \/ \E body : \E kind \in Kinds \ {"swap"} : Blocks(c, t, kind, None, None, body)
<1>1. loc[c] \in Locals /\ Addr(c) \in Addrs
  BY Here
<1>2. /\ {loc[c].snap, loc[c].seen, loc[c].kept} \subseteq Rows \cup {None} /\ loc[c].etag \in 0 .. MaxVer
      /\ loc[c].body \in SUBSET (0 .. MaxVer) /\ loc[c].old[Addr(c)] \in 0 .. MaxVer
  BY <1>1 DEF Locals, VersionMaps
<1>3. encode_avail(0) \in Rows \cup {None} /\ encode_avail(loc[c].etag) \in Rows \cup {None} /\ 0 \in 0 .. MaxVer
  <2>1. 0 \in 0 .. MaxVer
    BY BoundsAssumption
  <2> QED BY <1>2, <2>1, Encoded DEF Fresh
<1>4. /\ None \in Rows \cup {None} /\ {} \in SUBSET (0 .. MaxVer) /\ {Named(loc[c].seen)} \in SUBSET (0 .. MaxVer)
      /\ {loc[c].etag} \in SUBSET (0 .. MaxVer) /\ {loc[c].old[Addr(c)]} \in SUBSET (0 .. MaxVer)
  BY <1>2, Names
<1>7. "swap" \in Kinds /\ {"remove", "take", "fill", "reclaim"} \subseteq Kinds \ {"swap"}
  BY DEF Kinds
<1>8. CASE pc[c] = "seed"
  <2>1. PICK from \in Rows \cup {None} : from = None
    BY <1>2, <1>4
  <2>2. PICK to \in Rows \cup {None} : to = encode_avail(0)
    BY <1>2, <1>3, <1>4
  <2>3. PICK body \in SUBSET (0 .. MaxVer) : body = {}
    BY <1>2, <1>4
  <2>4. PICK kind \in Kinds : kind = "swap"
    BY <1>7
  <2>5. PICK u : u = Task(c, "swap", None, encode_avail(0), {}, FALSE)
    OBVIOUS
  <2>6. Blocking(c) = {u}
    BY <1>8, <2>5 DEF Blocking, At
  <2>7. Tasked(c, u, kind, from, to, body)
    BY <2>1, <2>2, <2>3, <2>4, <2>5 DEF Tasked
  <2>8. Blocks(c, t, kind, from, to, body)
    BY <2>6, <2>7, BlocksOne
  <2> QED BY <1>8, <2>1, <2>2, <2>3, <2>4, <2>6, <2>8
<1>9. CASE pc[c] \in {"cl_swap", "live_swap"}
  <2>1. PICK from \in Rows \cup {None} : from = loc[c].seen
    BY <1>2, <1>4
  <2>2. PICK to \in Rows \cup {None} : to = encode_avail(0)
    BY <1>2, <1>3, <1>4
  <2>3. PICK body \in SUBSET (0 .. MaxVer) : body = {Named(loc[c].seen)}
    BY <1>2, <1>4
  <2>4. PICK kind \in Kinds : kind = "swap"
    BY <1>7
  <2>5. PICK u : u = Task(c, "swap", loc[c].seen, encode_avail(0), {Named(loc[c].seen)}, FALSE)
    OBVIOUS
  <2>6. Blocking(c) = {u}
    BY <1>9, <2>5 DEF Blocking, At
  <2>7. Tasked(c, u, kind, from, to, body)
    BY <2>1, <2>2, <2>3, <2>4, <2>5 DEF Tasked
  <2>8. Blocks(c, t, kind, from, to, body)
    BY <2>6, <2>7, BlocksOne
  <2> QED BY <1>9, <2>1, <2>2, <2>3, <2>4, <2>6, <2>8
<1>10. CASE pc[c] = "discard"
  <2>1. PICK from \in Rows \cup {None} : from = loc[c].snap
    BY <1>2, <1>4
  <2>2. PICK to \in Rows \cup {None} : to = None
    BY <1>2, <1>3, <1>4
  <2>3. PICK body \in SUBSET (0 .. MaxVer) : body = {}
    BY <1>2, <1>4
  <2>4. PICK kind \in Kinds : kind = "swap"
    BY <1>7
  <2>5. PICK u : u = Task(c, "swap", loc[c].snap, None, {}, FALSE)
    OBVIOUS
  <2>6. loc[c].snap # None /\ Blocking(c) = {u}
    BY <1>10, <2>5 DEF Blocking, At
  <2>7. Tasked(c, u, kind, from, to, body)
    BY <2>1, <2>2, <2>3, <2>4, <2>5 DEF Tasked
  <2>8. Blocks(c, t, kind, from, to, body)
    BY <2>6, <2>7, BlocksOne
  <2> QED BY <1>10, <2>1, <2>2, <2>3, <2>4, <2>6, <2>8
<1>11. CASE pc[c] = "rl_swap"
  <2>1. PICK from \in Rows \cup {None} : from = loc[c].snap
    BY <1>2, <1>4
  <2>2. PICK to \in Rows \cup {None} : to = encode_avail(loc[c].etag)
    BY <1>2, <1>3, <1>4
  <2>3. PICK body \in SUBSET (0 .. MaxVer) : body = {loc[c].old[Addr(c)]}
    BY <1>2, <1>4
  <2>4. PICK kind \in Kinds : kind = "swap"
    BY <1>7
  <2>5. PICK u : u = Task(c, "swap", loc[c].snap, encode_avail(loc[c].etag), {loc[c].old[Addr(c)]}, TRUE)
    OBVIOUS
  <2>6. Blocking(c) = {u}
    BY <1>11, <2>5 DEF Blocking, At
  <2>7. Tasked(c, u, kind, from, to, body)
    BY <2>1, <2>2, <2>3, <2>4, <2>5 DEF Tasked
  <2>8. Blocks(c, t, kind, from, to, body)
    BY <2>6, <2>7, BlocksOne
  <2> QED BY <1>11, <2>1, <2>2, <2>3, <2>4, <2>6, <2>8
<1>12. CASE pc[c] = "pub_swap"
  <2>1. PICK from \in Rows \cup {None} : from = loc[c].snap
    BY <1>2, <1>4
  <2>2. PICK to \in Rows \cup {None} : to = encode_avail(loc[c].etag)
    BY <1>2, <1>3, <1>4
  <2>3. PICK body \in SUBSET (0 .. MaxVer) : body = {}
    BY <1>2, <1>4
  <2>4. PICK kind \in Kinds : kind = "swap"
    BY <1>7
  <2>5. PICK u : u = Task(c, "swap", loc[c].snap, encode_avail(loc[c].etag), {}, FALSE)
    OBVIOUS
  <2>6. Blocking(c) = {u}
    BY <1>12, <2>5 DEF Blocking, At
  <2>7. Tasked(c, u, kind, from, to, body)
    BY <2>1, <2>2, <2>3, <2>4, <2>5 DEF Tasked
  <2>8. Blocks(c, t, kind, from, to, body)
    BY <2>6, <2>7, BlocksOne
  <2> QED BY <1>12, <2>1, <2>2, <2>3, <2>4, <2>6, <2>8
<1>13. CASE pc[c] = "restore"
  <2>1. PICK from \in Rows \cup {None} : from = None
    BY <1>2, <1>4
  <2>2. PICK to \in Rows \cup {None} : to = loc[c].kept
    BY <1>2, <1>3, <1>4
  <2>3. PICK body \in SUBSET (0 .. MaxVer) : body = {}
    BY <1>2, <1>4
  <2>4. PICK kind \in Kinds : kind = "swap"
    BY <1>7
  <2>5. PICK u : u = Task(c, "swap", None, loc[c].kept, {}, FALSE)
    OBVIOUS
  <2>6. Blocking(c) = {u}
    BY <1>13, <2>5 DEF Blocking, At
  <2>7. Tasked(c, u, kind, from, to, body)
    BY <2>1, <2>2, <2>3, <2>4, <2>5 DEF Tasked
  <2>8. Blocks(c, t, kind, from, to, body)
    BY <2>6, <2>7, BlocksOne
  <2> QED BY <1>13, <2>1, <2>2, <2>3, <2>4, <2>6, <2>8
<1>14. CASE pc[c] \in {"arm_clear", "pub_remove", "rl_remove"}
  <2>1. PICK from \in Rows \cup {None} : from = None
    BY <1>2, <1>4
  <2>2. PICK to \in Rows \cup {None} : to = None
    BY <1>2, <1>3, <1>4
  <2>3. PICK body \in SUBSET (0 .. MaxVer) : body = {}
    BY <1>2, <1>4
  <2>4. PICK kind \in Kinds \ {"swap"} : kind = "remove"
    BY <1>7
  <2>5. PICK u : u = Task(c, "remove", None, None, {}, FALSE)
    OBVIOUS
  <2>6. Blocking(c) = {u}
    BY <1>14, <2>5 DEF Blocking, At
  <2>7. Tasked(c, u, kind, from, to, body)
    BY <2>1, <2>2, <2>3, <2>4, <2>5 DEF Tasked
  <2>8. Blocks(c, t, kind, from, to, body)
    BY <2>6, <2>7, BlocksOne
  <2> QED BY <2>1, <2>2, <2>8
<1>15. CASE pc[c] = "cl_remove"
  <2>1. PICK from \in Rows \cup {None} : from = None
    BY <1>2, <1>4
  <2>2. PICK to \in Rows \cup {None} : to = None
    BY <1>2, <1>3, <1>4
  <2>3. PICK body \in SUBSET (0 .. MaxVer) : body = loc[c].body
    BY <1>2, <1>4
  <2>4. PICK kind \in Kinds \ {"swap"} : kind = "take"
    BY <1>7
  <2>5. PICK u : u = Task(c, "take", None, None, loc[c].body, FALSE)
    OBVIOUS
  <2>6. Blocking(c) = {u}
    BY <1>15, <2>5 DEF Blocking, At
  <2>7. Tasked(c, u, kind, from, to, body)
    BY <2>1, <2>2, <2>3, <2>4, <2>5 DEF Tasked
  <2>8. Blocks(c, t, kind, from, to, body)
    BY <2>6, <2>7, BlocksOne
  <2> QED BY <2>1, <2>2, <2>8
<1>16. CASE pc[c] \in {"tee_commit", "wt_commit"}
  <2>1. PICK from \in Rows \cup {None} : from = None
    BY <1>2, <1>4
  <2>2. PICK to \in Rows \cup {None} : to = None
    BY <1>2, <1>3, <1>4
  <2>3. PICK body \in SUBSET (0 .. MaxVer) : body = {loc[c].etag}
    BY <1>2, <1>4
  <2>4. PICK kind \in Kinds \ {"swap"} : kind = "fill"
    BY <1>7
  <2>5. PICK u : u = Task(c, "fill", None, None, {loc[c].etag}, FALSE)
    OBVIOUS
  <2>6. Blocking(c) = {u}
    BY <1>16, <2>5 DEF Blocking, At
  <2>7. Tasked(c, u, kind, from, to, body)
    BY <2>1, <2>2, <2>3, <2>4, <2>5 DEF Tasked
  <2>8. Blocks(c, t, kind, from, to, body)
    BY <2>6, <2>7, BlocksOne
  <2> QED BY <2>1, <2>2, <2>8
<1>17. CASE pc[c] \in {"cl_body", "live_body"}
  <2>1. PICK from \in Rows \cup {None} : from = None
    BY <1>2, <1>4
  <2>2. PICK to \in Rows \cup {None} : to = None
    BY <1>2, <1>3, <1>4
  <2>3. PICK body \in SUBSET (0 .. MaxVer) : body = loc[c].body
    BY <1>2, <1>4
  <2>4. PICK kind \in Kinds \ {"swap"} : kind = "reclaim"
    BY <1>7
  <2>5. PICK u : u = Task(c, "reclaim", None, None, loc[c].body, FALSE)
    OBVIOUS
  <2>6. Blocking(c) = {u}
    BY <1>17, <2>5 DEF Blocking, At
  <2>7. Tasked(c, u, kind, from, to, body)
    BY <2>1, <2>2, <2>3, <2>4, <2>5 DEF Tasked
  <2>8. Blocks(c, t, kind, from, to, body)
    BY <2>6, <2>7, BlocksOne
  <2> QED BY <2>1, <2>2, <2>8
<1>18. CASE pc[c] \notin {"seed", "cl_swap", "live_swap", "discard", "rl_swap", "pub_swap", "restore", "arm_clear",
                          "pub_remove", "rl_remove", "cl_remove", "tee_commit", "wt_commit", "cl_body", "live_body"}
  <2>1. Blocking(c) = {}
    BY <1>18 DEF Blocking, At
  <2> QED BY <2>1
<1> QED BY <1>8, <1>9, <1>10, <1>11, <1>12, <1>13, <1>14, <1>15, <1>16, <1>17, <1>18

(* A publish whose outcome is unknown.                                      *)
LEMMA PublishFails ==
  ASSUME Inv, NEW c \in Clients, pc[c] = "pub_swap", Continue(c, "pub_remove", loc[c]), UNCHANGED <<world, tasks, sc>>, BodyOK',
         NEW r \in Rows, Fresh(r), Named(r) = loc[c].etag, row[Addr(c)] = loc[c].snap, SetRow(Addr(c), r)
  PROVE  Inv'
<1>1. pc[c] \in WritingThrough /\ pc[c] \in Publishing /\ pc[c] \in Late
  BY DEF WritingThrough, Publishing, Late
<1>2. /\ loc[c] \in Locals /\ Addr(c) \in Addrs /\ Shape(pc[c], loc[c]) /\ pc[c] # "idle"
      /\ loc[c].etag >= loc[c].ver[Addr(c)] /\ {loc[c].snap, loc[c].seen, loc[c].kept} \subseteq KnownRows
  BY <1>1, AtWrite
<1>3. loc[c].snap # None
  BY <1>2 DEF Shape
<1>4. Guarded => AtLeast(Addr(c), Named(r))
  BY <1>1, <1>3 DEF Inv, SafeInv, PubInv
<1>5. Shape("pub_remove", loc[c])
  <2>1. /\ "pub_remove" \notin Clearing \cup Sweeping \cup Dropping \cup Arming \cup Reading \cup WritingThrough
        /\ "pub_remove" \in Late
    BY DEF Clearing, Sweeping, Dropping, Arming, Reading, WritingThrough, Late
  <2> QED BY <1>1, <1>2, <2>1, AtWrite DEF Shape
<1>6. Settles(c, "pub_remove", loc[c], Addr(c))
  <2>1. Owed("pub_remove", loc[c]) = Elems(loc[c].addrs)
    BY DEF Owed
  <2> QED BY <1>1, <2>1, AtWrite DEF Settles
<1>7. Pledged("pub_remove", loc[c]) /\ Keeps("pub_remove", loc[c]) /\ Answers("pub_remove", loc[c]) /\ "pub_remove" \in Labels
  BY DEF Pledged, Keeps, Answers, Publishing, WritingThrough, Labels, Awaits
<1>8. Moves(c, "pub_remove", loc[c]) /\ UNCHANGED floor /\ MiscOK'
  BY DEF Continue, Goto, Moves, MiscOK, BodyOK, Inv, TypeOK
<1>9. {loc[c].snap, loc[c].seen, loc[c].kept} \subseteq KnownRows \cup {None, r}
  BY <1>2
<1> QED BY <1>2, <1>4, <1>5, <1>6, <1>7, <1>8, <1>9, Writes

LEMMA SwapFailsStep ==
  ASSUME Inv, NEW c \in Clients, SwapFails(c)
  PROVE  Inv'
<1>1. UNCHANGED <<world, content, tasks, ops, sc>> /\ Mishap("swap") /\ NonceLeft
  BY DEF SwapFails
<1>2. PICK t \in Blocking(c) :
        /\ t.kind = "swap"
        /\ UNCHANGED row \/ (row[t.addr] = t.from /\ SetRow(t.addr, t.to)) \/ (pc[c] = "live_swap" /\ SetRow(t.addr, None))
        /\ \/ pc[c] = "seed" /\ Snapped(c, loc[c])
           \/ pc[c] \in {"discard", "restore"} /\ Return(c)
           \/ pc[c] = "rl_swap" /\ Continue(c, "rl_remove", loc[c])
           \/ pc[c] = "pub_swap" /\ Continue(c, "pub_remove", loc[c])
           \/ pc[c] = "cl_swap" /\ Continue(c, "cl_remove", [loc[c] EXCEPT !.body = t.body, !.seen = None])
           \/ pc[c] = "live_swap" /\ Continue(c, "live_body", [loc[c] EXCEPT !.body = t.body])
  BY DEF SwapFails, At
<1>3. BodyOK' /\ TasksOK
  BY <1>1, MishapOK, TasksKept
<1>4. pc[c] # "idle"
  BY <1>2
<1>5. /\ loc[c] \in Locals /\ loc[c].etag \in 0 .. MaxVer /\ Addr(c) \in Addrs
      /\ {loc[c].snap, loc[c].seen, loc[c].kept} \subseteq KnownRows
  <2>1. loc[c] \in Locals
    BY <1>4, Here
  <2> QED BY <1>4, <2>1, Here DEF Locals
<1>6. /\ Fresh(encode_avail(0)) /\ Named(encode_avail(0)) = 0 /\ encode_avail(0) \in Rows
      /\ Fresh(encode_avail(loc[c].etag)) /\ Named(encode_avail(loc[c].etag)) = loc[c].etag /\ encode_avail(loc[c].etag) \in Rows
  <2>1. 0 \in 0 .. MaxVer
    BY BoundsAssumption
  <2> QED BY <1>1, <1>5, <2>1, Encoded DEF Fresh
<1>7. /\ t \in TaskRecords /\ t.addr = Target(c)
      /\ pc[c] = "seed" => t.to = encode_avail(0)
      /\ pc[c] \in {"cl_swap", "live_swap"} => t.to = encode_avail(0)
      /\ pc[c] = "discard" => t.to = None
      /\ pc[c] \in {"rl_swap", "pub_swap"} => t.to = encode_avail(loc[c].etag) /\ t.from = loc[c].snap
      /\ pc[c] = "restore" => t.to = loc[c].kept
  BY <1>1, <1>2, <1>4, BlocksOn DEF Blocks
<1>8. t.body \in SUBSET (0 .. MaxVer)
  BY <1>7 DEF TaskRecords
<1>9. CASE pc[c] = "seed" /\ Snapped(c, loc[c])
  <2>1. loc[c].op \in {"read", "write"}
    <3>1. Shape(pc[c], loc[c])
      BY <1>4, Here
    <3> QED BY <1>9, <3>1 DEF Shape
  <2>2. t.addr = Addr(c)
    BY <1>4, <1>7, <2>1, TargetOf
  <2>3. PICK r \in Rows : r = encode_avail(0)
    BY <1>6
  <2>4. UNCHANGED row \/ SetRow(Addr(c), r)
    BY <1>2, <1>7, <1>9, <2>2, <2>3
  <2>5. {loc[c].snap, loc[c].seen} \subseteq KnownRows \cup {None, r} /\ {loc[c].snap, loc[c].seen} \subseteq KnownRows \cup {None, None}
    BY <1>5
  <2>6. CASE UNCHANGED row
    BY <1>1, <1>3, <1>5, <1>9, <2>5, <2>6, SnapsOn DEF Same
  <2>7. CASE SetRow(Addr(c), r)
    <3>1. Fresh(r) /\ Named(r) = 0
      BY <1>6, <2>3
    <3> QED BY <1>1, <1>3, <1>5, <1>9, <2>5, <2>7, <3>1, SnapsOn DEF Same
  <2> QED BY <2>4, <2>6, <2>7
<1>10. CASE pc[c] = "discard" /\ Return(c)
  <2>1. pc[c] \in Reading
    BY <1>10 DEF Reading
  <2>2. loc[c].op = "read" /\ loc[c].ver = NoVersions
    BY <2>1, AtRead
  <2>3. t.addr = Addr(c)
    BY <1>4, <1>7, <2>2, TargetOf
  <2>4. UNCHANGED row \/ SetRow(Addr(c), None)
    BY <1>2, <1>7, <1>10, <2>3
  <2> QED BY <1>1, <1>3, <1>4, <1>5, <1>10, <2>2, <2>4, Returns
<1>11. CASE pc[c] = "restore" /\ Return(c)
  <2>1. loc[c].op = "continue"
    <3>1. Shape(pc[c], loc[c])
      BY <1>4, Here
    <3> QED BY <1>11, <3>1 DEF Shape
  <2>2. t.addr = Addr(c)
    BY <1>4, <1>7, <2>1, TargetOf
  <2>3. UNCHANGED row \/ SetRow(Addr(c), loc[c].kept)
    BY <1>2, <1>7, <1>11, <2>2
  <2> QED BY <1>1, <1>3, <1>11, <2>3, Restores
<1>12. CASE pc[c] = "rl_swap" /\ Continue(c, "rl_remove", loc[c])
  <2>1. pc[c] \in Reading /\ pc[c] \in Publishing
    BY <1>12 DEF Reading, Publishing
  <2>2. loc[c].op = "read" /\ loc[c].ver = NoVersions
    BY <2>1, AtRead
  <2>3. t.addr = Addr(c)
    BY <1>4, <1>7, <2>2, TargetOf
  <2>4. "rl_remove" \in Reading \ (Publishing \cup {"lookup", "hit"})
    BY DEF Reading, Publishing, WritingThrough
  <2>5. PICK r \in Rows : r = encode_avail(loc[c].etag)
    BY <1>6
  <2>6. CASE UNCHANGED row
    <3>1. Goto(c, "rl_remove", loc[c]) /\ UNCHANGED gens /\ "rl_remove" \in (Reading \cup {"snap", "seed"}) \ (Publishing \cup {"lookup", "hit"})
      BY <1>12, <2>4 DEF Continue
    <3> QED BY <1>1, <1>3, <2>1, <2>6, <3>1, AtRead, ReadsOn
  <2>7. CASE row[Addr(c)] = loc[c].snap /\ SetRow(Addr(c), r)
    <3>1. ASSUME Guarded PROVE AtLeast(Addr(c), Named(r))
      <4>1. loc[c].snap # None
        <5>1. Shape(pc[c], loc[c])
          BY <1>4, Here
        <5> QED BY <1>12, <5>1 DEF Shape
      <4> QED BY <1>6, <2>1, <2>5, <2>7, <3>1, <4>1 DEF Inv, SafeInv, PubInv
    <3>2. Fresh(r) /\ Alike(loc[c], loc[c])
      BY <1>6, <2>5 DEF Alike
    <3> QED BY <1>1, <1>3, <1>4, <1>5, <1>12, <2>2, <2>4, <2>7, <3>1, <3>2, ReadWrites
  <2> QED BY <1>2, <1>7, <1>12, <2>3, <2>5, <2>6, <2>7
<1>13. CASE pc[c] = "pub_swap" /\ Continue(c, "pub_remove", loc[c])
  <2>1. pc[c] \in WritingThrough
    BY <1>13 DEF WritingThrough
  <2>2. t.addr = Addr(c)
    BY <1>4, <1>7, <2>1, AtWrite, TargetOf
  <2>3. PICK r \in Rows : r = encode_avail(loc[c].etag)
    BY <1>6
  <2>4. CASE UNCHANGED row
    <3>1. Goto(c, "pub_remove", loc[c]) /\ gens' \in [Hosts -> [Addrs -> [refs : Nat, gen : Nat]]]
      BY <1>13 DEF Continue, Inv, TypeOK
    <3> QED BY <1>1, <1>3, <2>1, <2>4, <3>1, WritesOn
  <2>5. CASE row[Addr(c)] = loc[c].snap /\ SetRow(Addr(c), r)
    <3>1. Fresh(r) /\ Named(r) = loc[c].etag
      BY <1>6, <2>3
    <3> QED BY <1>1, <1>3, <1>13, <2>5, <3>1, PublishFails
  <2> QED BY <1>2, <1>7, <1>13, <2>2, <2>3, <2>4, <2>5
<1>14. CASE pc[c] = "cl_swap" /\ Continue(c, "cl_remove", [loc[c] EXCEPT !.body = t.body, !.seen = None])
  <2> DEFINE m == [loc[c] EXCEPT !.body = t.body, !.seen = None]
  <2>1. pc[c] \in Clearing /\ pc[c] \in Uncleared /\ "cl_remove" \in Clearing /\ "cl_remove" \in Uncleared
    BY <1>14 DEF Clearing, Uncleared
  <2>2. m \in Locals /\ Same(c, m) /\ m.todo = loc[c].todo /\ m.guards = loc[c].guards /\ m.snap = loc[c].snap /\ m.seen = None
    BY <1>5, <1>8 DEF Locals, Same
  <2>3. Continue(c, "cl_remove", m)
    BY <1>14
  <2> HIDE DEF m
  <2>4. t.addr = Head(loc[c].todo)
    BY <1>4, <1>7, <2>1, TargetOf
  <2>5. UNCHANGED row \/ SetRow(Head(loc[c].todo), encode_avail(0))
    BY <1>2, <1>7, <1>14, <2>4
  <2> QED BY <1>1, <1>3, <1>6, <2>1, <2>2, <2>3, <2>5, ClearsOn
<1>15. CASE pc[c] = "live_swap" /\ Continue(c, "live_body", [loc[c] EXCEPT !.body = t.body])
  <2> DEFINE m == [loc[c] EXCEPT !.body = t.body]
  <2>1. pc[c] \in Reading
    BY <1>15 DEF Reading
  <2>2. loc[c].op = "read" /\ loc[c].ver = NoVersions
    BY <2>1, AtRead
  <2>3. t.addr = Addr(c)
    BY <1>4, <1>7, <2>2, TargetOf
  <2>4. m \in Locals /\ Same(c, m) /\ Alike(m, loc[c])
    BY <1>5, <1>8 DEF Locals, Same, Alike
  <2>5. Continue(c, "live_body", m)
    BY <1>15
  <2> HIDE DEF m
  <2>6. "live_body" \in Reading \ (Publishing \cup {"lookup", "hit"})
    BY DEF Reading, Publishing, WritingThrough
  <2>7. CASE UNCHANGED row
    <3>1. Goto(c, "live_body", m) /\ UNCHANGED gens /\ "live_body" \in (Reading \cup {"snap", "seed"}) \ (Publishing \cup {"lookup", "hit"})
      BY <2>5, <2>6 DEF Continue
    <3>2. m.todo = loc[c].todo /\ m.guards = loc[c].guards /\ {m.snap, m.seen} \subseteq KnownRows \cup {None}
      BY <1>5, <2>4 DEF Alike
    <3> QED BY <1>1, <1>3, <1>4, <2>2, <2>4, <2>7, <3>1, <3>2, ReadsOn
  <2>8. ASSUME NEW r \in Rows \cup {None}, r = None \/ Fresh(r), Named(r) = 0, SetRow(Addr(c), r) PROVE Inv'
    BY <1>1, <1>3, <1>4, <2>2, <2>4, <2>5, <2>6, <2>8, ReadWrites
  <2> QED BY <1>2, <1>6, <1>7, <1>15, <2>3, <2>7, <2>8, Names
<1> QED BY <1>2, <1>9, <1>10, <1>11, <1>12, <1>13, <1>14, <1>15
-----------------------------------------------------------------------------
(* Cancellation.                                                            *)

(* What may be cancelled, where the restriction holds.                      *)
LEMMA Cancellable ==
  ASSUME Inv, Guarded, "cancel" \in sc.mishaps, NEW c \in Clients, pc[c] # "idle"
  PROVE  loc[c].op \notin {"tree", "rename", "continue"}
<1>1. Allowed(loc[c]) /\ sc \in Scenarios
  BY Here DEF Inv, TypeOK
<1> QED BY <1>1 DEF Allowed, Guarded

LEMMA Detaches ==
  ASSUME Inv, NEW c \in Clients, pc[c] # "idle", NonceLeft, "cancel" \in sc.mishaps, tasks' = tasks \cup Blocking(c),
         UNCHANGED row
  PROVE  TasksOK
<1>1. \A t \in Blocking(c) : t \in TaskRecords /\ \A u \in Blocking(c) : u = t
  BY BlocksOn DEF Blocks
<1>2. tasks' \subseteq TaskRecords
  BY <1>1 DEF Inv, TypeOK
<1>3. /\ loc[c] \in Locals /\ loc[c].etag \in 0 .. MaxVer /\ Addr(c) \in Addrs /\ Shape(pc[c], loc[c])
      /\ {loc[c].snap, loc[c].seen, loc[c].kept} \subseteq KnownRows
  <2>1. loc[c] \in Locals
    BY Here
  <2> QED BY <2>1, Here DEF Locals
<1>4. /\ Fresh(encode_avail(0)) /\ Named(encode_avail(0)) = 0
      /\ Fresh(encode_avail(loc[c].etag)) /\ encode_avail(loc[c].etag).etag = loc[c].etag
  <2>1. 0 \in 0 .. MaxVer
    BY BoundsAssumption
  <2> QED BY <1>3, <2>1, Encoded
<1>5. ASSUME Guarded, NEW t \in Blocking(c)
      PROVE  /\ t.from \in KnownRows \cup {None}
             /\ t.kind = "swap" =>
                  /\ t.to = None \/ Fresh(t.to)
                  /\ Named(t.to) # 0 => t.from # None /\ (row[t.addr] = t.from => AtLeast(t.addr, t.to.etag))
  <2>1. CASE pc[c] = "seed" /\ Blocks(c, t, "swap", None, encode_avail(0), {})
    BY <1>4, <2>1 DEF Blocks
  <2>2. CASE pc[c] \in {"cl_swap", "live_swap"} /\ Blocks(c, t, "swap", loc[c].seen, encode_avail(0), {Named(loc[c].seen)})
    BY <1>3, <1>4, <2>2 DEF Blocks
  <2>3. CASE pc[c] = "discard" /\ Blocks(c, t, "swap", loc[c].snap, None, {})
    BY <1>3, <2>3, Names DEF Blocks
  <2>4. ASSUME pc[c] \in {"rl_swap", "pub_swap"}, NEW body, Blocks(c, t, "swap", loc[c].snap, encode_avail(loc[c].etag), body)
        PROVE  /\ t.from \in KnownRows /\ Fresh(t.to) /\ t.from # None
               /\ (row[t.addr] = t.from => AtLeast(t.addr, t.to.etag))
    <3>1. t.from = loc[c].snap /\ t.to = encode_avail(loc[c].etag) /\ t.addr = Target(c)
      BY <2>4 DEF Blocks
    <3>2. loc[c].snap # None /\ loc[c].op \in {"read", "write"}
      BY <1>3, <2>4 DEF Shape, Reading, WritingThrough
    <3>3. t.addr = Addr(c)
      BY <3>1, <3>2, TargetOf
    <3>4. pc[c] \in Publishing
      BY <2>4 DEF Publishing, WritingThrough
    <3>5. row[Addr(c)] = loc[c].snap => AtLeast(Addr(c), loc[c].etag)
      BY <1>5, <3>2, <3>4 DEF Inv, SafeInv, PubInv
    <3> QED BY <1>3, <1>4, <3>1, <3>2, <3>3, <3>5
  <2>5. pc[c] # "restore"
    <3>1. loc[c].op # "continue"
      BY <1>5, Cancellable
    <3> QED BY <1>3, <3>1 DEF Shape
  <2>6. ASSUME NEW kind \in Kinds \ {"swap"}, NEW body, Blocks(c, t, kind, None, None, body) PROVE t.from = None /\ t.kind # "swap"
    BY <2>6 DEF Blocks
  <2> QED BY <2>1, <2>2, <2>3, <2>4, <2>5, <2>6, BlocksOn
<1>6. Guarded => TasksSafe
  BY <1>1, <1>5 DEF TasksSafe
<1> QED BY <1>2, <1>6 DEF TasksOK

LEMMA CancelStep ==
  ASSUME Inv, NEW c \in Clients, Cancel(c)
  PROVE  Inv'
<1>1. /\ pc[c] \in Awaits /\ loc[c].op \notin {"watch", "watchdel", "lapse"} /\ Mishap("cancel") /\ NonceLeft
      /\ tasks' = tasks \cup Blocking(c) /\ UNCHANGED <<world, row, content, ops, sc>>
      /\ IF pc[c] = "rl_swap" THEN Return(c) ELSE Unwind(c, loc[c])
  BY DEF Cancel, At
<1>2. pc[c] # "idle" /\ BodyOK' /\ "cancel" \in sc.mishaps
  BY <1>1, MishapOK DEF Awaits
<1>3. TasksOK
  BY <1>1, <1>2, Detaches
<1>4. CASE pc[c] = "rl_swap"
  <2>1. pc[c] \in Reading
    BY <1>4 DEF Reading
  <2> QED BY <1>1, <1>2, <1>3, <1>4, <2>1, AtRead, Returns
<1>5. CASE pc[c] # "rl_swap"
  <2>1. Unwind(c, loc[c]) /\ loc[c] \in Locals /\ Shape(pc[c], loc[c]) /\ loc[c].op \in OpNames
        /\ {loc[c].snap, loc[c].seen} \subseteq KnownRows \cup {None}
    <3>1. loc[c] \in Locals
      BY <1>2, Here
    <3> QED BY <1>1, <1>2, <1>5, <3>1, Here DEF Locals
  <2>2. pc[c] \in Reading \cup {"snap", "seed", "restore", "pub_remove"} \cup Arming \cup WritingThrough \cup Clearing
    BY <1>1 DEF Awaits, Reading, Arming, WritingThrough, Clearing
  <2>3. loc[c].op \in Mutations \cup {"read"}
    <3>1. loc[c].op # "none"
      BY <2>1, <2>2 DEF Shape, Mutations
    <3> QED BY <1>1, <2>1, <3>1 DEF OpNames, Mutations
  <2>4. ASSUME Guarded PROVE loc[c].ver = NoVersions \/ Owed(pc[c], loc[c]) \subseteq Elems(loc[c].guards)
    <3>1. CASE pc[c] \in Clearing
      <4>1. CASE loc[c].op = "read"
        BY <3>1, <4>1, AtClear
      <4>2. CASE loc[c].op # "read"
        <5>1. loc[c].op \notin Trees
          BY <1>1, <1>2, <2>3, <2>4, <4>2, Cancellable DEF Trees, Mutations
        <5>2. Owed(pc[c], loc[c]) \subseteq Elems(loc[c].todo)
          <6>1. Elems(loc[c].todo) = {Head(loc[c].todo)} \cup Elems(Tail(loc[c].todo)) /\ Swept(loc[c]) = {}
            BY <3>1, <5>1, AtClear DEF Swept
          <6> QED BY <3>1, <6>1 DEF Owed, Clearing
        <5> QED BY <2>3, <3>1, <4>2, <5>2, AtClear
      <4> QED BY <4>1, <4>2
    <3>2. CASE pc[c] \in WritingThrough \cup {"pub_remove"}
      BY <3>2, AtWrite
    <3>3. CASE pc[c] \notin Clearing \cup WritingThrough \cup {"pub_remove"}
      <4>1. pc[c] \notin Late
        BY <2>2, <3>3 DEF Late, Reading, Arming, Sweeping, Dropping
      <4> QED BY <2>1, <4>1 DEF Shape
    <3> QED BY <3>1, <3>2, <3>3
  <2> QED BY <1>1, <1>2, <1>3, <2>1, <2>3, <2>4, Unwinds
<1> QED BY <1>4, <1>5
-----------------------------------------------------------------------------
(* What happens behind the clients' backs.                                  *)

(* A row stays, goes, or is written by a task that is done with it.         *)
Behind ==
  /\ UNCHANGED <<pc, loc, floor>>
  /\ \A u \in tasks' : u.from \in KnownRows /\ (u.kind = "swap" => u \in tasks)
  /\ \A b \in Addrs :
       \/ row'[b] = row[b]
       \/ row'[b] = None
       \/ \E t \in tasks : t \notin tasks' /\ t.kind = "swap" /\ t.addr = b /\ row[b] = t.from /\ row'[b] = t.to

LEMMA BehindSafe ==
  ASSUME TypeOK, LocalInv, SafeInv, Behind
  PROVE  SafeInv'
<1>1. \A v : \A b \in Addrs : AtLeast(b, v) => Later(b, v)
  BY DEF AtLeast, Later, Behind
<1>2. ASSUME NEW b \in Addrs, NEW r \in KnownRows, r # None, row'[b] = r PROVE row[b] = r
  BY <1>2 DEF Behind, SafeInv, NonceInv
<1>3. RowInv'
  <2> SUFFICES ASSUME NEW b \in Addrs, Named(row'[b]) # 0 PROVE Later(b, Named(row'[b]))
    BY DEF RowInv, AtLeast, Later
  <2>1. CASE row'[b] = row[b]
    BY <1>1, <2>1 DEF SafeInv, RowInv
  <2>2. ASSUME NEW t \in tasks, t.kind = "swap", t.addr = b, row[b] = t.from, row'[b] = t.to PROVE Later(b, Named(row'[b]))
    <3>1. t \in TaskRecords
      BY DEF TypeOK
    <3>2. t.to \in Rows \cup {None}
      BY <3>1 DEF TaskRecords
    <3>3. Named(t.to) = t.to.etag
      BY <2>2, <3>2, Names
    <3>4. AtLeast(b, t.to.etag)
      BY <2>2 DEF SafeInv, TaskInv
    <3>5. PICK v : v = t.to.etag
      OBVIOUS
    <3> QED BY <1>1, <2>2, <3>3, <3>4, <3>5
  <2> QED BY <2>1, <2>2, Names DEF Behind
<1>4. PubInv'
  <2> SUFFICES ASSUME NEW e \in Clients, pc[e] \in Publishing, loc[e].snap # None, row'[loc[e].addrs[1]] = loc[e].snap
               PROVE  Later(loc[e].addrs[1], loc[e].etag)
    BY DEF PubInv, Addr, AtLeast, Later, Behind
  <2>4. loc[e].addrs[1] \in Addrs
    <3>1. pc[e] # "idle" /\ Shape(pc[e], loc[e]) /\ loc[e] \in Locals
      BY DEF LocalInv, TypeOK, Publishing, WritingThrough
    <3>2. loc[e].addrs # <<>> /\ loc[e].addrs \in Seq(Addrs)
      BY <3>1 DEF Shape, Locals
    <3> QED BY <3>2, ElemsOf
  <2>1. loc[e].snap \in KnownRows
    BY DEF KnownRows
  <2>2. row[loc[e].addrs[1]] = loc[e].snap
    BY <1>2, <2>1, <2>4
  <2>3. AtLeast(loc[e].addrs[1], loc[e].etag)
    BY <2>2 DEF SafeInv, PubInv, Addr
  <2> QED BY <1>1, <2>3, <2>4
<1>5. TaskInv'
  <2> SUFFICES ASSUME NEW t \in tasks', t.kind = "swap", Named(t.to) # 0
               PROVE  t.from # None /\ (row'[t.addr] = t.from => Later(t.addr, t.to.etag))
    BY DEF TaskInv, AtLeast, Later
  <2>1. t \in tasks /\ t.from \in KnownRows
    BY DEF Behind
  <2>2. t.from # None /\ (row[t.addr] = t.from => AtLeast(t.addr, t.to.etag))
    BY <2>1 DEF SafeInv, TaskInv
  <2>3. t.addr \in Addrs
    BY <2>1 DEF TypeOK, TaskRecords
  <2> QED BY <1>1, <1>2, <2>1, <2>2, <2>3
<1>6. NonceInv'
  <2> SUFFICES ASSUME NEW t \in tasks', t.kind = "swap", t.to # None
               PROVE  /\ t.to \notin KnownRows'
                      /\ \A u \in tasks' : u.kind = "swap" /\ u.to = t.to => u = t
    BY DEF NonceInv
  <2>1. t \in tasks
    BY DEF Behind
  <2>2. t.to \notin KnownRows /\ \A u \in tasks : u.kind = "swap" /\ u.to = t.to => u = t
    BY <2>1 DEF SafeInv, NonceInv
  <2>3. \A u \in tasks' : u.kind = "swap" /\ u.to = t.to => u = t
    BY <2>2 DEF Behind
  <2>4. \A b \in Addrs : row[b] \in KnownRows
    BY DEF KnownRows
  <2>5. \A b \in Addrs : row'[b] # t.to
    BY <2>2, <2>4 DEF Behind
  <2>6. \A e \in Clients : {loc[e].snap, loc[e].seen, loc[e].kept} \subseteq KnownRows /\ loc'[e] = loc[e]
    BY DEF KnownRows, Behind
  <2>7. \A u \in tasks' : u.from \in KnownRows
    BY DEF Behind
  <2>8. t.to \notin KnownRows'
    BY <2>2, <2>5, <2>6, <2>7 DEF KnownRows
  <2> QED BY <2>3, <2>8
<1>7. KeptInv' /\ FreshInv'
  BY DEF KeptInv, FreshInv, SafeInv, Addr, Behind
<1> QED BY <1>3, <1>4, <1>5, <1>6, <1>7 DEF SafeInv

LEMMA RunTaskStep ==
  ASSUME Inv, NEW t \in tasks, RunTask(t)
  PROVE  Inv' /\ Behind /\ UNCHANGED <<backend, sc>>
<1> DEFINE new(kind, body) == [t EXCEPT !.kind = kind, !.body = body]
<1>1. /\ UNCHANGED <<world, gens, pc, loc, floor, bounds>>
      /\ \/ /\ t.kind = "swap" /\ row[t.addr] = t.from /\ SetRow(t.addr, t.to) /\ UNCHANGED content
            /\ tasks' = (tasks \ {t}) \cup {new("reclaim", t.body)}
         \/ /\ UNCHANGED <<row, content>> /\ tasks' = (tasks \ {t}) \cup {new("drop", t.body)}
         \/ UNCHANGED <<row, content>> /\ tasks' = tasks \ {t}
         \/ /\ SetRow(t.addr, None) /\ UNCHANGED content
            /\ \/ tasks' = (tasks \ {t}) \cup {new("reclaim", t.body \cup {Named(row[t.addr])})}
               \/ tasks' = (tasks \ {t}) \cup {new("reclaim", t.body)}
         \/ /\ content' = [content EXCEPT ![t.addr] = @ \cup t.body] /\ UNCHANGED row
            /\ tasks' = tasks \ {t}
         \/ DropBodies(t.addr, t.body) /\ UNCHANGED row /\ tasks' = tasks \ {t}
  BY Zenon DEF RunTask
<1>2. t \in TaskRecords
  BY DEF Inv, TypeOK
<1>3. /\ t.addr \in Addrs /\ t.to \in Rows \cup {None} /\ t.body \in SUBSET (0 .. MaxVer)
      /\ row[t.addr] \in Rows \cup {None}
  BY <1>2 DEF TaskRecords, Inv, TypeOK
<1>4. t.body \cup {Named(row[t.addr])} \in SUBSET (0 .. MaxVer)
  BY <1>3, Names
<1>5. ASSUME NEW kind \in {"reclaim", "drop"}, NEW body \in SUBSET (0 .. MaxVer)
      PROVE  new(kind, body) \in TaskRecords /\ new(kind, body).kind = kind /\ new(kind, body).from = t.from
  BY <1>2 DEF TaskRecords
<1>6. tasks' = tasks \ {t} \/ \E u \in TaskRecords : u.kind \in {"reclaim", "drop"} /\ u.from = t.from /\ tasks' = (tasks \ {t}) \cup {u}
  <2>1. \A kind \in {"reclaim", "drop"}, body \in SUBSET (0 .. MaxVer) :
           new(kind, body) \in TaskRecords /\ new(kind, body).kind = kind /\ new(kind, body).from = t.from
    BY <1>5
  <2> HIDE DEF new
  <2> QED BY <1>1, <1>3, <1>4, <2>1
<1> HIDE DEF new
<1>7. tasks' \subseteq TaskRecords
  BY <1>6 DEF Inv, TypeOK
<1>8. content' \in [Addrs -> SUBSET (0 .. MaxVer)]
  BY <1>1, <1>3, BodiesOK DEF BodyOK
<1>9. row' \in [Addrs -> Rows \cup {None}]
  BY <1>1, <1>3 DEF Inv, TypeOK, SetRow
<1>10. TypeOK'
  BY <1>1, <1>7, <1>8, <1>9 DEF Inv, TypeOK, world, bounds
<1>11. LocalInv'
  BY <1>1 DEF Inv, LocalInv, Allowed, bounds
<1>12. VerInv'
  BY <1>1 DEF Inv, VerInv, world
<1>13. Behind
  <2>1. ASSUME NEW u \in tasks' PROVE u.from \in KnownRows /\ (u.kind = "swap" => u \in tasks)
    BY <1>6 DEF KnownRows
  <2>2. t.kind = "swap" => t \notin tasks'
    BY <1>6
  <2>3. row' = row \/ row' = [row EXCEPT ![t.addr] = None] \/ (t.kind = "swap" /\ row[t.addr] = t.from /\ row' = [row EXCEPT ![t.addr] = t.to])
    BY <1>1 DEF SetRow
  <2> QED BY <1>1, <1>3, <2>1, <2>2, <2>3 DEF Behind, Inv, TypeOK
<1>14. ASSUME Guarded PROVE SafeInv'
  BY <1>13, <1>14, BehindSafe DEF Inv
<1>15. UNCHANGED <<backend, sc>>
  BY <1>1 DEF world, bounds
<1> QED BY <1>10, <1>11, <1>12, <1>13, <1>14, <1>15 DEF Inv

LEMMA ExternalStep ==
  ASSUME Inv, NEW a \in Addrs, External(a)
  PROVE  Inv'
<1>1. PICK alive \in SUBSET {a} :
        Change({a}, alive) /\ events' = events \cup {[addr |-> a, ver |-> backend'[a].ver, del |-> alive = {}]}
  BY DEF External
<1>2. UNCHANGED <<row, content, gens, pc, loc, tasks, floor, bounds>>
  BY DEF External
<1>3. Changed({a})
  BY <1>1 DEF Changed
<1>4. /\ backend' \in [Addrs -> [ver : Versions, live : BOOLEAN]]
      /\ \A b \in Addrs : backend[b].ver \in Nat /\ backend'[b].ver \in Nat /\ backend[b].ver <= backend'[b].ver
  BY <1>3, ChangeOK, BoundsAssumption
<1> DEFINE n == [addr |-> a, ver |-> backend'[a].ver, del |-> alive = {}]
<1>5. n \in [addr : Addrs, ver : Versions, del : BOOLEAN] /\ n.addr = a /\ n.ver = backend'[a].ver
  BY <1>4
<1>6. TypeOK'
  BY <1>1, <1>2, <1>4, <1>5 DEF Inv, TypeOK, bounds
<1>7. LocalInv'
  BY <1>2 DEF Inv, LocalInv, Allowed, bounds
<1>8. VerInv'
  <2>1. \A b \in Addrs : floor[b] <= backend'[b].ver
    <3> TAKE b \in Addrs
    <3>1. floor[b] <= backend[b].ver /\ floor[b] \in Nat
      BY DEF Inv, VerInv, TypeOK, VersionMaps
    <3> QED BY <1>4, <3>1
  <2>2. ASSUME NEW c \in Clients, NEW b \in Addrs PROVE loc[c].ver[b] <= backend'[b].ver /\ loc[c].start[b] <= floor[b]
    <3>1. loc[c].ver[b] <= backend[b].ver /\ loc[c].start[b] <= floor[b]
      BY DEF Inv, VerInv
    <3>2. loc[c].ver \in VersionMaps
      BY DEF Inv, TypeOK, Locals
    <3>3. loc[c].ver[b] \in Nat
      BY <3>2 DEF VersionMaps
    <3> QED BY <1>4, <3>1, <3>3
  <2>3. ASSUME NEW e \in events' PROVE e.ver <= backend'[e.addr].ver
    <3>1. CASE e \in events
      <4>1. e \in [addr : Addrs, ver : Versions, del : BOOLEAN] /\ e.ver <= backend[e.addr].ver
        BY <3>1 DEF Inv, TypeOK, VerInv
      <4>2. e.addr \in Addrs /\ e.ver \in Nat
        BY <4>1 DEF Versions
      <4> QED BY <1>4, <4>1, <4>2
    <3>2. CASE e = n
      BY <1>4, <1>5, <3>2
    <3> QED BY <1>1, <3>1, <3>2
  <2> QED BY <1>2, <2>1, <2>2, <2>3 DEF VerInv
<1>9. ASSUME Guarded PROVE SafeInv'
  <2>1. Behind
    BY <1>2 DEF Behind, KnownRows
  <2> QED BY <1>9, <2>1, BehindSafe DEF Inv
<1> QED BY <1>6, <1>7, <1>8, <1>9 DEF Inv

LEMMA EvictStep ==
  ASSUME Inv, NEW a \in Addrs, Evict(a)
  PROVE  Inv' /\ Behind /\ UNCHANGED <<backend, sc>>
<1>1. /\ UNCHANGED <<world, gens, pc, loc, tasks, floor, bounds>>
      /\ \/ SetRow(a, None) /\ UNCHANGED content
         \/ (\E V : DropBodies(a, V)) /\ UNCHANGED row
  BY DEF Evict
<1>2. content' \in [Addrs -> SUBSET (0 .. MaxVer)]
  BY <1>1, BodiesOK DEF BodyOK
<1>3. row' \in [Addrs -> Rows \cup {None}] /\ \A b \in Addrs : row'[b] = row[b] \/ row'[b] = None
  BY <1>1 DEF Inv, TypeOK, SetRow
<1>4. TypeOK'
  BY <1>1, <1>2, <1>3 DEF Inv, TypeOK, world, bounds
<1>5. LocalInv'
  BY <1>1 DEF Inv, LocalInv, Allowed, bounds
<1>6. VerInv'
  BY <1>1 DEF Inv, VerInv, world
<1>7. Behind /\ UNCHANGED <<backend, sc>>
  BY <1>1, <1>3 DEF Behind, KnownRows, world, bounds
<1>8. ASSUME Guarded PROVE SafeInv'
  BY <1>7, <1>8, BehindSafe DEF Inv
<1> QED BY <1>4, <1>5, <1>6, <1>7, <1>8 DEF Inv

LEMMA IdleShape == Shape("idle", NoLocals) /\ NoLocals.op = "none"
  BY Nothing, ElemsOf DEF Shape, Late, Clearing, Sweeping, Dropping, Arming, WritingThrough, Reading

LEMMA CrashStep ==
  ASSUME Inv, NEW h \in Hosts, Crash(h)
  PROVE  Inv'
<1>1. /\ UNCHANGED <<world, row, content, floor, ops, sc>> /\ Mishap("crash")
      /\ tasks' = {t \in tasks : t.host # h}
      /\ gens' = [gens EXCEPT ![h] = [a \in Addrs |-> [refs |-> 0, gen |-> 0]]]
  BY DEF Crash
<1>2. ASSUME NEW c \in Clients PROVE (pc'[c] = "idle" /\ loc'[c] = NoLocals) \/ (pc'[c] = pc[c] /\ loc'[c] = loc[c])
  BY DEF Crash
<1>3. pc' \in [Clients -> Labels] /\ loc' \in [Clients -> Locals]
  BY Nothing DEF Crash, Inv, TypeOK, Labels
<1>4. gens' \in [Hosts -> [Addrs -> [refs : Nat, gen : Nat]]]
  <2> DEFINE z == [a \in Addrs |-> [refs |-> 0, gen |-> 0]]
  <2>1. z \in [Addrs -> [refs : Nat, gen : Nat]]
    OBVIOUS
  <2> HIDE DEF z
  <2>2. gens' = [gens EXCEPT ![h] = z]
    BY <1>1 DEF z
  <2> QED BY <2>1, <2>2 DEF Inv, TypeOK
<1>5. TypeOK'
  <2>1. BodyOK'
    BY <1>1, MishapOK
  <2> QED BY <1>1, <1>3, <1>4, <2>1 DEF Inv, TypeOK, BodyOK, world
<1>6. LocalInv'
  <2> SUFFICES ASSUME NEW c \in Clients
               PROVE  /\ Shape(pc'[c], loc'[c]) /\ Allowed(loc'[c])
                      /\ pc'[c] = "idle" => loc'[c] = NoLocals
                      /\ pc'[c] # "idle" => c \in sc.clients
                      /\ "cancel" \notin sc.mishaps => tasks' = {}
    BY <1>1 DEF LocalInv, Allowed
  <2>1. "cancel" \notin sc.mishaps => tasks' = {}
    BY <1>1 DEF Inv, LocalInv
  <2>2. CASE pc'[c] = "idle" /\ loc'[c] = NoLocals
    BY <2>1, <2>2, IdleShape DEF Allowed
  <2>3. CASE pc'[c] = pc[c] /\ loc'[c] = loc[c]
    BY <2>1, <2>3 DEF Inv, LocalInv
  <2> QED BY <1>2, <2>2, <2>3
<1>7. VerInv'
  <2>1. ASSUME NEW c \in Clients, NEW b \in Addrs PROVE loc'[c].ver[b] <= backend[b].ver /\ loc'[c].start[b] <= floor[b]
    <3>1. CASE loc'[c] = NoLocals
      <4>1. loc'[c].ver[b] = 0 /\ loc'[c].start[b] = 0
        BY <3>1, Nothing
      <4>2. backend[b].ver \in Nat /\ floor[b] \in Nat
        BY DEF Inv, TypeOK, Versions, VersionMaps
      <4> QED BY <4>1, <4>2
    <3>2. CASE loc'[c] = loc[c]
      BY <3>2 DEF Inv, VerInv
    <3> QED BY <1>2, <3>1, <3>2
  <2> QED BY <1>1, <2>1 DEF Inv, VerInv, world
<1>8. ASSUME Guarded PROVE SafeInv'
  <2>1. ASSUME NEW b \in Addrs, NEW v, AtLeast(b, v) PROVE Later(b, v)
    <3>1. ASSUME NEW c \in Clients, Binds(pc'[c], loc'[c], b) PROVE v >= loc'[c].ver[b]
      <4>1. CASE loc'[c] = NoLocals
        BY <3>1, <4>1, Nothing
      <4>2. CASE pc'[c] = pc[c] /\ loc'[c] = loc[c]
        BY <2>1, <3>1, <4>2 DEF AtLeast
      <4> QED BY <1>2, <4>1, <4>2
    <3> QED BY <1>1, <2>1, <3>1 DEF Later, AtLeast
  <2>2. RowInv'
    <3> SUFFICES ASSUME NEW b \in Addrs, Named(row[b]) # 0 PROVE Later(b, Named(row[b]))
      BY <1>1 DEF RowInv, AtLeast, Later
    <3> QED BY <1>8, <2>1 DEF Inv, SafeInv, RowInv
  <2>3. PubInv'
    <3> SUFFICES ASSUME NEW e \in Clients, pc'[e] \in Publishing, loc'[e].snap # None, row[loc'[e].addrs[1]] = loc'[e].snap
                 PROVE  Later(loc'[e].addrs[1], loc'[e].etag)
      BY <1>1 DEF PubInv, Addr, AtLeast, Later
    <3>1. pc'[e] = pc[e] /\ loc'[e] = loc[e] /\ pc[e] # "idle"
      BY <1>2 DEF Publishing, WritingThrough
    <3>2. AtLeast(loc[e].addrs[1], loc[e].etag)
      BY <1>8, <3>1 DEF Inv, SafeInv, PubInv, Addr
    <3>3. loc[e].addrs[1] \in Addrs
      BY <3>1, Here
    <3> QED BY <2>1, <3>1, <3>2, <3>3
  <2>4. TaskInv'
    <3> SUFFICES ASSUME NEW t \in tasks, t.kind = "swap", Named(t.to) # 0
                 PROVE  t.from # None /\ (row[t.addr] = t.from => Later(t.addr, t.to.etag))
      BY <1>1 DEF TaskInv, AtLeast, Later
    <3>1. t.from # None /\ (row[t.addr] = t.from => AtLeast(t.addr, t.to.etag))
      BY <1>8 DEF Inv, SafeInv, TaskInv
    <3>2. t.addr \in Addrs
      BY DEF Inv, TypeOK, TaskRecords
    <3> QED BY <2>1, <3>1, <3>2
  <2>5. NonceInv'
    <3>1. KnownRows' \subseteq KnownRows \cup {None}
      <4>1. ASSUME NEW e \in Clients PROVE {loc'[e].snap, loc'[e].seen, loc'[e].kept} \subseteq KnownRows \cup {None}
        BY <1>2, Nothing DEF KnownRows
      <4> QED BY <1>1, <4>1 DEF KnownRows
    <3> QED BY <1>1, <1>8, <3>1 DEF NonceInv, Inv, SafeInv
  <2>6. KeptInv' /\ FreshInv'
    BY <1>1, <1>2, <1>8 DEF KeptInv, FreshInv, Inv, SafeInv, Addr
  <2> QED BY <2>2, <2>3, <2>4, <2>5, <2>6 DEF SafeInv
<1> QED BY <1>5, <1>6, <1>7, <1>8 DEF Inv
-----------------------------------------------------------------------------
(* The start of a call.                                                     *)

Blank(l) == l.snap = None /\ l.seen = None /\ l.kept = None /\ l.start = floor

LEMMA BegunOK ==
  ASSUME Inv, NEW op \in OpNames, NEW addrs \in Seq(Addrs), NEW l, l = Begun(op, addrs)
  PROVE  /\ l \in Locals /\ l.op = op /\ l.addrs = addrs /\ l.todo = addrs /\ l.guards = <<>> /\ l.ver = NoVersions
         /\ Blank(l)
<1>1. floor \in VersionMaps
  BY DEF Inv, TypeOK
<1>2. NoLocals \in Locals
  BY Nothing
<1>4. l = [NoLocals EXCEPT !.op = op, !.addrs = addrs, !.todo = addrs, !.start = floor]
  BY DEF Begun
<1>5. /\ l \in Locals /\ l.op = op /\ l.addrs = addrs /\ l.todo = addrs /\ l.guards = NoLocals.guards /\ l.ver = NoLocals.ver
      /\ l.snap = NoLocals.snap /\ l.seen = NoLocals.seen /\ l.kept = NoLocals.kept /\ l.start = floor
  BY <1>1, <1>2, <1>4, ZenonT(60) DEF Locals
<1> QED BY <1>5, Nothing DEF Blank

LEMMA BegunReg ==
  ASSUME NEW op, NEW addrs
  PROVE  Begun(op, addrs).reg = FALSE
  BY DEF Begun, NoLocals

LEMMA Starts ==
  ASSUME Inv, NEW c \in Clients, pc[c] = "idle", c \in sc.clients, ops < sc.max_ops, ops' = ops + 1,
         NEW label \in Labels, label # "idle", NEW l \in Locals, Goto(c, label, l), Shape(label, l), Allowed(l), Blank(l),
         label \notin Publishing \cup {"lookup", "hit"},
         \A a \in Addrs : ~Binds(label, l, a) /\ l.ver[a] <= backend[a].ver,
         UNCHANGED <<backend, row, content, tasks, mishaps, sc>>, events' \subseteq events,
         gens' \in [Hosts -> [Addrs -> [refs : Nat, gen : Nat]]]
  PROVE  Inv'
<1>1. ops' \in 0 .. sc.max_ops
  <2>1. sc.max_ops \in Nat /\ ops \in 0 .. sc.max_ops
    BY ScenarioAssumption DEF Inv, TypeOK
  <2> QED BY <2>1
<1>2. RestOK'
  BY <1>1 DEF RestOK, Inv, TypeOK
<1>3. WorldSafe(l)
  <2>1. \A a \in Addrs : backend[a].ver \in Nat /\ floor[a] \in Nat
    BY DEF Inv, TypeOK, Versions, VersionMaps
  <2>2. \A a \in Addrs : backend[a].ver <= backend'[a].ver /\ l.ver[a] <= backend'[a].ver /\ l.start[a] <= floor[a]
    BY <2>1 DEF Blank
  <2> QED BY <2>2 DEF WorldSafe, Inv, VerInv
<1>4. tasks' \subseteq TaskRecords /\ TasksSafe
  BY DEF Inv, TypeOK, TasksSafe
<1>5. RowsSafe(c, label, l) /\ Remembers(l)
  BY DEF RowsSafe, Stays, Remembers, Blank
<1>6. Pledged(label, l) /\ Keeps(label, l) /\ Answers(label, l)
  BY Names DEF Pledged, Keeps, Answers, Blank
<1>7. Moves(c, label, l) /\ UNCHANGED floor
  BY DEF Goto, Moves
<1> QED BY <1>2, <1>3, <1>4, <1>5, <1>6, <1>7, ClientStep

LEMMA ReadStep ==
  ASSUME Inv, NEW c \in Clients, c \in sc.clients, NEW a \in Addrs, Read(c, a)
  PROVE  Inv'
<1>1. PICK l : l = Begun("read", <<a>>)
  OBVIOUS
<1>2. /\ pc[c] = "idle" /\ ops < sc.max_ops /\ ops' = ops + 1 /\ Goto(c, "stat", l) /\ UNCHANGED gens
      /\ UNCHANGED <<world, row, content, tasks, mishaps, sc>>
  BY <1>1 DEF Read, Call, At, Continue
<1>3. <<a>> \in Seq(Addrs) /\ <<a>> # <<>> /\ <<a>>[1] = a /\ "read" \in OpNames
  BY DEF OpNames
<1>4. l \in Locals /\ l.op = "read" /\ l.addrs = <<a>> /\ l.todo = <<a>> /\ l.guards = <<>> /\ l.ver = NoVersions /\ Blank(l)
  <2>1. PICK s \in Seq(Addrs) : s = <<a>>
    BY <1>3
  <2>2. PICK op \in OpNames : op = "read"
    BY <1>3
  <2>3. l = Begun(op, s)
    BY <1>1, <2>1, <2>2
  <2>4. l \in Locals /\ l.op = op /\ l.addrs = s /\ l.todo = s /\ l.guards = <<>> /\ l.ver = NoVersions /\ Blank(l)
    BY <2>3, BegunOK
  <2> QED BY <2>1, <2>2, <2>4
<1>5. Shape("stat", l)
  <2>1. /\ "stat" \notin Clearing \cup Sweeping \cup Dropping \cup Arming \cup WritingThrough \cup Late
    BY DEF Late, Clearing, Sweeping, Dropping, Arming, WritingThrough
  <2>2. Elems(l.guards) = {} /\ Elems(l.addrs) \subseteq {l.addrs[1]}
    BY <1>3, <1>4, ElemsOf
  <2> QED BY <1>3, <1>4, <2>1, <2>2 DEF Shape, Blank, Mutations
<1>6. Allowed(l) /\ "stat" \in Labels /\ "stat" \notin Publishing
  BY <1>4 DEF Allowed, Labels, Awaits, Publishing, WritingThrough
<1>7. ASSUME NEW b \in Addrs PROVE ~Binds("stat", l, b) /\ l.ver[b] <= backend[b].ver
  <2>1. l.ver[b] = 0 /\ backend[b].ver \in Nat
    BY <1>4, Nothing DEF Inv, TypeOK, Versions
  <2> QED BY <2>1 DEF Binds
<1>8. gens' \in [Hosts -> [Addrs -> [refs : Nat, gen : Nat]]] /\ backend' = backend /\ events' \subseteq events
  BY <1>2 DEF Inv, TypeOK, world
<1> QED BY <1>2, <1>4, <1>5, <1>6, <1>7, <1>8, Starts

LEMMA MutateStep ==
  ASSUME Inv, NEW c \in Clients, c \in sc.clients, NEW op \in Mutations, NEW addrs \in Seq(Addrs), Mutate(c, op, addrs),
         \/ \E a \in Addrs : addrs = <<a>>
         \/ op = "rename" /\ \E a, b \in Addrs : addrs = <<a, b>>
  PROVE  Inv'
<1>1. PICK k : k = Begun(op, addrs)
  OBVIOUS
<1> DEFINE g == <<addrs[1]>>
           l == [k EXCEPT !.guards = g]
<1>2. /\ pc[c] = "idle" /\ op \in sc.ops /\ ops < sc.max_ops /\ ops' = ops + 1 /\ Goto(c, "arm_read", l) /\ UNCHANGED gens
      /\ UNCHANGED <<world, row, content, tasks, mishaps, sc>>
  BY <1>1 DEF Mutate, Call, At, Continue
<1>3. addrs # <<>> /\ addrs[1] \in Addrs /\ g \in Seq(Addrs) /\ Elems(g) = {addrs[1]}
  <2>1. addrs # <<>>
    <3>1. ASSUME NEW a \in Addrs, addrs = <<a>> PROVE addrs # <<>>
      BY <3>1
    <3>2. ASSUME NEW a \in Addrs, NEW b \in Addrs, addrs = <<a, b>> PROVE addrs # <<>>
      BY <3>2
    <3> QED BY <3>1, <3>2
  <2>2. addrs[1] \in Addrs
    BY <2>1, ElemsOf
  <2> QED BY <2>1, <2>2, ElemsOf
<1>4. /\ Elems(addrs) = {addrs[1]} \cup Elems(Tail(addrs)) /\ addrs[1] \in Elems(addrs)
      /\ (op # "rename" => Elems(addrs) \subseteq {addrs[1]})
  <2>1. Elems(addrs) = {addrs[1]} \cup Elems(Tail(addrs)) /\ addrs[1] \in Elems(addrs)
    BY <1>3, ElemsOf
  <2>2. ASSUME NEW a \in Addrs, addrs = <<a>> PROVE Elems(addrs) \subseteq {addrs[1]}
    BY <2>2, ElemsOf
  <2> QED BY <2>1, <2>2
<1>5. /\ k \in Locals /\ k.op = op /\ k.addrs = addrs /\ k.todo = addrs /\ k.ver = NoVersions /\ Blank(k)
  <2>1. op \in OpNames
    BY DEF OpNames, Mutations
  <2> QED BY <1>1, <2>1, BegunOK
<1>6. l \in Locals /\ l.op = op /\ l.addrs = addrs /\ l.todo = addrs /\ l.guards = g /\ l.ver = NoVersions /\ Blank(l)
  <2> HIDE DEF g
  <2> QED BY <1>3, <1>5 DEF Locals, Blank
<1>7. l.reg = TRUE => l.op = "write"
  <2>1. l.reg = k.reg
    BY <1>5 DEF Locals
  <2> QED BY <1>1, <2>1, BegunReg
<1> HIDE DEF l, g
<1>8. Shape("arm_read", l) /\ "arm_read" \in Labels /\ "arm_read" \notin Publishing \cup {"lookup", "hit"}
  <2>1. "arm_read" \in Arming
    BY DEF Arming
  <2>2. /\ l.addrs # <<>> /\ l.todo # <<>> /\ Elems(l.todo) \subseteq Elems(l.addrs) /\ Elems(l.guards) \subseteq Elems(l.addrs)
        /\ Elems(l.addrs) \subseteq Elems(l.guards) \cup Elems(Tail(l.todo)) /\ l.op \in Mutations /\ l.kept = None
        /\ (l.op \in {"read", "write", "mutate", "continue"} => Elems(l.addrs) \subseteq {l.addrs[1]})
    BY <1>3, <1>4, <1>6 DEF Blank
  <2> QED BY <1>6, <1>7, <2>1, <2>2, ArmShape
<1>9. Allowed(l)
  BY <1>2, <1>6 DEF Allowed
<1>10. ASSUME NEW b \in Addrs PROVE ~Binds("arm_read", l, b) /\ l.ver[b] <= backend[b].ver
  <2>1. l.ver[b] = 0 /\ backend[b].ver \in Nat
    BY <1>6, Nothing DEF Inv, TypeOK, Versions
  <2> QED BY <2>1 DEF Binds
<1>11. gens' \in [Hosts -> [Addrs -> [refs : Nat, gen : Nat]]] /\ backend' = backend /\ events' \subseteq events
  BY <1>2 DEF Inv, TypeOK, world
<1> QED BY <1>2, <1>6, <1>8, <1>9, <1>10, <1>11, Starts

LEMMA WatchStep ==
  ASSUME Inv, NEW c \in Clients, c \in sc.clients, NEW e \in events, Watch(c, e)
  PROVE  Inv'
<1>1. e \in [addr : Addrs, ver : Versions, del : BOOLEAN] /\ e.ver <= backend[e.addr].ver
  BY DEF Inv, TypeOK, VerInv
<1>2. e.addr \in Addrs /\ e.ver \in 0 .. MaxVer
  BY <1>1 DEF Versions
<1>3. PICK s \in Seq(Addrs) : s = <<e.addr>>
  <2>1. <<e.addr>> \in Seq(Addrs)
    BY <1>2
  <2> QED BY <2>1
<1>4. PICK op \in {"watch", "watchdel"} : op = IF e.del THEN "watchdel" ELSE "watch"
  OBVIOUS
<1>5. PICK k : k = Begun(op, s)
  OBVIOUS
<1> DEFINE v == [k.ver EXCEPT ![e.addr] = e.ver]
           l == [k EXCEPT !.ver = v]
<1>6. /\ pc[c] = "idle" /\ ops < sc.max_ops /\ ops' = ops + 1 /\ Goto(c, "cl_remove", l) /\ Bump(Host[c], {e.addr})
      /\ events' = events \ {e} /\ UNCHANGED <<backend, row, content, tasks, mishaps, sc>>
  BY <1>3, <1>4, <1>5 DEF Watch, Call, At
<1>7. k \in Locals /\ k.op = op /\ k.addrs = s /\ k.todo = s /\ k.guards = <<>> /\ k.ver = NoVersions /\ Blank(k)
  <2>1. op \in OpNames
    BY DEF OpNames
  <2> QED BY <1>5, <2>1, BegunOK
<1>8. v \in VersionMaps /\ \A b \in Addrs : v[b] = IF b = e.addr THEN e.ver ELSE 0
  <2>1. k.ver \in VersionMaps /\ \A b \in Addrs : k.ver[b] = 0
    BY <1>7, Nothing
  <2> QED BY <1>2, <2>1 DEF VersionMaps
<1>9. l \in Locals /\ l.op = op /\ l.addrs = s /\ l.todo = s /\ l.guards = <<>> /\ l.ver = v /\ Blank(l)
  <2> HIDE DEF v
  <2> QED BY <1>7, <1>8 DEF Locals, Blank
<1> HIDE DEF l, v
<1>10. s # <<>> /\ Elems(s) = {e.addr} /\ Elems(<<>>) = {}
  BY <1>2, <1>3, ElemsOf
<1>11. "cl_remove" \in Clearing /\ "cl_remove" \in Labels /\ "cl_remove" \notin Publishing
  BY DEF Clearing, Labels, Awaits, Publishing, WritingThrough
<1>12. Shape("cl_remove", l)
  <2>1. /\ l.addrs # <<>> /\ l.todo # <<>> /\ Elems(l.todo) \subseteq Elems(l.addrs)
        /\ Elems(l.guards) \subseteq Elems(l.addrs) /\ l.op \notin {"read", "write", "mutate", "continue", "none"} /\ l.op \notin Mutations
        /\ l.kept = None
    BY <1>9, <1>10 DEF Blank, Mutations
  <2> QED BY <1>11, <2>1, ClearShape
<1>13. Allowed(l)
  BY <1>9 DEF Allowed
<1>14. ASSUME NEW b \in Addrs PROVE ~Binds("cl_remove", l, b) /\ l.ver[b] <= backend[b].ver
  <2>1. e.addr \in Owed("cl_remove", l)
    BY <1>9, <1>10 DEF Owed
  <2>2. backend[b].ver \in Nat
    BY DEF Inv, TypeOK, Versions
  <2>3. CASE b = e.addr
    BY <1>1, <1>8, <1>9, <2>1, <2>3 DEF Binds
  <2>4. CASE b # e.addr
    BY <1>8, <1>9, <2>2, <2>4 DEF Binds
  <2> QED BY <2>3, <2>4
<1>15. gens' \in [Hosts -> [Addrs -> [refs : Nat, gen : Nat]]] /\ events' \subseteq events
  BY <1>6, GensOK, ShapeAssumption DEF Inv
<1> QED BY <1>6, <1>9, <1>11, <1>12, <1>13, <1>14, <1>15, Starts

LEMMA LapseStep ==
  ASSUME Inv, NEW c \in Clients, c \in sc.clients, NEW a \in Addrs, Lapse(c, a)
  PROVE  Inv'
<1>1. PICK s \in Seq(Addrs) : s = <<a>>
  <2>1. <<a>> \in Seq(Addrs)
    OBVIOUS
  <2> QED BY <2>1
<1>2. PICK op \in OpNames : op = "lapse"
  BY DEF OpNames
<1>3. PICK k : k = Begun(op, s)
  OBVIOUS
<1> DEFINE v == [b \in Addrs |-> IF b \in Below[a] THEN backend[b].ver ELSE 0]
           l == [k EXCEPT !.ver = v]
<1>4. /\ pc[c] = "idle" /\ ops < sc.max_ops /\ ops' = ops + 1 /\ Goto(c, "st_select", l) /\ UNCHANGED gens
      /\ events' \subseteq events /\ UNCHANGED <<backend, row, content, tasks, mishaps, sc>>
  BY <1>1, <1>2, <1>3 DEF Lapse, Call, At, Continue
<1>5. k \in Locals /\ k.op = op /\ k.addrs = s /\ k.todo = s /\ k.guards = <<>> /\ k.ver = NoVersions /\ Blank(k)
  BY <1>3, BegunOK
<1>6. \A b \in Addrs : backend[b].ver \in 0 .. MaxVer
  BY DEF Inv, TypeOK, Versions
<1>7. v \in VersionMaps /\ \A b \in Addrs : v[b] = IF b \in Below[a] THEN backend[b].ver ELSE 0
  BY <1>6, BoundsAssumption DEF VersionMaps
<1>8. l \in Locals /\ l.op = op /\ l.addrs = s /\ l.todo = s /\ l.guards = <<>> /\ l.ver = v /\ Blank(l)
  <2> HIDE DEF v
  <2> QED BY <1>5, <1>7 DEF Locals, Blank
<1> HIDE DEF l, v
<1>9. s # <<>> /\ Elems(s) = {a} /\ Elems(<<>>) = {} /\ Head(s) = a
  BY <1>1, ElemsOf
<1>10. "st_select" \in Sweeping /\ "st_select" \in Labels /\ "st_select" \notin Publishing
  BY DEF Sweeping, Labels, Publishing, WritingThrough
<1>11. Shape("st_select", l)
  <2>1. /\ l.addrs # <<>> /\ l.todo # <<>> /\ Elems(l.todo) \subseteq Elems(l.addrs)
        /\ Elems(l.guards) \subseteq Elems(l.addrs) /\ l.op \in Trees /\ l.op \notin Mutations /\ l.kept = None
    BY <1>2, <1>8, <1>9 DEF Blank, Mutations, Trees
  <2> QED BY <1>10, <2>1, SweepShape
<1>12. Allowed(l)
  BY <1>2, <1>8 DEF Allowed
<1>13. ASSUME NEW b \in Addrs PROVE ~Binds("st_select", l, b) /\ l.ver[b] <= backend[b].ver
  <2>1. Below[a] \subseteq Owed("st_select", l)
    <3>1. Owed("st_select", l) = BelowAll(s)
      BY <1>8 DEF Owed, WritingThrough
    <3> QED BY <1>9, <3>1 DEF BelowAll
  <2>2. CASE b \in Below[a]
    BY <1>6, <1>7, <1>8, <2>1, <2>2 DEF Binds
  <2>3. CASE b \notin Below[a]
    BY <1>6, <1>7, <1>8, <2>3 DEF Binds
  <2> QED BY <2>2, <2>3
<1>14. gens' \in [Hosts -> [Addrs -> [refs : Nat, gen : Nat]]]
  BY <1>4 DEF Inv, TypeOK
<1> QED BY <1>4, <1>8, <1>10, <1>11, <1>12, <1>13, <1>14, Starts

LEMMA StartStep ==
  ASSUME Inv, NEW c \in Clients, Start(c)
  PROVE  Inv'
<1>1. c \in sc.clients /\ sc.addrs \subseteq Addrs
  BY ScenarioAssumption DEF Start, Inv, TypeOK
<1>2. ASSUME NEW a \in Addrs, Read(c, a) PROVE Inv'
  BY <1>1, <1>2, ReadStep
<1>3. ASSUME NEW a \in Addrs, NEW op \in {"write", "mutate", "continue", "tree"}, Mutate(c, op, <<a>>) PROVE Inv'
  <2>1. PICK s \in Seq(Addrs) : s = <<a>>
    <3>1. <<a>> \in Seq(Addrs)
      OBVIOUS
    <3> QED BY <3>1
  <2>2. Mutate(c, op, s) /\ op \in Mutations
    BY <1>3, <2>1 DEF Mutations
  <2> QED BY <1>1, <2>1, <2>2, MutateStep
<1>4. ASSUME NEW a \in Addrs, Lapse(c, a) PROVE Inv'
  BY <1>1, <1>4, LapseStep
<1>5. ASSUME NEW a \in Addrs, NEW b \in Addrs, Mutate(c, "rename", <<a, b>>) PROVE Inv'
  <2>1. PICK s \in Seq(Addrs) : s = <<a, b>>
    <3>1. <<a, b>> \in Seq(Addrs)
      OBVIOUS
    <3> QED BY <3>1
  <2>2. PICK op \in Mutations : op = "rename"
    BY DEF Mutations
  <2>3. Mutate(c, op, s)
    BY <1>5, <2>1, <2>2
  <2> QED BY <1>1, <2>1, <2>2, <2>3, MutateStep
<1>6. ASSUME NEW e \in events, Watch(c, e) PROVE Inv'
  BY <1>1, <1>6, WatchStep
<1> QED BY <1>1, <1>2, <1>3, <1>4, <1>5, <1>6 DEF Start
-----------------------------------------------------------------------------
(* The invariant.                                                           *)

LEMMA InitInv ==
  ASSUME Init
  PROVE  Inv
<1>1. PICK warm \in SUBSET sc.addrs, n \in {CHOOSE n \in Nonces : TRUE} :
        /\ row = [a \in Addrs |-> IF a \in warm THEN [nonce |-> n, etag |-> 1] ELSE None]
        /\ content = [a \in Addrs |-> IF a \in warm THEN {1} ELSE {}]
  BY DEF Init
<1>2. n \in Nonces
  BY ShapeAssumption
<1>3. 1 \in Versions /\ 1 \in 0 .. MaxVer /\ 0 \in 0 .. MaxVer
  BY BoundsAssumption DEF Versions
<1>4. /\ sc \in Scenarios /\ backend = [a \in Addrs |-> [ver |-> 1, live |-> TRUE]] /\ events = {}
      /\ gens = [h \in Hosts |-> [a \in Addrs |-> [refs |-> 0, gen |-> 0]]]
      /\ pc = [c \in Clients |-> "idle"] /\ loc = [c \in Clients |-> NoLocals] /\ tasks = {} /\ floor = NoVersions
      /\ ops = 0 /\ mishaps = 0
  BY DEF Init
<1>5. PICK r \in Rows : r = [nonce |-> n, etag |-> 1]
  BY <1>2, <1>3 DEF Rows
<1>6. row \in [Addrs -> Rows \cup {None}] /\ \A a \in Addrs : row[a] \in {r, None}
  BY <1>1, <1>5
<1>7. TypeOK
  <2>1. backend \in [Addrs -> [ver : Versions, live : BOOLEAN]] /\ content \in [Addrs -> SUBSET (0 .. MaxVer)]
    BY <1>1, <1>3, <1>4
  <2>2. gens \in [Hosts -> [Addrs -> [refs : Nat, gen : Nat]]]
    BY <1>4
  <2>3. pc \in [Clients -> Labels] /\ loc \in [Clients -> Locals] /\ floor \in VersionMaps
    BY <1>4, Nothing DEF Labels
  <2>4. sc.max_ops \in Nat /\ sc.max_mishaps \in Nat
    BY <1>4, ScenarioAssumption
  <2>5. ops \in 0 .. sc.max_ops /\ mishaps \in 0 .. sc.max_mishaps
    BY <1>4, <2>4
  <2> QED BY <1>4, <1>6, <2>1, <2>2, <2>3, <2>5 DEF TypeOK
<1>8. \A c \in Clients : pc[c] = "idle" /\ loc[c] = NoLocals
  BY <1>4
<1>9. LocalInv
  BY <1>4, <1>8, IdleShape DEF LocalInv, Allowed
<1>10. VerInv
  <2>1. \A a \in Addrs : floor[a] = 0 /\ backend[a].ver = 1
    BY <1>4, Nothing
  <2>2. \A c \in Clients, a \in Addrs : loc[c].ver[a] = 0 /\ loc[c].start[a] = 0
    BY <1>8, Nothing
  <2> QED BY <1>4, <2>1, <2>2 DEF VerInv
<1>11. SafeInv
  <2>1. RowInv
    <3> SUFFICES ASSUME NEW a \in Addrs, Named(row[a]) # 0 PROVE AtLeast(a, Named(row[a]))
      BY DEF RowInv
    <3>1. Named(row[a]) = 1
      <4>1. r.etag = 1
        BY <1>5
      <4> QED BY <1>6, <4>1, Names
    <3>2. floor[a] = 0 /\ \A c \in Clients : ~Binds(pc[c], loc[c], a)
      BY <1>4, <1>8, Nothing
    <3> QED BY <3>1, <3>2 DEF AtLeast
  <2>2. PubInv /\ KeptInv /\ FreshInv
    BY <1>8 DEF PubInv, KeptInv, FreshInv, Publishing, WritingThrough
  <2>3. TaskInv /\ NonceInv
    BY <1>4 DEF TaskInv, NonceInv
  <2> QED BY <2>1, <2>2, <2>3 DEF SafeInv
<1> QED BY <1>7, <1>9, <1>10, <1>11 DEF Inv

LEMMA LocalStep ==
  ASSUME Inv, NEW c \in Clients, Local(c), UNCHANGED <<world, tasks, bounds>>
  PROVE  Inv'
<1>1. CASE Stat(c) \/ Known(c) \/ Lookup(c) \/ Hit(c) \/ Snap(c) \/ Seed(c) \/ Fetch(c)
  BY <1>1, StatStep, KnownStep, LookupStep, HitStep, SnapStep, SeedStep, FetchStep
<1>2. CASE Live(c) \/ LiveSwap(c) \/ LiveBody(c) \/ Discard(c)
  BY <1>2, LiveStep, LiveSwapStep, LiveBodyStep, DiscardStep
<1>3. CASE Fill(c) \/ Tee(c) \/ TeeCommit(c)
  BY <1>3, FillStep, TeeStep, TeeCommitStep
<1>4. CASE RlSwap(c) \/ RlPrune(c) \/ RlCheck(c) \/ RlRemove(c) \/ DropRow(c) \/ DropBody(c)
  BY <1>4, RlSwapStep, RlPruneStep, RlCheckStep, RlRemoveStep, DropRowStep, DropBodyStep
<1>5. CASE ArmRead(c) \/ ArmClear(c) \/ Restore(c)
  BY <1>5, ArmReadStep, ArmClearStep, RestoreStep
<1>6. CASE WtCommit(c) \/ WtFinal(c) \/ PubSwap(c) \/ PubRemove(c) \/ Disarm(c)
  BY <1>6, WtCommitStep, WtFinalStep, PubSwapStep, PubRemoveStep, DisarmStep
<1>7. CASE ClRead(c) \/ ClSwap(c) \/ ClRemove(c) \/ ClBody(c)
  BY <1>7, ClReadStep, ClSwapStep, ClRemoveStep, ClBodyStep
<1>8. CASE StSelect(c) \/ StRow(c) \/ StBody(c)
  BY <1>8, StSelectStep, StRowStep, StBodyStep
<1> QED BY <1>1, <1>2, <1>3, <1>4, <1>5, <1>6, <1>7, <1>8 DEF Local

LEMMA NextInv ==
  ASSUME Inv, [Next]_vars
  PROVE  Inv'
<1>1. ASSUME NEW c \in Clients, Start(c) PROVE Inv'
  BY <1>1, StartStep
<1>2. ASSUME NEW c \in Clients, Local(c), UNCHANGED <<world, tasks, bounds>> PROVE Inv'
  BY <1>2, LocalStep
<1>3. ASSUME NEW c \in Clients, InnerOk(c) \/ InnerFails(c) \/ InnerRedirects(c), UNCHANGED <<events, tasks, bounds>> PROVE Inv'
  BY <1>3, InnerOkStep, InnerFailsStep, InnerRedirectsStep
<1>4. ASSUME NEW c \in Clients, ReadFails(c) \/ SwapFails(c) \/ RemoveFails(c) \/ Cancel(c) PROVE Inv'
  BY <1>4, ReadFailsStep, SwapFailsStep, RemoveFailsStep, CancelStep
<1>5. ASSUME NEW t \in tasks, RunTask(t) PROVE Inv'
  BY <1>5, RunTaskStep
<1>6. ASSUME NEW a \in Addrs, External(a) \/ Evict(a) PROVE Inv'
  BY <1>6, ExternalStep, EvictStep
<1>7. ASSUME NEW h \in Hosts, Crash(h) PROVE Inv'
  BY <1>7, CrashStep
<1>8. CASE UNCHANGED vars
  <2>1. UNCHANGED <<backend, events, row, content, gens, pc, loc, tasks, floor, sc, ops, mishaps>>
    BY <1>8 DEF vars, world, bounds
  <2>2. TypeOK' /\ LocalInv' /\ VerInv'
    BY <2>1 DEF Inv, TypeOK, LocalInv, VerInv, Allowed
  <2>3. ASSUME Guarded PROVE SafeInv'
    <3>1. Behind
      BY <2>1 DEF Behind, KnownRows
    <3> QED BY <2>3, <3>1, BehindSafe DEF Inv
  <2> QED BY <2>2, <2>3 DEF Inv
<1> QED BY <1>1, <1>2, <1>3, <1>4, <1>5, <1>6, <1>7, <1>8 DEF Next

LEMMA Invariant == Spec => []Inv
  BY InitInv, NextInv, PTL DEF Spec

(* The variables hold what their comments say at every label of every       *)
(* handler of byte_cache.rs, whatever fails, is cancelled or crashes.       *)
THEOREM TypeCorrect == Spec => []TypeOK
<1>1. Inv => TypeOK
  BY DEF Inv
<1> QED BY <1>1, Invariant, PTL

(* Once a mutation through the layer has returned, or a notification has    *)
(* been handled, no availability row names an older validator: for every    *)
(* number of clients, processes, calls and failures, except in what Guarded *)
(* leaves out.                                                              *)
THEOREM NeverResurrected ==
  ASSUME Guarded
  PROVE  Spec => []NoResurrection
<1>1. Inv => NoResurrection
  BY DEF Inv, SafeInv, RowInv, NoResurrection, AtLeast
<1> QED BY <1>1, Invariant, PTL

(* An answer from the cache is as new as every mutation that had finished   *)
(* when the read began.                                                     *)
THEOREM AnswersFresh ==
  ASSUME Guarded
  PROVE  Spec => []ServedFresh
<1>1. Inv => ServedFresh
  BY DEF Inv, SafeInv, FreshInv, ServedFresh, At
<1> QED BY <1>1, Invariant, PTL
-----------------------------------------------------------------------------
(* RowCurrent.                                                              *)

(* Between arming and the backend the row names nothing, and it is none     *)
(* that a detached publication is fenced on.                                *)
Waits(label, l) == label \in {"snap", "seed", "inner"} /\ l.op \in Mutations
Publishes(t) == t.kind = "swap" /\ Named(t.to) # 0
Hushed(a) == Named(row[a]) = 0 /\ \A t \in tasks : Publishes(t) /\ t.addr = a => row[a] # t.from

(* What a call will publish or put back is what the backend has.            *)
Keeping == {"arm_read", "arm_clear", "inner", "restore"}
Proven(label, l) ==
  /\ label \in Publishing => l.etag = backend[l.addrs[1]].ver
  /\ label \in Keeping /\ Named(l.kept) # 0 => Named(l.kept) = backend[l.addrs[1]].ver

CurrentInv == OneClient =>
  /\ \A a \in Addrs : Named(row[a]) \in {0, backend[a].ver}
  /\ \A c \in Clients : (Waits(pc[c], loc[c]) => Hushed(Addr(c))) /\ Proven(pc[c], loc[c])
  /\ \A t \in tasks : Publishes(t) /\ row[t.addr] = t.from => Named(t.to) = backend[t.addr].ver

Setting == Inv /\ Inv' /\ Guarded /\ WriteAhead /\ CurrentInv /\ OneClient /\ UNCHANGED sc

(* The one client that is at work.                                          *)
LEMMA Others ==
  ASSUME Setting, NEW c \in Clients, c \in sc.clients, NEW e \in Clients, e # c
  PROVE  pc[e] = "idle" /\ pc'[e] = "idle"
<1>1. e \notin sc.clients
  BY DEF Setting, OneClient, Alone
<1> QED BY <1>1 DEF Setting, Inv, LocalInv

(* The rows that a step may write.                                          *)
Good(b, r) == r = None \/ (Named(r) \in {0, backend[b].ver} /\ (Fresh(r) \/ tasks = {}))
RowsGood == \A b \in Addrs : row'[b] = row[b] \/ Good(b, row'[b])

(* A detached publication is not fenced on a row that a step writes.        *)
LEMMA Unfenced ==
  ASSUME Setting, NEW b \in Addrs, Good(b, row'[b]), NEW t \in tasks, Publishes(t)
  PROVE  row'[b] # t.from
<1>1. t.from # None
  BY DEF Setting, Inv, SafeInv, TaskInv, Publishes
<1>2. t.from \in KnownRows
  BY DEF KnownRows
<1> QED BY <1>1, <1>2, FreshUnseen DEF Good

(* A step of a client that leaves the backend alone.                        *)
LEMMA CurrentStep ==
  ASSUME Setting, NEW c \in Clients, c \in sc.clients, NEW label, NEW l, Moves(c, label, l), UNCHANGED backend, RowsGood,
         \A t \in tasks' \ tasks : Publishes(t) => Named(t.to) = backend[t.addr].ver,
         Waits(label, l) => /\ tasks' = tasks /\ l.addrs[1] \in Addrs
                            /\ \/ row'[l.addrs[1]] = row[l.addrs[1]] /\ Waits(pc[c], loc[c]) /\ l.addrs[1] = Addr(c)
                               \/ Good(l.addrs[1], row'[l.addrs[1]]) /\ Named(row'[l.addrs[1]]) = 0,
         Proven(label, l)
  PROVE  CurrentInv'
<1>1. pc'[c] = label /\ loc'[c] = l
  BY DEF Setting, Inv, TypeOK, Moves
<1>2. ASSUME NEW a \in Addrs PROVE Named(row'[a]) \in {0, backend'[a].ver}
  BY Names DEF RowsGood, Good, Setting, CurrentInv
<1>3. ASSUME NEW t \in tasks', Publishes(t), row'[t.addr] = t.from PROVE Named(t.to) = backend'[t.addr].ver
  <2>1. CASE t \in tasks
    <3>1. t.addr \in Addrs
      BY <2>1 DEF Setting, Inv, TypeOK, TaskRecords
    <3>2. row'[t.addr] = row[t.addr]
      BY <1>3, <2>1, <3>1, Unfenced DEF RowsGood
    <3> QED BY <1>3, <2>1, <3>2 DEF Setting, CurrentInv
  <2> QED BY <1>3, <2>1
<1>4. ASSUME Waits(label, l), NEW a, a = l.addrs[1] PROVE Hushed(a)'
  <2>1. a \in Addrs /\ tasks' = tasks
    BY <1>4
  <2>2. CASE row'[a] = row[a] /\ Waits(pc[c], loc[c]) /\ a = Addr(c)
    BY <2>1, <2>2 DEF Hushed, Publishes, Setting, CurrentInv
  <2>3. CASE Good(a, row'[a]) /\ Named(row'[a]) = 0
    BY <2>1, <2>3, Unfenced DEF Hushed, Publishes
  <2> QED BY <1>4, <2>2, <2>3
<1>5. ASSUME NEW e \in Clients PROVE (Waits(pc'[e], loc'[e]) => Hushed(Addr(e))') /\ Proven(pc[e], loc[e])'
  <2>1. CASE e = c
    BY <1>1, <1>4, <2>1 DEF Proven, Addr
  <2>2. CASE e # c
    BY <2>2, Others DEF Waits, Proven, Publishing, WritingThrough, Keeping
  <2> QED BY <2>1, <2>2
<1> QED BY <1>2, <1>3, <1>5 DEF CurrentInv, Waits, Publishes

(* What happens behind the client's back.                                   *)
LEMMA CurrentBehind ==
  ASSUME Setting, Behind, UNCHANGED backend
  PROVE  CurrentInv'
<1>1. ASSUME NEW b \in Addrs, NEW r \in KnownRows, r # None, row'[b] = r PROVE row[b] = r
  BY <1>1 DEF Behind, Setting, Inv, SafeInv, NonceInv
<1>2. ASSUME NEW t \in tasks, Publishes(t) PROVE t.from # None /\ t.from \in KnownRows /\ t.addr \in Addrs
  <2>1. t \in TaskRecords /\ t.from \in KnownRows
    BY DEF Setting, Inv, TypeOK, KnownRows
  <2> QED BY <1>2, <2>1 DEF Setting, Inv, SafeInv, TaskInv, Publishes, TaskRecords
<1>3. ASSUME NEW a \in Addrs PROVE Named(row'[a]) \in {0, backend'[a].ver}
  BY Names DEF Behind, Setting, CurrentInv, Publishes
<1>4. ASSUME NEW t \in tasks', Publishes(t), row'[t.addr] = t.from PROVE Named(t.to) = backend'[t.addr].ver
  <2>1. t \in tasks
    BY <1>4 DEF Behind, Publishes
  <2> QED BY <1>1, <1>2, <1>4, <2>1 DEF Setting, CurrentInv
<1>5. ASSUME NEW a \in Addrs, Hushed(a) PROVE Hushed(a)'
  <2>1. Named(row'[a]) = 0
    BY <1>5, Names DEF Hushed, Behind, Publishes
  <2>2. ASSUME NEW t \in tasks', Publishes(t), t.addr = a PROVE row'[a] # t.from
    <3>1. t \in tasks
      BY <2>2 DEF Behind, Publishes
    <3> QED BY <1>1, <1>2, <1>5, <2>2, <3>1 DEF Hushed
  <2> QED BY <2>1, <2>2 DEF Hushed, Publishes
<1>6. ASSUME NEW e \in Clients PROVE (Waits(pc'[e], loc'[e]) => Hushed(Addr(e))') /\ Proven(pc[e], loc[e])'
  <2>1. pc'[e] = pc[e] /\ loc'[e] = loc[e] /\ Addr(e)' = Addr(e)
    BY DEF Behind, Addr
  <2>2. Waits(pc[e], loc[e]) => Addr(e) \in Addrs
    BY Here DEF Waits, Setting
  <2>3. Proven(pc[e], loc[e])'
    BY <2>1 DEF Proven, Setting, CurrentInv
  <2>4. Waits(pc'[e], loc'[e]) => Hushed(Addr(e)) /\ Addr(e) \in Addrs
    BY <2>1, <2>2 DEF Setting, CurrentInv
  <2> QED BY <1>5, <2>1, <2>3, <2>4
<1> QED BY <1>3, <1>4, <1>6 DEF CurrentInv, Waits, Publishes

(* The backend changes: the row of the address has been armed.              *)
LEMMA CurrentInner ==
  ASSUME Setting, NEW c \in Clients, pc[c] = "inner", NEW label \in {"wt_commit", "cl_read", "idle", "drop_row"}, NEW l,
         Moves(c, label, l), UNCHANGED <<row, tasks>>,
         \A b \in Addrs : b # Addr(c) => backend'[b].ver = backend[b].ver,
         label = "wt_commit" => l.etag = backend'[l.addrs[1]].ver
  PROVE  CurrentInv'
<1>1. pc'[c] = label /\ loc'[c] = l /\ c \in sc.clients /\ Addr(c) \in Addrs
  BY Here DEF Setting, Inv, TypeOK, Moves
<1>2. Hushed(Addr(c))
  <2>1. loc[c].op \in Mutations
    BY Here DEF Setting, Shape
  <2> QED BY <2>1 DEF Setting, CurrentInv, Waits
<1>3. ASSUME NEW a \in Addrs PROVE Named(row'[a]) \in {0, backend'[a].ver}
  BY <1>2 DEF Hushed, Setting, CurrentInv
<1>4. ASSUME NEW t \in tasks', Publishes(t), row'[t.addr] = t.from PROVE Named(t.to) = backend'[t.addr].ver
  <2>1. t \in tasks /\ t.addr \in Addrs
    BY DEF Setting, Inv, TypeOK, TaskRecords
  <2>2. t.addr # Addr(c)
    BY <1>2, <1>4, <2>1 DEF Hushed
  <2> QED BY <1>4, <2>1, <2>2 DEF Setting, CurrentInv
<1>5. ASSUME NEW e \in Clients PROVE ~Waits(pc'[e], loc'[e]) /\ Proven(pc[e], loc[e])'
  <2>1. CASE e = c
    BY <1>1, <2>1 DEF Proven, Waits, Publishing, WritingThrough, Keeping
  <2>2. CASE e # c
    BY <1>1, <2>2, Others DEF Waits, Proven, Publishing, WritingThrough, Keeping
  <2> QED BY <2>1, <2>2
<1> QED BY <1>3, <1>4, <1>5 DEF CurrentInv, Waits, Publishes

(* A crash: the calls and the tasks of the process are gone.                *)
LEMMA CurrentCrash ==
  ASSUME Setting, NEW h \in Hosts, Crash(h)
  PROVE  CurrentInv'
<1>1. UNCHANGED <<backend, row>> /\ tasks' \subseteq tasks
  BY DEF Crash, world
<1>2. ASSUME NEW e \in Clients PROVE (pc'[e] = pc[e] /\ loc'[e] = loc[e]) \/ pc'[e] = "idle"
  BY DEF Crash
<1>3. \A a : Hushed(a) => Hushed(a)'
  BY <1>1 DEF Hushed, Publishes
<1>4. ASSUME NEW e \in Clients PROVE (Waits(pc'[e], loc'[e]) => Hushed(Addr(e))') /\ Proven(pc[e], loc[e])'
  <2>1. CASE pc'[e] = "idle"
    BY <2>1 DEF Waits, Proven, Publishing, WritingThrough, Keeping
  <2>2. CASE pc'[e] = pc[e] /\ loc'[e] = loc[e]
    BY <1>1, <1>3, <2>2 DEF Addr, Proven, Setting, CurrentInv
  <2> QED BY <1>2, <2>1, <2>2
<1> QED BY <1>1, <1>4 DEF CurrentInv, Waits, Publishes, Setting

(* The ways a step ends where nothing is to be published or put back.       *)
Resting == Labels \ (Publishing \cup Keeping \cup {"snap", "seed"})
Ends(c) == \E label, l : Moves(c, label, l) /\ (label \in Resting \/ (label \in {"snap", "seed"} /\ l.op = "read"))

(* Such a step preserves the invariant.                                     *)
LEMMA CurrentEnds ==
  ASSUME Setting, NEW c \in Clients, c \in sc.clients, UNCHANGED backend, RowsGood, Ends(c),
         \A t \in tasks' \ tasks : Publishes(t) => Named(t.to) = backend[t.addr].ver
  PROVE  CurrentInv'
<1>1. PICK label, l : Moves(c, label, l) /\ (label \in Resting \/ (label \in {"snap", "seed"} /\ l.op = "read"))
  BY DEF Ends
<1>2. label \notin Publishing \cup Keeping /\ ~Waits(label, l)
  BY <1>1 DEF Resting, Waits, Mutations, Publishing, WritingThrough, Keeping
<1> QED BY <1>1, <1>2, CurrentStep DEF Proven

(* The labels where a step rests.                                           *)
LEMMA RestLabels ==
  {"idle", "stat", "known", "lookup", "hit", "fetch", "live", "live_swap", "live_body", "discard", "rl_prune",
   "rl_check", "rl_remove", "drop_row", "drop_body", "disarm", "pub_remove", "cl_read", "cl_swap", "cl_remove",
   "cl_body", "st_select", "st_row", "st_body"} \subseteq Resting
  BY DEF Resting, Labels, Awaits, Publishing, WritingThrough, Keeping

(* The ends of the handlers.                                                *)
LEMMA EndsOf ==
  ASSUME NEW c \in Clients
  PROVE  /\ \A label \in Resting : \A l : Goto(c, label, l) \/ Continue(c, label, l) => Ends(c)
         /\ Return(c) => Ends(c)
         /\ \A l : Unwind(c, l) \/ EnterClear(c, l) \/ AfterLive(c, l) \/ Cleared(c, l) \/ NextClear(c, l) \/ AfterTree(c, l) => Ends(c)
<1>1. ASSUME NEW label \in Resting, NEW l, Goto(c, label, l) \/ Continue(c, label, l) PROVE Ends(c)
  BY <1>1 DEF Goto, Continue, Moves, Ends
<1>2. ASSUME Return(c) PROVE Ends(c)
  BY <1>2, RestLabels DEF Return, Moves, Ends
<1>3. ASSUME NEW l, Unwind(c, l) PROVE Ends(c)
  BY <1>1, <1>2, <1>3, RestLabels DEF Unwind
<1>4. ASSUME NEW l, EnterClear(c, l) PROVE Ends(c)
  BY <1>1, <1>4, RestLabels DEF EnterClear
<1>5. ASSUME NEW l, AfterLive(c, l) PROVE Ends(c)
  BY <1>1, <1>5, RestLabels DEF AfterLive
<1>6. ASSUME NEW l, Cleared(c, l) PROVE Ends(c)
  BY <1>1, <1>2, <1>3, <1>6, RestLabels DEF Cleared
<1>7. ASSUME NEW l, NextClear(c, l) PROVE Ends(c)
  BY <1>4, <1>6, <1>7 DEF NextClear
<1>8. ASSUME NEW l, AfterTree(c, l) PROVE Ends(c)
  BY <1>1, <1>2, <1>3, <1>8, RestLabels DEF AfterTree
<1> QED BY <1>1, <1>2, <1>3, <1>4, <1>5, <1>6, <1>7, <1>8

(* What a step writes to one row.                                           *)
LEMMA RowGood ==
  ASSUME Inv, NEW a \in Addrs, NEW r, SetRow(a, r), Good(a, r)
  PROVE  RowsGood /\ row'[a] = r
  BY DEF Inv, TypeOK, SetRow, RowsGood

(* A row that goes, and a tombstone.                                        *)
LEMMA GoodRows ==
  /\ \A a : Good(a, None)
  /\ NonceLeft => \A a : Good(a, encode_avail(0)) /\ Named(encode_avail(0)) = 0
  /\ UNCHANGED row => RowsGood
<1>1. 0 \in 0 .. MaxVer
  BY BoundsAssumption
<1> QED BY <1>1, Encoded DEF Good, RowsGood

(* The reads until the fetch, and the disproof of a row.                    *)
LEMMA ReadsRest ==
  ASSUME Setting, NEW c \in Clients,
         \/ Stat(c) \/ Known(c) \/ Lookup(c) \/ Hit(c) \/ Live(c) \/ LiveSwap(c) \/ LiveBody(c) \/ Discard(c)
  PROVE  Ends(c) /\ RowsGood /\ pc[c] # "idle"
<1>1. pc[c] \in Reading
  BY DEF Stat, Known, Lookup, Hit, Live, LiveSwap, LiveBody, Discard, At, Reading
<1>2. pc[c] # "idle" /\ loc[c].op = "read" /\ Addr(c) \in Addrs
  BY <1>1, AtRead DEF Setting
<1>3. ASSUME NEW l, l.op = "read", Continue(c, "snap", l) PROVE Ends(c)
  BY <1>3 DEF Continue, Goto, Moves, Ends
<1>4. CASE Stat(c)
  <2>1. UNCHANGED row
    BY <1>4 DEF Stat
  <2>2. \/ Continue(c, "snap", loc[c]) \/ Return(c)
        \/ \E label \in {"lookup", "live", "known", "fetch"} : \E l : Continue(c, label, l)
    BY <1>4, Zenon DEF Stat
  <2> QED BY <1>2, <1>3, <2>1, <2>2, EndsOf, RestLabels, GoodRows
<1>5. CASE Known(c)
  <2> DEFINE e == Named(row[Addr(c)])
             m == [loc[c] EXCEPT !.etag = e]
  <2>1. m.op = "read"
    <3>1. loc[c] \in Locals
      BY <1>2, Here DEF Setting
    <3> QED BY <1>2, <3>1 DEF Locals
  <2>2. Continue(c, "snap", m) \/ Continue(c, "lookup", m)
    BY <1>5 DEF Known
  <2> HIDE DEF m
  <2> QED BY <1>2, <1>3, <1>5, <2>1, <2>2, EndsOf, RestLabels, GoodRows DEF Known
<1>6. CASE Lookup(c)
  <2> DEFINE m == [loc[c] EXCEPT !.etag = 0]
  <2>1. m.op = "read"
    <3>1. loc[c] \in Locals
      BY <1>2, Here DEF Setting
    <3> QED BY <1>2, <3>1 DEF Locals
  <2>2. Continue(c, "hit", loc[c]) \/ Continue(c, "snap", m)
    BY <1>6 DEF Lookup
  <2> HIDE DEF m
  <2> QED BY <1>2, <1>3, <1>6, <2>1, <2>2, EndsOf, RestLabels, GoodRows DEF Lookup
<1>7. CASE Hit(c) \/ LiveBody(c)
  BY <1>2, <1>7, EndsOf, GoodRows DEF Hit, LiveBody
<1>8. CASE Live(c)
  BY <1>2, <1>8, EndsOf, RestLabels, GoodRows DEF Live
<1>9. CASE LiveSwap(c)
  <2>1. Ends(c)
    BY <1>9, EndsOf, RestLabels DEF LiveSwap
  <2>2. NonceLeft /\ (UNCHANGED row \/ SetRow(Addr(c), encode_avail(0)))
    BY <1>9 DEF LiveSwap
  <2> QED BY <1>2, <2>1, <2>2, GoodRows, RowGood DEF Setting
<1>10. CASE Discard(c)
  <2>1. Return(c) /\ (UNCHANGED row \/ SetRow(Addr(c), None))
    BY <1>10 DEF Discard
  <2> QED BY <1>2, <2>1, EndsOf, GoodRows, RowGood DEF Setting
<1> QED BY <1>4, <1>5, <1>6, <1>7, <1>8, <1>9, <1>10

(* The publication of a fill, and the guards that drop.                     *)
LEMMA FillsRest ==
  ASSUME Setting, NEW c \in Clients,
         \/ RlSwap(c) \/ RlPrune(c) \/ RlCheck(c) \/ RlRemove(c) \/ DropRow(c) \/ DropBody(c)
         \/ PubSwap(c) \/ PubRemove(c) \/ Disarm(c) \/ Restore(c)
  PROVE  Ends(c) /\ RowsGood /\ pc[c] # "idle"
<1>1. pc[c] # "idle"
  BY DEF RlSwap, RlPrune, RlCheck, RlRemove, DropRow, DropBody, PubSwap, PubRemove, Disarm, Restore, At
<1>2. loc[c] \in Locals /\ Addr(c) \in Addrs /\ Addr(c) = loc[c].addrs[1] /\ Shape(pc[c], loc[c]) /\ loc[c].todo \in Seq(Addrs)
  BY <1>1, Here DEF Setting
<1>3. CASE RlSwap(c) \/ PubSwap(c)
  <2>1. pc[c] \in Publishing /\ NonceLeft /\ Ends(c)
    BY <1>3, EndsOf, RestLabels DEF RlSwap, PubSwap, At, Publishing, WritingThrough
  <2>2. loc[c].etag = backend[Addr(c)].ver /\ loc[c].etag \in 0 .. MaxVer
    BY <1>2, <2>1 DEF Setting, CurrentInv, Proven, Locals
  <2>3. Good(Addr(c), encode_avail(loc[c].etag))
    BY <2>1, <2>2, Encoded DEF Good
  <2>4. UNCHANGED row \/ SetRow(Addr(c), encode_avail(loc[c].etag))
    BY <1>3 DEF RlSwap, PubSwap
  <2> QED BY <1>1, <1>2, <2>1, <2>3, <2>4, GoodRows, RowGood DEF Setting
<1>4. CASE RlPrune(c) \/ RlCheck(c) \/ DropBody(c) \/ Disarm(c)
  BY <1>1, <1>4, EndsOf, RestLabels, GoodRows DEF RlPrune, RlCheck, DropBody, Disarm
<1>5. CASE RlRemove(c) \/ PubRemove(c)
  <2>1. Ends(c) /\ SetRow(Addr(c), None)
    BY <1>5, EndsOf, RestLabels DEF RlRemove, PubRemove
  <2> QED BY <1>1, <1>2, <2>1, GoodRows, RowGood DEF Setting
<1>6. CASE DropRow(c)
  <2>1. Ends(c) /\ SetRow(Head(loc[c].todo), None) /\ pc[c] = "drop_row"
    BY <1>6, EndsOf, RestLabels DEF DropRow, At
  <2>2. Head(loc[c].todo) \in Addrs
    BY <1>2, <2>1, ElemsOf DEF Shape, Dropping
  <2> QED BY <1>1, <2>1, <2>2, GoodRows, RowGood DEF Setting
<1>7. CASE Restore(c)
  <2>1. pc[c] = "restore" /\ Return(c) /\ (UNCHANGED row \/ SetRow(Addr(c), loc[c].kept))
    BY <1>7 DEF Restore, At
  <2>2. loc[c].op = "continue"
    BY <1>2, <2>1 DEF Shape
  <2>3. tasks = {}
    BY <1>1, <2>2, Lone DEF Setting, Inv
  <2>4. Named(loc[c].kept) \in {0, backend[Addr(c)].ver}
    BY <1>2, <2>1 DEF Setting, CurrentInv, Proven, Keeping
  <2>5. Good(Addr(c), loc[c].kept)
    BY <2>3, <2>4 DEF Good
  <2> QED BY <1>1, <1>2, <2>1, <2>5, EndsOf, GoodRows, RowGood DEF Setting
<1> QED BY <1>3, <1>4, <1>5, <1>6, <1>7

(* The clears and the sweeps.                                               *)
LEMMA ClearsRest ==
  ASSUME Setting, NEW c \in Clients,
         \/ ClRead(c) \/ ClSwap(c) \/ ClRemove(c) \/ ClBody(c) \/ StSelect(c) \/ StRow(c) \/ StBody(c)
  PROVE  Ends(c) /\ RowsGood /\ pc[c] # "idle"
<1>1. pc[c] \in Clearing \cup Sweeping
  BY DEF ClRead, ClSwap, ClRemove, ClBody, StSelect, StRow, StBody, At, Clearing, Sweeping
<1>2. pc[c] # "idle"
  BY <1>1 DEF Clearing, Sweeping
<1>3. loc[c] \in Locals /\ Shape(pc[c], loc[c]) /\ loc[c].todo \in Seq(Addrs)
  BY <1>2, Here DEF Setting
<1>4. Head(loc[c].todo) \in Addrs /\ loc[c].sub \subseteq Addrs
  BY <1>1, <1>3, ElemsOf DEF Shape, Locals
<1>5. CASE ClRead(c) \/ ClBody(c) \/ StSelect(c) \/ StBody(c)
  BY <1>2, <1>5, EndsOf, RestLabels, GoodRows DEF ClRead, ClBody, StSelect, StBody
<1>6. CASE ClSwap(c)
  <2>1. Ends(c)
    BY <1>6, EndsOf, RestLabels DEF ClSwap
  <2>2. NonceLeft /\ (UNCHANGED row \/ SetRow(Head(loc[c].todo), encode_avail(0)))
    BY <1>6 DEF ClSwap
  <2> QED BY <1>2, <1>4, <2>1, <2>2, GoodRows, RowGood DEF Setting
<1>7. CASE ClRemove(c)
  <2>1. Ends(c) /\ SetRow(Head(loc[c].todo), None)
    BY <1>7, EndsOf, RestLabels DEF ClRemove
  <2> QED BY <1>2, <1>4, <2>1, GoodRows, RowGood DEF Setting
<1>8. CASE StRow(c)
  <2>1. Ends(c)
    BY <1>8, EndsOf, RestLabels DEF StRow
  <2>2. UNCHANGED row \/ \E b \in loc[c].sub : SetRow(b, None)
    BY <1>8 DEF StRow
  <2> QED BY <1>2, <1>4, <2>1, <2>2, GoodRows, RowGood DEF Setting
<1> QED BY <1>5, <1>6, <1>7, <1>8

(* The steps of a call that goes on to publish: what it has proven stays    *)
(* proven.                                                                  *)
LEMMA PublishesOn ==
  ASSUME Setting, NEW c \in Clients, pc[c] # "idle", UNCHANGED <<backend, row, tasks>>, NEW label \in Publishing, NEW l,
         Moves(c, label, l), l.etag = backend[l.addrs[1]].ver
  PROVE  CurrentInv'
<1>1. c \in sc.clients /\ label \notin Keeping /\ ~Waits(label, l)
  BY Here DEF Setting, Publishing, WritingThrough, Keeping, Waits
<1> QED BY <1>1, GoodRows, CurrentStep DEF Proven

(* The fetch and the fill.                                                  *)
LEMMA FillsCurrent ==
  ASSUME Setting, NEW c \in Clients, Fetch(c) \/ Fill(c) \/ Tee(c) \/ TeeCommit(c), UNCHANGED <<world, tasks>>
  PROVE  CurrentInv'
<1>1. pc[c] \in Reading /\ UNCHANGED <<row, backend>>
  BY DEF Fetch, Fill, Tee, TeeCommit, At, Reading, world
<1>2. /\ pc[c] # "idle" /\ loc[c] \in Locals /\ Addr(c) \in Addrs /\ Addr(c) = loc[c].addrs[1] /\ c \in sc.clients
  BY <1>1, AtRead, Here DEF Setting
<1>3. Ends(c) => CurrentInv'
  BY <1>1, <1>2, GoodRows, CurrentEnds
<1>4. ASSUME NEW label \in Publishing, NEW l, Goto(c, label, l) \/ Continue(c, label, l), l.etag = backend[Addr(c)].ver, l.addrs = loc[c].addrs
      PROVE  CurrentInv'
  <2>1. Moves(c, label, l)
    BY <1>4 DEF Goto, Continue, Moves
  <2> QED BY <1>1, <1>2, <1>4, <2>1, PublishesOn
<1>5. {"fill", "tee", "tee_commit", "rl_swap"} \subseteq Publishing
  BY DEF Publishing
<1>6. CASE Fetch(c)
  <2> DEFINE obj == backend[Addr(c)]
             m == [loc[c] EXCEPT !.etag = obj.ver, !.guards = loc[c].addrs,
                     !.old[Addr(c)] = IF Named(loc[c].snap) = obj.ver THEN 0 ELSE Named(loc[c].snap)]
  <2>1. Continue(c, "fill", m) \/ \E label \in {"discard", "live"} : Continue(c, label, loc[c])
    BY <1>6, Zenon DEF Fetch
  <2>2. m.etag = obj.ver /\ m.addrs = loc[c].addrs
    BY <1>2 DEF Locals
  <2> HIDE DEF m
  <2> QED BY <1>3, <1>4, <1>5, <2>1, <2>2, EndsOf, RestLabels
<1>7. CASE Fill(c) \/ Tee(c) \/ TeeCommit(c)
  <2>1. pc[c] \in Publishing
    BY <1>5, <1>7 DEF Fill, Tee, TeeCommit, At
  <2>2. loc[c].etag = backend[Addr(c)].ver
    BY <1>2, <2>1 DEF Setting, CurrentInv, Proven
  <2> DEFINE m == [loc[c] EXCEPT !.reg = TRUE, !.gen = Generation(c)]
  <2>3. m.etag = loc[c].etag /\ m.addrs = loc[c].addrs
    BY <1>2 DEF Locals
  <2>4. \/ Unwind(c, loc[c]) \/ Filled(c, loc[c]) \/ EnterClear(c, loc[c]) \/ Goto(c, "tee", m)
        \/ Continue(c, "tee_commit", loc[c])
    BY <1>7 DEF Fill, Tee, TeeCommit
  <2> HIDE DEF m
  <2>5. Filled(c, loc[c]) => Unwind(c, loc[c]) \/ Continue(c, "rl_swap", loc[c])
    BY DEF Filled
  <2> QED BY <1>3, <1>4, <1>5, <2>2, <2>3, <2>4, <2>5, EndsOf
<1> QED BY <1>6, <1>7

(* The commit of a write-through.                                           *)
LEMMA WritesCurrent ==
  ASSUME Setting, NEW c \in Clients, WtCommit(c) \/ WtFinal(c), UNCHANGED <<world, tasks>>
  PROVE  CurrentInv'
<1>1. pc[c] \in {"wt_commit", "wt_final"} /\ UNCHANGED <<row, backend>>
  BY DEF WtCommit, WtFinal, At, world
<1>2. pc[c] # "idle" /\ Addr(c) = loc[c].addrs[1] /\ c \in sc.clients
  BY <1>1, Here DEF Setting
<1>3. loc[c].etag = backend[Addr(c)].ver
  BY <1>1, <1>2 DEF Setting, CurrentInv, Proven, Publishing, WritingThrough
<1>4. {"wt_final", "pub_swap"} \subseteq Publishing
  BY DEF Publishing, WritingThrough
<1>5. \/ Ends(c)
      \/ \E label \in {"wt_final", "pub_swap"} : Goto(c, label, loc[c])
  BY EndsOf, RestLabels DEF WtCommit, WtFinal, Continue
<1>6. CASE Ends(c)
  BY <1>1, <1>2, <1>6, GoodRows, CurrentEnds
<1>7. ASSUME NEW label \in {"wt_final", "pub_swap"}, Goto(c, label, loc[c]) PROVE CurrentInv'
  <2>1. Moves(c, label, loc[c])
    BY <1>7 DEF Goto, Moves
  <2> QED BY <1>1, <1>2, <1>3, <1>4, <2>1, PublishesOn
<1> QED BY <1>5, <1>6, <1>7

(* The snapshot of a write-through finds the row as it was armed, or seeds  *)
(* it.                                                                      *)
LEMMA SnapsCurrent ==
  ASSUME Setting, NEW c \in Clients, pc[c] \in {"snap", "seed"}, NEW l \in Locals, l.op = loc[c].op, l.addrs = loc[c].addrs,
         l.kept = loc[c].kept,
         Snapped(c, l) \/ (\E label \in {"snap", "seed"} : Continue(c, label, l)),
         UNCHANGED <<backend, tasks>>,
         UNCHANGED row \/ (row' = [row EXCEPT ![Addr(c)] = encode_avail(0)] /\ NonceLeft)
  PROVE  CurrentInv'
<1>1. /\ loc[c] \in Locals /\ Addr(c) \in Addrs /\ Addr(c) = loc[c].addrs[1] /\ c \in sc.clients
      /\ loc[c].op \in {"read", "write"} /\ loc[c].kept = None
  <2>1. pc[c] # "idle"
    OBVIOUS
  <2> QED BY <2>1, Here DEF Setting, Shape
<1>2. RowsGood /\ (row'[Addr(c)] = row[Addr(c)] \/ (Good(Addr(c), row'[Addr(c)]) /\ Named(row'[Addr(c)]) = 0))
  BY <1>1, GoodRows, RowGood DEF Setting, SetRow
<1>3. PICK label, m : /\ label \in {"fetch", "inner", "snap", "seed"}
                      /\ Moves(c, label, m) /\ m.op = l.op /\ m.addrs = l.addrs /\ m.kept = l.kept
                      /\ label = "fetch" => m.op = "read"
  <2> DEFINE n == [l EXCEPT !.reg = TRUE, !.gen = Generation(c)]
  <2>1. n.op = l.op /\ n.addrs = l.addrs /\ n.kept = l.kept
    BY DEF Locals
  <2>2. \/ l.op = "read" /\ Continue(c, "fetch", l)
        \/ \E label \in {"inner", "snap", "seed"} : Continue(c, label, l)
        \/ Goto(c, "inner", n)
    BY DEF Snapped
  <2> HIDE DEF n
  <2> QED BY <2>1, <2>2 DEF Continue, Goto, Moves
<1>4. Proven(label, m)
  BY <1>1, <1>3, Names DEF Proven, Publishing, WritingThrough
<1>5. Waits(label, m) => Waits(pc[c], loc[c]) /\ m.addrs[1] = Addr(c)
  BY <1>1, <1>3 DEF Waits
<1> QED BY <1>1, <1>2, <1>3, <1>4, <1>5, CurrentStep

(* A snapshot, and the seed of an absent row.                               *)
LEMMA SeedsCurrent ==
  ASSUME Setting, NEW c \in Clients, Snap(c) \/ Seed(c), UNCHANGED <<world, tasks>>
  PROVE  CurrentInv'
<1>1. pc[c] \in {"snap", "seed"} /\ UNCHANGED backend
  BY DEF Snap, Seed, At, world
<1>2. loc[c] \in Locals /\ Addr(c) \in Addrs /\ row[Addr(c)] \in Rows \cup {None} /\ loc[c].tries \in Nat
  <2>1. loc[c] \in Locals
    BY <1>1, Here DEF Setting
  <2> QED BY <1>1, <2>1, Here DEF Setting, Locals
<1>3. ASSUME NEW r \in Rows \cup {None}, NEW l, l = [loc[c] EXCEPT !.snap = r]
      PROVE  l \in Locals /\ l.op = loc[c].op /\ l.addrs = loc[c].addrs /\ l.kept = loc[c].kept
  BY <1>2, <1>3 DEF Locals
<1>4. CASE Snap(c)
  <2>1. UNCHANGED row /\ (Snapped(c, [loc[c] EXCEPT !.snap = row[Addr(c)]]) \/ Continue(c, "seed", loc[c]))
    BY <1>4 DEF Snap
  <2>2. PICK l : l = [loc[c] EXCEPT !.snap = row[Addr(c)]]
    OBVIOUS
  <2> QED BY <1>1, <1>2, <1>3, <2>1, <2>2, SnapsCurrent
<1>5. CASE Seed(c)
  <2>1. PICK new : new = encode_avail(0)
    OBVIOUS
  <2>2. PICK l : l = [loc[c] EXCEPT !.snap = new]
    OBVIOUS
  <2>3. PICK m : m = [loc[c] EXCEPT !.tries = @ + 1]
    OBVIOUS
  <2>4. /\ NonceLeft
        /\ \/ row' = [row EXCEPT ![Addr(c)] = new] /\ Snapped(c, l)
           \/ UNCHANGED row /\ (Snapped(c, loc[c]) \/ Continue(c, "snap", m))
    BY <1>5, <2>1, <2>2, <2>3 DEF Seed, SetRow
  <2>5. new \in Rows
    BY <2>1, <2>4, Encoded, BoundsAssumption DEF Fresh
  <2>6. m \in Locals /\ m.op = loc[c].op /\ m.addrs = loc[c].addrs /\ m.kept = loc[c].kept
    <3>1. PICK n \in Nat : n = loc[c].tries + 1
      BY <1>2
    <3>2. m = [loc[c] EXCEPT !.tries = n]
      BY <2>3, <3>1
    <3> QED BY <1>2, <3>2 DEF Locals
  <2> QED BY <1>1, <1>2, <1>3, <2>1, <2>2, <2>4, <2>5, <2>6, SnapsCurrent
<1> QED BY <1>4, <1>5

(* One client makes no subtree mutations.                                   *)
LEMMA NoTrees ==
  ASSUME Setting, NEW c \in Clients, pc[c] # "idle"
  PROVE  loc[c].op \notin {"tree", "rename"} /\ "remove" \notin sc.mishaps
<1>1. Allowed(loc[c]) /\ sc \in Scenarios /\ Alone(sc)
  BY Here DEF Setting, Inv, TypeOK, OneClient
<1> QED BY <1>1 DEF Allowed, Setting, WriteAhead

(* Arming: what is kept is what the row names; then the row goes.           *)
LEMMA ArmsCurrent ==
  ASSUME Setting, NEW c \in Clients, ArmRead(c) \/ ArmClear(c), UNCHANGED <<world, tasks>>
  PROVE  CurrentInv'
<1>1. pc[c] \in Arming /\ UNCHANGED backend
  BY DEF ArmRead, ArmClear, At, Arming, world
<1>2. /\ pc[c] # "idle" /\ loc[c] \in Locals /\ loc[c].op \in {"write", "mutate", "continue"}
      /\ Addr(c) \in Addrs /\ Addr(c) = loc[c].addrs[1] /\ c \in sc.clients
  BY <1>1, AtArm, NoTrees, Here DEF Setting, Mutations
<1>3. Head(loc[c].todo) = Addr(c) /\ Tail(loc[c].todo) \in Seq(Addrs)
  BY <1>1, <1>2, AtArm DEF Setting
<1>4. Named(loc[c].kept) \in {0, backend[Addr(c)].ver} /\ Named(row[Addr(c)]) \in {0, backend[Addr(c)].ver}
  BY <1>1, <1>2 DEF Setting, CurrentInv, Proven, Keeping, Arming
<1>5. CASE ArmRead(c)
  <2> DEFINE k == IF loc[c].op = "continue" THEN row[Addr(c)] ELSE None
  <2>1. PICK m : m = [loc[c] EXCEPT !.old[Addr(c)] = Named(row[Addr(c)]), !.kept = k]
    OBVIOUS
  <2>2. m.addrs = loc[c].addrs /\ m.kept = k
    BY <1>2, <2>1 DEF Locals
  <2>3. Moves(c, "arm_clear", m) /\ UNCHANGED row
    BY <1>3, <1>5, <2>1 DEF ArmRead, Continue, Goto, Moves
  <2>4. Proven("arm_clear", m) /\ ~Waits("arm_clear", m)
    BY <1>2, <1>4, <2>2, Names DEF Proven, Waits, Publishing, WritingThrough
  <2> QED BY <1>1, <1>2, <2>3, <2>4, GoodRows, CurrentStep
<1>6. CASE ArmClear(c)
  <2>1. PICK l : l = [loc[c] EXCEPT !.todo = Tail(@)]
    OBVIOUS
  <2>2. /\ l.addrs = loc[c].addrs /\ l.kept = loc[c].kept /\ l.op = loc[c].op /\ l \in Locals
    BY <1>2, <1>3, <2>1 DEF Locals
  <2>3. PICK m : m = [l EXCEPT !.guards = <<Head(l.todo)>> \o @]
    OBVIOUS
  <2>4. m.addrs = loc[c].addrs /\ m.kept = loc[c].kept /\ m.op = loc[c].op
    BY <2>2, <2>3 DEF Locals
  <2>5. SetRow(Addr(c), None) /\ (Continue(c, "arm_read", m) \/ Continue(c, "snap", l) \/ Continue(c, "inner", l))
    BY <1>3, <1>6, <2>1, <2>3 DEF ArmClear, Armed
  <2>6. RowsGood /\ row'[Addr(c)] = None /\ Good(Addr(c), None) /\ Named(None) = 0
    BY <1>2, <2>5, GoodRows, RowGood, Names DEF Setting
  <2>7. PICK label, n : Moves(c, label, n) /\ label \in {"arm_read", "snap", "inner"} /\ n.addrs = loc[c].addrs /\ n.kept = loc[c].kept
    BY <2>2, <2>4, <2>5 DEF Continue, Goto, Moves
  <2>8. Proven(label, n)
    BY <1>2, <1>4, <2>7 DEF Proven, Publishing, WritingThrough
  <2> QED BY <1>1, <1>2, <2>6, <2>7, <2>8, CurrentStep
<1> QED BY <1>5, <1>6

(* The backend answers: only the object whose row is armed has changed.     *)
LEMMA InnersCurrent ==
  ASSUME Setting, NEW c \in Clients, InnerOk(c) \/ InnerFails(c) \/ InnerRedirects(c), UNCHANGED tasks
  PROVE  CurrentInv'
<1>1. pc[c] = "inner" /\ UNCHANGED row
  BY DEF InnerOk, InnerFails, InnerRedirects, At
<1>2. /\ pc[c] # "idle" /\ loc[c] \in Locals /\ loc[c].op \in {"write", "mutate", "continue"}
      /\ Addr(c) \in Addrs /\ Addr(c) = loc[c].addrs[1] /\ c \in sc.clients
  BY <1>1, AtInner, NoTrees, Here DEF Setting, Mutations
<1>3. Scope(loc[c]) \subseteq {Addr(c)}
  BY <1>1, <1>2, AtInner DEF Setting, Swept, Trees
<1>4. ASSUME NEW A, A \subseteq {Addr(c)}, NEW alive, Change(A, alive) \/ UNCHANGED backend
      PROVE  \A b \in Addrs : b # Addr(c) => backend'[b].ver = backend[b].ver
  BY <1>4 DEF Change
<1>5. CASE InnerOk(c)
  <2> DEFINE v == Established(Scope(loc[c]))
             done == [loc[c] EXCEPT !.ver = v, !.todo = loc[c].addrs]
             e == backend'[Addr(c)].ver
             wt == [done EXCEPT !.etag = e]
  <2>1. /\ UNCHANGED backend \/ \E alive : Change(Scope(loc[c]), alive)
        /\ Continue(c, "wt_commit", wt) \/ EnterClear(c, done)
    BY <1>5 DEF InnerOk
  <2>2. \A b \in Addrs : b # Addr(c) => backend'[b].ver = backend[b].ver
    BY <1>3, <1>4, <2>1
  <2>3. wt.etag = e /\ wt.addrs = loc[c].addrs
    <3> HIDE DEF v, e
    <3> QED BY <1>2 DEF Locals
  <2>4. CASE Continue(c, "wt_commit", wt)
    <3>1. PICK l : l = wt
      OBVIOUS
    <3>2. Moves(c, "wt_commit", l) /\ l.etag = backend'[l.addrs[1]].ver
      BY <1>2, <2>3, <2>4, <3>1 DEF Continue, Goto, Moves
    <3> QED BY <1>1, <2>2, <3>2, CurrentInner
  <2>5. CASE EnterClear(c, done)
    <3>1. PICK l : Moves(c, "cl_read", l)
      BY <2>5 DEF EnterClear, Goto, Moves
    <3> QED BY <1>1, <2>2, <3>1, CurrentInner
  <2> QED BY <2>1, <2>4, <2>5
<1>6. CASE InnerFails(c)
  <2>1. PICK A : /\ A \subseteq Scope(loc[c]) /\ \E alive : Change(A, alive)
                 /\ Unwind(c, [loc[c] EXCEPT !.ver = Established(A)])
    BY <1>6 DEF InnerFails
  <2>2. \A b \in Addrs : b # Addr(c) => backend'[b].ver = backend[b].ver
    BY <1>3, <1>4, <2>1
  <2>3. PICK label, l : label \in {"idle", "drop_row"} /\ Moves(c, label, l)
    BY <2>1 DEF Unwind, Return, Continue, Goto, Moves
  <2> QED BY <1>1, <2>2, <2>3, CurrentInner
<1>7. CASE InnerRedirects(c)
  <2>1. UNCHANGED backend
    BY <1>7 DEF InnerRedirects, world
  <2>2. CASE Return(c)
    BY <1>1, <1>2, <2>1, <2>2, EndsOf, GoodRows, CurrentEnds
  <2>3. CASE Continue(c, "restore", [loc[c] EXCEPT !.guards = <<>>])
    <3>1. PICK m : m = [loc[c] EXCEPT !.guards = <<>>]
      OBVIOUS
    <3>2. m.addrs = loc[c].addrs /\ m.kept = loc[c].kept
      BY <1>2, <3>1 DEF Locals
    <3>3. Moves(c, "restore", m) /\ ~Waits("restore", m)
      BY <2>3, <3>1 DEF Continue, Goto, Moves, Waits
    <3>4. Proven("restore", m)
      BY <1>1, <3>2 DEF Proven, Publishing, WritingThrough, Keeping, Setting, CurrentInv
    <3> QED BY <1>1, <1>2, <2>1, <3>3, <3>4, GoodRows, CurrentStep
  <2> QED BY <1>7, <2>2, <2>3 DEF InnerRedirects
<1> QED BY <1>5, <1>6, <1>7

(* An unreadable row.                                                       *)
LEMMA ReadFailsCurrent ==
  ASSUME Setting, NEW c \in Clients, ReadFails(c)
  PROVE  CurrentInv'
<1>1. /\ UNCHANGED <<backend, row, tasks>>
      /\ \/ pc[c] = "known" /\ Continue(c, "snap", loc[c])
         \/ pc[c] = "lookup" /\ Return(c)
         \/ pc[c] = "snap" /\ Snapped(c, loc[c])
         \/ pc[c] = "live" /\ AfterLive(c, loc[c])
         \/ pc[c] = "rl_check" /\ Continue(c, "rl_remove", loc[c])
         \/ pc[c] = "arm_read" /\ Continue(c, "arm_clear", loc[c])
         \/ pc[c] = "cl_read" /\ Continue(c, "cl_remove", loc[c])
  BY DEF ReadFails, At, world
<1>2. pc[c] # "idle"
  BY <1>1
<1>3. loc[c] \in Locals /\ c \in sc.clients /\ Shape(pc[c], loc[c])
  BY <1>2, Here DEF Setting
<1>4. CASE pc[c] = "snap" /\ Snapped(c, loc[c])
  BY <1>1, <1>3, <1>4, SnapsCurrent
<1>5. CASE pc[c] = "arm_read" /\ Continue(c, "arm_clear", loc[c])
  <2>1. Moves(c, "arm_clear", loc[c]) /\ ~Waits("arm_clear", loc[c])
    BY <1>5 DEF Continue, Goto, Moves, Waits
  <2>2. Proven("arm_clear", loc[c])
    BY <1>5 DEF Proven, Publishing, WritingThrough, Keeping, Setting, CurrentInv
  <2> QED BY <1>1, <1>3, <2>1, <2>2, GoodRows, CurrentStep
<1>6. CASE pc[c] = "known" /\ Continue(c, "snap", loc[c])
  <2>1. loc[c].op = "read"
    BY <1>3, <1>6 DEF Shape, Reading
  <2>2. Ends(c)
    BY <1>6, <2>1 DEF Continue, Goto, Moves, Ends
  <2> QED BY <1>1, <1>3, <2>2, GoodRows, CurrentEnds
<1>7. CASE Return(c) \/ AfterLive(c, loc[c]) \/ Continue(c, "rl_remove", loc[c]) \/ Continue(c, "cl_remove", loc[c])
  BY <1>1, <1>3, <1>7, EndsOf, RestLabels, GoodRows, CurrentEnds
<1> QED BY <1>1, <1>4, <1>5, <1>6, <1>7

(* What a client waits to see swapped in is a good row.                     *)
LEMMA BlockedGood ==
  ASSUME Setting, NEW c \in Clients, pc[c] # "idle", NonceLeft, NEW t \in Blocking(c), t.kind = "swap"
  PROVE  /\ t.addr \in Addrs /\ Good(t.addr, t.to) /\ Named(t.to) \in {0, backend[t.addr].ver}
         /\ pc[c] = "seed" => t.addr = Addr(c) /\ t.to = encode_avail(0)
<1>1. /\ loc[c] \in Locals /\ Shape(pc[c], loc[c]) /\ Addr(c) = loc[c].addrs[1]
  BY Here DEF Setting
<1>2. /\ t.addr = Target(c) /\ Target(c) \in Addrs /\ loc[c].etag \in 0 .. MaxVer
      /\ (loc[c].op \in {"read", "write", "mutate", "continue"} => Target(c) = Addr(c))
  BY <1>1, BlocksOn, TargetOf DEF Setting, Blocks, Locals
<1>3. CASE t.to = encode_avail(0) /\ pc[c] \in {"seed", "cl_swap", "live_swap"}
  <2>1. pc[c] = "seed" => t.addr = Addr(c)
    BY <1>1, <1>2 DEF Shape
  <2> QED BY <1>2, <1>3, <2>1, GoodRows
<1>4. CASE t.to = None /\ pc[c] # "seed"
  BY <1>2, <1>4, GoodRows, Names
<1>5. CASE pc[c] \in {"rl_swap", "pub_swap"} /\ t.to = encode_avail(loc[c].etag)
  <2>1. loc[c].op \in {"read", "write"}
    BY <1>1, <1>5 DEF Shape, Reading, WritingThrough
  <2>2. loc[c].etag = backend[Addr(c)].ver
    BY <1>1, <1>5 DEF Setting, CurrentInv, Proven, Publishing, WritingThrough
  <2> QED BY <1>2, <1>5, <2>1, <2>2, Encoded DEF Good
<1>6. CASE pc[c] = "restore" /\ t.to = loc[c].kept
  <2>1. loc[c].op = "continue"
    BY <1>1, <1>6 DEF Shape
  <2>2. tasks = {}
    BY <2>1, Lone DEF Setting, Inv
  <2>3. Named(loc[c].kept) \in {0, backend[Addr(c)].ver}
    BY <1>1, <1>6 DEF Setting, CurrentInv, Proven, Keeping
  <2> QED BY <1>2, <1>6, <2>1, <2>2, <2>3 DEF Good
<1> QED BY <1>3, <1>4, <1>5, <1>6, BlocksOn DEF Setting, Blocks

(* A compare-and-swap that fails, and may have landed.                      *)
LEMMA SwapFailsCurrent ==
  ASSUME Setting, NEW c \in Clients, SwapFails(c)
  PROVE  CurrentInv'
<1>1. UNCHANGED <<backend, tasks>> /\ NonceLeft
  BY DEF SwapFails, world
<1>2. PICK t \in Blocking(c) :
        /\ t.kind = "swap"
        /\ UNCHANGED row \/ SetRow(t.addr, t.to) \/ (pc[c] = "live_swap" /\ SetRow(t.addr, None))
        /\ \/ pc[c] = "seed" /\ Snapped(c, loc[c])
           \/ pc[c] \in {"discard", "restore"} /\ Return(c)
           \/ pc[c] = "rl_swap" /\ Continue(c, "rl_remove", loc[c])
           \/ pc[c] = "pub_swap" /\ Continue(c, "pub_remove", loc[c])
           \/ pc[c] = "cl_swap" /\ Continue(c, "cl_remove", [loc[c] EXCEPT !.body = t.body, !.seen = None])
           \/ pc[c] = "live_swap" /\ Continue(c, "live_body", [loc[c] EXCEPT !.body = t.body])
  BY DEF SwapFails, At
<1>3. pc[c] # "idle"
  BY <1>2
<1>4. loc[c] \in Locals /\ c \in sc.clients
  BY <1>3, Here DEF Setting
<1>5. t.addr \in Addrs /\ Good(t.addr, t.to) /\ (pc[c] = "seed" => t.addr = Addr(c) /\ t.to = encode_avail(0))
  BY <1>1, <1>2, <1>3, BlockedGood
<1>6. CASE pc[c] = "seed" /\ Snapped(c, loc[c])
  <2>1. UNCHANGED row \/ row' = [row EXCEPT ![Addr(c)] = encode_avail(0)]
    BY <1>2, <1>5, <1>6 DEF SetRow
  <2> QED BY <1>1, <1>4, <1>6, <2>1, SnapsCurrent
<1>7. CASE pc[c] # "seed"
  <2>1. RowsGood
    BY <1>2, <1>5, GoodRows, RowGood DEF Setting
  <2>2. Ends(c)
    BY <1>2, <1>7, EndsOf, RestLabels
  <2> QED BY <1>1, <1>4, <2>1, <2>2, CurrentEnds
<1> QED BY <1>2, <1>6, <1>7

(* A cancelled call: the swap it leaves behind publishes what the backend   *)
(* has.                                                                     *)
LEMMA CancelCurrent ==
  ASSUME Setting, NEW c \in Clients, Cancel(c)
  PROVE  CurrentInv'
<1>1. pc[c] # "idle" /\ UNCHANGED <<backend, row>> /\ NonceLeft /\ tasks' = tasks \cup Blocking(c)
  BY DEF Cancel, Awaits, world
<1>2. c \in sc.clients /\ Ends(c)
  BY <1>1, Here, EndsOf DEF Setting, Cancel
<1>3. \A t \in tasks' \ tasks : Publishes(t) => Named(t.to) = backend[t.addr].ver
  BY <1>1, BlockedGood DEF Publishes
<1> QED BY <1>1, <1>2, <1>3, GoodRows, CurrentEnds

(* A call begins.                                                           *)
LEMMA StartCurrent ==
  ASSUME Setting, NEW c \in Clients, Start(c)
  PROVE  CurrentInv'
<1>1. c \in sc.clients /\ "watch" \notin sc.ops
  BY DEF Start, Setting, OneClient, Alone
<1>2. UNCHANGED <<backend, row, tasks>>
  BY DEF Start, Read, Mutate, Lapse, Watch, world
<1>3. ASSUME NEW op, NEW s, Mutate(c, op, s) PROVE CurrentInv'
  <2>1. PICK l : l = [Begun(op, s) EXCEPT !.guards = <<s[1]>>]
    OBVIOUS
  <2>2. l.kept = None
    BY <2>1 DEF Begun, NoLocals
  <2>3. Moves(c, "arm_read", l)
    BY <1>3, <2>1 DEF Mutate, Continue, Goto, Moves
  <2>4. Proven("arm_read", l) /\ ~Waits("arm_read", l)
    BY <2>2, Names DEF Proven, Waits, Publishing, WritingThrough
  <2> QED BY <1>1, <1>2, <2>3, <2>4, GoodRows, CurrentStep
<1>4. ASSUME NEW a, Read(c, a) \/ Lapse(c, a) PROVE CurrentInv'
  <2>1. Ends(c)
    BY <1>4, EndsOf, RestLabels DEF Read, Lapse
  <2> QED BY <1>1, <1>2, <2>1, GoodRows, CurrentEnds
<1>5. ~\E e \in events : Watch(c, e)
  BY <1>1 DEF Watch, Call
<1> QED BY <1>3, <1>4, <1>5 DEF Start

(* A step of a call.                                                        *)
LEMMA LocalCurrent ==
  ASSUME Setting, NEW c \in Clients, Local(c), UNCHANGED <<world, tasks>>
  PROVE  CurrentInv'
<1>1. ASSUME Ends(c), RowsGood, pc[c] # "idle" PROVE CurrentInv'
  <2>1. c \in sc.clients /\ UNCHANGED backend
    BY <1>1, Here DEF Setting, world
  <2> QED BY <1>1, <2>1, CurrentEnds
<1>2. CASE Stat(c) \/ Known(c) \/ Lookup(c) \/ Hit(c) \/ Live(c) \/ LiveSwap(c) \/ LiveBody(c) \/ Discard(c)
  BY <1>1, <1>2, ReadsRest
<1>3. CASE \/ RlSwap(c) \/ RlPrune(c) \/ RlCheck(c) \/ RlRemove(c) \/ DropRow(c) \/ DropBody(c)
           \/ PubSwap(c) \/ PubRemove(c) \/ Disarm(c) \/ Restore(c)
  BY <1>1, <1>3, FillsRest
<1>4. CASE ClRead(c) \/ ClSwap(c) \/ ClRemove(c) \/ ClBody(c) \/ StSelect(c) \/ StRow(c) \/ StBody(c)
  BY <1>1, <1>4, ClearsRest
<1>5. CASE Snap(c) \/ Seed(c)
  BY <1>5, SeedsCurrent
<1>6. CASE Fetch(c) \/ Fill(c) \/ Tee(c) \/ TeeCommit(c)
  BY <1>6, FillsCurrent
<1>7. CASE ArmRead(c) \/ ArmClear(c)
  BY <1>7, ArmsCurrent
<1>8. CASE WtCommit(c) \/ WtFinal(c)
  BY <1>8, WritesCurrent
<1> QED BY <1>2, <1>3, <1>4, <1>5, <1>6, <1>7, <1>8 DEF Local

(* Nobody leaves the scenario.                                              *)
LEMMA SameScenario ==
  ASSUME Inv, [Next]_vars
  PROVE  UNCHANGED sc
<1>1. ASSUME NEW c \in Clients, Start(c) PROVE UNCHANGED sc
  BY <1>1 DEF Start, Read, Mutate, Lapse, Watch
<1>2. ASSUME NEW c \in Clients, ReadFails(c) \/ SwapFails(c) \/ RemoveFails(c) \/ Cancel(c) PROVE UNCHANGED sc
  BY <1>2 DEF ReadFails, SwapFails, RemoveFails, Cancel
<1>3. ASSUME NEW t \in tasks, RunTask(t) PROVE UNCHANGED sc
  BY <1>3 DEF RunTask, bounds
<1>4. ASSUME NEW a \in Addrs, External(a) \/ Evict(a) PROVE UNCHANGED sc
  BY <1>4 DEF External, Evict, bounds
<1>5. ASSUME NEW h \in Hosts, Crash(h) PROVE UNCHANGED sc
  BY <1>5 DEF Crash
<1>6. UNCHANGED bounds \/ UNCHANGED vars => UNCHANGED sc
  BY DEF vars, bounds
<1> QED BY <1>1, <1>2, <1>3, <1>4, <1>5, <1>6 DEF Next

(* Every step preserves the invariant.                                      *)
LEMMA NextCurrent ==
  ASSUME Guarded, WriteAhead, Inv, Inv', CurrentInv, [Next]_vars
  PROVE  CurrentInv'
<1>1. UNCHANGED sc
  BY SameScenario
<1>2. CASE ~OneClient
  BY <1>1, <1>2 DEF CurrentInv, OneClient
<1>3. CASE OneClient
  <2>1. Setting
    BY <1>1, <1>3 DEF Setting
  <2>2. ASSUME NEW c \in Clients, Start(c) PROVE CurrentInv'
    BY <2>1, <2>2, StartCurrent
  <2>3. ASSUME NEW c \in Clients, Local(c), UNCHANGED <<world, tasks, bounds>> PROVE CurrentInv'
    BY <2>1, <2>3, LocalCurrent
  <2>4. ASSUME NEW c \in Clients, InnerOk(c) \/ InnerFails(c) \/ InnerRedirects(c), UNCHANGED <<events, tasks, bounds>> PROVE CurrentInv'
    BY <2>1, <2>4, InnersCurrent
  <2>5. ASSUME NEW c \in Clients, ReadFails(c) \/ SwapFails(c) \/ Cancel(c) PROVE CurrentInv'
    BY <2>1, <2>5, ReadFailsCurrent, SwapFailsCurrent, CancelCurrent
  <2>6. ASSUME NEW c \in Clients PROVE ~RemoveFails(c)
    <3>1. Alone(sc) /\ sc \in Scenarios
      BY <1>3 DEF OneClient, Inv, TypeOK
    <3> QED BY <3>1 DEF RemoveFails, Mishap, WriteAhead
  <2>7. ASSUME NEW t \in tasks, RunTask(t) PROVE CurrentInv'
    BY <2>1, <2>7, RunTaskStep, CurrentBehind
  <2>8. ASSUME NEW a \in Addrs, External(a) \/ Evict(a) PROVE CurrentInv'
    <3>1. ~External(a)
      BY <1>3 DEF External, OneClient, Alone
    <3> QED BY <2>1, <2>8, <3>1, EvictStep, CurrentBehind
  <2>9. ASSUME NEW h \in Hosts, Crash(h) PROVE CurrentInv'
    BY <2>1, <2>9, CurrentCrash
  <2>10. CASE UNCHANGED vars
    <3>1. UNCHANGED <<backend, row, pc, loc, tasks, floor>>
      BY <2>10 DEF vars, world
    <3>2. Behind
      BY <3>1 DEF Behind, KnownRows
    <3> QED BY <2>1, <3>1, <3>2, CurrentBehind
  <2> QED BY <2>2, <2>3, <2>4, <2>5, <2>6, <2>7, <2>8, <2>9, <2>10 DEF Next
<1> QED BY <1>2, <1>3

(* Write-ahead invalidation: at every instant, the instants of a crash      *)
(* included, an availability row names nothing or the validator that the    *)
(* backend has, where one client makes all the changes; for every number of *)
(* addresses, calls, versions, cancellations, crashes and failures, except  *)
(* in what Guarded and WriteAhead leave out.                                *)
THEOREM AlwaysCurrent ==
  ASSUME Guarded, WriteAhead
  PROVE  Spec => []RowCurrent
<1>1. Init => CurrentInv
  <2> SUFFICES ASSUME Init PROVE CurrentInv
    OBVIOUS
  <2>1. tasks = {} /\ backend = [a \in Addrs |-> [ver |-> 1, live |-> TRUE]] /\ pc = [c \in Clients |-> "idle"]
    BY DEF Init
  <2>2. \A a \in Addrs : Named(row[a]) \in {0, 1} /\ backend[a].ver = 1
    <3>1. PICK n : \A a \in Addrs : row[a] = [nonce |-> n, etag |-> 1] \/ row[a] = None
      BY DEF Init
    <3>2. PICK r : r = [nonce |-> n, etag |-> 1]
      OBVIOUS
    <3>3. Named(r) \in {0, 1} /\ Named(None) = 0
      BY <3>2 DEF Named
    <3> QED BY <2>1, <3>1, <3>2, <3>3
  <2>3. \A c \in Clients : ~Waits(pc[c], loc[c]) /\ Proven(pc[c], loc[c])
    BY <2>1 DEF Waits, Proven, Publishing, WritingThrough, Keeping
  <2> QED BY <2>1, <2>2, <2>3 DEF CurrentInv
<1>2. Inv /\ Inv' /\ CurrentInv /\ [Next]_vars => CurrentInv'
  BY NextCurrent
<1>3. CurrentInv => RowCurrent
  BY DEF CurrentInv, RowCurrent
<1> QED BY <1>1, <1>2, <1>3, Invariant, PTL DEF Spec
=============================================================================
