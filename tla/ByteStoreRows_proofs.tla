------------------------ MODULE ByteStoreRows_proofs ------------------------
(***************************************************************************)
(* More proofs about ByteStore, for any number of threads, targets and      *)
(* blobs: the rows and the files agree, recovery leaves both clean, and the *)
(* rows fit the budget.  Each theorem states as its hypothesis what the     *)
(* code does not bear: sibling processes, leases, faults or crashes.        *)
(***************************************************************************)
EXTENDS ByteStore_proofs

(* Where a call may go from a label: the control flow of byte.rs.           *)
Edge(p, q) ==
  \/ p = "idle" /\ q \in {"put_tx", "rd_file", "ls_row", "rc_check", "rm_delete", "ld_dec", "ev_start", "rv_sweep"}
  \/ p = "put_tx" /\ q \in {"put_link", "idle"}
  \/ p \in {"put_link", "rc_commit", "rv_orphans"} /\ q \in {"rc_check", "ev_start", "idle"}
  \/ p = "rc_check" /\ q \in {"rc_check", "rc_unlink", "ev_start", "idle"}
  \/ p = "rc_unlink" /\ q \in {"rc_commit", "rc_check", "ev_start", "idle"}
  \/ p = "ev_start" /\ q \in {"ev_pick", "ls_row", "idle"}
  \/ p = "ev_pick" /\ q \in {"ev_pick", "ev_delete", "ev_unlink", "ls_row", "idle"}
  \/ p = "ev_delete" /\ q = "ev_ref"
  \/ p = "ev_ref" /\ q = "ev_pick"
  \/ p = "ev_unlink" /\ q \in {"ev_unlink", "ev_untrack", "ls_row", "idle"}
  \/ p = "ev_untrack" /\ q \in {"ev_untrack", "ls_row", "idle"}
  \/ p = "ls_row" /\ q \in {"ls_path", "idle"}
  \/ p = "ls_path" /\ q \in {"ls_inc", "idle"}
  \/ p = "ls_inc" /\ q \in {"rd_row", "idle"}
  \/ p = "ld_dec" /\ q = "ld_ref"
  \/ p = "ld_ref" /\ q \in {"ld_pin", "idle"}
  \/ p = "ld_pin" /\ q \in {"ld_unlink", "idle"}
  \/ p = "ld_unlink" /\ q \in {"ld_delete", "idle"}
  \/ p = "ld_delete" /\ q = "idle"
  \/ p = "rd_row" /\ q \in {"rd_file", "ld_dec", "idle"}
  \/ p = "rd_file" /\ q \in {"rd_orphan", "qr_row", "idle"}
  \/ p \in {"rd_orphan", "qr_delete"} /\ q \in {"ld_dec", "idle"}
  \/ p = "qr_row" /\ q = "qr_pin"
  \/ p = "qr_pin" /\ q \in {"qr_unlink", "ld_dec", "idle"}
  \/ p = "qr_unlink" /\ q \in {"qr_delete", "ld_dec", "idle"}
  \/ p = "rm_delete" /\ q \in {"rm_delete", "rc_check"}
  \/ p = "rv_sweep" /\ q = "rv_rows"
  \/ p \in {"rv_rows", "rv_delete"} /\ q = "rv_row"
  \/ p = "rv_row" /\ q \in {"rv_row", "rv_delete", "rv_reset"}
  \/ p = "rv_reset" /\ q = "rv_orphans"

Puts == {"put", "putlease", "cas"}
EvictLabels == {"ev_pick", "ev_delete", "ev_ref", "ev_unlink", "ev_untrack"}
LeaseLabels == {"ls_row", "ls_path", "ls_inc"}
DropLabels == {"ld_dec", "ld_ref", "ld_pin", "ld_unlink", "ld_delete"}
BadLabels == {"qr_row", "qr_pin", "qr_unlink", "qr_delete"}
RecoverLabels == {"rv_sweep", "rv_rows", "rv_row", "rv_delete", "rv_reset", "rv_orphans"}
ReclaimLabels == {"rc_check", "rc_unlink", "rc_commit"}
PutLabels == {"put_tx", "put_link"}

(* The operation that a call serves is one that is used, and goes with the  *)
(* label; an idle thread serves none.                                       *)
OpsInv == \A th \in Threads : LET p == pc[th]
                                  o == loc[th].op
  IN /\ p = "idle" <=> o = "none"
     /\ o \notin {"none", "open", "drop"} => o \in Ops
     /\ o = "drop" => Ops \cap {"drop", "lookup"} # {}
     /\ p \in PutLabels => o \in Puts
     /\ o \in Puts => Writable(th)
     /\ p \in LeaseLabels => o \in {"putlease", "lookup"}
     /\ p \in DropLabels <=> o = "drop"
     /\ o = "open" => p \in RecoverLabels \cup ReclaimLabels \cup EvictLabels \cup {"ev_start"}
     /\ p \in EvictLabels => MaxBytes # None

(* A thread that is inside the mutex of its instance owns it.               *)
MutexInv == \A th \in Threads : pc[th] \in MutexLabels => mutex[Inst(th)] = th

(* An instance is opening while one of its threads opens it, and no other   *)
(* thread serves a call then, except to drop a Lease.                       *)
UpInv == \A th \in Threads : LET o == loc[th].op
  IN /\ o = "open" => /\ up[Inst(th)] = "opening"
                      /\ \A u \in Threads \ {th} : Inst(u) = Inst(th) => loc[u].op \in {"none", "drop"}
     /\ o \notin {"none", "drop", "open"} => up[Inst(th)] = "open"

Calls == OpsInv /\ MutexInv /\ UpInv
-----------------------------------------------------------------------------
(* RowBacked.                                                               *)
Transactional == MaxBytes = None /\ NoLeases /\ ~IoFaults /\ MaxCrashes = 0 /\ Corruptible = {}
BackedInv ==
  /\ RowBacked
  /\ corrupt = {} /\ \A th \in Threads : held[th] = None
  /\ \A th \in Threads : pc[th] \notin BadLabels \cup EvictLabels \cup LeaseLabels \cup DropLabels

(* NoStrandedBlob.                                                          *)
Unshared == SingleProcess /\ MaxBytes = None /\ NoDrops
TrackedInv ==
  /\ files \subseteq tracked
  /\ \A th \in Threads : /\ pc[th] = "put_link" => loc[th].key \in tracked
                         /\ pc[th] \in {"rc_commit", "qr_delete"} => loc[th].cur \notin files

(* RecoveredClean.                                                          *)
Backed(t) == entries[t] # None => entries[t] \in files
Quiet == \A k \in Keys : lease_count[k] = 0
Sole(th) == \A u \in Threads : held[u] = None /\ (u # th => loc[u].op = "none")
Recovering(th) == LET p == pc[th]
                      l == loc[th]
  IN l.op = "open" /\ l.reset =>
       /\ Sole(th)
       /\ p = "rv_row" => \A t \in Targets : Backed(t) \/ l.snap[t] = entries[t]
       /\ p = "rv_delete" => \A t \in Targets : Backed(t) \/ l.snap[t] = entries[t] \/ t = l.tgt
       /\ p \in {"rv_reset", "rv_orphans", "ev_start"} \cup ReclaimLabels => \A t \in Targets : Backed(t)
       /\ p \in {"rv_orphans", "ev_start"} \cup ReclaimLabels => Quiet
       /\ p \in ReclaimLabels => \A k \in tracked : Referenced(k) \/ k \in l.todo
       /\ p = "ev_start" => \A k \in tracked : Referenced(k)
RecoverInv == \A th \in Threads : Recovering(th)

(* WithinBudget.                                                            *)
Faultless == SingleProcess /\ NoLeases /\ ~IoFaults /\ MaxCrashes = 0
Pending(th) == /\ Writable(th)
               /\ \/ pc[th] \in {"put_link"} \cup ReclaimLabels /\ Evicts(loc[th].op)
                  \/ pc[th] \in {"ev_start", "ev_pick", "ev_delete", "ev_ref"}
Counting(th) == LET l == loc[th]
  IN /\ pc[th] \in {"ev_pick", "ev_delete", "ev_ref"} => l.total = RowBytes
     /\ pc[th] \in {"ev_pick", "ev_ref"} => \A t \in Targets : l.snap[t] = entries[t]
     /\ pc[th] = "ev_delete" => /\ l.tgt \in Targets /\ entries[l.tgt] = l.cur /\ l.snap[l.tgt] = None
                                /\ \A t \in Targets \ {l.tgt} : l.snap[t] = entries[t]
BudgetInv ==
  /\ Quiet
  /\ MaxBytes # None => RowBytes <= MaxBytes \/ \E th \in Threads : Pending(th)
  /\ \A th \in Threads : Counting(th)

RowsInv == /\ Calls
           /\ Transactional => BackedInv
           /\ Unshared => TrackedInv
           /\ SingleProcess /\ ~IoFaults => RecoverInv
           /\ Faultless => BudgetInv

USE ThreadsAssumption, KeysAssumption, BoundsAssumption, ShapeAssumption
-----------------------------------------------------------------------------
(* What one step of a thread does, whatever its action: it goes from its    *)
(* label to q and its locals become m.                                      *)

Stepped(th, q, m) == pc' = [pc EXCEPT ![th] = q] /\ loc' = [loc EXCEPT ![th] = m]

(* The mutex is taken when free, and given up by the thread that has it.    *)
Locks(th, q) ==
  \/ UNCHANGED mutex /\ (q \in MutexLabels => pc[th] \in MutexLabels)
  \/ mutex' = [mutex EXCEPT ![Inst(th)] = th] /\ mutex[Inst(th)] \in {None, th}
  \/ /\ mutex' = [mutex EXCEPT ![Inst(th)] = None] /\ q \notin MutexLabels
     /\ pc[th] \in MutexLabels \/ mutex[Inst(th)] \in {None, th}

Called(th, m) == m.op \in Ops /\ up[Inst(th)] = "open" /\ UNCHANGED up
Begins(th, q, m) ==
  \/ q = "put_tx" /\ m.op \in Puts /\ Writable(th) /\ Called(th, m)
  \/ q = "ls_row" /\ m.op = "lookup" /\ Called(th, m)
  \/ /\ q \in {"rd_file", "rc_check", "rm_delete", "ev_start", "rv_sweep"}
     /\ m.op \in {"get", "removeret", "casremove", "remove", "gc", "recover"} /\ Called(th, m)
  \/ q = "ld_dec" /\ m.op = "drop" /\ "drop" \in Ops /\ held[th] # None /\ UNCHANGED up
  \/ /\ q = "rv_sweep" /\ m.op = "open" /\ up[Inst(th)] = "down"
     /\ up' = [up EXCEPT ![Inst(th)] = "opening"] /\ (m.reset => ~Sentinel(Inst(th)))

(* The operation stays until the call returns; only lookup turns into the   *)
(* drop of its own Lease.                                                   *)
Stays(th, q, m) == /\ m.op = loc[th].op /\ (m.reset => loc[th].reset)
                   /\ q \notin {"idle", "ld_dec"} /\ (q = "ls_row" => m.op = "putlease")
                   /\ q = "ev_pick" => MaxBytes # None \/ pc[th] # "ev_start"
Flow(th, q, m) ==
  \/ pc[th] # "idle" /\ q = "idle" /\ m = NoLocals
  \/ pc[th] # "idle" /\ Stays(th, q, m)
  \/ pc[th] # "idle" /\ q = "ld_dec" /\ m.op = "drop" /\ loc[th].op = "lookup"
  \/ pc[th] = "idle" /\ Begins(th, q, m)
Ups(th, q) == pc[th] # "idle" =>
  \/ UNCHANGED up
  \/ loc[th].op = "open" /\ q = "idle" /\ \E x : up' = [up EXCEPT ![Inst(th)] = x]

RowsStep(th, q) ==
  \/ UNCHANGED entries
  \/ /\ pc[th] = "put_tx" /\ q = "put_link" /\ mutex[Inst(th)] = None
     /\ entries' = [entries EXCEPT ![loc[th].tgt] = loc[th].key]
  \/ /\ pc[th] # "put_tx" /\ (mutex[Inst(th)] = None \/ pc[th] \in MutexLabels)
     /\ \E t : entries' = [entries EXCEPT ![t] = None]
FilesStep(th, q, m) ==
  /\ \/ UNCHANGED files
     \/ pc[th] = "put_link" /\ files' = files \cup {loc[th].key}
     \/ pc[th] \in {"rc_unlink", "qr_unlink", "ld_unlink"} /\ files' = files \ {loc[th].cur}
     \/ pc[th] = "ev_unlink" /\ files' \subseteq files
  /\ pc[th] = "put_link" => IoFaults \/ loc[th].key \in files'
  /\ q \in {"rc_commit", "qr_delete"} => m.cur \notin files'
  /\ corrupt' \subseteq corrupt /\ (q = "qr_row" => corrupt # {})
TracksStep(th, q, m) ==
  /\ \/ UNCHANGED tracked
     \/ pc[th] = "put_tx" /\ tracked' = tracked \cup {loc[th].key}
     \/ pc[th] \in {"rc_commit", "qr_delete", "ld_delete"} /\ tracked' = tracked \ {loc[th].cur}
     \/ pc[th] = "ev_untrack" /\ tracked' \subseteq tracked
  /\ q = "put_link" => m.key = loc[th].key /\ m.key \in tracked'
LeasesStep(th) ==
  /\ pc[th] # "ls_inc" => \A k \in Keys : lease_count[k] = 0 => lease_count'[k] = 0
  /\ \A u \in Threads : held'[u] = held[u] \/ (u = th /\ (held'[u] = None \/ pc[th] = "ls_inc"))
Data(th, q, m) == RowsStep(th, q) /\ FilesStep(th, q, m) /\ TracksStep(th, q, m) /\ LeasesStep(th)

Effect(th, q, m) == /\ Stepped(th, q, m) /\ Edge(pc[th], q) /\ Locks(th, q)
                    /\ Flow(th, q, m) /\ Ups(th, q) /\ Data(th, q, m)
Effects(th) == \E q, m : Effect(th, q, m)
-----------------------------------------------------------------------------
(* The ways a step ends.                                                    *)

(* A step that ends in Return(th) is an effect that ends the call.          *)
LEMMA Returns ==
  ASSUME NEW th \in Threads, Return(th), pc[th] # "idle", Edge(pc[th], "idle"), Locks(th, "idle"),
         Ups(th, "idle"), Data(th, "idle", NoLocals)
  PROVE  Effects(th)
<1>1. Effect(th, "idle", NoLocals)
  BY DEF Effect, Stepped, Flow, Return, Goto
<1> QED BY <1>1 DEF Effects

(* A step that ends in Continue(th, q, l) is an effect that reaches q.      *)
LEMMA Continues ==
  ASSUME NEW th \in Threads, NEW q, NEW m, Continue(th, q, m), pc[th] # "idle", Edge(pc[th], q), Locks(th, q),
         Stays(th, q, m), UNCHANGED up, Data(th, q, m)
  PROVE  Effects(th)
<1>1. Effect(th, q, m)
  BY DEF Effect, Stepped, Flow, Continue, Goto, Ups
<1> QED BY <1>1 DEF Effects

(* A step that leaves the index, the blobs and the leases alone.            *)
LEMMA Same ==
  ASSUME NEW th \in Threads, UNCHANGED <<db, fs, lease>>, NEW q, NEW m,
         q \notin {"rc_commit", "qr_delete", "qr_row", "put_link"}, pc[th] # "put_link"
  PROVE  Data(th, q, m)
  BY DEF db, fs, lease, Data, RowsStep, FilesStep, TracksStep, LeasesStep

(* What follows a reclaim: the next blob, the eviction, or the return.      *)
LEMMA Reclaims ==
  ASSUME NEW th \in Threads, NEW m \in Locals, Reclaimed(th, m), m.op = loc[th].op, m.reset => loc[th].reset,
         pc[th] \in {"put_link", "rv_orphans"} \cup ReclaimLabels, UNCHANGED up,
         \A q \in {"rc_check", "ev_start", "idle"}, n \in Locals : Data(th, q, n)
  PROVE  Effects(th)
<1>1. pc[th] # "idle" /\ pc[th] \in MutexLabels
  BY DEF ReclaimLabels, MutexLabels
<1>2. \A q \in {"rc_check", "ev_start", "idle"} : Edge(pc[th], q)
  BY DEF ReclaimLabels, Edge
<1>3. CASE m.todo # {}
  <2>1. Continue(th, "rc_check", m) /\ Locks(th, "rc_check")
    BY <1>1, <1>3 DEF Reclaimed, Locks
  <2>2. Stays(th, "rc_check", m)
    BY DEF Stays
  <2> QED BY <1>1, <1>2, <2>1, <2>2, Continues
<1>4. CASE m.todo = {} /\ Evicts(m.op)
  <2>1. Continue(th, "ev_start", m) /\ Locks(th, "ev_start")
    BY <1>1, <1>4 DEF Reclaimed, Locks, Release, MutexLabels
  <2>2. Stays(th, "ev_start", m)
    BY DEF Stays
  <2> QED BY <1>1, <1>2, <2>1, <2>2, Continues
<1>5. CASE m.todo = {} /\ ~Evicts(m.op)
  <2>1. Return(th) /\ Locks(th, "idle") /\ Ups(th, "idle")
    BY <1>1, <1>5 DEF Reclaimed, Locks, Release, MutexLabels, Ups
  <2> QED BY <1>1, <1>2, <2>1, NoLocalsType, Returns
<1> QED BY <1>3, <1>4, <1>5

(* The publishing transaction of put_staged_locked.                         *)
LEMMA PutTxEffect ==
  ASSUME IInv, NEW th \in Threads, PutTx(th)
  PROVE  Effects(th)
<1> DEFINE l == loc[th]
<1> DEFINE old == entries[l.tgt]
<1>1. l \in Locals /\ pc[th] = "put_tx" /\ mutex[Inst(th)] = None
  BY LocalsTyped DEF PutTx, At, MutexFree
<1>2. CASE old \in l.accept
  <2> DEFINE m == [l EXCEPT !.todo = {old} \ {None, l.key}]
  <2>1. m.op = l.op /\ m.key = l.key /\ m.reset = l.reset
    BY <1>1 DEF Locals
  <2>2. /\ Continue(th, "put_link", m) /\ entries' = [entries EXCEPT ![l.tgt] = l.key]
        /\ tracked' = tracked \cup {l.key} /\ UNCHANGED <<files, corrupt, lease_count, held, up>>
        /\ mutex' = [mutex EXCEPT ![Inst(th)] = th]
    BY <1>2 DEF PutTx, Acquire, fs, lease
  <2> HIDE DEF m
  <2>3. Data(th, "put_link", m)
    BY <1>1, <2>1, <2>2 DEF Data, RowsStep, FilesStep, TracksStep, LeasesStep
  <2>4. Edge(pc[th], "put_link") /\ Locks(th, "put_link") /\ Stays(th, "put_link", m)
    BY <1>1, <2>1, <2>2 DEF Edge, Locks, Stays
  <2> QED BY <1>1, <2>2, <2>3, <2>4, Continues
<1>3. CASE old \notin l.accept
  <2>1. Return(th) /\ UNCHANGED <<db, fs, lease, mutex, up>>
    BY <1>3 DEF PutTx, db, fs, lease
  <2>2. Data(th, "idle", NoLocals)
    BY <1>1, <2>1, Same
  <2>3. Edge(pc[th], "idle") /\ Locks(th, "idle") /\ Ups(th, "idle")
    BY <1>1, <2>1 DEF Edge, Locks, Ups, MutexLabels
  <2> QED BY <1>1, <2>1, <2>2, <2>3, Returns
<1> QED BY <1>2, <1>3

(* The link of a put, which succeeds or fails.                              *)
LEMMA PutLinkEffect ==
  ASSUME IInv, NEW th \in Threads, PutLink(th) \/ PutLinkFails(th)
  PROVE  Effects(th)
<1>1. loc[th] \in Locals /\ pc[th] = "put_link" /\ UNCHANGED <<entries, tracked, lease_count, corrupt, held, up>>
  BY LocalsTyped DEF PutLink, PutLinkFails, At, db, fs, lease
<1>2. CASE PutLink(th)
  <2>1. Reclaimed(th, loc[th]) /\ files' = files \cup {loc[th].key}
    BY <1>2 DEF PutLink
  <2>2. \A q \in {"rc_check", "ev_start", "idle"}, n \in Locals : Data(th, q, n)
    BY <1>1, <2>1 DEF Data, RowsStep, FilesStep, TracksStep, LeasesStep
  <2> QED BY <1>1, <2>1, <2>2, Reclaims
<1>3. CASE PutLinkFails(th)
  <2>1. Return(th) /\ UNCHANGED files /\ IoFaults /\ mutex' = [mutex EXCEPT ![Inst(th)] = None]
    BY <1>3 DEF PutLinkFails, fs, Release
  <2>2. Data(th, "idle", NoLocals)
    BY <1>1, <2>1 DEF Data, RowsStep, FilesStep, TracksStep, LeasesStep
  <2>3. Edge(pc[th], "idle") /\ Locks(th, "idle") /\ Ups(th, "idle")
    BY <1>1, <2>1 DEF Edge, Locks, Ups, MutexLabels
  <2> QED BY <1>1, <2>1, <2>2, <2>3, Returns
<1> QED BY <1>2, <1>3

(* The steps of reclaim_unreferenced_cas.                                   *)
LEMMA ReclaimEffect ==
  ASSUME IInv, NEW th \in Threads, RcCheck(th) \/ RcUnlink(th) \/ RcUnlinkFails(th) \/ RcCommit(th)
  PROVE  Effects(th)
<1>1. loc[th] \in Locals /\ pc[th] \in ReclaimLabels /\ UNCHANGED <<entries, lease_count, held, up>>
  BY LocalsTyped DEF RcCheck, RcUnlink, RcUnlinkFails, RcCommit, At, ReclaimLabels, db, fs, lease
<1>2. ASSUME NEW k, Reclaimed(th, [loc[th] EXCEPT !.todo = @ \ {k}]), UNCHANGED <<files, corrupt>>,
             \/ UNCHANGED tracked
             \/ pc[th] = "rc_commit" /\ tracked' = tracked \ {loc[th].cur}
      PROVE  Effects(th)
  <2> DEFINE m == [loc[th] EXCEPT !.todo = @ \ {k}]
  <2>1. m \in Locals /\ m.op = loc[th].op /\ m.reset = loc[th].reset
    BY <1>1 DEF Locals
  <2>2. \A q \in {"rc_check", "ev_start", "idle"}, n \in Locals : Data(th, q, n)
    BY <1>1, <1>2 DEF ReclaimLabels, Data, RowsStep, FilesStep, TracksStep, LeasesStep
  <2> HIDE DEF m
  <2>3. Reclaimed(th, m)
    BY <1>2 DEF m
  <2> QED BY <1>1, <2>1, <2>2, <2>3, Reclaims
<1>3. CASE RcCheck(th)
  <2>1. PICK k \in loc[th].todo :
          IF Reclaimable(k)
          THEN Continue(th, "rc_unlink", [loc[th] EXCEPT !.cur = k]) /\ UNCHANGED mutex
          ELSE Reclaimed(th, [loc[th] EXCEPT !.todo = @ \ {k}])
    BY <1>3 DEF RcCheck
  <2>2. UNCHANGED <<files, corrupt, tracked>> /\ pc[th] = "rc_check"
    BY <1>3 DEF RcCheck, db, fs, At
  <2>3. CASE Reclaimable(k)
    <3> DEFINE m == [loc[th] EXCEPT !.cur = k]
    <3>1. m.op = loc[th].op /\ m.reset = loc[th].reset
      BY <1>1 DEF Locals
    <3> HIDE DEF m
    <3>2. Continue(th, "rc_unlink", m) /\ UNCHANGED mutex
      BY <2>1, <2>3 DEF m
    <3>3. Data(th, "rc_unlink", m)
      BY <1>1, <2>2 DEF Data, RowsStep, FilesStep, TracksStep, LeasesStep
    <3>4. Edge(pc[th], "rc_unlink") /\ Locks(th, "rc_unlink") /\ Stays(th, "rc_unlink", m)
      BY <2>2, <3>1, <3>2 DEF Edge, Locks, Stays, MutexLabels
    <3> QED BY <1>1, <2>2, <3>2, <3>3, <3>4, Continues
  <2>4. CASE ~Reclaimable(k)
    BY <1>2, <2>1, <2>2, <2>4
  <2> QED BY <2>3, <2>4
<1>4. CASE RcUnlink(th)
  <2>1. /\ Continue(th, "rc_commit", loc[th]) /\ UNCHANGED <<mutex, tracked>> /\ pc[th] = "rc_unlink"
        /\ files' = files \ {loc[th].cur} /\ corrupt' = corrupt \ {loc[th].cur}
    BY <1>4 DEF RcUnlink, db, At
  <2>2. Data(th, "rc_commit", loc[th])
    BY <1>1, <2>1 DEF Data, RowsStep, FilesStep, TracksStep, LeasesStep
  <2>3. Edge(pc[th], "rc_commit") /\ Locks(th, "rc_commit") /\ Stays(th, "rc_commit", loc[th])
    BY <2>1 DEF Edge, Locks, Stays, MutexLabels
  <2> QED BY <1>1, <2>1, <2>2, <2>3, Continues
<1>5. CASE RcUnlinkFails(th)
  <2>1. Reclaimed(th, [loc[th] EXCEPT !.todo = @ \ {loc[th].cur}]) /\ UNCHANGED <<files, corrupt, tracked>>
    BY <1>5 DEF RcUnlinkFails, db, fs
  <2> QED BY <1>2, <2>1
<1>6. CASE RcCommit(th)
  <2>1. /\ Reclaimed(th, [loc[th] EXCEPT !.todo = @ \ {loc[th].cur}]) /\ UNCHANGED <<files, corrupt>>
        /\ pc[th] = "rc_commit" /\ tracked' = tracked \ {loc[th].cur}
    BY <1>6 DEF RcCommit, fs, At
  <2> QED BY <1>2, <2>1
<1> QED BY <1>3, <1>4, <1>5, <1>6

(* The end of an eviction: the lease half of a put, or the return.          *)
LEMMA Finishes ==
  ASSUME NEW th \in Threads, NEW m \in Locals, AfterEvict(th, m), m.op = loc[th].op,
         pc[th] \in {"ev_start", "ev_pick", "ev_unlink", "ev_untrack"}, Locks(th, "idle"), Locks(th, "ls_row"),
         \A q \in {"ls_row", "idle"}, n \in Locals : Data(th, q, n)
  PROVE  Effects(th)
<1>1. pc[th] # "idle" /\ \A q \in {"ls_row", "idle"} : Edge(pc[th], q)
  BY DEF Edge
<1>2. CASE m.op = "putlease" /\ ~m.err
  <2> DEFINE n == [NoLocals EXCEPT !.op = "putlease", !.key = m.key]
  <2>1. n \in Locals /\ n.op = "putlease" /\ n.reset = FALSE
    <3>1. m.key \in Keys \cup {None} /\ NoLocals.reset = FALSE
      BY DEF Locals, NoLocals
    <3> QED BY <3>1, NoLocalsType DEF Locals, OpNames
  <2> HIDE DEF n
  <2>2. Stepped(th, "ls_row", n) /\ UNCHANGED up
    BY <1>2 DEF AfterEvict, Stepped, Goto, n
  <2>3. Stays(th, "ls_row", n)
    BY <1>2, <2>1 DEF Stays
  <2>4. Effect(th, "ls_row", n)
    BY <1>1, <2>1, <2>2, <2>3 DEF Effect, Flow, Ups
  <2> QED BY <2>4 DEF Effects
<1>3. CASE ~(m.op = "putlease" /\ ~m.err)
  <2>1. Return(th)
    BY <1>3 DEF AfterEvict
  <2>2. Ups(th, "idle")
    BY <1>3 DEF AfterEvict, Ups
  <2> QED BY <1>1, <2>1, <2>2, NoLocalsType, Returns
<1> QED BY <1>2, <1>3

(* evict_to_limit reads the total and the rows.                             *)
LEMMA EvStartEffect ==
  ASSUME IInv, NEW th \in Threads, EvStart(th)
  PROVE  Effects(th)
<1>1. loc[th] \in Locals /\ pc[th] = "ev_start" /\ UNCHANGED <<db, fs, lease>>
  BY LocalsTyped DEF EvStart, At
<1>2. \A q \in {"ls_row", "idle", "ev_pick"}, n \in Locals : Data(th, q, n)
  BY <1>1, Same
<1>3. CASE UNCHANGED mutex /\ AfterEvict(th, loc[th])
  <2>1. Locks(th, "idle") /\ Locks(th, "ls_row")
    BY <1>3 DEF Locks, MutexLabels
  <2> QED BY <1>1, <1>2, <1>3, <2>1, Finishes
<1>4. CASE /\ MaxBytes # None /\ MutexFree(th) /\ Acquire(th) /\ UNCHANGED up
           /\ Continue(th, "ev_pick", [loc[th] EXCEPT !.snap = entries, !.total = RowBytes])
  <2> DEFINE m == [loc[th] EXCEPT !.snap = entries, !.total = RowBytes]
  <2>1. RowBytes \in Nat /\ entries \in [Targets -> Keys \cup {None}]
    BY RowBytesType DEF IInv, DataOK, DbOK
  <2>2. m \in Locals /\ m.op = loc[th].op /\ m.reset = loc[th].reset
    BY <1>1, <2>1 DEF Locals
  <2> HIDE DEF m
  <2>3. Continue(th, "ev_pick", m) /\ UNCHANGED up
    BY <1>4 DEF m
  <2>4. Edge(pc[th], "ev_pick") /\ Locks(th, "ev_pick") /\ Stays(th, "ev_pick", m)
    BY <1>1, <1>4, <2>2 DEF Edge, Locks, Stays, Acquire, MutexFree
  <2> QED BY <1>1, <1>2, <2>2, <2>3, <2>4, Continues
<1> QED BY <1>3, <1>4 DEF EvStart

(* Phase 1 chooses the next row.                                            *)
LEMMA EvPickEffect ==
  ASSUME IInv, NEW th \in Threads, EvPick(th)
  PROVE  Effects(th)
<1> DEFINE l == loc[th]
<1>1. l \in Locals /\ pc[th] = "ev_pick" /\ UNCHANGED <<db, fs, lease>>
  BY LocalsTyped DEF EvPick, At
<1>2. \A n : \A q \in {"ls_row", "idle", "ev_pick", "ev_delete", "ev_unlink"} : Data(th, q, n)
  BY <1>1, Same
<1> DEFINE Picks(t, q) == Continue(th, q, [l EXCEPT !.snap[t] = None, !.tgt = t, !.cur = l.snap[t]])
<1>3. \/ \E t \in Targets, q \in {"ev_pick", "ev_delete"} : Picks(t, q) /\ UNCHANGED <<mutex, up>>
      \/ Release(th) /\ AfterEvict(th, l)
      \/ Release(th) /\ Continue(th, "ev_unlink", l) /\ UNCHANGED up
  BY DEF EvPick
<1>4. ASSUME NEW t \in Targets, NEW q \in {"ev_pick", "ev_delete"}, Picks(t, q), UNCHANGED <<mutex, up>>
      PROVE  Effects(th)
  <2> DEFINE m == [l EXCEPT !.snap[t] = None, !.tgt = t, !.cur = l.snap[t]]
  <2>1. m.op = l.op /\ m.reset = l.reset
    BY <1>1 DEF Locals
  <2> HIDE DEF m
  <2>2. Continue(th, q, m)
    BY <1>4 DEF m
  <2>3. Edge(pc[th], q) /\ Locks(th, q) /\ Stays(th, q, m)
    BY <1>1, <1>4, <2>1 DEF Edge, Locks, Stays, MutexLabels
  <2> QED BY <1>1, <1>2, <1>4, <2>2, <2>3, Continues
<1>5. CASE Release(th) /\ AfterEvict(th, l)
  <2>1. Locks(th, "idle") /\ Locks(th, "ls_row")
    BY <1>1, <1>5 DEF Locks, MutexLabels, Release
  <2> QED BY <1>1, <1>2, <1>5, <2>1, Finishes
<1>6. CASE Release(th) /\ Continue(th, "ev_unlink", l) /\ UNCHANGED up
  <2>1. Edge(pc[th], "ev_unlink") /\ Locks(th, "ev_unlink") /\ Stays(th, "ev_unlink", l)
    BY <1>1, <1>6 DEF Edge, Locks, Stays, MutexLabels, Release
  <2> QED BY <1>1, <1>2, <1>6, <2>1, Continues
<1> HIDE DEF Picks
<1> QED BY <1>3, <1>4, <1>5, <1>6

(* Phase 1 deletes the row and looks for others of its key.                 *)
LEMMA EvRowEffect ==
  ASSUME IInv, NEW th \in Threads, EvDelete(th) \/ EvRef(th)
  PROVE  Effects(th)
<1> DEFINE l == loc[th]
<1>1. l \in Locals /\ UNCHANGED <<tracked, lease_count, files, corrupt, mutex, up, held>>
  BY LocalsTyped DEF EvDelete, EvRef, db, fs, lease
<1>2. CASE EvDelete(th)
  <2> DEFINE m == [l EXCEPT !.total = IF @ < Size[l.cur] THEN 0 ELSE @ - Size[l.cur]]
  <2>1. m.op = l.op /\ m.reset = l.reset
    BY <1>1 DEF Locals
  <2> HIDE DEF m
  <2>2. Continue(th, "ev_ref", m) /\ pc[th] = "ev_delete" /\ entries' = [entries EXCEPT ![l.tgt] = None]
    BY <1>2 DEF m, EvDelete, At
  <2>3. Data(th, "ev_ref", m)
    BY <1>1, <2>2 DEF Data, RowsStep, FilesStep, TracksStep, LeasesStep, MutexLabels
  <2>4. Edge(pc[th], "ev_ref") /\ Locks(th, "ev_ref") /\ Stays(th, "ev_ref", m)
    BY <1>1, <2>1, <2>2 DEF Edge, Locks, Stays, MutexLabels
  <2> QED BY <1>1, <2>2, <2>3, <2>4, Continues
<1>3. CASE EvRef(th)
  <2> DEFINE m == [l EXCEPT !.todo = IF Referenced(l.cur) THEN @ ELSE @ \cup {l.cur}]
  <2>1. m.op = l.op /\ m.reset = l.reset
    BY <1>1 DEF Locals
  <2> HIDE DEF m
  <2>2. Continue(th, "ev_pick", m) /\ pc[th] = "ev_ref" /\ UNCHANGED <<db, fs, lease>>
    BY <1>3 DEF m, EvRef, At
  <2>3. Data(th, "ev_pick", m)
    BY <2>2, Same
  <2>4. Edge(pc[th], "ev_pick") /\ Locks(th, "ev_pick") /\ Stays(th, "ev_pick", m)
    BY <1>1, <2>1, <2>2 DEF Edge, Locks, Stays, MutexLabels
  <2> QED BY <1>1, <2>2, <2>3, <2>4, Continues
<1> QED BY <1>2, <1>3

(* Phase 2 unlinks a blob, or fails to.                                     *)
LEMMA EvUnlinkEffect ==
  ASSUME IInv, NEW th \in Threads, EvUnlink(th) \/ EvUnlinkFails(th)
  PROVE  Effects(th)
<1>1. /\ loc[th] \in Locals /\ pc[th] = "ev_unlink" /\ UNCHANGED <<entries, tracked, lease_count, held, mutex>>
      /\ files' \subseteq files /\ corrupt' \subseteq corrupt
  BY LocalsTyped DEF EvUnlink, EvUnlinkFails, At, db, fs, lease
<1>2. PICK m : EvictFiles(th, m) /\ m \in Locals /\ m.op = loc[th].op /\ m.reset = loc[th].reset
  <2>1. CASE EvUnlink(th)
    <3>1. PICK k \in loc[th].todo : EvictFiles(th, [loc[th] EXCEPT !.todo = @ \ {k}, !.gone = @ \cup {k}])
      BY <2>1 DEF EvUnlink
    <3>2. k \in Keys
      BY <1>1 DEF Locals
    <3> DEFINE n == [loc[th] EXCEPT !.todo = @ \ {k}, !.gone = @ \cup {k}]
    <3>3. n \in Locals /\ n.op = loc[th].op /\ n.reset = loc[th].reset
      BY <1>1, <3>2 DEF Locals
    <3> HIDE DEF n
    <3>4. EvictFiles(th, n)
      BY <3>1 DEF n
    <3> QED BY <3>3, <3>4
  <2>2. CASE EvUnlinkFails(th)
    <3>1. PICK k \in loc[th].todo : EvictFiles(th, [loc[th] EXCEPT !.todo = @ \ {k}, !.err = TRUE])
      BY <2>2 DEF EvUnlinkFails
    <3> DEFINE n == [loc[th] EXCEPT !.todo = @ \ {k}, !.err = TRUE]
    <3>3. n \in Locals /\ n.op = loc[th].op /\ n.reset = loc[th].reset
      BY <1>1 DEF Locals
    <3> HIDE DEF n
    <3>4. EvictFiles(th, n)
      BY <3>1 DEF n
    <3> QED BY <3>3, <3>4
  <2> QED BY <2>1, <2>2
<1>3. \A n : \A q \in {"ls_row", "idle", "ev_unlink", "ev_untrack"} : Data(th, q, n)
  BY <1>1 DEF Data, RowsStep, FilesStep, TracksStep, LeasesStep
<1>4. \A q \in {"ls_row", "idle", "ev_unlink", "ev_untrack"} : Locks(th, q) /\ Edge(pc[th], q)
  BY <1>1 DEF Locks, Edge, MutexLabels
<1>5. \A q \in {"ev_unlink", "ev_untrack"} : Stays(th, q, m)
  BY <1>2 DEF Stays
<1>6. \/ \E q \in {"ev_unlink", "ev_untrack"} : Continue(th, q, m) /\ UNCHANGED up
      \/ AfterEvict(th, m)
  BY <1>2 DEF EvictFiles
<1>7. CASE AfterEvict(th, m)
  BY <1>1, <1>2, <1>3, <1>4, <1>7, Finishes
<1>8. ASSUME NEW q \in {"ev_unlink", "ev_untrack"}, Continue(th, q, m), UNCHANGED up PROVE Effects(th)
  BY <1>1, <1>3, <1>4, <1>5, <1>8, Continues
<1> QED BY <1>6, <1>7, <1>8

(* Phase 3 deletes a tracking row.                                          *)
LEMMA EvUntrackEffect ==
  ASSUME IInv, NEW th \in Threads, EvUntrack(th)
  PROVE  Effects(th)
<1>1. /\ loc[th] \in Locals /\ pc[th] = "ev_untrack" /\ UNCHANGED <<entries, lease_count, held, files, corrupt>>
      /\ mutex[Inst(th)] \in {None, th}
  BY LocalsTyped DEF EvUntrack, At, fs, lease
<1>2. PICK k \in loc[th].gone :
        LET l == [loc[th] EXCEPT !.gone = @ \ {k}]
        IN /\ tracked' = IF Reclaimable(k) THEN tracked \ {k} ELSE tracked
           /\ IF l.gone = {}
              THEN Release(th) /\ AfterEvict(th, l)
              ELSE Acquire(th) /\ Continue(th, "ev_untrack", l) /\ UNCHANGED up
  BY DEF EvUntrack
<1> DEFINE m == [loc[th] EXCEPT !.gone = @ \ {k}]
<1>3. m \in Locals /\ m.op = loc[th].op /\ m.reset = loc[th].reset
  BY <1>1 DEF Locals
<1>4. /\ tracked' \subseteq tracked
      /\ \/ Release(th) /\ AfterEvict(th, m)
         \/ Acquire(th) /\ Continue(th, "ev_untrack", m) /\ UNCHANGED up
  BY <1>2
<1> HIDE DEF m
<1>5. \A n : \A q \in {"ls_row", "idle", "ev_untrack"} : Data(th, q, n)
  BY <1>1, <1>4 DEF Data, RowsStep, FilesStep, TracksStep, LeasesStep
<1>6. Edge(pc[th], "ev_untrack") /\ Stays(th, "ev_untrack", m)
  BY <1>1, <1>3 DEF Edge, Stays
<1>7. CASE Release(th) /\ AfterEvict(th, m)
  <2>1. Locks(th, "idle") /\ Locks(th, "ls_row")
    BY <1>1, <1>7 DEF Locks, MutexLabels, Release
  <2> QED BY <1>1, <1>3, <1>5, <1>7, <2>1, Finishes
<1>8. CASE Acquire(th) /\ Continue(th, "ev_untrack", m) /\ UNCHANGED up
  <2>1. Locks(th, "ev_untrack")
    BY <1>1, <1>8 DEF Locks, Acquire
  <2> QED BY <1>1, <1>5, <1>6, <1>8, <2>1, Continues
<1> QED BY <1>4, <1>7, <1>8

(* The three statements of lease.                                           *)
LEMMA LeaseEffect ==
  ASSUME IInv, NEW th \in Threads, LsRow(th) \/ LsPath(th) \/ LsInc(th)
  PROVE  Effects(th)
<1>1. loc[th] \in Locals /\ pc[th] \in LeaseLabels /\ UNCHANGED <<entries, tracked, files, corrupt, up>>
  BY LocalsTyped DEF LsRow, LsPath, LsInc, At, db, fs, LeaseLabels
<1>2. LeasesStep(th)
  <2>1. CASE LsRow(th) \/ LsPath(th)
    BY <2>1 DEF LsRow, LsPath, LeasesStep, db, lease
  <2>2. CASE LsInc(th)
    <3>1. pc[th] = "ls_inc" /\ held' = [held EXCEPT ![th] = loc[th].key] /\ held \in [Threads -> Keys \cup {None}]
      BY <2>2 DEF LsInc, At, IInv, DataOK, RestOK
    <3> QED BY <3>1 DEF LeasesStep
  <2> QED BY <2>1, <2>2
<1>3. \A m : \A q \in {"ls_path", "ls_inc", "rd_row", "idle"} : Data(th, q, m)
  BY <1>1, <1>2 DEF Data, RowsStep, FilesStep, TracksStep, LeaseLabels
<1>4. \/ pc[th] = "ls_row" /\ MutexFree(th) /\ Acquire(th) /\ Continue(th, "ls_path", loc[th])
      \/ pc[th] = "ls_path" /\ UNCHANGED mutex /\ Continue(th, "ls_inc", loc[th])
      \/ pc[th] = "ls_inc" /\ Release(th) /\ Continue(th, "rd_row", loc[th])
      \/ pc[th] = "ls_row" /\ UNCHANGED mutex /\ Return(th)
      \/ pc[th] \in {"ls_path", "ls_inc"} /\ Release(th) /\ Return(th)
  BY DEF LsRow, LsPath, LsInc, At
<1>5. CASE Return(th) /\ ((pc[th] = "ls_row" /\ UNCHANGED mutex) \/ (pc[th] \in {"ls_path", "ls_inc"} /\ Release(th)))
  <2>1. Edge(pc[th], "idle") /\ Locks(th, "idle") /\ Ups(th, "idle") /\ pc[th] # "idle"
    BY <1>1, <1>5 DEF Edge, Locks, Ups, MutexLabels, Release
  <2> QED BY <1>3, <1>5, <2>1, Returns
<1>6. \A q \in {"ls_path", "ls_inc", "rd_row"} : Stays(th, q, loc[th])
  BY DEF Stays
<1>7. ASSUME NEW q \in {"ls_path", "ls_inc", "rd_row"}, Continue(th, q, loc[th]),
             \/ pc[th] = "ls_row" /\ q = "ls_path" /\ MutexFree(th) /\ Acquire(th)
             \/ pc[th] = "ls_path" /\ q = "ls_inc" /\ UNCHANGED mutex
             \/ pc[th] = "ls_inc" /\ q = "rd_row" /\ Release(th)
      PROVE  Effects(th)
  <2>1. Edge(pc[th], q) /\ Locks(th, q) /\ pc[th] # "idle"
    BY <1>7 DEF Edge, Locks, MutexLabels, MutexFree, Acquire, Release
  <2> QED BY <1>1, <1>3, <1>6, <1>7, <2>1, Continues
<1> QED BY <1>4, <1>5, <1>7

(* The closure of a dropped Lease.                                          *)
LEMMA DropEffect ==
  ASSUME IInv, NEW th \in Threads,
         LdDec(th) \/ LdRef(th) \/ LdPin(th) \/ LdUnlink(th) \/ LdUnlinkFails(th) \/ LdDelete(th)
  PROVE  Effects(th)
<1>1. loc[th] \in Locals /\ pc[th] \in DropLabels /\ UNCHANGED <<entries, held, mutex, up>>
  BY LocalsTyped DEF LdDec, LdRef, LdPin, LdUnlink, LdUnlinkFails, LdDelete, At, db, fs, lease, DropLabels
<1>2. \A k \in Keys : lease_count[k] = 0 => lease_count'[k] = 0
  <2>1. lease_count \in [Keys -> Nat]
    BY DEF IInv, DataOK, DbOK
  <2>2. CASE LdDec(th)
    BY <2>1, <2>2 DEF LdDec
  <2>3. CASE LdDelete(th)
    BY <2>1, <2>3 DEF LdDelete, Untrack
  <2> QED BY <2>2, <2>3 DEF LdRef, LdPin, LdUnlink, LdUnlinkFails, db
<1>3. \/ UNCHANGED files /\ UNCHANGED corrupt
      \/ pc[th] = "ld_unlink" /\ files' = files \ {loc[th].cur} /\ corrupt' = corrupt \ {loc[th].cur}
  BY DEF LdDec, LdRef, LdPin, LdUnlink, LdUnlinkFails, LdDelete, At, fs
<1>4. UNCHANGED tracked \/ (pc[th] = "ld_delete" /\ tracked' = tracked \ {loc[th].cur})
  BY DEF LdDec, LdRef, LdPin, LdUnlink, LdUnlinkFails, LdDelete, At, db, Untrack
<1>5. \A m : \A q \in DropLabels \cup {"idle"} : Data(th, q, m)
  BY <1>1, <1>2, <1>3, <1>4 DEF Data, RowsStep, FilesStep, TracksStep, LeasesStep, DropLabels
<1>6. \/ \E q \in DropLabels \ {"ld_dec"} : Edge(pc[th], q) /\ Continue(th, q, loc[th])
      \/ Edge(pc[th], "idle") /\ Return(th)
  BY DEF LdDec, LdRef, LdPin, LdUnlink, LdUnlinkFails, LdDelete, At, Edge, DropLabels
<1>7. \A q \in DropLabels \cup {"idle"} : Locks(th, q) /\ Ups(th, q) /\ pc[th] # "idle"
  BY <1>1 DEF Locks, Ups, MutexLabels, DropLabels
<1>8. \A q \in DropLabels \ {"ld_dec"} : Stays(th, q, loc[th])
  BY DEF Stays, DropLabels
<1> QED BY <1>1, <1>5, <1>6, <1>7, <1>8, Returns, Continues

(* A miss: the call returns, or a lookup drops the Lease it has.            *)
LEMMA Misses ==
  ASSUME IInv, NEW th \in Threads, Miss(th), UNCHANGED up, Edge(pc[th], "idle"), Edge(pc[th], "ld_dec"),
         pc[th] # "idle", Locks(th, "idle"), Locks(th, "ld_dec"),
         \A m : \A q \in {"idle", "ld_dec"} : RowsStep(th, q) /\ FilesStep(th, q, m) /\ TracksStep(th, q, m),
         \A k \in Keys : lease_count[k] = 0 => lease_count'[k] = 0
  PROVE  Effects(th)
<1>1. CASE loc[th].op = "lookup"
  <2> DEFINE m == [NoLocals EXCEPT !.op = "drop", !.cur = held[th]]
  <2>1. m.op = "drop"
    BY DEF NoLocals
  <2> HIDE DEF m
  <2>2. held' = [held EXCEPT ![th] = None] /\ Continue(th, "ld_dec", m)
    BY <1>1 DEF Miss, BeginDrop, m
  <2>3. LeasesStep(th)
    BY <2>2 DEF LeasesStep, IInv, DataOK, RestOK
  <2>4. Effect(th, "ld_dec", m)
    BY <1>1, <2>1, <2>2, <2>3 DEF Effect, Stepped, Continue, Goto, Flow, Ups, Data
  <2> QED BY <2>4 DEF Effects
<1>2. CASE loc[th].op # "lookup"
  <2>1. Return(th) /\ UNCHANGED held
    BY <1>2 DEF Miss, lease
  <2>2. Data(th, "idle", NoLocals) /\ Ups(th, "idle")
    BY <2>1 DEF Data, LeasesStep, Ups
  <2> QED BY <2>1, <2>2, Returns
<1> QED BY <1>1, <1>2

(* The reads of get_entry, and drop_orphan_entry.                           *)
LEMMA ReadEffect ==
  ASSUME IInv, NEW th \in Threads, RdRow(th) \/ RdFile(th) \/ RdOrphan(th)
  PROVE  Effects(th)
<1>1. loc[th] \in Locals /\ UNCHANGED <<tracked, lease_count, files, corrupt, mutex, up>>
  BY LocalsTyped DEF RdRow, RdFile, RdOrphan, db, fs
<1>2. \A k \in Keys : lease_count[k] = 0 => lease_count'[k] = 0
  BY <1>1
<1>3. CASE RdRow(th)
  <2>1. pc[th] = "rd_row" /\ UNCHANGED entries
    BY <1>3 DEF RdRow, At, db
  <2>2. \A q \in {"idle", "ld_dec", "rd_file"} : Edge(pc[th], q) /\ Locks(th, q)
    BY <1>1, <2>1 DEF Edge, Locks, MutexLabels
  <2>3. \A m : \A q \in {"idle", "ld_dec", "rd_file"} : RowsStep(th, q) /\ FilesStep(th, q, m) /\ TracksStep(th, q, m)
    BY <1>1, <2>1 DEF RowsStep, FilesStep, TracksStep
  <2>4. CASE Miss(th)
    BY <1>1, <1>2, <2>1, <2>2, <2>3, <2>4, Misses
  <2>5. CASE Continue(th, "rd_file", [loc[th] EXCEPT !.cur = entries[loc[th].tgt]]) /\ UNCHANGED lease
    <3> DEFINE m == [loc[th] EXCEPT !.cur = entries[loc[th].tgt]]
    <3>1. m.op = loc[th].op /\ m.reset = loc[th].reset
      BY <1>1 DEF Locals
    <3> HIDE DEF m
    <3>2. Continue(th, "rd_file", m)
      BY <2>5 DEF m
    <3>3. Stays(th, "rd_file", m) /\ Data(th, "rd_file", m)
      BY <1>2, <2>3, <2>5, <3>1 DEF Stays, Data, LeasesStep, lease
    <3> QED BY <1>1, <2>1, <2>2, <3>2, <3>3, Continues
  <2> QED BY <1>3, <2>4, <2>5 DEF RdRow
<1>4. CASE RdFile(th)
  <2>1. pc[th] = "rd_file" /\ UNCHANGED <<entries, held>>
    BY <1>4 DEF RdFile, At, db, lease
  <2>2. \A q \in {"idle", "rd_orphan", "qr_row"} : Edge(pc[th], q) /\ Locks(th, q)
    BY <1>1, <2>1 DEF Edge, Locks, MutexLabels
  <2>3. \A m : \A q \in {"idle", "rd_orphan"} : Data(th, q, m)
    BY <1>1, <1>2, <2>1 DEF Data, RowsStep, FilesStep, TracksStep, LeasesStep
  <2>4. \A q \in {"rd_orphan", "qr_row"} : Stays(th, q, loc[th])
    BY DEF Stays
  <2>5. CASE Continue(th, "rd_orphan", loc[th])
    BY <1>1, <2>1, <2>2, <2>3, <2>4, <2>5, Continues
  <2>6. CASE Continue(th, "qr_row", loc[th]) /\ loc[th].cur \in corrupt
    <3>1. Data(th, "qr_row", loc[th])
      BY <1>1, <1>2, <2>1, <2>6 DEF Data, RowsStep, FilesStep, TracksStep, LeasesStep
    <3> QED BY <1>1, <2>1, <2>2, <2>4, <2>6, <3>1, Continues
  <2>7. CASE Return(th)
    <3>1. Ups(th, "idle")
      BY <1>1 DEF Ups
    <3> QED BY <2>1, <2>2, <2>3, <2>7, <3>1, Returns
  <2> QED BY <1>4, <2>5, <2>6, <2>7 DEF RdFile
<1>5. CASE RdOrphan(th)
  <2>1. /\ pc[th] = "rd_orphan" /\ mutex[Inst(th)] = None /\ Miss(th)
        /\ entries' = [entries EXCEPT ![loc[th].tgt] = None]
    BY <1>5 DEF RdOrphan, At, MutexFree
  <2>2. \A q \in {"idle", "ld_dec"} : Edge(pc[th], q) /\ Locks(th, q)
    BY <1>1, <2>1 DEF Edge, Locks, MutexLabels
  <2>3. \A m : \A q \in {"idle", "ld_dec"} : RowsStep(th, q) /\ FilesStep(th, q, m) /\ TracksStep(th, q, m)
    BY <1>1, <2>1 DEF RowsStep, FilesStep, TracksStep
  <2> QED BY <1>1, <1>2, <2>1, <2>2, <2>3, Misses
<1> QED BY <1>3, <1>4, <1>5

(* quarantine_corrupt and purge_corrupt_cas.                                *)
LEMMA QuarantineEffect ==
  ASSUME IInv, NEW th \in Threads,
         QrRow(th) \/ QrPin(th) \/ QrUnlink(th) \/ QrUnlinkFails(th) \/ QrDelete(th)
  PROVE  Effects(th)
<1>1. loc[th] \in Locals /\ pc[th] \in BadLabels /\ UNCHANGED up
  BY LocalsTyped DEF QrRow, QrPin, QrUnlink, QrUnlinkFails, QrDelete, At, BadLabels
<1>2. \A k \in Keys : lease_count[k] = 0 => lease_count'[k] = 0
  <2>1. lease_count \in [Keys -> Nat]
    BY DEF IInv, DataOK, DbOK
  <2>2. CASE QrDelete(th)
    BY <2>1, <2>2 DEF QrDelete, Untrack
  <2> QED BY <2>2 DEF QrRow, QrPin, QrUnlink, QrUnlinkFails, db
<1>3. \A q \in {"qr_pin", "qr_unlink", "qr_delete"} : Stays(th, q, loc[th])
  BY DEF Stays
<1>4. CASE QrRow(th)
  <2>1. /\ pc[th] = "qr_row" /\ mutex[Inst(th)] = None /\ mutex' = [mutex EXCEPT ![Inst(th)] = th]
        /\ entries' = [entries EXCEPT ![loc[th].tgt] = None] /\ Continue(th, "qr_pin", loc[th])
        /\ UNCHANGED <<tracked, files, corrupt, held>>
    BY <1>4 DEF QrRow, At, MutexFree, Acquire, fs, lease
  <2>2. Data(th, "qr_pin", loc[th])
    BY <1>2, <2>1 DEF Data, RowsStep, FilesStep, TracksStep, LeasesStep
  <2>3. Edge(pc[th], "qr_pin") /\ Locks(th, "qr_pin")
    BY <2>1 DEF Edge, Locks
  <2> QED BY <1>1, <1>3, <2>1, <2>2, <2>3, Continues
<1>5. CASE QrPin(th)
  <2>1. pc[th] = "qr_pin" /\ UNCHANGED <<entries, tracked, files, corrupt>>
    BY <1>5 DEF QrPin, At, db, fs
  <2>2. \A m : \A q \in {"idle", "ld_dec", "qr_unlink"} : RowsStep(th, q) /\ FilesStep(th, q, m) /\ TracksStep(th, q, m)
    BY <2>1 DEF RowsStep, FilesStep, TracksStep
  <2>3. CASE Release(th) /\ Miss(th)
    <3>1. \A q \in {"idle", "ld_dec"} : Edge(pc[th], q) /\ Locks(th, q)
      BY <2>1, <2>3 DEF Edge, Locks, MutexLabels, Release
    <3> QED BY <1>1, <1>2, <2>1, <2>2, <2>3, <3>1, Misses
  <2>4. CASE Continue(th, "qr_unlink", loc[th]) /\ UNCHANGED <<mutex, lease>>
    <3>1. Edge(pc[th], "qr_unlink") /\ Locks(th, "qr_unlink") /\ Data(th, "qr_unlink", loc[th])
      BY <1>2, <2>1, <2>2, <2>4 DEF Edge, Locks, MutexLabels, Data, LeasesStep, lease
    <3> QED BY <1>1, <1>3, <2>1, <2>4, <3>1, Continues
  <2> QED BY <1>5, <2>3, <2>4 DEF QrPin
<1>6. CASE QrUnlink(th)
  <2>1. /\ pc[th] = "qr_unlink" /\ Continue(th, "qr_delete", loc[th]) /\ UNCHANGED <<entries, tracked, mutex, held>>
        /\ files' = files \ {loc[th].cur} /\ corrupt' = corrupt \ {loc[th].cur}
    BY <1>6 DEF QrUnlink, At, db, lease
  <2>2. Data(th, "qr_delete", loc[th])
    BY <1>2, <2>1 DEF Data, RowsStep, FilesStep, TracksStep, LeasesStep
  <2>3. Edge(pc[th], "qr_delete") /\ Locks(th, "qr_delete")
    BY <2>1 DEF Edge, Locks, MutexLabels
  <2> QED BY <1>1, <1>3, <2>1, <2>2, <2>3, Continues
<1>7. CASE QrUnlinkFails(th) \/ QrDelete(th)
  <2>1. /\ pc[th] \in {"qr_unlink", "qr_delete"} /\ UNCHANGED <<entries, files, corrupt>>
        /\ Release(th) /\ Miss(th)
    BY <1>7 DEF QrUnlinkFails, QrDelete, At, db, fs
  <2>2. UNCHANGED tracked \/ (pc[th] = "qr_delete" /\ tracked' = tracked \ {loc[th].cur})
    BY <1>7 DEF QrUnlinkFails, QrDelete, Untrack, At, db
  <2>3. \A m : \A q \in {"idle", "ld_dec"} : RowsStep(th, q) /\ FilesStep(th, q, m) /\ TracksStep(th, q, m)
    BY <2>1, <2>2 DEF RowsStep, FilesStep, TracksStep
  <2>4. \A q \in {"idle", "ld_dec"} : Edge(pc[th], q) /\ Locks(th, q)
    BY <2>1 DEF Edge, Locks, MutexLabels, Release
  <2> QED BY <1>1, <1>2, <2>1, <2>3, <2>4, Misses
<1> QED BY <1>4, <1>5, <1>6, <1>7

(* The deletes of remove_prefix.                                            *)
LEMMA RmDeleteEffect ==
  ASSUME IInv, NEW th \in Threads, RmDelete(th)
  PROVE  Effects(th)
<1> DEFINE n(t) == [loc[th] EXCEPT !.snap[t] = None, !.todo = @ \cup {loc[th].snap[t]}]
<1>1. /\ loc[th] \in Locals /\ pc[th] = "rm_delete"
      /\ UNCHANGED <<tracked, lease_count, files, corrupt, mutex, up, held>>
  BY LocalsTyped DEF RmDelete, At, fs, lease
<1>2. PICK t \in Targets : /\ entries' = [entries EXCEPT ![t] = None]
                           /\ \E q \in {"rc_check", "rm_delete"} : Continue(th, q, n(t))
  BY DEF RmDelete
<1> DEFINE m == n(t)
<1>3. m.op = loc[th].op /\ m.reset = loc[th].reset
  BY <1>1 DEF Locals
<1>4. PICK q \in {"rc_check", "rm_delete"} : Continue(th, q, m)
  BY <1>2
<1> HIDE DEF m
<1>5. Data(th, q, m)
  BY <1>1, <1>2 DEF Data, RowsStep, FilesStep, TracksStep, LeasesStep, MutexLabels
<1>6. Edge(pc[th], q) /\ Locks(th, q) /\ Stays(th, q, m)
  BY <1>1, <1>3 DEF Edge, Locks, Stays, MutexLabels
<1> QED BY <1>1, <1>4, <1>5, <1>6, Continues

(* recover_internal.                                                        *)
LEMMA RecoverEffect ==
  ASSUME IInv, NEW th \in Threads,
         RvSweep(th) \/ RvRows(th) \/ RvRow(th) \/ RvDelete(th) \/ RvReset(th) \/ RvOrphans(th)
  PROVE  Effects(th)
<1>1. loc[th] \in Locals /\ pc[th] \in RecoverLabels /\ UNCHANGED <<tracked, files, corrupt, up, held>>
  BY LocalsTyped DEF RvSweep, RvRows, RvRow, RvDelete, RvReset, RvOrphans, At, RecoverLabels, db, fs, lease
<1>2. LeasesStep(th)
  <2>1. CASE RvReset(th)
    BY <1>1, <2>1 DEF RvReset, LeasesStep
  <2> QED BY <1>1, <2>1 DEF RvSweep, RvRows, RvRow, RvDelete, RvOrphans, db, LeasesStep
<1>3. \/ UNCHANGED entries
      \/ pc[th] = "rv_delete" /\ entries' = [entries EXCEPT ![loc[th].tgt] = None]
  BY DEF RvSweep, RvRows, RvRow, RvDelete, RvReset, RvOrphans, At, db
<1>4. \A n : \A q \in RecoverLabels \cup {"rc_check", "ev_start", "idle"} : Data(th, q, n)
  BY <1>1, <1>2, <1>3 DEF Data, RowsStep, FilesStep, TracksStep, RecoverLabels, MutexLabels
<1>5. ASSUME NEW q \in RecoverLabels, Edge(pc[th], q), NEW m, Continue(th, q, m), m.op = loc[th].op,
             m.reset => loc[th].reset,
             (UNCHANGED mutex /\ (q = "rv_rows" \/ pc[th] # "rv_rows")) \/ (MutexFree(th) /\ Acquire(th))
      PROVE  Effects(th)
  <2>1. Stays(th, q, m)
    BY <1>5 DEF Stays, RecoverLabels
  <2>2. Locks(th, q)
    BY <1>1, <1>5 DEF Locks, RecoverLabels, MutexLabels, Edge, MutexFree, Acquire
  <2> QED BY <1>1, <1>4, <1>5, <2>1, <2>2, Continues DEF RecoverLabels
<1>6. CASE RvSweep(th)
  <2> DEFINE m == [loc[th] EXCEPT !.reset = @ /\ \A j \in Instances \ {Inst(th)} : ~Sentinel(j)]
  <2>1. m.op = loc[th].op /\ (m.reset => loc[th].reset)
    BY <1>1 DEF Locals
  <2> HIDE DEF m
  <2>2. pc[th] = "rv_sweep" /\ Continue(th, "rv_rows", m) /\ UNCHANGED mutex
    BY <1>6 DEF RvSweep, At, m
  <2> QED BY <1>5, <2>1, <2>2 DEF RecoverLabels, Edge
<1>7. CASE RvRows(th)
  <2> DEFINE m == [loc[th] EXCEPT !.snap = entries]
  <2>1. m.op = loc[th].op /\ (m.reset => loc[th].reset)
    BY <1>1 DEF Locals
  <2> HIDE DEF m
  <2>2. pc[th] = "rv_rows" /\ Continue(th, "rv_row", m) /\ MutexFree(th) /\ Acquire(th)
    BY <1>7 DEF RvRows, At, m
  <2> QED BY <1>5, <2>1, <2>2 DEF RecoverLabels, Edge
<1>8. CASE RvRow(th)
  <2>1. pc[th] = "rv_row" /\ UNCHANGED mutex
    BY <1>8 DEF RvRow, At
  <2>2. CASE Continue(th, "rv_reset", [loc[th] EXCEPT !.tgt = None])
    <3> DEFINE m == [loc[th] EXCEPT !.tgt = None]
    <3>1. m.op = loc[th].op /\ (m.reset => loc[th].reset)
      BY <1>1 DEF Locals
    <3> HIDE DEF m
    <3>2. Continue(th, "rv_reset", m)
      BY <2>2 DEF m
    <3> QED BY <1>5, <2>1, <3>1, <3>2 DEF RecoverLabels, Edge
  <2> DEFINE Row(t, q) == Continue(th, q, [loc[th] EXCEPT !.snap[t] = None, !.tgt = t])
  <2>3. ASSUME NEW t \in Targets, NEW q \in {"rv_row", "rv_delete"}, Row(t, q)
        PROVE  Effects(th)
    <3> DEFINE m == [loc[th] EXCEPT !.snap[t] = None, !.tgt = t]
    <3>1. m.op = loc[th].op /\ (m.reset => loc[th].reset)
      BY <1>1 DEF Locals
    <3> HIDE DEF m
    <3>2. Continue(th, q, m)
      BY <2>3 DEF m
    <3> QED BY <1>5, <2>1, <3>1, <3>2 DEF RecoverLabels, Edge
  <2>4. \/ Continue(th, "rv_reset", [loc[th] EXCEPT !.tgt = None])
        \/ \E t \in Targets, q \in {"rv_row", "rv_delete"} : Row(t, q)
    BY <1>8 DEF RvRow
  <2> HIDE DEF Row
  <2> QED BY <2>2, <2>3, <2>4
<1>9. CASE RvDelete(th) \/ RvReset(th)
  <2>1. /\ Continue(th, IF pc[th] = "rv_delete" THEN "rv_row" ELSE "rv_orphans", loc[th])
        /\ UNCHANGED mutex /\ pc[th] \in {"rv_delete", "rv_reset"}
    BY <1>9 DEF RvDelete, RvReset, At
  <2> QED BY <1>5, <2>1 DEF RecoverLabels, Edge
<1>10. CASE RvOrphans(th)
  <2> DEFINE m == [loc[th] EXCEPT !.todo = {k \in tracked : Reclaimable(k)}]
  <2>1. {k \in tracked : Reclaimable(k)} \subseteq Keys
    BY DEF IInv, DataOK, DbOK
  <2>2. m \in Locals /\ m.op = loc[th].op /\ m.reset = loc[th].reset
    BY <1>1, <2>1 DEF Locals
  <2> HIDE DEF m
  <2>3. pc[th] = "rv_orphans" /\ Reclaimed(th, m)
    BY <1>10 DEF RvOrphans, At, m
  <2> QED BY <1>1, <1>4, <2>2, <2>3, Reclaims
<1> QED BY <1>6, <1>7, <1>8, <1>9, <1>10
-----------------------------------------------------------------------------
(* The ways a call begins.                                                  *)

(* A step that begins a call is an effect.                                  *)
LEMMA Begun ==
  ASSUME NEW th \in Threads, NEW q, NEW m, pc[th] = "idle", Stepped(th, q, m), Edge("idle", q), Locks(th, q),
         Begins(th, q, m), Data(th, q, m)
  PROVE  Effects(th)
<1>1. Effect(th, q, m)
  BY DEF Effect, Flow, Ups
<1> QED BY <1>1 DEF Effects

(* put, put_and_lease and compare_and_put.                                  *)
LEMMA StageEffect ==
  ASSUME IInv, NEW th \in Threads, NEW o \in Puts, NEW t, NEW k, NEW accept,
         Stage(th, o, t, k, accept), Call(th, o)
  PROVE  Effects(th)
<1> DEFINE m == [NoLocals EXCEPT !.op = o, !.tgt = t, !.key = k, !.accept = accept]
<1>1. m.op = o
  BY DEF NoLocals
<1> HIDE DEF m
<1>2. /\ pc[th] = "idle" /\ Stepped(th, "put_tx", m) /\ UNCHANGED <<db, fs, lease, mutex, up>>
      /\ Writable(th) /\ Called(th, m)
  BY <1>1 DEF Stage, Call, At, Stepped, Goto, Called, m
<1>3. Data(th, "put_tx", m)
  BY <1>2, Same
<1>4. Edge("idle", "put_tx") /\ Locks(th, "put_tx") /\ Begins(th, "put_tx", m)
  BY <1>1, <1>2 DEF Edge, Locks, MutexLabels, Begins
<1> QED BY <1>2, <1>3, <1>4, Begun

(* remove_index_returning and compare_and_remove.                           *)
LEMMA RemovedEffect ==
  ASSUME IInv, NEW th \in Threads, NEW o \in {"removeret", "casremove"}, NEW t,
         Removed(th, o, t), Call(th, o), MutexFree(th)
  PROVE  Effects(th)
<1> DEFINE m == [NoLocals EXCEPT !.op = o, !.todo = {entries[t]}]
<1>1. m.op = o
  BY DEF NoLocals
<1> HIDE DEF m
<1>2. /\ pc[th] = "idle" /\ Stepped(th, "rc_check", m) /\ Called(th, m)
      /\ UNCHANGED <<tracked, lease_count, files, corrupt, held>>
      /\ entries' = [entries EXCEPT ![t] = None] /\ mutex' = [mutex EXCEPT ![Inst(th)] = th]
  BY <1>1 DEF Removed, Call, At, Stepped, Goto, Called, m, fs, lease, Acquire
<1>3. Data(th, "rc_check", m)
  BY <1>2 DEF Data, RowsStep, FilesStep, TracksStep, LeasesStep, MutexFree
<1>4. Edge("idle", "rc_check") /\ Locks(th, "rc_check") /\ Begins(th, "rc_check", m)
  BY <1>1, <1>2 DEF Edge, Locks, MutexFree, Begins
<1> QED BY <1>2, <1>3, <1>4, Begun

(* get_entry and lookup.                                                    *)
LEMMA GetEffect ==
  ASSUME IInv, NEW th \in Threads, NEW t \in Targets, Get(th, t) \/ Lookup(th, t)
  PROVE  Effects(th)
<1>1. pc[th] = "idle" /\ UNCHANGED <<db, fs, lease, mutex, up>> /\ up[Inst(th)] = "open"
  BY DEF Get, Lookup, Call, At
<1>2. \A m : \A q \in {"rd_file", "ls_row"} : Data(th, q, m)
  BY <1>1, Same
<1>3. \A q \in {"rd_file", "ls_row"} : Edge("idle", q) /\ Locks(th, q)
  BY <1>1 DEF Edge, Locks, MutexLabels
<1>4. CASE Get(th, t)
  <2> DEFINE m == [NoLocals EXCEPT !.op = "get", !.tgt = t, !.cur = entries[t]]
  <2>1. m.op = "get"
    BY DEF NoLocals
  <2> HIDE DEF m
  <2>2. Stepped(th, "rd_file", m) /\ Begins(th, "rd_file", m)
    BY <1>1, <1>4, <2>1 DEF Get, Call, Continue, Goto, Stepped, Begins, Called, m
  <2> QED BY <1>1, <1>2, <1>3, <2>2, Begun
<1>5. CASE Lookup(th, t)
  <2> DEFINE m == [NoLocals EXCEPT !.op = "lookup", !.tgt = t, !.key = entries[t]]
  <2>1. m.op = "lookup"
    BY DEF NoLocals
  <2> HIDE DEF m
  <2>2. Stepped(th, "ls_row", m) /\ Begins(th, "ls_row", m)
    BY <1>1, <1>5, <2>1 DEF Lookup, Call, Continue, Goto, Stepped, Begins, Called, m
  <2> QED BY <1>1, <1>2, <1>3, <2>2, Begun
<1> QED BY <1>4, <1>5

(* remove_prefix, the drop of a Lease, gc, open and recover.                *)
LEMMA RemovePrefixEffect ==
  ASSUME IInv, NEW th \in Threads, NEW P \in Prefixes, RemovePrefix(th, P)
  PROVE  Effects(th)
<1> DEFINE m == [NoLocals EXCEPT !.op = "remove",
                   !.snap = [t \in Targets |-> IF t \in P THEN entries[t] ELSE None]]
<1>1. m.op = "remove"
  BY DEF NoLocals
<1> HIDE DEF m
<1>2. /\ pc[th] = "idle" /\ UNCHANGED <<db, fs, lease, up>> /\ Stepped(th, "rm_delete", m) /\ Called(th, m)
      /\ mutex[Inst(th)] = None /\ mutex' = [mutex EXCEPT ![Inst(th)] = th]
  BY <1>1 DEF RemovePrefix, Call, At, Continue, Goto, Stepped, Called, Acquire, MutexFree, m
<1>3. Data(th, "rm_delete", m)
  BY <1>2, Same
<1>4. Edge("idle", "rm_delete") /\ Locks(th, "rm_delete") /\ Begins(th, "rm_delete", m)
  BY <1>1, <1>2 DEF Edge, Locks, Begins
<1> QED BY <1>2, <1>3, <1>4, Begun

(* The drop of a Lease.                                                     *)
LEMMA DropLeaseEffect ==
  ASSUME IInv, NEW th \in Threads, DropLease(th)
  PROVE  Effects(th)
<1> DEFINE m == [NoLocals EXCEPT !.op = "drop", !.cur = held[th]]
<1>1. m.op = "drop"
  BY DEF NoLocals
<1> HIDE DEF m
<1>2. /\ pc[th] = "idle" /\ UNCHANGED <<entries, tracked, lease_count, files, corrupt, mutex, up>>
      /\ Stepped(th, "ld_dec", m) /\ held' = [held EXCEPT ![th] = None] /\ "drop" \in Ops /\ held[th] # None
  BY DEF DropLease, BeginDrop, Continue, Goto, At, Stepped, m, db, fs
<1>3. Data(th, "ld_dec", m)
  BY <1>2 DEF Data, RowsStep, FilesStep, TracksStep, LeasesStep, IInv, DataOK, RestOK
<1>4. Edge("idle", "ld_dec") /\ Locks(th, "ld_dec") /\ Begins(th, "ld_dec", m)
  BY <1>1, <1>2 DEF Edge, Locks, MutexLabels, Begins
<1> QED BY <1>2, <1>3, <1>4, Begun

(* gc, open and recover.                                                    *)
LEMMA RestartEffect ==
  ASSUME IInv, NEW th \in Threads, Gc(th) \/ Open(th) \/ Recover(th)
  PROVE  Effects(th)
<1>1. pc[th] = "idle" /\ UNCHANGED <<db, fs, lease, mutex>>
  BY DEF Gc, Open, Recover, Call, At
<1>2. \A m : \A q \in {"ev_start", "rv_sweep"} : Data(th, q, m)
  BY <1>1, Same
<1>3. \A q \in {"ev_start", "rv_sweep"} : Edge("idle", q) /\ Locks(th, q)
  BY <1>1 DEF Edge, Locks, MutexLabels
<1>4. CASE Gc(th)
  <2> DEFINE m == [NoLocals EXCEPT !.op = "gc"]
  <2>1. m.op = "gc"
    BY DEF NoLocals
  <2> HIDE DEF m
  <2>2. Stepped(th, "ev_start", m) /\ Begins(th, "ev_start", m)
    BY <1>4, <2>1 DEF Gc, Call, Continue, Goto, Stepped, Begins, Called, m
  <2> QED BY <1>1, <1>2, <1>3, <2>2, Begun
<1>5. CASE Recover(th)
  <2> DEFINE m == [NoLocals EXCEPT !.op = "recover"]
  <2>1. m.op = "recover"
    BY DEF NoLocals
  <2> HIDE DEF m
  <2>2. Stepped(th, "rv_sweep", m) /\ Begins(th, "rv_sweep", m)
    BY <1>5, <2>1 DEF Recover, Call, Continue, Goto, Stepped, Begins, Called, m
  <2> QED BY <1>1, <1>2, <1>3, <2>2, Begun
<1>6. CASE Open(th)
  <2> DEFINE m == [NoLocals EXCEPT !.op = "open", !.reset = ~Sentinel(Inst(th))]
  <2>1. m.op = "open" /\ (m.reset => ~Sentinel(Inst(th)))
    BY DEF NoLocals
  <2> HIDE DEF m
  <2>2. /\ Stepped(th, "rv_sweep", m) /\ up[Inst(th)] = "down"
        /\ up' = [up EXCEPT ![Inst(th)] = "opening"]
    BY <1>6 DEF Open, Continue, Goto, Stepped, m
  <2>3. Begins(th, "rv_sweep", m)
    BY <2>1, <2>2 DEF Begins
  <2> QED BY <1>1, <1>2, <1>3, <2>2, <2>3, Begun
<1> QED BY <1>4, <1>5, <1>6

(* Every beginning of a call is an effect.                                  *)
LEMMA StartEffect ==
  ASSUME IInv, NEW th \in Threads, Start(th)
  PROVE  Effects(th)
<1>1. ASSUME NEW t \in Targets, NEW k \in Keys, Put(th, t, k) \/ PutAndLease(th, t, k)
      PROVE  Effects(th)
  BY <1>1, StageEffect DEF Put, PutAndLease, Puts
<1>2. ASSUME NEW t \in Targets, NEW e \in Keys \cup {None}, NEW k \in Keys, CompareAndPut(th, t, e, k)
      PROVE  Effects(th)
  BY <1>2, StageEffect DEF CompareAndPut, Puts
<1>3. ASSUME NEW t \in Targets, NEW e \in Keys, CompareAndRemove(th, t, e)
      PROVE  Effects(th)
  BY <1>3, RemovedEffect DEF CompareAndRemove
<1>4. ASSUME NEW t \in Targets, RemoveIndexReturning(th, t)
      PROVE  Effects(th)
  BY <1>4, RemovedEffect DEF RemoveIndexReturning
<1>5. ASSUME NEW t \in Targets, Get(th, t) \/ Lookup(th, t)
      PROVE  Effects(th)
  BY <1>5, GetEffect
<1>6. ASSUME NEW P \in Prefixes, RemovePrefix(th, P)
      PROVE  Effects(th)
  BY <1>6, RemovePrefixEffect
<1>7. CASE DropLease(th) \/ Gc(th) \/ Open(th) \/ Recover(th)
  BY <1>7, DropLeaseEffect, RestartEffect
<1> QED BY <1>1, <1>2, <1>3, <1>4, <1>5, <1>6, <1>7 DEF Start

(* Every step of a thread is an effect.                                     *)
LEMMA ThreadEffect ==
  ASSUME IInv, NEW th \in Threads, Step(th) \/ Fault(th) \/ Start(th)
  PROVE  Effects(th)
<1>1. CASE Step(th)
  BY <1>1, PutTxEffect, PutLinkEffect, ReclaimEffect, EvStartEffect, EvPickEffect, EvRowEffect,
     EvUnlinkEffect, EvUntrackEffect, LeaseEffect, DropEffect, ReadEffect, QuarantineEffect,
     RmDeleteEffect, RecoverEffect
  DEF Step
<1>2. CASE Fault(th)
  BY <1>2, PutLinkEffect, ReclaimEffect, EvUnlinkEffect, DropEffect, QuarantineEffect DEF Fault
<1> QED BY <1>1, <1>2, StartEffect
-----------------------------------------------------------------------------
(* Calls is preserved.                                                      *)

(* An effect of one thread leaves the others where they are.                *)
LEMMA Frame ==
  ASSUME IInv, NEW th \in Threads, NEW q, NEW m, Effect(th, q, m)
  PROVE  /\ pc'[th] = q /\ loc'[th] = m
         /\ \A u \in Threads \ {th} : pc'[u] = pc[u] /\ loc'[u] = loc[u]
  BY DEF Effect, Stepped, IInv, ControlOK

(* A thread at a label carries out an operation that reaches it.            *)
LEMMA OpsEffect ==
  ASSUME IInv, OpsInv, NEW th \in Threads, NEW q, NEW m, Effect(th, q, m)
  PROVE  OpsInv'
<1> DEFINE p == pc[th]
<1> DEFINE o == loc[th].op
<1>1. Edge(p, q) /\ Flow(th, q, m)
  BY DEF Effect
<1>2. /\ p = "idle" <=> o = "none"
      /\ o \notin {"none", "open", "drop"} => o \in Ops
      /\ o = "drop" => Ops \cap {"drop", "lookup"} # {}
      /\ p \in PutLabels => o \in Puts
      /\ o \in Puts => Writable(th)
      /\ p \in LeaseLabels => o \in {"putlease", "lookup"}
      /\ p \in DropLabels <=> o = "drop"
      /\ o = "open" => p \in RecoverLabels \cup ReclaimLabels \cup EvictLabels \cup {"ev_start"}
      /\ p \in EvictLabels => MaxBytes # None
  BY DEF OpsInv
<1>3. /\ q = "idle" <=> m.op = "none"
      /\ m.op \notin {"none", "open", "drop"} => m.op \in Ops
      /\ m.op = "drop" => Ops \cap {"drop", "lookup"} # {}
      /\ q \in PutLabels => m.op \in Puts
      /\ m.op \in Puts => Writable(th)
      /\ q \in LeaseLabels => m.op \in {"putlease", "lookup"}
      /\ q \in DropLabels <=> m.op = "drop"
      /\ m.op = "open" => q \in RecoverLabels \cup ReclaimLabels \cup EvictLabels \cup {"ev_start"}
      /\ q \in EvictLabels => MaxBytes # None
  <2>1. CASE p # "idle" /\ q = "idle" /\ m = NoLocals
    BY <2>1 DEF NoLocals, PutLabels, Puts, LeaseLabels, DropLabels, EvictLabels
  <2>2. CASE p # "idle" /\ Stays(th, q, m)
    <3>1. m.op = o /\ q # "idle" /\ q # "ld_dec" /\ (q = "ls_row" => o = "putlease") /\ o # "none"
      BY <1>2, <2>2 DEF Stays
    <3>2. q \in PutLabels => p \in PutLabels
      BY <1>1, <2>2, <3>1 DEF Edge, PutLabels
    <3>3. q \in LeaseLabels => p \in LeaseLabels \/ o = "putlease"
      BY <1>1, <2>2, <3>1 DEF Edge, LeaseLabels
    <3>4. q \in DropLabels <=> p \in DropLabels
      BY <1>1, <2>2, <3>1 DEF Edge, DropLabels
    <3>5. q \in EvictLabels => p \in EvictLabels \/ MaxBytes # None
      BY <1>1, <2>2 DEF Edge, EvictLabels, Stays
    <3>6. (p \in RecoverLabels \cup ReclaimLabels \cup EvictLabels \cup {"ev_start"} /\ o = "open") =>
          q \in RecoverLabels \cup ReclaimLabels \cup EvictLabels \cup {"ev_start"}
      BY <1>1, <3>1 DEF Edge, RecoverLabels, ReclaimLabels, EvictLabels
    <3> QED BY <1>2, <2>2, <3>1, <3>2, <3>3, <3>4, <3>5, <3>6
  <2>3. CASE p # "idle" /\ q = "ld_dec" /\ m.op = "drop" /\ o = "lookup"
    BY <1>2, <2>3 DEF PutLabels, Puts, LeaseLabels, DropLabels, EvictLabels
  <2>4. CASE p = "idle" /\ Begins(th, q, m)
    BY <2>4 DEF Begins, Called, PutLabels, Puts, LeaseLabels, DropLabels, EvictLabels, RecoverLabels
  <2> QED BY <1>1, <2>1, <2>2, <2>3, <2>4 DEF Flow
<1>4. SUFFICES ASSUME NEW u \in Threads
      PROVE  /\ pc'[u] = "idle" <=> loc'[u].op = "none"
             /\ loc'[u].op \notin {"none", "open", "drop"} => loc'[u].op \in Ops
             /\ loc'[u].op = "drop" => Ops \cap {"drop", "lookup"} # {}
             /\ pc'[u] \in PutLabels => loc'[u].op \in Puts
             /\ loc'[u].op \in Puts => Writable(u)
             /\ pc'[u] \in LeaseLabels => loc'[u].op \in {"putlease", "lookup"}
             /\ pc'[u] \in DropLabels <=> loc'[u].op = "drop"
             /\ loc'[u].op = "open" => pc'[u] \in RecoverLabels \cup ReclaimLabels \cup EvictLabels \cup {"ev_start"}
             /\ pc'[u] \in EvictLabels => MaxBytes # None
  BY DEF OpsInv, Writable, Inst
<1>5. CASE u = th
  BY <1>3, <1>5, Frame
<1>6. CASE u # th
  <2>1. pc'[u] = pc[u] /\ loc'[u] = loc[u]
    BY <1>6, Frame
  <2> QED BY <2>1 DEF OpsInv
<1> QED BY <1>5, <1>6

(* The mutex of a process is held by the thread at its labels.              *)
LEMMA MutexEffect ==
  ASSUME IInv, MutexInv, NEW th \in Threads, NEW q, NEW m, Effect(th, q, m)
  PROVE  MutexInv'
<1> SUFFICES ASSUME NEW u \in Threads, pc'[u] \in MutexLabels
             PROVE  mutex'[Inst(u)] = u
  BY DEF MutexInv, Inst
<1>1. /\ mutex \in [Instances -> Threads \cup {None}] /\ Inst(u) \in Instances /\ Inst(th) \in Instances
      /\ u # None /\ th # None
  BY DEF IInv, DataOK, LocksOK, Inst
<1>2. pc[th] \in MutexLabels => mutex[Inst(th)] = th
  BY DEF MutexInv
<1>3. CASE u = th
  <2>1. q \in MutexLabels
    BY <1>3, Frame
  <2> QED BY <1>1, <1>2, <1>3, <2>1 DEF Effect, Locks
<1>4. CASE u # th
  <2>1. mutex[Inst(u)] = u
    BY <1>4, Frame DEF MutexInv
  <2> QED BY <1>1, <1>2, <1>4, <2>1 DEF Effect, Locks
<1> QED BY <1>3, <1>4

(* Only a first open, or the drop of a Lease, runs before the instance is up.*)
LEMMA UpEffect ==
  ASSUME IInv, OpsInv, UpInv, NEW th \in Threads, NEW q, NEW m, Effect(th, q, m)
  PROVE  UpInv'
<1>1. up \in [Instances -> {"down", "opening", "open"}] /\ \A u \in Threads : Inst(u) \in Instances
  BY DEF IInv, DataOK, RestOK, Inst
<1>2. Flow(th, q, m) /\ Ups(th, q)
  BY DEF Effect
<1>3. pc[th] = "idle" <=> loc[th].op = "none"
  BY DEF OpsInv
<1>4. \A u \in Threads : /\ loc[u].op = "open" => /\ up[Inst(u)] = "opening"
                                                 /\ \A v \in Threads \ {u} : Inst(v) = Inst(u) => loc[v].op \in {"none", "drop"}
                         /\ loc[u].op \notin {"none", "drop", "open"} => up[Inst(u)] = "open"
  BY DEF UpInv
<1> DEFINE A(u) == loc'[u].op = "open" =>
                     /\ up'[Inst(u)] = "opening"
                     /\ \A v \in Threads \ {u} : Inst(v) = Inst(u) => loc'[v].op \in {"none", "drop"}
<1> DEFINE B(u) == loc'[u].op \notin {"none", "drop", "open"} => up'[Inst(u)] = "open"
<1>5. SUFFICES ASSUME NEW u \in Threads PROVE A(u) /\ B(u)
  BY DEF UpInv, Inst
<1>6. \A v \in Threads \ {th} : loc'[v] = loc[v]
  BY Frame
<1>7. loc'[th] = m
  BY Frame
<1>8. CASE pc[th] # "idle" /\ (m.op = loc[th].op \/ (m.op = "drop" /\ loc[th].op = "lookup")) /\ UNCHANGED up
  BY <1>4, <1>6, <1>7, <1>8
<1>9. CASE pc[th] # "idle" /\ q = "idle" /\ m = NoLocals
  <2>1. m.op = "none"
    BY <1>9 DEF NoLocals
  <2>2. CASE UNCHANGED up
    BY <1>4, <1>6, <1>7, <2>1, <2>2
  <2>3. CASE loc[th].op = "open" /\ \E x : up' = [up EXCEPT ![Inst(th)] = x]
    <3>1. \A j \in Instances \ {Inst(th)} : up'[j] = up[j]
      BY <1>1, <2>3
    <3>2. \A v \in Threads \ {th} : Inst(v) = Inst(th) => loc'[v].op \in {"none", "drop"}
      BY <1>4, <1>6, <2>3
    <3> QED BY <1>1, <1>4, <1>6, <1>7, <2>1, <3>1, <3>2
  <2> QED BY <1>2, <1>9, <2>2, <2>3 DEF Ups
<1>10. CASE pc[th] = "idle" /\ m.op = "drop" /\ UNCHANGED up
  BY <1>4, <1>6, <1>7, <1>10
<1>11. CASE pc[th] = "idle" /\ m.op \notin {"none", "drop", "open"} /\ up[Inst(th)] = "open" /\ UNCHANGED up
  BY <1>4, <1>6, <1>7, <1>11
<1>12. CASE pc[th] = "idle" /\ m.op = "open" /\ up[Inst(th)] = "down" /\ up' = [up EXCEPT ![Inst(th)] = "opening"]
  <2>1. \A v \in Threads \ {th} : Inst(v) = Inst(th) => loc'[v].op \in {"none", "drop"}
    BY <1>4, <1>6, <1>12
  <2>2. up'[Inst(th)] = "opening" /\ \A j \in Instances \ {Inst(th)} : up'[j] = up[j]
    BY <1>1, <1>12
  <2> QED BY <1>1, <1>4, <1>6, <1>7, <1>12, <2>1, <2>2
<1>13. CASE pc[th] # "idle" /\ (Stays(th, q, m) \/ (q = "ld_dec" /\ m.op = "drop" /\ loc[th].op = "lookup"))
  <2>1. UNCHANGED up
    BY <1>2, <1>13 DEF Ups, Stays
  <2>2. m.op = loc[th].op \/ (m.op = "drop" /\ loc[th].op = "lookup")
    BY <1>13 DEF Stays
  <2> QED BY <1>8, <1>13, <2>1, <2>2
<1>14. CASE pc[th] = "idle" /\ Begins(th, q, m)
  <2>1. \/ m.op = "drop" /\ UNCHANGED up
        \/ m.op \notin {"none", "drop", "open"} /\ up[Inst(th)] = "open" /\ UNCHANGED up
        \/ m.op = "open" /\ up[Inst(th)] = "down" /\ up' = [up EXCEPT ![Inst(th)] = "opening"]
    BY <1>14 DEF Begins, Called, Puts
  <2> QED BY <1>10, <1>11, <1>12, <1>14, <2>1
<1> QED BY <1>2, <1>9, <1>13, <1>14 DEF Flow

(* Every step preserves Calls.                                              *)
LEMMA CallsNext ==
  ASSUME IInv, Calls, [Next]_vars
  PROVE  Calls'
<1>1. ASSUME NEW th \in Threads, Step(th) \/ Fault(th) \/ Start(th)
      PROVE  Calls'
  <2>1. PICK q, m : Effect(th, q, m)
    BY <1>1, ThreadEffect DEF Effects
  <2> QED BY <2>1, OpsEffect, MutexEffect, UpEffect DEF Calls
<1>2. ASSUME NEW i \in Instances, Close(i)
      PROVE  Calls'
  <2>1. UNCHANGED <<mutex, pc, loc>> /\ up' = [up EXCEPT ![i] = "down"]
    BY <1>2 DEF Close, locks
  <2>2. \A th \in Threads : Inst(th) = i => loc[th].op = "none"
    BY <1>2 DEF Close, Calls, OpsInv
  <2>3. OpsInv' /\ MutexInv'
    BY <2>1 DEF Calls, OpsInv, MutexInv, Writable, Inst
  <2>4. up \in [Instances -> {"down", "opening", "open"}]
    BY DEF IInv, DataOK, RestOK
  <2>5. UpInv'
    BY <2>1, <2>2, <2>4 DEF Calls, UpInv, Inst
  <2> QED BY <2>3, <2>5 DEF Calls
<1>3. ASSUME NEW i \in Instances, Crash(i)
      PROVE  Calls'
  <2>1. \A th \in Threads : IF Inst(th) = i THEN pc'[th] = "idle" /\ loc'[th].op = "none"
                                            ELSE pc'[th] = pc[th] /\ loc'[th] = loc[th]
    BY <1>3 DEF Crash, NoLocals
  <2>2. /\ \A th \in Threads : Inst(th) # i => mutex'[Inst(th)] = mutex[Inst(th)] /\ up'[Inst(th)] = up[Inst(th)]
        /\ \A th \in Threads : Inst(th) \in Instances
    BY <1>3 DEF Crash, IInv, DataOK, RestOK, LocksOK, Inst
  <2>3. OpsInv'
    <3> SUFFICES ASSUME NEW u \in Threads
        PROVE  /\ pc'[u] = "idle" <=> loc'[u].op = "none"
               /\ loc'[u].op \notin {"none", "open", "drop"} => loc'[u].op \in Ops
               /\ loc'[u].op = "drop" => Ops \cap {"drop", "lookup"} # {}
               /\ pc'[u] \in PutLabels => loc'[u].op \in Puts
               /\ loc'[u].op \in Puts => Writable(u)
               /\ pc'[u] \in LeaseLabels => loc'[u].op \in {"putlease", "lookup"}
               /\ pc'[u] \in DropLabels <=> loc'[u].op = "drop"
               /\ loc'[u].op = "open" => pc'[u] \in RecoverLabels \cup ReclaimLabels \cup EvictLabels \cup {"ev_start"}
               /\ pc'[u] \in EvictLabels => MaxBytes # None
      BY DEF OpsInv, Writable, Inst
    <3>1. CASE Inst(u) = i
      BY <2>1, <3>1 DEF PutLabels, Puts, LeaseLabels, DropLabels, EvictLabels
    <3>2. CASE Inst(u) # i
      <4>1. pc'[u] = pc[u] /\ loc'[u] = loc[u]
        BY <2>1, <3>2
      <4> QED BY <4>1 DEF Calls, OpsInv
    <3> QED BY <3>1, <3>2
  <2>4. MutexInv'
    BY <2>1, <2>2 DEF Calls, MutexInv, MutexLabels, Inst
  <2>5. UpInv'
    BY <2>1, <2>2 DEF Calls, UpInv, Inst
  <2> QED BY <2>3, <2>4, <2>5 DEF Calls
<1>4. CASE UNCHANGED <<pc, loc, up, mutex>>
  BY <1>4 DEF Calls, OpsInv, MutexInv, UpInv, Writable, Inst
<1>5. ((\E k \in Keys : Damage(k)) \/ UNCHANGED vars) => UNCHANGED <<pc, loc, up, mutex>>
  BY DEF Damage, vars, locks
<1> QED BY <1>1, <1>2, <1>3, <1>4, <1>5 DEF Next

(* Two threads of one process are never both inside its mutex, nor is one   *)
(* inside while another finds it free.                                      *)
LEMMA Exclusive ==
  ASSUME IInv, Calls, SingleProcess, NEW th \in Threads, NEW u \in Threads, u # th, pc[u] \in MutexLabels
  PROVE  pc[th] \notin MutexLabels /\ mutex[Inst(th)] # None
<1>1. mutex[Inst(u)] = u /\ Inst(u) = Inst(th) /\ u # None
  BY DEF Calls, MutexInv, SingleProcess, Inst
<1> QED BY <1>1 DEF Calls, MutexInv
-----------------------------------------------------------------------------
(* A thread that would make a row unbacked: none, when every unlink is in   *)
(* the reclaim transaction.                                                 *)
LEMMA BackedEffect ==
  ASSUME IInv, Calls, Calls', Transactional, BackedInv, NEW th \in Threads, NEW q, NEW m, Effect(th, q, m)
  PROVE  BackedInv'
<1>1. /\ Edge(pc[th], q) /\ Flow(th, q, m) /\ RowsStep(th, q) /\ FilesStep(th, q, m) /\ TracksStep(th, q, m)
      /\ LeasesStep(th)
  BY DEF Effect, Data
<1>2. /\ pc'[th] = q /\ loc'[th] = m
      /\ \A u \in Threads \ {th} : pc'[u] = pc[u] /\ loc'[u] = loc[u]
  BY Frame
<1>3. pc[th] \notin BadLabels \cup EvictLabels \cup LeaseLabels \cup DropLabels /\ corrupt = {} /\ held[th] = None
  BY DEF BackedInv
<1>4. corrupt' = {}
  BY <1>1, <1>3 DEF FilesStep
<1>5. \A u \in Threads : held'[u] = None
  BY <1>1, <1>3 DEF LeasesStep, LeaseLabels, BackedInv
<1>6. q \notin BadLabels \cup EvictLabels \cup LeaseLabels \cup DropLabels
  <2>1. q \notin BadLabels
    BY <1>1, <1>3 DEF FilesStep, Edge, BadLabels
  <2>2. q \notin EvictLabels
    BY <1>2 DEF Calls, OpsInv, Transactional
  <2>3. q \notin LeaseLabels
    <3>1. q \in LeaseLabels => m.op \in {"putlease", "lookup"} /\ m.op \in Ops
      BY <1>2 DEF Calls, OpsInv
    <3> QED BY <3>1 DEF Transactional, NoLeases
  <2>4. q \notin DropLabels
    <3>1. q \in DropLabels => q = "ld_dec"
      BY <1>1, <1>3 DEF Edge, DropLabels
    <3>2. loc[th].op # "lookup"
      BY DEF Calls, OpsInv, Transactional, NoLeases
    <3>3. q # "ld_dec"
      BY <1>1, <1>3, <3>2 DEF Flow, Begins, Stays
    <3> QED BY <3>1, <3>3
  <2> QED BY <2>1, <2>2, <2>3, <2>4
<1>7. \A u \in Threads : pc'[u] \notin BadLabels \cup EvictLabels \cup LeaseLabels \cup DropLabels
  BY <1>2, <1>6 DEF BackedInv
<1>8. RowBacked'
  <2> SUFFICES ASSUME NEW t \in Targets, entries'[t] # None
               PROVE  \/ entries'[t] \in files'
                      \/ \E u \in Threads : pc'[u] = "put_link" /\ loc'[u].key = entries'[t]
    BY DEF RowBacked
  <2>0. entries \in [Targets -> Keys \cup {None}]
    BY DEF IInv, DataOK, DbOK
  <2>1. CASE q = "put_link" /\ entries'[t] = loc[th].key
    BY <1>1, <1>2, <2>1 DEF TracksStep
  <2>2. CASE entries'[t] = entries[t]
    <3>1. CASE entries[t] \in files
      <4>1. pc[th] = "rc_unlink" => entries[t] # loc[th].cur
        BY DEF IInv, Reclaiming, RcLabels, Referenced
      <4> QED BY <1>1, <1>3, <2>2, <3>1, <4>1 DEF FilesStep, BadLabels, EvictLabels, DropLabels
    <3>2. ASSUME NEW u \in Threads, pc[u] = "put_link", loc[u].key = entries[t]
          PROVE  \/ entries'[t] \in files'
                 \/ \E v \in Threads : pc'[v] = "put_link" /\ loc'[v].key = entries'[t]
      <4>1. CASE u = th
        BY <1>1, <2>2, <3>2, <4>1 DEF FilesStep, Transactional
      <4>2. CASE u # th
        BY <1>2, <2>2, <3>2, <4>2
      <4> QED BY <4>1, <4>2
    <3> QED BY <2>2, <3>1, <3>2 DEF BackedInv, RowBacked
  <2>3. entries'[t] = entries[t] \/ (q = "put_link" /\ entries'[t] = loc[th].key)
    BY <1>1, <2>0 DEF RowsStep
  <2> QED BY <2>1, <2>2, <2>3
<1> QED BY <1>4, <1>5, <1>7, <1>8 DEF BackedInv

(* Every step of a transactional store preserves BackedInv.                 *)
LEMMA BackedNext ==
  ASSUME IInv, Calls, Calls', Transactional, BackedInv, [Next]_vars
  PROVE  BackedInv'
<1>1. ASSUME NEW th \in Threads, Step(th) \/ Fault(th) \/ Start(th)
      PROVE  BackedInv'
  BY <1>1, ThreadEffect, BackedEffect DEF Effects
<1>2. CASE UNCHANGED <<entries, files, corrupt, held, pc, loc>>
  BY <1>2 DEF BackedInv, RowBacked
<1>3. ASSUME NEW i \in Instances, Close(i) \/ Crash(i)
      PROVE  UNCHANGED <<entries, files, corrupt, held, pc, loc>>
  <2>1. ~Crash(i)
    BY DEF Crash, Transactional, IInv, DataOK, RestOK
  <2> QED BY <1>3, <2>1 DEF Close, db, fs, lease
<1>4. ASSUME NEW k \in Keys, Damage(k)
      PROVE  FALSE
  BY <1>4 DEF Damage, Transactional
<1>5. CASE UNCHANGED vars
  BY <1>2, <1>5 DEF vars, db, fs, lease
<1> QED BY <1>1, <1>2, <1>3, <1>4, <1>5 DEF Next
-----------------------------------------------------------------------------
(* A step of a thread of an unshared store preserves TrackedInv.            *)
LEMMA TrackedEffect ==
  ASSUME IInv, Calls, Unshared, TrackedInv, NEW th \in Threads, NEW q, NEW m, Effect(th, q, m)
  PROVE  TrackedInv'
<1>1. FilesStep(th, q, m) /\ TracksStep(th, q, m)
  BY DEF Effect, Data
<1>2. /\ pc'[th] = q /\ loc'[th] = m
      /\ \A u \in Threads \ {th} : pc'[u] = pc[u] /\ loc'[u] = loc[u]
  BY Frame
<1>3. pc[th] \notin EvictLabels \cup DropLabels
  BY DEF Calls, OpsInv, Unshared, NoDrops
<1>4. /\ files \subseteq tracked
      /\ pc[th] = "put_link" => loc[th].key \in tracked
      /\ pc[th] \in {"rc_commit", "qr_delete"} => loc[th].cur \notin files
  BY DEF TrackedInv
<1>5. files' \subseteq tracked'
  BY <1>1, <1>3, <1>4 DEF FilesStep, TracksStep, EvictLabels, DropLabels
<1>6. ASSUME NEW u \in Threads
      PROVE  /\ pc'[u] = "put_link" => loc'[u].key \in tracked'
             /\ pc'[u] \in {"rc_commit", "qr_delete"} => loc'[u].cur \notin files'
  <2>1. CASE u = th
    BY <1>1, <1>2, <2>1 DEF FilesStep, TracksStep
  <2>2. CASE u # th
    <3>1. pc'[u] = pc[u] /\ loc'[u] = loc[u]
      BY <1>2, <2>2
    <3>2. pc[u] \in {"put_link", "rc_commit", "qr_delete"} => pc[th] \notin MutexLabels
      BY <2>2, Exclusive DEF Unshared, MutexLabels
    <3>3. pc[u] \in {"put_link", "rc_commit", "qr_delete"} => tracked \subseteq tracked' /\ files' \subseteq files
      BY <1>1, <1>3, <3>2 DEF FilesStep, TracksStep, EvictLabels, DropLabels, MutexLabels
    <3> QED BY <3>1, <3>3 DEF TrackedInv
  <2> QED BY <2>1, <2>2
<1> QED BY <1>5, <1>6 DEF TrackedInv

(* Every step of an unshared store preserves TrackedInv.                    *)
LEMMA TrackedNext ==
  ASSUME IInv, Calls, Unshared, TrackedInv, [Next]_vars
  PROVE  TrackedInv'
<1>1. ASSUME NEW th \in Threads, Step(th) \/ Fault(th) \/ Start(th)
      PROVE  TrackedInv'
  BY <1>1, ThreadEffect, TrackedEffect DEF Effects
<1>2. ASSUME UNCHANGED <<tracked, files>>, \A th \in Threads : pc'[th] = "idle" \/ (pc'[th] = pc[th] /\ loc'[th] = loc[th])
      PROVE  TrackedInv'
  BY <1>2 DEF TrackedInv
<1>3. ASSUME NEW i \in Instances, Close(i) \/ Crash(i)
      PROVE  TrackedInv'
  BY <1>2, <1>3 DEF Close, Crash, db, fs
<1>4. ASSUME NEW k \in Keys, Damage(k)
      PROVE  TrackedInv'
  BY <1>2, <1>4 DEF Damage, db
<1>5. CASE UNCHANGED vars
  BY <1>2, <1>5 DEF vars, db, fs
<1> QED BY <1>1, <1>3, <1>4, <1>5 DEF Next
-----------------------------------------------------------------------------
(* RecoverInv is preserved.                                                 *)

Opener(th) == loc[th].op = "open" /\ loc[th].reset

(* What recovery has established at each of its labels.                     *)
Clean(th) == LET p == pc[th]
                 l == loc[th]
  IN
  /\ p = "rv_row" => \A t \in Targets : Backed(t) \/ l.snap[t] = entries[t]
  /\ p = "rv_delete" => \A t \in Targets : Backed(t) \/ l.snap[t] = entries[t] \/ t = l.tgt
  /\ p \in {"rv_reset", "rv_orphans", "ev_start"} \cup ReclaimLabels => \A t \in Targets : Backed(t)
  /\ p \in {"rv_orphans", "ev_start"} \cup ReclaimLabels => Quiet
  /\ p \in ReclaimLabels => \A k \in tracked : Referenced(k) \/ k \in l.todo
  /\ p = "ev_start" => \A k \in tracked : Referenced(k)

(* Recovering, label by label.                                              *)
LEMMA RecoveringSplit ==
  ASSUME NEW th \in Threads
  PROVE  /\ Recovering(th) <=> (Opener(th) => Sole(th) /\ Clean(th))
         /\ Recovering(th)' <=> (Opener(th)' => Sole(th)' /\ Clean(th)')
  BY DEF Recovering, Opener, Clean

(* The labels of the other actions.                                         *)
LEMMA OtherLabels ==
  ASSUME NEW th \in Threads, Step(th) \/ Fault(th) \/ Start(th)
  PROVE  \/ RvSweep(th) \/ RvRows(th) \/ RvRow(th) \/ RvDelete(th) \/ RvReset(th) \/ RvOrphans(th)
         \/ RcCheck(th) \/ RcUnlink(th) \/ RcCommit(th) \/ RcUnlinkFails(th)
         \/ pc[th] \notin RecoverLabels \cup ReclaimLabels
<1>1. ASSUME \/ PutTx(th) \/ PutLink(th) \/ PutLinkFails(th) \/ EvStart(th) \/ EvPick(th) \/ EvDelete(th) \/ EvRef(th)
             \/ EvUnlink(th) \/ EvUnlinkFails(th) \/ EvUntrack(th)
      PROVE  pc[th] \notin RecoverLabels \cup ReclaimLabels
  <2>1. pc[th] \in {"put_tx", "put_link", "ev_start", "ev_pick", "ev_delete", "ev_ref", "ev_unlink", "ev_untrack"}
    BY <1>1 DEF PutTx, PutLink, PutLinkFails, EvStart, EvPick, EvDelete, EvRef, EvUnlink, EvUnlinkFails, EvUntrack, At
  <2> QED BY <2>1 DEF RecoverLabels, ReclaimLabels
<1>2. ASSUME \/ LsRow(th) \/ LsPath(th) \/ LsInc(th) \/ LdDec(th) \/ LdRef(th) \/ LdPin(th) \/ LdUnlink(th)
             \/ LdUnlinkFails(th) \/ LdDelete(th)
      PROVE  pc[th] \notin RecoverLabels \cup ReclaimLabels
  <2>1. pc[th] \in {"ls_row", "ls_path", "ls_inc", "ld_dec", "ld_ref", "ld_pin", "ld_unlink", "ld_delete"}
    BY <1>2 DEF LsRow, LsPath, LsInc, LdDec, LdRef, LdPin, LdUnlink, LdUnlinkFails, LdDelete, At
  <2> QED BY <2>1 DEF RecoverLabels, ReclaimLabels
<1>3. ASSUME \/ RdRow(th) \/ RdFile(th) \/ RdOrphan(th) \/ QrRow(th) \/ QrPin(th) \/ QrUnlink(th)
             \/ QrUnlinkFails(th) \/ QrDelete(th) \/ RmDelete(th)
      PROVE  pc[th] \notin RecoverLabels \cup ReclaimLabels
  <2>1. pc[th] \in {"rd_row", "rd_file", "rd_orphan", "qr_row", "qr_pin", "qr_unlink", "qr_delete", "rm_delete"}
    BY <1>3 DEF RdRow, RdFile, RdOrphan, QrRow, QrPin, QrUnlink, QrUnlinkFails, QrDelete, RmDelete, At
  <2> QED BY <2>1 DEF RecoverLabels, ReclaimLabels
<1>4. ASSUME Start(th)
      PROVE  pc[th] \notin RecoverLabels \cup ReclaimLabels
  <2>1. pc[th] = "idle"
    BY <1>4 DEF Start, Put, PutAndLease, CompareAndPut, CompareAndRemove, Get, Lookup, RemoveIndexReturning,
       RemovePrefix, DropLease, Gc, Open, Recover, Call, At
  <2> QED BY <2>1 DEF RecoverLabels, ReclaimLabels
<1> QED BY <1>1, <1>2, <1>3, <1>4 DEF Step, Fault

(* Where the reclaim of an open goes.                                       *)
LEMMA ReclaimedCleans ==
  ASSUME IInv, NEW th \in Threads, NEW m, Reclaimed(th, m), Evicts(m.op),
         (\A t \in Targets : Backed(t)'), Quiet', (\A k \in tracked' : Referenced(k)' \/ k \in m.todo)
  PROVE  Clean(th)'
<1>1. \/ pc'[th] = "rc_check" /\ loc'[th] = m
      \/ pc'[th] = "ev_start" /\ loc'[th] = m /\ m.todo = {}
  BY DEF Reclaimed, Continue, Goto, IInv, ControlOK
<1> QED BY <1>1 DEF Clean, ReclaimLabels

(* The steps of the reclaim of a first open.                                *)
LEMMA ReclaimCleans ==
  ASSUME IInv, Calls, NEW th \in Threads, Opener(th), Clean(th),
         RcCheck(th) \/ RcUnlink(th) \/ RcCommit(th)
  PROVE  Clean(th)'
<1>1. loc[th] \in Locals /\ pc[th] \in ReclaimLabels
  BY LocalsTyped DEF RcCheck, RcUnlink, RcCommit, At, ReclaimLabels
<1>2. /\ \A t \in Targets : Backed(t)
      /\ Quiet /\ \A k \in tracked : Referenced(k) \/ k \in loc[th].todo
  BY <1>1 DEF Clean
<1>3. UNCHANGED <<entries, lease_count>>
  BY DEF RcCheck, RcUnlink, RcCommit, db
<1>4. \A k : Referenced(k)' <=> Referenced(k)
  BY <1>3 DEF Referenced
<1>5. CASE RcCheck(th)
  <2>1. PICK k \in loc[th].todo :
          IF Reclaimable(k)
          THEN Continue(th, "rc_unlink", [loc[th] EXCEPT !.cur = k])
          ELSE Reclaimed(th, [loc[th] EXCEPT !.todo = @ \ {k}])
    BY <1>5 DEF RcCheck
  <2>2. UNCHANGED <<files, tracked>> /\ (\A t \in Targets : Backed(t)') /\ Quiet'
    BY <1>2, <1>3, <1>5 DEF RcCheck, db, fs, Backed, Quiet
  <2>3. CASE Reclaimable(k)
    <3> DEFINE m == [loc[th] EXCEPT !.cur = k]
    <3>1. m.todo = loc[th].todo
      BY <1>1 DEF Locals
    <3>2. pc'[th] = "rc_unlink" /\ loc'[th] = m
      BY <2>1, <2>3 DEF Continue, Goto, IInv, ControlOK
    <3> HIDE DEF m
    <3> QED BY <1>2, <1>4, <2>2, <3>1, <3>2 DEF Clean, ReclaimLabels
  <2>4. CASE ~Reclaimable(k)
    <3> DEFINE m == [loc[th] EXCEPT !.todo = @ \ {k}]
    <3>1. m.todo = loc[th].todo \ {k} /\ m.op = "open"
      BY <1>1 DEF Locals, Opener
    <3>2. Reclaimed(th, m)
      BY <2>1, <2>4
    <3> HIDE DEF m
    <3>3. Referenced(k)
      BY <1>1, <1>2, <2>4 DEF Reclaimable, Quiet, Locals
    <3>4. \A j \in tracked' : Referenced(j)' \/ j \in m.todo
      BY <1>2, <1>4, <2>2, <3>1, <3>3
    <3> QED BY <2>2, <3>1, <3>2, <3>4, ReclaimedCleans DEF Evicts
  <2> QED BY <2>3, <2>4
<1>6. CASE RcUnlink(th)
  <2>1. /\ pc'[th] = "rc_commit" /\ loc'[th] = loc[th] /\ UNCHANGED tracked
        /\ files' = files \ {loc[th].cur} /\ pc[th] = "rc_unlink"
    BY <1>6 DEF RcUnlink, Continue, Goto, At, db, IInv, ControlOK
  <2>2. ~Referenced(loc[th].cur)
    BY <2>1 DEF IInv, Reclaiming, RcLabels
  <2>3. (\A t \in Targets : Backed(t)') /\ Quiet'
    BY <1>2, <1>3, <2>1, <2>2 DEF Backed, Quiet, Referenced
  <2> QED BY <1>2, <1>4, <2>1, <2>3 DEF Clean, ReclaimLabels
<1>7. CASE RcCommit(th)
  <2> DEFINE m == [loc[th] EXCEPT !.todo = @ \ {loc[th].cur}]
  <2>1. m.todo = loc[th].todo \ {loc[th].cur} /\ m.op = "open"
    BY <1>1 DEF Locals, Opener
  <2> HIDE DEF m
  <2>2. Reclaimed(th, m) /\ tracked' = tracked \ {loc[th].cur} /\ UNCHANGED files
    BY <1>7 DEF RcCommit, fs, m
  <2>3. (\A t \in Targets : Backed(t)') /\ Quiet'
    BY <1>2, <1>3, <2>2 DEF Backed, Quiet
  <2>4. \A k \in tracked' : Referenced(k)' \/ k \in m.todo
    BY <1>2, <1>4, <2>1, <2>2
  <2> QED BY <2>1, <2>2, <2>3, <2>4, ReclaimedCleans DEF Evicts
<1> QED BY <1>5, <1>6, <1>7

(* The steps of recover_internal.                                           *)
LEMMA RecoverCleans ==
  ASSUME IInv, Calls, NEW th \in Threads, Opener(th), Clean(th),
         RvSweep(th) \/ RvRows(th) \/ RvRow(th) \/ RvDelete(th) \/ RvReset(th) \/ RvOrphans(th)
  PROVE  Clean(th)'
<1>1. loc[th] \in Locals /\ UNCHANGED <<files, tracked>> /\ entries \in [Targets -> Keys \cup {None}]
  BY LocalsTyped DEF RvSweep, RvRows, RvRow, RvDelete, RvReset, RvOrphans, db, fs, IInv, DataOK, DbOK
<1>2. CASE RvSweep(th)
  <2>1. pc'[th] = "rv_rows"
    BY <1>2 DEF RvSweep, Continue, Goto, IInv, ControlOK
  <2> QED BY <2>1 DEF Clean, ReclaimLabels
<1>3. CASE RvRows(th)
  <2> DEFINE m == [loc[th] EXCEPT !.snap = entries]
  <2>1. m.snap = entries
    BY <1>1 DEF Locals
  <2>2. pc'[th] = "rv_row" /\ loc'[th] = m /\ UNCHANGED entries
    BY <1>3 DEF RvRows, Continue, Goto, IInv, ControlOK, db
  <2> HIDE DEF m
  <2> QED BY <2>1, <2>2 DEF Clean, ReclaimLabels
<1>4. CASE RvRow(th)
  <2> DEFINE l == loc[th]
  <2>1. pc[th] = "rv_row" /\ UNCHANGED <<entries, lease_count>> /\ \A t \in Targets : Backed(t)' <=> Backed(t)
    BY <1>1, <1>4 DEF RvRow, At, db, Backed
  <2>2. \A t \in Targets : Backed(t) \/ l.snap[t] = entries[t]
    BY <2>1 DEF Clean
  <2>3. CASE \A t \in Targets : l.snap[t] = None
    <3>1. pc'[th] = "rv_reset"
      BY <1>4, <2>3 DEF RvRow, Continue, Goto, IInv, ControlOK
    <3>2. \A t \in Targets : Backed(t)'
      BY <2>1, <2>2, <2>3 DEF Backed
    <3> QED BY <3>1, <3>2 DEF Clean, ReclaimLabels
  <2>4. CASE ~\A t \in Targets : l.snap[t] = None
    <3>1. PICK t \in Targets : Continue(th, IF l.snap[t] \in files THEN "rv_row" ELSE "rv_delete",
                                       [l EXCEPT !.snap[t] = None, !.tgt = t])
      BY <1>4, <2>4 DEF RvRow
    <3> DEFINE m == [l EXCEPT !.snap[t] = None, !.tgt = t]
    <3>2. m.tgt = t /\ \A u \in Targets \ {t} : m.snap[u] = l.snap[u]
      BY <1>1 DEF Locals
    <3>3. loc'[th] = m /\ pc'[th] = IF l.snap[t] \in files THEN "rv_row" ELSE "rv_delete"
      BY <3>1 DEF Continue, Goto, IInv, ControlOK
    <3> HIDE DEF m
    <3>4. CASE l.snap[t] \in files
      <4>1. Backed(t)
        BY <2>2, <3>4 DEF Backed
      <4> QED BY <2>1, <2>2, <3>2, <3>3, <3>4, <4>1 DEF Clean, ReclaimLabels
    <3>5. CASE l.snap[t] \notin files
      BY <2>1, <2>2, <3>2, <3>3, <3>5 DEF Clean, ReclaimLabels
    <3> QED BY <3>4, <3>5
  <2> QED BY <2>3, <2>4
<1>5. CASE RvDelete(th)
  <2>1. /\ pc[th] = "rv_delete" /\ pc'[th] = "rv_row" /\ loc'[th] = loc[th]
        /\ entries' = [entries EXCEPT ![loc[th].tgt] = None]
    BY <1>5 DEF RvDelete, At, Continue, Goto, IInv, ControlOK
  <2>2. \A t \in Targets : Backed(t) \/ loc[th].snap[t] = entries[t] \/ t = loc[th].tgt
    BY <2>1 DEF Clean
  <2>3. \A t \in Targets : Backed(t)' \/ loc[th].snap[t] = entries'[t]
    BY <1>1, <2>1, <2>2 DEF Backed
  <2> QED BY <2>1, <2>3 DEF Clean, ReclaimLabels
<1>6. CASE RvReset(th)
  <2>1. /\ pc[th] = "rv_reset" /\ pc'[th] = "rv_orphans" /\ UNCHANGED entries
        /\ lease_count' = [k \in Keys |-> 0]
    BY <1>6 DEF RvReset, At, Continue, Goto, IInv, ControlOK, Opener
  <2>2. (\A t \in Targets : Backed(t)') /\ Quiet'
    BY <1>1, <2>1 DEF Clean, Backed, Quiet
  <2> QED BY <2>1, <2>2 DEF Clean, ReclaimLabels
<1>7. CASE RvOrphans(th)
  <2> DEFINE m == [loc[th] EXCEPT !.todo = {k \in tracked : Reclaimable(k)}]
  <2>1. m.op = "open" /\ m.todo = {k \in tracked : Reclaimable(k)}
    BY <1>1 DEF Locals, Opener
  <2> HIDE DEF m
  <2>2. pc[th] = "rv_orphans" /\ Reclaimed(th, m) /\ UNCHANGED <<entries, lease_count>>
    BY <1>7 DEF RvOrphans, At, m, db
  <2>3. (\A t \in Targets : Backed(t)) /\ Quiet
    BY <2>2 DEF Clean
  <2>4. (\A t \in Targets : Backed(t)') /\ Quiet'
    BY <1>1, <2>2, <2>3 DEF Backed, Quiet
  <2>5. \A k \in tracked : Referenced(k) \/ k \in m.todo
    BY <2>1, <2>3 DEF Quiet, Reclaimable, IInv, DataOK, DbOK
  <2>6. \A k \in tracked' : Referenced(k)' \/ k \in m.todo
    BY <1>1, <2>2, <2>5 DEF Referenced
  <2> QED BY <2>1, <2>2, <2>4, <2>6, ReclaimedCleans DEF Evicts
<1> QED BY <1>2, <1>3, <1>4, <1>5, <1>6, <1>7

(* While a first open recovers, no other thread of the process takes a step.*)
LEMMA OpenerAlone ==
  ASSUME IInv, Calls, SingleProcess, NEW th \in Threads, NEW u \in Threads \ {th}, Opener(u), Sole(u),
         NEW q, NEW m, Effect(th, q, m)
  PROVE  FALSE
<1>1. /\ loc[th].op = "none" /\ held[th] = None /\ pc[th] = "idle" /\ up[Inst(u)] = "opening"
      /\ Inst(u) = Inst(th)
  BY DEF Sole, Calls, OpsInv, UpInv, Opener, SingleProcess, Inst
<1>2. Begins(th, q, m)
  BY <1>1 DEF Effect, Flow
<1> QED BY <1>1, <1>2 DEF Begins, Called

(* A first open that resets the lease counts is alone.                      *)
LEMMA SoleEffect ==
  ASSUME IInv, Calls, SingleProcess, RecoverInv, NEW th \in Threads, NEW q, NEW m, Effect(th, q, m),
         m.op = "open", m.reset
  PROVE  /\ Sole(th)'
         /\ (pc[th] = "idle" /\ q = "rv_sweep") \/ (Opener(th) /\ Edge(pc[th], q))
<1>1. Flow(th, q, m) /\ LeasesStep(th) /\ Edge(pc[th], q)
  BY DEF Effect, Data
<1>2. loc'[th] = m /\ \A u \in Threads \ {th} : loc'[u] = loc[u]
  BY Frame
<1>3. m # NoLocals
  BY DEF NoLocals
<1>4. CASE pc[th] # "idle" /\ Stays(th, q, m)
  <2>1. Opener(th)
    BY <1>4 DEF Stays, Opener
  <2>2. Sole(th)
    BY <2>1 DEF RecoverInv, Recovering, Opener
  <2>3. pc[th] # "ls_inc"
    BY <2>1 DEF Calls, OpsInv, Opener, LeaseLabels
  <2>4. Sole(th)'
    BY <1>1, <1>2, <2>2, <2>3 DEF Sole, LeasesStep
  <2> QED BY <1>1, <2>1, <2>4
<1>5. CASE pc[th] = "idle" /\ Begins(th, q, m)
  <2>1. q = "rv_sweep" /\ up[Inst(th)] = "down" /\ ~Sentinel(Inst(th))
    BY <1>5 DEF Begins, Puts, Called
  <2>2. \A u \in Threads : held[u] = None /\ loc[u].op # "drop"
    BY <2>1 DEF Sentinel, SingleProcess, Inst
  <2>3. \A u \in Threads : loc[u].op = "none"
    BY <2>1, <2>2 DEF Calls, UpInv, SingleProcess, Inst
  <2>4. Sole(th)'
    BY <1>1, <1>2, <1>5, <2>2, <2>3 DEF Sole, LeasesStep
  <2> QED BY <1>5, <2>1, <2>4
<1> QED BY <1>1, <1>3, <1>4, <1>5 DEF Flow

(* A step of a thread preserves RecoverInv.                                 *)
LEMMA RecoverThread ==
  ASSUME IInv, Calls, SingleProcess, ~IoFaults, RecoverInv, NEW th \in Threads, Step(th) \/ Fault(th) \/ Start(th)
  PROVE  RecoverInv'
<1>1. PICK q, m : Effect(th, q, m)
  BY ThreadEffect DEF Effects
<1>2. SUFFICES ASSUME NEW u \in Threads, Opener(u)' PROVE Sole(u)' /\ Clean(u)'
  BY RecoveringSplit DEF RecoverInv
<1>3. CASE u # th
  <2>1. Opener(u)
    BY <1>1, <1>2, <1>3, Frame DEF Opener
  <2>2. Sole(u)
    BY <2>1, RecoveringSplit DEF RecoverInv
  <2> QED BY <1>1, <1>3, <2>1, <2>2, OpenerAlone
<1>4. CASE u = th
  <2>1. m.op = "open" /\ m.reset /\ pc'[th] = q
    BY <1>1, <1>2, <1>4, Frame DEF Opener
  <2>2. /\ Sole(th)'
        /\ (pc[th] = "idle" /\ q = "rv_sweep") \/ (Opener(th) /\ Edge(pc[th], q))
    BY <1>1, <2>1, SoleEffect
  <2>3. CASE q \notin {"rv_row", "rv_delete", "rv_reset", "rv_orphans", "ev_start"} \cup ReclaimLabels
    BY <1>4, <2>1, <2>2, <2>3 DEF Clean, ReclaimLabels
  <2>4. CASE q \in {"rv_row", "rv_delete", "rv_reset", "rv_orphans", "ev_start"} \cup ReclaimLabels
    <3>1. Opener(th) /\ Edge(pc[th], q)
      BY <2>2, <2>4 DEF ReclaimLabels
    <3>2. Clean(th)
      BY <3>1, RecoveringSplit DEF RecoverInv
    <3>3. pc[th] \in RecoverLabels \cup ReclaimLabels
      <4>1. pc[th] \in RecoverLabels \cup ReclaimLabels \cup EvictLabels \cup {"ev_start"}
        BY <3>1 DEF Calls, OpsInv, Opener
      <4> QED BY <2>4, <3>1, <4>1 DEF Edge, ReclaimLabels, EvictLabels
    <3>4. ~RcUnlinkFails(th)
      BY DEF RcUnlinkFails
    <3> QED BY <1>4, <2>2, <3>1, <3>2, <3>3, <3>4, OtherLabels, ReclaimCleans, RecoverCleans
  <2> QED BY <2>3, <2>4
<1> QED BY <1>3, <1>4

(* Every step without faults preserves RecoverInv.                          *)
LEMMA RecoverNext ==
  ASSUME IInv, Calls, SingleProcess, ~IoFaults, RecoverInv, [Next]_vars
  PROVE  RecoverInv'
<1>1. ASSUME NEW th \in Threads, Step(th) \/ Fault(th) \/ Start(th)
      PROVE  RecoverInv'
  BY <1>1, RecoverThread
<1>2. CASE UNCHANGED <<db, files, held, pc, loc>>
  <2>1. UNCHANGED <<entries, tracked, lease_count, files, held, pc, loc>>
    BY <1>2 DEF db
  <2> QED BY <2>1 DEF RecoverInv, Recovering, Sole, Backed, Quiet, Referenced
<1>3. ASSUME NEW i \in Instances, Crash(i)
      PROVE  RecoverInv'
  <2>1. CASE \A th \in Threads : Inst(th) = i
    <3>1. \A th \in Threads : loc'[th].op = "none"
      BY <1>3, <2>1 DEF Crash, NoLocals
    <3> QED BY <3>1 DEF RecoverInv, Recovering
  <2>2. CASE \A th \in Threads : Inst(th) # i
    <3>1. \A th \in Threads : pc'[th] = pc[th] /\ loc'[th] = loc[th] /\ held'[th] = held[th]
      BY <1>3, <2>2 DEF Crash
    <3>2. UNCHANGED <<entries, tracked, lease_count, files>>
      BY <1>3 DEF Crash, db, fs
    <3> QED BY <3>1, <3>2 DEF RecoverInv, Recovering, Sole, Backed, Quiet, Referenced
  <2> QED BY <2>1, <2>2 DEF SingleProcess, Inst
<1>4. ((\E i \in Instances : Close(i)) \/ (\E k \in Keys : Damage(k)) \/ UNCHANGED vars) => UNCHANGED <<db, files, held, pc, loc>>
  BY DEF Close, Damage, vars, fs, lease
<1> QED BY <1>1, <1>2, <1>3, <1>4 DEF Next
-----------------------------------------------------------------------------
(* The bytes that the rows account for, when a row is deleted.              *)

Space(e) == UNION {{t} \X (1 .. Size[e[t]]) : t \in {u \in Targets : e[u] # None}}

(* The bytes of the rows are finitely many.                                 *)
LEMMA SpaceFinite ==
  ASSUME NEW e \in [Targets -> Keys \cup {None}]
  PROVE  IsFiniteSet(Space(e)) /\ Cardinality(Space(e)) \in Nat
<1> DEFINE rows == {u \in Targets : e[u] # None}
<1> DEFINE bytes(t) == {t} \X (1 .. Size[e[t]])
<1> DEFINE all == {bytes(t) : t \in rows}
<1>1. IsFiniteSet(rows)
  BY FS_Subset
<1>2. IsFiniteSet(all)
  <2> DEFINE f == [t \in rows |-> bytes(t)]
  <2>1. f \in Surjection(rows, all)
    BY DEF Surjection
  <2> QED BY <1>1, <2>1, FS_Surjection DEF ExistsSurjection
<1>3. \A S \in all : IsFiniteSet(S)
  <2> SUFFICES ASSUME NEW t \in rows PROVE IsFiniteSet(bytes(t))
    OBVIOUS
  <2>1. Size[e[t]] \in Nat
    OBVIOUS
  <2>2. IsFiniteSet(1 .. Size[e[t]])
    BY <2>1, FS_Interval
  <2>3. IsFiniteSet({t})
    BY FS_Singleton
  <2> QED BY <2>2, <2>3, FS_Product
<1>4. IsFiniteSet(UNION all)
  BY <1>2, <1>3, FS_UNION
<1> QED BY <1>4, FS_CardinalityType DEF Space

(* Membership in Space, expanded.                                           *)
LEMMA SpaceMember ==
  ASSUME NEW e, NEW x
  PROVE  x \in Space(e) <=> \E u \in Targets : e[u] # None /\ x \in {u} \X (1 .. Size[e[u]])
  BY DEF Space

(* The cardinality of an interval from 1.                                   *)
LEMMA Interval ==
  ASSUME NEW n \in Nat
  PROVE  IsFiniteSet(1 .. n) /\ Cardinality(1 .. n) = n
<1>1. IsFiniteSet(1 .. n) /\ Cardinality(1 .. n) = IF 1 > n THEN 0 ELSE n - 1 + 1
  BY FS_Interval
<1>2. (IF 1 > n THEN 0 ELSE n - 1 + 1) = n
  OBVIOUS
<1> QED BY <1>1, <1>2

(* Without a row the rows take its size less.                               *)
LEMMA RowDropped ==
  ASSUME NEW e \in [Targets -> Keys \cup {None}], NEW d \in [Targets -> Keys \cup {None}], NEW t \in Targets,
         d[t] = None, \A u \in Targets \ {t} : d[u] = e[u]
  PROVE  /\ Cardinality(Space(d)) <= Cardinality(Space(e))
         /\ e[t] # None => Cardinality(Space(e)) = Cardinality(Space(d)) + Size[e[t]]
<1>1. d[t] = None /\ \A u \in Targets \ {t} : d[u] = e[u]
  OBVIOUS
<1>2. IsFiniteSet(Space(d)) /\ IsFiniteSet(Space(e))
  BY SpaceFinite
<1>3. Space(d) \subseteq Space(e)
  <2> SUFFICES ASSUME NEW x \in Space(d) PROVE x \in Space(e)
    OBVIOUS
  <2>1. PICK u \in Targets : d[u] # None /\ x \in {u} \X (1 .. Size[d[u]])
    BY SpaceMember
  <2>2. e[u] = d[u]
    BY <1>1, <2>1
  <2> QED BY <2>1, <2>2, SpaceMember
<1>4. Cardinality(Space(d)) <= Cardinality(Space(e))
  BY <1>2, <1>3, FS_Subset
<1>5. ASSUME e[t] # None
      PROVE  Cardinality(Space(e)) = Cardinality(Space(d)) + Size[e[t]]
  <2> DEFINE n == Size[e[t]]
  <2> DEFINE S == {t} \X (1 .. n)
  <2>1. n \in Nat
    BY <1>5
  <2>2. IsFiniteSet(S) /\ Cardinality(S) = n
    <3>1. IsFiniteSet(1 .. n) /\ Cardinality(1 .. n) = n
      BY <2>1, Interval
    <3>2. IsFiniteSet({t}) /\ Cardinality({t}) = 1
      BY FS_Singleton
    <3>3. IsFiniteSet(S) /\ Cardinality(S) = Cardinality({t}) * Cardinality(1 .. n)
      BY <3>1, <3>2, FS_Product
    <3> QED BY <2>1, <3>1, <3>2, <3>3
  <2>3. Space(e) = Space(d) \cup S
    <3>1. ASSUME NEW x \in Space(e) PROVE x \in Space(d) \cup S
      <4>1. PICK u \in Targets : e[u] # None /\ x \in {u} \X (1 .. Size[e[u]])
        BY <3>1, SpaceMember
      <4>2. CASE u = t
        BY <4>1, <4>2
      <4>3. CASE u # t
        <5>1. d[u] = e[u]
          BY <1>1, <4>3
        <5>2. x \in Space(d)
          BY <4>1, <5>1, SpaceMember
        <5> QED BY <5>2
      <4> QED BY <4>2, <4>3
    <3>2. S \subseteq Space(e)
      BY <1>5, SpaceMember
    <3> QED BY <1>3, <3>1, <3>2
  <2>4. Space(d) \cap S = {}
    <3> SUFFICES ASSUME NEW x \in Space(d), x \in S PROVE FALSE
      OBVIOUS
    <3>1. PICK u \in Targets : d[u] # None /\ x \in {u} \X (1 .. Size[d[u]])
      BY SpaceMember
    <3>2. x[1] = u /\ x[1] = t
      BY <3>1
    <3> QED BY <1>1, <3>1, <3>2
  <2>5. Cardinality(Space(d) \cup S) = Cardinality(Space(d)) + Cardinality(S) - Cardinality(Space(d) \cap S)
    BY <1>2, <2>2, FS_Union
  <2> HIDE DEF S, n
  <2>6. Cardinality(Space(d)) \in Nat
    BY <1>2, FS_CardinalityType
  <2>7. Cardinality(Space(d) \cap S) = 0
    BY <2>4, FS_EmptySet
  <2>8. Cardinality(Space(e)) = Cardinality(Space(d) \cup S)
    BY <2>3
  <2>9. Cardinality(Space(e)) = Cardinality(Space(d)) + n
    BY <2>1, <2>2, <2>5, <2>6, <2>7, <2>8
  <2> QED BY <2>9 DEF n
<1> QED BY <1>4, <1>5

(* No rows, no bytes.                                                       *)
LEMMA NoRows ==
  ASSUME NEW e, \A t \in Targets : e[t] = None
  PROVE  Cardinality(Space(e)) = 0
<1>1. Space(e) = {}
  BY SpaceMember
<1> QED BY <1>1, FS_EmptySet
-----------------------------------------------------------------------------
(* BudgetInv is preserved.                                                  *)

(* The actions at the labels of a pending eviction.                         *)
PendingLabels == {"put_link", "ev_start", "ev_pick", "ev_delete", "ev_ref"} \cup ReclaimLabels

(* The actions a thread at such a label can take.                           *)
LEMMA PendingActions ==
  ASSUME NEW th \in Threads, Step(th) \/ Fault(th) \/ Start(th)
  PROVE  \/ PutLink(th) \/ PutLinkFails(th) \/ RcCheck(th) \/ RcUnlink(th) \/ RcCommit(th) \/ RcUnlinkFails(th)
         \/ EvStart(th) \/ EvPick(th) \/ EvDelete(th) \/ EvRef(th)
         \/ pc[th] \notin PendingLabels
<1>1. ASSUME \/ PutTx(th) \/ EvUnlink(th) \/ EvUnlinkFails(th) \/ EvUntrack(th)
             \/ RvSweep(th) \/ RvRows(th) \/ RvRow(th) \/ RvDelete(th) \/ RvReset(th) \/ RvOrphans(th)
      PROVE  pc[th] \notin PendingLabels
  <2>1. pc[th] \in {"put_tx", "ev_unlink", "ev_untrack", "rv_sweep", "rv_rows", "rv_row", "rv_delete",
                    "rv_reset", "rv_orphans"}
    BY <1>1 DEF PutTx, EvUnlink, EvUnlinkFails, EvUntrack, RvSweep, RvRows, RvRow, RvDelete, RvReset, RvOrphans, At
  <2> QED BY <2>1 DEF PendingLabels, ReclaimLabels
<1>2. ASSUME \/ LsRow(th) \/ LsPath(th) \/ LsInc(th) \/ LdDec(th) \/ LdRef(th) \/ LdPin(th) \/ LdUnlink(th)
             \/ LdUnlinkFails(th) \/ LdDelete(th)
      PROVE  pc[th] \notin PendingLabels
  <2>1. pc[th] \in {"ls_row", "ls_path", "ls_inc", "ld_dec", "ld_ref", "ld_pin", "ld_unlink", "ld_delete"}
    BY <1>2 DEF LsRow, LsPath, LsInc, LdDec, LdRef, LdPin, LdUnlink, LdUnlinkFails, LdDelete, At
  <2> QED BY <2>1 DEF PendingLabels, ReclaimLabels
<1>3. ASSUME \/ RdRow(th) \/ RdFile(th) \/ RdOrphan(th) \/ QrRow(th) \/ QrPin(th) \/ QrUnlink(th)
             \/ QrUnlinkFails(th) \/ QrDelete(th) \/ RmDelete(th)
      PROVE  pc[th] \notin PendingLabels
  <2>1. pc[th] \in {"rd_row", "rd_file", "rd_orphan", "qr_row", "qr_pin", "qr_unlink", "qr_delete", "rm_delete"}
    BY <1>3 DEF RdRow, RdFile, RdOrphan, QrRow, QrPin, QrUnlink, QrUnlinkFails, QrDelete, RmDelete, At
  <2> QED BY <2>1 DEF PendingLabels, ReclaimLabels
<1>4. ASSUME Start(th)
      PROVE  pc[th] \notin PendingLabels
  <2>1. pc[th] = "idle"
    BY <1>4 DEF Start, Put, PutAndLease, CompareAndPut, CompareAndRemove, Get, Lookup, RemoveIndexReturning,
       RemovePrefix, DropLease, Gc, Open, Recover, Call, At
  <2> QED BY <2>1 DEF PendingLabels, ReclaimLabels
<1> QED BY <1>1, <1>2, <1>3, <1>4 DEF Step, Fault

(* The rows of a step: the same, one row more of a publisher, or one less.  *)
LEMMA RowsBytes ==
  ASSUME IInv, IInv', NEW th \in Threads, NEW q, NEW m, Effect(th, q, m)
  PROVE  /\ RowBytes \in Nat /\ RowBytes' \in Nat
         /\ (pc[th] = "put_tx" /\ q = "put_link") \/ RowBytes' <= RowBytes
<1>1. RowBytes = Cardinality(Space(entries)) /\ RowBytes' = Cardinality(Space(entries'))
  BY DEF RowBytes, Space
<1>2. entries \in [Targets -> Keys \cup {None}] /\ entries' \in [Targets -> Keys \cup {None}]
  BY DEF IInv, DataOK, DbOK
<1>3. RowBytes \in Nat /\ RowBytes' \in Nat
  BY <1>1, <1>2, SpaceFinite
<1>4. CASE UNCHANGED entries
  BY <1>1, <1>3, <1>4
<1>5. ASSUME NEW t, entries' = [entries EXCEPT ![t] = None]
      PROVE  RowBytes' <= RowBytes
  <2>1. CASE t \in Targets
    <3>1. entries'[t] = None /\ \A u \in Targets \ {t} : entries'[u] = entries[u]
      BY <1>2, <1>5, <2>1
    <3> QED BY <1>1, <1>2, <2>1, <3>1, RowDropped
  <2>2. CASE t \notin Targets
    <3>1. UNCHANGED entries
      BY <1>2, <1>5, <2>2
    <3> QED BY <1>4, <3>1, <1>1, <1>3
  <2> QED BY <2>1, <2>2
<1> QED BY <1>1, <1>3, <1>4, <1>5 DEF Effect, Data, RowsStep

(* The eviction counts what it deletes.                                     *)
LEMMA EvictCounts ==
  ASSUME IInv, IInv', NEW th \in Threads, Quiet, Counting(th),
         EvStart(th) \/ EvPick(th) \/ EvDelete(th) \/ EvRef(th)
  PROVE  Counting(th)'
<1> DEFINE l == loc[th]
<1>1. l \in Locals /\ Sound(pc[th], l) /\ entries \in [Targets -> Keys \cup {None}] /\ RowBytes \in Nat
  BY LocalsTyped, RowBytesType DEF IInv, DataOK, DbOK
<1>2. \A q, m : Continue(th, q, m) => pc'[th] = q /\ loc'[th] = m
  BY DEF Continue, Goto, IInv, ControlOK
<1>3. UNCHANGED entries => RowBytes' = RowBytes
  BY DEF RowBytes
<1>4. ASSUME pc'[th] \notin {"ev_pick", "ev_delete", "ev_ref"} PROVE Counting(th)'
  BY <1>4 DEF Counting
<1>5. ASSUME NEW m, AfterEvict(th, m) PROVE pc'[th] \notin {"ev_pick", "ev_delete", "ev_ref"}
  BY <1>5 DEF AfterEvict, Return, Goto, IInv, ControlOK
<1>6. CASE EvStart(th)
  <2>1. UNCHANGED entries
    BY <1>6 DEF EvStart, db
  <2> DEFINE m == [l EXCEPT !.snap = entries, !.total = RowBytes]
  <2>2. m.snap = entries /\ m.total = RowBytes
    BY <1>1 DEF Locals
  <2>3. AfterEvict(th, l) \/ Continue(th, "ev_pick", m)
    BY <1>6 DEF EvStart
  <2> HIDE DEF m
  <2>4. CASE Continue(th, "ev_pick", m)
    <3>1. pc'[th] = "ev_pick" /\ loc'[th] = m
      BY <1>2, <2>4
    <3> QED BY <1>3, <2>1, <2>2, <3>1 DEF Counting
  <2> QED BY <1>4, <1>5, <2>3, <2>4
<1>7. CASE EvPick(th)
  <2>1. UNCHANGED entries /\ pc[th] = "ev_pick"
    BY <1>7 DEF EvPick, db, At
  <2>2. l.total = RowBytes /\ \A t \in Targets : l.snap[t] = entries[t]
    BY <2>1 DEF Counting
  <2> DEFINE n(t) == [l EXCEPT !.snap[t] = None, !.tgt = t, !.cur = l.snap[t]]
  <2> DEFINE Picks(t) == l.snap[t] # None /\ Continue(th, IF lease_count[l.snap[t]] > 0 THEN "ev_pick" ELSE "ev_delete", n(t))
  <2>3. (\E t \in Targets : Picks(t)) \/ AfterEvict(th, l) \/ Continue(th, "ev_unlink", l)
    BY <1>7 DEF EvPick
  <2>4. ASSUME NEW t \in Targets, Picks(t) PROVE Counting(th)'
    <3> DEFINE m == n(t)
    <3>1. /\ m.tgt = t /\ m.cur = l.snap[t] /\ m.snap[t] = None /\ m.total = l.total
          /\ \A u \in Targets \ {t} : m.snap[u] = l.snap[u]
      BY <1>1 DEF Locals
    <3>2. l.snap[t] \in Keys
      BY <1>1, <2>4 DEF Locals
    <3>3. lease_count[l.snap[t]] = 0
      BY <3>2 DEF Quiet
    <3>4. Continue(th, "ev_delete", m)
      BY <2>4, <3>3
    <3> HIDE DEF m
    <3>5. pc'[th] = "ev_delete" /\ loc'[th] = m
      BY <1>2, <3>4
    <3> QED BY <1>3, <2>1, <2>2, <3>1, <3>5 DEF Counting
  <2>5. CASE Continue(th, "ev_unlink", l)
    BY <1>2, <1>4, <2>5
  <2> HIDE DEF Picks
  <2> QED BY <1>4, <1>5, <2>3, <2>4, <2>5
<1>8. CASE EvDelete(th)
  <2>1. pc[th] = "ev_delete" /\ entries' = [entries EXCEPT ![l.tgt] = None]
    BY <1>8 DEF EvDelete, At
  <2>2. /\ l.total = RowBytes /\ l.tgt \in Targets /\ entries[l.tgt] = l.cur /\ l.snap[l.tgt] = None
        /\ \A t \in Targets \ {l.tgt} : l.snap[t] = entries[t]
    BY <2>1 DEF Counting
  <2>3. l.cur \in Keys /\ Size[l.cur] \in Nat /\ l.cur # None
    BY <1>1, <2>1 DEF Sound
  <2>4. RowBytes = RowBytes' + Size[l.cur] /\ RowBytes' \in Nat
    <3>1. RowBytes = Cardinality(Space(entries)) /\ RowBytes' = Cardinality(Space(entries'))
      BY DEF RowBytes, Space
    <3>2. entries' \in [Targets -> Keys \cup {None}]
      BY DEF IInv, DataOK, DbOK
    <3>3. entries'[l.tgt] = None /\ \A u \in Targets \ {l.tgt} : entries'[u] = entries[u]
      BY <1>1, <2>1, <2>2
    <3>4. entries[l.tgt] # None /\ Size[entries[l.tgt]] = Size[l.cur]
      BY <2>2, <2>3
    <3>5. Cardinality(Space(entries)) = Cardinality(Space(entries')) + Size[entries[l.tgt]]
      BY <1>1, <2>2, <3>2, <3>3, <3>4, RowDropped
    <3>6. Cardinality(Space(entries')) \in Nat
      BY <3>2, SpaceFinite
    <3> QED BY <3>1, <3>4, <3>5, <3>6
  <2> DEFINE m == [l EXCEPT !.total = IF @ < Size[l.cur] THEN 0 ELSE @ - Size[l.cur]]
  <2>5. m.snap = l.snap /\ m.total = IF l.total < Size[l.cur] THEN 0 ELSE l.total - Size[l.cur]
    BY <1>1 DEF Locals
  <2>6. Continue(th, "ev_ref", m)
    BY <1>8 DEF EvDelete
  <2> HIDE DEF m
  <2>7. pc'[th] = "ev_ref" /\ loc'[th] = m
    BY <1>2, <2>6
  <2>8. m.total = RowBytes'
    BY <1>1, <2>2, <2>3, <2>4, <2>5
  <2>9. \A t \in Targets : m.snap[t] = entries'[t]
    BY <1>1, <2>1, <2>2, <2>5
  <2> QED BY <2>7, <2>8, <2>9 DEF Counting
<1>9. CASE EvRef(th)
  <2> DEFINE m == [l EXCEPT !.todo = IF Referenced(l.cur) THEN @ ELSE @ \cup {l.cur}]
  <2>1. m.snap = l.snap /\ m.total = l.total
    BY <1>1 DEF Locals
  <2> HIDE DEF m
  <2>2. UNCHANGED entries /\ pc[th] = "ev_ref" /\ Continue(th, "ev_pick", m)
    BY <1>9 DEF EvRef, db, At, m
  <2>3. pc'[th] = "ev_pick" /\ loc'[th] = m
    BY <1>2, <2>2
  <2> QED BY <1>3, <2>1, <2>2, <2>3 DEF Counting
<1> QED BY <1>6, <1>7, <1>8, <1>9

(* A thread with an eviction to do keeps it, unless the rows fit the budget.*)
LEMMA PendingStays ==
  ASSUME IInv, ~IoFaults, MaxBytes # None, NEW th \in Threads, Pending(th), Counting(th),
         Step(th) \/ Fault(th) \/ Start(th), NEW q, NEW m, Effect(th, q, m), ~(RowBytes <= MaxBytes)
  PROVE  Pending(th)'
<1>1. pc'[th] = q /\ loc'[th] = m /\ Edge(pc[th], q) /\ Flow(th, q, m)
  BY Frame DEF Effect
<1>2. pc[th] \in PendingLabels /\ Writable(th) /\ pc[th] # "idle"
  BY DEF Pending, PendingLabels, ReclaimLabels
<1>3. SUFFICES \/ q \in {"ev_start", "ev_pick", "ev_delete", "ev_ref"}
               \/ q \in ReclaimLabels /\ Evicts(m.op)
  BY <1>1, <1>2 DEF Pending, Writable, Inst
<1>4. CASE PutLink(th) \/ RcCheck(th) \/ RcUnlink(th) \/ RcCommit(th)
  <2>1. loc[th] \in Locals /\ pc[th] \in {"put_link"} \cup ReclaimLabels
    BY <1>4, LocalsTyped DEF PutLink, RcCheck, RcUnlink, RcCommit, At, ReclaimLabels
  <2>2. Evicts(loc[th].op)
    BY <2>1 DEF Pending, ReclaimLabels
  <2>3. ASSUME NEW n, Reclaimed(th, n), n.op = loc[th].op PROVE q \in {"rc_check", "ev_start"}
    BY <1>1, <2>2, <2>3 DEF Reclaimed, Continue, Goto, IInv, ControlOK
  <2>4. q \in {"rc_check", "rc_unlink", "rc_commit", "ev_start"}
    <3>1. CASE PutLink(th)
      BY <2>3, <3>1 DEF PutLink
    <3>2. CASE RcUnlink(th)
      BY <1>1, <3>2 DEF RcUnlink, Continue, Goto, IInv, ControlOK
    <3>3. ASSUME NEW k, Reclaimed(th, [loc[th] EXCEPT !.todo = @ \ {k}]) PROVE q \in {"rc_check", "ev_start"}
      <4> DEFINE n == [loc[th] EXCEPT !.todo = @ \ {k}]
      <4>1. n.op = loc[th].op
        BY <2>1 DEF Locals
      <4> HIDE DEF n
      <4>2. Reclaimed(th, n)
        BY <3>3 DEF n
      <4> QED BY <2>3, <4>1, <4>2
    <3>4. CASE RcCommit(th)
      BY <3>3, <3>4 DEF RcCommit
    <3>5. CASE RcCheck(th)
      <4>1. PICK k \in loc[th].todo : \/ Continue(th, "rc_unlink", [loc[th] EXCEPT !.cur = k])
                                      \/ Reclaimed(th, [loc[th] EXCEPT !.todo = @ \ {k}])
        BY <3>5 DEF RcCheck
      <4>2. CASE Continue(th, "rc_unlink", [loc[th] EXCEPT !.cur = k])
        BY <1>1, <4>2 DEF Continue, Goto, IInv, ControlOK
      <4> QED BY <3>3, <4>1, <4>2
    <3> QED BY <1>4, <3>1, <3>2, <3>4, <3>5
  <2>5. m.op = loc[th].op
    BY <1>1, <1>2, <2>4 DEF Flow, Stays
  <2> QED BY <2>2, <2>4, <2>5 DEF ReclaimLabels
<1>5. CASE EvStart(th)
  <2>1. ~(RowBytes <= MaxBytes) /\ Writable(th)
    BY <1>2
  <2>2. pc'[th] = "ev_pick"
    BY <1>5, <2>1 DEF EvStart, Continue, Goto, IInv, ControlOK
  <2> QED BY <1>1, <2>2
<1>6. CASE EvPick(th)
  <2>1. pc[th] = "ev_pick"
    BY <1>6 DEF EvPick, At
  <2>2. loc[th].total = RowBytes /\ \A t \in Targets : loc[th].snap[t] = entries[t]
    BY <2>1 DEF Counting
  <2>3. RowBytes \in Nat /\ MaxBytes \in Nat
    BY RowBytesType
  <2>4. loc[th].total > MaxBytes
    BY <2>2, <2>3
  <2>5. {t \in Targets : loc[th].snap[t] # None} # {}
    <3> SUFFICES ASSUME \A t \in Targets : loc[th].snap[t] = None PROVE FALSE
      OBVIOUS
    <3>1. RowBytes = Cardinality(Space(entries))
      BY DEF RowBytes, Space
    <3>2. RowBytes = 0
      BY <2>2, <3>1, NoRows
    <3> QED BY <2>3, <3>2
  <2>6. pc'[th] \in {"ev_pick", "ev_delete"}
    BY <1>6, <2>4, <2>5 DEF EvPick, Continue, Goto, IInv, ControlOK
  <2> QED BY <1>1, <2>6
<1>7. CASE EvDelete(th) \/ EvRef(th)
  <2>1. pc[th] \in {"ev_delete", "ev_ref"}
    BY <1>7 DEF EvDelete, EvRef, At
  <2> QED BY <1>1, <2>1 DEF Edge
<1>8. ~PutLinkFails(th) /\ ~RcUnlinkFails(th)
  BY DEF PutLinkFails, RcUnlinkFails
<1> QED BY <1>2, <1>4, <1>5, <1>6, <1>7, <1>8, PendingActions

(* A step of a thread preserves BudgetInv.                                  *)
LEMMA BudgetThread ==
  ASSUME IInv, IInv', Calls, Calls', Faultless, BudgetInv, NEW th \in Threads, Step(th) \/ Fault(th) \/ Start(th)
  PROVE  BudgetInv'
<1>1. PICK q, m : Effect(th, q, m)
  BY ThreadEffect DEF Effects
<1>2. /\ pc'[th] = q /\ loc'[th] = m
      /\ \A u \in Threads \ {th} : pc'[u] = pc[u] /\ loc'[u] = loc[u]
  BY <1>1, Frame
<1>3. Edge(pc[th], q) /\ RowsStep(th, q) /\ LeasesStep(th)
  BY <1>1 DEF Effect, Data
<1>4. Quiet /\ Quiet'
  <2>1. pc[th] # "ls_inc"
    <3>1. pc[th] = "ls_inc" => loc[th].op \in {"putlease", "lookup"} /\ loc[th].op \in Ops
      BY DEF Calls, OpsInv, LeaseLabels
    <3> QED BY <3>1 DEF Faultless, NoLeases
  <2> QED BY <1>3, <2>1 DEF BudgetInv, Quiet, LeasesStep
<1>5. RowBytes \in Nat /\ RowBytes' \in Nat /\ ((pc[th] = "put_tx" /\ q = "put_link") \/ RowBytes' <= RowBytes)
  BY <1>1, RowsBytes
<1>6. MaxBytes # None => RowBytes' <= MaxBytes \/ \E u \in Threads : Pending(u)'
  <2> SUFFICES ASSUME MaxBytes # None PROVE RowBytes' <= MaxBytes \/ \E u \in Threads : Pending(u)'
    OBVIOUS
  <2>0. MaxBytes \in Nat
    OBVIOUS
  <2>1. CASE q = "put_link"
    <3>1. m.op \in Puts /\ Writable(th)
      BY <1>2, <2>1 DEF Calls, OpsInv, PutLabels, Writable, Inst
    <3>2. Pending(th)'
      BY <1>2, <2>1, <3>1 DEF Pending, Evicts, Puts, Writable, Inst
    <3> QED BY <3>2
  <2>2. CASE q # "put_link" /\ RowBytes <= MaxBytes
    BY <1>5, <2>0, <2>2
  <2>3. CASE q # "put_link" /\ ~(RowBytes <= MaxBytes)
    <3>1. PICK u \in Threads : Pending(u)
      BY <2>3 DEF BudgetInv
    <3>2. CASE u # th
      <4>1. pc'[u] = pc[u] /\ loc'[u] = loc[u]
        BY <1>2, <3>2
      <4>2. Pending(u)'
        BY <3>1, <4>1 DEF Pending, Writable, Inst
      <4> QED BY <4>2
    <3>3. CASE u = th
      <4>1. Counting(th) /\ ~IoFaults
        BY DEF BudgetInv, Faultless
      <4> QED BY <1>1, <2>3, <3>1, <3>3, <4>1, PendingStays
    <3> QED BY <3>2, <3>3
  <2> QED BY <2>1, <2>2, <2>3
<1>7. ASSUME NEW u \in Threads PROVE Counting(u)'
  <2>1. CASE u # th
    <3>1. pc'[u] = pc[u] /\ loc'[u] = loc[u] /\ Counting(u)
      BY <1>2, <2>1 DEF BudgetInv
    <3>2. CASE pc[u] \in {"ev_pick", "ev_delete", "ev_ref"}
      <4>1. pc[u] \in MutexLabels
        BY <3>2 DEF MutexLabels
      <4>2. pc[th] \notin MutexLabels /\ mutex[Inst(th)] # None
        BY <2>1, <4>1, Exclusive DEF Faultless
      <4>3. UNCHANGED entries
        BY <1>3, <4>2 DEF RowsStep
      <4> QED BY <3>1, <4>3 DEF Counting, RowBytes
    <3>3. CASE pc[u] \notin {"ev_pick", "ev_delete", "ev_ref"}
      BY <3>1, <3>3 DEF Counting
    <3> QED BY <3>2, <3>3
  <2>2. CASE u = th
    <3>1. CASE q \notin {"ev_pick", "ev_delete", "ev_ref"}
      BY <1>2, <2>2, <3>1 DEF Counting
    <3>2. CASE q \in {"ev_pick", "ev_delete", "ev_ref"}
      <4>1. pc[th] \in {"ev_start", "ev_pick", "ev_delete", "ev_ref"}
        BY <1>3, <3>2 DEF Edge
      <4>2. EvStart(th) \/ EvPick(th) \/ EvDelete(th) \/ EvRef(th)
        <5>1. pc[th] \in PendingLabels /\ pc[th] \notin {"put_link"} \cup ReclaimLabels
          BY <4>1 DEF PendingLabels, ReclaimLabels
        <5>2. ~(PutLink(th) \/ PutLinkFails(th) \/ RcCheck(th) \/ RcUnlink(th) \/ RcCommit(th) \/ RcUnlinkFails(th))
          BY <5>1 DEF PutLink, PutLinkFails, RcCheck, RcUnlink, RcCommit, RcUnlinkFails, At, ReclaimLabels
        <5> QED BY <5>1, <5>2, PendingActions
      <4> QED BY <1>4, <2>2, <4>2, EvictCounts DEF BudgetInv
    <3> QED BY <3>1, <3>2
  <2> QED BY <2>1, <2>2
<1> QED BY <1>4, <1>6, <1>7 DEF BudgetInv

(* Every step of a faultless store preserves BudgetInv.                     *)
LEMMA BudgetNext ==
  ASSUME IInv, IInv', Calls, Calls', Faultless, BudgetInv, [Next]_vars
  PROVE  BudgetInv'
<1>1. ASSUME NEW th \in Threads, Step(th) \/ Fault(th) \/ Start(th)
      PROVE  BudgetInv'
  BY <1>1, BudgetThread
<1>2. CASE UNCHANGED <<db, pc, loc>>
  <2>1. UNCHANGED <<entries, lease_count, pc, loc>>
    BY <1>2 DEF db
  <2> QED BY <2>1 DEF BudgetInv, Quiet, Counting, Pending, RowBytes, Writable, Inst
<1>3. ASSUME NEW i \in Instances PROVE ~Crash(i)
  BY DEF Crash, Faultless, IInv, DataOK, RestOK
<1>4. ((\E i \in Instances : Close(i)) \/ (\E k \in Keys : Damage(k)) \/ UNCHANGED vars) => UNCHANGED <<db, pc, loc>>
  BY DEF Close, Damage, vars
<1> QED BY <1>1, <1>2, <1>3, <1>4 DEF Next
-----------------------------------------------------------------------------
(* The initial state.                                                       *)
LEMMA RowsInit == Init => RowsInv
<1> SUFFICES ASSUME Init PROVE RowsInv
  OBVIOUS
<1>1. \A th \in Threads : pc[th] = "idle" /\ loc[th].op = "none" /\ held[th] = None
  BY DEF Init, NoLocals
<1>2. (\A t \in Targets : entries[t] = None) /\ tracked = {} /\ files = {} /\ corrupt = {} /\ Quiet
  BY DEF Init, Quiet
<1>3. Calls
  BY <1>1 DEF Calls, OpsInv, MutexInv, UpInv, PutLabels, Puts, LeaseLabels, DropLabels, EvictLabels, MutexLabels
<1>4. BackedInv
  BY <1>1, <1>2 DEF BackedInv, RowBacked, BadLabels, EvictLabels, LeaseLabels, DropLabels
<1>5. TrackedInv /\ RecoverInv
  BY <1>1, <1>2 DEF TrackedInv, RecoverInv, Recovering
<1>6. BudgetInv
  <2>1. RowBytes = Cardinality(Space(entries))
    BY DEF RowBytes, Space
  <2>2. RowBytes = 0
    BY <1>2, <2>1, NoRows
  <2>3. MaxBytes # None => RowBytes <= MaxBytes
    BY <2>2
  <2> QED BY <1>1, <1>2, <2>3 DEF BudgetInv, Counting
<1> QED BY <1>3, <1>4, <1>5, <1>6 DEF RowsInv

(* Every step preserves RowsInv.                                            *)
LEMMA RowsNext == IInv /\ IInv' /\ RowsInv /\ [Next]_vars => RowsInv'
<1> SUFFICES ASSUME IInv, IInv', RowsInv, [Next]_vars PROVE RowsInv'
  OBVIOUS
<1>1. Calls /\ Calls'
  BY CallsNext DEF RowsInv
<1>2. Transactional => BackedInv'
  BY <1>1, BackedNext DEF RowsInv
<1>3. Unshared => TrackedInv'
  BY <1>1, TrackedNext DEF RowsInv
<1>4. (SingleProcess /\ ~IoFaults) => RecoverInv'
  BY <1>1, RecoverNext DEF RowsInv
<1>5. Faultless => BudgetInv'
  BY <1>1, BudgetNext DEF RowsInv
<1> QED BY <1>1, <1>2, <1>3, <1>4, <1>5
    DEF RowsInv, Transactional, Unshared, Faultless, SingleProcess, NoLeases, NoDrops

(* Every call keeps to the control flow of byte.rs and to its locks, and    *)
(* what it does to the rows, the tracking rows and the files is one of the  *)
(* four invariants, each where its hypothesis holds.                        *)
THEOREM RowsInductive == Spec => []RowsInv
<1>1. IInv /\ IInv' /\ RowsInv /\ [Next]_vars => RowsInv'
  BY RowsNext
<1>2. Init => RowsInv
  BY RowsInit
<1> QED BY <1>1, <1>2, Inductive, PTL DEF Spec

(* Every row that put_staged_locked publishes names a blob on disk, or one  *)
(* its publisher is about to link, with any number of sibling processes,    *)
(* threads, targets and blobs: where every unlink is that of the reclaim    *)
(* transaction, no publication, removal or recovery takes a blob that a row *)
(* names.                                                                   *)
THEOREM RowsBacked ==
  ASSUME Transactional
  PROVE  Spec => []RowBacked
<1>1. RowsInv => RowBacked
  BY DEF RowsInv, BackedInv
<1> QED BY <1>1, RowsInductive, PTL

(* In one process and without a cap, no blob is left on disk with neither a *)
(* tracking row nor an entries row, whatever crashes, failed links and      *)
(* unlinks and damaged files the publications, reads, quarantines, removals *)
(* and recoveries met.                                                      *)
THEOREM NothingStranded ==
  ASSUME Unshared
  PROVE  Spec => []NoStrandedBlob
<1>1. RowsInv => NoStrandedBlob
  BY DEF RowsInv, TrackedInv, NoStrandedBlob
<1> QED BY <1>1, RowsInductive, PTL

(* The recovery of the first open of a process that finds no other process  *)
(* leaves a clean index, whatever the process that crashed before it was    *)
(* doing: with leases, evictions, quarantines, damage and any number of     *)
(* crashes.                                                                 *)
THEOREM RecoversClean ==
  ASSUME SingleProcess, ~IoFaults
  PROVE  Spec => []RecoveredClean
<1>1. RowsInv => RecoveredClean
  BY DEF RowsInv, RecoverInv, Recovering, RecoveredClean, Backed, Quiet
<1> QED BY <1>1, RowsInductive, PTL

(* Whenever no call is in progress the rows fit the size budget, for any    *)
(* number of threads that publish and evict at the same time.               *)
THEOREM StaysInBudget ==
  ASSUME Faultless
  PROVE  Spec => []WithinBudget
<1>1. RowsInv => WithinBudget
  <2> SUFFICES ASSUME RowsInv, AllIdle, MaxBytes # None PROVE RowBytes <= MaxBytes
    BY DEF WithinBudget
  <2>1. \A th \in Threads : ~Pending(th)
    BY DEF AllIdle, Pending, ReclaimLabels
  <2> QED BY <2>1 DEF RowsInv, BudgetInv
<1> QED BY <1>1, RowsInductive, PTL
=============================================================================
