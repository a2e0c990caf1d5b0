-------------------------- MODULE ByteStore_proofs --------------------------
(***************************************************************************)
(* Proofs about ByteStore, for any number of processes, threads, targets   *)
(* and blobs, any sizes and any budget.                                    *)
(***************************************************************************)
EXTENDS ByteStore, FiniteSetTheorems, TLAPS

Labels == MutexLabels \cup FreeLabels
RcLabels == {"rc_unlink", "rc_commit"}

(* The part of TypeOK that is about the data.                               *)
DbOK == /\ entries \in [Targets -> Keys \cup {None}]
        /\ tracked \subseteq Keys
        /\ lease_count \in [Keys -> Nat]
        /\ \A k \in Keys \ tracked : lease_count[k] = 0
FsOK == files \subseteq Keys /\ corrupt \subseteq files
LocksOK == /\ mutex \in [Instances -> Threads \cup {None}]
           /\ writer \in Threads \cup {None}
           /\ keylock \in [Targets -> Threads \cup {None}]
RestOK == /\ up \in [Instances -> {"down", "opening", "open"}]
          /\ held \in [Threads -> Keys \cup {None}]
          /\ got \in [Threads -> Keys \cup {None}]
          /\ ops \in 0 .. MaxOps
          /\ crashes \in 0 .. MaxCrashes
DataOK == DbOK /\ FsOK /\ LocksOK /\ RestOK
ControlOK == pc \in [Threads -> Labels] /\ loc \in [Threads -> Locals]

(* What the locals of a thread hold at the labels that use them.            *)
Sound(label, l) ==
  /\ label \in {"put_tx", "put_link"} => l.key \in Keys /\ l.tgt \in Targets
  /\ label \in {"ev_delete", "ev_ref"} => l.cur \in Keys
  /\ label = "rd_row" => l.tgt \in Targets
  /\ (label \in {"ls_row", "ls_path", "ls_inc"} /\ l.op = "lookup") => l.tgt \in Targets
LocalsSound == \A th \in Threads : Sound(pc[th], loc[th])

(* Inside the reclaim transaction a thread owns the write lock, and what it *)
(* checked still holds.                                                     *)
Reclaiming(th) ==
  pc[th] \in RcLabels =>
    /\ writer = th
    /\ ~Referenced(loc[th].cur)
    /\ lease_count[loc[th].cur] = 0

(* The inductive invariant.                                                 *)
IInv == DataOK /\ ControlOK /\ LocalsSound /\ \A th \in Threads : Reclaiming(th)

USE ThreadsAssumption, KeysAssumption, BoundsAssumption, ShapeAssumption

(* TypeOK is the data part and the control part together.                   *)
LEMMA TypeOKSplit == TypeOK <=> DataOK /\ ControlOK
  BY DEF TypeOK, DataOK, DbOK, FsOK, LocksOK, RestOK, ControlOK, Labels
-----------------------------------------------------------------------------
(* One step of a thread moves its own control state and nothing of another  *)
(* thread's, and while another thread owns the write lock it leaves that    *)
(* lock and what the lock protects alone.                                   *)

Moves(th, label, l) ==
  /\ pc' = [pc EXCEPT ![th] = label]
  /\ loc' = [loc EXCEPT ![th] = l]
  /\ label \in Labels /\ l \in Locals
  /\ Sound(label, l)
  /\ keylock' \in [Targets -> Threads \cup {None}]

Proceeds(th) == \E label, l : Moves(th, label, l) /\ label \notin RcLabels

Yields(th) ==
  writer \in Threads \ {th} => writer' = writer /\ UNCHANGED <<entries, lease_count>>

(* A step outside the reclaim transaction preserves the invariant if it     *)
(* keeps the data typed and yields to the owner of the write lock.          *)
LEMMA MovesPreserves ==
  ASSUME IInv, NEW th \in Threads,
         Proceeds(th), DataOK', Yields(th)
  PROVE  IInv'
<1>1. PICK label, l : Moves(th, label, l) /\ label \notin RcLabels
  BY DEF Proceeds
<1>2. ControlOK'
  BY <1>1 DEF Moves, IInv, ControlOK
<1>3. LocalsSound'
  <2> SUFFICES ASSUME NEW u \in Threads PROVE Sound(pc'[u], loc'[u])
    BY DEF LocalsSound, Sound
  <2>1. CASE u = th
    BY <1>1, <2>1 DEF Moves, IInv, ControlOK
  <2>2. CASE u # th
    <3>1. pc'[u] = pc[u] /\ loc'[u] = loc[u]
      BY <1>1, <2>2 DEF Moves, IInv, ControlOK
    <3> QED BY <3>1 DEF IInv, LocalsSound
  <2> QED BY <2>1, <2>2
<1>4. \A u \in Threads : Reclaiming(u)'
  <2> SUFFICES ASSUME NEW u \in Threads, pc'[u] \in RcLabels
               PROVE  /\ writer' = u
                      /\ ~Referenced(loc[u].cur)'
                      /\ lease_count'[loc'[u].cur] = 0
    BY DEF Reclaiming
  <2>1. u # th
    BY <1>1 DEF Moves, IInv, ControlOK
  <2>2. pc'[u] = pc[u] /\ loc'[u] = loc[u]
    BY <1>1, <2>1 DEF Moves, IInv, ControlOK
  <2>3. writer = u /\ ~Referenced(loc[u].cur) /\ lease_count[loc[u].cur] = 0
    BY <2>2 DEF IInv, Reclaiming
  <2>4. writer' = writer /\ entries' = entries /\ lease_count' = lease_count
    BY <2>1, <2>3 DEF Yields
  <2> QED BY <2>2, <2>3, <2>4 DEF Referenced
<1> QED BY <1>2, <1>3, <1>4 DEF IInv
-----------------------------------------------------------------------------
(* The ways a step ends.                                                    *)

(* The locals of an idle thread are typed.                                  *)
LEMMA NoLocalsType == NoLocals \in Locals
  BY DEF NoLocals, Locals, OpNames

(* Returning from a call moves only the caller.                             *)
LEMMA ReturnMoves ==
  ASSUME IInv, NEW th \in Threads, Return(th)
  PROVE  Proceeds(th)
<1>1. Moves(th, "idle", NoLocals)
  BY NoLocalsType DEF Return, Goto, Moves, Labels, FreeLabels, Sound, IInv, DataOK, LocksOK
<1> QED BY <1>1 DEF Proceeds, RcLabels

(* Going to another label inside a call moves only the caller.              *)
LEMMA ContinueMoves ==
  ASSUME IInv, NEW th \in Threads, NEW label \in Labels \ RcLabels, NEW l \in Locals,
         Sound(label, l), Continue(th, label, l)
  PROVE  Proceeds(th)
<1>1. Moves(th, label, l)
  BY DEF Continue, Goto, Moves, IInv, DataOK, LocksOK
<1> QED BY <1>1 DEF Proceeds

(* Taking and releasing the connection mutex keep it typed.                 *)
LEMMA MutexSteps ==
  ASSUME IInv, NEW th \in Threads, Acquire(th) \/ Release(th) \/ UNCHANGED mutex
  PROVE  mutex' \in [Instances -> Threads \cup {None}]
  BY DEF Acquire, Release, Inst, IInv, DataOK, LocksOK

(* The end of a reclaim goes to the next blob, to the eviction or back to   *)
(* the caller.                                                              *)
LEMMA ReclaimedMoves ==
  ASSUME IInv, NEW th \in Threads, NEW l \in Locals, Reclaimed(th, l)
  PROVE  Proceeds(th) /\ mutex' \in [Instances -> Threads \cup {None}]
<1>1. CASE l.todo # {}
  BY <1>1, ContinueMoves, MutexSteps
  DEF Reclaimed, Labels, MutexLabels, FreeLabels, RcLabels, Sound
<1>2. CASE l.todo = {} /\ Evicts(l.op)
  BY <1>2, ContinueMoves, MutexSteps
  DEF Reclaimed, Labels, MutexLabels, FreeLabels, RcLabels, Sound
<1>3. CASE l.todo = {} /\ ~Evicts(l.op)
  BY <1>3, ReturnMoves, MutexSteps DEF Reclaimed
<1> QED BY <1>1, <1>2, <1>3

(* The end of an eviction takes the Lease of put_and_lease, ends an open,   *)
(* or returns.                                                              *)
LEMMA AfterEvictMoves ==
  ASSUME IInv, NEW th \in Threads, NEW l \in Locals, AfterEvict(th, l)
  PROVE  Proceeds(th) /\ up' \in [Instances -> {"down", "opening", "open"}]
<1>1. CASE l.op = "putlease" /\ ~l.err
  <2> DEFINE m == [NoLocals EXCEPT !.op = "putlease", !.key = l.key]
  <2>1. m \in Locals /\ m.op = "putlease"
    BY NoLocalsType DEF Locals, OpNames
  <2>2. Moves(th, "ls_row", m)
    BY <1>1, <2>1 DEF AfterEvict, Goto, Moves, Labels, FreeLabels, Sound, IInv, DataOK, LocksOK
  <2> QED BY <1>1, <2>2 DEF AfterEvict, Proceeds, RcLabels, IInv, DataOK, RestOK
<1>2. CASE ~(l.op = "putlease" /\ ~l.err)
  <2>1. Return(th)
    BY <1>2 DEF AfterEvict
  <2>2. up' \in [Instances -> {"down", "opening", "open"}]
    BY <1>2 DEF AfterEvict, Inst, IInv, DataOK, RestOK
  <2> QED BY <2>1, <2>2, ReturnMoves
<1> QED BY <1>1, <1>2
-----------------------------------------------------------------------------
(* The steps, operation by operation.                                       *)

(* The invariant says of one thread that its label and locals are typed and *)
(* sound.                                                                   *)
LEMMA LocalsTyped ==
  ASSUME IInv, NEW th \in Threads
  PROVE  loc[th] \in Locals /\ pc[th] \in Labels /\ Sound(pc[th], loc[th])
  BY DEF IInv, ControlOK, LocalsSound

(* Staging a blob and calling put, put_and_lease or compare_and_put         *)
(* preserves the invariant.                                                 *)
LEMMA StageStep ==
  ASSUME IInv, NEW th \in Threads, NEW o \in OpNames, NEW t \in Targets, NEW k \in Keys,
         NEW accept \in SUBSET (Keys \cup {None}), Stage(th, o, t, k, accept), Call(th, o)
  PROVE  IInv'
<1> DEFINE l == [NoLocals EXCEPT !.op = o, !.tgt = t, !.key = k, !.accept = accept]
<1>1. l \in Locals /\ l.tgt = t /\ l.key = k /\ l.op = o
  BY NoLocalsType DEF Locals
<1>2. Moves(th, "put_tx", l)
  BY <1>1 DEF Stage, Goto, Moves, Labels, FreeLabels, Sound, IInv, DataOK, LocksOK
<1>3. Proceeds(th)
  BY <1>2 DEF Proceeds, RcLabels
<1>4. DataOK'
  BY <1>2 DEF Moves, Stage, Call, IInv, DataOK, DbOK, FsOK, LocksOK, RestOK, db, fs, lease
<1>5. Yields(th)
  BY DEF Stage, Yields, db
<1> QED BY <1>3, <1>4, <1>5, MovesPreserves

(* The transaction of a put preserves the invariant.                        *)
LEMMA PutTxStep ==
  ASSUME IInv, NEW th \in Threads, PutTx(th)
  PROVE  IInv'
<1> DEFINE l == loc[th]
<1> DEFINE old == entries[l.tgt]
<1>1. l \in Locals /\ l.key \in Keys /\ l.tgt \in Targets /\ old \in Keys \cup {None}
  BY LocalsTyped DEF PutTx, At, Sound, IInv, DataOK, DbOK
<1>2. CASE old \in l.accept
  <2> DEFINE m == [l EXCEPT !.todo = {old} \ {None, l.key}]
  <2>1. m \in Locals /\ m.key = l.key /\ m.tgt = l.tgt
    BY <1>1 DEF Locals
  <2>2. Proceeds(th)
    BY <1>1, <1>2, <2>1, ContinueMoves
    DEF PutTx, Labels, MutexLabels, FreeLabels, RcLabels, Sound
  <2>3. DataOK'
    BY <1>1, <1>2, MutexSteps
    DEF PutTx, Continue, IInv, DataOK, DbOK, FsOK, LocksOK, RestOK, fs, lease, bounds
  <2>4. Yields(th)
    BY DEF PutTx, WriteLockFree, Yields
  <2> QED BY <2>2, <2>3, <2>4, MovesPreserves
<1>3. CASE old \notin l.accept
  <2>1. Proceeds(th)
    BY <1>3, ReturnMoves DEF PutTx
  <2>2. DataOK'
    BY <1>3, <2>1 
    DEF PutTx, Proceeds, Moves, IInv, DataOK, DbOK, FsOK, LocksOK, RestOK, fs, lease, bounds
  <2>3. Yields(th)
    BY DEF PutTx, WriteLockFree, Yields
  <2> QED BY <2>1, <2>2, <2>3, MovesPreserves
<1> QED BY <1>2, <1>3

(* Linking the staged blob into place, or failing to, preserves the         *)
(* invariant.                                                               *)
LEMMA PutLinkStep ==
  ASSUME IInv, NEW th \in Threads, PutLink(th) \/ PutLinkFails(th)
  PROVE  IInv'
<1>1. loc[th] \in Locals /\ loc[th].key \in Keys
  BY LocalsTyped DEF PutLink, PutLinkFails, At, Sound
<1>2. Proceeds(th) /\ mutex' \in [Instances -> Threads \cup {None}]
  BY <1>1, ReclaimedMoves, ReturnMoves, MutexSteps DEF PutLink, PutLinkFails
<1>3. DataOK'
  BY <1>1, <1>2 DEF PutLink, PutLinkFails, Proceeds, Moves,
     IInv, DataOK, DbOK, FsOK, LocksOK, RestOK, db, fs, lease, bounds
<1>4. Yields(th)
  BY DEF PutLink, PutLinkFails, Yields, db
<1> QED BY <1>2, <1>3, <1>4, MovesPreserves

(* The reclaim transaction: the only steps that enter or leave RcLabels.    *)
LEMMA RcCheckStep ==
  ASSUME IInv, NEW th \in Threads, RcCheck(th)
  PROVE  IInv'
<1>1. PICK k \in loc[th].todo :
        IF Reclaimable(k)
        THEN /\ BeginImmediate(th)
             /\ Continue(th, "rc_unlink", [loc[th] EXCEPT !.cur = k])
             /\ UNCHANGED mutex
        ELSE /\ WriteLockFree
             /\ Reclaimed(th, [loc[th] EXCEPT !.todo = @ \ {k}])
             /\ UNCHANGED writer
  BY DEF RcCheck
<1>2. loc[th] \in Locals /\ k \in Keys
  BY <1>1, LocalsTyped DEF Locals
<1>3. CASE Reclaimable(k)
  <2> DEFINE l == [loc[th] EXCEPT !.cur = k]
  <2>1. l \in Locals /\ l.cur = k
    BY <1>2 DEF Locals
  <2>2. /\ pc' = [pc EXCEPT ![th] = "rc_unlink"]
        /\ loc' = [loc EXCEPT ![th] = l]
        /\ keylock' = keylock /\ mutex' = mutex
        /\ writer = None /\ writer' = th
    BY <1>1, <1>3 DEF Continue, Goto, BeginImmediate, WriteLockFree
  <2>3. DataOK'
    BY <2>2 DEF RcCheck, IInv, DataOK, DbOK, FsOK, LocksOK, RestOK, db, fs, lease, bounds
  <2>4. ControlOK'
    BY <2>1, <2>2 DEF IInv, ControlOK, Labels, MutexLabels
  <2>5. \A u \in Threads \ {th} : pc'[u] = pc[u] /\ loc'[u] = loc[u] /\ pc[u] \notin RcLabels
    BY <2>2 DEF IInv, ControlOK, Reclaiming
  <2>6. pc'[th] = "rc_unlink" /\ loc'[th] = l
    BY <2>2 DEF IInv, ControlOK
  <2>7. LocalsSound'
    BY <2>5, <2>6 DEF IInv, LocalsSound, Sound
  <2>8. Reclaiming(th)'
    BY <1>3, <2>1, <2>2, <2>6 DEF RcCheck, Reclaiming, Reclaimable, Referenced, db
  <2>9. \A u \in Threads : Reclaiming(u)'
    BY <2>5, <2>8 DEF Reclaiming
  <2> QED BY <2>3, <2>4, <2>7, <2>9 DEF IInv
<1>4. CASE ~Reclaimable(k)
  <2>1. [loc[th] EXCEPT !.todo = @ \ {k}] \in Locals
    BY <1>2 DEF Locals
  <2>2. Proceeds(th) /\ mutex' \in [Instances -> Threads \cup {None}]
    BY <1>1, <1>4, <2>1, ReclaimedMoves
  <2>3. DataOK'
    BY <1>1, <1>4, <2>2 DEF RcCheck, Proceeds, Moves,
       IInv, DataOK, DbOK, FsOK, LocksOK, RestOK, db, fs, lease, bounds
  <2>4. Yields(th)
    BY <1>1, <1>4 DEF RcCheck, Yields, db
  <2> QED BY <2>2, <2>3, <2>4, MovesPreserves
<1> QED BY <1>3, <1>4

(* The unlink inside the reclaim transaction preserves the invariant.       *)
LEMMA RcUnlinkStep ==
  ASSUME IInv, NEW th \in Threads, RcUnlink(th)
  PROVE  IInv'
<1>1. /\ pc' = [pc EXCEPT ![th] = "rc_commit"]
      /\ loc' = [loc EXCEPT ![th] = loc[th]]
      /\ UNCHANGED <<keylock, mutex, writer, db, up, lease, bounds>>
  BY DEF RcUnlink, Continue, Goto
<1>2. loc' = loc
  BY <1>1 DEF IInv, ControlOK
<1>3. DataOK'
  BY <1>1 DEF RcUnlink, IInv, DataOK, DbOK, FsOK, LocksOK, RestOK, db, lease, bounds
<1>4. ControlOK'
  BY <1>1, <1>2 DEF IInv, ControlOK, Labels, MutexLabels
<1>5. LocalsSound'
  BY <1>1, <1>2 DEF IInv, ControlOK, LocalsSound, Sound
<1>6. \A u \in Threads : pc'[u] \in RcLabels => pc[u] \in RcLabels
  BY <1>1 DEF RcUnlink, At, RcLabels, IInv, ControlOK
<1>7. \A u \in Threads : Reclaiming(u)'
  BY <1>1, <1>2, <1>6 DEF IInv, Reclaiming, Referenced, db
<1> QED BY <1>3, <1>4, <1>5, <1>7 DEF IInv

(* Committing the reclaim transaction, or rolling it back, preserves the    *)
(* invariant.                                                               *)
LEMMA RcEndStep ==
  ASSUME IInv, NEW th \in Threads, RcUnlinkFails(th) \/ RcCommit(th)
  PROVE  IInv'
<1>1. loc[th] \in Locals /\ writer = th /\ lease_count[loc[th].cur] = 0
  BY LocalsTyped DEF RcUnlinkFails, RcCommit, At, IInv, Reclaiming, RcLabels
<1>2. [loc[th] EXCEPT !.todo = @ \ {loc[th].cur}] \in Locals
  BY <1>1 DEF Locals
<1>3. Proceeds(th) /\ mutex' \in [Instances -> Threads \cup {None}]
  BY <1>2, ReclaimedMoves DEF RcUnlinkFails, RcCommit
<1>4. DataOK'
  BY <1>1, <1>3 DEF RcUnlinkFails, RcCommit, Proceeds, Moves,
     IInv, DataOK, DbOK, FsOK, LocksOK, RestOK, db, fs, lease, bounds
<1>5. Yields(th)
  BY <1>1 DEF Yields
<1> QED BY <1>3, <1>4, <1>5, MovesPreserves

(* The bytes the rows account for are a natural number.                     *)
LEMMA RowBytesType ==
  ASSUME IInv
  PROVE  RowBytes \in Nat
<1> DEFINE rows == {u \in Targets : entries[u] # None}
<1> DEFINE bytes(t) == {t} \X (1 .. Size[entries[t]])
<1> DEFINE all == {bytes(t) : t \in rows}
<1>1. IsFiniteSet(rows)
  BY FS_Subset
<1>2. IsFiniteSet(all)
  <2> DEFINE f == [t \in rows |-> bytes(t)]
  <2>1. f \in Surjection(rows, all)
    BY DEF Surjection
  <2> QED BY <1>1, <2>1, FS_Surjection DEF ExistsSurjection
<1>3. \A S \in all : IsFiniteSet(S)
  <2> SUFFICES ASSUME NEW t \in rows PROVE IsFiniteSet(bytes(t))
    OBVIOUS
  <2>1. Size[entries[t]] \in Nat
    BY DEF IInv, DataOK, DbOK
  <2>2. IsFiniteSet(1 .. Size[entries[t]])
    BY <2>1, FS_Interval
  <2>3. IsFiniteSet({t})
    BY FS_Singleton
  <2> QED BY <2>2, <2>3, FS_Product
<1>4. IsFiniteSet(UNION all)
  BY <1>2, <1>3, FS_UNION
<1> QED BY <1>4, FS_CardinalityType DEF RowBytes

(* Reading the rows and their total at the start of an eviction preserves   *)
(* the invariant.                                                           *)
LEMMA EvStartStep ==
  ASSUME IInv, NEW th \in Threads, EvStart(th)
  PROVE  IInv'
<1> DEFINE l == [loc[th] EXCEPT !.snap = entries, !.total = RowBytes]
<1>0. loc[th] \in Locals
  BY LocalsTyped
<1>1. l \in Locals
  BY <1>0, RowBytesType DEF Locals, IInv, DataOK, DbOK
<1>2. \/ AfterEvict(th, loc[th]) /\ UNCHANGED mutex
      \/ Acquire(th) /\ Continue(th, "ev_pick", l) /\ UNCHANGED up
  BY DEF EvStart
<1>3. Proceeds(th) /\ up' \in [Instances -> {"down", "opening", "open"}]
  <2>1. CASE AfterEvict(th, loc[th])
    BY <1>0, <2>1, AfterEvictMoves
  <2>2. CASE Continue(th, "ev_pick", l) /\ UNCHANGED up
    BY <1>1, <2>2, ContinueMoves
    DEF Labels, MutexLabels, FreeLabels, RcLabels, Sound, IInv, DataOK, RestOK
  <2> QED BY <1>2, <2>1, <2>2
<1>4. DataOK'
  BY <1>2, <1>3, MutexSteps DEF EvStart, Proceeds, Moves,
     IInv, DataOK, DbOK, FsOK, LocksOK, RestOK, db, fs, lease, bounds
<1>5. Yields(th)
  BY DEF EvStart, Yields, db
<1> QED BY <1>3, <1>4, <1>5, MovesPreserves

(* Choosing the next row to evict preserves the invariant.                  *)
LEMMA EvPickStep ==
  ASSUME IInv, NEW th \in Threads, EvPick(th)
  PROVE  IInv'
<1> DEFINE l == loc[th]
<1> DEFINE next(t) == [l EXCEPT !.snap[t] = None, !.tgt = t, !.cur = l.snap[t]]
<1>1. l \in Locals
  BY LocalsTyped
<1>2. CASE \E t \in Targets : l.snap[t] # None /\ UNCHANGED <<mutex, up>>
             /\ \E label \in {"ev_pick", "ev_delete"} : Continue(th, label, next(t))
  <2>0. PICK t \in Targets :
          /\ l.snap[t] # None /\ UNCHANGED <<mutex, up>>
          /\ \E label \in {"ev_pick", "ev_delete"} : Continue(th, label, next(t))
    BY <1>2
  <2>1. PICK label \in {"ev_pick", "ev_delete"} : Continue(th, label, next(t))
    BY <2>0
  <2>2. next(t) \in Locals /\ next(t).cur \in Keys
    BY <1>1, <2>0 DEF Locals
  <2>3. Proceeds(th)
    BY <2>1, <2>2, ContinueMoves DEF Labels, MutexLabels, FreeLabels, RcLabels, Sound
  <2>4. DataOK'
    BY <2>0, <2>3 DEF EvPick, Proceeds, Moves,
       IInv, DataOK, DbOK, FsOK, LocksOK, RestOK, db, fs, lease, bounds
  <2>5. Yields(th)
    BY DEF EvPick, Yields, db
  <2> QED BY <2>3, <2>4, <2>5, MovesPreserves
<1>3. CASE Release(th) /\ (AfterEvict(th, l) \/ (Continue(th, "ev_unlink", l) /\ UNCHANGED up))
  <2>1. Proceeds(th) /\ up' \in [Instances -> {"down", "opening", "open"}]
    <3>1. CASE AfterEvict(th, l)
      BY <1>1, <3>1, AfterEvictMoves
    <3>2. CASE Continue(th, "ev_unlink", l) /\ UNCHANGED up
      BY <1>1, <3>2, ContinueMoves
      DEF Labels, MutexLabels, FreeLabels, RcLabels, Sound, IInv, DataOK, RestOK
    <3> QED BY <1>3, <3>1, <3>2
  <2>2. DataOK'
    BY <1>3, <2>1, MutexSteps DEF EvPick, Proceeds, Moves,
       IInv, DataOK, DbOK, FsOK, LocksOK, RestOK, db, fs, lease, bounds
  <2>3. Yields(th)
    BY DEF EvPick, Yields, db
  <2> QED BY <2>1, <2>2, <2>3, MovesPreserves
<1> QED BY <1>2, <1>3 DEF EvPick

(* Deleting an evicted row, and asking whether its blob is still named,     *)
(* preserve the invariant.                                                  *)
LEMMA EvRowStep ==
  ASSUME IInv, NEW th \in Threads, EvDelete(th) \/ EvRef(th)
  PROVE  IInv'
<1> DEFINE l == loc[th]
<1> DEFINE d == [l EXCEPT !.total = IF @ < Size[l.cur] THEN 0 ELSE @ - Size[l.cur]]
<1> DEFINE r == [l EXCEPT !.todo = IF Referenced(l.cur) THEN @ ELSE @ \cup {l.cur}]
<1>1. l \in Locals /\ l.cur \in Keys
  BY LocalsTyped DEF EvDelete, EvRef, At, Sound
<1>2. l.total \in Nat /\ Size[l.cur] \in Nat
  BY <1>1 DEF Locals
<1>3. d \in Locals /\ d.cur = l.cur /\ r \in Locals
  BY <1>1, <1>2 DEF Locals
<1>4. Proceeds(th)
  BY <1>1, <1>3, ContinueMoves
  DEF EvDelete, EvRef, Labels, MutexLabels, FreeLabels, RcLabels, Sound
<1>5. DataOK'
  BY <1>4 DEF EvDelete, EvRef, Proceeds, Moves,
     IInv, DataOK, DbOK, FsOK, LocksOK, RestOK, db, fs, lease, bounds
<1>6. Yields(th)
  BY DEF EvDelete, EvRef, WriteLockFree, Yields, db
<1> QED BY <1>4, <1>5, <1>6, MovesPreserves

(* The second and third phases of an eviction move only the evicting        *)
(* thread.                                                                  *)
LEMMA EvictFilesMoves ==
  ASSUME IInv, NEW th \in Threads, NEW l \in Locals, EvictFiles(th, l)
  PROVE  Proceeds(th) /\ up' \in [Instances -> {"down", "opening", "open"}]
<1>1. CASE AfterEvict(th, l)
  BY <1>1, AfterEvictMoves
<1>2. CASE \E label \in {"ev_unlink", "ev_untrack"} : Continue(th, label, l) /\ UNCHANGED up
  BY <1>2, ContinueMoves
  DEF Labels, MutexLabels, FreeLabels, RcLabels, Sound, IInv, DataOK, RestOK
<1> QED BY <1>1, <1>2 DEF EvictFiles

(* Unlinking the evicted blobs, or failing to, preserves the invariant.     *)
LEMMA EvUnlinkStep ==
  ASSUME IInv, NEW th \in Threads, EvUnlink(th) \/ EvUnlinkFails(th)
  PROVE  IInv'
<1>1. PICK k \in loc[th].todo :
        \/ EvictFiles(th, [loc[th] EXCEPT !.todo = @ \ {k}, !.gone = @ \cup {k}])
        \/ EvictFiles(th, [loc[th] EXCEPT !.todo = @ \ {k}, !.err = TRUE])
  BY DEF EvUnlink, EvUnlinkFails
<1>2. loc[th] \in Locals
  BY LocalsTyped
<1>3. /\ [loc[th] EXCEPT !.todo = @ \ {k}, !.gone = @ \cup {k}] \in Locals
      /\ [loc[th] EXCEPT !.todo = @ \ {k}, !.err = TRUE] \in Locals
  <2>1. k \in Keys
    BY <1>2 DEF Locals
  <2>2. [loc[th] EXCEPT !.todo = @ \ {k}, !.gone = @ \cup {k}] \in Locals
    BY <1>2, <2>1 DEF Locals
  <2>3. [loc[th] EXCEPT !.todo = @ \ {k}, !.err = TRUE] \in Locals
    BY <1>2, <2>1 DEF Locals
  <2> QED BY <2>2, <2>3
<1>4. Proceeds(th) /\ up' \in [Instances -> {"down", "opening", "open"}]
  BY <1>1, <1>3, EvictFilesMoves
<1>5. files' \subseteq files /\ corrupt' \subseteq files'
  BY DEF EvUnlink, EvUnlinkFails, fs, IInv, DataOK, FsOK
<1>6. DataOK'
  BY <1>4, <1>5 DEF EvUnlink, EvUnlinkFails, Proceeds, Moves,
     IInv, DataOK, DbOK, FsOK, LocksOK, RestOK, db, lease, bounds
<1>7. Yields(th)
  BY DEF EvUnlink, EvUnlinkFails, Yields, db
<1> QED BY <1>4, <1>6, <1>7, MovesPreserves

(* Untracking the evicted blobs preserves the invariant.                    *)
LEMMA EvUntrackStep ==
  ASSUME IInv, NEW th \in Threads, EvUntrack(th)
  PROVE  IInv'
<1> DEFINE l(k) == [loc[th] EXCEPT !.gone = @ \ {k}]
<1>1. PICK k \in loc[th].gone :
        /\ tracked' = IF Reclaimable(k) THEN tracked \ {k} ELSE tracked
        /\ \/ Release(th) /\ AfterEvict(th, l(k))
           \/ Acquire(th) /\ Continue(th, "ev_untrack", l(k)) /\ UNCHANGED up
  BY DEF EvUntrack
<1>2. l(k) \in Locals
  BY LocalsTyped DEF Locals
<1>3. Proceeds(th) /\ up' \in [Instances -> {"down", "opening", "open"}]
  <2>1. CASE AfterEvict(th, l(k))
    BY <1>2, <2>1, AfterEvictMoves
  <2>2. CASE Continue(th, "ev_untrack", l(k)) /\ UNCHANGED up
    BY <1>2, <2>2, ContinueMoves
    DEF Labels, MutexLabels, FreeLabels, RcLabels, Sound, IInv, DataOK, RestOK
  <2> QED BY <1>1, <2>1, <2>2
<1>4. DataOK'
  BY <1>1, <1>3, MutexSteps DEF EvUntrack, Reclaimable, Proceeds, Moves,
     IInv, DataOK, DbOK, FsOK, LocksOK, RestOK, fs, lease, bounds
<1>5. Yields(th)
  BY DEF EvUntrack, WriteLockFree, Yields
<1> QED BY <1>3, <1>4, <1>5, MovesPreserves

(* Starting gc preserves the invariant.                                     *)
LEMMA GcStep ==
  ASSUME IInv, NEW th \in Threads, Gc(th)
  PROVE  IInv'
<1>1. [NoLocals EXCEPT !.op = "gc"] \in Locals
  BY NoLocalsType DEF Locals, OpNames
<1>2. Proceeds(th)
  BY <1>1, ContinueMoves DEF Gc, Labels, MutexLabels, FreeLabels, RcLabels, Sound
<1>3. DataOK'
  BY <1>2 DEF Gc, Call, Proceeds, Moves,
     IInv, DataOK, DbOK, FsOK, LocksOK, RestOK, db, fs, lease
<1>4. Yields(th)
  BY DEF Gc, Yields, db
<1> QED BY <1>2, <1>3, <1>4, MovesPreserves

(* The three steps of taking a Lease preserve the invariant.                *)
LEMMA LeaseStep ==
  ASSUME IInv, NEW th \in Threads, LsRow(th) \/ LsPath(th) \/ LsInc(th)
  PROVE  IInv'
<1>1. loc[th] \in Locals /\ (loc[th].op = "lookup" => loc[th].tgt \in Targets)
  BY LocalsTyped DEF LsRow, LsPath, LsInc, At, Sound
<1>2. Proceeds(th)
  <2>1. CASE Return(th)
    BY <2>1, ReturnMoves
  <2>2. CASE \E label \in {"ls_path", "ls_inc"} : Continue(th, label, loc[th])
    BY <1>1, <2>2, ContinueMoves
    DEF Labels, MutexLabels, FreeLabels, RcLabels, Sound
  <2>3. CASE loc[th].op = "lookup" /\ Continue(th, "rd_row", loc[th])
    BY <1>1, <2>3, ContinueMoves
    DEF Labels, MutexLabels, FreeLabels, RcLabels, Sound
  <2> QED BY <2>1, <2>2, <2>3 DEF LsRow, LsPath, LsInc
<1>3. mutex' \in [Instances -> Threads \cup {None}]
  BY MutexSteps DEF LsRow, LsPath, LsInc
<1>4. DataOK'
  <2>1. CASE LsRow(th) \/ LsPath(th)
    BY <1>2, <1>3, <2>1 DEF LsRow, LsPath, Proceeds, Moves,
       IInv, DataOK, DbOK, FsOK, LocksOK, RestOK, db, fs, lease, bounds
  <2>2. CASE LsInc(th)
    <3>1. loc[th].key \in Keys \cup {None}
      BY <1>1 DEF Locals
    <3>2. DbOK'
      BY <2>2, <3>1 DEF LsInc, IInv, DataOK, DbOK
    <3>3. RestOK'
      BY <2>2, <3>1 DEF LsInc, IInv, DataOK, RestOK, bounds
    <3> QED BY <1>2, <1>3, <2>2, <3>2, <3>3 DEF LsInc, Proceeds, Moves,
               IInv, DataOK, FsOK, LocksOK, fs
  <2> QED BY <2>1, <2>2
<1>5. Yields(th)
  BY DEF LsRow, LsPath, LsInc, WriteLockFree, Yields, db
<1> QED BY <1>2, <1>4, <1>5, MovesPreserves

(* Dropping a Lease moves only the thread that held it.                     *)
LEMMA BeginDropMoves ==
  ASSUME IInv, NEW th \in Threads, BeginDrop(th)
  PROVE  /\ Proceeds(th)
         /\ held' \in [Threads -> Keys \cup {None}]
         /\ got' \in [Threads -> Keys \cup {None}]
<1>1. held[th] \in Keys \cup {None}
  BY DEF IInv, DataOK, RestOK
<1>2. [NoLocals EXCEPT !.op = "drop", !.cur = held[th]] \in Locals
  BY <1>1, NoLocalsType DEF Locals, OpNames
<1>3. Proceeds(th)
  BY <1>2, ContinueMoves DEF BeginDrop, Labels, MutexLabels, FreeLabels, RcLabels, Sound
<1> QED BY <1>3 DEF BeginDrop, IInv, DataOK, RestOK

(* A caller that drops its Lease preserves the invariant.                   *)
LEMMA DropLeaseStep ==
  ASSUME IInv, NEW th \in Threads, DropLease(th)
  PROVE  IInv'
<1>1. Proceeds(th)
  BY BeginDropMoves DEF DropLease
<1>2. DataOK'
  BY <1>1, BeginDropMoves DEF DropLease, Proceeds, Moves,
     IInv, DataOK, DbOK, FsOK, LocksOK, RestOK, db, fs, bounds
<1>3. Yields(th)
  BY DEF DropLease, Yields, db
<1> QED BY <1>1, <1>2, <1>3, MovesPreserves

(* The closure of a dropped Lease: every one of its steps ends the call or  *)
(* goes on with the same locals.                                            *)
LEMMA DropStep ==
  ASSUME IInv, NEW th \in Threads,
         \/ LdDec(th) \/ LdRef(th) \/ LdPin(th)
         \/ LdUnlink(th) \/ LdUnlinkFails(th) \/ LdDelete(th)
  PROVE  IInv'
<1>1. Proceeds(th)
  <2>1. CASE Return(th)
    BY <2>1, ReturnMoves
  <2>2. CASE \E label \in {"ld_ref", "ld_pin", "ld_unlink", "ld_delete"} :
               Continue(th, label, loc[th])
    BY <2>2, LocalsTyped, ContinueMoves
    DEF Labels, MutexLabels, FreeLabels, RcLabels, Sound
  <2> QED BY <2>1, <2>2 DEF LdDec, LdRef, LdPin, LdUnlink, LdUnlinkFails, LdDelete
<1>2. DbOK'
  BY DEF LdDec, LdRef, LdPin, LdUnlink, LdUnlinkFails, LdDelete, Untrack,
     IInv, DataOK, DbOK, db
<1>3. FsOK'
  BY DEF LdDec, LdRef, LdPin, LdUnlink, LdUnlinkFails, LdDelete, IInv, DataOK, FsOK, fs
<1>4. DataOK'
  BY <1>1, <1>2, <1>3 DEF LdDec, LdRef, LdPin, LdUnlink, LdUnlinkFails, LdDelete,
     Proceeds, Moves, IInv, DataOK, LocksOK, RestOK, lease, bounds
<1>5. Yields(th)
  BY DEF LdDec, LdRef, LdPin, LdUnlink, LdUnlinkFails, LdDelete, WriteLockFree, Yields, db
<1> QED BY <1>1, <1>4, <1>5, MovesPreserves

(* Starting get or lookup preserves the invariant.                          *)
LEMMA ReadStartStep ==
  ASSUME IInv, NEW th \in Threads, NEW t \in Targets, Get(th, t) \/ Lookup(th, t)
  PROVE  IInv'
<1> DEFINE g == [NoLocals EXCEPT !.op = "get", !.tgt = t, !.cur = entries[t]]
<1> DEFINE l == [NoLocals EXCEPT !.op = "lookup", !.tgt = t, !.key = entries[t]]
<1>1. entries[t] \in Keys \cup {None}
  BY DEF IInv, DataOK, DbOK
<1>2. g \in Locals
  BY <1>1, NoLocalsType DEF Locals, OpNames
<1>3. l \in Locals /\ l.tgt = t
  BY <1>1, NoLocalsType DEF Locals, OpNames
<1>4. Proceeds(th)
  BY <1>2, <1>3, ContinueMoves
  DEF Get, Lookup, Labels, MutexLabels, FreeLabels, RcLabels, Sound
<1>5. DataOK'
  BY <1>4 DEF Get, Lookup, Call, Proceeds, Moves,
     IInv, DataOK, DbOK, FsOK, LocksOK, RestOK, db, fs, lease
<1>6. Yields(th)
  BY DEF Get, Lookup, Yields, db
<1> QED BY <1>4, <1>5, <1>6, MovesPreserves

(* A read that misses moves only the reader, which may have a Lease to      *)
(* drop.                                                                    *)
LEMMA MissMoves ==
  ASSUME IInv, NEW th \in Threads, Miss(th)
  PROVE  /\ Proceeds(th)
         /\ held' \in [Threads -> Keys \cup {None}]
         /\ got' \in [Threads -> Keys \cup {None}]
<1>1. CASE BeginDrop(th)
  BY <1>1, BeginDropMoves
<1>2. CASE Return(th) /\ UNCHANGED lease
  BY <1>2, ReturnMoves DEF lease, IInv, DataOK, RestOK
<1> QED BY <1>1, <1>2 DEF Miss

(* The steps of a read, the removal of an orphaned row included, preserve   *)
(* the invariant.                                                           *)
LEMMA ReadStep ==
  ASSUME IInv, NEW th \in Threads, RdRow(th) \/ RdFile(th) \/ RdOrphan(th)
  PROVE  IInv'
<1> DEFINE Typed == /\ held' \in [Threads -> Keys \cup {None}]
                    /\ got' \in [Threads -> Keys \cup {None}]
<1>0. loc[th] \in Locals /\ loc[th].cur \in Keys \cup {None}
  BY LocalsTyped DEF Locals
<1>1. CASE RdRow(th)
  <2> DEFINE l == [loc[th] EXCEPT !.cur = entries[loc[th].tgt]]
  <2>1. entries[loc[th].tgt] \in Keys \cup {None}
    BY <1>1, LocalsTyped DEF RdRow, At, Sound, IInv, DataOK, DbOK
  <2>2. l \in Locals
    BY <1>0, <2>1 DEF Locals
  <2>3. Proceeds(th) /\ Typed
    <3>1. CASE Miss(th)
      BY <3>1, MissMoves
    <3>2. CASE Continue(th, "rd_file", l) /\ UNCHANGED lease
      BY <2>2, <3>2, ContinueMoves
      DEF Labels, MutexLabels, FreeLabels, RcLabels, Sound, lease, IInv, DataOK, RestOK
    <3> QED BY <1>1, <3>1, <3>2 DEF RdRow
  <2>4. DataOK'
    BY <1>1, <2>3 DEF RdRow, Proceeds, Moves,
       IInv, DataOK, DbOK, FsOK, LocksOK, RestOK, db, fs, bounds
  <2>5. Yields(th)
    BY <1>1 DEF RdRow, Yields, db
  <2> QED BY <2>3, <2>4, <2>5, MovesPreserves
<1>2. CASE RdFile(th)
  <2>1. Proceeds(th)
    <3>1. CASE Return(th)
      BY <3>1, ReturnMoves
    <3>2. CASE \E label \in {"rd_orphan", "qr_row"} : Continue(th, label, loc[th])
      BY <1>0, <3>2, ContinueMoves
      DEF Labels, MutexLabels, FreeLabels, RcLabels, Sound
    <3> QED BY <1>2, <3>1, <3>2 DEF RdFile
  <2>2. Typed
    BY <1>0, <1>2 DEF RdFile, lease, IInv, DataOK, RestOK
  <2>3. DataOK'
    BY <1>2, <2>1, <2>2 DEF RdFile, Proceeds, Moves,
       IInv, DataOK, DbOK, FsOK, LocksOK, RestOK, db, fs, bounds
  <2>4. Yields(th)
    BY <1>2 DEF RdFile, Yields, db
  <2> QED BY <2>1, <2>3, <2>4, MovesPreserves
<1>3. CASE RdOrphan(th)
  <2>1. Proceeds(th) /\ Typed
    BY <1>3, MissMoves DEF RdOrphan
  <2>2. DataOK'
    BY <1>3, <2>1 DEF RdOrphan, Proceeds, Moves,
       IInv, DataOK, DbOK, FsOK, LocksOK, RestOK, fs, bounds
  <2>3. Yields(th)
    BY <1>3 DEF RdOrphan, WriteLockFree, Yields
  <2> QED BY <2>1, <2>2, <2>3, MovesPreserves
<1> QED BY <1>1, <1>2, <1>3

(* The steps that drop a blob found damaged preserve the invariant.         *)
LEMMA QuarantineStep ==
  ASSUME IInv, NEW th \in Threads,
         QrRow(th) \/ QrPin(th) \/ QrUnlink(th) \/ QrUnlinkFails(th) \/ QrDelete(th)
  PROVE  IInv'
<1>1. /\ Proceeds(th)
      /\ held' \in [Threads -> Keys \cup {None}]
      /\ got' \in [Threads -> Keys \cup {None}]
  <2>1. CASE Miss(th)
    BY <2>1, MissMoves
  <2>2. CASE /\ UNCHANGED lease
             /\ \E label \in {"qr_pin", "qr_unlink", "qr_delete"} : Continue(th, label, loc[th])
    BY <2>2, LocalsTyped, ContinueMoves
    DEF Labels, MutexLabels, FreeLabels, RcLabels, Sound, lease, IInv, DataOK, RestOK
  <2> QED BY <2>1, <2>2 DEF QrRow, QrPin, QrUnlink, QrUnlinkFails, QrDelete, lease
<1>2. mutex' \in [Instances -> Threads \cup {None}]
  BY MutexSteps DEF QrRow, QrPin, QrUnlink, QrUnlinkFails, QrDelete
<1>3. DbOK'
  BY DEF QrRow, QrPin, QrUnlink, QrUnlinkFails, QrDelete, Untrack, IInv, DataOK, DbOK, db
<1>4. FsOK'
  BY DEF QrRow, QrPin, QrUnlink, QrUnlinkFails, QrDelete, IInv, DataOK, FsOK, fs
<1>5. DataOK'
  BY <1>1, <1>2, <1>3, <1>4 DEF QrRow, QrPin, QrUnlink, QrUnlinkFails, QrDelete,
     Proceeds, Moves, IInv, DataOK, LocksOK, RestOK, bounds
<1>6. Yields(th)
  BY DEF QrRow, QrPin, QrUnlink, QrUnlinkFails, QrDelete, WriteLockFree, Yields, db
<1> QED BY <1>1, <1>5, <1>6, MovesPreserves

(* Removing one row preserves the invariant.                                *)
LEMMA RemoveStep ==
  ASSUME IInv, NEW th \in Threads, NEW t \in Targets, NEW o \in {"removeret", "casremove"},
         entries[t] \in Keys, WriteLockFree, Call(th, o), Removed(th, o, t),
         keylock' \in [Targets -> Threads \cup {None}]
  PROVE  IInv'
<1> DEFINE l == [NoLocals EXCEPT !.op = o, !.todo = {entries[t]}]
<1>1. l \in Locals
  BY NoLocalsType DEF Locals, OpNames
<1>2. Moves(th, "rc_check", l)
  BY <1>1 DEF Removed, Goto, Moves, Labels, MutexLabels, Sound
<1>3. Proceeds(th)
  BY <1>2 DEF Proceeds, RcLabels
<1>4. DataOK'
  <2>1. DbOK'
    BY DEF Removed, IInv, DataOK, DbOK
  <2>2. mutex' \in [Instances -> Threads \cup {None}]
    BY MutexSteps DEF Removed
  <2> QED BY <2>1, <2>2 DEF Removed, Call, IInv, DataOK, FsOK, LocksOK, RestOK, fs, lease
<1>5. Yields(th)
  BY DEF WriteLockFree, Yields
<1> QED BY <1>3, <1>4, <1>5, MovesPreserves

(* Starting the removal of a prefix preserves the invariant.                *)
LEMMA RemovePrefixStep ==
  ASSUME IInv, NEW th \in Threads, NEW P \in Prefixes, RemovePrefix(th, P)
  PROVE  IInv'
<1> DEFINE l == [NoLocals EXCEPT !.op = "remove",
                   !.snap = [t \in Targets |-> IF t \in P THEN entries[t] ELSE None]]
<1>1. l \in Locals
  BY NoLocalsType DEF Locals, OpNames, IInv, DataOK, DbOK
<1>2. Proceeds(th)
  BY <1>1, ContinueMoves
  DEF RemovePrefix, Labels, MutexLabels, FreeLabels, RcLabels, Sound
<1>3. DataOK'
  BY <1>2, MutexSteps DEF RemovePrefix, Call, Proceeds, Moves,
     IInv, DataOK, DbOK, FsOK, LocksOK, RestOK, db, fs, lease
<1>4. Yields(th)
  BY DEF RemovePrefix, Yields, db
<1> QED BY <1>2, <1>3, <1>4, MovesPreserves

(* Deleting the rows of a prefix one by one preserves the invariant.        *)
LEMMA RmDeleteStep ==
  ASSUME IInv, NEW th \in Threads, RmDelete(th)
  PROVE  IInv'
<1> DEFINE l(t) == [loc[th] EXCEPT !.snap[t] = None, !.todo = @ \cup {loc[th].snap[t]}]
<1>1. PICK t \in Targets :
        /\ loc[th].snap[t] # None
        /\ entries' = [entries EXCEPT ![t] = None]
        /\ \E label \in {"rc_check", "rm_delete"} : Continue(th, label, l(t))
  BY DEF RmDelete
<1>2. loc[th] \in Locals
  BY LocalsTyped
<1>3. loc[th].snap[t] \in Keys
  BY <1>1, <1>2 DEF Locals
<1>4. l(t) \in Locals
  BY <1>2, <1>3 DEF Locals
<1>5. Proceeds(th)
  BY <1>1, <1>4, ContinueMoves DEF Labels, MutexLabels, FreeLabels, RcLabels, Sound
<1>6. DataOK'
  BY <1>1, <1>5 DEF RmDelete, Proceeds, Moves,
     IInv, DataOK, DbOK, FsOK, LocksOK, RestOK, fs, lease, bounds
<1>7. Yields(th)
  BY DEF RmDelete, WriteLockFree, Yields
<1> QED BY <1>5, <1>6, <1>7, MovesPreserves

(* Starting an open or a recovery preserves the invariant.                  *)
LEMMA OpenStep ==
  ASSUME IInv, NEW th \in Threads, Open(th) \/ Recover(th)
  PROVE  IInv'
<1> DEFINE o == [NoLocals EXCEPT !.op = "open", !.reset = ~Sentinel(Inst(th))]
<1> DEFINE r == [NoLocals EXCEPT !.op = "recover"]
<1>1. Sentinel(Inst(th)) \in BOOLEAN
  BY DEF Sentinel
<1>2. o \in Locals
  BY <1>1, NoLocalsType DEF Locals, OpNames
<1>3. r \in Locals
  BY NoLocalsType DEF Locals, OpNames
<1>4. Proceeds(th)
  BY <1>2, <1>3, ContinueMoves
  DEF Open, Recover, Labels, MutexLabels, FreeLabels, RcLabels, Sound
<1>5. DataOK'
  BY <1>4 DEF Open, Recover, Call, Proceeds, Moves,
     IInv, DataOK, DbOK, FsOK, LocksOK, RestOK, db, fs, lease, bounds
<1>6. Yields(th)
  BY DEF Open, Recover, Yields, db
<1> QED BY <1>4, <1>5, <1>6, MovesPreserves

(* The steps of a recovery preserve the invariant.                          *)
LEMMA RecoverStep ==
  ASSUME IInv, NEW th \in Threads,
         \/ RvSweep(th) \/ RvRows(th) \/ RvRow(th) \/ RvDelete(th)
         \/ RvReset(th) \/ RvOrphans(th)
  PROVE  IInv'
<1>0. loc[th] \in Locals
  BY LocalsTyped
<1>1. Proceeds(th) /\ mutex' \in [Instances -> Threads \cup {None}]
  <2>1. CASE RvSweep(th)
    <3> DEFINE alone == loc[th].reset /\ \A j \in Instances \ {Inst(th)} : ~Sentinel(j)
    <3>1. alone \in BOOLEAN
      OBVIOUS
    <3>2. [loc[th] EXCEPT !.reset = alone] \in Locals
      BY <1>0, <3>1 DEF Locals
    <3> QED BY <2>1, <3>2, ContinueMoves, MutexSteps
            DEF RvSweep, Labels, MutexLabels, FreeLabels, RcLabels, Sound
  <2>2. CASE RvRows(th)
    <3>1. [loc[th] EXCEPT !.snap = entries] \in Locals
      BY <1>0 DEF Locals, IInv, DataOK, DbOK
    <3> QED BY <2>2, <3>1, ContinueMoves, MutexSteps
            DEF RvRows, Labels, MutexLabels, FreeLabels, RcLabels, Sound
  <2>3. CASE RvRow(th)
    <3>1. CASE Continue(th, "rv_reset", [loc[th] EXCEPT !.tgt = None])
      <4>1. [loc[th] EXCEPT !.tgt = None] \in Locals
        BY <1>0 DEF Locals
      <4> QED BY <2>3, <3>1, <4>1, ContinueMoves, MutexSteps
              DEF RvRow, Labels, MutexLabels, FreeLabels, RcLabels, Sound
    <3>2. ASSUME NEW t \in Targets, NEW label \in {"rv_row", "rv_delete"},
                 Continue(th, label, [loc[th] EXCEPT !.snap[t] = None, !.tgt = t])
          PROVE  Proceeds(th) /\ mutex' \in [Instances -> Threads \cup {None}]
      <4>1. [loc[th] EXCEPT !.snap[t] = None, !.tgt = t] \in Locals
        BY <1>0 DEF Locals
      <4> QED BY <2>3, <3>2, <4>1, ContinueMoves, MutexSteps
              DEF RvRow, Labels, MutexLabels, FreeLabels, RcLabels, Sound
    <3> QED BY <2>3, <3>1, <3>2 DEF RvRow
  <2>4. CASE RvDelete(th) \/ RvReset(th)
    BY <1>0, <2>4, ContinueMoves, MutexSteps
    DEF RvDelete, RvReset, Labels, MutexLabels, FreeLabels, RcLabels, Sound
  <2>5. CASE RvOrphans(th)
    <3>1. [loc[th] EXCEPT !.todo = {k \in tracked : Reclaimable(k)}] \in Locals
      BY <1>0 DEF Locals, IInv, DataOK, DbOK
    <3> QED BY <2>5, <3>1, ReclaimedMoves DEF RvOrphans
  <2> QED BY <2>1, <2>2, <2>3, <2>4, <2>5
<1>2. DbOK'
  <2>1. CASE RvDelete(th)
    BY <2>1 DEF RvDelete, IInv, DataOK, DbOK
  <2>2. CASE RvReset(th)
    BY <2>2 DEF RvReset, IInv, DataOK, DbOK
  <2>3. CASE UNCHANGED db
    BY <2>3 DEF IInv, DataOK, DbOK, db
  <2> QED BY <2>1, <2>2, <2>3 DEF RvSweep, RvRows, RvRow, RvOrphans
<1>3. DataOK'
  BY <1>1, <1>2 DEF RvSweep, RvRows, RvRow, RvDelete, RvReset, RvOrphans,
     Proceeds, Moves, IInv, DataOK, FsOK, LocksOK, RestOK, fs, lease, bounds
<1>4. Yields(th)
  BY DEF RvSweep, RvRows, RvRow, RvDelete, RvReset, RvOrphans, WriteLockFree, Yields, db
<1> QED BY <1>1, <1>3, <1>4, MovesPreserves
-----------------------------------------------------------------------------
(* The steps that are not a thread's.                                       *)

(* Closing an instance preserves the invariant.                             *)
LEMMA CloseStep ==
  ASSUME IInv, NEW i \in Instances, Close(i)
  PROVE  IInv'
  BY DEF Close, IInv, DataOK, DbOK, FsOK, LocksOK, RestOK, ControlOK, LocalsSound, Sound,
     Reclaiming, Referenced, db, fs, locks, lease

(* Damage to a blob from outside preserves the invariant.                   *)
LEMMA DamageStep ==
  ASSUME IInv, NEW k \in Keys, Damage(k)
  PROVE  IInv'
  BY DEF Damage, IInv, DataOK, DbOK, FsOK, LocksOK, RestOK, ControlOK, LocalsSound, Sound,
     Reclaiming, Referenced, db, locks, lease, bounds

(* A crash of a process, which rolls back its transaction, preserves the    *)
(* invariant.                                                               *)
LEMMA CrashStep ==
  ASSUME IInv, NEW i \in Instances, Crash(i)
  PROVE  IInv'
<1>1. DataOK'
  BY DEF Crash, IInv, DataOK, DbOK, FsOK, LocksOK, RestOK, db, fs
<1>2. ControlOK'
  BY NoLocalsType DEF Crash, IInv, ControlOK, Labels, FreeLabels
<1>3. \A u \in Threads : IF Inst(u) = i THEN pc'[u] = "idle"
                         ELSE pc'[u] = pc[u] /\ loc'[u] = loc[u]
  BY DEF Crash, IInv, ControlOK
<1>4. LocalsSound'
  BY <1>3 DEF IInv, LocalsSound, Sound
<1>5. ASSUME NEW u \in Threads PROVE Reclaiming(u)'
  <2>1. CASE pc'[u] \in RcLabels
    <3>1. Inst(u) # i /\ pc'[u] = pc[u] /\ loc'[u] = loc[u]
      BY <1>3, <2>1 DEF RcLabels
    <3>2. writer = u /\ ~Referenced(loc[u].cur) /\ lease_count[loc[u].cur] = 0
      BY <2>1, <3>1 DEF IInv, Reclaiming
    <3>3. writer' = u
      BY <3>1, <3>2 DEF Crash
    <3> QED BY <3>1, <3>2, <3>3 DEF Crash, Reclaiming, Referenced, db
  <2> QED BY <2>1 DEF Reclaiming
<1> QED BY <1>1, <1>2, <1>4, <1>5 DEF IInv

-----------------------------------------------------------------------------
(* The initial state satisfies the invariant.                               *)
LEMMA InitHolds == Init => IInv
<1> SUFFICES ASSUME Init PROVE IInv
  OBVIOUS
<1>1. DataOK
  BY DEF Init, DataOK, DbOK, FsOK, LocksOK, RestOK
<1>2. ControlOK
  BY NoLocalsType DEF Init, ControlOK, Labels, FreeLabels
<1>3. LocalsSound /\ \A th \in Threads : Reclaiming(th)
  BY DEF Init, LocalsSound, Sound, Reclaiming, RcLabels
<1> QED BY <1>1, <1>2, <1>3 DEF IInv

(* Starting any call preserves the invariant.                               *)
LEMMA StartStep ==
  ASSUME IInv, NEW th \in Threads, Start(th)
  PROVE  IInv'
<1>1. ASSUME NEW t \in Targets, NEW k \in Keys, Put(th, t, k) \/ PutAndLease(th, t, k)
      PROVE  IInv'
  BY <1>1, StageStep DEF Put, PutAndLease, OpNames
<1>2. ASSUME NEW t \in Targets, NEW e \in Keys \cup {None}, NEW k \in Keys,
             CompareAndPut(th, t, e, k)
      PROVE  IInv'
  BY <1>2, StageStep DEF CompareAndPut, OpNames
<1>3. ASSUME NEW t \in Targets, NEW e \in Keys, CompareAndRemove(th, t, e)
      PROVE  IInv'
  <2>1. keylock' \in [Targets -> Threads \cup {None}]
    BY <1>3 DEF CompareAndRemove, IInv, DataOK, LocksOK
  <2> QED BY <1>3, <2>1, RemoveStep DEF CompareAndRemove
<1>4. ASSUME NEW t \in Targets, RemoveIndexReturning(th, t)
      PROVE  IInv'
  <2>1. entries[t] \in Keys /\ keylock' \in [Targets -> Threads \cup {None}]
    BY <1>4 DEF RemoveIndexReturning, IInv, DataOK, LocksOK, FsOK
  <2> QED BY <1>4, <2>1, RemoveStep DEF RemoveIndexReturning
<1>5. ASSUME NEW t \in Targets, Get(th, t) \/ Lookup(th, t)
      PROVE  IInv'
  BY <1>5, ReadStartStep
<1>6. ASSUME NEW P \in Prefixes, RemovePrefix(th, P)
      PROVE  IInv'
  BY <1>6, RemovePrefixStep
<1>7. CASE DropLease(th) \/ Gc(th) \/ Open(th) \/ Recover(th)
  BY <1>7, DropLeaseStep, GcStep, OpenStep
<1> QED BY <1>1, <1>2, <1>3, <1>4, <1>5, <1>6, <1>7 DEF Start

(* Every step preserves the invariant.                                      *)
LEMMA NextPreserves == IInv /\ [Next]_vars => IInv'
<1> SUFFICES ASSUME IInv, [Next]_vars PROVE IInv'
  OBVIOUS
<1>1. ASSUME NEW th \in Threads, Step(th)
      PROVE  IInv'
  BY <1>1, PutTxStep, PutLinkStep, RcCheckStep, RcUnlinkStep, RcEndStep,
     EvStartStep, EvPickStep, EvRowStep, EvUnlinkStep, EvUntrackStep,
     LeaseStep, DropStep, ReadStep, QuarantineStep, RmDeleteStep, RecoverStep
  DEF Step
<1>2. ASSUME NEW th \in Threads, Fault(th)
      PROVE  IInv'
  BY <1>2, PutLinkStep, RcEndStep, EvUnlinkStep, DropStep, QuarantineStep DEF Fault
<1>3. ASSUME NEW i \in Instances, Close(i) \/ Crash(i)
      PROVE  IInv'
  BY <1>3, CloseStep, CrashStep
<1>4. CASE UNCHANGED vars
  BY <1>4 DEF vars, db, fs, locks, lease, bounds, IInv, DataOK, DbOK, FsOK, LocksOK, RestOK,
     ControlOK, LocalsSound, Sound, Reclaiming, Referenced
<1> QED BY <1>1, <1>2, <1>3, <1>4, StartStep, DamageStep DEF Next

(* IInv is an invariant of the byte store: what a thread tested inside the  *)
(* reclaim transaction holds until it commits.                              *)
THEOREM Inductive == Spec => []IInv
  BY InitHolds, NextPreserves, PTL DEF Spec

(* Every variable of the byte store keeps its type, no damaged blob is off  *)
(* the disk, and a key with no tracking row never has a lease count.        *)
THEOREM TypeCorrect == Spec => []TypeOK
<1>1. IInv => TypeOK
  BY TypeOKSplit DEF IInv
<1> QED BY <1>1, Inductive, PTL

(* reclaim_unreferenced_cas never unlinks a blob that a row names or that a *)
(* counted lease holds, whatever the other threads and processes do: the    *)
(* IMMEDIATE transaction keeps what it checked true until it commits.       *)
THEOREM ReclaimIsSafe == Spec => []ReclaimSafe
<1>1. IInv => ReclaimSafe
  BY DEF IInv, Reclaiming, ReclaimSafe, RcLabels
<1> QED BY <1>1, Inductive, PTL
=============================================================================
