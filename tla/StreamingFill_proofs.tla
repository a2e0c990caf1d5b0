------------------------ MODULE StreamingFill_proofs ------------------------
(***************************************************************************)
(* The streaming budget holds for any finite number of fills and any        *)
(* limits, cap and chunk sizes.                                             *)
(***************************************************************************)
EXTENDS StreamingFill, FiniteSetTheorems, TLAPS

USE FillsAssumption, LimitsAssumption

(* Totals of natural-valued functions over the fills.                       *)

(* A total is a natural number.                                             *)
LEMMA TotalType ==
  ASSUME NEW F \in [Fills -> Nat]
  PROVE  IsFiniteSet(Units(F)) /\ Total(F) \in Nat
<1> DEFINE part(f) == {f} \X (1 .. F[f])
<1> DEFINE parts == {part(f) : f \in Fills}
<1> DEFINE h == [f \in Fills |-> part(f)]
<1>1. h \in Surjection(Fills, parts)
  BY DEF Surjection
<1>2. IsFiniteSet(parts)
  BY <1>1, FS_Surjection
<1>3. \A S \in parts : IsFiniteSet(S)
  <2> SUFFICES ASSUME NEW f \in Fills PROVE IsFiniteSet(part(f))
    OBVIOUS
  <2>1. IsFiniteSet(1 .. F[f])
    BY FS_Interval
  <2>2. IsFiniteSet({f})
    BY FS_Singleton
  <2> QED BY <2>1, <2>2, FS_Product
<1>4. IsFiniteSet(UNION parts)
  BY <1>2, <1>3, FS_UNION
<1> QED BY <1>4, FS_CardinalityType DEF Units, Total

(* Extending an interval by d.                                              *)
LEMMA IntervalExtend ==
  ASSUME NEW a \in Nat, NEW d \in Nat
  PROVE  /\ 1 .. (a + d) = (1 .. a) \cup ((a + 1) .. (a + d))
         /\ IsFiniteSet((a + 1) .. (a + d))
         /\ Cardinality((a + 1) .. (a + d)) = d
<1>1. 1 .. (a + d) = (1 .. a) \cup ((a + 1) .. (a + d))
  OBVIOUS
<1>2. a + 1 \in Int /\ a + d \in Int
  OBVIOUS
<1>3. /\ IsFiniteSet((a + 1) .. (a + d))
      /\ Cardinality((a + 1) .. (a + d)) = IF a + 1 > a + d THEN 0 ELSE (a + d) - (a + 1) + 1
  BY <1>2, FS_Interval
<1>4. (IF a + 1 > a + d THEN 0 ELSE (a + d) - (a + 1) + 1) = d
  OBVIOUS
<1> QED BY <1>1, <1>3, <1>4

(* A pointwise smaller function has a smaller total.                        *)
LEMMA TotalMonotone ==
  ASSUME NEW F \in [Fills -> Nat], NEW G \in [Fills -> Nat], \A f \in Fills : F[f] <= G[f]
  PROVE  Total(F) <= Total(G)
<1>1. Units(F) \subseteq Units(G)
  <2>1. \A f \in Fills : 1 .. F[f] \subseteq 1 .. G[f]
    OBVIOUS
  <2> QED BY <2>1 DEF Units
<1> QED BY <1>1, TotalType, FS_Subset DEF Total

(* Adding d to one value adds d to the total.                               *)
LEMMA TotalAdd ==
  ASSUME NEW F \in [Fills -> Nat], NEW g \in Fills, NEW d \in Nat,
         NEW G \in [Fills -> Nat], \A f \in Fills : G[f] = IF f = g THEN F[g] + d ELSE F[f]
  PROVE  Total(G) = Total(F) + d
<1> DEFINE more == (F[g] + 1) .. (F[g] + d)
<1> DEFINE new == {g} \X more
<1>0. /\ 1 .. (F[g] + d) = (1 .. F[g]) \cup more
      /\ IsFiniteSet(more) /\ Cardinality(more) = d
  BY IntervalExtend
<1>2. Units(G) = Units(F) \cup new
  <2> HIDE DEF more
  <2> QED BY <1>0 DEF Units
<1>3. Units(F) \cap new = {}
  BY DEF Units
<1>4. IsFiniteSet(new) /\ Cardinality(new) = d
  <2> HIDE DEF more
  <2>1. IsFiniteSet({g}) /\ Cardinality({g}) = 1
    BY FS_Singleton
  <2>2. IsFiniteSet(new) /\ Cardinality(new) = 1 * d
    BY <1>0, <2>1, FS_Product
  <2> QED BY <2>2
<1>5. IsFiniteSet(Units(F)) /\ Total(F) \in Nat
  BY TotalType
<1>6. Cardinality(Units(G)) = Cardinality(Units(F)) + Cardinality(new) - Cardinality({})
  BY <1>2, <1>3, <1>4, <1>5, FS_Union
<1>7. Cardinality({}) = 0
  BY FS_EmptySet
<1> QED BY <1>4, <1>5, <1>6, <1>7 DEF Total

-----------------------------------------------------------------------------
Counted == {f \in Fills : pc[f] # "none"}

(* Charges fit the budget even while a failed charge inflates the counter.  *)
ChargesBounded == Total(bytes_charged) <= MaxStaging

(* What is on disk, and the chunk about to be written, has been charged;    *)
(* a handle outside write_chunk and commit has no file, but for one whose   *)
(* removal has just failed.                                                 *)
StagedCharged ==
  \A f \in Fills :
    /\ staged[f] + (IF pc[f] = "charged" THEN chunk[f] ELSE 0) <= bytes_charged[f]
    /\ pc[f] \in {"none", "refused", "reserved", "releasing"} => staged[f] = 0

(* The inductive invariant.                                                 *)
IInv == TypeOK /\ Conserved /\ FillsBounded /\ ChargesBounded /\ StagedCharged

(* The sets the slot counter counts are finite, and holders are counted.    *)
LEMMA CountedFinite ==
  /\ IsFiniteSet(Counted) /\ IsFiniteSet(Holders)
  /\ Cardinality(Counted) \in Nat /\ Cardinality(Holders) \in Nat
  /\ Cardinality(Holders) <= Cardinality(Counted)
<1>1. Counted \subseteq Fills /\ Holders \subseteq Counted
  BY DEF Counted, Holders
<1>2. IsFiniteSet(Counted)
  BY <1>1, FS_Subset
<1>3. IsFiniteSet(Holders) /\ Cardinality(Holders) <= Cardinality(Counted)
  BY <1>1, <1>2, FS_Subset
<1> QED BY <1>2, <1>3, FS_CardinalityType

(* What a handle has in the byte counter is a natural number.               *)
LEMMA DueType == TypeOK => Due \in [Fills -> Nat]
  BY DEF TypeOK, Due

(* A handle that keeps its slot changes neither count.                      *)
LEMMA KeepsSlot ==
  ASSUME TypeOK, NEW f \in Fills, NEW label, Goto(f, label),
         pc[f] \notin {"none", "refused"}, label \notin {"none", "refused"}
  PROVE  Counted' = Counted /\ Holders' = Holders
  BY DEF TypeOK, Goto, Counted, Holders

(* A step that leaves the bytes alone and the handle's label other than     *)
(* "over" leaves what is due alone.                                         *)
LEMMA KeepsDue ==
  ASSUME TypeOK, NEW f \in Fills, NEW label, Goto(f, label),
         pc[f] # "over", label # "over", bytes_charged' = bytes_charged, chunk' = chunk
  PROVE  Due' = Due
  BY DEF TypeOK, Goto, Due

(* Raising the slot counter and testing it preserves the invariant.         *)
LEMMA TryAcquireStep ==
  ASSUME IInv, NEW f \in Fills, TryAcquire(f)
  PROVE  IInv'
<1>1. PICK label \in {"refused", "reserved"} :
        Goto(f, label) /\ (label = "reserved" => in_flight < MaxFills)
  BY DEF TryAcquire, IInv, TypeOK
<1>2. TypeOK'
  BY <1>1 DEF IInv, TypeOK, TryAcquire, Goto, FillLabels
<1>3. Due' = Due
  BY <1>1, KeepsDue DEF IInv, TryAcquire
<1>4. Counted' = Counted \cup {f} /\ f \notin Counted
  BY <1>1 DEF IInv, TypeOK, TryAcquire, Goto, Counted
<1>5. Cardinality(Counted)' = Cardinality(Counted) + 1
  BY <1>4, CountedFinite, FS_AddElement
<1>6. Conserved'
  BY <1>3, <1>5 DEF IInv, Conserved, TryAcquire, Counted, Total, Units
<1>7. FillsBounded'
  <2>1. CASE label = "refused"
    <3>1. Holders' = Holders
      BY <1>1, <2>1 DEF IInv, TypeOK, TryAcquire, Goto, Holders
    <3> QED BY <3>1 DEF IInv, FillsBounded
  <2>2. CASE label = "reserved"
    <3>1. Holders' = Holders \cup {f} /\ f \notin Holders
      BY <1>1, <2>2 DEF IInv, TypeOK, TryAcquire, Goto, Holders
    <3>2. Cardinality(Holders)' = Cardinality(Holders) + 1
      BY <3>1, CountedFinite, FS_AddElement
    <3>3. Cardinality(Holders) < MaxFills
      BY <1>1, <2>2, CountedFinite DEF IInv, TypeOK, Conserved, Counted
    <3> QED BY <3>2, <3>3, CountedFinite DEF FillsBounded
  <2> QED BY <2>1, <2>2
<1>8. ChargesBounded' /\ StagedCharged'
  BY <1>1 DEF IInv, TypeOK, ChargesBounded, StagedCharged, TryAcquire, Goto, Total, Units
<1> QED BY <1>2, <1>6, <1>7, <1>8 DEF IInv

(* A refused fill that takes its slot back preserves the invariant.         *)
LEMMA RefuseStep ==
  ASSUME IInv, NEW f \in Fills, Refuse(f)
  PROVE  IInv'
<1>1. Due' = Due
  BY KeepsDue DEF IInv, Refuse
<1>2. Counted' = Counted \ {f} /\ f \in Counted
  BY DEF IInv, TypeOK, Refuse, Goto, Counted
<1>3. Cardinality(Counted)' = Cardinality(Counted) - 1
  BY <1>2, CountedFinite, FS_RemoveElement
<1>4. in_flight - 1 \in Nat
  <2>1. Cardinality(Counted)' \in Nat
    BY <1>2, CountedFinite, FS_RemoveElement, FS_CardinalityType
  <2> QED BY <1>3, <2>1 DEF IInv, Conserved, Counted
<1>5. TypeOK'
  BY <1>4 DEF IInv, TypeOK, Refuse, Goto, FillLabels
<1>6. Conserved'
  BY <1>1, <1>3 DEF IInv, Conserved, Refuse, Counted, Total, Units
<1>7. FillsBounded'
  <2>1. Holders' = Holders
    BY DEF IInv, TypeOK, Refuse, Goto, Holders
  <2> QED BY <2>1 DEF IInv, FillsBounded
<1>8. ChargesBounded' /\ StagedCharged'
  BY DEF IInv, TypeOK, ChargesBounded, StagedCharged, Refuse, Goto, Total, Units
<1> QED BY <1>5, <1>6, <1>7, <1>8 DEF IInv

(* Creating the staging file, or failing to, preserves the invariant.       *)
LEMMA CreateFileStep ==
  ASSUME IInv, NEW f \in Fills, CreateFile(f)
  PROVE  IInv'
<1>1. PICK label \in {"open", "closing"} : Goto(f, label)
  BY DEF CreateFile
<1>2. TypeOK'
  BY <1>1 DEF IInv, TypeOK, CreateFile, counters, Goto, FillLabels
<1>3. Due' = Due /\ Counted' = Counted /\ Holders' = Holders
  BY <1>1, KeepsDue, KeepsSlot DEF IInv, CreateFile
<1>4. Conserved' /\ FillsBounded'
  BY <1>3 DEF IInv, Conserved, FillsBounded, CreateFile, counters, Counted, Total, Units
<1>5. ChargesBounded' /\ StagedCharged'
  BY <1>1 DEF IInv, TypeOK, ChargesBounded, StagedCharged, CreateFile, Goto, Total, Units
<1> QED BY <1>2, <1>4, <1>5 DEF IInv

(* Charging a chunk to the staging budget preserves the invariant.          *)
LEMMA ChargeStep ==
  ASSUME IInv, NEW f \in Fills, NEW delta \in Chunks, Charge(f, delta)
  PROVE  IInv'
<1>0. delta \in Nat
  OBVIOUS
<1>1. PICK label \in {"charged", "over"} :
        /\ Goto(f, label)
        /\ IF label = "charged"
           THEN /\ reserved_bytes + delta <= MaxStaging
                /\ bytes_charged' = [bytes_charged EXCEPT ![f] = bytes_charged[f] + delta]
           ELSE bytes_charged' = bytes_charged
  BY DEF Charge
<1>2. TypeOK'
  BY <1>0, <1>1 DEF IInv, TypeOK, Charge, Goto, FillLabels
<1>3. Counted' = Counted /\ Holders' = Holders
  BY <1>1, KeepsSlot DEF IInv, Charge
<1>4. \A u \in Fills : Due'[u] = IF u = f THEN Due[f] + delta ELSE Due[u]
  BY <1>0, <1>1 DEF IInv, TypeOK, Charge, Goto, Due
<1>5. Due \in [Fills -> Nat] /\ Due' \in [Fills -> Nat]
  BY <1>2, DueType DEF IInv, TypeOK, Due
<1>6. Total(Due') = Total(Due) + delta
  BY <1>0, <1>4, <1>5, TotalAdd
<1>7. Conserved' /\ FillsBounded'
  BY <1>3, <1>6 DEF IInv, Conserved, FillsBounded, Charge, Counted, Total, Units
<1>8. ChargesBounded'
  <2>1. CASE label = "charged"
    <3>1. bytes_charged \in [Fills -> Nat] /\ bytes_charged' \in [Fills -> Nat]
      BY <1>2 DEF IInv, TypeOK
    <3>2. \A u \in Fills : bytes_charged'[u] = IF u = f THEN bytes_charged[f] + delta
                                               ELSE bytes_charged[u]
      BY <1>0, <1>1, <2>1, <3>1
    <3>3. Total(bytes_charged') = Total(bytes_charged) + delta
      BY <1>0, <3>1, <3>2, TotalAdd
    <3>4. Total(bytes_charged) <= Total(Due)
      BY <1>5, <3>1, TotalMonotone DEF Due, IInv, TypeOK
    <3>5. Total(bytes_charged) \in Nat /\ Total(Due) \in Nat
      BY <1>5, <3>1, TotalType
    <3> QED BY <1>0, <1>1, <2>1, <3>3, <3>4, <3>5
            DEF IInv, Conserved, ChargesBounded, Total, Units
  <2>2. CASE label = "over"
    BY <1>1, <2>2 DEF IInv, ChargesBounded, Total, Units
  <2> QED BY <2>1, <2>2
<1>9. StagedCharged'
  BY <1>0, <1>1 DEF IInv, TypeOK, StagedCharged, Charge, Goto
<1> QED BY <1>2, <1>7, <1>8, <1>9 DEF IInv

(* Giving back d bytes of what is due.                                      *)
LEMMA GiveBack ==
  ASSUME IInv, NEW f \in Fills, NEW d \in Nat, Due' \in [Fills -> Nat],
         \A u \in Fills : Due[u] = IF u = f THEN Due'[f] + d ELSE Due'[u]
  PROVE  Total(Due') = reserved_bytes - d /\ reserved_bytes - d \in Nat
<1>1. Due \in [Fills -> Nat]
  BY DueType DEF IInv
<1>2. Total(Due) = Total(Due') + d
  BY <1>1, TotalAdd
<1>3. Total(Due') \in Nat
  BY TotalType
<1> QED BY <1>2, <1>3 DEF IInv, TypeOK, Conserved

(* Taking back a charge that did not fit preserves the invariant.           *)
LEMMA UnchargeStep ==
  ASSUME IInv, NEW f \in Fills, Uncharge(f)
  PROVE  IInv'
<1>1. /\ pc' = [pc EXCEPT ![f] = "open"] /\ pc[f] = "over"
      /\ bytes_charged' = bytes_charged /\ chunk' = chunk
      /\ chunk[f] \in Nat
  BY DEF Uncharge, Goto, IInv, TypeOK
<1>2. /\ Due' \in [Fills -> Nat]
      /\ \A u \in Fills : Due[u] = IF u = f THEN Due'[f] + chunk[f] ELSE Due'[u]
  BY <1>1 DEF IInv, TypeOK, Due
<1>3. Total(Due') = reserved_bytes - chunk[f] /\ reserved_bytes - chunk[f] \in Nat
  BY <1>1, <1>2, GiveBack
<1>4. TypeOK'
  BY <1>1, <1>3 DEF IInv, TypeOK, Uncharge, FillLabels
<1>5. Counted' = Counted /\ Holders' = Holders
  BY <1>1, KeepsSlot DEF IInv, Uncharge
<1>6. Conserved' /\ FillsBounded'
  BY <1>3, <1>5 DEF IInv, Conserved, FillsBounded, Uncharge, Counted, Total, Units
<1>7. ChargesBounded' /\ StagedCharged'
  BY <1>1 DEF IInv, TypeOK, ChargesBounded, StagedCharged, Uncharge, Total, Units
<1> QED BY <1>4, <1>6, <1>7 DEF IInv

(* Writing a charged chunk, or failing to, preserves the invariant.         *)
LEMMA WriteStep ==
  ASSUME IInv, NEW f \in Fills, WriteAll(f) \/ WriteFails(f)
  PROVE  IInv'
<1>1. PICK label \in {"open", "failed"} : Goto(f, label)
  BY DEF WriteAll, WriteFails
<1>2. PICK n \in 0 .. chunk[f] : staged' = [staged EXCEPT ![f] = staged[f] + n]
  BY DEF WriteAll, WriteFails, IInv, TypeOK
<1>3. size' \in [Fills -> Nat] /\ n \in Nat /\ chunk[f] \in Nat /\ n <= chunk[f]
  BY DEF WriteAll, WriteFails, IInv, TypeOK
<1>4. TypeOK'
  <2>1. staged' \in [Fills -> Nat]
    BY <1>2, <1>3 DEF IInv, TypeOK
  <2>2. pc' \in [Fills -> FillLabels]
    BY <1>1 DEF IInv, TypeOK, Goto, FillLabels
  <2> QED BY <1>3, <2>1, <2>2 DEF IInv, TypeOK, WriteAll, WriteFails, counters
<1>5. Due' = Due /\ Counted' = Counted /\ Holders' = Holders
  BY <1>1, KeepsDue, KeepsSlot DEF IInv, WriteAll, WriteFails
<1>6. Conserved' /\ FillsBounded'
  BY <1>5 DEF IInv, Conserved, FillsBounded, WriteAll, WriteFails, counters, Counted, Total, Units
<1>7. ChargesBounded'
  BY DEF IInv, ChargesBounded, WriteAll, WriteFails, Total, Units
<1>8. StagedCharged'
  BY <1>1, <1>2, <1>3 DEF IInv, TypeOK, StagedCharged, WriteAll, WriteFails, Goto
<1> QED BY <1>4, <1>6, <1>7, <1>8 DEF IInv

(* Committing or abandoning a fill preserves the invariant, whether or not  *)
(* the staging file could be removed.                                       *)
LEMMA FinishStep ==
  ASSUME IInv, NEW f \in Fills, Finish(f)
  PROVE  IInv'
<1>0. staged' \in [Fills -> Nat] /\ \A u \in Fills : staged'[u] <= staged[u]
  BY DEF IInv, TypeOK, Finish
<1>1. TypeOK'
  BY <1>0 DEF IInv, TypeOK, Finish, counters, Goto, FillLabels
<1>2. Due' = Due /\ Counted' = Counted /\ Holders' = Holders
  BY KeepsDue, KeepsSlot DEF IInv, Finish
<1>3. Conserved' /\ FillsBounded'
  BY <1>2 DEF IInv, Conserved, FillsBounded, Finish, counters, Counted, Total, Units
<1>4. ChargesBounded'
  BY DEF IInv, ChargesBounded, Finish, Total, Units
<1>5. StagedCharged'
  <2>1. /\ pc' = [pc EXCEPT ![f] = "closing"] /\ UNCHANGED <<bytes_charged, chunk>>
        /\ pc[f] \in {"open", "failed"}
        /\ \A u \in Fills : u # f => staged'[u] = staged[u]
    BY DEF Finish, Goto, IInv, TypeOK
  <2> QED BY <1>0, <2>1 DEF IInv, TypeOK, StagedCharged
<1> QED BY <1>1, <1>3, <1>4, <1>5 DEF IInv

(* Returning the charged bytes preserves the invariant.                     *)
LEMMA ReleaseBytesStep ==
  ASSUME IInv, NEW f \in Fills, ReleaseBytes(f)
  PROVE  IInv'
<1>1. /\ pc' = [pc EXCEPT ![f] = "releasing"] /\ pc[f] = "closing"
      /\ bytes_charged' = [bytes_charged EXCEPT ![f] = 0]
      /\ chunk' = [chunk EXCEPT ![f] = 0]
      /\ staged' = [staged EXCEPT ![f] = 0]
      /\ bytes_charged[f] \in Nat /\ left' \in Nat
  BY DEF ReleaseBytes, Goto, IInv, TypeOK
<1>2. /\ Due' \in [Fills -> Nat]
      /\ \A u \in Fills : Due[u] = IF u = f THEN Due'[f] + bytes_charged[f] ELSE Due'[u]
  BY <1>1 DEF IInv, TypeOK, Due
<1>3. Total(Due') = reserved_bytes - bytes_charged[f] /\ reserved_bytes - bytes_charged[f] \in Nat
  BY <1>1, <1>2, GiveBack
<1>4. TypeOK'
  BY <1>1, <1>3 DEF IInv, TypeOK, ReleaseBytes, FillLabels
<1>5. Counted' = Counted /\ Holders' = Holders
  BY <1>1, KeepsSlot DEF IInv, ReleaseBytes
<1>6. Conserved' /\ FillsBounded'
  BY <1>3, <1>5 DEF IInv, Conserved, FillsBounded, ReleaseBytes, Counted, Total, Units
<1>7. ChargesBounded'
  <2>1. bytes_charged \in [Fills -> Nat] /\ bytes_charged' \in [Fills -> Nat]
    BY <1>4 DEF IInv, TypeOK
  <2>2. \A u \in Fills : bytes_charged'[u] <= bytes_charged[u]
    BY <1>1, <2>1
  <2>3. Total(bytes_charged') <= Total(bytes_charged)
    BY <2>1, <2>2, TotalMonotone
  <2>4. Total(bytes_charged') \in Nat /\ Total(bytes_charged) \in Nat
    BY <2>1, TotalType
  <2> QED BY <2>3, <2>4 DEF IInv, ChargesBounded, Total, Units
<1>8. StagedCharged'
  BY <1>1 DEF IInv, TypeOK, StagedCharged, ReleaseBytes
<1> QED BY <1>4, <1>6, <1>7, <1>8 DEF IInv

(* Returning the slot preserves the invariant.                              *)
LEMMA ReleaseSlotStep ==
  ASSUME IInv, NEW f \in Fills, ReleaseSlot(f)
  PROVE  IInv'
<1>1. Due' = Due
  BY KeepsDue DEF IInv, ReleaseSlot
<1>2. Counted' = Counted \ {f} /\ f \in Counted /\ Holders' = Holders \ {f} /\ f \in Holders
  BY DEF IInv, TypeOK, ReleaseSlot, Goto, Counted, Holders
<1>3. /\ Cardinality(Counted') = Cardinality(Counted) - 1
      /\ Cardinality(Holders') = Cardinality(Holders) - 1
      /\ Cardinality(Counted') \in Nat
  BY <1>2, CountedFinite, FS_RemoveElement, FS_CardinalityType
<1>4. TypeOK'
  BY <1>3 DEF IInv, TypeOK, Conserved, Counted, ReleaseSlot, Goto, FillLabels
<1>5. Conserved'
  BY <1>1, <1>3 DEF IInv, Conserved, ReleaseSlot, Counted, Total, Units
<1>6. FillsBounded'
  BY <1>3, CountedFinite DEF IInv, FillsBounded
<1>7. ChargesBounded' /\ StagedCharged'
  BY DEF IInv, TypeOK, ChargesBounded, StagedCharged, ReleaseSlot, Goto, Total, Units
<1> QED BY <1>4, <1>5, <1>6, <1>7 DEF IInv

(* Dropping the cache preserves the invariant.                              *)
LEMMA DropCacheStep ==
  ASSUME IInv, DropCache
  PROVE  IInv'
<1>1. UNCHANGED <<in_flight, reserved_bytes, pc, bytes_charged, size, chunk, staged>> /\ left' = 0
  BY DEF DropCache, counters
<1> QED BY <1>1 DEF IInv, TypeOK, Conserved, FillsBounded, ChargesBounded, StagedCharged,
           Holders, Due, Total, Units
-----------------------------------------------------------------------------
(* The initial state satisfies the invariant.                               *)
LEMMA InitHolds == Init => IInv
<1> SUFFICES ASSUME Init PROVE IInv
  OBVIOUS
<1>1. TypeOK
  BY DEF Init, TypeOK, Zero, FillLabels
<1>2. Counted = {} /\ Holders = {} /\ Cardinality({}) = 0
  BY FS_EmptySet DEF Init, Counted, Holders
<1>3. \A F : (\A f \in Fills : F[f] = 0) => Total(F) = 0
  <2> SUFFICES ASSUME NEW F, \A f \in Fills : F[f] = 0 PROVE Units(F) = {}
    BY FS_EmptySet DEF Total
  <2> QED BY DEF Units
<1>4. Total(Due) = 0 /\ Total(bytes_charged) = 0
  BY <1>3 DEF Init, Due, Zero
<1>5. Conserved /\ FillsBounded /\ ChargesBounded
  BY <1>2, <1>4 DEF Init, Conserved, FillsBounded, ChargesBounded, Counted
<1>6. StagedCharged
  BY DEF Init, StagedCharged, Zero
<1> QED BY <1>1, <1>5, <1>6 DEF IInv

(* Every step preserves the invariant.                                      *)
LEMMA NextPreserves == IInv /\ [Next]_vars => IInv'
<1> SUFFICES ASSUME IInv, [Next]_vars PROVE IInv'
  OBVIOUS
<1>1. CASE UNCHANGED vars
  BY <1>1 DEF vars, IInv, TypeOK, Conserved, FillsBounded, ChargesBounded, StagedCharged,
     Holders, Due, Total, Units
<1>2. CASE Next
  BY <1>2, TryAcquireStep, RefuseStep, CreateFileStep, ChargeStep, UnchargeStep, WriteStep,
     FinishStep, ReleaseBytesStep, ReleaseSlotStep, DropCacheStep DEF Next
<1> QED BY <1>1, <1>2

(* The counters are exact and the charges fit, in every reachable state.    *)
THEOREM Inductive == Spec => []IInv
  BY InitHolds, NextPreserves, PTL DEF Spec

(* Every path of a streaming fill gives back exactly what it took: the slot *)
(* counter is the number of handles inside a fill and the byte counter the  *)
(* sum of what they are charged.                                            *)
THEOREM CountersConserved == Spec => []Conserved
  BY Inductive, PTL DEF IInv

(* At most max_streaming_fills fills hold a slot, for any number of callers.*)
THEOREM FillLimit == Spec => []FillsBounded
  BY Inductive, PTL DEF IInv

(* The staging files of the fills that hold a reservation fit the staging   *)
(* budget together, for any number of fills and failed removals: remove_file *)
(* may fail, and then the file is charged until StreamingReservation drops.  *)
THEOREM StagingLimit == Spec => []StagingBounded
<1>1. IInv => StagingBounded
  <2> SUFFICES ASSUME IInv PROVE StagingBounded
    OBVIOUS
  <2>1. staged \in [Fills -> Nat] /\ bytes_charged \in [Fills -> Nat]
    BY DEF IInv, TypeOK
  <2>2. \A f \in Fills : staged[f] <= bytes_charged[f]
    BY DEF IInv, TypeOK, StagedCharged
  <2>3. Total(staged) <= Total(bytes_charged)
    BY <2>1, <2>2, TotalMonotone
  <2>4. Total(staged) \in Nat /\ Total(bytes_charged) \in Nat
    BY <2>1, TotalType
  <2> QED BY <2>3, <2>4 DEF IInv, ChargesBounded, StagingBounded
<1> QED BY <1>1, Inductive, PTL
=============================================================================
