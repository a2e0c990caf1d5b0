--------------------------- MODULE StreamingFill ---------------------------
(***************************************************************************)
(* Streaming fills of one byte cache (StreamingPut in byte.rs) and the     *)
(* budget they share (StreamingBudget): a limit on the fills in flight and *)
(* one on the bytes they have staged on disk.  Both are kept by atomic     *)
(* counters that are raised first and tested after, so that a step of the  *)
(* model is one atomic operation or one file-system call.                  *)
(*                                                                         *)
(* What commit publishes is the subject of ByteStore; here it is one step  *)
(* that publishes the staging file or removes it.  A removal may fail, and *)
(* the code ignores it: the bytes are given back all the same, and the     *)
(* file stays until the staging directory of the instance goes.            *)
(***************************************************************************)
EXTENDS Naturals, FiniteSets

CONSTANTS
  Fills,        \* the fill handles, each used for one fill after another
  MaxFills,     \* max_streaming_fills
  MaxStaging,   \* max_streaming_staging_bytes
  Cap,          \* max_bytes: the size cap of one object
  Chunks,       \* the chunk sizes a caller may write
  LeftBound     \* bound: bytes of staging files that could not be removed

ASSUME FillsAssumption == IsFiniteSet(Fills)
ASSUME LimitsAssumption == /\ MaxFills \in Nat
                           /\ MaxStaging \in Nat
                           /\ Cap \in Nat
                           /\ Chunks \subseteq Nat
                           /\ LeftBound \in Nat

VARIABLES
  in_flight,       \* the slot counter
  reserved_bytes,  \* the byte counter
  pc,              \* where each handle is
  bytes_charged,   \* its reservation
  size,            \* the bytes it has written and hashed
  chunk,           \* the chunk it is writing
  staged,          \* the bytes of its staging file on disk
  left             \* the bytes of files on disk whose fill is over: it could not
                   \* remove them

counters == <<in_flight, reserved_bytes>>
vars == <<in_flight, reserved_bytes, pc, bytes_charged, size, chunk, staged, left>>

Zero == [f \in Fills |-> 0]

Init ==
  /\ in_flight = 0 /\ reserved_bytes = 0
  /\ pc = [f \in Fills |-> "none"]
  /\ bytes_charged = Zero /\ size = Zero /\ chunk = Zero /\ staged = Zero
  /\ left = 0

Goto(f, label) == pc' = [pc EXCEPT ![f] = label]

(* A mutation: the limit itself is let through.                             *)
TryAcquireOneMore(f) ==
  /\ pc[f] = "none"
  /\ in_flight' = in_flight + 1
  /\ Goto(f, IF in_flight > MaxFills THEN "refused" ELSE "reserved")
  /\ UNCHANGED <<reserved_bytes, bytes_charged, size, chunk, staged, left>>

(* try_acquire: fetch_add, then a test of the value it returned.            *)
TryAcquire(f) ==
  /\ pc[f] = "none"
  /\ in_flight' = in_flight + 1
  /\ Goto(f, IF in_flight >= MaxFills THEN "refused" ELSE "reserved")
  /\ UNCHANGED <<reserved_bytes, bytes_charged, size, chunk, staged, left>>

(* The refused caller takes its count back.                                 *)
Refuse(f) ==
  /\ pc[f] = "refused"
  /\ in_flight' = in_flight - 1
  /\ Goto(f, "none")
  /\ UNCHANGED <<reserved_bytes, bytes_charged, size, chunk, staged, left>>

(* begin_streaming_put creates the staging file, or drops the reservation.  *)
CreateFile(f) ==
  /\ pc[f] = "reserved"
  /\ \/ Goto(f, "open")
     \/ Goto(f, "closing")
  /\ UNCHANGED <<counters, bytes_charged, size, chunk, staged, left>>

(* write_chunk under the object cap: the charge, before anything is         *)
(* written.  A charge that breaks the budget is taken back in a second step.*)
Charge(f, delta) ==
  LET fits == reserved_bytes + delta <= MaxStaging
  IN /\ pc[f] = "open"
     /\ size[f] + delta <= Cap
     /\ reserved_bytes' = reserved_bytes + delta
     /\ bytes_charged' = IF fits THEN [bytes_charged EXCEPT ![f] = @ + delta] ELSE bytes_charged
     /\ chunk' = [chunk EXCEPT ![f] = delta]
     /\ Goto(f, IF fits THEN "charged" ELSE "over")
     /\ UNCHANGED <<in_flight, size, staged, left>>

(* A mutation: the failed charge is not taken back.                         *)
UnchargeNothing(f) ==
  /\ pc[f] = "over"
  /\ Goto(f, "open")
  /\ UNCHANGED <<counters, bytes_charged, size, chunk, staged, left>>

Uncharge(f) ==
  /\ pc[f] = "over"
  /\ reserved_bytes' = reserved_bytes - chunk[f]
  /\ Goto(f, "open")
  /\ UNCHANGED <<in_flight, bytes_charged, size, chunk, staged, left>>

WriteAll(f) ==
  /\ pc[f] = "charged"
  /\ staged' = [staged EXCEPT ![f] = @ + chunk[f]]
  /\ size' = [size EXCEPT ![f] = @ + chunk[f]]
  /\ Goto(f, "open")
  /\ UNCHANGED <<counters, bytes_charged, chunk, left>>

(* The write fails and leaves any part of the chunk in the file; the caller *)
(* gives the fill up.                                                       *)
WriteFails(f) ==
  /\ pc[f] = "charged"
  /\ \E n \in 0 .. chunk[f] : staged' = [staged EXCEPT ![f] = @ + n]
  /\ Goto(f, "failed")
  /\ UNCHANGED <<counters, bytes_charged, size, chunk, left>>

(* The sum of a function's values, counted as a set of units.               *)
Units(F) == UNION {{f} \X (1 .. F[f]) : f \in Fills}
Total(F) == Cardinality(Units(F))

(* commit_inner, or Drop for StreamingPut: the staging file is published or *)
(* removed before the reservation is dropped, or its removal fails.         *)
Finish(f) ==
  /\ pc[f] \in {"open", "failed"}
  /\ \/ staged' = [staged EXCEPT ![f] = 0]
     \/ left + Total(staged) <= LeftBound /\ UNCHANGED staged
  /\ Goto(f, "closing")
  /\ UNCHANGED <<counters, bytes_charged, size, chunk, left>>

(* A mutation: the bytes are given back while the file is still there.      *)
ReleaseEarly(f) ==
  /\ pc[f] \in {"open", "failed", "closing"}
  /\ reserved_bytes' = reserved_bytes - bytes_charged[f]
  /\ bytes_charged' = [bytes_charged EXCEPT ![f] = 0]
  /\ size' = [size EXCEPT ![f] = 0]
  /\ chunk' = [chunk EXCEPT ![f] = 0]
  /\ Goto(f, IF pc[f] = "closing" THEN "releasing" ELSE pc[f])
  /\ UNCHANGED <<in_flight, staged, left>>

(* Drop for StreamingReservation: the bytes, then the slot.  A file that    *)
(* could not be removed is no longer charged to anyone.                     *)
ReleaseBytes(f) ==
  /\ pc[f] = "closing"
  /\ reserved_bytes' = reserved_bytes - bytes_charged[f]
  /\ bytes_charged' = [bytes_charged EXCEPT ![f] = 0]
  /\ size' = [size EXCEPT ![f] = 0]
  /\ chunk' = [chunk EXCEPT ![f] = 0]
  /\ left' = left + staged[f]
  /\ staged' = [staged EXCEPT ![f] = 0]
  /\ Goto(f, "releasing")
  /\ UNCHANGED in_flight

ReleaseSlot(f) ==
  /\ pc[f] = "releasing"
  /\ in_flight' = in_flight - 1
  /\ Goto(f, "none")
  /\ UNCHANGED <<reserved_bytes, bytes_charged, size, chunk, staged, left>>

(* Drop for ByteCache: no fill is left, and the staging directory goes with *)
(* whatever is in it (or stays: that failure is ignored too).  The fills    *)
(* that follow are those of a new instance.                                 *)
DropCache ==
  /\ \A f \in Fills : pc[f] = "none"
  /\ left' = 0
  /\ UNCHANGED <<counters, pc, bytes_charged, size, chunk, staged>>

Next ==
  \/ \E f \in Fills :
       \/ TryAcquire(f) \/ Refuse(f) \/ CreateFile(f)
       \/ \E delta \in Chunks : Charge(f, delta)
       \/ Uncharge(f) \/ WriteAll(f) \/ WriteFails(f)
       \/ Finish(f) \/ ReleaseBytes(f) \/ ReleaseSlot(f)
  \/ DropCache

Spec == Init /\ [][Next]_vars
-----------------------------------------------------------------------------
Holders == {f \in Fills : pc[f] \notin {"none", "refused"}}

(* What a handle has in the byte counter: its charge, and the chunk of a    *)
(* failed charge until it is taken back.                                    *)
Due == [f \in Fills |-> bytes_charged[f] + (IF pc[f] = "over" THEN chunk[f] ELSE 0)]

FillLabels == {"none", "refused", "reserved", "open", "charged", "over", "failed",
               "closing", "releasing"}

TypeOK ==
  /\ in_flight \in Nat /\ reserved_bytes \in Nat
  /\ pc \in [Fills -> FillLabels]
  /\ bytes_charged \in [Fills -> Nat]
  /\ size \in [Fills -> Nat]
  /\ chunk \in [Fills -> Nat]
  /\ staged \in [Fills -> Nat]
  /\ left \in Nat

(* The counters are exact: nothing is leaked or given back twice on any     *)
(* path, refused, abandoned, failed or committed.                           *)
Conserved ==
  /\ in_flight = Cardinality({f \in Fills : pc[f] # "none"})
  /\ reserved_bytes = Total(Due)

(* No more than max_streaming_fills fills hold a slot, although the counter *)
(* is raised before it is tested and may overshoot.                         *)
FillsBounded == Cardinality(Holders) <= MaxFills

(* The staging files of the fills that still hold their reservation never   *)
(* exceed the budget together, through failed writes, failed removals and   *)
(* while fills are being torn down: a fill gives its bytes back after its   *)
(* file is gone or given up for lost, never before.  The files given up for *)
(* lost (`left`) are outside the budget.                                    *)
StagingBounded == Total(staged) <= MaxStaging
=============================================================================
