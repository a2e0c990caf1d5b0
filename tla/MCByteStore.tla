---------------------------- MODULE MCByteStore ----------------------------
(***************************************************************************)
(* Small instances of ByteStore for TLC: one process with two threads, or  *)
(* two or three processes over the same roots, two targets and two blobs.  *)
(***************************************************************************)
EXTENDS ByteStore, TLC

CONSTANTS i1, i2, i3, a, b, c, k1, k2, t1, t2

OneProcess == [th \in Threads |-> i1]
TwoProcesses == [th \in Threads |-> IF th = b THEN i2 ELSE i1]
ThreeProcesses == [th \in Threads |-> IF th = a THEN i1 ELSE IF th = b THEN i2 ELSE i3]

(* k2's content is twice the size of k1's.                                  *)
Sizes == [k \in Keys |-> IF k = k1 THEN 1 ELSE 2]

(* Each target alone, and a prefix that they share.                         *)
AllPrefixes == {{t} : t \in Targets} \cup {Targets}

(* Nothing tells two targets apart.                                         *)
TargetSymmetry == Permutations(Targets)
=============================================================================
