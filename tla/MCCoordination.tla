--------------------------- MODULE MCCoordination ---------------------------
(* Two caches, in one process or in two, as writers or not.                *)
EXTENDS Coordination, TLC

CONSTANTS p1, p2, i1, i2

MCDeployments ==
  [procs : {(i1 :> p1) @@ (i2 :> p1), (i1 :> p1) @@ (i2 :> p2)}, writers : {{}, {i1, i2}}]
=============================================================================
