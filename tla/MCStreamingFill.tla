-------------------------- MODULE MCStreamingFill --------------------------
(***************************************************************************)
(* Three concurrent fills for two slots, five bytes of staging, objects of  *)
(* at most four bytes in chunks of one and two, five bytes of files left.  *)
(***************************************************************************)
EXTENDS StreamingFill, TLC

CONSTANTS f1, f2, f3

Symmetry == Permutations(Fills)
=============================================================================
