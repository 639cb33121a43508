---------------------------- MODULE MCSettlement ----------------------------
(***************************************************************************)
(* Settlement for TLC.  Threads are interchangeable.                       *)
(***************************************************************************)
EXTENDS Settlement, TLC

ThreadSymmetry == Permutations(Threads)

=============================================================================
