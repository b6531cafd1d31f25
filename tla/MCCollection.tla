---------------------------- MODULE MCCollection ---------------------------
(***************************************************************************)
(* A collection on small sets; threads are interchangeable.                *)
(***************************************************************************)
EXTENDS Collection, TLC

ThreadSymmetry == Permutations(Threads)
=============================================================================
