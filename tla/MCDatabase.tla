---------------------------- MODULE MCDatabase -----------------------------
(***************************************************************************)
(* Database for two threads, a few keys and a few commits.                 *)
(***************************************************************************)
EXTENDS Database, TLC

HandleSymmetry == Permutations(Threads) \cup Permutations(Values)
=============================================================================
