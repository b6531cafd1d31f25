----------------------------- MODULE MCHandles -----------------------------
(***************************************************************************)
(* A few processes, which are interchangeable.                             *)
(***************************************************************************)
EXTENDS Handles, TLC

\* Nothing is claimed of what follows when a process has gone astray.
OnCourse == ~astray

ProcessSymmetry == Permutations(Processes)
=============================================================================
