----------------------------- MODULE MCStorage -----------------------------
(* Instances of Storage for TLC; the constants are given in the cfgs.       *)
EXTENDS Storage
=============================================================================
