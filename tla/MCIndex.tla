------------------------------ MODULE MCIndex ------------------------------
(***************************************************************************)
(* Both indexes on a small universe of keys.                               *)
(***************************************************************************)
EXTENDS Index
=============================================================================
