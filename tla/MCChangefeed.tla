--------------------------- MODULE MCChangefeed ----------------------------
(* Instances of Changefeed for TLC; the constants are given in the cfgs.    *)
EXTENDS Changefeed
=============================================================================
