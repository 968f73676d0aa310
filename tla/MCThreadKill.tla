---------------------------- MODULE MCThreadKill ----------------------------
(* An instance of ThreadKill for TLC. *)
EXTENDS ThreadKill

CONSTANTS k1, k2, p1, p2
=============================================================================
