----------------------------- MODULE MCRwMutex -----------------------------
(* An instance of RwMutex for TLC.                                           *)
EXTENDS RwMutex

CONSTANTS x, y, z
=============================================================================
