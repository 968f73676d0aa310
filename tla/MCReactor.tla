----------------------------- MODULE MCReactor -----------------------------
(* An instance of Reactor for TLC. *)
EXTENDS Reactor

CONSTANTS a, b, f
=============================================================================
