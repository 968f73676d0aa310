---------------------------- MODULE MCGcDispatch ----------------------------
(* An instance of GcDispatch for TLC. *)
EXTENDS GcDispatch

CONSTANTS j1, j2, j3, j4, j5

\* Keys that occur once, twice and in every order.
Mixed == [j \in Job |-> IF j \in {j1, j2} THEN 2 ELSE IF j = j3 THEN 1 ELSE 3]
=============================================================================
