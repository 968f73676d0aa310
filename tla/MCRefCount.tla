----------------------------- MODULE MCRefCount -----------------------------
(* An instance of RefCount for TLC: x, watched, may hold y; they live in the *)
(* two leaves under bucket 1, z at the root.                                 *)
EXTENDS RefCount, TLC

CONSTANTS x, y, z, t1, t2

Members == {<<x, y>>}
Homes == (x :> 3) @@ (y :> 4) @@ (z :> 0)
=============================================================================
