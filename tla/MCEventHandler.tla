--------------------------- MODULE MCEventHandler ---------------------------
(* Instances of EventHandler for TLC: two small classes of objects.          *)
EXTENDS EventHandler, TLC

CONSTANTS a, b, ini, act, thr, zom

\* An object alternates between a TS_STATE and a TS_THREAD state and ends from the
\* former.
Classes ==
    [o \in Obj |-> {<<ini, act>>, <<act, thr>>, <<thr, act>>, <<act, zom>>}]

\* Without an end: a stays in its TS_THREAD state; b, its child, has TS_STATE
\* states only.
Endless ==
    [o \in Obj |-> IF o = a THEN {<<ini, act>>, <<act, thr>>} ELSE {<<ini, act>>}]

Threads == Permutations(Caller) \cup Permutations(Worker)
=============================================================================
