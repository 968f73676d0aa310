----------------------------- MODULE MCListeners ----------------------------
(* An instance of Listeners for TLC: two applications, one run.              *)
EXTENDS Listeners, TLC

CONSTANTS a, b, c, t1, t2, t3

\* a and b listen to each other, notify, remove and end, each called first by a thread
\* of its own, and by the other's in a notification.
Pair ==
    [o \in Object |->
        IF o = c THEN [hears |-> {}, on |-> {}, changes |-> FALSE]
        ELSE [hears |-> {a, b}, on |-> IF o = a THEN {t1} ELSE {t2}, changes |-> TRUE]]

\* a listens to b, b to c and c to a, each on a thread of its own; c notifies, removes
\* and ends.
Ring ==
    (a :> [hears |-> {b}, on |-> {t1}, changes |-> FALSE]) @@
    (b :> [hears |-> {c}, on |-> {t2}, changes |-> FALSE]) @@
    (c :> [hears |-> {a}, on |-> {t3}, changes |-> TRUE])

PairAndRing == {Pair, Ring}
=============================================================================
