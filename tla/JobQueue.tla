------------------------------ MODULE JobQueue ------------------------------
(***************************************************************************)
(* What tsGC promises to those who hand it work: a job that was given is   *)
(* kept until it is delivered, one is delivered at a time, always one of   *)
(* the least key, and the queue closes when it is empty.                   *)
(***************************************************************************)
EXTENDS Integers

CONSTANTS Job, NoJob, Priority

VARIABLES pending, running, open

vars == <<pending, running, open>>

Init == pending = {} /\ running = NoJob /\ open = TRUE

Give(j) ==
    /\ open /\ j \notin pending
    /\ pending' = pending \cup {j}
    /\ UNCHANGED <<running, open>>

Take(j) ==
    /\ running = NoJob /\ j \in pending
    /\ \A k \in pending : Priority[j] <= Priority[k]
    /\ pending' = pending \ {j}
    /\ running' = j
    /\ UNCHANGED open

Done == running # NoJob /\ running' = NoJob /\ UNCHANGED <<pending, open>>

Close ==
    /\ pending = {} /\ running = NoJob
    /\ open' = FALSE
    /\ UNCHANGED <<pending, running>>

Next == Done \/ Close \/ \E j \in Job : Give(j) \/ Take(j)

Spec == Init /\ [][Next]_vars
=============================================================================
