---------------------------- MODULE SerialObject ----------------------------
(***************************************************************************)
(* What tinyState promises of its objects, with no locks, no stacks and no *)
(* pool: each object is served by one thread at a time, takes its events   *)
(* in the order they came, is not left while an event waits - unless it    *)
(* turns to the pool, which will serve it again, or dies - and hears       *)
(* nothing once dead.                                                      *)
(***************************************************************************)
EXTENDS Sequences, Naturals

CONSTANTS Obj, Thread, NoThread, Event

VARIABLES
    inbox,      \* the events of each object nobody has taken yet
    runner,     \* the thread that serves the object, or NoThread
    parked,     \* the objects that wait for a thread of the pool
    dead        \* the objects that reached ZOM

vars == <<inbox, runner, parked, dead>>

Init ==
    /\ inbox = [o \in Obj |-> <<>>]
    /\ runner = [o \in Obj |-> NoThread]
    /\ parked = {}
    /\ dead = {}

\* A thread comes with an event and serves the object.
Start(t, o) ==
    /\ runner[o] = NoThread /\ o \notin dead
    /\ runner' = [runner EXCEPT ![o] = t]
    /\ parked' = parked \ {o}
    /\ UNCHANGED <<inbox, dead>>

\* A thread comes with an event only the pool can serve.
Park(o) ==
    /\ runner[o] = NoThread /\ o \notin dead
    /\ parked' = parked \cup {o}
    /\ UNCHANGED <<inbox, runner, dead>>

\* An event for an object that is being served waits.
Post(o, e) ==
    /\ runner[o] # NoThread /\ o \notin dead
    /\ inbox' = [inbox EXCEPT ![o] = Append(@, e)]
    /\ UNCHANGED <<runner, parked, dead>>

\* The thread that serves the object takes the next event.
Take(o) ==
    /\ runner[o] # NoThread
    /\ inbox[o] # <<>>
    /\ inbox' = [inbox EXCEPT ![o] = Tail(@)]
    /\ parked' = parked \ {o}
    /\ UNCHANGED <<runner, dead>>

\* It leaves: nothing waits, or the pool will come back, or the object dies.
Finish(o) ==
    /\ runner[o] # NoThread
    /\ runner' = [runner EXCEPT ![o] = NoThread]
    /\ inbox' = [inbox EXCEPT ![o] = <<>>]
    /\ \/ inbox[o] = <<>> /\ UNCHANGED <<parked, dead>>
       \/ parked' = parked \cup {o} /\ UNCHANGED dead
       \/ dead' = dead \cup {o} /\ parked' = parked \ {o}

Next ==
    \E o \in Obj :
        \/ \E t \in Thread : Start(t, o)
        \/ \E e \in Event : Post(o, e)
        \/ Park(o) \/ Take(o) \/ Finish(o)

Spec == Init /\ [][Next]_vars
=============================================================================
