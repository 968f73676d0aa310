----------------------------- MODULE Semaphore -----------------------------
(***************************************************************************)
(* stdSemaphore and stdLimitSemaphore: counting semaphores whose get()     *)
(* does not block.  A tinyState that finds no permit is put on the wait    *)
(* queue and yields with an sException; release() takes the head off the   *)
(* queue and wakes it, and the woken state function calls get() again.     *)
(* Nothing is handed over: a permit that comes free may be taken by anyone *)
(* before the woken client runs.                                           *)
(*                                                                         *)
(* get(), release() and limit() run under application->mtx, one step each; *)
(* only the wake-ups of limit() run other clients in between.  The two     *)
(* classes differ in what `count` counts: the permits left, or the taken   *)
(* ones, up to a limit that can be moved.  Their wait queues, a linked     *)
(* list and a map of buckets, keep the same order.                         *)
(***************************************************************************)
EXTENDS Integers, Sequences, FiniteSets, SequencesExt

CONSTANTS
    Client,     \* tinyStates that use the semaphore
    Kinds,      \* subset of {"sem", "limit"}
    Limits,     \* the initial counts, and the limits, a program sets
    Priority,   \* tinyState::priority() of each client
    MaxKey,     \* MAX_INTEGER64, the key of entries without a priority
    Disturb     \* "event": a waiting client is evaluated for another event;
                \* "leave": it gives the wait up (destroy(), EINTR)

ASSUME SemaphoreAssumption ==
    /\ IsFiniteSet(Client)
    /\ Kinds \subseteq {"sem", "limit"}
    /\ Limits \subseteq Nat \ {0}
    /\ MaxKey \in Nat
    /\ Priority \in [Client -> 0..(MaxKey - 1)]
    /\ Disturb \subseteq {"event", "leave"}

VARIABLES
    kind,       \* which of the two classes
    count,      \* permits left ("sem") or taken ("limit")
    limit,      \* v_limit; for "sem" the initial count
    grow,       \* wake-ups limit() has still to do
    wait,       \* the wait queue
    insNeq,     \* an entry goes behind the entries of the same key
    enablePriority,
    at,         \* each client: "idle", "wait" or "hold"
    woken,      \* clients with a TSE_WAKEUP to come
    came,       \* history: pairs of queued clients, who came first in front
    wasted      \* history: a wake-up went to a client that did not wait

vars == <<kind, count, limit, grow, wait, insNeq, enablePriority, at, woken,
          came, wasted>>

Entry == [who : Client, key : Nat]
Queued == {wait[i].who : i \in 1..Len(wait)}
Holders == {c \in Client : at[c] = "hold"}

\* Neither class has taken a permit, and the queue is first come, first served.
Init ==
    /\ kind \in Kinds
    /\ limit \in Limits
    /\ count = IF kind = "sem" THEN limit ELSE 0
    /\ grow = 0
    /\ wait = <<>>
    /\ insNeq \in BOOLEAN
    /\ enablePriority = FALSE
    /\ at = [c \in Client |-> "idle"]
    /\ woken = {}
    /\ came = {}
    /\ wasted = FALSE

-----------------------------------------------------------------------------
(* The wait queue, in ascending order of keys.                             *)

\* Faulty variant: equal keys are overtaken whatever insNeq says.
KeyInsertOvertakes(q, e) ==
    InsertAt(q, 1 + Cardinality({i \in 1..Len(q) : q[i].key < e.key}), e)

\* stdQueue::ins and w_ins: entries of the same key stay in front when insNeq
\* says so, or when they have no priority.
KeyInsert(q, e) ==
    LET before(x) == \/ x.key < e.key
                     \/ x.key = e.key /\ (insNeq \/ e.key = MaxKey)
    IN  InsertAt(q, 1 + Cardinality({i \in 1..Len(q) : before(q[i])}), e)

Others(c) == {p \in came : c \notin {p[1], p[2]}}

\* Faulty variant: del() without wakeup().
DequeueSilent(busy) ==
    /\ woken' = woken \ busy
    /\ IF wait = <<>> THEN UNCHANGED <<wait, came, wasted>>
       ELSE /\ wait' = Tail(wait)
            /\ came' = Others(Head(wait).who)
            /\ UNCHANGED wasted

\* del() and wakeup(): the head, if any, is taken off and woken.  What the
\* clients in busy were woken for is behind them.
Dequeue(busy) ==
    IF wait = <<>> THEN woken' = woken \ busy /\ UNCHANGED <<wait, came, wasted>>
    ELSE /\ wait' = Tail(wait)
         /\ came' = Others(Head(wait).who)
         /\ woken' = (woken \ busy) \cup {Head(wait).who}
         /\ wasted' = (wasted \/ at[Head(wait).who] # "wait")

-----------------------------------------------------------------------------
\* Faulty variant: the limit is let be exceeded by one.
FreePermitsAtLimit == IF kind = "sem" THEN count
                      ELSE IF count <= limit THEN limit - count + 1 ELSE 0

FreePermits == IF kind = "sem" THEN count
               ELSE IF count < limit THEN limit - count ELSE 0

TakeOnePermit == count' = IF kind = "sem" THEN count - 1 ELSE count + 1

NewEntry(c) == [who |-> c, key |-> IF enablePriority THEN Priority[c] ELSE MaxKey]

\* A caller that is still queued keeps its place.
Enqueue(c) ==
    IF c \in Queued THEN UNCHANGED <<wait, came>>
    ELSE /\ wait' = KeyInsert(wait, NewEntry(c))
         /\ came' = came \cup (Queued \X {c})

\* get(), called anew or again after a wake-up - or, under "event", again for
\* an event that has nothing to do with the semaphore.  A queued caller that
\* finds a permit takes it and stays queued.
Get(c) ==
    /\ \/ at[c] = "idle"
       \/ at[c] = "wait" /\ (c \in woken \/ "event" \in Disturb)
    /\ woken' = woken \ {c}
    /\ \/ /\ FreePermits > 0
          /\ TakeOnePermit
          /\ at' = [at EXCEPT ![c] = "hold"]
          /\ UNCHANGED <<wait, came>>
       \/ /\ FreePermits = 0
          /\ at' = [at EXCEPT ![c] = "wait"]
          /\ Enqueue(c)
          /\ UNCHANGED count
    /\ UNCHANGED <<kind, limit, grow, insNeq, enablePriority, wasted>>

\* release() by a client that holds a permit.
Release(c) ==
    /\ at[c] = "hold"
    /\ at' = [at EXCEPT ![c] = "idle"]
    /\ \/ /\ kind = "sem"
          /\ count' = count + 1
          /\ Dequeue({c})
       \/ /\ kind = "limit"
          /\ count' = count - 1
          /\ IF count' >= limit
               THEN woken' = woken \ {c} /\ UNCHANGED <<wait, came, wasted>>
               ELSE Dequeue({c})
    /\ UNCHANGED <<kind, limit, grow, insNeq, enablePriority>>

\* limit(lim): what is taken above a lower limit stays taken; a higher limit
\* wakes a waiting client for each permit added.
SetLimit(lim) ==
    /\ kind = "limit" /\ grow = 0
    /\ lim # limit
    /\ limit' = lim
    /\ grow' = IF lim > limit THEN lim - limit ELSE 0
    /\ UNCHANGED <<kind, count, wait, insNeq, enablePriority, at, woken, came,
                   wasted>>

\* One turn of its loop; wakeup() may run the client, and what that calls,
\* before the next.
GrowWake ==
    /\ grow > 0
    /\ grow' = IF wait = <<>> THEN 0 ELSE grow - 1
    /\ Dequeue({})
    /\ UNCHANGED <<kind, count, limit, insNeq, enablePriority, at>>

\* The program sets enablePriority.
Prioritise ==
    /\ enablePriority' = ~enablePriority
    /\ UNCHANGED <<kind, count, limit, grow, wait, insNeq, at, woken, came,
                   wasted>>

\* A waiting client turns to something else, or dies; its entry stays.
Leave(c) ==
    /\ "leave" \in Disturb
    /\ at[c] = "wait"
    /\ at' = [at EXCEPT ![c] = "idle"]
    /\ woken' = woken \ {c}
    /\ wasted' = (wasted \/ c \in woken)
    /\ UNCHANGED <<kind, count, limit, grow, wait, insNeq, enablePriority, came>>

Next ==
    \/ \E c \in Client : Get(c) \/ Release(c) \/ Leave(c)
    \/ \E lim \in Limits : SetLimit(lim)
    \/ GrowWake
    \/ Prioritise

Spec == Init /\ [][Next]_vars

\* A TSE_WAKEUP is delivered and evaluates the waiting client; limit()'s loop
\* ends.  Nothing is assumed of holders.
Fairness ==
    /\ \A c \in Client : WF_vars(c \in woken /\ at[c] = "wait" /\ Get(c))
    /\ WF_vars(GrowWake)

FairSpec == Spec /\ Fairness

-----------------------------------------------------------------------------
(* Properties.                                                             *)

\* Every variable but the history has its type; a client is queued once (stdSemaphore.cpp:52-66).
TypeOK ==
    /\ kind \in Kinds
    /\ count \in Nat /\ limit \in Limits /\ grow \in Nat
    /\ wait \in Seq(Entry)
    /\ insNeq \in BOOLEAN /\ enablePriority \in BOOLEAN
    /\ at \in [Client -> {"idle", "wait", "hold"}]
    /\ woken \in SUBSET Client
    /\ wasted \in BOOLEAN
    /\ IsInjective([i \in 1..Len(wait) |-> wait[i].who])

\* A permit is granted under the limit of the moment, whoever held permits when
\* the limit was lowered, and never more than there are (stdSemaphore.cpp:48-51,
\* stdLimitSemaphore.cpp:126-129, 208-215).
GrantsWithinLimit ==
    [][Cardinality(Holders') > Cardinality(Holders)
         => Cardinality(Holders') <= limit]_vars

\* Clients that wait and will not be evaluated unless the semaphore wakes them.
Asleep == {c \in Client : at[c] = "wait" /\ c \notin woken}

\* While a client sleeps on the queue, every free permit has a wake-up under way
\* for it: "release() restarts the waiter" (docs/COOKBOOK.md:914,
\* stdSemaphore.h).
ReleaseRestarts ==
    Asleep # {} => FreePermits
                     <= grow + Cardinality({c \in woken : at[c] = "wait"})

\* It is only lost to the sleepers through a wake-up spent on a client that
\* does not wait any more: an entry get() left behind when it took a permit out
\* of turn, or one of a client that gave up (stdSemaphore.cpp:48-51, 78-81).
NoLostPermit == ~wasted => ReleaseRestarts

\* The queue is served in ascending order of keys and, when insNeq is set or
\* the entries have no priority, first come first served (stdSemaphore.cpp:13-21,
\* stdLimitSemaphore.cpp:93-99).
KeyOf(c) == wait[CHOOSE i \in 1..Len(wait) : wait[i].who = c].key
WakesInTurn ==
    [][\A c \in Queued \ {wait'[i].who : i \in 1..Len(wait')}, d \in Queued :
          \/ KeyOf(c) < KeyOf(d)
          \/ /\ KeyOf(c) = KeyOf(d)
             /\ insNeq \/ KeyOf(c) = MaxKey => <<d, c>> \notin came]_vars

\* If no wake-up is wasted, a free permit does not stay beside a sleeping client.
PermitsTaken ==
    []~wasted => (FreePermits > 0 /\ Asleep # {}) ~> (FreePermits = 0 \/ Asleep = {})
=============================================================================
