------------------------------ MODULE RwMutex ------------------------------
(***************************************************************************)
(* stdMutex: a reader-writer lock for tinyStates that do not block.  The   *)
(* caller that cannot have the lock is put on the wait queue and yields    *)
(* with an sException.  When the lock comes free release() takes the whole *)
(* queue away and wakes everyone on it; the woken state functions call     *)
(* read_lock() or write_lock() again and may queue again.                  *)
(*                                                                         *)
(* Each operation runs under application->mtx.  A wake-up may run the      *)
(* client, and whatever that calls, before release() does the next one, so *)
(* the wake-ups are steps of their own.  The order of the queue does not   *)
(* matter to a queue that is emptied at once: it is a set.                 *)
(***************************************************************************)
EXTENDS Integers, FiniteSets

CONSTANTS
    Client,     \* tinyStates that use the lock
    Disturb     \* "event": a waiting client is evaluated for another event;
                \* "leave": it gives the wait up (destroy(), EINTR)

ASSUME RwMutexAssumption ==
    /\ IsFiniteSet(Client)
    /\ Disturb \subseteq {"event", "leave"}

VARIABLES
    count,      \* 0 free, -1 a writer, n > 0 readers
    wait,       \* the clients on the wait queue
    waking,     \* those a release() has taken off it and not woken yet
    at,         \* "idle", "waitR", "waitW", "read" or "write"
    woken       \* clients with a TSE_WAKEUP to come

vars == <<count, wait, waking, at, woken>>

Init ==
    /\ count = 0
    /\ wait = {}
    /\ waking = {}
    /\ at = [c \in Client |-> "idle"]
    /\ woken = {}

-----------------------------------------------------------------------------
\* The state function of c calls the lock: for the first time, after a wake-up
\* or for an event that has nothing to do with the lock.
Evaluated(c, waiting) ==
    /\ \/ at[c] = "idle"
       \/ at[c] = waiting /\ (c \in woken \/ "event" \in Disturb)
    /\ woken' = woken \ {c}
    /\ UNCHANGED waking

\* It gets the lock, or is queued - once - and yields.
Take(c, n, how) ==
    /\ count' = n
    /\ at' = [at EXCEPT ![c] = how]
    /\ UNCHANGED wait
Queue(c, how) ==
    /\ wait' = wait \cup {c}
    /\ at' = [at EXCEPT ![c] = how]
    /\ UNCHANGED count

ReadLock(c) ==
    /\ Evaluated(c, "waitR")
    /\ \/ count >= 0 /\ Take(c, count + 1, "read")
       \/ count < 0 /\ Queue(c, "waitR")

\* Faulty variant: a writer does not wait for readers.
WriteLockOverReaders(c) ==
    /\ Evaluated(c, "waitW")
    /\ \/ count >= 0 /\ Take(c, -1, "write")
       \/ count < 0 /\ Queue(c, "waitW")

WriteLock(c) ==
    /\ Evaluated(c, "waitW")
    /\ \/ count = 0 /\ Take(c, -1, "write")
       \/ count # 0 /\ Queue(c, "waitW")

\* Faulty variant: the last reader does not look at the queue.
ReleaseReaderQuiet(c) ==
    /\ at[c] \in {"read", "write"}
    /\ at' = [at EXCEPT ![c] = "idle"]
    /\ woken' = woken \ {c}
    /\ count' = IF count < 0 THEN 0 ELSE count - 1
    /\ IF count >= 0 THEN UNCHANGED <<wait, waking>>
       ELSE wait' = {} /\ waking' = waking \cup wait

\* release() by a client that holds the lock.
Release(c) ==
    /\ at[c] \in {"read", "write"}
    /\ at' = [at EXCEPT ![c] = "idle"]
    /\ woken' = woken \ {c}
    /\ count' = IF count < 0 THEN 0 ELSE count - 1
    /\ IF count' # 0 THEN UNCHANGED <<wait, waking>>
       ELSE wait' = {} /\ waking' = waking \cup wait

\* One wakeup() of its loop.
Wake(c) ==
    /\ c \in waking
    /\ waking' = waking \ {c}
    /\ woken' = woken \cup {c}
    /\ UNCHANGED <<count, wait, at>>

\* A waiting client turns to something else, or dies; its entry stays.
Leave(c) ==
    /\ "leave" \in Disturb
    /\ at[c] \in {"waitR", "waitW"}
    /\ at' = [at EXCEPT ![c] = "idle"]
    /\ woken' = woken \ {c}
    /\ UNCHANGED <<count, wait, waking>>

Next ==
    \E c \in Client :
        ReadLock(c) \/ WriteLock(c) \/ Release(c) \/ Wake(c) \/ Leave(c)

Spec == Init /\ [][Next]_vars

\* A TSE_WAKEUP is delivered and evaluates the waiting client; release()'s loop
\* ends.  Nothing is assumed of holders.
Fairness ==
    \A c \in Client :
        /\ WF_vars(at[c] # "idle" /\ c \in woken /\ (ReadLock(c) \/ WriteLock(c)))
        /\ WF_vars(Wake(c))

FairSpec == Spec /\ Fairness

-----------------------------------------------------------------------------
(* Properties.                                                             *)

Readers == {c \in Client : at[c] = "read"}
Writers == {c \in Client : at[c] = "write"}

\* Every variable has its type.
TypeOK ==
    /\ count \in Int /\ -1 <= count
    /\ wait \in SUBSET Client
    /\ waking \in SUBSET Client
    /\ at \in [Client -> {"idle", "waitR", "waitW", "read", "write"}]
    /\ woken \in SUBSET Client

\* The lock is one: the clients that got it and have not given it back are many
\* readers or a single writer (stdMutex.cpp:40-42, 69-71, 101-107).
Lock == INSTANCE RwLock WITH readers <- Readers, writers <- Writers
ImplementsRwLock == Lock!Spec

\* A client that waits, with no wake-up on its way, is on the queue for a reason:
\* a reader because of a writer, a writer because somebody holds the lock.  So
\* however the wake-ups of one release interleave with new calls, nobody sleeps
\* beside a lock it could have (stdMutex.cpp:44-46, 73-80, 108-113).
Asleep(c) == c \notin woken \cup waking
AsleepForReason ==
    \A c \in Client :
        /\ at[c] = "waitR" /\ Asleep(c) => c \in wait /\ count < 0
        /\ at[c] = "waitW" /\ Asleep(c) => c \in wait /\ count # 0

\* Once the lock is free it does not stay so while a client goes on waiting.
FreeLockTaken ==
    \A c \in Client :
        (count = 0 /\ at[c] \in {"waitR", "waitW"})
            ~> (count # 0 \/ at[c] \notin {"waitR", "waitW"})
=============================================================================
