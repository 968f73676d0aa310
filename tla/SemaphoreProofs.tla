-------------------------- MODULE SemaphoreProofs --------------------------
(***************************************************************************)
(* What stdSemaphore and stdLimitSemaphore promise for every number of     *)
(* clients and every limit.  The wait queue plays no part in the first     *)
(* part, the limit: whoever is queued, woken or left behind, get() grants  *)
(* on the count alone.  The second part is about the queue: only a wasted  *)
(* wake-up loses a permit to the clients that sleep on it.  The third is   *)
(* about its order: the keys ascend, and equal keys stand in the order of  *)
(* arrival where insNeq or their lack of priority asks for it.             *)
(***************************************************************************)
EXTENDS Semaphore, FiniteSetTheorems, SequenceTheorems, WellFoundedInduction, TLAPS

\* The types of what the count depends on.
CountTypes ==
    /\ kind \in {"sem", "limit"}
    /\ count \in Int
    /\ limit \in Nat
    /\ at \in [Client -> {"idle", "wait", "hold"}]

\* The count and the clients that hold a permit account for each other: a
\* stdSemaphore's permits are left or held, a stdLimitSemaphore's are counted
\* as they are held (stdSemaphore.cpp:48-51, stdLimitSemaphore.cpp:126-129).
PermitsAccounted ==
    /\ kind = "sem" => count + Cardinality(Holders) = limit
    /\ kind = "limit" => count = Cardinality(Holders)

IInv == CountTypes /\ PermitsAccounted

-----------------------------------------------------------------------------
\* Holders is finite, and a client that takes or gives back a permit moves it
\* by one (the `at` of get() and release()).
LEMMA HoldersFinite ==
    IsFiniteSet(Holders) /\ Cardinality(Holders) \in Nat
<1>1. Holders \subseteq Client
  BY DEF Holders
<1>2. IsFiniteSet(Holders)
  BY <1>1, SemaphoreAssumption, FS_Subset
<1>3. QED
  BY <1>2, FS_CardinalityType

LEMMA HoldersTaken ==
    ASSUME CountTypes, NEW c \in Client, at[c] # "hold",
           at' = [at EXCEPT ![c] = "hold"]
    PROVE  Cardinality(Holders') = Cardinality(Holders) + 1
<1>1. Holders' = Holders \cup {c}
  BY DEF Holders, CountTypes
<1>2. c \notin Holders
  BY DEF Holders
<1>3. QED
  BY <1>1, <1>2, HoldersFinite, FS_AddElement

LEMMA HoldersGivenBack ==
    ASSUME CountTypes, NEW c \in Client, at[c] = "hold",
           at' = [at EXCEPT ![c] = "idle"]
    PROVE  Cardinality(Holders') = Cardinality(Holders) - 1
<1>1. Holders' = Holders \ {c}
  BY DEF Holders, CountTypes
<1>2. c \in Holders
  BY DEF Holders
<1>3. QED
  BY <1>1, <1>2, HoldersFinite, FS_RemoveElement

LEMMA HoldersKept ==
    ASSUME CountTypes, NEW c \in Client, at[c] # "hold",
           NEW v \in {"idle", "wait"}, at' = [at EXCEPT ![c] = v]
    PROVE  Holders' = Holders
  BY DEF Holders, CountTypes

-----------------------------------------------------------------------------
\* Neither class has taken a permit at first.
LEMMA InitAccounted == Init => IInv
<1> SUFFICES ASSUME Init PROVE IInv
  OBVIOUS
<1>1. CountTypes
  BY SemaphoreAssumption DEF Init, CountTypes
<1>2. Holders = {}
  BY DEF Init, Holders
<1>3. Cardinality(Holders) = 0
  BY <1>2, FS_EmptySet
<1>4. PermitsAccounted
  BY <1>3, SemaphoreAssumption DEF Init, PermitsAccounted
<1>5. QED
  BY <1>1, <1>4 DEF IInv

\* One step: the invariant is kept, and a permit that is granted is one the
\* limit of the moment allows.
LEMMA NextAccounted ==
    ASSUME IInv, [Next]_vars
    PROVE  /\ IInv'
           /\ Cardinality(Holders') > Cardinality(Holders)
                => Cardinality(Holders') <= limit
<1> USE DEF IInv
<1>0. Cardinality(Holders) \in Nat
  BY HoldersFinite
<1>1. ASSUME NEW c \in Client, Get(c)
      PROVE  /\ IInv'
             /\ Cardinality(Holders') > Cardinality(Holders)
                  => Cardinality(Holders') <= limit
  <2>1. at[c] # "hold" /\ UNCHANGED <<kind, limit>>
    BY <1>1 DEF Get
  <2>2. CASE /\ FreePermits > 0
             /\ TakeOnePermit
             /\ at' = [at EXCEPT ![c] = "hold"]
    <3>1. Cardinality(Holders') = Cardinality(Holders) + 1
      BY <2>1, <2>2, HoldersTaken
    <3>2. CountTypes'
      BY <2>1, <2>2 DEF CountTypes, TakeOnePermit
    <3>3. PermitsAccounted'
      BY <2>1, <2>2, <3>1, <1>0 DEF PermitsAccounted, CountTypes, TakeOnePermit
    <3>4. Cardinality(Holders) < limit
      BY <2>2, <1>0 DEF PermitsAccounted, CountTypes, FreePermits
    <3>5. QED
      BY <3>1, <3>2, <3>3, <3>4, <1>0 DEF CountTypes
  <2>3. CASE at' = [at EXCEPT ![c] = "wait"] /\ UNCHANGED count
    <3>1. Holders' = Holders
      BY <2>1, <2>3, HoldersKept
    <3>2. CountTypes'
      BY <2>1, <2>3 DEF CountTypes
    <3>3. QED
      BY <2>1, <2>3, <3>1, <3>2, <1>0 DEF PermitsAccounted
  <2>4. QED
    BY <1>1, <2>2, <2>3 DEF Get
<1>2. ASSUME NEW c \in Client, Release(c)
      PROVE  /\ IInv'
             /\ Cardinality(Holders') > Cardinality(Holders)
                  => Cardinality(Holders') <= limit
  <2>1. /\ at[c] = "hold"
        /\ at' = [at EXCEPT ![c] = "idle"]
        /\ UNCHANGED <<kind, limit>>
    BY <1>2 DEF Release
  <2>2. Cardinality(Holders') = Cardinality(Holders) - 1
    BY <2>1, HoldersGivenBack
  <2>3. \/ kind = "sem" /\ count' = count + 1
        \/ kind = "limit" /\ count' = count - 1
    BY <1>2 DEF Release
  <2>4. CountTypes'
    BY <2>1, <2>3 DEF CountTypes
  <2>5. PermitsAccounted'
    BY <2>1, <2>2, <2>3, <1>0 DEF PermitsAccounted, CountTypes
  <2>6. QED
    BY <2>2, <2>4, <2>5, <1>0
<1>3. ASSUME NEW c \in Client, Leave(c)
      PROVE  IInv' /\ Holders' = Holders
  <2>1. /\ at[c] # "hold"
        /\ at' = [at EXCEPT ![c] = "idle"]
        /\ UNCHANGED <<kind, count, limit>>
    BY <1>3 DEF Leave
  <2>2. Holders' = Holders
    BY <2>1, HoldersKept
  <2>3. CountTypes'
    BY <2>1 DEF CountTypes
  <2>4. QED
    BY <2>1, <2>2, <2>3 DEF PermitsAccounted
\* A lower limit is below what is held: PermitsAccounted relates the limit to
\* the holders for stdSemaphore only, which has none to set.
<1>4. ASSUME NEW lim \in Limits, SetLimit(lim)
      PROVE  IInv' /\ Holders' = Holders
  <2>1. kind = "limit" /\ limit' = lim /\ UNCHANGED <<kind, count, at>>
    BY <1>4 DEF SetLimit
  <2>2. lim \in Nat
    BY SemaphoreAssumption
  <2>3. Holders' = Holders
    BY <2>1 DEF Holders
  <2>4. QED
    BY <2>1, <2>2, <2>3 DEF CountTypes, PermitsAccounted
<1>5. ASSUME UNCHANGED <<kind, count, limit, at>>
      PROVE  IInv' /\ Holders' = Holders
  BY <1>5 DEF CountTypes, PermitsAccounted, Holders
<1>6. CASE GrowWake \/ Prioritise \/ UNCHANGED vars
  <2>1. UNCHANGED <<kind, count, limit, at>>
    BY <1>6 DEF GrowWake, Prioritise, vars
  <2>2. QED
    BY <2>1, <1>5, <1>0
<1>7. QED
  BY <1>0, <1>1, <1>2, <1>3, <1>4, <1>6 DEF Next

\* The counts account for the holders in every reachable state (get(),
\* release() and limit() of both classes).
THEOREM PermitsAreAccounted == Spec => []IInv
<1>1. IInv /\ [Next]_vars => IInv'
  BY NextAccounted
<1>2. QED
  BY <1>1, InitAccounted, PTL DEF Spec

\* No permit is granted over the limit of the moment, for every number of
\* clients and every sequence of limits (stdSemaphore.cpp:48-51,
\* stdLimitSemaphore.cpp:126-129, 208-215).
THEOREM GrantsStayWithinLimit == Spec => GrantsWithinLimit
<1>1. IInv /\ [Next]_vars
        => [Cardinality(Holders') > Cardinality(Holders)
              => Cardinality(Holders') <= limit]_vars
  BY NextAccounted
<1>2. QED
  BY <1>1, PermitsAreAccounted, PTL DEF Spec, GrantsWithinLimit

-----------------------------------------------------------------------------
(* The wait queue.                                                         *)

\* A client is queued once; one that was woken has been taken off; one that
\* waits and was not woken is on the queue, so an empty queue lets nobody
\* sleep.  A stdSemaphore has no limit() to wake clients for.
QueueInv ==
    /\ wait \in Seq(Entry)
    /\ \A i, j \in 1..Len(wait) : wait[i].who = wait[j].who => i = j
    /\ woken \in SUBSET Client
    /\ woken \cap Queued = {}
    /\ Asleep \subseteq Queued
    /\ grow \in Nat
    /\ kind = "sem" => grow = 0
    /\ wasted \in BOOLEAN

WokenToCome == {c \in woken : at[c] = "wait"}

LEMMA WokenFinite ==
    ASSUME woken \in SUBSET Client
    PROVE  IsFiniteSet(WokenToCome) /\ Cardinality(WokenToCome) \in Nat
<1>1. WokenToCome \subseteq Client
  BY DEF WokenToCome
<1>2. QED
  BY <1>1, SemaphoreAssumption, FS_Subset, FS_CardinalityType

Sorted(q) == \A i, j \in 1..Len(q) : i <= j => q[i].key <= q[j].key

\* An entry e goes behind an entry x.
Ahead(x, e) == \/ x.key < e.key
               \/ x.key = e.key /\ (insNeq \/ e.key = MaxKey)

\* As many numbers as come with all the smaller ones are the first ones.
LEMMA FirstNumbers ==
    ASSUME NEW n \in Nat, NEW S \in SUBSET (1..n),
           \A i \in S, j \in 1..n : j <= i => j \in S
    PROVE  S = 1..Cardinality(S)
<1> DEFINE Out == {i \in Nat \ {0} : i \notin S}
<1>1. n + 1 \in Out /\ Out \subseteq Nat
  OBVIOUS
<1>2. PICK m \in Out : \A i \in Out : ~(<<i, m>> \in OpToRel(<, Nat))
  <2> HIDE DEF Out
  <2> QED
    BY <1>1, NatLessThanWellFounded, WFMin
<1>3. m \in Nat \ {0} /\ m \notin S
  OBVIOUS
<1>4. ASSUME NEW i \in 1..(m - 1)
      PROVE  i \in S
  <2>1. <<i, m>> \in OpToRel(<, Nat)
    BY <1>3 DEF OpToRel
  <2>2. i \notin Out
    <3> HIDE DEF Out
    <3> QED
      BY <1>2, <2>1
  <2>3. QED
    BY <1>3, <2>2
<1>5. ASSUME NEW i \in S
      PROVE  i \in 1..(m - 1)
  <2>1. CASE i >= m
    BY <1>3, <2>1
  <2>2. QED
    BY <1>3, <2>1
<1>6. S = 1..(m - 1)
  BY <1>4, <1>5
<1>7. Cardinality(1..(m - 1)) = m - 1
  BY <1>3, FS_Interval
<1>8. QED
  BY <1>6, <1>7

\* The place ins() finds for an entry is one of the queue, or its end; in a sorted
\* queue it is behind the entries that are to be ahead of it, and only behind those.
LEMMA KeyInsertPlaces ==
    ASSUME NEW q \in Seq(Entry), NEW e \in Entry
    PROVE  \E p \in 1..(Len(q) + 1) :
              /\ Sorted(q) => \A j \in 1..Len(q) : j < p <=> Ahead(q[j], e)
              /\ KeyInsert(q, e) \in Seq(Entry)
              /\ Len(KeyInsert(q, e)) = Len(q) + 1
              /\ \A j \in 1..(Len(q) + 1) :
                    KeyInsert(q, e)[j] = IF j < p THEN q[j]
                                         ELSE IF j = p THEN e ELSE q[j - 1]
<1> DEFINE Before == {i \in 1..Len(q) : Ahead(q[i], e)}
           p == 1 + Cardinality(Before)
           front == SubSeq(q, 1, p - 1)
           back == SubSeq(q, p, Len(q))
           lead == front \o <<e>>
<1>1. Len(q) \in Nat
  BY LenProperties
<1>2. IsFiniteSet(1..Len(q)) /\ Cardinality(1..Len(q)) = Len(q)
  BY <1>1, FS_Interval
<1>3. Cardinality(Before) \in Nat /\ Cardinality(Before) <= Len(q)
  <2>1. Before \subseteq 1..Len(q)
    OBVIOUS
  <2>2. QED
    BY <1>2, <2>1, FS_Subset, FS_CardinalityType
<1>4. p \in 1..(Len(q) + 1)
  BY <1>1, <1>3
<1>5. KeyInsert(q, e) = (front \o <<e>>) \o back
  BY DEF KeyInsert, InsertAt, Ahead
<1>12. ASSUME Sorted(q)
       PROVE  \A j \in 1..Len(q) : j < p <=> Ahead(q[j], e)
  <2>1. \A j \in 1..Len(q) : q[j] \in Entry
    BY ElementOfSeq
  <2>2. ASSUME NEW i \in Before, NEW j \in 1..Len(q), j <= i
        PROVE  j \in Before
    <3>1. i \in 1..Len(q) /\ q[j].key <= q[i].key
      BY <1>12, <2>2 DEF Sorted
    <3>2. q[i].key \in Nat /\ q[j].key \in Nat /\ e.key \in Nat
      BY <2>1, <3>1 DEF Entry
    <3>3. Ahead(q[i], e)
      OBVIOUS
    <3>4. QED
      BY <3>1, <3>2, <3>3 DEF Ahead
  <2>3. Before = 1..Cardinality(Before)
    BY <1>1, <2>2, FirstNumbers
  <2>4. \A j \in 1..Len(q) : j \in Before <=> j <= Cardinality(Before)
    <3> HIDE DEF Before
    <3> QED
      BY <1>1, <1>3, <2>3
  <2>5. QED
    BY <1>1, <1>3, <2>4
<1> HIDE DEF p, Before
<1>6. /\ front \in Seq(Entry) /\ Len(front) = p - 1
      /\ \A j \in 1..(p - 1) : front[j] = q[j]
  BY <1>1, <1>4, SubSeqProperties
<1>7. /\ back \in Seq(Entry) /\ Len(back) = Len(q) - p + 1
      /\ \A j \in 1..(Len(q) - p + 1) : back[j] = q[p + j - 1]
  BY <1>1, <1>4, SubSeqProperties
<1> HIDE DEF front, back
<1>8. /\ lead \in Seq(Entry) /\ Len(lead) = p
      /\ \A j \in 1..p : lead[j] = IF j < p THEN q[j] ELSE e
  BY <1>4, <1>6, ConcatProperties
<1> HIDE DEF lead
<1>9. /\ KeyInsert(q, e) \in Seq(Entry)
      /\ Len(KeyInsert(q, e)) = Len(q) + 1
      /\ \A j \in 1..(Len(q) + 1) :
            KeyInsert(q, e)[j] = IF j <= p THEN lead[j] ELSE back[j - p]
  <2>1. lead \in Seq(Entry) /\ Len(lead) = p
    BY <1>8
  <2>2. /\ lead \o back \in Seq(Entry)
        /\ Len(lead \o back) = Len(lead) + Len(back)
        /\ \A j \in 1..(Len(lead) + Len(back)) :
              (lead \o back)[j] = IF j <= Len(lead) THEN lead[j]
                                  ELSE back[j - Len(lead)]
    BY <1>7, <2>1, ConcatProperties
  <2>3. Len(lead) + Len(back) = Len(q) + 1
    BY <1>1, <1>4, <1>7, <2>1
  <2>4. KeyInsert(q, e) = lead \o back
    BY <1>5 DEF lead
  <2>5. QED
    BY <2>1, <2>2, <2>3, <2>4
<1>10. ASSUME NEW j \in 1..(Len(q) + 1)
       PROVE  KeyInsert(q, e)[j] = IF j < p THEN q[j]
                                   ELSE IF j = p THEN e ELSE q[j - 1]
  <2>1. CASE j <= p
    <3>1. KeyInsert(q, e)[j] = lead[j]
      BY <1>9, <2>1
    <3>2. j \in 1..p
      BY <1>4, <2>1
    <3>3. QED
      BY <1>4, <1>8, <2>1, <3>1, <3>2
  <2>2. CASE ~(j <= p)
    <3>1. KeyInsert(q, e)[j] = back[j - p]
      BY <1>9, <2>2
    <3>2. j - p \in 1..(Len(q) - p + 1) /\ p + (j - p) - 1 = j - 1
      BY <1>1, <1>4, <2>2
    <3>3. QED
      BY <1>4, <1>7, <2>2, <3>1, <3>2
  <2>3. QED
    BY <2>1, <2>2
<1>11. QED
  BY <1>4, <1>9, <1>10, <1>12

LEMMA NewEntryType ==
    ASSUME NEW c \in Client
    PROVE  NewEntry(c) \in Entry /\ NewEntry(c).who = c
  BY SemaphoreAssumption DEF NewEntry, Entry

\* A client that joins the queue is on it once.
LEMMA EnqueueQueues ==
    ASSUME QueueInv, NEW c \in Client, Enqueue(c)
    PROVE  /\ wait' \in Seq(Entry)
           /\ \A i, j \in 1..Len(wait') : wait'[i].who = wait'[j].who => i = j
           /\ Queued' = Queued \cup {c}
<1>1. CASE c \in Queued
  BY <1>1 DEF Enqueue, QueueInv, Queued
<1>2. CASE c \notin Queued
  <2>1. wait' = KeyInsert(wait, NewEntry(c))
    BY <1>2 DEF Enqueue
  <2>2. PICK p \in 1..(Len(wait) + 1) :
          /\ wait' \in Seq(Entry)
          /\ Len(wait') = Len(wait) + 1
          /\ \A j \in 1..(Len(wait) + 1) :
                wait'[j] = IF j < p THEN wait[j]
                           ELSE IF j = p THEN NewEntry(c) ELSE wait[j - 1]
    <3>1. wait \in Seq(Entry) /\ NewEntry(c) \in Entry
      BY NewEntryType DEF QueueInv
    <3>2. QED
      BY <2>1, <3>1, KeyInsertPlaces
  <2>3. Len(wait) \in Nat
    BY LenProperties DEF QueueInv
  <2>4. \A i \in 1..Len(wait) : wait[i].who # c
    BY <1>2 DEF Queued
  <2>5. NewEntry(c).who = c
    BY NewEntryType
  <2>6. ASSUME NEW i \in 1..Len(wait'), NEW j \in 1..Len(wait'),
               wait'[i].who = wait'[j].who
        PROVE  i = j
    <3> DEFINE was(k) == IF k < p THEN k ELSE k - 1
    <3>1. \A k \in 1..Len(wait') :
             k # p => was(k) \in 1..Len(wait) /\ wait'[k] = wait[was(k)]
      BY <2>2, <2>3
    <3>2. wait'[p].who = c
      BY <2>2, <2>3, <2>5
    <3>3. CASE i = p \/ j = p
      BY <2>4, <2>6, <3>1, <3>2, <3>3
    <3>4. CASE i # p /\ j # p
      <4>1. was(i) = was(j)
        BY <2>6, <3>1, <3>4 DEF QueueInv
      <4>2. QED
        BY <2>2, <2>3, <3>4, <4>1
    <3>5. QED
      BY <3>3, <3>4
  <2>7. Queued' \subseteq Queued \cup {c}
    BY <2>2, <2>3, <2>5 DEF Queued
  <2>8. c \in Queued'
    <3>1. p \in 1..Len(wait') /\ wait'[p].who = c
      BY <2>2, <2>3, <2>5
    <3>2. QED
      BY <3>1 DEF Queued
  <2>9. ASSUME NEW i \in 1..Len(wait)
        PROVE  wait[i].who \in Queued'
    <3>1. CASE i < p
      <4>1. i \in 1..Len(wait') /\ wait'[i] = wait[i]
        BY <2>2, <2>3, <3>1
      <4>2. QED
        BY <4>1 DEF Queued
    <3>2. CASE ~(i < p)
      <4>1. i + 1 \in 1..Len(wait') /\ wait'[i + 1] = wait[i]
        BY <2>2, <2>3, <3>2
      <4>2. QED
        BY <4>1 DEF Queued
    <3>3. QED
      BY <3>1, <3>2
  <2>10. Queued \subseteq Queued'
    BY <2>9 DEF Queued
  <2>11. QED
    BY <2>2, <2>6, <2>7, <2>8, <2>10
<1>3. QED
  BY <1>1, <1>2

\* What del() and wakeup() do: the head is woken and is nobody who sleeps any
\* more; if it waited, one more client is on its way to the permits.  The
\* clients in busy, whose wake-ups are behind them, do not wait.
LEMMA DequeueWakes ==
    ASSUME QueueInv, NEW busy \in SUBSET Client, Dequeue(busy),
           \A c \in busy : at[c] # "wait",
           \A c \in Client : at'[c] = "wait" <=> at[c] = "wait"
    PROVE  /\ wait' \in Seq(Entry)
           /\ \A i, j \in 1..Len(wait') : wait'[i].who = wait'[j].who => i = j
           /\ woken' \in SUBSET Client
           /\ woken' \cap Queued' = {}
           /\ Asleep' \subseteq Queued'
           /\ wasted' \in BOOLEAN
           /\ ~wasted' =>
                /\ ~wasted
                /\ \/ Asleep' = {}
                   \/ /\ Asleep' \subseteq Asleep
                      /\ Cardinality(WokenToCome') = Cardinality(WokenToCome) + 1
<1>1. CASE wait = <<>>
  <2>1. /\ woken' = woken \ busy
        /\ UNCHANGED <<wait, wasted>>
    BY <1>1 DEF Dequeue
  <2>2. Queued = {} /\ Queued' = {}
    BY <1>1, <2>1 DEF Queued
  <2>3. Asleep = {}
    BY <2>2 DEF QueueInv
  <2>4. Asleep' = {}
    BY <2>1, <2>3 DEF Asleep
  <2>5. QED
    BY <2>1, <2>2, <2>4 DEF QueueInv
<1>2. CASE wait # <<>>
  <2> DEFINE h == Head(wait).who
  <2>1. /\ wait' = Tail(wait)
        /\ woken' = (woken \ busy) \cup {h}
        /\ wasted' = (wasted \/ at[h] # "wait")
    BY <1>2 DEF Dequeue
  <2>2. /\ Len(wait) \in Nat /\ Len(wait) >= 1
        /\ wait' \in Seq(Entry)
        /\ Len(wait') = Len(wait) - 1
        /\ Head(wait) = wait[1]
        /\ \A i \in 1..Len(wait') : wait'[i] = wait[i + 1]
    BY <1>2, <2>1, HeadTailProperties, LenProperties, EmptySeq DEF QueueInv
  <2>3. h = wait[1].who /\ h \in Client /\ h \in Queued
    <3>1. 1 \in 1..Len(wait)
      BY <2>2
    <3>2. wait[1] \in Entry
      BY <3>1, ElementOfSeq DEF QueueInv
    <3>3. QED
      BY <2>2, <3>1, <3>2 DEF Entry, Queued
  <2> HIDE DEF h
  <2>4. ASSUME NEW i \in 1..Len(wait'), NEW j \in 1..Len(wait'),
               wait'[i].who = wait'[j].who
        PROVE  i = j
    <3>1. i + 1 \in 1..Len(wait) /\ j + 1 \in 1..Len(wait)
      BY <2>2
    <3>2. i + 1 = j + 1
      BY <2>2, <2>4, <3>1 DEF QueueInv
    <3>3. QED
      BY <2>2, <3>2
  <2>5. Queued' \subseteq Queued \ {h}
    <3>1. ASSUME NEW i \in 1..Len(wait')
          PROVE  wait'[i].who \in Queued \ {h}
      <4>1. i + 1 \in 1..Len(wait) /\ wait'[i] = wait[i + 1] /\ i + 1 # 1
        BY <2>2
      <4>2. 1 \in 1..Len(wait)
        BY <2>2
      <4>3. wait[i + 1].who # wait[1].who
        BY <4>1, <4>2 DEF QueueInv
      <4>4. QED
        BY <2>3, <4>1, <4>3 DEF Queued
    <3>2. QED
      BY <3>1 DEF Queued
  <2>6. Queued \ {h} \subseteq Queued'
    <3>1. ASSUME NEW i \in 1..Len(wait), wait[i].who # h
          PROVE  wait[i].who \in Queued'
      <4>1. i # 1
        BY <2>3, <3>1
      <4>2. i - 1 \in 1..Len(wait') /\ (i - 1) + 1 = i
        BY <2>2, <4>1
      <4>3. wait'[i - 1] = wait[i]
        BY <2>2, <4>2
      <4>4. QED
        BY <4>2, <4>3 DEF Queued
    <3>2. QED
      BY <3>1 DEF Queued
  <2>7. woken' \in SUBSET Client /\ woken' \cap Queued' = {}
    BY <2>1, <2>3, <2>5 DEF QueueInv
  <2>8. Asleep' \subseteq Asleep \ {h}
    BY <2>1 DEF Asleep
  <2>9. Asleep' \subseteq Queued'
    BY <2>6, <2>8 DEF QueueInv
  <2>10. wasted' \in BOOLEAN
    BY <2>1 DEF QueueInv
  <2>11. ASSUME ~wasted'
         PROVE  ~wasted /\ Cardinality(WokenToCome') = Cardinality(WokenToCome) + 1
    <3>1. ~wasted /\ at[h] = "wait"
      BY <2>1, <2>11 DEF QueueInv
    <3>2. h \notin WokenToCome
      BY <2>3 DEF WokenToCome, QueueInv
    <3>3. WokenToCome' = WokenToCome \cup {h}
      BY <2>1, <2>3, <3>1 DEF WokenToCome, QueueInv
    <3>4. IsFiniteSet(WokenToCome)
      BY WokenFinite DEF QueueInv
    <3>5. QED
      BY <3>1, <3>2, <3>3, <3>4, FS_AddElement
  <2>12. QED
    BY <2>2, <2>4, <2>7, <2>8, <2>9, <2>10, <2>11
<1>3. QED
  BY <1>1, <1>2

-----------------------------------------------------------------------------
(* No permit is lost but through a wasted wake-up.                         *)

Covered == FreePermits <= grow + Cardinality(WokenToCome)

QInv == /\ IInv
        /\ QueueInv
        /\ ~wasted => Asleep = {} \/ Covered

LEMMA QInvCovers == QInv => NoLostPermit
  BY DEF QInv, NoLostPermit, ReleaseRestarts, Covered, WokenToCome

LEMMA InitCovered == Init => QInv
<1> SUFFICES ASSUME Init PROVE QInv
  OBVIOUS
<1>1. wait = <<>> /\ woken = {} /\ grow = 0 /\ wasted = FALSE
  BY DEF Init
<1>2. Asleep = {}
  BY DEF Init, Asleep
<1>3. wait \in Seq(Entry) /\ Len(wait) = 0
  BY <1>1, EmptySeq
<1>4. Queued = {}
  BY <1>3 DEF Queued
<1>5. \A i, j \in 1..Len(wait) : wait[i].who = wait[j].who => i = j
  BY <1>3
<1>6. QueueInv
  BY <1>1, <1>2, <1>3, <1>4, <1>5 DEF QueueInv
<1>7. QED
  BY <1>2, <1>6, InitAccounted DEF QInv

LEMMA FreePermitsType == CountTypes => FreePermits \in Int
  BY DEF CountTypes, FreePermits

LEMMA LosesAtMostOne ==
    ASSUME NEW S, IsFiniteSet(S), NEW x
    PROVE  /\ Cardinality(S \ {x}) \in Nat
           /\ Cardinality(S \ {x}) >= Cardinality(S) - 1
<1>1. Cardinality(S) \in Nat
  BY FS_CardinalityType
<1>2. IsFiniteSet(S \ {x}) /\ Cardinality(S \ {x}) \in Nat
  BY FS_RemoveElement, FS_CardinalityType
<1>3. QED
  BY <1>1, <1>2, FS_RemoveElement

\* get(): a permit taken is one free permit less, and at most one client on its
\* way less; a client that finds none goes to sleep where none is free.
LEMMA GetCovers ==
    ASSUME QInv, NEW c \in Client, Get(c)
    PROVE  QueueInv' /\ (~wasted' => Asleep' = {} \/ Covered')
<1>1. /\ CountTypes /\ QueueInv
      /\ kind \in {"sem", "limit"} /\ count \in Int /\ limit \in Nat
      /\ at \in [Client -> {"idle", "wait", "hold"}]
  BY DEF QInv, IInv, CountTypes
<1>2. /\ at[c] # "hold"
      /\ woken' = woken \ {c}
      /\ UNCHANGED <<kind, limit, grow, wasted>>
  BY DEF Get
<1>3. IsFiniteSet(WokenToCome) /\ Cardinality(WokenToCome) \in Nat
  BY <1>1, WokenFinite DEF QueueInv
<1>4. CASE /\ FreePermits > 0
           /\ TakeOnePermit
           /\ at' = [at EXCEPT ![c] = "hold"]
           /\ UNCHANGED <<wait, came>>
  <2>1. Queued' = Queued
    BY <1>4 DEF Queued
  <2>2. Asleep' = Asleep \ {c}
    BY <1>1, <1>2, <1>4 DEF Asleep
  <2>3. woken' \cap Queued' = {} /\ Asleep' \subseteq Queued'
    BY <1>1, <1>2, <2>1, <2>2 DEF QueueInv
  <2>4. QueueInv'
    BY <1>1, <1>2, <1>4, <2>3 DEF QueueInv
  <2>5. FreePermits' = FreePermits - 1
    BY <1>1, <1>2, <1>4 DEF FreePermits, TakeOnePermit
  <2>6. WokenToCome' = WokenToCome \ {c}
    BY <1>1, <1>2, <1>4 DEF WokenToCome, QueueInv
  <2>7. /\ Cardinality(WokenToCome') \in Nat
        /\ Cardinality(WokenToCome') >= Cardinality(WokenToCome) - 1
    BY <1>3, <2>6, LosesAtMostOne
  <2>8. Covered => Covered'
    BY <1>1, <1>2, <1>3, <2>5, <2>7, FreePermitsType DEF Covered, QueueInv
  <2>9. QED
    BY <1>2, <2>2, <2>4, <2>8 DEF QInv
<1>5. CASE /\ FreePermits = 0
           /\ at' = [at EXCEPT ![c] = "wait"]
           /\ Enqueue(c)
           /\ UNCHANGED count
  <2>1. /\ wait' \in Seq(Entry)
        /\ \A i, j \in 1..Len(wait') : wait'[i].who = wait'[j].who => i = j
        /\ Queued' = Queued \cup {c}
    BY <1>1, <1>5, EnqueueQueues
  <2>2. Asleep' \subseteq Asleep \cup {c}
    BY <1>1, <1>2, <1>5 DEF Asleep
  <2>3. QueueInv'
    BY <1>1, <1>2, <2>1, <2>2 DEF QueueInv
  <2>4. Cardinality(WokenToCome') \in Nat
    <3>1. WokenToCome' = WokenToCome \ {c}
      BY <1>1, <1>2, <1>5 DEF WokenToCome, QueueInv
    <3>2. QED
      BY <1>3, <3>1, LosesAtMostOne
  <2>5. FreePermits' = 0
    BY <1>2, <1>5 DEF FreePermits
  <2>6. Covered'
    BY <2>3, <2>4, <2>5 DEF Covered, QueueInv
  <2>7. QED
    BY <2>3, <2>6
<1>6. QED
  BY <1>4, <1>5 DEF Get

\* release(): the permit given back is covered by the client that is woken, or
\* nobody sleeps, or the limit leaves nothing free.
LEMMA ReleaseCovers ==
    ASSUME QInv, NEW c \in Client, Release(c)
    PROVE  QueueInv' /\ (~wasted' => Asleep' = {} \/ Covered')
<1>1. /\ CountTypes /\ QueueInv
      /\ kind \in {"sem", "limit"} /\ count \in Int /\ limit \in Nat
      /\ at \in [Client -> {"idle", "wait", "hold"}]
  BY DEF QInv, IInv, CountTypes
<1>2. /\ at[c] = "hold"
      /\ at' = [at EXCEPT ![c] = "idle"]
      /\ UNCHANGED <<kind, limit, grow>>
  BY DEF Release
<1>3. \A d \in Client : at'[d] = "wait" <=> at[d] = "wait"
  BY <1>1, <1>2
<1>4. Cardinality(WokenToCome) \in Nat
  BY <1>1, WokenFinite DEF QueueInv
<1>5. CASE Dequeue({c}) /\ FreePermits' = FreePermits + 1
  <2>1. /\ wait' \in Seq(Entry)
        /\ \A i, j \in 1..Len(wait') : wait'[i].who = wait'[j].who => i = j
        /\ woken' \in SUBSET Client
        /\ woken' \cap Queued' = {}
        /\ Asleep' \subseteq Queued'
        /\ wasted' \in BOOLEAN
        /\ ~wasted' =>
             /\ ~wasted
             /\ \/ Asleep' = {}
                \/ /\ Asleep' \subseteq Asleep
                   /\ Cardinality(WokenToCome') = Cardinality(WokenToCome) + 1
    BY <1>1, <1>2, <1>3, <1>5, DequeueWakes
  <2>2. QueueInv'
    BY <1>1, <1>2, <2>1 DEF QueueInv
  <2>3. ASSUME Covered, Cardinality(WokenToCome') = Cardinality(WokenToCome) + 1
        PROVE  Covered'
    BY <1>1, <1>2, <1>4, <1>5, <2>3, FreePermitsType DEF Covered, QueueInv
  <2>4. QED
    BY <2>1, <2>2, <2>3 DEF QInv
<1>6. CASE /\ woken' = woken \ {c}
           /\ UNCHANGED <<wait, came, wasted>>
           /\ FreePermits' = 0
  <2>1. Queued' = Queued
    BY <1>6 DEF Queued
  <2>2. Asleep' = Asleep
    BY <1>1, <1>2, <1>6 DEF Asleep
  <2>3. QueueInv'
    BY <1>1, <1>2, <1>6, <2>1, <2>2 DEF QueueInv
  <2>4. WokenToCome' = WokenToCome
    BY <1>1, <1>2, <1>6 DEF WokenToCome, QueueInv
  <2>5. Covered'
    BY <1>4, <1>6, <2>3, <2>4 DEF Covered, QueueInv
  <2>6. QED
    BY <2>3, <2>5
<1>7. CASE kind = "sem"
  <2>1. count' = count + 1 /\ Dequeue({c})
    BY <1>7 DEF Release
  <2>2. FreePermits' = FreePermits + 1
    BY <1>2, <1>7, <2>1 DEF FreePermits
  <2>3. QED
    BY <1>5, <2>1, <2>2
<1>8. CASE kind = "limit"
  <2>1. count' = count - 1
    BY <1>8 DEF Release
  <2>2. CASE count' >= limit
    <3>1. FreePermits' = 0
      BY <1>1, <1>2, <1>8, <2>1, <2>2 DEF FreePermits
    <3>2. woken' = woken \ {c} /\ UNCHANGED <<wait, came, wasted>>
      BY <1>8, <2>2 DEF Release
    <3>3. QED
      BY <1>6, <3>1, <3>2
  <2>3. CASE ~(count' >= limit)
    <3>1. FreePermits' = FreePermits + 1
      BY <1>1, <1>2, <1>8, <2>1, <2>3 DEF FreePermits
    <3>2. Dequeue({c})
      BY <1>8, <2>3 DEF Release
    <3>3. QED
      BY <1>5, <3>1, <3>2
  <2>4. QED
    BY <2>2, <2>3
<1>9. QED
  BY <1>1, <1>7, <1>8

\* limit()'s loop: each turn spends one wake-up to do for one client woken.
LEMMA GrowWakeCovers ==
    ASSUME QInv, GrowWake
    PROVE  QueueInv' /\ (~wasted' => Asleep' = {} \/ Covered')
<1>1. CountTypes /\ QueueInv
  BY DEF QInv, IInv
<1>2. /\ grow > 0 /\ grow' = IF wait = <<>> THEN 0 ELSE grow - 1
      /\ Dequeue({})
      /\ UNCHANGED <<kind, count, limit, at>>
  BY DEF GrowWake
<1>3. Cardinality(WokenToCome) \in Nat
  BY <1>1, WokenFinite DEF QueueInv
<1>4. grow' \in Nat
  BY <1>1, <1>2 DEF QueueInv
<1>5. /\ wait' \in Seq(Entry)
      /\ \A i, j \in 1..Len(wait') : wait'[i].who = wait'[j].who => i = j
      /\ woken' \in SUBSET Client
      /\ woken' \cap Queued' = {}
      /\ Asleep' \subseteq Queued'
      /\ wasted' \in BOOLEAN
      /\ ~wasted' =>
           /\ ~wasted
           /\ \/ Asleep' = {}
              \/ /\ Asleep' \subseteq Asleep
                 /\ Cardinality(WokenToCome') = Cardinality(WokenToCome) + 1
  BY <1>1, <1>2, DequeueWakes
<1>6. kind' = "sem" => grow' = 0
  BY <1>1, <1>2 DEF QueueInv
<1>7. QueueInv'
  BY <1>4, <1>5, <1>6 DEF QueueInv
<1>8. FreePermits' = FreePermits
  BY <1>2 DEF FreePermits
<1>9. CASE wait = <<>>
  <2>1. Queued = {}
    BY <1>9 DEF Queued
  <2>2. Asleep = {}
    BY <1>1, <2>1 DEF QueueInv
  <2>3. woken' = woken
    BY <1>2, <1>9 DEF Dequeue
  <2>4. Asleep' = {}
    BY <1>2, <2>2, <2>3 DEF Asleep
  <2>5. QED
    BY <1>7, <2>4
<1>10. CASE wait # <<>>
  <2>1. grow' = grow - 1
    BY <1>2, <1>10
  <2>2. ASSUME Covered, Cardinality(WokenToCome') = Cardinality(WokenToCome) + 1
        PROVE  Covered'
    BY <1>1, <1>3, <1>8, <2>1, <2>2, FreePermitsType DEF Covered, QueueInv
  <2>3. QED
    BY <1>5, <1>7, <2>2 DEF QInv
<1>11. QED
  BY <1>9, <1>10

\* limit(): each permit a higher limit adds has a wake-up to do.
LEMMA SetLimitCovers ==
    ASSUME QInv, NEW lim \in Limits, SetLimit(lim)
    PROVE  QueueInv' /\ (~wasted' => Asleep' = {} \/ Covered')
<1>1. CountTypes /\ QueueInv /\ lim \in Nat
  BY SemaphoreAssumption DEF QInv, IInv
<1>2. /\ kind = "limit" /\ grow = 0 /\ limit' = lim
      /\ grow' = IF lim > limit THEN lim - limit ELSE 0
      /\ UNCHANGED <<kind, count, wait, at, woken, wasted>>
  BY DEF SetLimit
<1>3. /\ Queued' = Queued /\ Asleep' = Asleep
      /\ WokenToCome' = WokenToCome
  BY <1>2 DEF Queued, Asleep, WokenToCome
<1>4. grow' \in Nat
  BY <1>1, <1>2 DEF CountTypes
<1>5. QueueInv'
  BY <1>1, <1>2, <1>3, <1>4 DEF QueueInv
<1>6. FreePermits' <= FreePermits + grow'
  BY <1>1, <1>2 DEF CountTypes, FreePermits
<1>7. FreePermits' \in Int /\ FreePermits \in Int
  BY <1>1, <1>2 DEF CountTypes, FreePermits
<1>8. Cardinality(WokenToCome) \in Nat
  BY <1>1, WokenFinite DEF QueueInv
<1>9. Covered => Covered'
  BY <1>2, <1>3, <1>4, <1>6, <1>7, <1>8 DEF Covered
<1>10. QED
  BY <1>2, <1>3, <1>5, <1>9 DEF QInv

\* A client that gives the wait up takes no wake-up with it, unless it is
\* wasted.
LEMMA LeaveCovers ==
    ASSUME QInv, NEW c \in Client, Leave(c)
    PROVE  QueueInv' /\ (~wasted' => Asleep' = {} \/ Covered')
<1>1. CountTypes /\ QueueInv
  BY DEF QInv, IInv
<1>2. /\ at[c] = "wait"
      /\ at' = [at EXCEPT ![c] = "idle"]
      /\ woken' = woken \ {c}
      /\ wasted' = (wasted \/ c \in woken)
      /\ UNCHANGED <<kind, count, limit, grow, wait>>
  BY DEF Leave
<1>3. Queued' = Queued
  BY <1>2 DEF Queued
<1>4. Asleep' \subseteq Asleep
  BY <1>1, <1>2 DEF Asleep, CountTypes
<1>5. QueueInv'
  BY <1>1, <1>2, <1>3, <1>4 DEF QueueInv
<1>6. ASSUME ~wasted'
      PROVE  ~wasted /\ WokenToCome' = WokenToCome
  BY <1>1, <1>2, <1>6 DEF WokenToCome, QueueInv, CountTypes
<1>7. FreePermits' = FreePermits
  BY <1>2 DEF FreePermits
<1>8. ASSUME ~wasted', Covered
      PROVE  Covered'
  BY <1>2, <1>6, <1>7, <1>8 DEF Covered
<1>9. QED
  BY <1>4, <1>5, <1>6, <1>8 DEF QInv

LEMMA NextCovers ==
    ASSUME QInv, [Next]_vars
    PROVE  QInv'
<1>1. IInv'
  BY NextAccounted DEF QInv
<1>2. CASE Prioritise \/ UNCHANGED vars
  <2>1. UNCHANGED <<kind, count, limit, grow, wait, at, woken, wasted>>
    BY <1>2 DEF Prioritise, vars
  <2>2. /\ Queued' = Queued /\ Asleep' = Asleep
        /\ WokenToCome' = WokenToCome /\ FreePermits' = FreePermits
    BY <2>1 DEF Queued, Asleep, WokenToCome, FreePermits
  <2>3. QueueInv'
    BY <2>1, <2>2 DEF QInv, QueueInv
  <2>4. QED
    BY <1>1, <2>1, <2>2, <2>3 DEF QInv, Covered
<1>3. ASSUME Next, ~Prioritise
      PROVE  QueueInv' /\ (~wasted' => Asleep' = {} \/ Covered')
  BY <1>3, GetCovers, ReleaseCovers, LeaveCovers, SetLimitCovers, GrowWakeCovers
  DEF Next
<1>4. QED
  BY <1>1, <1>2, <1>3 DEF QInv

\* For any number of clients, limits and priorities: while no wake-up went to a
\* client that did not wait any more, every permit that is free beside a
\* sleeping client has a wake-up under way for it (get(), release(), limit()).
THEOREM PermitsNotLost == Spec => []NoLostPermit
<1>1. QInv /\ [Next]_vars => QInv'
  BY NextCovers
<1>2. QED
  BY <1>1, InitCovered, QInvCovers, PTL DEF Spec

-----------------------------------------------------------------------------
(* The order of the queue.                                                 *)

\* Entries of the same key are to be served as they came.
Equals(x, y) == x.key = y.key /\ (insNeq \/ x.key = MaxKey)

\* The queue is sorted, and equals stand in it as they came.
OrderInv ==
    /\ came \subseteq Queued \X Queued
    /\ Sorted(wait)
    /\ \A i, j \in 1..Len(wait) :
          i <= j /\ Equals(wait[i], wait[j]) => <<wait[j].who, wait[i].who>> \notin came

\* A new entry goes behind all entries that are to be served before it.
LEMMA EnqueueKeepsOrder ==
    ASSUME QueueInv, OrderInv, NEW c \in Client, Enqueue(c), UNCHANGED insNeq
    PROVE  OrderInv'
<1>1. CASE c \in Queued
  BY <1>1 DEF Enqueue, OrderInv, Queued, Sorted, Equals
<1>2. CASE c \notin Queued
  <2> DEFINE e == NewEntry(c)
  <2>1. wait' = KeyInsert(wait, e) /\ came' = came \cup (Queued \X {c})
    BY <1>2 DEF Enqueue
  <2>2. wait \in Seq(Entry) /\ e \in Entry /\ e.who = c
    BY NewEntryType DEF QueueInv
  <2> HIDE DEF e
  <2>3. PICK p \in 1..(Len(wait) + 1) :
          /\ Sorted(wait) => \A j \in 1..Len(wait) : j < p <=> Ahead(wait[j], e)
          /\ wait' \in Seq(Entry)
          /\ Len(wait') = Len(wait) + 1
          /\ \A j \in 1..(Len(wait) + 1) :
                wait'[j] = IF j < p THEN wait[j]
                           ELSE IF j = p THEN e ELSE wait[j - 1]
    BY <2>1, <2>2, KeyInsertPlaces
  <2>4. Len(wait) \in Nat
    BY <2>2, LenProperties
  <2>5. /\ \A j \in 1..Len(wait) : wait[j] \in Entry
        /\ \A j \in 1..Len(wait) : j < p <=> Ahead(wait[j], e)
    BY <2>2, <2>3, ElementOfSeq DEF OrderInv
  <2> DEFINE was(k) == IF k < p THEN k ELSE k - 1
  <2>6. \A k \in 1..Len(wait') :
           k # p => was(k) \in 1..Len(wait) /\ wait'[k] = wait[was(k)]
    BY <2>3, <2>4
  <2>7. wait'[p] = e /\ p \in 1..Len(wait')
    BY <2>3, <2>4
  <2>8. \A i \in 1..Len(wait) : wait[i].who # c /\ wait[i].who \in Queued
    BY <1>2 DEF Queued
  <2>9. Queued' = Queued \cup {c}
    BY EnqueueQueues
  <2>10. came' \subseteq Queued' \X Queued'
    BY <2>1, <2>9 DEF OrderInv
  <2>11. ASSUME NEW i \in 1..Len(wait'), NEW j \in 1..Len(wait'), i <= j
         PROVE  /\ wait'[i].key <= wait'[j].key
                /\ Equals(wait'[i], wait'[j]) => <<wait'[j].who, wait'[i].who>> \notin came'
    <3>1. CASE i # p /\ j # p
      <4>1. was(i) <= was(j)
        BY <2>3, <2>4, <2>11, <3>1
      <4>2. /\ was(i) \in 1..Len(wait) /\ wait'[i] = wait[was(i)]
            /\ was(j) \in 1..Len(wait) /\ wait'[j] = wait[was(j)]
        BY <2>6, <3>1
      <4> HIDE DEF was
      <4>3. wait[was(i)].key <= wait[was(j)].key
        BY <4>1, <4>2 DEF OrderInv, Sorted
      <4>4. ASSUME Equals(wait[was(i)], wait[was(j)])
            PROVE  <<wait[was(j)].who, wait[was(i)].who>> \notin came
        BY <4>1, <4>2, <4>4 DEF OrderInv
      <4>5. wait[was(i)].who # c
        BY <2>8, <4>2
      <4>6. QED
        BY <2>1, <4>2, <4>3, <4>4, <4>5 DEF Equals
    <3>2. CASE i = p /\ j = p
      <4>1. e.key \in Nat
        BY <2>2 DEF Entry
      <4>2. <<c, c>> \notin came'
        BY <1>2, <2>1 DEF OrderInv
      <4>3. QED
        BY <2>2, <2>7, <3>2, <4>1, <4>2
    <3>3. CASE i # p /\ j = p
      <4>1. was(i) \in 1..Len(wait) /\ wait'[i] = wait[was(i)] /\ was(i) < p
        BY <2>3, <2>4, <2>6, <2>11, <3>3
      <4> HIDE DEF was
      <4>2. Ahead(wait[was(i)], e)
        BY <2>5, <4>1
      <4>3. wait[was(i)].key \in Nat /\ e.key \in Nat
        BY <2>2, <2>5, <4>1 DEF Entry
      <4>4. wait[was(i)].key <= e.key
        BY <4>2, <4>3 DEF Ahead
      <4>5. <<c, wait[was(i)].who>> \notin came'
        BY <1>2, <2>1, <2>8, <4>1 DEF OrderInv
      <4>6. QED
        BY <2>2, <2>7, <3>3, <4>1, <4>4, <4>5
    <3>4. CASE i = p /\ j # p
      <4>1. was(j) \in 1..Len(wait) /\ wait'[j] = wait[was(j)] /\ ~(was(j) < p)
        BY <2>3, <2>4, <2>6, <2>11, <3>4
      <4> HIDE DEF was
      <4>2. ~Ahead(wait[was(j)], e)
        BY <2>5, <4>1
      <4>3. wait[was(j)].key \in Nat /\ e.key \in Nat
        BY <2>2, <2>5, <4>1 DEF Entry
      <4>4. /\ e.key <= wait[was(j)].key
            /\ ~Equals(e, wait[was(j)])
        BY <4>2, <4>3 DEF Ahead, Equals
      <4>5. QED
        BY <2>7, <3>4, <4>1, <4>4 DEF Equals
    <3>5. QED
      BY <3>1, <3>2, <3>3, <3>4
  <2>12. QED
    BY <2>10, <2>11 DEF OrderInv, Sorted, Equals
<1>3. QED
  BY <1>1, <1>2

\* The key of a queued client is that of its entry.
LEMMA KeyOfEntry ==
    ASSUME QueueInv, NEW i \in 1..Len(wait)
    PROVE  KeyOf(wait[i].who) = wait[i].key
<1>1. \A j \in 1..Len(wait) : wait[j].who = wait[i].who => j = i
  BY DEF QueueInv
<1> QED
  BY <1>1 DEF KeyOf

\* What a step takes off the queue stands before all that is left.
InTurn ==
    \A c \in Queued \ Queued', d \in Queued :
       \/ KeyOf(c) < KeyOf(d)
       \/ /\ KeyOf(c) = KeyOf(d)
          /\ insNeq \/ KeyOf(c) = MaxKey => <<d, c>> \notin came

LEMMA DequeueKeepsOrder ==
    ASSUME QueueInv, OrderInv, NEW busy, Dequeue(busy), UNCHANGED insNeq
    PROVE  OrderInv' /\ InTurn
<1>1. CASE wait = <<>>
  <2>1. UNCHANGED <<wait, came>>
    BY <1>1 DEF Dequeue
  <2>2. Queued' = Queued
    BY <2>1 DEF Queued
  <2>3. QED
    BY <2>1, <2>2 DEF OrderInv, Sorted, Equals, InTurn
<1>2. CASE wait # <<>>
  <2> DEFINE h == Head(wait).who
  <2>1. wait' = Tail(wait) /\ came' = Others(h)
    BY <1>2 DEF Dequeue
  <2>2. /\ Len(wait) \in Nat /\ Len(wait) >= 1
        /\ wait' \in Seq(Entry)
        /\ Len(wait') = Len(wait) - 1
        /\ Head(wait) = wait[1]
        /\ \A i \in 1..Len(wait') : wait'[i] = wait[i + 1]
    BY <1>2, <2>1, HeadTailProperties, LenProperties, EmptySeq DEF QueueInv
  <2>3. 1 \in 1..Len(wait) /\ h = wait[1].who
    BY <2>2
  <2> HIDE DEF h
  <2>4. \A i \in 1..Len(wait') : i + 1 \in 1..Len(wait)
    BY <2>2
  <2>5. \A i \in 2..Len(wait) : i - 1 \in 1..Len(wait') /\ (i - 1) + 1 = i
    BY <2>2
  <2>6. \A i \in 2..Len(wait) : wait'[i - 1] = wait[i]
    BY <2>2, <2>5
  <2>7. \A i \in 2..Len(wait) : wait[i].who \in Queued'
    BY <2>5, <2>6 DEF Queued
  <2>8. ASSUME NEW x \in Queued, x # h
        PROVE  x \in Queued'
    <3>1. PICK i \in 1..Len(wait) : x = wait[i].who
      BY DEF Queued
    <3>2. i \in 2..Len(wait)
      BY <2>2, <2>3, <2>8, <3>1
    <3>3. QED
      BY <2>7, <3>1, <3>2
  <2>9. came' \subseteq Queued' \X Queued'
    <3>1. came' = {p \in came : h \notin {p[1], p[2]}}
      BY <2>1 DEF Others
    <3>2. QED
      BY <2>8, <3>1 DEF OrderInv
  <2>10. came' \subseteq came
    BY <2>1 DEF Others
  <2>11. ASSUME NEW i \in 1..Len(wait'), NEW j \in 1..Len(wait'), i <= j
         PROVE  /\ wait'[i].key <= wait'[j].key
                /\ Equals(wait'[i], wait'[j]) => <<wait'[j].who, wait'[i].who>> \notin came'
    <3>1. /\ i + 1 \in 1..Len(wait) /\ j + 1 \in 1..Len(wait) /\ i + 1 <= j + 1
          /\ wait'[i] = wait[i + 1] /\ wait'[j] = wait[j + 1]
      BY <2>2, <2>11
    <3>2. wait[i + 1].key <= wait[j + 1].key
      BY <3>1 DEF OrderInv, Sorted
    <3>3. Equals(wait[i + 1], wait[j + 1])
             => <<wait[j + 1].who, wait[i + 1].who>> \notin came
      BY <3>1 DEF OrderInv
    <3>4. QED
      BY <2>10, <3>1, <3>2, <3>3 DEF Equals
  <2>12. OrderInv'
    BY <2>9, <2>11 DEF OrderInv, Sorted, Equals
  <2>13. ASSUME NEW c \in Queued \ Queued', NEW d \in Queued
         PROVE  \/ KeyOf(c) < KeyOf(d)
                \/ /\ KeyOf(c) = KeyOf(d)
                   /\ insNeq \/ KeyOf(c) = MaxKey => <<d, c>> \notin came
    <3>1. c = wait[1].who
      BY <2>3, <2>8
    <3>2. PICK j \in 1..Len(wait) : d = wait[j].who
      BY DEF Queued
    <3>3. KeyOf(c) = wait[1].key /\ KeyOf(d) = wait[j].key
      BY <2>3, <3>1, <3>2, KeyOfEntry
    <3>4. wait[1] \in Entry /\ wait[j] \in Entry
      BY <2>3, ElementOfSeq DEF QueueInv
    <3>5. wait[1].key \in Nat /\ wait[j].key \in Nat
      BY <3>4 DEF Entry
    <3>6. 1 <= j
      OBVIOUS
    <3>7. wait[1].key <= wait[j].key
      BY <2>3, <3>6 DEF OrderInv, Sorted
    <3>8. Equals(wait[1], wait[j]) => <<d, c>> \notin came
      BY <2>3, <3>1, <3>2, <3>6 DEF OrderInv
    <3>9. QED
      BY <3>3, <3>5, <3>7, <3>8 DEF Equals
  <2>14. QED
    BY <2>12, <2>13 DEF InTurn
<1>3. QED
  BY <1>1, <1>2

\* A step that does not touch the queue.
LEMMA QueueLeft ==
    ASSUME OrderInv, UNCHANGED <<wait, came, insNeq>>
    PROVE  OrderInv' /\ InTurn
<1>1. Queued' = Queued
  BY DEF Queued
<1> QED
  BY <1>1 DEF OrderInv, Sorted, Equals, InTurn

LEMMA NextOrder ==
    ASSUME QInv, OrderInv, [Next]_vars
    PROVE  OrderInv' /\ InTurn
<1> USE DEF QInv
<1>1. ASSUME NEW c \in Client, Get(c)
      PROVE  OrderInv' /\ InTurn
  <2>1. UNCHANGED insNeq /\ (Enqueue(c) \/ UNCHANGED <<wait, came>>)
    BY <1>1 DEF Get
  <2>2. CASE Enqueue(c)
    <3>1. Queued \subseteq Queued'
      BY <2>2, EnqueueQueues
    <3>2. InTurn
      BY <3>1 DEF InTurn
    <3>3. QED
      BY <2>1, <2>2, <3>2, EnqueueKeepsOrder
  <2>3. QED
    BY <2>1, <2>2, QueueLeft
<1>2. ASSUME NEW c \in Client, Release(c)
      PROVE  OrderInv' /\ InTurn
  <2>1. UNCHANGED insNeq /\ (Dequeue({c}) \/ UNCHANGED <<wait, came>>)
    BY <1>2 DEF Release
  <2>2. QED
    BY <2>1, DequeueKeepsOrder, QueueLeft
<1>3. CASE GrowWake
  BY <1>3, DequeueKeepsOrder DEF GrowWake
<1>4. CASE \/ Prioritise \/ UNCHANGED vars
           \/ \E c \in Client : Leave(c)
           \/ \E lim \in Limits : SetLimit(lim)
  BY <1>4, QueueLeft DEF Prioritise, vars, Leave, SetLimit
<1>5. QED
  BY <1>1, <1>2, <1>3, <1>4 DEF Next

\* For any number of clients, any limits and priorities, and whenever the program turns
\* priorities on or off: the client that is woken has the least key of all that are
\* queued, and with insNeq, or without a priority, no client of its key came before it
\* (stdQueue::ins(), stdLimitSemaphore::w_ins(), release(), limit()).
THEOREM ServedByKeyAndTurn == Spec => WakesInTurn
<1>1. Init => OrderInv
  <2> SUFFICES ASSUME Init PROVE OrderInv
    OBVIOUS
  <2>1. Len(wait) = 0 /\ came = {}
    BY EmptySeq DEF Init
  <2>2. QED
    BY <2>1 DEF OrderInv, Sorted
<1>2. (QInv /\ OrderInv) /\ [Next]_vars => (QInv /\ OrderInv)'
  BY NextCovers, NextOrder
<1>3. (QInv /\ OrderInv) /\ [Next]_vars
        => [\A c \in Queued \ {wait'[i].who : i \in 1..Len(wait')}, d \in Queued :
              \/ KeyOf(c) < KeyOf(d)
              \/ /\ KeyOf(c) = KeyOf(d)
                 /\ insNeq \/ KeyOf(c) = MaxKey => <<d, c>> \notin came]_vars
  BY NextOrder DEF InTurn, Queued
<1>4. QED
  BY <1>1, <1>2, <1>3, InitCovered, PTL DEF Spec, WakesInTurn

-----------------------------------------------------------------------------
(* The types.                                                              *)

\* What is chosen once, or set from outside, beside the count's types.
Settings ==
    /\ kind \in Kinds /\ limit \in Limits /\ count \in Nat
    /\ insNeq \in BOOLEAN /\ enablePriority \in BOOLEAN

LEMMA NextSettings ==
    ASSUME IInv, IInv', Settings, [Next]_vars
    PROVE  Settings'
<1>1. Cardinality(Holders') \in Nat
  <2>1. Holders' \subseteq Client
    BY DEF Holders
  <2>2. QED
    BY <2>1, SemaphoreAssumption, FS_Subset, FS_CardinalityType
<1>2. ASSUME NEW c \in Client, Get(c)
      PROVE  Settings'
  <2>1. UNCHANGED <<kind, limit, insNeq, enablePriority>>
    BY <1>2 DEF Get
  <2>2. count \in Nat /\ limit \in Nat /\ kind \in {"sem", "limit"}
    BY DEF Settings, IInv, CountTypes
  <2>3. \/ FreePermits > 0 /\ TakeOnePermit
        \/ UNCHANGED count
    BY <1>2 DEF Get
  <2>4. count' \in Nat
    BY <2>2, <2>3 DEF FreePermits, TakeOnePermit
  <2>5. QED
    BY <2>1, <2>4 DEF Settings
<1>3. ASSUME NEW c \in Client, Release(c)
      PROVE  Settings'
  <2>1. UNCHANGED <<kind, limit, insNeq, enablePriority>>
    BY <1>3 DEF Release
  <2>2. \/ count' = count + 1
        \/ kind' = "limit"
    BY <1>3, <2>1 DEF Release
  <2>3. count' \in Nat
    BY <1>1, <2>2 DEF Settings, IInv, PermitsAccounted
  <2>4. QED
    BY <2>1, <2>3 DEF Settings
<1>4. ASSUME NEW lim \in Limits, SetLimit(lim)
      PROVE  Settings'
  BY <1>4 DEF SetLimit, Settings
<1>5. CASE \/ GrowWake \/ Prioritise \/ UNCHANGED vars
           \/ \E c \in Client : Leave(c)
  <2>1. UNCHANGED <<kind, count, limit, insNeq>>
    BY <1>5 DEF GrowWake, Prioritise, vars, Leave
  <2>2. enablePriority' \in BOOLEAN
    <3>1. CASE Prioritise
      BY <3>1 DEF Prioritise
    <3>2. CASE ~Prioritise
      <4>1. UNCHANGED enablePriority
        BY <1>5, <3>2 DEF GrowWake, vars, Leave
      <4>2. QED
        BY <4>1 DEF Settings
    <3>3. QED
      BY <3>1, <3>2
  <2>3. QED
    BY <2>1, <2>2 DEF Settings
<1>6. QED
  BY <1>2, <1>3, <1>4, <1>5 DEF Next

\* For any number of clients and any limits every reachable state is well typed:
\* no count goes below zero, and nobody is queued twice (get(), w_ins()).
THEOREM TypeInvariant == Spec => []TypeOK
<1>1. Init => QInv /\ Settings
  <2> SUFFICES ASSUME Init PROVE Settings
    BY InitCovered
  <2>1. limit \in Nat /\ limit \in Limits
    BY SemaphoreAssumption DEF Init
  <2>2. QED
    BY <2>1 DEF Init, Settings
<1>2. (QInv /\ Settings) /\ [Next]_vars => (QInv /\ Settings)'
  BY NextCovers, NextSettings DEF QInv
<1>3. QInv /\ Settings => TypeOK
  <2> SUFFICES ASSUME QInv, Settings PROVE TypeOK
    OBVIOUS
  <2>1. /\ wait \in Seq(Entry)
        /\ \A i, j \in 1..Len(wait) : wait[i].who = wait[j].who => i = j
    BY DEF QInv, QueueInv
  <2>2. IsInjective([i \in 1..Len(wait) |-> wait[i].who])
    BY <2>1 DEF IsInjective
  <2>3. QED
    BY <2>1, <2>2 DEF QInv, QueueInv, IInv, CountTypes, Settings, TypeOK
<1>4. QED
  BY <1>1, <1>2, <1>3, PTL DEF Spec
=============================================================================
