--------------------------- MODULE RwMutexProofs ---------------------------
(***************************************************************************)
(* Proofs about stdMutex for any finite set of clients: count says who     *)
(* holds the lock, nobody sleeps beside a lock it could have, and the lock *)
(* implements RwLock.                                                      *)
(***************************************************************************)
EXTENDS RwMutex, FiniteSetTheorems, TLAPS

\* What count says of the holders.
Counted ==
    /\ Readers = {} \/ Writers = {}
    /\ \A c, d \in Writers : c = d
    /\ Writers # {} => count = -1
    /\ Writers = {} => count = Cardinality(Readers)

IInv == TypeOK /\ Counted /\ AsleepForReason

\* The holders are finite sets of clients, and count is as Counted says.
LEMMA HoldersFinite ==
    /\ IsFiniteSet(Readers) /\ IsFiniteSet(Writers)
    /\ Cardinality(Readers) \in Nat
    /\ Cardinality(Readers) = 0 <=> Readers = {}
  <1>1. Readers \subseteq Client /\ Writers \subseteq Client
    BY DEF Readers, Writers
  <1>2. QED
    BY <1>1, RwMutexAssumption, FS_Subset, FS_CardinalityType, FS_EmptySet

\* The guards of the code, in terms of the holders.
LEMMA Guards ==
    ASSUME TypeOK, Counted
    PROVE  /\ count >= 0 <=> Writers = {}
           /\ count = 0 <=> Writers = {} /\ Readers = {}
  BY HoldersFinite DEF TypeOK, Counted

\* Nobody holds or wants the lock at the start.
LEMMA InitInv == Init => IInv
  <1> SUFFICES ASSUME Init PROVE IInv
    OBVIOUS
  <1>1. TypeOK /\ AsleepForReason
    BY DEF Init, TypeOK, AsleepForReason
  <1>2. Readers = {} /\ Writers = {}
    BY DEF Init, Readers, Writers
  <1>3. Counted
    BY <1>2, FS_EmptySet DEF Init, Counted
  <1>4. QED
    BY <1>1, <1>3 DEF IInv

\* A step that moves one client changes the sets of holders by that client.
LEMMA Moved ==
    ASSUME TypeOK, NEW c \in Client, NEW how, at' = [at EXCEPT ![c] = how]
    PROVE  /\ Readers' = IF how = "read" THEN Readers \cup {c} ELSE Readers \ {c}
           /\ Writers' = IF how = "write" THEN Writers \cup {c} ELSE Writers \ {c}
           /\ at'[c] = how
           /\ \A d \in Client \ {c} : at'[d] = at[d]
  BY DEF TypeOK, Readers, Writers

\* A client that gets the lock is counted.
LEMMA TakeCounted ==
    ASSUME TypeOK, Counted, NEW c \in Client,
           at[c] \notin {"read", "write"}, Writers = {},
           \/ Take(c, count + 1, "read")
           \/ Readers = {} /\ Take(c, -1, "write")
    PROVE  Counted'
  <1>1. c \notin Readers /\ c \notin Writers
    BY DEF Readers, Writers
  <1>2. count = Cardinality(Readers) /\ Cardinality(Readers) \in Nat
    BY HoldersFinite DEF Counted
  <1>3. CASE Take(c, count + 1, "read")
    <2>1. Readers' = Readers \cup {c} /\ Writers' = {}
      BY <1>1, <1>3, Moved DEF Take
    <2>2. Cardinality(Readers') = count + 1
      BY <1>1, <1>2, <2>1, HoldersFinite, FS_AddElement
    <2>3. QED
      BY <1>3, <2>1, <2>2 DEF Take, Counted
  <1>4. CASE Readers = {} /\ Take(c, -1, "write")
    <2>1. Readers' = {} /\ Writers' = {c}
      BY <1>1, <1>4, Moved DEF Take
    <2>2. QED
      BY <1>4, <2>1 DEF Take, Counted
  <1>5. QED
    BY <1>3, <1>4

\* Neither queueing nor leaving the queue changes who holds the lock.
LEMMA QuietCounted ==
    ASSUME TypeOK, Counted, NEW c \in Client, at[c] \notin {"read", "write"},
           NEW how \in {"idle", "waitR", "waitW"},
           at' = [at EXCEPT ![c] = how], UNCHANGED count
    PROVE  Counted'
  <1>1. Readers' = Readers /\ Writers' = Writers
    <2>1. c \notin Readers /\ c \notin Writers
      BY DEF Readers, Writers
    <2>2. Readers' = Readers \ {c} /\ Writers' = Writers \ {c}
      BY Moved
    <2>3. QED
      BY <2>1, <2>2
  <1>2. QED
    BY <1>1 DEF Counted

\* read_lock() and write_lock() keep the invariant.
LEMMA LockInv ==
    ASSUME IInv, NEW c \in Client, ReadLock(c) \/ WriteLock(c)
    PROVE  IInv'
  <1> USE DEF IInv
  <1>1. at[c] \notin {"read", "write"} /\ woken' = woken \ {c} /\ waking' = waking
    BY DEF ReadLock, WriteLock, Evaluated
  <1>2. \/ count >= 0 /\ Take(c, count + 1, "read")
        \/ count = 0 /\ Take(c, -1, "write")
        \/ count < 0 /\ Queue(c, "waitR")
        \/ count # 0 /\ Queue(c, "waitW")
    BY DEF ReadLock, WriteLock
  <1>3. TypeOK'
    BY <1>1, <1>2 DEF TypeOK, Take, Queue
  <1>4. Counted'
    BY <1>1, <1>2, Guards, TakeCounted, QuietCounted DEF Queue
  <1>5. AsleepForReason'
    <2> SUFFICES ASSUME NEW d \in Client
                 PROVE  /\ at'[d] = "waitR" /\ Asleep(d)' => d \in wait' /\ count' < 0
                        /\ at'[d] = "waitW" /\ Asleep(d)' => d \in wait' /\ count' # 0
      BY DEF AsleepForReason
    <2>1. CASE d = c
      BY <1>1, <1>2, <2>1, Moved DEF Take, Queue, TypeOK
    <2>2. CASE d # c
      <3>1. at'[d] = at[d] /\ (Asleep(d)' <=> Asleep(d)) /\ (d \in wait' <=> d \in wait)
        BY <1>1, <1>2, <2>2, Moved DEF Take, Queue, Asleep
      <3>2. count < 0 => count' < 0
        BY <1>2 DEF Take, Queue, TypeOK
      <3>3. count # 0 => count' # 0
        BY <1>2 DEF Take, Queue, TypeOK
      <3>4. QED
        BY <3>1, <3>2, <3>3 DEF AsleepForReason
    <2>3. QED
      BY <2>1, <2>2
  <1>6. QED
    BY <1>3, <1>4, <1>5

\* release() keeps it: who was on the queue is on its way to be woken.
LEMMA ReleaseInv ==
    ASSUME IInv, NEW c \in Client, Release(c)
    PROVE  IInv'
  <1> USE DEF IInv
  <1>1. /\ Readers' = Readers \ {c} /\ Writers' = Writers \ {c}
        /\ at'[c] = "idle" /\ \A d \in Client \ {c} : at'[d] = at[d]
    <2>1. TypeOK /\ at' = [at EXCEPT ![c] = "idle"]
      BY DEF Release
    <2>2. QED
      BY <2>1, Moved
  <1>2. CASE at[c] = "write"
    <2>1. c \in Writers /\ Readers = {} /\ count = -1
      BY <1>2 DEF Writers, Counted
    <2>2. Readers' = {} /\ Writers' = {}
      BY <1>1, <2>1 DEF Counted
    <2>3. count' = 0
      BY <2>1 DEF Release
    <2>4. Counted'
      BY <2>2, <2>3, FS_EmptySet DEF Counted
    <2>5. QED
      BY <2>4, <2>3, <1>1 DEF TypeOK, AsleepForReason, Asleep, Release
  <1>3. CASE at[c] = "read"
    <2>1. c \in Readers /\ Writers = {} /\ count = Cardinality(Readers)
      BY <1>3 DEF Readers, Counted
    <2>2. count >= 1 /\ count \in Nat
      BY <2>1, HoldersFinite
    <2>3. count' = count - 1 /\ Cardinality(Readers') = count - 1
      <3>1. count' = count - 1
        BY <2>2 DEF Release
      <3>2. Cardinality(Readers \ {c}) = count - 1
        BY <2>1, HoldersFinite, FS_RemoveElement
      <3>3. QED
        BY <1>1, <3>1, <3>2
    <2>4. Writers' = {}
      BY <1>1, <2>1
    <2>5. Counted'
      BY <2>3, <2>4 DEF Counted
    <2>6. TypeOK'
      BY <2>2, <2>3 DEF TypeOK, Release
    <2>7. AsleepForReason'
      BY <1>1, <2>2, <2>3 DEF TypeOK, AsleepForReason, Asleep, Release
    <2>8. QED
      BY <2>5, <2>6, <2>7
  <1>4. QED
    BY <1>2, <1>3 DEF Release

\* Every step keeps the invariant.
LEMMA NextInv == IInv /\ [Next]_vars => IInv'
  <1> SUFFICES ASSUME IInv, [Next]_vars PROVE IInv'
    OBVIOUS
  <1>1. CASE UNCHANGED vars
    BY <1>1 DEF vars, IInv, TypeOK, Counted, AsleepForReason, Asleep, Readers, Writers
  <1>2. ASSUME NEW c \in Client, Wake(c)
        PROVE  IInv'
    <2>1. TypeOK'
      BY <1>2 DEF IInv, TypeOK, Wake
    <2>2. Counted'
      BY <1>2 DEF IInv, Counted, Readers, Writers, Wake
    <2>3. \A d \in Client : Asleep(d)' => Asleep(d)
      BY <1>2 DEF Asleep, Wake
    <2>4. QED
      BY <1>2, <2>1, <2>2, <2>3 DEF IInv, AsleepForReason, Wake
  <1>3. ASSUME NEW c \in Client, Leave(c)
        PROVE  IInv'
    <2>1. TypeOK'
      BY <1>3 DEF IInv, TypeOK, Leave
    <2>2. Counted'
      BY <1>3, QuietCounted DEF IInv, Leave
    <2>3. \A d \in Client \ {c} : at'[d] = at[d] /\ (Asleep(d)' <=> Asleep(d))
      BY <1>3, Moved DEF IInv, Asleep, Leave
    <2>4. at'[c] = "idle"
      BY <1>3, Moved DEF IInv, Leave
    <2>5. QED
      BY <1>3, <2>1, <2>2, <2>3, <2>4 DEF IInv, AsleepForReason, Leave
  <1>4. QED
    BY <1>1, <1>2, <1>3, LockInv, ReleaseInv DEF Next

\* The types hold, and count says who holds the lock.
THEOREM TypeInvariant == Spec => [](TypeOK /\ Counted)
  <1>1. IInv => TypeOK /\ Counted
    BY DEF IInv
  <1>2. QED
    BY <1>1, InitInv, NextInv, PTL DEF Spec

\* However many clients there are and however the wake-ups interleave with new
\* calls, a client sleeps only on the queue and only beside a lock it cannot have.
THEOREM NobodySleepsInVain == Spec => []AsleepForReason
  <1>1. IInv => AsleepForReason
    BY DEF IInv
  <1>2. QED
    BY <1>1, InitInv, NextInv, PTL DEF Spec

\* A step of stdMutex is a step of RwLock, or leaves the holders alone.
LEMMA StepImplements ==
    ASSUME IInv, [Next]_vars
    PROVE  [Lock!Next]_(Lock!vars)
  <1> USE DEF IInv
  <1> SUFFICES ASSUME ~(UNCHANGED <<Readers, Writers>>) PROVE Lock!Next
    BY DEF Lock!vars
  <1>1. CASE UNCHANGED vars
    BY <1>1 DEF vars, Readers, Writers
  <1>2. ASSUME NEW c \in Client, Take(c, count + 1, "read"), count >= 0
        PROVE  Lock!Read(c)
    BY <1>2, Moved, Guards DEF Take, Lock!Read
  <1>3. ASSUME NEW c \in Client, Take(c, -1, "write"), count = 0
        PROVE  Lock!Write(c)
    BY <1>3, Moved, Guards DEF Take, Lock!Write
  <1>4. ASSUME NEW c \in Client, Release(c)
        PROVE  Lock!Release(c)
    <2>1. c \in Readers \cup Writers
      BY <1>4 DEF Release, Readers, Writers
    <2>2. QED
      BY <1>4, <2>1, Moved DEF Release, Lock!Release
  <1>5. ASSUME NEW c \in Client, NEW how \in {"idle", "waitR", "waitW"},
               at[c] \notin {"read", "write"}, at' = [at EXCEPT ![c] = how]
        PROVE  FALSE
    BY <1>5, Moved DEF Readers, Writers
  <1>6. ASSUME NEW c \in Client, Wake(c)
        PROVE  FALSE
    BY <1>6 DEF Wake, Readers, Writers
  <1>7. ASSUME NEW c \in Client, ReadLock(c) \/ WriteLock(c)
        PROVE  Lock!Read(c) \/ Lock!Write(c)
    <2>1. at[c] \notin {"read", "write"}
      BY <1>7 DEF ReadLock, WriteLock, Evaluated
    <2>2. QED
      BY <1>2, <1>3, <1>5, <1>7, <2>1 DEF ReadLock, WriteLock, Queue
  <1>8. ASSUME NEW c \in Client, Leave(c)
        PROVE  FALSE
    BY <1>5, <1>8 DEF Leave
  <1>9. QED
    BY <1>1, <1>4, <1>6, <1>7, <1>8 DEF Next, Lock!Next

\* stdMutex is a reader-writer lock.
THEOREM Implements == Spec => ImplementsRwLock
  <1>1. Init => Lock!Init
    BY DEF Init, Lock!Init, Readers, Writers
  <1>2. IInv /\ [Next]_vars => [Lock!Next]_(Lock!vars)
    BY StepImplements
  <1>3. QED
    BY <1>1, <1>2, InitInv, NextInv, PTL DEF Spec, ImplementsRwLock, Lock!Spec
=============================================================================
