---------------------------- MODULE WorkerProofs ----------------------------
(***************************************************************************)
(* Proofs about the workers.  ThreadPool, for any objects, workers, limits *)
(* and times: the pool keeps the reactor exactly while it has a job, no    *)
(* worker is left when it has been folded, and the target stays within the *)
(* limit.  ThreadKill, for any threads that destroy the object and any     *)
(* number of pollers: the states of stdThreadInfo fit where the worker is, *)
(* and nobody signals a worker that has turned to another job.             *)
(***************************************************************************)
EXTENDS ThreadPool, ThreadKill, FiniteSetTheorems, TLAPS

-----------------------------------------------------------------------------
(* ThreadPool.                                                             *)

Label == {"none", "top", "idle", "woken", "late", "run", "back", "tail"}

\* The types that the two invariants rest on.
Types ==
    /\ ready \in Seq(Object)
    /\ pc \in [Worker -> Label]
    /\ refio \in BOOLEAN /\ folded \in BOOLEAN /\ destroyed \in BOOLEAN

\* How far the pool is: FIN_START comes after destroy(), which comes when the
\* application ends, and only the last state folds the pool.
Phases ==
    /\ destroyed => mainPc # "app"
    /\ st \in {"stable_wait", "fin_wait", "zom"} => destroyed
    /\ folded => st = "zom"

IInv == Types /\ Phases /\ KeepAlive /\ FoldedAlone

\* Nobody counts as running exactly when there is no worker in the loop.
LEMMA NoneCounted ==
    Current = 0 <=> At({"top", "idle", "woken", "late", "run", "back"}) = {}
<1>1. IsFiniteSet(At({"top", "idle", "woken", "late", "run", "back"}))
  BY ThreadPoolAssumption, FS_Subset DEF At
<1> QED BY <1>1, FS_EmptySet DEF Current

\* Workers that are made or woken take no job and do not become more in the pool's
\* eyes unless somebody makes them.
LEMMA Crew ==
    ASSUME Types, NEW num, NEW lim, RunThreads(num, lim)
    PROVE  pc' \in [Worker -> Label] /\ Running' = Running
<1>1. CASE pc' = pc BY <1>1 DEF Types, Running, At
<1>2. CASE pc' = [w \in Worker |-> IF pc[w] = "idle" THEN "woken" ELSE pc[w]]
  BY <1>2 DEF Types, Running, At, Label
<1>3. ASSUME NEW n, Create(n) PROVE pc' \in [Worker -> Label] /\ Running' = Running
  <2> DEFINE S == CHOOSE m \in SUBSET At({"none"}) : Cardinality(m) = n
  <2>1. S \in SUBSET At({"none"}) BY <1>3 DEF Create
  <2>2. pc' = [w \in Worker |-> IF w \in S THEN "top" ELSE pc[w]]
    BY <1>3 DEF Create
  <2>3. \A w \in S : pc[w] = "none" BY <2>1 DEF At
  <2> HIDE DEF S
  <2> QED BY <2>2, <2>3 DEF Types, Running, At, Label
<1> QED BY <1>1, <1>2, <1>3 DEF RunThreads

LEMMA Awakened ==
    ASSUME Types, Signal
    PROVE  /\ pc' \in [Worker -> Label] /\ Running' = Running
           /\ Current = 0 => Current' = 0
<1>1. CASE At({"idle"}) = {}
  BY <1>1 DEF Signal, Types, Running, At, Current
<1>2. CASE At({"idle"}) # {}
  <2> DEFINE w == CHOOSE x \in At({"idle"}) : TRUE
  <2>1. w \in At({"idle"}) BY <1>2
  <2>2. pc' = [pc EXCEPT ![w] = "woken"] BY <1>2 DEF Signal, Move
  <2>3. w \in Worker /\ pc[w] = "idle" BY <2>1 DEF At
  <2> HIDE DEF w
  <2>4. pc' \in [Worker -> Label] /\ Running' = Running
    BY <2>2, <2>3 DEF Types, Running, At, Label
  <2>5. Current # 0 BY <2>3, NoneCounted DEF At
  <2> QED BY <2>4, <2>5
<1> QED BY <1>1, <1>2

LEMMA InitInv == Init => IInv
<1> SUFFICES ASSUME Init PROVE IInv OBVIOUS
<1>1. pc \in [Worker -> Label] /\ Running = {}
  <2> DEFINE S == CHOOSE m \in SUBSET Worker : Cardinality(m) = MaxIdle
  <2>1. pc = [w \in Worker |-> IF w \in S THEN "top" ELSE "none"] BY DEF Init
  <2> HIDE DEF S
  <2> QED BY <2>1 DEF Running, At, Label
<1>2. /\ ready = <<>> /\ ~folded /\ ~refio /\ ~destroyed
      /\ mainPc = "app" /\ st = "act"
      /\ folded \in BOOLEAN /\ refio \in BOOLEAN /\ destroyed \in BOOLEAN
  BY DEF Init
<1>3. <<>> \in Seq(Object) OBVIOUS
<1> QED BY <1>1, <1>2, <1>3 DEF IInv, Types, Phases, KeepAlive, FoldedAlone

\* A pool that is not folded and whose phase does not change: what is left to show of a
\* step is that it keeps the types and counts its jobs.
LEMMA NotFolded ==
    ASSUME IInv, Types', KeepAlive', ~folded', Phases'
    PROVE  IInv'
BY DEF IInv, FoldedAlone

LEMMA InsInv == ASSUME IInv, NEW s, NEW o \in Object, Ins(s, o) PROVE IInv'
<1>1. pc' \in [Worker -> Label] /\ Running' = Running
  BY Awakened DEF Ins, IInv
<1>2. ready' \in Seq(Object) /\ ready' # <<>>
  BY DEF Ins, IInv, Types
<1>3. Types' /\ KeepAlive' BY <1>1, <1>2 DEF Ins, IInv, Types, KeepAlive
<1>4. ~folded' /\ Phases' BY DEF Ins, IInv, Phases, machine
<1> QED BY <1>3, <1>4, NotFolded

\* The worker loop.  A worker in it is counted, so the pool is not folded.
LEMMA WorkerInv ==
    ASSUME IInv, NEW w \in Worker,
           WorkerStep(w) \/ TimedOut(w) \/ Return(w)
    PROVE  IInv'
<1> USE DEF IInv, Types, Label
<1>0. pc[w] \in {"top", "idle", "woken", "late", "run", "back"} => ~folded
  BY NoneCounted DEF FoldedAlone, At
<1>1. ASSUME NEW l \in Label, Move(w, l)
      PROVE  /\ pc' \in [Worker -> Label]
             /\ l \in {"run", "back"} => Running' = Running \cup {w}
             /\ l \notin {"run", "back"} => Running' = Running \ {w}
  BY <1>1 DEF Move, Running, At
<1>2. pc[w] \in {"run", "back"} <=> w \in Running BY DEF Running, At
<1>3. CASE End(w)
  <2>1. pc' \in [Worker -> Label] /\ Running' = Running
    BY <1>1, <1>2, <1>3 DEF End
  <2>2. At({"top", "idle", "woken", "late", "run", "back"})'
          \subseteq At({"top", "idle", "woken", "late", "run", "back"})
    BY <1>3 DEF End, Move, At
  <2>3. Current = 0 => Current' = 0
    <3>1. IsFiniteSet(At({"top", "idle", "woken", "late", "run", "back"})')
      BY <2>2, ThreadPoolAssumption, FS_Subset DEF At
    <3> QED BY <2>2, <3>1, NoneCounted, FS_EmptySet DEF Current
  <2> QED BY <1>3, <2>1, <2>3 DEF End, Phases, KeepAlive, FoldedAlone, jobs,
        machine, program
<1>4. ASSUME Take(w), ready # <<>>, w \notin Running, UNCHANGED refio
      PROVE  /\ pc' \in [Worker -> Label] /\ ready' \in Seq(Object)
             /\ KeepAlive'
  BY <1>1, <1>4 DEF Take, KeepAlive
<1>5. ASSUME Leave(w) \/ (Move(w, "idle") /\ UNCHANGED ready), w \notin Running,
             UNCHANGED refio
      PROVE  /\ pc' \in [Worker -> Label] /\ ready' \in Seq(Object)
             /\ KeepAlive'
  BY <1>1, <1>5 DEF Leave, KeepAlive
<1>6. CASE Look(w)
  <2>1. w \notin Running /\ ~folded /\ UNCHANGED <<refio, folded>>
    BY <1>0, <1>2, <1>6 DEF Look
  <2>2. /\ pc' \in [Worker -> Label] /\ ready' \in Seq(Object) /\ KeepAlive'
    BY <1>4, <1>5, <1>6, <2>1 DEF Look
  <2>3. Types' /\ Phases' BY <1>6, <2>2 DEF Look, Phases, machine, program
  <2> QED BY <2>1, <2>2, <2>3, NotFolded
<1>7. CASE LookLate(w)
  <2>1. w \notin Running /\ ~folded /\ UNCHANGED <<refio, folded>>
    BY <1>0, <1>2, <1>7 DEF LookLate
  <2>2. /\ pc' \in [Worker -> Label] /\ ready' \in Seq(Object) /\ KeepAlive'
    BY <1>4, <1>5, <1>7, <2>1 DEF LookLate
  <2>3. Types' /\ Phases' BY <1>7, <2>2 DEF LookLate, Phases, machine, program
  <2> QED BY <2>1, <2>2, <2>3, NotFolded
<1>8. CASE Done(w)
  <2>1. ~folded /\ w \in Running BY <1>0, <1>2, <1>8 DEF Done
  <2>2. pc' \in [Worker -> Label] /\ Running' = Running \ {w}
    BY <1>1, <1>8 DEF Done
  <2>3. KeepAlive' BY <1>8, <2>1, <2>2 DEF Done, KeepAlive
  <2>4. Types' /\ Phases' /\ ~folded'
    BY <1>8, <2>1, <2>2 DEF Done, Phases, machine, program
  <2> QED BY <2>3, <2>4, NotFolded
<1>9. CASE TimedOut(w) \/ Return(w)
  <2>1. ~folded BY <1>0, <1>9 DEF TimedOut, Return
  <2>2. pc' \in [Worker -> Label] /\ Running' = Running
    BY <1>1, <1>2, <1>9 DEF TimedOut, Return
  <2>3. Types' /\ Phases' /\ ~folded' /\ KeepAlive'
    BY <1>9, <2>1, <2>2 DEF TimedOut, Return, Phases, machine, program, jobs, KeepAlive
  <2> QED BY <2>3, NotFolded
<1> QED BY <1>3, <1>6, <1>7, <1>8, <1>9 DEF WorkerStep

\* The limit is the program's to set, before the application ends.
LEMMA SetLimitInv == ASSUME IInv, NEW lim, SetLimit(lim) PROVE IInv'
<1>1. RunThreads(target, limit') BY DEF SetLimit
<1>2. pc' \in [Worker -> Label] /\ Running' = Running
  BY <1>1, Crew DEF IInv
<1>3. ~folded BY DEF SetLimit, IInv, Phases
<1>4. Types' /\ KeepAlive' /\ Phases' /\ ~folded'
  BY <1>2, <1>3 DEF SetLimit, IInv, Types, KeepAlive, Phases, jobs, machine, program
<1> QED BY <1>4, NotFolded

LEMMA PoolInv == IInv /\ Pool => IInv'
<1> SUFFICES ASSUME IInv, Pool PROVE IInv' OBVIOUS
<1> USE DEF IInv, Types, Phases, Goto, Rest, On
<1>1. ASSUME st # "zom", st' # "zom",
             st' \in {"stable_wait", "fin_wait", "zom"} => destroyed,
             (pc' = pc \/ \E num, lim : RunThreads(num, lim)),
             UNCHANGED <<ready, refio, folded, destroyed, mainPc>>
      PROVE  IInv'
  <2>1. pc' \in [Worker -> Label] /\ Running' = Running
    BY <1>1, Crew DEF Running, At
  <2>2. Types' /\ Phases' /\ ~folded' BY <1>1, <2>1
  <2>3. KeepAlive' BY <1>1, <2>1 DEF KeepAlive
  <2> QED BY <2>2, <2>3, NotFolded
<1>2. CASE Act BY <1>1, <1>2 DEF Act, jobs, crew, program
<1>3. CASE ActOldest BY <1>1, <1>3 DEF ActOldest, jobs, program
<1>4. CASE Wait2 BY <1>1, <1>4 DEF Wait2, jobs, crew, program
<1>5. CASE DownWait BY <1>1, <1>5 DEF DownWait, jobs, program
<1>6. CASE StableWait BY <1>1, <1>6 DEF StableWait, jobs, program
<1>7. CASE FinWait
  <2>1. CASE Current > 0
    BY <1>1, <1>7, <2>1 DEF FinWait, jobs, crew, program
  <2>2. CASE ~(Current > 0)
    <3>1. At({"top", "idle", "woken", "late", "run", "back"}) = {}
      <4>1. IsFiniteSet(At({"top", "idle", "woken", "late", "run", "back"}))
        BY ThreadPoolAssumption, FS_Subset DEF At
      <4>2. Current \in Nat BY <4>1, FS_CardinalityType DEF Current
      <4> QED BY <2>2, <4>2, NoneCounted
    <3>2. Running = {} BY <3>1 DEF Running, At
    <3>3. pc' = pc BY <1>7 DEF FinWait, crew
    <3>4. Running' = {} /\ Current' = Current BY <3>2, <3>3 DEF Running, At, Current
    <3>5. ready' = <<>> /\ ~refio' /\ folded' /\ st' = "zom"
      BY <1>7, <2>2 DEF FinWait
    <3>6. FoldedAlone' /\ KeepAlive'
      BY <3>1, <3>4, <3>5, NoneCounted DEF FoldedAlone, KeepAlive
    <3>7. st = "fin_wait" /\ UNCHANGED <<destroyed, mainPc>>
      BY <1>7 DEF FinWait, program
    <3>8. refio' \in BOOLEAN /\ folded' \in BOOLEAN BY <1>7, <2>2 DEF FinWait
    <3>9. ready' \in Seq(Object) BY <3>5
    <3>10. Types' BY <3>3, <3>7, <3>8, <3>9
    <3>11. Phases' BY <3>5, <3>7
    <3> QED BY <3>6, <3>10, <3>11
  <2> QED BY <2>1, <2>2
<1> QED BY <1>2, <1>3, <1>4, <1>5, <1>6, <1>7 DEF Pool

\* The reactor, the gc thread, time and tsApplication touch none of it, but that the
\* application destroys the pool as it ends.
LEMMA OutsideInv ==
    ASSUME IInv,
           \/ GrowsOld \/ \E o \in Object : Release(o)
           \/ GcStep \/ Tick \/ Deliver \/ LeaveLoop \/ Ending
           \/ UNCHANGED vars
    PROVE  IInv'
<1> DEFINE Kept ==
             /\ UNCHANGED <<ready, refio, folded, pc, st>>
             /\ destroyed' \in BOOLEAN /\ (destroyed => destroyed')
             /\ destroyed' => mainPc' # "app"
<1> SUFFICES Kept
  <2>1. Types' BY DEF IInv, Types
  <2>2. Phases' BY DEF IInv, Phases
  <2>3. KeepAlive' BY DEF IInv, KeepAlive, Running, At
  <2>4. FoldedAlone' BY DEF IInv, FoldedAlone, Current, At
  <2> QED BY <2>1, <2>2, <2>3, <2>4 DEF IInv
<1> USE DEF IInv, Types, Phases, jobs, crew, machine, program
<1>1. CASE GrowsOld BY <1>1 DEF GrowsOld
<1>2. CASE \E o \in Object : Release(o) BY <1>2 DEF Release
<1>3. CASE GcStep BY <1>3 DEF GcStep, RefEvent, RefEventDone
<1>4. CASE Tick BY <1>4 DEF Tick
<1>5. CASE Deliver BY <1>5 DEF Deliver
<1>6. CASE LeaveLoop
  <2>1. UNCHANGED <<ready, refio, folded, pc, st>> BY <1>6 DEF LeaveLoop, MainGoes
  <2>2. mainPc' # "app" BY <1>6 DEF LeaveLoop, MainGoes
  <2>3. destroyed' \in BOOLEAN /\ (destroyed => destroyed') BY <1>6 DEF LeaveLoop
  <2> QED BY <2>1, <2>2, <2>3
<1>7. CASE Ending
  BY <1>7 DEF Ending, WaitStable, FinishReady, FinishRun, FinishStable, WaitWorkers,
     MainGoes
<1>8. CASE UNCHANGED vars BY <1>8 DEF vars
<1> QED BY <1>1, <1>2, <1>3, <1>4, <1>5, <1>6, <1>7, <1>8

LEMMA NextInv == IInv /\ [Next]_vars => IInv'
<1> SUFFICES ASSUME IInv, [Next]_vars PROVE IInv' OBVIOUS
<1> QED BY InsInv, WorkerInv, SetLimitInv, PoolInv, OutsideInv DEF Next

\* The reactor's loop() is kept from returning exactly while a job is queued or runs.
\* IInv is needed because limitThreadsNumber() makes workers at any time, and a worker
\* of a folded pool would look at a queue that is gone
\* (tsThread.cpp:396-411, 497-500, 834-839, 982-992).
THEOREM ReactorKept == Spec => []KeepAlive
<1>1. IInv => KeepAlive BY DEF IInv
<1> QED BY <1>1, InitInv, NextInv, PTL DEF Spec

\* When the pool has set ready and run to null no worker is left in its loop, and no
\* job is on the queue: all that makes workers is over once the pool is destroyed
\* (tsThread.cpp:960-1004).
THEOREM NoWorkerFolded == Spec => []FoldedAlone
<1>1. IInv => FoldedAlone BY DEF IInv
<1> QED BY <1>1, InitInv, NextInv, PTL DEF Spec

-----------------------------------------------------------------------------
(* Types, and the bounds of the target.                                    *)

\* Threads of the pool that wait, or have just been called from waiting.
Waiting == At({"idle"})
Called == At({"woken", "late"})

\* A worker goes to sleep within the target only, and a target of 0 wakes them all.
Sleeps == Waiting # {} => target # 0

\* Where the target is 0 already, those who have yet to notice have not let the time
\* pass that DOWN_WAIT waits for.
Noticed == st = "down_wait" /\ target = 0 /\ Called # {} => timer.expire > 0

TInv == TypeOK /\ Sleeps /\ Noticed

\* A worker has a job exactly while it runs it.
Jobs == \A w \in Worker : job[w] # None <=> pc[w] \in {"run", "back"}

LEMMA TypesOfAll == TypeOK => Types
BY DEF TypeOK, Types, Label

LEMMA TimeSpan == Up \in Time \ {0} /\ Linger \in Time \ {0} /\ Down \in Time \ {0} /\ 0 \in Time
BY ThreadPoolAssumption DEF Time

\* What is done with the timer, and when it has expired.
LEMMA TypedTimer ==
    ASSUME timer \in Timer(Time)
    PROVE  /\ \A length \in Time : /\ Started(timer, length) \in Timer(Time)
                                   /\ Started(timer, length).expire = length
           /\ Stopped(timer) \in Timer(Time)
           /\ Asked(timer) \in Timer(Time) /\ Asked(timer).expire = timer.expire
           /\ Passed(timer) \in Timer(Time)
           /\ Delivered(timer) \in Timer(Time) /\ Delivered(timer).expire = timer.expire
           /\ NewTimer \in Timer(Time)
           /\ Expired(timer) => timer.expire = 0
           /\ timer.expire \in Nat
<1>1. /\ timer.setup \in Time /\ timer.expire \in Time /\ timer.stop \in BOOLEAN
      /\ timer.regs \in SUBSET Time
  BY DEF Timer
<1>2. 0 \in Time /\ Time \subseteq Nat
  BY TimeSpan, ThreadPoolAssumption DEF Time
<1>3. \A t \in Time : Sooner(t) \in Time
  BY ThreadPoolAssumption DEF Time, Sooner
<1>4. ASSUME NEW length \in Time
      PROVE  /\ Started(timer, length) \in Timer(Time)
             /\ Started(timer, length).expire = length
  BY <1>1, <1>4 DEF Started, Timer
<1>5. Stopped(timer) \in Timer(Time)
  BY <1>1, <1>2 DEF Stopped, Timer
<1>6. Asked(timer) \in Timer(Time) /\ Asked(timer).expire = timer.expire
  BY <1>1 DEF Asked, Timer
<1>7. Passed(timer) \in Timer(Time)
  <2>1. {Sooner(t) : t \in timer.regs} \in SUBSET Time
    BY <1>1, <1>3
  <2> QED BY <1>1, <1>3, <2>1 DEF Passed, Timer
<1>8. Delivered(timer) \in Timer(Time) /\ Delivered(timer).expire = timer.expire
  BY <1>1 DEF Delivered, Timer
<1>9. NewTimer \in Timer(Time)
  BY <1>2 DEF NewTimer, Timer
<1>10. Expired(timer) => timer.expire = 0
  BY DEF Expired
<1> QED BY <1>1, <1>2, <1>4, <1>5, <1>6, <1>7, <1>8, <1>9, <1>10

\* Workers counted, or waiting, are numbers that say whether there are any.
LEMMA Counts ==
    /\ Current \in Nat /\ Idle \in Nat
    /\ \A w \in Worker : pc[w] \in {"top", "idle", "woken", "late", "run", "back"} => Current > 0
    /\ Idle > 0 => Waiting # {} \/ Called # {}
<1> DEFINE C == At({"top", "idle", "woken", "late", "run", "back"})
           I == At({"idle", "woken", "late"})
<1>1. IsFiniteSet(C) /\ IsFiniteSet(I)
  BY ThreadPoolAssumption, FS_Subset DEF At
<1>2. /\ Cardinality(C) \in Nat /\ Cardinality(I) \in Nat
      /\ C # {} => Cardinality(C) > 0
      /\ I = {} => Cardinality(I) = 0
  BY <1>1, FS_CardinalityType, FS_EmptySet
<1>3. /\ \A w \in Worker : pc[w] \in {"top", "idle", "woken", "late", "run", "back"} => w \in C
      /\ I = Waiting \cup Called
  BY DEF At, Waiting, Called
<1>4. Current = Cardinality(C) /\ Idle = Cardinality(I)
  BY DEF Current, Idle
<1> HIDE DEF C, I
<1> QED BY <1>2, <1>3, <1>4

\* _runThreads_nolock() keeps the target between 0 and the limit, and leaves no worker
\* asleep when it sets it to 0.
LEMMA RunThreadsTyped ==
    ASSUME TInv, NEW num \in Nat, NEW lim \in Nat, RunThreads(num, lim), UNCHANGED job
    PROVE  /\ target' = IF num > lim THEN lim ELSE num
           /\ pc' \in [Worker -> Label] /\ Jobs'
           /\ target' = 0 => Waiting' = {}
           /\ Waiting' \subseteq Waiting
           /\ Called' \subseteq Called \cup Waiting
<1> DEFINE n == IF num > lim THEN lim ELSE num
<1>1. /\ target' = n
      /\ \/ Current < n /\ Create(n - Current)
         \/ Current > n /\ pc' = [w \in Worker |-> IF pc[w] = "idle" THEN "woken" ELSE pc[w]]
         \/ Current = n /\ UNCHANGED pc
  BY DEF RunThreads
<1>2. n \in Nat
  OBVIOUS
<1> HIDE DEF n
<1>3. pc \in [Worker -> Label] /\ Jobs
  BY DEF TInv, TypeOK, Label, Jobs
<1>4. CASE Current < n /\ Create(n - Current)
  <2>1. PICK S : /\ S \in SUBSET At({"none"})
                 /\ pc' = [w \in Worker |-> IF w \in S THEN "top" ELSE pc[w]]
    <3>1. (CHOOSE m \in SUBSET At({"none"}) : Cardinality(m) = n - Current)
             \in SUBSET At({"none"})
      BY <1>4 DEF Create
    <3> QED BY <1>4, <3>1 DEF Create
  <2>2. \A w \in Worker : pc'[w] = pc[w] \/ (pc[w] = "none" /\ pc'[w] = "top")
    BY <2>1 DEF At
  <2>3. pc' \in [Worker -> Label]
    BY <1>3, <2>1 DEF Label
  <2>4. Jobs' /\ Waiting' \subseteq Waiting /\ Called' \subseteq Called
    BY <1>3, <2>2 DEF Jobs, Waiting, Called, At
  <2>5. n # 0
    BY <1>2, <1>4, Counts
  <2> QED BY <1>1, <2>3, <2>4, <2>5 DEF n
<1>5. CASE Current > n /\ pc' = [w \in Worker |-> IF pc[w] = "idle" THEN "woken" ELSE pc[w]]
  <2>1. pc' \in [Worker -> Label]
    BY <1>3, <1>5 DEF Label
  <2>2. \A w \in Worker : \/ pc'[w] = pc[w] /\ pc[w] # "idle"
                          \/ pc[w] = "idle" /\ pc'[w] = "woken"
    BY <1>5
  <2>3. Jobs' /\ Waiting' = {} /\ Called' \subseteq Called \cup Waiting
    BY <1>3, <2>2 DEF Jobs, Waiting, Called, At
  <2> QED BY <1>1, <2>1, <2>3 DEF n
<1>6. CASE Current = n /\ UNCHANGED pc
  <2>1. Jobs' /\ Waiting' = Waiting /\ Called' = Called
    BY <1>3, <1>6 DEF Jobs, Waiting, Called, At
  <2>2. n = 0 => Waiting = {}
    BY <1>6, Counts DEF Waiting, At
  <2> QED BY <1>1, <1>3, <1>6, <2>1, <2>2 DEF n
<1> QED BY <1>1, <1>4, <1>5, <1>6

LEMMA TypedInit == Init => TInv
<1> SUFFICES ASSUME Init PROVE TInv
  OBVIOUS
<1>1. PICK S : pc = [w \in Worker |-> IF w \in S THEN "top" ELSE "none"]
  BY DEF Init
<1>2. /\ pc \in [Worker -> {"none", "top", "idle", "woken", "late", "run", "back", "tail"}]
      /\ Waiting = {} /\ Called = {}
      /\ \A w \in Worker : pc[w] \notin {"run", "back"}
  BY <1>1 DEF Waiting, Called, At
<1>3. limit \in Nat /\ target \in 0..limit
  <2>1. PICK lim \in Limits : MaxIdle <= lim
    BY ThreadPoolAssumption
  <2>2. limit \in Nat /\ lim \in Nat /\ lim <= limit /\ MaxIdle \in Nat
    BY ThreadPoolAssumption DEF Init
  <2>3. MaxIdle <= limit
    BY <2>1, <2>2
  <2>4. target = MaxIdle
    BY DEF Init
  <2> QED BY <2>2, <2>3, <2>4
<1>4. timer \in Timer(Time)
  BY TimeSpan DEF Init, NewTimer, Timer
<1>5. job \in [Worker -> Object \cup {None}] /\ \A w \in Worker : job[w] = None
  BY DEF Init
<1>6. late \in 0..Late
  BY ThreadPoolAssumption DEF Init
<1>7. ready \in Seq(Object)
  BY DEF Init
<1>8. TypeOK
  BY <1>2, <1>3, <1>4, <1>5, <1>6, <1>7 DEF Init, TypeOK
<1> QED BY <1>2, <1>8 DEF TInv, Sleeps, Noticed

\* ins() wakes a sleeper, of which there is none when the target is 0.
LEMMA TypedIns ==
    ASSUME TInv, NEW s, NEW o \in Object, Ins(s, o)
    PROVE  TInv'
<1>1. pc \in [Worker -> Label] /\ Jobs /\ UNCHANGED job
  BY DEF TInv, TypeOK, Label, Jobs, Ins
<1>2. /\ pc' \in [Worker -> Label] /\ Jobs' /\ Waiting' \subseteq Waiting
      /\ Waiting = {} => Called' = Called
  <2>1. CASE Waiting = {}
    <3>1. UNCHANGED pc
      BY <2>1 DEF Ins, Signal, Waiting
    <3> QED BY <1>1, <2>1, <3>1 DEF Jobs, Waiting, Called, At
  <2>2. CASE Waiting # {}
    <3>1. PICK w \in Waiting : pc' = [pc EXCEPT ![w] = "woken"]
      <4>1. (CHOOSE w \in At({"idle"}) : TRUE) \in At({"idle"})
        BY <2>2 DEF Waiting
      <4> QED BY <2>2, <4>1 DEF Ins, Signal, Move, Waiting
    <3>2. w \in Worker /\ pc[w] = "idle"
      BY DEF Waiting, At
    <3>3. \A x \in Worker : pc'[x] = IF x = w THEN "woken" ELSE pc[x]
      BY <1>1, <3>1, <3>2
    <3>4. pc' \in [Worker -> Label]
      BY <1>1, <3>1, <3>2 DEF Label
    <3> QED BY <1>1, <2>2, <3>2, <3>3, <3>4 DEF Jobs, Waiting, At
  <2> QED BY <2>1, <2>2
<1>3. late' \in 0..Late
  BY ThreadPoolAssumption DEF Ins, TInv, TypeOK
<1>4. ready' \in Seq(Object)
  BY DEF Ins, TInv, TypeOK
<1>5. UNCHANGED <<folded, old, target, limit, job, machine, life, mainPc, destroyed>>
      /\ refio' = TRUE /\ awake' = TRUE
  BY DEF Ins
<1>6. TypeOK'
  BY <1>2, <1>3, <1>4, <1>5 DEF TInv, TypeOK, Label, Jobs, machine
<1>7. Sleeps'
  BY <1>2, <1>5 DEF TInv, Sleeps
<1>8. Noticed'
  BY <1>2, <1>5 DEF TInv, Sleeps, Noticed, machine
<1> QED BY <1>6, <1>7, <1>8 DEF TInv

\* A worker goes from one place to another.
LEMMA Moves ==
    ASSUME TInv, NEW w \in Worker, NEW l \in Label, Move(w, l)
    PROVE  /\ pc' \in [Worker -> Label]
           /\ \A x \in Worker : pc'[x] = IF x = w THEN l ELSE pc[x]
           /\ l # "idle" => Waiting' \subseteq Waiting
           /\ l \notin {"woken", "late"} => Called' \subseteq Called
BY DEF Move, TInv, TypeOK, Label, Waiting, Called, At

\* The worker loop: a worker that finds the target at 0 leaves it.
LEMMA TypedWorker ==
    ASSUME TInv, NEW w \in Worker, WorkerStep(w) \/ TimedOut(w) \/ Return(w)
    PROVE  TInv'
<1>1. /\ job \in [Worker -> Object \cup {None}] /\ Jobs /\ pc \in [Worker -> Label]
      /\ ready \in Seq(Object) /\ target \in Nat
  BY DEF TInv, TypeOK, Jobs, Label
<1>2. UNCHANGED <<folded, target, limit, machine, program>>
  BY DEF WorkerStep, Look, LookLate, Done, End, TimedOut, Return, jobs
<1>3. ASSUME TypeOK', Waiting' \subseteq Waiting, Called' \subseteq Called
      PROVE  TInv'
  BY <1>2, <1>3 DEF TInv, Sleeps, Noticed, machine
<1>4. ASSUME Take(w), ready # <<>>, pc[w] \in {"top", "woken", "late"}, UNCHANGED refio
      PROVE  TInv'
  <2>1. Head(ready) \in Object /\ Tail(ready) \in Seq(Object) /\ Head(ready) # None
    BY <1>1, <1>4, ThreadPoolAssumption
  <2>2. /\ Move(w, "run") /\ job' = [job EXCEPT ![w] = Head(ready)]
        /\ ready' = Tail(ready) /\ old' = FALSE /\ UNCHANGED awake
    BY <1>4 DEF Take
  <2>3. /\ pc' \in [Worker -> Label]
        /\ \A x \in Worker : pc'[x] = IF x = w THEN "run" ELSE pc[x]
        /\ Waiting' \subseteq Waiting /\ Called' \subseteq Called
    BY <2>2, Moves DEF Label
  <2>4. Jobs' /\ job' \in [Worker -> Object \cup {None}]
    BY <1>1, <2>1, <2>2, <2>3 DEF Jobs
  <2>5. TypeOK'
    BY <1>2, <1>4, <2>1, <2>2, <2>3, <2>4 DEF TInv, TypeOK, Jobs, Label, machine, program
  <2> QED BY <1>3, <2>3, <2>5
<1>5. ASSUME NEW l \in Label, Move(w, l), l \notin {"run", "back"}, pc[w] \notin {"run", "back"},
             UNCHANGED <<job, ready, old, refio>>, awake' \in BOOLEAN
      PROVE  /\ TypeOK'
             /\ l # "idle" => Waiting' \subseteq Waiting
             /\ l \notin {"woken", "late"} => Called' \subseteq Called
  <2>1. Jobs' /\ pc' \in [Worker -> Label]
    BY <1>1, <1>5, Moves DEF Jobs
  <2>2. TypeOK'
    BY <1>2, <1>5, <2>1 DEF TInv, TypeOK, Jobs, Label, machine, program
  <2> QED BY <1>5, <2>2, Moves
<1>6. ASSUME Leave(w), pc[w] \in {"top", "woken", "late"}, UNCHANGED refio
      PROVE  TInv'
  <2>1. /\ Move(w, "tail") /\ UNCHANGED <<job, ready, old>> /\ "tail" \in Label
        /\ awake' \in BOOLEAN
    BY <1>6 DEF Leave, Label
  <2> QED BY <1>3, <1>5, <1>6, <2>1
<1>7. CASE Look(w)
  <2>1. CASE target < Current
    BY <1>6, <1>7, <2>1 DEF Look
  <2>2. CASE ~(target < Current) /\ ready # <<>>
    BY <1>4, <1>7, <2>2 DEF Look
  <2>3. CASE ~(target < Current) /\ ready = <<>>
    <3>1. Move(w, "idle") /\ UNCHANGED <<job, ready, old, awake, refio>> /\ "idle" \in Label
      BY <1>7, <2>3 DEF Look, Label
    <3>2. pc[w] \in {"top", "woken"} /\ Current > 0 /\ Current \in Nat
      BY <1>7, Counts DEF Look
    <3>3. target # 0
      BY <1>1, <2>3, <3>2
    <3>4. TypeOK'
      BY <1>5, <3>1, <3>2 DEF TInv, TypeOK
    <3> QED BY <1>2, <3>3, <3>4 DEF TInv, Sleeps, Noticed
  <2> QED BY <2>1, <2>2, <2>3
<1>8. CASE LookLate(w)
  BY <1>4, <1>6, <1>8 DEF LookLate
<1>9. CASE TimedOut(w)
  <2>1. /\ Move(w, "late") /\ pc[w] = "idle" /\ "late" \in Label
        /\ UNCHANGED <<job, ready, old, refio, awake>>
    BY <1>9 DEF TimedOut, Label, jobs
  <2>2. TypeOK' /\ Waiting' \subseteq Waiting
    BY <1>5, <2>1 DEF TInv, TypeOK
  <2>3. target # 0
    BY <2>1 DEF TInv, Sleeps, Waiting, At
  <2> QED BY <1>2, <2>2, <2>3 DEF TInv, Sleeps, Noticed
<1>10. CASE Return(w)
  <2>1. Move(w, "back") /\ pc[w] = "run" /\ "back" \in Label /\ UNCHANGED <<jobs, job, awake>>
    BY <1>10 DEF Return, Label
  <2>2. /\ pc' \in [Worker -> Label]
        /\ \A x \in Worker : pc'[x] = IF x = w THEN "back" ELSE pc[x]
        /\ Waiting' \subseteq Waiting /\ Called' \subseteq Called
    BY <2>1, Moves
  <2>3. Jobs'
    BY <1>1, <2>1, <2>2 DEF Jobs
  <2>4. TypeOK'
    BY <1>2, <2>1, <2>2, <2>3 DEF TInv, TypeOK, Jobs, Label, machine, program, jobs
  <2> QED BY <1>3, <2>2, <2>4
<1>11. CASE Done(w)
  <2>1. /\ Move(w, "top") /\ "top" \in Label /\ job' = [job EXCEPT ![w] = None]
        /\ UNCHANGED <<ready, old>> /\ refio' \in BOOLEAN /\ awake' \in BOOLEAN
    BY <1>11 DEF Done, Label, TInv, TypeOK
  <2>2. /\ pc' \in [Worker -> Label]
        /\ \A x \in Worker : pc'[x] = IF x = w THEN "top" ELSE pc[x]
        /\ Waiting' \subseteq Waiting /\ Called' \subseteq Called
    BY <2>1, Moves
  <2>3. Jobs' /\ job' \in [Worker -> Object \cup {None}]
    BY <1>1, <2>1, <2>2 DEF Jobs
  <2>4. TypeOK'
    BY <1>2, <2>1, <2>2, <2>3 DEF TInv, TypeOK, Jobs, Label, machine, program
  <2> QED BY <1>3, <2>2, <2>4
<1>12. CASE End(w)
  <2>1. /\ Move(w, "none") /\ pc[w] = "tail" /\ "none" \in Label
        /\ UNCHANGED <<job, ready, old, refio, awake>>
    BY <1>12 DEF End, Label, jobs
  <2>2. awake' \in BOOLEAN
    BY <2>1 DEF TInv, TypeOK
  <2> QED BY <1>3, <1>5, <2>1, <2>2
<1> QED BY <1>7, <1>8, <1>9, <1>10, <1>11, <1>12 DEF WorkerStep

\* The program lowers the limit: a target above 0 stays so, for the limit does.
LEMMA TypedSetLimit ==
    ASSUME TInv, NEW lim \in Limits, SetLimit(lim)
    PROVE  TInv'
<1>1. /\ limit' \in Nat \ {0} /\ target \in Nat
      /\ RunThreads(target, limit') /\ UNCHANGED <<jobs, job, awake, machine, program>>
  BY ThreadPoolAssumption DEF SetLimit, TInv, TypeOK
<1>2. /\ target' = IF target > limit' THEN limit' ELSE target
      /\ pc' \in [Worker -> Label] /\ Jobs'
      /\ target' = 0 => Waiting' = {}
      /\ Called' \subseteq Called \cup Waiting
  <2>1. ASSUME NEW num, num = target, NEW m, m = limit'
        PROVE  /\ target' = IF num > m THEN m ELSE num
               /\ pc' \in [Worker -> Label] /\ Jobs'
               /\ target' = 0 => Waiting' = {}
               /\ Called' \subseteq Called \cup Waiting
    BY <1>1, <2>1, RunThreadsTyped
  <2> QED BY <2>1
<1>3. target' \in 0..limit' /\ (target' = 0 => target = 0)
  BY <1>1, <1>2
<1>4. TypeOK'
  BY <1>1, <1>2, <1>3 DEF TInv, TypeOK, Jobs, Label, jobs, machine, program
<1>5. target' = 0 => Waiting' = {} /\ Called' \subseteq Called
  BY <1>2, <1>3 DEF TInv, Sleeps
<1> QED BY <1>1, <1>3, <1>4, <1>5 DEF TInv, Sleeps, Noticed, machine

\* A state of the pool that keeps the workers, or sets a target and starts the timer
\* where it then waits for them to become fewer.
LEMMA TypedState ==
    ASSUME TInv, UNCHANGED <<limit, job, finish_flag, program>>,
           ready' \in Seq(Object) /\ old' \in BOOLEAN /\ folded' \in BOOLEAN /\ refio' \in BOOLEAN,
           st' \in {"act", "oldest", "wait_2", "down_wait", "stable_wait", "fin_wait", "zom"},
           awake' \in BOOLEAN, timer' \in Timer(Time),
           \/ /\ UNCHANGED <<target, pc>>
              /\ \/ st' # "down_wait" \/ timer'.expire > 0
                 \/ st = "down_wait" /\ timer'.expire = timer.expire
           \/ /\ \E num \in Nat : RunThreads(num, limit)
              /\ st' # "down_wait" \/ timer'.expire > 0
    PROVE  TInv'
<1>1. limit \in Nat /\ target \in 0..limit
  BY DEF TInv, TypeOK
<1>2. CASE /\ UNCHANGED <<target, pc>>
           /\ \/ st' # "down_wait" \/ timer'.expire > 0
              \/ st = "down_wait" /\ timer'.expire = timer.expire
  <2>1. Waiting' = Waiting /\ Called' = Called
    BY <1>2 DEF Waiting, Called, At
  <2>2. TypeOK'
    BY <1>2 DEF TInv, TypeOK, program
  <2> QED BY <1>2, <2>1, <2>2 DEF TInv, Sleeps, Noticed
<1>3. CASE /\ \E num \in Nat : RunThreads(num, limit)
           /\ st' # "down_wait" \/ timer'.expire > 0
  <2>1. PICK num \in Nat : RunThreads(num, limit)
    BY <1>3
  <2>2. /\ target' = IF num > limit THEN limit ELSE num
        /\ pc' \in [Worker -> Label] /\ Jobs'
        /\ target' = 0 => Waiting' = {}
    BY <1>1, <2>1, RunThreadsTyped
  <2>3. target' \in 0..limit'
    BY <1>1, <2>2
  <2>4. TypeOK'
    BY <2>2, <2>3 DEF TInv, TypeOK, Jobs, Label, program
  <2> QED BY <1>3, <2>2, <2>4 DEF TInv, Sleeps, Noticed
<1> QED BY <1>2, <1>3

LEMMA TypedPool == ASSUME TInv, Pool PROVE TInv'
<1>1. /\ limit \in Nat /\ target \in 0..limit /\ timer \in Timer(Time)
      /\ ready \in Seq(Object) /\ old \in BOOLEAN /\ folded \in BOOLEAN /\ refio \in BOOLEAN
      /\ awake \in BOOLEAN
  BY DEF TInv, TypeOK
<1>2. /\ \A length \in {Up, Down, Linger} :
            Started(timer, length) \in Timer(Time) /\ Started(timer, length).expire = length
      /\ Stopped(timer) \in Timer(Time)
      /\ Asked(timer) \in Timer(Time) /\ Asked(timer).expire = timer.expire
      /\ Expired(timer) => timer.expire = 0
      /\ Down > 0
  <2>1. Up \in Time /\ Down \in Time /\ Linger \in Time /\ Down > 0
    BY TimeSpan DEF Time
  <2> QED BY <1>1, <2>1, TypedTimer
<1> USE DEF Goto, Rest, On, jobs, crew
<1>3. CASE Act
  <2>1. /\ UNCHANGED <<jobs, crew, finish_flag, program>> /\ awake' \in BOOLEAN
        /\ \/ st' = "stable_wait" /\ UNCHANGED timer
           \/ st' = "down_wait" /\ timer' = Started(timer, Down)
           \/ st' = "oldest" /\ UNCHANGED timer
    BY <1>3 DEF Act
  <2> QED BY <1>1, <1>2, <2>1, TypedState
<1>4. CASE ActOldest
  <2>1. /\ UNCHANGED <<jobs, limit, job, finish_flag, program>> /\ awake' \in BOOLEAN
        /\ \/ st' = "act" /\ UNCHANGED <<timer, target, pc>>
           \/ /\ RunThreads(target + 1, limit) \/ UNCHANGED <<target, pc>>
              /\ st' = "wait_2" /\ timer' = Started(timer, Up)
    BY <1>1, <1>4 DEF ActOldest
  <2>2. target + 1 \in Nat
    BY <1>1
  <2> QED BY <1>1, <1>2, <2>1, <2>2, TypedState
<1>5. CASE Wait2
  <2>1. /\ UNCHANGED <<jobs, crew, finish_flag, program>> /\ awake' \in BOOLEAN
        /\ \/ st' = "stable_wait" /\ UNCHANGED timer
           \/ st' = "act" /\ UNCHANGED timer
           \/ st' = "wait_2" /\ timer' = Asked(timer)
    BY <1>5 DEF Wait2
  <2> QED BY <1>1, <1>2, <2>1, TypedState
<1>6. CASE DownWait
  <2>1. /\ UNCHANGED <<jobs, limit, job, finish_flag, program>> /\ awake' \in BOOLEAN
        /\ st = "down_wait"
        /\ \/ st' \in {"stable_wait", "act"} /\ UNCHANGED <<timer, target, pc>>
           \/ st' = "act" /\ timer' = Stopped(timer) /\ UNCHANGED <<target, pc>>
           \/ st' = "down_wait" /\ timer' = Asked(timer) /\ UNCHANGED <<target, pc>>
           \/ /\ Expired(timer) /\ Idle > MaxIdle /\ RunThreads(target - 1, limit)
              /\ st' = "down_wait" /\ timer' = Started(timer, Down)
    BY <1>6 DEF DownWait
  <2>2. Expired(timer) /\ Idle > MaxIdle => target - 1 \in Nat
    <3>1. Idle > MaxIdle => Waiting # {} \/ Called # {}
      BY Counts, ThreadPoolAssumption
    <3>2. Expired(timer) /\ Idle > MaxIdle => target # 0
      BY <1>2, <2>1, <3>1 DEF TInv, Sleeps, Noticed
    <3> QED BY <1>1, <3>2
  <2> QED BY <1>1, <1>2, <2>1, <2>2, TypedState
<1>7. CASE StableWait
  <2>1. /\ UNCHANGED <<jobs, limit, job, finish_flag, program>> /\ awake' \in BOOLEAN
        /\ \/ RunThreads(0, limit) /\ st' = "fin_wait" /\ timer' = Started(timer, Linger)
           \/ st' = "stable_wait" /\ UNCHANGED <<timer, target, pc>>
    BY <1>7 DEF StableWait
  <2> QED BY <1>1, <1>2, <2>1, TypedState
<1>8. CASE FinWait
  <2>1. /\ UNCHANGED <<crew, finish_flag, program>> /\ awake' \in BOOLEAN
        /\ st' \in {"fin_wait", "zom"}
        /\ timer' \in {Started(timer, Linger), Asked(timer), Stopped(timer)}
        /\ ready' \in Seq(Object) /\ old' \in BOOLEAN
        /\ folded' \in BOOLEAN /\ refio' \in BOOLEAN
    <3>1. CASE Current > 0
      BY <1>1, <1>8, <3>1 DEF FinWait
    <3>2. CASE ~(Current > 0)
      <4>1. ready' = <<>> /\ timer' = Stopped(timer) /\ st' = "zom"
        BY <1>8, <3>2 DEF FinWait
      <4>2. <<>> \in Seq(Object)
        OBVIOUS
      <4> QED BY <1>8, <3>2, <4>1, <4>2 DEF FinWait
    <3> QED BY <3>1, <3>2
  <2>2. timer' \in Timer(Time)
    BY <1>2, <2>1
  <2> QED BY <2>1, <2>2, TypedState
<1> QED BY <1>3, <1>4, <1>5, <1>6, <1>7, <1>8 DEF Pool

\* Time passes only while no worker is between two places.
LEMMA TypedTick == ASSUME TInv, Tick PROVE TInv'
<1>1. /\ timer' = Passed(timer) /\ Called = {}
      /\ UNCHANGED <<jobs, crew, awake, st, finish_flag, program>>
  BY DEF Tick, At, Called
<1>2. timer' \in Timer(Time)
  BY <1>1, TypedTimer DEF TInv, TypeOK
<1>3. TypeOK'
  BY <1>1, <1>2 DEF TInv, TypeOK, jobs, crew, program
<1>4. Waiting' = Waiting /\ Called' = Called
  BY <1>1 DEF Waiting, Called, At, crew
<1> QED BY <1>1, <1>3, <1>4 DEF TInv, Sleeps, Noticed, crew

\* What else happens touches neither the workers nor the times.
LEMMA TypedOutside ==
    ASSUME TInv,
           \/ GrowsOld \/ \E o \in Object : Release(o)
           \/ GcStep \/ Deliver \/ LeaveLoop \/ Ending
           \/ UNCHANGED vars
    PROVE  TInv'
<1> USE DEF jobs, crew, machine, program, vars
<1>1. ASSUME TypeOK', UNCHANGED <<crew, st>>, timer'.expire = timer.expire
      PROVE  TInv'
  <2>1. Waiting' = Waiting /\ Called' = Called
    BY <1>1 DEF Waiting, Called, At
  <2> QED BY <1>1, <2>1 DEF TInv, Sleeps, Noticed
<1>2. CASE GrowsOld
  <2>1. TypeOK'
    BY <1>2 DEF GrowsOld, TInv, TypeOK
  <2> QED BY <1>1, <1>2, <2>1 DEF GrowsOld
<1>3. CASE (\E o \in Object : Release(o)) \/ GcStep
  <2>1. /\ life' \in [Object -> {"live", "released", "dying", "dead"}]
        /\ UNCHANGED <<jobs, crew, awake, machine, late, mainPc, destroyed>>
    BY <1>3 DEF Release, GcStep, RefEvent, RefEventDone, TInv, TypeOK
  <2>2. TypeOK'
    BY <2>1 DEF TInv, TypeOK
  <2> QED BY <1>1, <2>1, <2>2
<1>4. CASE Deliver
  <2>1. /\ timer' \in Timer(Time) /\ timer'.expire = timer.expire /\ awake' = TRUE
        /\ UNCHANGED <<jobs, crew, st, finish_flag, program>>
    BY <1>4, TypedTimer DEF Deliver, TInv, TypeOK
  <2>2. TypeOK'
    BY <2>1 DEF TInv, TypeOK
  <2> QED BY <1>1, <2>1, <2>2
<1>5. CASE LeaveLoop \/ Ending
  <2>1. /\ mainPc' \in {"app", "loop", "stable", "finish", "finish_run", "finish_gc",
                        "live", "done"}
        /\ UNCHANGED <<jobs, crew, life, late, st, timer>>
        /\ destroyed' \in BOOLEAN /\ awake' \in BOOLEAN /\ finish_flag' \in BOOLEAN
    BY <1>5 DEF LeaveLoop, Ending, WaitStable, FinishReady, FinishRun, FinishStable,
                WaitWorkers, MainGoes, TInv, TypeOK
  <2>2. TypeOK'
    BY <2>1 DEF TInv, TypeOK
  <2> QED BY <1>1, <2>1, <2>2
<1>6. CASE UNCHANGED vars
  <2>1. TypeOK'
    BY <1>6 DEF TInv, TypeOK
  <2> QED BY <1>1, <1>6, <2>1
<1> QED BY <1>2, <1>3, <1>4, <1>5, <1>6

LEMMA TypedNext == TInv /\ [Next]_vars => TInv'
<1> SUFFICES ASSUME TInv, [Next]_vars PROVE TInv'
  OBVIOUS
<1> QED BY TypedIns, TypedWorker, TypedSetLimit, TypedPool, TypedTick, TypedOutside DEF Next

\* The variables are well typed.  In particular targetRunThreads stays between 0 and
\* _limitThreadsNumber, which the comment at _runThreads_nolock() claims of the upper
\* bound: the program may lower the limit while DOWN_WAIT's time has passed and the
\* workers have yet to leave, so the target does reach 0, but DOWN_WAIT looks at the
\* idle workers before it takes one more (tsThread.cpp:569-594, 642-652, 890-924).
THEOREM TypeInvariant == Spec => []TypeOK
<1>1. TInv => TypeOK
  BY DEF TInv
<1> QED BY <1>1, TypedInit, TypedNext, PTL DEF Spec

-----------------------------------------------------------------------------
(* ThreadKill.                                                             *)

\* What KillTypeOK leaves out: a job that waits for a worker has a fresh stdThreadInfo.
KInv ==
    /\ KillTypeOK
    /\ at = [a \in Agent |-> at[a]]
    /\ stage = "queued" => kf = "IDLE"

\* All that the steps read of the constants.
LEMMA Names == Nobody \notin Agent /\ Killer \cap Poller = {}
BY ThreadKillAssumption DEF Nobody, Agent

LEMMA Requests ==
    ASSUME kf \in {"IDLE", "THR", "THR_REQUEST", "THR_CATCH", "THR_CATCH_REQUEST"}
    PROVE  /\ Requested \in {"IDLE", "THR", "THR_REQUEST", "THR_CATCH", "THR_CATCH_REQUEST"}
           /\ Requested \in {"THR_CATCH", "THR_CATCH_REQUEST"}
                <=> kf \in {"THR_CATCH", "THR_CATCH_REQUEST"}
           /\ Requested \in {"THR", "THR_REQUEST"} <=> kf \in {"THR", "THR_REQUEST"}
           /\ Requested = "IDLE" <=> kf = "IDLE"
BY DEF Requested

LEMMA KillTypesInit == KillInit => KInv
BY Names DEF KillInit, KInv, KillTypeOK, InSection, Agent, Active

\* The worker's own steps.
LEMMA KillTypesWorker == KInv /\ WorkerGoes => KInv'
<1> SUFFICES ASSUME KInv, WorkerGoes PROVE KInv' OBVIOUS
<1> USE DEF KInv, KillTypeOK, InSection
<1>1. CASE Enter BY <1>1 DEF Enter
<1>2. CASE Start BY <1>2 DEF Start
<1>3. CASE KillBegin BY <1>3 DEF KillBegin
<1>4. CASE Call BY <1>4 DEF Call
<1>5. CASE CallDone BY <1>5 DEF CallDone
<1>6. CASE KillFinish BY <1>6 DEF KillFinish
<1>7. CASE Unpoll
  <2>1. pol # Nobody => pol \in Poller BY DEF Nobody
  <2>2. /\ at' = [a \in Agent |-> at'[a]]
        /\ \A a \in Agent : at'[a] \in Active \cup
              IF a \in Killer THEN {"idle"} ELSE {"none", "wait"}
    <3>1. CASE pol # Nobody /\ at[pol] = "wait" /\ fin
      BY <1>7, <2>1, <3>1, Names DEF Unpoll, Agent
    <3>2. CASE ~(pol # Nobody /\ at[pol] = "wait" /\ fin)
      BY <1>7, <3>2 DEF Unpoll
    <3> QED BY <3>1, <3>2
  <2> QED BY <1>7, <2>2 DEF Unpoll
<1>8. CASE FnReturns BY <1>8 DEF FnReturns
<1>9. CASE FnThrows BY <1>9 DEF FnThrows
<1>10. CASE Proceed BY <1>10 DEF Proceed
<1>11. CASE Requeue BY <1>11 DEF Requeue
<1> QED BY <1>1, <1>2, <1>3, <1>4, <1>5, <1>6, <1>7, <1>8, <1>9, <1>10, <1>11 DEF WorkerGoes

\* What every step of a killer or a poller does to at.
LEMMA Going ==
    ASSUME KInv, NEW a \in Agent, NEW label, Goes(a, label),
           label \in Active \cup IF a \in Killer THEN {"idle"} ELSE {"none", "wait"}
    PROVE  /\ at' = [b \in Agent |-> at'[b]]
           /\ at'[a] = label
           /\ \A b \in Agent \ {a} : at'[b] = at[b]
           /\ \A b \in Agent : at'[b] \in Active \cup
                 IF b \in Killer THEN {"idle"} ELSE {"none", "wait"}
BY DEF KInv, KillTypeOK, Goes

LEMMA KillTypesResting ==
    ASSUME KInv, NEW a \in Agent, Rests(a)
    PROVE  /\ at' = [b \in Agent |-> at'[b]]
           /\ \A b \in Agent : at'[b] \in Active \cup
                 IF b \in Killer THEN {"idle"} ELSE {"none", "wait"}
           /\ \A b \in Agent \ {a} : at'[b] = at[b]
           /\ at'[a] \in {"idle", "wait"}
           /\ lm' = Nobody /\ app' \in Agent \cup {Nobody}
<1>1. Goes(a, IF a \in Killer THEN "idle" ELSE "wait") BY DEF Rests
<1>2. PICK label : label = (IF a \in Killer THEN "idle" ELSE "wait") OBVIOUS
<1> QED BY <1>1, <1>2, Going DEF Rests, KInv, KillTypeOK

LEMMA KillTypesAgents ==
    ASSUME KInv, NEW a \in Agent,
           \/ a \in Killer /\ Destroy(a)
           \/ a \in Poller /\ Poll(a)
           \/ AgentStep(a)
    PROVE  KInv'
<1>1. CASE a \in Killer /\ Destroy(a)
  BY <1>1, Going DEF Destroy, KInv, KillTypeOK, InSection, Active
<1>2. CASE a \in Poller /\ Poll(a)
  BY <1>2, Names, Going DEF Poll, KInv, KillTypeOK, InSection, Active
<1>3. CASE ThrKill(a)
  <2>1. CASE Attached
    BY <1>3, <2>1, Going DEF ThrKill, KInv, KillTypeOK, InSection, Active
  <2>2. CASE ~Attached
    BY <1>3, <2>2, KillTypesResting DEF ThrKill, KInv, KillTypeOK, InSection
  <2> QED BY <2>1, <2>2
<1>4. CASE Kill(a)
  <2>1. /\ at' = [b \in Agent |-> at'[b]]
        /\ \A b \in Agent : at'[b] \in Active \cup
              IF b \in Killer THEN {"idle"} ELSE {"none", "wait"}
        /\ lm' \in Agent \cup {Nobody} /\ app' \in Agent \cup {Nobody}
    <3>1. CASE kf = "THR_CATCH"
      BY <1>4, <3>1, Going DEF Kill, KInv, KillTypeOK, Active
    <3>2. CASE kf # "THR_CATCH"
      BY <1>4, <3>2, KillTypesResting DEF Kill
    <3> QED BY <3>1, <3>2
  <2> QED BY <1>4, <2>1, Requests DEF Kill, KInv, KillTypeOK, InSection
<1>5. CASE CreatePoller(a)
  <2>1. PICK p \in Poller :
          /\ at[p] = "none" /\ pol' = p
          /\ at' = [at EXCEPT ![p] = "wait",
                             ![a] = IF a \in Killer THEN "idle" ELSE "wait"]
    BY <1>5 DEF CreatePoller
  <2>2. /\ at' = [b \in Agent |-> at'[b]]
        /\ \A b \in Agent : at'[b] \in Active \cup
              IF b \in Killer THEN {"idle"} ELSE {"none", "wait"}
    BY <2>1, Names DEF KInv, KillTypeOK, Agent
  <2> QED BY <1>5, <2>1, <2>2 DEF CreatePoller, KInv, KillTypeOK, InSection
<1> QED BY <1>1, <1>2, <1>3, <1>4, <1>5 DEF AgentStep

LEMMA KillTypesNext == KInv /\ [KillNext]_killVars => KInv'
<1> SUFFICES ASSUME KInv, [KillNext]_killVars PROVE KInv' OBVIOUS
<1>1. CASE WorkerGoes BY <1>1, KillTypesWorker
<1>2. CASE \E k \in Killer : Destroy(k) BY <1>2, KillTypesAgents DEF Agent
<1>3. CASE \E p \in Poller : Poll(p) BY <1>3, KillTypesAgents DEF Agent
<1>4. CASE \E a \in Agent : AgentStep(a) BY <1>4, KillTypesAgents
<1>5. CASE UNCHANGED killVars
  BY <1>5 DEF killVars, KInv, KillTypeOK, InSection
<1> QED BY <1>1, <1>2, <1>3, <1>4, <1>5 DEF KillNext

\* Every reachable state is well typed; in particular the state of stdThreadInfo is a
\* THR_CATCH one exactly in a killable section, and a function starts with a request
\* pending, which is start()'s panic, only after one that threw
\* (tsThread.cpp:236-309).
THEOREM KillTypeInvariant == KillSpec => []KillTypeOK
<1>1. KInv => KillTypeOK BY DEF KInv
<1> QED BY <1>1, KillTypesInit, KillTypesNext, PTL DEF KillSpec

\* HandsOff is inductive: who is in kill() holds lm, so there is one at most, and the
\* worker needs lm to give the object up.
LEMMA HandsNext == KInv /\ HandsOff /\ [KillNext]_killVars => HandsOff'
<1> SUFFICES ASSUME KInv, HandsOff, [KillNext]_killVars PROVE HandsOff' OBVIOUS
<1>0. lm = Nobody => \A a \in Agent : at[a] \notin {"kill", "create"}
  BY Names DEF HandsOff
<1>1. CASE WorkerGoes
  <2>1. \A a \in Agent : at'[a] \in {"kill", "create"} => at[a] \in {"kill", "create"}
    <3>1. CASE Unpoll BY <3>1 DEF Unpoll, KInv
    <3>2. CASE at' = at BY <3>2
    <3> QED BY <1>1, <3>1, <3>2 DEF WorkerGoes, Enter, Start, KillBegin, Call, CallDone,
          KillFinish, FnReturns, FnThrows, Proceed, Requeue
  <2>2. lm' = lm
    BY <1>1 DEF WorkerGoes, Enter, Start, KillBegin, Call, CallDone, KillFinish, Unpoll,
          FnReturns, FnThrows, Proceed, Requeue
  <2>3. Attached /\ lm # Nobody => Attached'
    BY <1>1 DEF WorkerGoes, Enter, Start, KillBegin, Call, CallDone, KillFinish, Unpoll,
          FnReturns, FnThrows, Proceed, Requeue, Attached
  <2> QED BY <1>0, <2>1, <2>2, <2>3 DEF HandsOff
<1>2. CASE \E k \in Killer : Destroy(k)
  <2>1. PICK k \in Killer : Destroy(k) BY <1>2
  <2>2. Attached' = Attached /\ lm' = lm BY <2>1 DEF Destroy, Attached
  <2>3. \A a \in Agent : at'[a] \in {"kill", "create"} => at[a] \in {"kill", "create"}
    BY <2>1 DEF Destroy, Goes, KInv
  <2> QED BY <2>2, <2>3 DEF HandsOff
<1>3. CASE \E p \in Poller : Poll(p)
  <2>1. PICK p \in Poller : Poll(p) BY <1>3
  <2>2. Attached' = Attached /\ lm' = lm BY <2>1 DEF Poll, Attached
  <2>3. \A a \in Agent : at'[a] \in {"kill", "create"} => at[a] \in {"kill", "create"}
    BY <2>1 DEF Poll, Goes, KInv
  <2> QED BY <2>2, <2>3 DEF HandsOff
<1>4. CASE \E a \in Agent : AgentStep(a)
  <2>1. PICK a \in Agent : AgentStep(a) BY <1>4
  <2>2. CASE ThrKill(a)
    <3>1. CASE Attached
      BY <1>0, <2>2, <3>1 DEF ThrKill, Goes, HandsOff, Attached, KInv
    <3>2. CASE ~Attached
      BY <1>0, <2>2, <3>2, KillTypesResting DEF ThrKill, HandsOff
    <3> QED BY <3>1, <3>2
  <2>3. Attached /\ (Kill(a) \/ CreatePoller(a)) => Attached'
    BY DEF Kill, CreatePoller, Attached
  <2>4. CASE Kill(a)
    <3>1. Attached /\ lm = a BY <2>4 DEF Kill, HandsOff
    <3>2. \A b \in Agent \ {a} : at[b] \notin {"kill", "create"}
      BY <3>1 DEF HandsOff
    <3>3. CASE kf = "THR_CATCH"
      BY <2>3, <2>4, <3>1, <3>2, <3>3 DEF Kill, Goes, HandsOff, KInv
    <3>4. CASE kf # "THR_CATCH"
      BY <2>4, <3>2, <3>4, KillTypesResting DEF Kill, HandsOff
    <3> QED BY <3>3, <3>4
  <2>5. CASE CreatePoller(a)
    <3>1. Attached /\ lm = a BY <2>5 DEF CreatePoller, HandsOff
    <3>2. \A b \in Agent \ {a} : at[b] \notin {"kill", "create"}
      BY <3>1 DEF HandsOff
    <3>3. PICK p \in Poller :
            at' = [at EXCEPT ![p] = "wait",
                             ![a] = IF a \in Killer THEN "idle" ELSE "wait"]
      BY <2>5 DEF CreatePoller
    <3> QED BY <3>2, <3>3 DEF HandsOff, KInv
  <2> QED BY <2>1, <2>2, <2>4, <2>5 DEF AgentStep
<1>5. CASE UNCHANGED killVars BY <1>5 DEF killVars, HandsOff, Attached
<1> QED BY <1>1, <1>2, <1>3, <1>4, <1>5 DEF KillNext

\* While a killer is in kill(), or creates the poller there, the worker has the object
\* and the killer holds its lm: no signal reaches a worker that runs something else
\* (tinyState.cpp:753-757, 1031-1036).
THEOREM NoStraySignal == KillSpec => []HandsOff
<1>1. KillInit => HandsOff BY Names DEF KillInit, HandsOff, Agent
<1> QED BY <1>1, KillTypesInit, KillTypesNext, HandsNext, PTL DEF KillSpec
=============================================================================
