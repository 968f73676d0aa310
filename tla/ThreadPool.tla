----------------------------- MODULE ThreadPool -----------------------------
(***************************************************************************)
(* tsThread, the worker pool, with the parts of the application that end   *)
(* it: the loop of FIN_THREAD_ROOT_LOOP in tsApplication and what tsThread *)
(* sees of the reactor (its timer, refio) and of the gc thread.            *)
(*                                                                         *)
(* One action is what is done under the pool's mtx, or one unlocked read   *)
(* of its state.  The pool's own state machine runs under the application  *)
(* mutex, one state at a time; wakeup() makes it run once more.            *)
(***************************************************************************)
EXTENDS Integers, Sequences, FiniteSets, STimer

CONSTANTS
    Object,         \* tinyStates with states to run on a worker
    Worker,         \* names for the worker pthreads; a name is used again
    Limits,         \* the limits a program sets
    Freed,          \* objects the teardown releases
    Late,           \* bound: calls of ins() during the teardown
    MaxIdle,        \* THREAD_MAX_IDLE_THREADS
    Up, Down, Linger    \* THREAD_UP_DULATION, THREAD_DOWN_DULATION, FIN's second

None == "none"

ASSUME ThreadPoolAssumption ==
    /\ IsFiniteSet(Object) /\ IsFiniteSet(Worker)
    /\ Worker \cap {"main", "gc"} = {}
    /\ None \notin Object
    /\ Freed \subseteq Object /\ Late \in Nat
    /\ MaxIdle \in Nat \ {0} /\ Limits \subseteq Nat \ {0}
    /\ \E lim \in Limits : MaxIdle <= lim  \* MAX_INTEGER until the program sets one
    /\ Up \in Nat \ {0} /\ Linger \in Nat /\ Down \in Nat
    /\ Up <= Linger /\ Linger <= Down

VARIABLES
    ready,          \* objects waiting for a worker
    folded,         \* ready, run and setup_list have been set to null
    refio,          \* the pool keeps the reactor's loop() from returning
    target, limit,  \* targetRunThreads, _limitThreadsNumber
    pc,             \* of each worker, see TypeOK
    job,            \* the object a worker has taken, or None
    st,             \* the pool's state
    awake,          \* an event for the pool's state machine is queued
    timer,          \* the pool's sTimer
    old,            \* the first of the queue has waited for more than Up
    destroyed,      \* is_destroyed()
    finish_flag,
    life,           \* of each object: "live", "released", "dying" (refEvent() runs)
                    \* or "dead"
    late,           \* calls of ins() that may still come during the teardown
    mainPc          \* "app", and then what tsApplication does, see TypeOK

jobs == <<ready, folded, refio, old>>
crew == <<target, limit, pc, job>>
machine == <<st, timer, finish_flag>>
program == <<life, late, mainPc, destroyed>>
vars == <<jobs, crew, awake, machine, program>>

Main == "main"
Gc == "gc"
Time == 0..Down

At(labels) == {w \in Worker : pc[w] \in labels}
Move(w, label) == pc' = [pc EXCEPT ![w] = label]

\* currentRunThreads, currentIdleThreads (a worker counts as idle until it has
\* the mutex back), run->count and tsThreadLiveWorkers.
Current == Cardinality(At({"top", "idle", "woken", "late", "run", "back"}))
Idle == Cardinality(At({"idle", "woken", "late"}))
Running == At({"run", "back"})
LiveWorkers == Worker \ At({"none"})

Queued == {ready[i] : i \in 1..Len(ready)}
is_stable == \A o \in Object : life[o] # "released"

Init ==
    /\ ready = <<>> /\ folded = FALSE /\ refio = FALSE /\ old = FALSE
    /\ target = MaxIdle
    /\ limit \in Limits /\ \A lim \in Limits : lim <= limit
    /\ LET S == CHOOSE m \in SUBSET Worker : Cardinality(m) = MaxIdle
       IN pc = [w \in Worker |-> IF w \in S THEN "top" ELSE "none"]
    /\ job = [w \in Worker |-> None]
    /\ awake = TRUE
    /\ st = "act" /\ timer = NewTimer /\ finish_flag = FALSE
    /\ life = [o \in Object |-> "live"] /\ late = Late
    /\ mainPc = "app" /\ destroyed = FALSE

-----------------------------------------------------------------------------
(* ins(): what eventHandler() does with an object whose next state is for a *)
(* worker.  It is called from the reactor, by a job and in a refEvent().    *)

InLoop == mainPc \in {"app", "loop"}
Submits(s, o) ==
    \/ s = Main /\ InLoop /\ life[o] = "live"
    \/ s = Gc /\ life[o] = "dying"
    \/ s \in Worker /\ pc[s] = "run" /\ job[s] # o /\ life[o] = "live"

\* cond.signal(): idle workers are alike.
Signal ==
    IF At({"idle"}) = {} THEN UNCHANGED pc
    ELSE Move(CHOOSE w \in At({"idle"}) : TRUE, "woken")

\* A folded pool refuses the job and nothing changes.  The wakeup() that ends
\* ins() comes outside mtx; the pool's state machine may always come later still.
Ins(s, o) ==
    /\ Submits(s, o) /\ ~folded
    /\ o \notin Queued /\ \A w \in At({"run"}) : job[w] # o
    /\ mainPc = "app" \/ late > 0
    /\ late' = IF mainPc = "app" THEN late ELSE late - 1
    /\ ready' = Append(ready, o)
    /\ refio' = TRUE
    /\ Signal
    /\ awake' = TRUE
    /\ UNCHANGED <<folded, old, target, limit, job, machine, life, mainPc, destroyed>>

-----------------------------------------------------------------------------
(* The workers.                                                            *)

\* create(): the names of threads that have ended are used again.
Create(n) ==
    /\ \E m \in SUBSET At({"none"}) : Cardinality(m) = n
    /\ LET S == CHOOSE m \in SUBSET At({"none"}) : Cardinality(m) = n
       IN pc' = [w \in Worker |-> IF w \in S THEN "top" ELSE pc[w]]

\* _runThreads_nolock(num) with the limit lim.
RunThreads(num, lim) ==
    LET n == IF num > lim THEN lim ELSE num IN
    /\ target' = n
    /\ \/ Current < n /\ Create(n - Current)
       \/ /\ Current > n
          /\ pc' = [w \in Worker |-> IF pc[w] = "idle" THEN "woken" ELSE pc[w]]
       \/ Current = n /\ UNCHANGED pc

Take(w) ==
    /\ Move(w, "run")
    /\ job' = [job EXCEPT ![w] = Head(ready)]
    /\ ready' = Tail(ready)
    /\ old' = FALSE
    /\ UNCHANGED awake

\* The last to leave wakes the pool up.
Leave(w) ==
    /\ Move(w, "tail")
    /\ awake' = (awake \/ Current = 1)
    /\ UNCHANGED <<job, ready, old>>

\* With mtx held: at the top of the loop, or back from timedwait() with 0.
Look(w) ==
    /\ pc[w] \in {"top", "woken"}
    /\ IF target < Current THEN Leave(w)
       ELSE IF ready # <<>> THEN Take(w)
       ELSE Move(w, "idle") /\ UNCHANGED <<job, ready, old, awake>>
    /\ UNCHANGED <<folded, refio, target, limit, machine, program>>

\* timedwait() gives up.
TimedOut(w) ==
    /\ pc[w] = "idle"
    /\ Move(w, "late")
    /\ UNCHANGED <<jobs, target, limit, job, awake, machine, program>>

\* After a timeout the queue is looked at once more, for a job whose signal came
\* too late for this worker.
LookLate(w) ==
    /\ pc[w] = "late"
    /\ IF ready # <<>> THEN Take(w) ELSE Leave(w)
    /\ UNCHANGED <<folded, refio, target, limit, machine, program>>

\* The object's eventHandler() returns; it may ask for a worker again at once.
Return(w) ==
    /\ pc[w] = "run"
    /\ Move(w, "back")
    /\ UNCHANGED <<jobs, target, limit, job, awake, machine, program>>

\* Faulty variant: the keep-alive goes with the last running job.
DoneDropsRefio(w) ==
    /\ pc[w] = "back" /\ Move(w, "top")
    /\ job' = [job EXCEPT ![w] = None]
    /\ IF Running = {w}
       THEN refio' = FALSE /\ awake' = TRUE
       ELSE UNCHANGED <<refio, awake>>
    /\ UNCHANGED <<ready, folded, old, target, limit, machine, program>>

\* run->del(), and the wakeup() of a pool with nothing left to do.  The worker goes
\* on to Look with mtx held, but finish() reads the counts without it.
Done(w) ==
    /\ pc[w] = "back" /\ Move(w, "top")
    /\ job' = [job EXCEPT ![w] = None]
    /\ IF Running = {w} /\ ready = <<>>
       THEN refio' = FALSE /\ awake' = TRUE
       ELSE UNCHANGED <<refio, awake>>
    /\ UNCHANGED <<ready, folded, old, target, limit, machine, program>>

\* The last reference goes, the thread is no longer counted and ends.
End(w) ==
    /\ pc[w] = "tail"
    /\ Move(w, "none")
    /\ UNCHANGED <<jobs, target, limit, job, awake, machine, program>>

\* Faulty variant: a lower limit is not applied to the target.
SetLimitLater(lim) ==
    /\ mainPc = "app" /\ lim < limit
    /\ limit' = IF lim < MaxIdle THEN MaxIdle ELSE lim
    /\ UNCHANGED <<jobs, target, pc, job, awake, machine, program>>

\* limitThreadsNumber(lim), by the program; bound: it only lowers the limit.
SetLimit(lim) ==
    /\ mainPc = "app" /\ lim < limit
    /\ limit' = IF lim < MaxIdle THEN MaxIdle ELSE lim
    /\ RunThreads(target, limit')
    /\ UNCHANGED <<jobs, job, awake, machine, program>>

-----------------------------------------------------------------------------
(* The pool's state machine.  A state that returns rDO runs the next at     *)
(* once; one that returns 0 or a state without rDO waits for an event.     *)

Goto(s) == st' = s /\ awake' = TRUE
Rest(s) == st' = s /\ awake' = FALSE
On(s) == st = s /\ awake

\* ACT_START to ACT_TINYSTATE_START up to the reading of the queue.
Act ==
    /\ On("act")
    /\ IF destroyed THEN Goto("stable_wait") /\ UNCHANGED timer
       ELSE IF Idle > MaxIdle
       THEN Goto("down_wait") /\ timer' = Started(timer, Down)
       ELSE Rest("oldest") /\ UNCHANGED timer
    /\ UNCHANGED <<jobs, crew, finish_flag, program>>

\* Faulty variant: a young job does not make the pool look again.
ActOldestTooSoon ==
    /\ st = "oldest"
    /\ IF ready = <<>> \/ ~old
       THEN st' = "act" /\ UNCHANGED <<awake, timer, target, pc>>
       ELSE /\ RunThreads(target + 1, limit)
            /\ Goto("wait_2") /\ timer' = Started(timer, Up)
    /\ UNCHANGED <<jobs, limit, job, finish_flag, program>>

\* readyQueueOldest() and the age of what it finds.  runThreads(runThreads()+-1)
\* takes mtx twice, but what limitThreadsNumber() may do in between is clamped.
ActOldest ==
    /\ st = "oldest"
    /\ IF ready = <<>>
       THEN st' = "act" /\ UNCHANGED <<awake, timer, target, pc>>
       ELSE /\ IF old THEN RunThreads(target + 1, limit) ELSE UNCHANGED <<target, pc>>
            /\ Goto("wait_2") /\ timer' = Started(timer, Up)
    /\ UNCHANGED <<jobs, limit, job, finish_flag, program>>

\* ACT_WAIT_2
Wait2 ==
    /\ On("wait_2")
    /\ IF destroyed THEN Goto("stable_wait") /\ UNCHANGED timer
       ELSE IF Expired(timer) THEN Goto("act") /\ UNCHANGED timer
       ELSE Rest("wait_2") /\ timer' = Asked(timer)
    /\ UNCHANGED <<jobs, crew, finish_flag, program>>

\* ACT_DOWN_WAIT
DownWait ==
    /\ On("down_wait")
    /\ IF destroyed THEN Goto("stable_wait") /\ UNCHANGED <<timer, target, pc>>
       ELSE IF Idle = 0 THEN Goto("act") /\ UNCHANGED <<timer, target, pc>>
       ELSE IF ready = <<>> /\ Running = {}
       THEN Rest("act") /\ timer' = Stopped(timer) /\ UNCHANGED <<target, pc>>
       ELSE IF ~Expired(timer)
       THEN Rest("down_wait") /\ timer' = Asked(timer) /\ UNCHANGED <<target, pc>>
       ELSE IF Idle > MaxIdle
       THEN /\ RunThreads(target - 1, limit)
            /\ Goto("down_wait") /\ timer' = Started(timer, Down)
       ELSE Goto("act") /\ UNCHANGED <<timer, target, pc>>
    /\ UNCHANGED <<jobs, limit, job, finish_flag, program>>

\* FIN_STABLE_WAIT, FIN_DRAINED
StableWait ==
    /\ On("stable_wait")
    /\ IF finish_flag
       THEN /\ RunThreads(0, limit)
            /\ timer' = Started(timer, Linger) /\ Goto("fin_wait")
       ELSE Rest("stable_wait") /\ UNCHANGED <<timer, target, pc>>
    /\ UNCHANGED <<jobs, limit, job, finish_flag, program>>

\* Faulty variant: the workers are not waited for.
FinWaitNot ==
    /\ On("fin_wait")
    /\ Rest("zom") /\ timer' = Stopped(timer)
    /\ ready' = <<>> /\ old' = FALSE /\ folded' = TRUE /\ refio' = FALSE
    /\ UNCHANGED <<crew, finish_flag, program>>

\* Faulty variant: the keep-alive of the jobs thrown away is not given back.
FinWaitKeepsRefio ==
    /\ On("fin_wait")
    /\ IF Current > 0
       THEN /\ Rest("fin_wait")
            /\ timer' = IF Expired(timer) THEN Started(timer, Linger) ELSE Asked(timer)
            /\ UNCHANGED jobs
       ELSE /\ Rest("zom") /\ timer' = Stopped(timer)
            /\ ready' = <<>> /\ old' = FALSE /\ folded' = TRUE /\ UNCHANGED refio
    /\ UNCHANGED <<crew, finish_flag, program>>

\* FIN_WAIT, and the states of the base that make the pool a zombie.
FinWait ==
    /\ On("fin_wait")
    /\ IF Current > 0
       THEN /\ Rest("fin_wait")
            /\ timer' = IF Expired(timer) THEN Started(timer, Linger) ELSE Asked(timer)
            /\ UNCHANGED jobs
       ELSE /\ Rest("zom") /\ timer' = Stopped(timer)
            /\ ready' = <<>> /\ old' = FALSE /\ folded' = TRUE /\ refio' = FALSE
    /\ UNCHANGED <<crew, finish_flag, program>>

-----------------------------------------------------------------------------
(* The reactor, the gc thread and tsApplication.                           *)

\* A unit is 10 ms or more: a worker that runs no job needs less than that.
Tick ==
    /\ Runs(timer) /\ At({"top", "woken", "late", "back", "tail"}) = {}
    /\ timer' = Passed(timer)
    /\ UNCHANGED <<jobs, crew, awake, st, finish_flag, program>>

\* The oldest queued job passes the age of Up, which is not looked at once the pool
\* is destroyed.
GrowsOld ==
    /\ ready # <<>> /\ ~old /\ ~destroyed
    /\ old' = TRUE
    /\ UNCHANGED <<ready, folded, refio, crew, awake, machine, program>>

\* loop() delivers the TSE_TIMER of the pool.
Deliver ==
    /\ InLoop /\ IsDue(timer)
    /\ timer' = Delivered(timer) /\ awake' = TRUE
    /\ UNCHANGED <<jobs, crew, st, finish_flag, program>>

\* The last reference from the program to an object goes; the gc thread takes
\* it off the list, which is all is_stable() sees, and calls refEvent().
Release(o) ==
    /\ mainPc # "app" /\ o \in Freed /\ life[o] = "live"
    /\ o \notin Queued /\ \A w \in Running : job[w] # o
    /\ InLoop \/ At({"run"}) # {}
    /\ life' = [life EXCEPT ![o] = "released"]
    /\ UNCHANGED <<jobs, crew, awake, machine, late, mainPc, destroyed>>
RefEvent(o) ==
    /\ life[o] = "released" /\ \A p \in Object : life[p] # "dying"
    /\ life' = [life EXCEPT ![o] = "dying"]
    /\ UNCHANGED <<jobs, crew, awake, machine, late, mainPc, destroyed>>
RefEventDone(o) ==
    /\ life[o] = "dying"
    /\ life' = [life EXCEPT ![o] = "dead"]
    /\ UNCHANGED <<jobs, crew, awake, machine, late, mainPc, destroyed>>

MainGoes(label) == mainPc' = label /\ UNCHANGED <<jobs, crew, life, late>>

\* loop() returns: nothing registered, no keep-alive, and the gc thread is idle.
\* The first time, FIN_TS_APPLICATION_START destroys the pool.
LeaveLoop ==
    /\ InLoop
    /\ timer.regs = {} /\ ~refio /\ is_stable
    /\ MainGoes(IF mainPc = "app" THEN "loop"
                ELSE IF st = "zom" THEN "live" ELSE "stable")
    /\ IF mainPc = "app" THEN destroyed' = TRUE /\ awake' = TRUE
                         ELSE UNCHANGED <<destroyed, awake>>
    /\ UNCHANGED machine

\* stdObject::wait_stable()
WaitStable ==
    /\ mainPc = "stable" /\ is_stable
    /\ MainGoes("finish") /\ UNCHANGED <<destroyed, awake, machine>>

\* tsThread_::finish(), one read at a time.
FinishReady ==
    /\ mainPc = "finish"
    /\ MainGoes(IF st \in {"stable_wait", "fin_wait"} /\ ~finish_flag /\ ready = <<>>
                THEN "finish_run" ELSE "loop")
    /\ UNCHANGED <<destroyed, awake, machine>>
FinishRun ==
    /\ mainPc = "finish_run"
    /\ MainGoes(IF Running = {} THEN "finish_gc" ELSE "loop")
    /\ UNCHANGED <<destroyed, awake, machine>>
FinishStable ==
    /\ mainPc = "finish_gc"
    /\ MainGoes("loop")
    /\ IF is_stable THEN finish_flag' = TRUE /\ awake' = TRUE
                    ELSE UNCHANGED <<finish_flag, awake>>
    /\ UNCHANGED <<destroyed, st, timer>>

\* The wait for the workers' last instructions, while the loop is run again.
WaitWorkers ==
    /\ mainPc = "live"
    /\ MainGoes(IF LiveWorkers = {} THEN "done" ELSE "loop")
    /\ UNCHANGED <<destroyed, awake, machine>>

Pool == Act \/ ActOldest \/ Wait2 \/ DownWait \/ StableWait \/ FinWait
WorkerStep(w) ==
    Look(w) \/ LookLate(w) \/ Done(w) \/ End(w)
GcStep == \E o \in Object : RefEvent(o) \/ RefEventDone(o)
Ending == WaitStable \/ FinishReady \/ FinishRun \/ FinishStable \/ WaitWorkers

Next ==
    \/ \E s \in Worker \cup {Main, Gc}, o \in Object : Ins(s, o)
    \/ \E w \in Worker : WorkerStep(w) \/ TimedOut(w) \/ Return(w)
    \/ \E lim \in Limits : SetLimit(lim)
    \/ GrowsOld \/ \E o \in Object : Release(o)
    \/ Pool \/ GcStep \/ Tick \/ Deliver \/ LeaveLoop \/ Ending

Spec == Init /\ [][Next]_vars

\* Every thread that can run does, time passes, and the reactor delivers what
\* is due.  Nothing is assumed of Return: a job may run for ever.  The program
\* need not end (LeaveLoop from "app"), and timedwait() need not give up.
Fairness ==
    /\ \A w \in Worker : WF_vars(WorkerStep(w))
    /\ WF_vars(Pool) /\ WF_vars(GcStep)
    /\ WF_vars(Tick) /\ WF_vars(Deliver) /\ WF_vars(Ending)
    /\ WF_vars(mainPc # "app" /\ LeaveLoop)
    /\ WF_vars(GrowsOld)
FairSpec == Spec /\ Fairness

-----------------------------------------------------------------------------
(* Properties.                                                             *)

TypeOK ==
    /\ ready \in Seq(Object) /\ old \in BOOLEAN
    /\ folded \in BOOLEAN /\ refio \in BOOLEAN
    /\ limit \in Nat /\ target \in 0..limit
    /\ pc \in [Worker -> {"none", "top", "idle", "woken", "late", "run", "back",
                          "tail"}]
    /\ job \in [Worker -> Object \cup {None}]
    /\ \A w \in Worker : job[w] # None <=> pc[w] \in {"run", "back"}
    /\ st \in {"act", "oldest", "wait_2", "down_wait",
               "stable_wait", "fin_wait", "zom"}
    /\ awake \in BOOLEAN
    /\ timer \in Timer(Time)
    /\ destroyed \in BOOLEAN /\ finish_flag \in BOOLEAN
    /\ life \in [Object -> {"live", "released", "dying", "dead"}]
    /\ late \in 0..Late
    /\ mainPc \in {"app", "loop", "stable", "finish", "finish_run", "finish_gc",
                   "live", "done"}

\* The reactor is kept from returning exactly while the pool has a job, whoever
\* brings one and whichever worker finishes last; a folded pool lets it go
\* (tsThread.cpp:396-411, 497-500, 834-839, 982-992).
KeepAlive == refio <=> ready # <<>> \/ Running # {}

\* No worker is left that could touch ready or run once they are null, although
\* limitThreadsNumber() and runThreads() create workers until the program ends.
FoldedAlone == folded => Current = 0 /\ ready = <<>>

\* The pool waits for its timer with nothing registered: stop() leaves setup_time in
\* the future, and a start() within that time believes in a registration that the
\* detach() has taken away (sTimer.h).
TimerLost ==
    st \in {"wait_2", "down_wait", "fin_wait"} /\ ~awake /\ timer.regs = {}

\* A queued job is taken by a worker, though every other may run for ever and every
\* worker may have left for lack of work, unless fewer workers are allowed than there
\* are objects, the timer is lost or the application ends
\* (tsThread.cpp:745-762, 868-889).
Served ==
    \A o \in Object : o \in Queued ~>
       o \notin Queued \/ limit < Cardinality(Object) \/ TimerLost \/ destroyed

\* Once the application has begun to end it does end, if every job does: the only
\* thing that can keep it is a job that finds no worker left, for in FIN_STABLE_WAIT
\* the pool makes none (tsApplication.cpp:315-362, tsThread.cpp:941-946).
JobsEnd == \A w \in Worker : []<>(pc[w] # "run")
Stranded == st = "stable_wait" /\ ready # <<>> /\ Current = 0
EndsOrStrands == JobsEnd => (mainPc # "app" ~> mainPc = "done" \/ Stranded)
=============================================================================
