----------------------------- MODULE GcDispatch -----------------------------
(***************************************************************************)
(* tsGC: the object to which others hand themselves, or an event, with     *)
(* exe(), to be evaluated later by the reactor's thread.  It rests in      *)
(* ACT_START while its queue is empty; a wake-up makes it ask the reactor  *)
(* for a timer of zero delay and wait in ACT_RET; when the timer comes it  *)
(* delivers one job after the other in ACT_EXE, the application mutex      *)
(* held, until the queue is empty or its time is used up.                  *)
(*                                                                         *)
(* exe() itself takes no lock.  A state function that calls it holds the   *)
(* application mutex, so nothing comes between its steps; a TS_THREAD      *)
(* function, or a call that is too deep and is made outside the mutex,     *)
(* may act on an empty queue that is empty no more.  In a queue with       *)
(* entries one ins() or del() ends before the next begins: what two that   *)
(* overlap there make of the nodes is not modelled.                        *)
(***************************************************************************)
EXTENDS Integers, HalfOrderQueue

CONSTANTS
    Job,        \* what exe() is called with: an object, or one and its event
    NoJob,
    Caller,     \* threads that call exe(), beside the deliveries themselves
    Locked,     \* those of them that hold the application mutex in exe()
    Late,       \* those that are not the pool's: they outlive it
    Priority,   \* tinyState::priority() of each job's object
    Budgets,    \* the times interval(us) sets
    MaxSpent    \* bound of the model on the time since enter_time

ASSUME GcAssumption ==
    /\ NoJob \notin Job
    /\ Locked \subseteq Caller /\ Late \subseteq Caller
    /\ Priority \in [Job -> Int]
    /\ Budgets \subseteq Int /\ MaxSpent \in Nat
    /\ \A b \in Budgets : b < MaxSpent

VARIABLES
    gc,         \* _state of tsGC: "START", "RET", "EXE", "ZOM"
    wakeup,     \* a TSE_WAKEUP waits in the gc's own event queue
    timer,      \* the reactor has the gc's timer
    budget_us,
    spent,      \* now() - enter_time
    running,    \* the job that del() gives, or whose eventHandler() the gc is in
    at,         \* each caller: "idle", or where it is in exe()
    hand,       \* the job of a caller that found the queue empty
    app,        \* tsApplication: "loop", "folded", "wait", "end"
    late,       \* history: a call of exe() was not over when the loop had ended
    raced       \* history: an entry was stored over another

vars == <<node, step, np, new, gc, wakeup, timer, budget_us, spent, running, at,
          hand, app, late, raced>>
callers == <<at, hand, late, raced>>

Init ==
    /\ QueueInit /\ gc = "START"
    /\ wakeup = FALSE /\ timer = FALSE
    /\ budget_us \in Budgets /\ spent = 0
    /\ running = NoJob
    /\ at = [c \in Caller |-> "idle"]
    /\ hand = [c \in Caller |-> NoJob]
    /\ app = "loop" /\ late = FALSE /\ raced = FALSE

\* The gc's dispatch holds the application mutex from its first state function
\* to the end of its event queue.
Dispatching == gc = "EXE" \/ wakeup

\* So does a caller under it, until its wakeup() has returned.
MutexFree == ~Dispatching /\ \A c \in Locked : at[c] = "idle"

\* It is the gc, or what it delivers to, that is in ins() or del().
GcAtQueue == step # "idle" /\ \A c \in Caller : at[c] # "ins"

Entry(j) == [key |-> Priority[j], data |-> j]

\* A job is one call of exe(): it is made again when it has been delivered.
Absent(j) ==
    /\ j \notin Held /\ new # Entry(j)
    /\ \A c \in Caller : hand[c] # j

-----------------------------------------------------------------------------
(* The state functions of tsGC.                                            *)

\* Faulty variant: the timer is asked for by the first job only.
ActStartFirst ==
    IF Count(1) # 1 THEN gc' = "START" /\ UNCHANGED timer
    ELSE gc' = "RET" /\ timer' = TRUE

\* ACT_START: it stays there with an empty queue.
ActStart ==
    IF Count(1) = 0 THEN gc' = "START" /\ UNCHANGED timer
    ELSE gc' = "RET" /\ timer' = TRUE

\* A TSE_WAKEUP: ACT_RET waits for nothing but TSE_RETURN.
Woken == IF gc = "START" THEN ActStart ELSE UNCHANGED <<gc, timer>>

\* The reactor delivers the timer as TSE_RETURN: ACT_RET goes on to ACT_EXE.
TimerFires ==
    /\ app = "loop" /\ timer /\ MutexFree
    /\ timer' = FALSE
    /\ gc' = "EXE"
    /\ spent' = 0
    /\ UNCHANGED <<queue, wakeup, budget_us, running, app, callers>>

\* ACT_EXE: del() ...
ActExe ==
    /\ gc = "EXE" /\ running = NoJob /\ step = "idle"
    /\ \/ /\ ~Here(1)
          /\ ActStart
          /\ UNCHANGED <<queue, running>>
       \/ /\ Del
          /\ running' = IF step' = "idle" THEN node[1].data ELSE NoJob
          /\ UNCHANGED <<gc, timer>>
    /\ UNCHANGED <<wakeup, budget_us, spent, app, callers>>

\* ... finds the leaf for the top, whose data it returns when that has sunk, and
\* the job's eventHandler() is entered.
DelGoesOn ==
    /\ \/ Cut /\ running' = IF step' = "sink" THEN node[1].data ELSE running
       \/ Sink /\ UNCHANGED running
    /\ UNCHANGED <<gc, timer, wakeup, budget_us, spent, app, callers>>

\* Faulty variant: the queue is emptied whatever the time.
DeliveredUnbudgeted ==
    /\ running # NoJob /\ ~GcAtQueue
    /\ running' = NoJob
    /\ UNCHANGED <<gc, timer, queue, wakeup, budget_us, spent, app, callers>>

\* It returns: on to the next job, or to ACT_START if the time is used up.
Delivered ==
    /\ running # NoJob /\ ~GcAtQueue
    /\ running' = NoJob
    /\ IF spent > budget_us THEN ActStart ELSE UNCHANGED <<gc, timer>>
    /\ UNCHANGED <<queue, wakeup, budget_us, spent, app, callers>>

\* The wake-ups of exe() calls made in the deliveries are the rest of the
\* dispatch.
Rest ==
    /\ wakeup /\ gc # "EXE"
    /\ wakeup' = FALSE
    /\ Woken
    /\ UNCHANGED <<queue, budget_us, spent, running, app, callers>>

\* The clock goes on.
Elapse ==
    /\ gc = "EXE" /\ spent < MaxSpent
    /\ spent' = spent + 1
    /\ UNCHANGED <<queue, gc, wakeup, timer, budget_us, running, app, callers>>

-----------------------------------------------------------------------------
(* exe(): ins() and wakeup().                                              *)

\* The object that is being evaluated hands itself, or another, to the gc: the
\* gc is in ACT_EXE, the wake-up waits.
ExeInside(j) ==
    /\ running # NoJob /\ Absent(j)
    /\ Ins(Entry(j))
    /\ wakeup' = TRUE
    /\ UNCHANGED <<gc, timer, budget_us, spent, running, app, callers>>

\* The pool's threads are gone when the loop has ended.
MayCall(c) == at[c] = "idle" /\ (app = "loop" \/ (c \in Late /\ app # "end"))

\* A caller begins ins(): an empty queue has it at once.
InsBy(c, j) ==
    /\ Ins(Entry(j))
    /\ at' = [at EXCEPT ![c] = IF step' = "idle" THEN "wake" ELSE "ins"]

\* A caller that holds the application mutex.
Exe(c, j) ==
    /\ c \in Locked /\ MayCall(c) /\ MutexFree /\ Absent(j)
    /\ InsBy(c, j)
    /\ late' = (late \/ app # "loop")
    /\ UNCHANGED <<gc, wakeup, timer, budget_us, spent, running, app, hand, raced>>

\* A caller that does not: ins() looks at the top ...
ExeLook(c, j) ==
    /\ c \notin Locked /\ MayCall(c) /\ step = "idle" /\ Absent(j)
    /\ \/ /\ ~Here(1)
          /\ at' = [at EXCEPT ![c] = "store"]
          /\ hand' = [hand EXCEPT ![c] = j]
          /\ UNCHANGED queue
       \/ /\ Here(1)
          /\ InsBy(c, j)
          /\ UNCHANGED hand
    /\ late' = (late \/ app # "loop")
    /\ UNCHANGED <<gc, wakeup, timer, budget_us, spent, running, app, raced>>

\* ... and makes its entry the top, which it saw empty ...
ExeStore(c) ==
    /\ at[c] = "store" /\ gc # "ZOM" /\ step = "idle"
    /\ node' = [p \in {1} |-> Leaf(Entry(hand[c]))]
    /\ hand' = [hand EXCEPT ![c] = NoJob]
    /\ at' = [at EXCEPT ![c] = "wake"]
    /\ raced' = (raced \/ Here(1))
    /\ UNCHANGED <<step, np, new, gc, wakeup, timer, budget_us, spent, running, app,
                   late>>

\* ... or _ins() goes on, and returns to who called it ...
InsGoesOn ==
    /\ Descend \/ Climb
    /\ at' = [c \in Caller |-> IF at[c] = "ins" /\ step' = "idle" THEN "wake" ELSE at[c]]
    /\ UNCHANGED <<gc, wakeup, timer, budget_us, spent, running, hand, app, late, raced>>

\* ... and wakeup() evaluates the gc, or leaves the event to who does.
ExeWake(c) ==
    /\ at[c] = "wake"
    /\ at' = [at EXCEPT ![c] = "idle"]
    /\ \/ /\ Dispatching
          /\ wakeup' = TRUE
          /\ UNCHANGED <<gc, timer>>
       \/ /\ ~Dispatching /\ (c \in Locked \/ MutexFree)
          /\ Woken
          /\ UNCHANGED wakeup
    /\ UNCHANGED <<queue, budget_us, spent, running, app, hand, late, raced>>

-----------------------------------------------------------------------------
(* tsApplication.                                                          *)

\* Faulty variant: the loop ends whatever is registered.
LoopReturnsEarly ==
    /\ app = "loop" /\ MutexFree
    /\ app' = "folded"
    /\ UNCHANGED <<queue, gc, wakeup, timer, budget_us, spent, running, callers>>

\* fwIO::loop() returns with no timer left, and the pool has been folded.
LoopReturns ==
    /\ app = "loop" /\ MutexFree /\ ~timer
    /\ \A c \in Caller \ Late : at[c] = "idle"
    /\ app' = "folded"
    /\ late' = \E c \in Late : at[c] # "idle"
    /\ UNCHANGED <<queue, gc, wakeup, timer, budget_us, spent, running, at, hand,
                   raced>>

\* gc->destroy(), under the application mutex up to the release of the gc, if it
\* ends at once; if it is in ACT_RET the application waits for it.
DestroyGc ==
    /\ app = "folded" /\ MutexFree
    /\ \/ /\ gc = "START" /\ ~Here(1)
          /\ gc' = "ZOM" /\ app' = "end"
          /\ UNCHANGED timer
       \/ /\ gc = "START" /\ Here(1)
          /\ ActStart
          /\ app' = "wait"
       \/ /\ gc = "RET"
          /\ app' = "wait"
          /\ UNCHANGED <<gc, timer>>
    /\ UNCHANGED <<queue, wakeup, budget_us, spent, running, callers>>

Next ==
    \/ TimerFires \/ ActExe \/ DelGoesOn \/ Delivered \/ Rest \/ Elapse
    \/ InsGoesOn
    \/ \E j \in Job : ExeInside(j)
    \/ \E c \in Caller :
          \/ ExeStore(c) \/ ExeWake(c)
          \/ \E j \in Job : Exe(c, j) \/ ExeLook(c, j)
    \/ LoopReturns \/ DestroyGc

Spec == Init /\ [][Next]_vars

\* Threads go on, deliveries return, the reactor delivers its timers and the
\* clock runs.  Nobody need call exe(), and the program need not end.
Fairness ==
    /\ WF_vars(TimerFires) /\ WF_vars(ActExe) /\ WF_vars(DelGoesOn)
    /\ WF_vars(Delivered) /\ WF_vars(InsGoesOn)
    /\ WF_vars(Rest) /\ WF_vars(Elapse) /\ WF_vars(DestroyGc)
    /\ \A c \in Caller : WF_vars(ExeStore(c) \/ ExeWake(c))

FairSpec == Spec /\ Fairness

-----------------------------------------------------------------------------
(* Properties.                                                             *)

\* The variables have their types, and the queue is a balanced heap
\* (stdHalfOrderQueue.cpp:23-67, 69-130).
TypeOK ==
    /\ DOMAIN node \subseteq Nat \ {0}
    /\ \A p \in DOMAIN node :
          node[p] \in [key : Int, data : Job, count : Nat \ {0}]
    /\ WellFormed
    /\ step \in {"idle", "down", "up", "cut", "sink"} /\ np \in Nat \ {0}
    /\ new \in {Entry(j) : j \in Job} \cup {NoEntry}
    /\ gc \in {"START", "RET", "EXE", "ZOM"}
    /\ wakeup \in BOOLEAN /\ timer \in BOOLEAN /\ late \in BOOLEAN
    /\ raced \in BOOLEAN
    /\ budget_us \in Budgets /\ spent \in 0..MaxSpent
    /\ running \in Job \cup {NoJob}
    /\ at \in [Caller -> {"idle", "store", "ins", "wake"}]
    /\ hand \in [Caller -> Job \cup {NoJob}]
    /\ app \in {"loop", "folded", "wait", "end"}

\* tsGC is a queue that loses nothing and serves the least key first: "the call
\* goes to the gc's queue with its event" (docs/COOKBOOK.md:662).  Two calls
\* without the application mutex that both found the queue empty end that.
Promise == INSTANCE JobQueue WITH pending <- Held, open <- gc # "ZOM"

ImplementsJobQueue ==
    Promise!Init /\ [][Promise!Next \/ raced']_<<Held, running, gc # "ZOM">>

\* Once no more jobs are given, each one in the queue is delivered, though the
\* gc rests with an empty queue and yields with a full one (tsGC.cpp:180-191,
\* 318); a job given when the loop had ended need not be.  While jobs are given
\* again and again nothing of the kind holds: the heap does not know who came
\* first.
NoMoreGiven == <>[][Held' \subseteq Held]_vars

DeliveredAtLast ==
    NoMoreGiven => \A j \in Job : j \in Held ~> (running = j \/ late \/ raced)

\* However many jobs hand themselves in again, the gc returns to the reactor, so
\* that other state machines have their turn (docs/REFERENCE.md:150-152).
LoopGetsItsTurn == gc = "EXE" ~> gc # "EXE"

\* When the loop has ended the gc ends too, and with it the application; it waits
\* in vain only for a job that was given too late (tsApplication.cpp:356-373).
GcEnds == app = "folded" ~> (app = "end" \/ late)
=============================================================================
