---------------------------- MODULE EventHandler ----------------------------
(***************************************************************************)
(* The dispatch core of tinyState: tinyState_::eventHandler() as it is run *)
(* by every thread of the process at once, with the app-mutex, the hand-off*)
(* of TS_THREAD states to the worker pool, the escape of deep calls to the *)
(* gc queue, destroy() and refEvent().                                     *)
(*                                                                         *)
(* A thread is a stack of eventHandler() calls: a state function or a      *)
(* listener notification may call the eventHandler() of another object.    *)
(* call[t][d] is the frame of the d-th nested call of thread t, and its pc *)
(* says where between two sections of the object's mutex `lm` it stands.   *)
(* What eventHandler() does while it holds lm is one step: everything lm   *)
(* protects is only touched under it.  What it does without lm is a step   *)
(* per shared access.                                                      *)
(*                                                                         *)
(* The user's state functions are arbitrary: they call eventHandler(),     *)
(* destroy() and constructors in any order and return any transition.      *)
(***************************************************************************)
EXTENDS Integers, Sequences, FiniteSets, SequencesExt

CONSTANTS
    Obj,        \* the tinyState objects of one tsApplication
    Caller,     \* threads outside the pool: main/reactor, gc threads
    Worker,     \* worker threads of the pool (tsThread)
    TsState,    \* states written TS_STATE(x): run under the app-mutex
    TsThread,   \* states written TS_THREAD(x): run on a worker (C_THR)
    Ini,        \* INI_START, the state a constructor leaves the object in
    Zom,        \* the C_ZOM states, taken as one
    Moves,      \* the transitions each object's state functions may make
    Asks,       \* what the program does: "call", "destroy", "later", "ref",
                \* and "nest": does it from state functions and handlers too
    Once,       \* event types of onlyOneEvent_mask (TSE_WAKEUP, ...)
    Many,       \* the other event types a caller may send (TSE_RETURN, ...)
    DepthCap,   \* evh_depth: deeper calls are handed to the gc
    MaxDepth,   \* bound of the model on the nesting of one thread
    QueCap,     \* bound of the model on the queue length a caller adds to
    GcCap,      \* bound of the model on the jobs handed to the gc
    Torn,       \* TRUE: a flag store without lm loads and stores the word
    NoObj,      \* not an object
    NoThread    \* not a thread

Thread == Caller \cup Worker
State == TsState \cup TsThread \cup {Zom}
Event == Once \cup Many \cup {"TSE_INIT", "TSE_INVOKE", "TSE_THREAD"}

ASSUME ConstantsAssumption ==
    /\ Caller \cap Worker = {}
    /\ TsState \cap TsThread = {}
    /\ Zom \notin TsState \cup TsThread
    /\ Ini \in TsState \cup TsThread
    /\ NoObj \notin Obj
    /\ NoThread \notin Thread
    /\ Torn \in BOOLEAN
    /\ Moves \in [Obj -> SUBSET (State \X State)]
    /\ Asks \subseteq {"call", "destroy", "later", "ref", "nest"}
    /\ Once \cap (Many \cup {"TSE_INIT", "TSE_INVOKE", "TSE_THREAD"}) = {}

\* tsGC ACT_EXE panics when evh_depth does not let it deliver one level below
\* itself, so a program that keeps running has a cap above the gc's depth.
ASSUME BoundsAssumption ==
    /\ DepthCap \in Nat /\ MaxDepth \in Nat /\ QueCap \in Nat /\ GcCap \in Nat
    /\ 1 < DepthCap /\ DepthCap < MaxDepth /\ 0 < QueCap

VARIABLES
    state,      \* _state of each object
    que,        \* its event queue
    occur,      \* onlyOneEvent_occur
    flags,      \* the bitfields that share one word with state_lock
    thrInfo,    \* the worker serving the object, or NoThread
    born,       \* "no", "ctor" (INI dispatch under way) or "out" (usable)
    call,       \* the frames of each thread
    dep,        \* sCallSection depth of each thread
    app,        \* application->mtx, recursive: owner and level
    ready,      \* the pool's ready queue
    gcq,        \* tsGC's queue of jobs [obj, ev], taken in any order
    timer,      \* objects with a delayed TSE_INVOKE at fwIO
    \* history, for the properties only
    told,       \* the last state the listeners were notified of
    asked,      \* objects evaluated since destroy_flag/ref_destroy_flag rose
    want        \* objects evaluated in a TS_THREAD state without a worker

ghosts == <<told, asked, want>>
vars == <<state, que, occur, flags, thrInfo, born, call, dep, app, ready,
          gcq, timer, told, asked, want>>

Flag == {"lock", "inv", "destroy", "ref", "mtx", "thq"}
Word == [Flag -> BOOLEAN]
NoFlag == [x \in Flag |-> FALSE]

Pc == {"none", "gc", "ref", "enter", "lock", "acquire", "runS", "unlock",
       "release", "runT", "post", "tell", "notify", "ins"}

\* info: the call is the pool's own dispatch (_thrInfo # thNULL).
\* ins: do_ins.  word: what an unlocked flag store loaded, <<>> before.
Frame == [obj : Obj \cup {NoObj}, ev : Event, info : BOOLEAN, pc : Pc,
          ins : BOOLEAN, word : {<<>>} \cup {<<w>> : w \in Word}]
NewFrame(o, e, i, pc) ==
    [obj |-> o, ev |-> e, info |-> i, pc |-> pc, ins |-> FALSE, word |-> <<>>]
NoFrame == NewFrame(NoObj, "TSE_INIT", FALSE, "none")

\* pcs at which the frame holds its object's state_lock
Locked == {"lock", "acquire", "runS", "unlock", "release", "runT"}

Init ==
    /\ state = [o \in Obj |-> Ini]
    /\ que = [o \in Obj |-> <<>>]
    /\ occur = [o \in Obj |-> {}]
    /\ flags = [o \in Obj |-> NoFlag]
    /\ thrInfo = [o \in Obj |-> NoThread]
    /\ born = [o \in Obj |-> "no"]
    /\ call = [t \in Thread |-> [d \in 1..MaxDepth |-> NoFrame]]
    /\ dep = [t \in Thread |-> 0]
    /\ app = [owner |-> NoThread, level |-> 0]
    /\ ready = <<>>
    /\ gcq = <<>>
    /\ timer = {}
    /\ told = [o \in Obj |-> Ini]
    /\ asked = {}
    /\ want = {}

-----------------------------------------------------------------------------
(* The stack of calls.                                                     *)

Top(t) == call[t][dep[t]]
At(t, pc) == dep[t] > 0 /\ Top(t).pc = pc

Push(t, f) ==
    /\ dep' = [dep EXCEPT ![t] = @ + 1]
    /\ call' = [call EXCEPT ![t][dep[t] + 1] = f]
Pop(t) ==
    /\ dep' = [dep EXCEPT ![t] = @ - 1]
    /\ call' = [call EXCEPT ![t][dep[t]] = NoFrame]
SetTop(t, f) ==
    /\ call' = [call EXCEPT ![t][dep[t]] = f]
    /\ UNCHANGED dep
Goto(t, pc) == SetTop(t, [Top(t) EXCEPT !.pc = pc])

\* Code that may call an object: a thread outside the pool that is in no
\* call, a state function, or the delivery of a listener notification.  The
\* model bounds how many of the calls go to the gc.
CanCall(t) ==
    /\ dep[t] < MaxDepth
    /\ dep[t] < DepthCap
       \/ Len(gcq) + Cardinality({u \in Thread : dep[u] > DepthCap}) < GcCap
    /\ \/ dep[t] = 0 /\ t \in Caller
       \/ "nest" \in Asks /\ dep[t] > 0 /\ Top(t).pc \in {"runS", "runT", "notify"}

-----------------------------------------------------------------------------
(* application->mtx.                                                       *)

AppFree(t) == app.owner \in {t, NoThread}
Acquired(t) == [owner |-> t, level |-> app.level + 1]
Released == [owner |-> IF app.level = 1 THEN NoThread ELSE app.owner,
             level |-> app.level - 1]

\* A store to one bitfield without lm.  It is a read-modify-write of the whole
\* word: under Torn the load and the store are two steps, and the store puts
\* back every bit as it was loaded.
StoreFlag(t, bit, v, next) ==
    LET f == Top(t)
        o == f.obj
    IN  \/ /\ ~Torn
           /\ flags' = [flags EXCEPT ![o][bit] = v]
           /\ Goto(t, next)
        \/ /\ Torn /\ f.word = <<>>
           /\ SetTop(t, [f EXCEPT !.word = <<flags[o]>>])
           /\ UNCHANGED flags
        \/ /\ Torn /\ f.word # <<>>
           /\ flags' = [flags EXCEPT ![o] = [f.word[1] EXCEPT ![bit] = v]]
           /\ SetTop(t, [f EXCEPT !.word = <<>>, !.pc = next])

-----------------------------------------------------------------------------
(* The event loop under lm.                                                *)

\* _insEvent: an event of onlyOneEvent_mask is queued once.
Insert(q, occ, e) ==
    IF e \in Once /\ e \in occ THEN q ELSE Append(q, e)
InsertMark(occ, e) == IF e \in Once THEN occ \cup {e} ELSE occ

\* Faulty variants of Leave: the app-mutex is not unlocked; the pool's claim or
\* the demand is forgotten with the lock.
LeaveKeepsLevel(t, f, o, q, occ, fl, ins) ==
    /\ que' = [que EXCEPT ![o] = q]
    /\ occur' = [occur EXCEPT ![o] = occ]
    /\ flags' = [flags EXCEPT ![o] = [fl EXCEPT !["mtx"] = FALSE,
                                                !["lock"] = FALSE]]
    /\ thrInfo' = [thrInfo EXCEPT ![o] = NoThread]
    /\ SetTop(t, [f EXCEPT !.pc = "post", !.ins = ins])
    /\ UNCHANGED app
LeaveForgetsClaim(t, f, o, q, occ, fl, ins) ==
    /\ que' = [que EXCEPT ![o] = q]
    /\ occur' = [occur EXCEPT ![o] = occ]
    /\ flags' = [flags EXCEPT ![o] = [fl EXCEPT !["mtx"] = FALSE,
                                                !["lock"] = FALSE,
                                                !["thq"] = FALSE]]
    /\ app' = IF fl["mtx"] THEN Released ELSE app
    /\ thrInfo' = [thrInfo EXCEPT ![o] = NoThread]
    /\ SetTop(t, [f EXCEPT !.pc = "post", !.ins = ins])

LeaveForgetsIns(t, f, o, q, occ, fl, ins) ==
    /\ que' = [que EXCEPT ![o] = q]
    /\ occur' = [occur EXCEPT ![o] = occ]
    /\ flags' = [flags EXCEPT ![o] = [fl EXCEPT !["mtx"] = FALSE,
                                                !["lock"] = FALSE]]
    /\ app' = IF fl["mtx"] THEN Released ELSE app
    /\ thrInfo' = [thrInfo EXCEPT ![o] = NoThread]
    /\ SetTop(t, [f EXCEPT !.pc = "post", !.ins = FALSE])

\* The end of the loop: give up the app-mutex, the worker and state_lock.
Leave(t, f, o, q, occ, fl, ins) ==
    /\ que' = [que EXCEPT ![o] = q]
    /\ occur' = [occur EXCEPT ![o] = occ]
    /\ flags' = [flags EXCEPT ![o] = [fl EXCEPT !["mtx"] = FALSE,
                                                !["lock"] = FALSE]]
    /\ app' = IF fl["mtx"] THEN Released ELSE app
    /\ thrInfo' = [thrInfo EXCEPT ![o] = NoThread]
    /\ SetTop(t, [f EXCEPT !.pc = "post", !.ins = ins])

\* The next turn of the loop, in state s with worker w.  inHand: the function
\* before returned rDO|s, and the same event is given to the next one.
Proceed(t, f, o, s, w, q, occ, fl, inHand) ==
    LET rest == IF inHand THEN q ELSE Tail(q)
        left == IF inHand THEN occ ELSE occ \ {Head(q)}
        run(pc) ==
            /\ que' = [que EXCEPT ![o] = rest]
            /\ occur' = [occur EXCEPT ![o] = left]
            /\ flags' = [flags EXCEPT ![o] = [fl EXCEPT !["thq"] = FALSE]]
            /\ thrInfo' = [thrInfo EXCEPT ![o] = w]
            /\ SetTop(t, [f EXCEPT !.pc = pc])
            /\ want' = want \ {o}
            /\ asked' = IF fl["destroy"] \/ fl["ref"]
                          THEN asked \cup {o} ELSE asked
            /\ UNCHANGED app
    IN  \/ /\ s = Zom
           /\ Leave(t, f, o, <<>>, {}, fl, f.ins)
           /\ want' = want \ {o}
           /\ UNCHANGED asked
        \/ /\ s # Zom /\ ~inHand /\ q = <<>>
           /\ Leave(t, f, o, q, occ, fl, f.ins)
           /\ UNCHANGED <<want, asked>>
        \/ /\ inHand \/ q # <<>>
           /\ s \in TsState
           /\ run("lock")
        \/ /\ inHand \/ q # <<>>
           /\ s \in TsThread /\ w # NoThread
           /\ run("unlock")
        \* no worker: ask the pool for one and drop every event in the queue
        \/ /\ inHand \/ q # <<>>
           /\ s \in TsThread /\ w = NoThread
           /\ Leave(t, f, o, <<>>, occ \ {q[i] : i \in 1..Len(q)},
                    [fl EXCEPT !["thq"] = TRUE], f.ins \/ ~fl["thq"])
           /\ want' = want \cup {o}
           /\ UNCHANGED asked

-----------------------------------------------------------------------------
(* Who calls eventHandler().                                               *)

\* inherit(): the constructor dispatches TSE_INIT before it returns.
Construct(t, o) ==
    /\ CanCall(t)
    /\ born[o] = "no"
    /\ born' = [born EXCEPT ![o] = "ctor"]
    /\ Push(t, NewFrame(o, "TSE_INIT", FALSE, "enter"))
    /\ UNCHANGED <<state, que, occur, flags, thrInfo, app, ready, gcq, timer,
                   ghosts>>

\* wakeup(), a TSE_RETURN to the parent, a listener's handler, ...
Call(t, o, e) ==
    /\ CanCall(t)
    /\ born[o] = "out"
    /\ Len(que[o]) < QueCap
    /\ Push(t, NewFrame(o, e, FALSE, "enter"))
    /\ UNCHANGED <<state, que, occur, flags, thrInfo, born, app, ready, gcq,
                   timer, ghosts>>

\* destroy(delayFlag): destroy_flag under lm, then TSE_INVOKE, at once or from
\* a zero-delay timer of fwIO.
Destroy(t, o, delay) ==
    /\ CanCall(t)
    /\ born[o] = "out"
    /\ state[o] # Zom
    /\ ~flags[o]["destroy"]
    /\ flags' = [flags EXCEPT ![o]["destroy"] = TRUE]
    /\ IF delay
         THEN timer' = timer \cup {o} /\ UNCHANGED <<call, dep>>
         ELSE Push(t, NewFrame(o, "TSE_INVOKE", FALSE, "enter"))
              /\ UNCHANGED timer
    /\ UNCHANGED <<state, que, occur, thrInfo, born, app, ready, gcq, ghosts>>

FireTimer(t, o) ==
    /\ t \in Caller /\ dep[t] = 0
    /\ o \in timer
    /\ timer' = timer \ {o}
    /\ Push(t, NewFrame(o, "TSE_INVOKE", FALSE, "enter"))
    /\ UNCHANGED <<state, que, occur, flags, thrInfo, born, app, ready, gcq,
                   ghosts>>

\* refEvent(): the last public handle goes; a gc thread starts the teardown.
RefEvent(t, o) ==
    /\ t \in Caller /\ dep[t] = 0
    /\ born[o] = "out"
    /\ ~flags[o]["ref"]
    /\ Push(t, NewFrame(o, "TSE_INVOKE", FALSE, "ref"))
    /\ UNCHANGED <<state, que, occur, flags, thrInfo, born, app, ready, gcq,
                   timer, ghosts>>

RefFlag(t) ==
    /\ At(t, "ref")
    /\ StoreFlag(t, "ref", TRUE, "enter")
    /\ UNCHANGED <<state, que, occur, thrInfo, born, app, ready, gcq, timer,
                   ghosts>>

\* A worker takes an object off the ready queue and dispatches TSE_THREAD.
PoolTake(w) ==
    /\ w \in Worker /\ dep[w] = 0
    /\ ready # <<>>
    /\ ready' = Tail(ready)
    /\ Push(w, NewFrame(Head(ready), "TSE_THREAD", TRUE, "enter"))
    /\ UNCHANGED <<state, que, occur, flags, thrInfo, born, app, gcq, timer,
                   ghosts>>

\* The gc's own state function holds the app-mutex while it delivers jobs one
\* level below itself, at least one each time; equal priorities leave the heap
\* in any order.
GcStart(t, i) ==
    /\ t \in Caller /\ dep[t] = 0
    /\ i \in 1..Len(gcq)
    /\ AppFree(t)
    /\ app' = Acquired(t)
    /\ gcq' = RemoveAt(gcq, i)
    /\ dep' = [dep EXCEPT ![t] = 2]
    /\ call' = [call EXCEPT ![t] =
          [@ EXCEPT ![1] = NewFrame(NoObj, "TSE_INIT", FALSE, "gc"),
                    ![2] = NewFrame(gcq[i].obj, gcq[i].ev, FALSE, "enter")]]
    /\ UNCHANGED <<state, que, occur, flags, thrInfo, born, ready, timer,
                   ghosts>>

GcDeliver(t, i) ==
    /\ At(t, "gc")
    /\ i \in 1..Len(gcq)
    /\ gcq' = RemoveAt(gcq, i)
    /\ Push(t, NewFrame(gcq[i].obj, gcq[i].ev, FALSE, "enter"))
    /\ UNCHANGED <<state, que, occur, flags, thrInfo, born, app, ready, timer,
                   ghosts>>

GcEnd(t) ==
    /\ At(t, "gc")
    /\ app' = Released
    /\ Pop(t)
    /\ UNCHANGED <<state, que, occur, flags, thrInfo, born, ready, gcq, timer,
                   ghosts>>

-----------------------------------------------------------------------------
(* eventHandler().                                                         *)

\* Past the cap the call is handed to the gc, unless it is the pool's or the
\* object is still in its INI stage.
Deep(t) == ~Top(t).info /\ dep[t] > DepthCap /\ state[Top(t).obj] # Ini

\* Faulty variant: the job is lost.
EscapeDrops(t) ==
    /\ At(t, "enter")
    /\ Deep(t)
    /\ Pop(t)
    /\ UNCHANGED <<state, que, occur, flags, thrInfo, born, app, ready, gcq,
                   timer, ghosts>>

Escape(t) ==
    /\ At(t, "enter")
    /\ Deep(t)
    /\ gcq' = Append(gcq, [obj |-> Top(t).obj, ev |-> Top(t).ev])
    /\ Pop(t)
    /\ UNCHANGED <<state, que, occur, flags, thrInfo, born, app, ready, timer,
                   ghosts>>

EnterZombie(t) ==
    /\ At(t, "enter")
    /\ ~Deep(t)
    /\ state[Top(t).obj] = Zom
    /\ Pop(t)
    /\ UNCHANGED <<state, que, occur, flags, thrInfo, born, app, ready, gcq,
                   timer, ghosts>>

\* Another call runs the object: leave the event to it.  A pool dispatch also
\* takes back thrQueueing_flag, for the pool no longer has the object.
EnterBusy(t) ==
    LET f == Top(t)
        o == f.obj
    IN  /\ At(t, "enter")
        /\ ~Deep(t)
        /\ state[o] # Zom
        /\ flags[o]["lock"]
        /\ que' = [que EXCEPT ![o] = Insert(@, occur[o], f.ev)]
        /\ occur' = [occur EXCEPT ![o] = InsertMark(@, f.ev)]
        /\ flags' = IF f.info THEN [flags EXCEPT ![o]["thq"] = FALSE]
                              ELSE flags
        /\ Pop(t)
        /\ UNCHANGED <<state, thrInfo, born, app, ready, gcq, timer, ghosts>>

\* Faulty variant: state_lock is not looked at.
EnterLockUnguarded(t) ==
    LET f == Top(t)
        o == f.obj
    IN  /\ At(t, "enter")
        /\ ~Deep(t)
        /\ state[o] # Zom
        /\ Proceed(t, f, o, state[o], IF f.info THEN t ELSE NoThread,
                   Insert(que[o], occur[o], f.ev), InsertMark(occur[o], f.ev),
                   [flags[o] EXCEPT !["lock"] = TRUE], FALSE)
        /\ born' = [born EXCEPT ![o] = "out"]
        /\ UNCHANGED <<state, ready, gcq, timer, told>>

EnterLock(t) ==
    LET f == Top(t)
        o == f.obj
    IN  /\ At(t, "enter")
        /\ ~Deep(t)
        /\ state[o] # Zom
        /\ ~flags[o]["lock"]
        /\ Proceed(t, f, o, state[o], IF f.info THEN t ELSE NoThread,
                   Insert(que[o], occur[o], f.ev), InsertMark(occur[o], f.ev),
                   [flags[o] EXCEPT !["lock"] = TRUE], FALSE)
        /\ born' = [born EXCEPT ![o] = "out"]
        /\ UNCHANGED <<state, ready, gcq, timer, told>>

\* appMtxLock(), before a TS_STATE function
AppMtxLock(t) ==
    /\ At(t, "lock")
    /\ IF flags[Top(t).obj]["mtx"] /\ Top(t).word = <<>>
         THEN Goto(t, "runS") /\ UNCHANGED flags
         ELSE StoreFlag(t, "mtx", TRUE, "acquire")
    /\ UNCHANGED <<state, que, occur, thrInfo, born, app, ready, gcq, timer,
                   ghosts>>

AppAcquire(t) ==
    /\ At(t, "acquire")
    /\ AppFree(t)
    /\ app' = Acquired(t)
    /\ Goto(t, "runS")
    /\ UNCHANGED <<state, que, occur, flags, thrInfo, born, ready, gcq, timer,
                   ghosts>>

\* Faulty variant: a TS_THREAD function starts with the app-mutex held.
AppMtxUnlockSkipped(t) ==
    /\ At(t, "unlock")
    /\ Goto(t, "runT")
    /\ UNCHANGED <<state, que, occur, flags, thrInfo, born, app, ready, gcq,
                   timer, ghosts>>

\* appMtxUnlock(), before a TS_THREAD function
AppMtxUnlock(t) ==
    /\ At(t, "unlock")
    /\ IF ~flags[Top(t).obj]["mtx"] /\ Top(t).word = <<>>
         THEN Goto(t, "runT") /\ UNCHANGED flags
         ELSE StoreFlag(t, "mtx", FALSE, "release")
    /\ UNCHANGED <<state, que, occur, thrInfo, born, app, ready, gcq, timer,
                   ghosts>>

AppRelease(t) ==
    /\ At(t, "release")
    /\ app' = Released
    /\ Goto(t, "runT")
    /\ UNCHANGED <<state, que, occur, flags, thrInfo, born, ready, gcq, timer,
                   ghosts>>

\* Faulty variants of Return: a state entered with rDO is not marked for the
\* listeners; the call leaves after one event; a yield forgets the queue.
ReturnMarksLast(t, to, rDO) ==
    LET f == Top(t)
        o == f.obj
        moved == to # state[o]
    IN  /\ At(t, "runS") \/ At(t, "runT")
        /\ to \in State
        /\ moved => to # Ini /\ <<state[o], to>> \in Moves[o]
        /\ to = Zom => At(t, "runS")
        /\ state' = [state EXCEPT ![o] = to]
        /\ Proceed(t, f, o, to, thrInfo[o], que[o], occur[o],
                   IF moved /\ ~rDO THEN [flags[o] EXCEPT !["inv"] = TRUE]
                                    ELSE flags[o], rDO)
        /\ UNCHANGED <<born, ready, gcq, timer, told>>
ReturnLeaves(t, to, rDO) ==
    LET f == Top(t)
        o == f.obj
        moved == to # state[o]
    IN  /\ At(t, "runS") \/ At(t, "runT")
        /\ to \in State
        /\ moved => to # Ini /\ <<state[o], to>> \in Moves[o]
        /\ to = Zom => At(t, "runS")
        /\ state' = [state EXCEPT ![o] = to]
        /\ Leave(t, f, o, que[o], occur[o], flags[o], f.ins)
        /\ UNCHANGED <<born, ready, gcq, timer, ghosts>>
ReturnForgets(t, to, rDO) ==
    LET f == Top(t)
        o == f.obj
        moved == to # state[o]
    IN  /\ At(t, "runS") \/ At(t, "runT")
        /\ to \in State
        /\ moved => to # Ini /\ <<state[o], to>> \in Moves[o]
        /\ to = Zom => At(t, "runS")
        /\ state' = [state EXCEPT ![o] = to]
        /\ Proceed(t, f, o, to, thrInfo[o], <<>>, {},
                   IF moved THEN [flags[o] EXCEPT !["inv"] = TRUE]
                            ELSE flags[o], rDO)
        /\ UNCHANGED <<born, ready, gcq, timer, told>>

\* The state function returns (or throws): rDO|to, to, or 0 as "to = state".
\* Only a TS_STATE function reaches ZOM; nothing goes back to INI_START.
\* lm is taken again, invoke_check() stores the state, the loop goes on.
Return(t, to, rDO) ==
    LET f == Top(t)
        o == f.obj
        moved == to # state[o]
    IN  /\ At(t, "runS") \/ At(t, "runT")
        /\ to \in State
        /\ moved => to # Ini /\ <<state[o], to>> \in Moves[o]
        /\ to = Zom => At(t, "runS")
        /\ state' = [state EXCEPT ![o] = to]
        /\ Proceed(t, f, o, to, thrInfo[o], que[o], occur[o],
                   IF moved THEN [flags[o] EXCEPT !["inv"] = TRUE]
                            ELSE flags[o], rDO)
        /\ UNCHANGED <<born, ready, gcq, timer, told>>

\* invoke_state(), after lm is released: take invoke_state_flag, then notify.
Done(t) ==
    IF Top(t).ins THEN Goto(t, "ins") ELSE Pop(t)

InvokeState(t) ==
    /\ At(t, "post")
    /\ IF ~flags[Top(t).obj]["inv"] /\ Top(t).word = <<>>
         THEN Done(t) /\ UNCHANGED flags
         ELSE StoreFlag(t, "inv", FALSE, "tell")
    /\ UNCHANGED <<state, que, occur, thrInfo, born, app, ready, gcq, timer,
                   ghosts>>

\* invoke_listen() builds the TSE_STATE event from the state as it is now ...
Tell(t) ==
    /\ At(t, "tell")
    /\ told' = [told EXCEPT ![Top(t).obj] = state[Top(t).obj]]
    /\ Goto(t, "notify")
    /\ UNCHANGED <<state, que, occur, flags, thrInfo, born, app, ready, gcq,
                   timer, asked, want>>

\* ... and returns when the listeners' handlers have been called.
NotifyDone(t) ==
    /\ At(t, "notify")
    /\ Done(t)
    /\ UNCHANGED <<state, que, occur, flags, thrInfo, born, app, ready, gcq,
                   timer, ghosts>>

\* th->ins(ifThis): the pool takes the object on its ready queue.
PoolIns(t) ==
    /\ At(t, "ins")
    /\ ready' = Append(ready, Top(t).obj)
    /\ Pop(t)
    /\ UNCHANGED <<state, que, occur, flags, thrInfo, born, app, gcq, timer,
                   ghosts>>

-----------------------------------------------------------------------------
\* Steps a thread takes on its own once it is in eventHandler().
Advance(t) ==
    \/ RefFlag(t) \/ Escape(t)
    \/ EnterZombie(t) \/ EnterBusy(t) \/ EnterLock(t)
    \/ AppMtxLock(t) \/ AppMtxUnlock(t) \/ AppRelease(t)
    \/ InvokeState(t) \/ Tell(t) \/ PoolIns(t)

\* What is asked of the objects from outside.
Request(t) ==
    \E o \in Obj :
        \/ Construct(t, o)
        \/ "call" \in Asks /\ \E e \in Once \cup Many : Call(t, o, e)
        \/ "destroy" \in Asks /\ Destroy(t, o, FALSE)
        \/ "later" \in Asks /\ Destroy(t, o, TRUE)
        \/ "ref" \in Asks /\ RefEvent(t, o)

Gc(t) ==
    \/ GcEnd(t)
    \/ \E i \in 1..Len(gcq) : GcStart(t, i) \/ GcDeliver(t, i)

Next ==
    \E t \in Thread :
        \/ Request(t) \/ Advance(t) \/ AppAcquire(t) \/ NotifyDone(t)
        \/ PoolTake(t) \/ Gc(t)
        \/ \E o \in Obj : FireTimer(t, o)
        \/ \E to \in State, rDO \in BOOLEAN : Return(t, to, rDO)

Spec == Init /\ [][Next]_vars

\* Scheduling: a thread in eventHandler() goes on, a mutex that is free again
\* and again is had at last; listeners' handlers and state functions return -
\* the contract of cooperative states - and not rDO forever; the pool has a
\* worker for its ready queue, and the reactor runs the gc and the timers.
Fairness ==
    /\ \A t \in Thread :
         /\ SF_vars(Advance(t) \/ AppAcquire(t) \/ NotifyDone(t) \/ GcEnd(t))
         /\ SF_vars(\E to \in State : Return(t, to, FALSE))
    /\ SF_vars(\E w \in Worker : PoolTake(w))
    /\ SF_vars(\E t \in Caller : \E i \in 1..Len(gcq) : GcStart(t, i))
    /\ SF_vars(\E t \in Caller, o \in Obj : FireTimer(t, o))

FairSpec == Spec /\ Fairness

-----------------------------------------------------------------------------
(* Properties.                                                             *)

Place == Thread \X (1..MaxDepth)
Fr(p) == call[p[1]][p[2]]

\* Every variable has its type.
TypeOK ==
    /\ state \in [Obj -> State]
    /\ que \in [Obj -> Seq(Event)]
    /\ occur \in [Obj -> SUBSET Once]
    /\ flags \in [Obj -> Word]
    /\ thrInfo \in [Obj -> Worker \cup {NoThread}]
    /\ born \in [Obj -> {"no", "ctor", "out"}]
    /\ call \in [Thread -> [1..MaxDepth -> Frame]]
    /\ dep \in [Thread -> 0..MaxDepth]
    /\ app \in [owner : Thread \cup {NoThread}, level : Int]
    /\ ready \in Seq(Obj)
    /\ gcq \in Seq([obj : Obj, ev : Event])
    /\ timer \in SUBSET Obj
    /\ told \in [Obj -> State]
    /\ asked \in SUBSET Obj
    /\ want \in SUBSET Obj

\* No two calls run the same object at once, on two threads or nested on one:
\* what state_lock is for (tinyState.cpp:930-948).
Runs(p, o) == Fr(p).obj = o /\ Fr(p).pc \in Locked
SingleRunner ==
    \A o \in Obj : \A p, q \in Place : Runs(p, o) /\ Runs(q, o) => p = q

\* An event in a queue has a call that runs the object and will take it: the
\* loop is not left between the last look at the queue and the release of
\* state_lock (tinyState.cpp:1027-1035), and a coalesced event is in the queue
\* exactly when its bit in onlyOneEvent_occur says so.
NoStrandedEvent ==
    \A o \in Obj :
        /\ que[o] # <<>> => \E p \in Place : Runs(p, o)
        /\ \A e \in Once :
             Cardinality({i \in 1..Len(que[o]) : que[o][i] = e})
               = IF e \in occur[o] THEN 1 ELSE 0

\* The app-mutex is held exactly as often as the frames that have taken it and
\* not given it back say, and by their thread: no level is left behind and no
\* unlock comes from another thread (tinyState.cpp:448-473, 994, 1033).
HasApp(f) ==
    \/ f.pc \in {"gc", "release"}
    \/ f.pc \in {"lock", "runS", "unlock"} /\ flags[f.obj]["mtx"]
AppBalance ==
    /\ app.level = Cardinality({p \in Place : HasApp(Fr(p))})
    /\ \A p \in Place : HasApp(Fr(p)) => p[1] = app.owner

\* A TS_STATE function runs under the app-mutex, so never beside another one;
\* a TS_THREAD function runs on a worker, in its outermost call, without it.
RunsWhereItShould ==
    /\ \A p \in Place : Fr(p).pc = "runS" => app.owner = p[1]
    /\ \A t \in Thread :
         At(t, "runT") => t \in Worker /\ dep[t] = 1 /\ app.owner # t

\* thrQueueing_flag is up exactly while the pool holds one claim to the object:
\* a do_ins not yet carried out, an entry of the ready queue, or a worker's
\* dispatch that has not entered (tinyState.cpp:936-937, 973, 986-989, 993).
Claims(o) ==
    Cardinality({i \in 1..Len(ready) : ready[i] = o})
    + Cardinality({p \in Place : Fr(p).obj = o /\ Fr(p).ins})
    + Cardinality({p \in Place :
                     Fr(p).obj = o /\ Fr(p).info /\ Fr(p).pc = "enter"})
OneClaim == \A o \in Obj : Claims(o) = IF flags[o]["thq"] THEN 1 ELSE 0

\* When no call has still to look at invoke_state_flag, the listeners have been
\* told of the state the object is in (tinyState.cpp:670-696, 1051).
NotifiedLast ==
    \A o \in Obj :
        (\A p \in Place :
            Fr(p).obj = o => Fr(p).pc \notin Locked \cup {"post", "tell"})
        => told[o] = state[o]

\* Each object behaves as SerialObject promises.
RunnerOf(o) ==
    IF \E p \in Place : Runs(p, o)
      THEN (CHOOSE p \in Place : Runs(p, o))[1] ELSE NoThread
Serial == INSTANCE SerialObject WITH
    inbox <- que, runner <- [o \in Obj |-> RunnerOf(o)],
    parked <- want, dead <- {o \in Obj : state[o] = Zom}
ServesSerially == Serial!Spec

\* Once destroy_flag or ref_destroy_flag is up, a state function is started
\* that sees it, unless the object is dead: the wake-up is not lost to a busy
\* object, the pool, the gc or the timer.
DestroyNoticed ==
    \A o \in Obj :
        (flags[o]["destroy"] \/ flags[o]["ref"])
            ~> (o \in asked \/ state[o] = Zom)

\* An object that asked the pool for a worker is run by one.
DemandServed == \A o \in Obj : (o \in want) ~> (o \notin want)
=============================================================================
