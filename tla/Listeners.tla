------------------------------ MODULE Listeners -----------------------------
(***************************************************************************)
(* listen(): registrations (stdEventHandle) between a source and a         *)
(* listener, notifications, and the end of either.                         *)
(*                                                                         *)
(* A registration is on a list at each of its ends, each under the mutex   *)
(* lm of that end.  Notifications go through a copy of the source's list,  *)
(* on any thread and with no mutex but the app-mutex of an outer call.     *)
(*                                                                         *)
(* TSE_STATE stands for every event type: each has a list of its own, and  *)
(* TSE_DESTROY's is told after it when an object ends (tinyState.cpp:691). *)
(***************************************************************************)
EXTENDS Integers, Sequences, FiniteSets, SequencesExt

CONSTANTS
    Object,     \* tinyStates
    Threaded,   \* those with TS_THREAD functions as well
    Thread,     \* threads that run state functions
    Roles,      \* what applications make of their objects
    MaxReg,     \* bound: registrations ever made
    MaxDepth,   \* bound: nested dispatches of a thread
    NoObj, NoThread

ASSUME ListenersAssumption ==
    /\ Threaded \subseteq Object
    /\ Roles \subseteq [Object -> [hears : SUBSET Object, on : SUBSET Thread, changes : BOOLEAN]]
    /\ NoObj \notin Object /\ NoThread \notin Thread
    /\ MaxReg \in Nat /\ MaxDepth \in Nat \ {0}

VARIABLES
    st,             \* _state: "live", "ending" (C_ZOM) or "zom" (ZOM)
    event_listener, \* each source's registrations
    handle_list,    \* each listener's registrations, last one first
    source,         \* the fields of the registrations, NoObj once cleared
    listener,
    lm,             \* who keeps an object's mutex while it calls another object
    mtx,            \* owner of the app-mutex
    call,           \* each thread's nested dispatches, innermost first
    made,           \* registrations made so far
    noticed,        \* objects with an event in their queue
    awaits,         \* the object whose end an object waits for
    role,           \* of each object: whom it may listen to, which threads call it, and
                    \* whether it changes: notifies, removes registrations or ends
    crashed         \* a handler was called on nobody

ends == <<event_listener, handle_list>>
fields == <<source, listener>>
vars == <<st, ends, fields, lm, mtx, call, made, noticed, awaits, role, crashed>>

Reg == 1..MaxReg

\* One dispatch of eventHandler(): where the thread is, for which object, which
\* registration with which ends it is working on, what its loop has still to
\* visit, whether the app-mutex goes with it, and whether it ends the object
\* (ZOM_TINYSTATE_LAST2).  It runs a function ("fn", and "done" on its way out),
\* listens ("add", "look"), removes registrations ("clean", then "hook", "src",
\* "lsn" for each), ends ("last", "sweep", "pop") or notifies ("tell", "call",
\* "told").
NewFrame(o, took) ==
    [pc |-> "fn", obj |-> o, reg |-> 0, src |-> NoObj, lsn |-> NoObj,
     todo |-> <<>>, took |-> took, last |-> FALSE]

Top(t) == call[t][1]
At(t, pc) == ~crashed /\ call[t] # <<>> /\ Top(t).pc = pc
Put(t, f) == call' = [call EXCEPT ![t] = <<f>> \o Tail(@)]
Leave(t) == call' = [call EXCEPT ![t] = Tail(@)]
LmFree(t, o) == o # NoObj => lm[o] \in {NoThread, t}

\* state_lock: o is in a dispatch that has not come to its notifications.
Running(o) ==
    \E t \in Thread : \E i \in 1..Len(call[t]) :
        call[t][i].obj = o /\ call[t][i].pc \notin {"tell", "call", "told"}

Init ==
    /\ st = [o \in Object |-> "live"]
    /\ event_listener = [o \in Object |-> <<>>]
    /\ handle_list = [o \in Object |-> <<>>]
    /\ source = [e \in Reg |-> NoObj] /\ listener = [e \in Reg |-> NoObj]
    /\ lm = [o \in Object |-> NoThread] /\ mtx = NoThread
    /\ call = [t \in Thread |-> <<>>] /\ made = 0
    /\ noticed = {} /\ awaits = [o \in Object |-> NoObj]
    /\ role \in Roles /\ crashed = FALSE

-----------------------------------------------------------------------------
(* Dispatch.                                                               *)

\* The app-mutex is recursive: only the outermost dispatch to take it gives it up.
Takes(t) == mtx \in {NoThread, t} /\ mtx' = t
GivesUp(f) == mtx' = IF f.took THEN NoThread ELSE mtx

\* A state function of o begins, on an idle thread or in a handler that a
\* notification of this thread has called.  If o waits for the end of another
\* object, the function looks at that object's state.
Run(t, o) ==
    /\ ~crashed
    /\ \/ call[t] = <<>> /\ t \in role[o].on
       \/ At(t, "told") /\ Top(t).lsn = o /\ Len(call[t]) < MaxDepth
    /\ st[o] = "live" /\ ~Running(o)
    /\ \E took \in BOOLEAN :
         /\ \/ Takes(t) /\ took = (mtx = NoThread)
            \/ o \in Threaded /\ call[t] = <<>> /\ ~took /\ UNCHANGED mtx
         /\ call' = [call EXCEPT ![t] = <<NewFrame(o, took)>> \o @]
    /\ noticed' = noticed \ {o}
    /\ awaits' = [awaits EXCEPT ![o] =
          IF @ # NoObj /\ st[@] # "live" THEN NoObj ELSE @]
    /\ UNCHANGED <<st, ends, fields, lm, made, role, crashed>>

\* The function returns and gives its locks back; then the listeners are told, if
\* the state has changed.
Return(t) ==
    /\ At(t, "fn") \/ At(t, "done")
    /\ GivesUp(Top(t))
    /\ \/ Leave(t)
       \/ /\ role[Top(t).obj].changes /\ LmFree(t, Top(t).obj)
          /\ Put(t, [Top(t) EXCEPT !.pc = "tell", !.took = FALSE,
                                   !.todo = event_listener[Top(t).obj]])
    /\ UNCHANGED <<st, ends, fields, lm, made, noticed, awaits, role, crashed>>

-----------------------------------------------------------------------------
(* s->listen(ifThis, ..).                                                  *)

\* add_listener() makes a registration and puts it on the source's list, whose
\* lm it keeps.
AddListener(t, s) ==
    LET e == made + 1 IN
      /\ made < MaxReg
      /\ made' = e
      /\ source' = [source EXCEPT ![e] = s]
      /\ listener' = [listener EXCEPT ![e] = Top(t).obj]
      /\ event_listener' = [event_listener EXCEPT ![s] = Append(@, e)]
      /\ lm' = [lm EXCEPT ![s] = t]
      /\ Put(t, [Top(t) EXCEPT !.pc = "add", !.src = s, !.reg = e])

\* Faulty variant: the list is not searched first.
ListenAgain(t, s) ==
    /\ At(t, "fn") /\ s \in role[Top(t).obj].hears \ {Top(t).obj} /\ LmFree(t, s)
    /\ AddListener(t, s)
    /\ UNCHANGED <<st, handle_list, mtx, noticed, awaits, role, crashed>>

\* A registration this listener has already is returned as it is, an end that is
\* ZOM gets none.
Listen(t, s) ==
    /\ At(t, "fn") /\ s \in role[Top(t).obj].hears \ {Top(t).obj} /\ LmFree(t, s)
    /\ IF \/ \E e \in ToSet(event_listener[s]) : listener[e] = Top(t).obj
          \/ "zom" \in {st[s], st[Top(t).obj]}
       THEN /\ Put(t, [Top(t) EXCEPT !.pc = "look", !.src = s])
            /\ UNCHANGED <<event_listener, fields, lm, made>>
       ELSE AddListener(t, s)
    /\ UNCHANGED <<st, handle_list, mtx, noticed, awaits, role, crashed>>

\* Faulty variant: the source's lm is not given back.
AddKeepsLm(t) ==
    /\ At(t, "add") /\ LmFree(t, Top(t).obj)
    /\ handle_list' = [handle_list EXCEPT ![Top(t).obj] = <<Top(t).reg>> \o @]
    /\ Put(t, [Top(t) EXCEPT !.pc = "look", !.reg = 0])
    /\ UNCHANGED <<st, event_listener, fields, lm, mtx, made, noticed, awaits, role, crashed>>

\* ins_handle_list() takes the listener's lm with the source's still held.
Add(t) ==
    /\ At(t, "add") /\ LmFree(t, Top(t).obj)
    /\ handle_list' = [handle_list EXCEPT ![Top(t).obj] = <<Top(t).reg>> \o @]
    /\ lm' = [lm EXCEPT ![Top(t).src] = NoThread]
    /\ Put(t, [Top(t) EXCEPT !.pc = "look", !.reg = 0])
    /\ UNCHANGED <<st, event_listener, fields, mtx, made, noticed, awaits, role, crashed>>

\* Having registered, the function looks at the source, and waits for its end if
\* that has not come (COOKBOOK.md, section 9).
Look(t) ==
    /\ At(t, "look")
    /\ awaits' = [awaits EXCEPT ![Top(t).obj] =
          IF st[Top(t).src] = "live" THEN Top(t).src ELSE @]
    /\ Put(t, [Top(t) EXCEPT !.pc = "done", !.src = NoObj])
    /\ UNCHANGED <<st, ends, fields, lm, mtx, made, noticed, role, crashed>>

-----------------------------------------------------------------------------
(* Removal.                                                                *)

\* clean_stdEventHandle() visits a copy of the list, remove_handle(thNULL) the
\* list itself, which it takes away.  The object no longer waits.
Clean(t) ==
    /\ At(t, "fn") /\ role[Top(t).obj].changes /\ LmFree(t, Top(t).obj)
    /\ LET o == Top(t).obj IN
         /\ Put(t, [Top(t) EXCEPT !.pc = "clean", !.todo = handle_list[o]])
         /\ \/ UNCHANGED handle_list
            \/ handle_list' = [handle_list EXCEPT ![o] = <<>>]
         /\ awaits' = [awaits EXCEPT ![o] = NoObj]
    /\ UNCHANGED <<st, event_listener, fields, lm, mtx, made, noticed, role, crashed>>

CleanNext(t) ==
    /\ At(t, "clean")
    /\ LET f == Top(t) IN
         Put(t, IF f.todo = <<>> THEN [f EXCEPT !.pc = "done"]
                ELSE [f EXCEPT !.pc = "hook", !.reg = Head(f.todo), !.todo = Tail(@)])
    /\ UNCHANGED <<st, ends, fields, lm, mtx, made, noticed, awaits, role, crashed>>

\* stdEventHandle::remove() clears the fields first, then takes the registration
\* off either list under the lm of that end.
Unhook(t) ==
    /\ At(t, "hook")
    /\ LET e == Top(t).reg IN
         /\ Put(t, [Top(t) EXCEPT !.pc = "src", !.src = source[e], !.lsn = listener[e]])
         /\ source' = [source EXCEPT ![e] = NoObj]
         /\ listener' = [listener EXCEPT ![e] = NoObj]
    /\ UNCHANGED <<st, ends, lm, mtx, made, noticed, awaits, role, crashed>>

RemoveListener(t) ==
    /\ At(t, "src") /\ LmFree(t, Top(t).src)
    /\ event_listener' = [o \in Object |->
          IF o = Top(t).src THEN RemoveFirst(event_listener[o], Top(t).reg)
                            ELSE event_listener[o]]
    /\ Put(t, [Top(t) EXCEPT !.pc = "lsn", !.src = NoObj])
    /\ UNCHANGED <<st, handle_list, fields, lm, mtx, made, noticed, awaits, role, crashed>>

\* Back to the loop that removes.
Removed(t) ==
    Put(t, [Top(t) EXCEPT !.pc = IF Top(t).last THEN "sweep" ELSE "clean",
                         !.reg = 0, !.lsn = NoObj])

\* Faulty variant: the listener keeps the registration.
RemoveHandleForgets(t) ==
    /\ At(t, "lsn") /\ Removed(t)
    /\ UNCHANGED <<st, ends, fields, lm, mtx, made, noticed, awaits, role, crashed>>

RemoveHandle(t) ==
    /\ At(t, "lsn") /\ LmFree(t, Top(t).lsn)
    /\ handle_list' = [o \in Object |->
          IF o = Top(t).lsn THEN RemoveFirst(handle_list[o], Top(t).reg) ELSE handle_list[o]]
    /\ Removed(t)
    /\ UNCHANGED <<st, event_listener, fields, lm, mtx, made, noticed, awaits, role, crashed>>

-----------------------------------------------------------------------------
(* Notifications.                                                          *)

\* invoke_listen() goes through its copy and passes over registrations that have
\* no listener any more.
Tell(t) ==
    /\ At(t, "tell")
    /\ LET f == Top(t) IN
         IF f.todo # <<>>
         THEN Put(t, IF listener[Head(f.todo)] = NoObj THEN [f EXCEPT !.todo = Tail(@)]
                     ELSE [f EXCEPT !.pc = "call"])
         ELSE IF f.last THEN Put(t, [f EXCEPT !.pc = "sweep"]) ELSE Leave(t)
    /\ UNCHANGED <<st, ends, fields, lm, mtx, made, noticed, awaits, role, crashed>>

\* The handler is called on what the field holds now.  A C_ZOM listener takes no
\* event.
CallHandler(t) ==
    /\ At(t, "call")
    /\ LET f == Top(t)
           l == listener[Head(f.todo)]
       IN  IF l = NoObj THEN crashed' = TRUE /\ UNCHANGED <<call, noticed>>
           ELSE /\ LmFree(t, l)
                /\ noticed' = IF st[l] = "live" THEN noticed \cup {l} ELSE noticed
                /\ Put(t, [f EXCEPT !.pc = "told", !.lsn = l, !.todo = Tail(@)])
                /\ UNCHANGED crashed
    /\ UNCHANGED <<st, ends, fields, lm, mtx, made, awaits, role>>

\* The listener has run, or is left with an event in its queue: it was busy, or
\* waits for a worker or the gc.
HandlerReturns(t) ==
    /\ At(t, "told")
    /\ Put(t, [Top(t) EXCEPT !.pc = "tell", !.lsn = NoObj])
    /\ UNCHANGED <<st, ends, fields, lm, mtx, made, noticed, awaits, role, crashed>>

-----------------------------------------------------------------------------
(* The end of an object, from ZOM_START to ZOM.                            *)

End(t) ==
    /\ At(t, "fn") /\ role[Top(t).obj].changes /\ Takes(t)
    /\ st' = [st EXCEPT ![Top(t).obj] = "ending"]
    /\ Put(t, [Top(t) EXCEPT !.pc = "last", !.last = TRUE,
                             !.took = @ \/ mtx = NoThread])
    /\ UNCHANGED <<ends, fields, lm, made, noticed, awaits, role, crashed>>

\* Faulty variant: the lists are swept with nobody told.
LastTellsNobody(t) ==
    /\ At(t, "last")
    /\ Put(t, [Top(t) EXCEPT !.pc = "tell"])
    /\ UNCHANGED <<st, ends, fields, lm, mtx, made, noticed, awaits, role, crashed>>

\* The listeners are told of it: ZOM_TINYSTATE_LAST2 tells those there are before
\* the lists are swept, the end of the dispatch those that came after.
TinyStateLast(t) ==
    /\ At(t, "last") /\ LmFree(t, Top(t).obj)
    /\ Put(t, [Top(t) EXCEPT !.pc = "tell", !.todo = event_listener[Top(t).obj]])
    /\ UNCHANGED <<st, ends, fields, lm, mtx, made, noticed, awaits, role, crashed>>

\* What is left of the lists is removed, own registrations first.  They are read
\* and written without lm: what another thread puts on a list in between is lost.
Sweep(t) ==
    /\ At(t, "sweep")
    /\ LET f == Top(t)
           own == handle_list[f.obj]
           others == event_listener[f.obj]
       IN  \/ /\ own # <<>>
              /\ Put(t, [f EXCEPT !.pc = "pop", !.reg = Head(own), !.lsn = f.obj,
                                  !.todo = Tail(own)])
              /\ UNCHANGED <<st, mtx>>
           \/ /\ own = <<>> /\ others # <<>>
              /\ Put(t, [f EXCEPT !.pc = "pop", !.reg = Head(others), !.src = f.obj,
                                  !.todo = Tail(others)])
              /\ UNCHANGED <<st, mtx>>
           \/ /\ own = <<>> /\ others = <<>>
              /\ st' = [st EXCEPT ![f.obj] = "zom"]
              /\ GivesUp(f)
              /\ Put(t, [f EXCEPT !.pc = "last", !.last = FALSE, !.took = FALSE])
    /\ UNCHANGED <<ends, fields, lm, made, noticed, awaits, role, crashed>>

Pop(t) ==
    /\ At(t, "pop")
    /\ LET f == Top(t) IN
         /\ handle_list' = [o \in Object |-> IF o = f.lsn THEN f.todo ELSE handle_list[o]]
         /\ event_listener' =
               [o \in Object |-> IF o = f.src THEN f.todo ELSE event_listener[o]]
         /\ Put(t, [f EXCEPT !.pc = "hook", !.todo = <<>>])
    /\ UNCHANGED <<st, fields, lm, mtx, made, noticed, awaits, role, crashed>>

-----------------------------------------------------------------------------
\* What a thread does without being asked again.
Work(t) ==
    \/ Return(t) \/ Add(t) \/ Look(t) \/ CleanNext(t) \/ Unhook(t)
    \/ RemoveListener(t) \/ RemoveHandle(t) \/ Tell(t) \/ CallHandler(t)
    \/ HandlerReturns(t) \/ TinyStateLast(t) \/ Sweep(t) \/ Pop(t)

Next ==
    \E t \in Thread :
        \/ Work(t) \/ Clean(t) \/ End(t)
        \/ \E o \in Object : Run(t, o) \/ Listen(t, o)

Spec == Init /\ [][Next]_vars

\* A thread in a function goes on; an object with an event in its queue is run
\* when it can be, again and again: by the thread that found it busy, by the pool
\* or the gc (EventHandler, DemandServed and DestroyNoticed).
FairSpec ==
    /\ Spec
    /\ \A t \in Thread : WF_vars(Work(t))
    /\ \A o \in Object : SF_vars(o \in noticed /\ \E t \in Thread : Run(t, o))

-----------------------------------------------------------------------------
(* Properties.                                                             *)

\* Registrations some dispatch is adding or removing.
InWork ==
    UNION {LET f == call[p[1]][p[2]] IN
             {f.reg} \cup (IF f.pc \in {"tell", "call", "told"} THEN {} ELSE ToSet(f.todo))
           : p \in {q \in Thread \X (1..MaxDepth) : q[2] <= Len(call[q[1]])}}

\* Both ends agree, although each has a list and a mutex of its own and either may
\* remove: a registration is on the list of each of its ends, or cleared and on no
\* list; and no listener is registered twice, so that none is told twice
\* (tinyState.cpp:1110-1276, stdEventHandle.cpp:35-46).
EndsAgree ==
    \A e \in 1..made \ InWork :
        LET Live == {o \in Object : st[o] = "live"}
            sources == {o \in Live : e \in ToSet(event_listener[o])}
            listeners == {o \in Live : e \in ToSet(handle_list[o])}
        IN  /\ source[e] = NoObj => sources = {} /\ listeners = {}
            /\ {source[e], listener[e]} \subseteq Live =>
                 /\ sources = {source[e]} /\ listeners = {listener[e]}
                 /\ \A d \in 1..made \ {e} :
                      <<source[d], listener[d]>> # <<source[e], listener[e]>>

\* t is in listen() and in a ring of such threads, of any length, or behind one: each
\* keeps the lm of its source, and another of them keeps the lm it wants.  One at
\* most of them can be in a TS_STATE function, for these hold the app-mutex.
Ringed(t) ==
    \E S \in SUBSET Thread :
        /\ t \in S
        /\ \A u \in S : At(u, "add") /\ lm[Top(u).obj] \in S \ {u}
        /\ Cardinality({Top(u).obj : u \in S} \ Threaded) <= 1

\* o, alive itself, still waits for an object that has gone.
WaitsForNobody(o) == st[o] = "live" /\ \E s \in Object : awaits[o] = s /\ st[s] = "zom"

\* An object that registered, looked and found the source alive hears of its end,
\* however the registration, the other ends and the sweep interleave
\* (COOKBOOK.md, section 9; tinyState.cpp:1439-1462).  Not if threads wait for each
\* other in listen() (Ringed), or if a handler is called on a listener that has just
\* been cleared (tinyState.cpp:1336-1338).
HearsTheEnd ==
    \A o \in Object :
        WaitsForNobody(o) ~> ~WaitsForNobody(o) \/ crashed \/ \E t \in Thread : Ringed(t)

\* listen() returns, or its thread is caught in a ring of threads that listen, all
\* but one of them in TS_THREAD functions: add_listener() takes the lm of the
\* listener with the source's still held (tinyState.cpp:1115, 1131, 1195).  So an
\* application that listens in TS_STATE functions alone is never held up.
ListenReturns ==
    \A t \in Thread : At(t, "add") ~> ~At(t, "add") \/ Ringed(t)
=============================================================================
