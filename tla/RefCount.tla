------------------------------ MODULE RefCount ------------------------------
(***************************************************************************)
(* stdObject: reference counts, and the gc thread that deletes what nobody *)
(* refers to.                                                              *)
(*                                                                         *)
(* The counts, and the lists of objects to delete (refList) or to call     *)
(* back (refEvent), are spread over buckets with a mutex each.  The        *)
(* buckets form a binary heap; who puts an object on a list announces it   *)
(* by setting a flag in the parent bucket, and so on up to the root, one   *)
(* mutex at a time, and stops at a flag that is set already.  The gc       *)
(* thread sleeps while the root is empty, takes lists and flags off a      *)
(* bucket at once and descends where a flag was set.                       *)
(*                                                                         *)
(* One action is what is done under one bucket's mutex.                    *)
(***************************************************************************)
EXTENDS Integers, Sequences, FiniteSets

CONSTANTS
    Object,     \* stdObjects
    Thread,     \* threads of the program, each with at most one handle per object
    Member,     \* pairs <<o, p>>: o may hold a handle of p
    Armed,      \* objects made with nRefEvent(0), the tinyState interfaces
    Buckets,    \* stdObject_REF_MUTEX_NUM
    Home        \* doID() of each object

ASSUME RefCountAssumption ==
    /\ IsFiniteSet(Object) /\ IsFiniteSet(Thread)
    /\ Thread \cap {"gc", "main"} = {}
    /\ Member \subseteq Object \X Object
    /\ Armed \subseteq Object
    /\ Buckets \in Nat \ {0}
    /\ Home \in [Object -> 0..(Buckets - 1)]

VARIABLES
    ref,            \* reference counts; -1 once deletion has begun
    refEvent_num,   \* 0 while the watch for the last release is armed, else -1
    refList,        \* each bucket's objects to delete, last in first out
    refEvents,      \* refEventHead .. refEventTail
    refFlags,       \* each bucket's sides (0 left, 1 right) with work below
    finish_flag,
    held,           \* the handles of each thread
    member,         \* the handles of each object's members
    climb,          \* the bucket whose work an actor has still to announce
    gcPc,           \* gc_thread: "check", "idle", "start", "sweep" or "gone"
    stack,          \* the recursion of gc(id), innermost first
    called,         \* refEvent() of the first object of the top frame has run
    shed,           \* handles the running destructor has still to release
    mainPc,         \* main thread: "run", "stable" (wait_stable), "finish", "done"
    asleep          \* sleepers on refCond

lists == <<ref, refEvent_num, refList, refEvents>>
handles == <<held, member, shed>>
gcVars == <<gcPc, stack, called>>
waits == <<finish_flag, mainPc>>
vars == <<lists, refFlags, handles, climb, gcVars, waits, asleep>>

Gc == "gc"
Main == "main"
Actor == Thread \cup {Gc}
None == -1
Bucket == 0..(Buckets - 1)
Parent(b) == (b - 1) \div 2
Side(b) == (b - 1) % 2
Child(b, side) == 2 * b + 1 + side
Frame == [id : Bucket, del : Seq(Object), ev : Seq(Object), flags : SUBSET {0, 1}]

RootEmpty == refList[0] = <<>> /\ refFlags[0] = {} /\ refEvents[0] = <<>>
InSeq(s) == {s[i] : i \in 1..Len(s)}

\* Objects whose refEvent() is to come or running: the release that asked for
\* it is not counted down yet.
OnEvents == (UNION {InSeq(refEvents[b]) : b \in Bucket})
              \cup (UNION {InSeq(stack[i].ev) : i \in 1..Len(stack)})

\* The constructors have run; each object is in the hands of one thread.
Init ==
    /\ ref = [o \in Object |-> 1]
    /\ refEvent_num = [o \in Object |-> IF o \in Armed THEN 0 ELSE -1]
    /\ refList = [b \in Bucket |-> <<>>]
    /\ refEvents = [b \in Bucket |-> <<>>]
    /\ refFlags = [b \in Bucket |-> {}]
    /\ finish_flag = 0
    /\ \E maker \in [Object -> Thread] :
          held = [t \in Thread |-> {o \in Object : maker[o] = t}]
    /\ member = [o \in Object |-> {}]
    /\ climb = [a \in Actor |-> None]
    /\ gcPc = "check" /\ stack = <<>> /\ called = FALSE /\ shed = {}
    /\ mainPc = "run" /\ asleep = {}

-----------------------------------------------------------------------------
(* addref() and relref().                                                  *)

AddRef(o) == ref' = [ref EXCEPT ![o] = IF @ = -1 THEN -1 ELSE @ + 1]

\* Something was put into bucket b: at the root the gc thread is woken, and
\* whoever waits for stability with it; elsewhere the parents are told.
PutInto(b, a) ==
    IF b = 0 THEN asleep' = {} /\ UNCHANGED climb
             ELSE climb' = [climb EXCEPT ![a] = b] /\ UNCHANGED asleep

\* Faulty variant: the release that asks for the callback is counted at once.
RelRefCountsEarly(o, a) ==
    /\ climb[a] = None
    /\ IF ref[o] = -1 THEN UNCHANGED <<lists, climb, asleep>>
       ELSE IF ref[o] <= refEvent_num[o] + 1
       THEN /\ refEvent_num' = [refEvent_num EXCEPT ![o] = -1]
            /\ refEvents' = [refEvents EXCEPT ![Home[o]] = Append(@, o)]
            /\ ref' = [ref EXCEPT ![o] = @ - 1]
            /\ PutInto(Home[o], a)
            /\ UNCHANGED refList
       ELSE /\ ref' = [ref EXCEPT ![o] = @ - 1]
            /\ IF ref[o] > 1 THEN UNCHANGED <<refList, climb, asleep>>
               ELSE /\ refList' = [refList EXCEPT ![Home[o]] = <<o>> \o @]
                    /\ PutInto(Home[o], a)
            /\ UNCHANGED <<refEvent_num, refEvents>>

\* The last release of a watched object is counted only after refEvent(); any
\* other takes effect at once and, when it is the last, condemns the object.
RelRef(o, a) ==
    /\ climb[a] = None
    /\ IF ref[o] = -1 THEN UNCHANGED <<lists, climb, asleep>>
       ELSE IF ref[o] <= refEvent_num[o] + 1
       THEN /\ refEvent_num' = [refEvent_num EXCEPT ![o] = -1]
            /\ refEvents' = [refEvents EXCEPT ![Home[o]] = Append(@, o)]
            /\ PutInto(Home[o], a)
            /\ UNCHANGED <<ref, refList>>
       ELSE /\ ref' = [ref EXCEPT ![o] = @ - 1]
            /\ IF ref[o] > 1 THEN UNCHANGED <<refList, climb, asleep>>
               ELSE /\ refList' = [refList EXCEPT ![Home[o]] = <<o>> \o @]
                    /\ PutInto(Home[o], a)
            /\ UNCHANGED <<refEvent_num, refEvents>>

\* Faulty variant: the way up ends one level too early.
AnnounceStopsShort(a) ==
    /\ climb[a] # None
    /\ LET up == Parent(climb[a]) IN
         /\ refFlags' = [refFlags EXCEPT ![up] = @ \cup {Side(climb[a])}]
         /\ climb' = [climb EXCEPT ![a] = None]
         /\ IF up = 0 THEN asleep' = {} ELSE UNCHANGED asleep
    /\ UNCHANGED <<lists, handles, gcVars, waits>>

\* One turn of relref()'s way to the root.
Announce(a) ==
    /\ climb[a] # None
    /\ LET up == Parent(climb[a]) IN
         \/ /\ Side(climb[a]) \in refFlags[up]
            /\ climb' = [climb EXCEPT ![a] = None]
            /\ UNCHANGED <<refFlags, asleep>>
         \/ /\ Side(climb[a]) \notin refFlags[up]
            /\ refFlags' = [refFlags EXCEPT ![up] = @ \cup {Side(climb[a])}]
            /\ climb' = [climb EXCEPT ![a] = IF up = 0 THEN None ELSE up]
            /\ IF up = 0 THEN asleep' = {} ELSE UNCHANGED asleep
    /\ UNCHANGED <<lists, handles, gcVars, waits>>

-----------------------------------------------------------------------------
(* What programs do with handles (sPtr).                                   *)

Acquire(t, o) ==
    /\ climb[t] = None
    /\ o \notin held[t]
    /\ AddRef(o)
    /\ held' = [held EXCEPT ![t] = @ \cup {o}]
    /\ UNCHANGED <<refEvent_num, refList, refEvents, refFlags, member, shed,
                   climb, gcVars, waits, asleep>>

\* t copies a handle of another thread, or of a member of an object it holds.
Copy(t, o) ==
    /\ \/ \E u \in Thread \ {t} : o \in held[u]
       \/ \E p \in held[t] : o \in member[p]
    /\ Acquire(t, o)

\* The object itself makes a handle (ifThis): its state functions may run, on
\* any thread, as long as the release that asks for refEvent() is not counted.
Mint(t, o) == o \in OnEvents /\ Acquire(t, o)

Store(t, o, p) ==
    /\ climb[t] = None
    /\ <<o, p>> \in Member /\ {o, p} \subseteq held[t] /\ p \notin member[o]
    /\ AddRef(p)
    /\ member' = [member EXCEPT ![o] = @ \cup {p}]
    /\ UNCHANGED <<refEvent_num, refList, refEvents, refFlags, held, shed,
                   climb, gcVars, waits, asleep>>

Drop(t, o) ==
    /\ o \in held[t]
    /\ held' = [held EXCEPT ![t] = @ \ {o}]
    /\ RelRef(o, t)
    /\ UNCHANGED <<refFlags, member, shed, gcVars, waits>>

Clear(t, o, p) ==
    /\ o \in held[t] /\ p \in member[o]
    /\ member' = [member EXCEPT ![o] = @ \ {p}]
    /\ RelRef(p, t)
    /\ UNCHANGED <<refFlags, held, shed, gcVars, waits>>

\* ZOM_TINYSTATE_LAST2 takes the watch off: _nRefEvent(-1).
Disarm(t, o) ==
    /\ climb[t] = None
    /\ o \in held[t] /\ refEvent_num[o] = 0
    /\ refEvent_num' = [refEvent_num EXCEPT ![o] = -1]
    /\ UNCHANGED <<ref, refList, refEvents, refFlags, handles, climb, gcVars,
                   waits, asleep>>

-----------------------------------------------------------------------------
(* The gc thread.                                                          *)

\* The lists and flags of a bucket, taken off it for gc(b).
Taken(b) == [id |-> b, del |-> refList[b], ev |-> refEvents[b], flags |-> refFlags[b]]
TakeOff(b) ==
    /\ refList' = [refList EXCEPT ![b] = <<>>]
    /\ refEvents' = [refEvents EXCEPT ![b] = <<>>]
    /\ refFlags' = [refFlags EXCEPT ![b] = {}]

\* With nothing to do the thread leaves, if asked to, or sleeps.
Rest(others) ==
    IF finish_flag = 1
      THEN finish_flag' = 2 /\ gcPc' = "gone" /\ asleep' = others \ {Main}
      ELSE gcPc' = "idle" /\ asleep' = others \cup {Gc} /\ UNCHANGED finish_flag

\* The head of gc_thread's loop: who waits for stability is woken.
GcCheck ==
    /\ gcPc = "check"
    /\ IF RootEmpty THEN Rest({})
                    ELSE gcPc' = "start" /\ UNCHANGED <<finish_flag, asleep>>
    /\ UNCHANGED <<lists, refFlags, handles, climb, stack, called, mainPc>>

GcWake ==
    /\ gcPc = "idle" /\ Gc \notin asleep
    /\ IF RootEmpty THEN Rest(asleep)
                    ELSE gcPc' = "start" /\ UNCHANGED <<finish_flag, asleep>>
    /\ UNCHANGED <<lists, refFlags, handles, climb, stack, called, mainPc>>

GcStart ==
    /\ gcPc = "start"
    /\ gcPc' = "sweep"
    /\ stack' = <<Taken(0)>>
    /\ TakeOff(0)
    /\ UNCHANGED <<ref, refEvent_num, handles, climb, called, waits, asleep>>

Sweeping == gcPc = "sweep" /\ climb[Gc] = None /\ shed = {}
Top == Head(stack)

\* `delete obj`: no count is kept any more, and the destructor begins.
GcDelete ==
    /\ Sweeping /\ Top.del # <<>>
    /\ LET o == Head(Top.del) IN
         /\ ref' = [ref EXCEPT ![o] = -1]
         /\ shed' = member[o]
         /\ member' = [member EXCEPT ![o] = {}]
    /\ stack' = [stack EXCEPT ![1].del = Tail(@)]
    /\ UNCHANGED <<refEvent_num, refList, refEvents, refFlags, held, climb, gcPc,
                   called, waits, asleep>>

\* It releases a member.
GcShed(o) ==
    /\ o \in shed
    /\ shed' = shed \ {o}
    /\ RelRef(o, Gc)
    /\ UNCHANGED <<refFlags, held, member, gcVars, waits>>

GcCallback ==
    /\ Sweeping /\ Top.del = <<>> /\ Top.ev # <<>> /\ ~called
    /\ called' = TRUE
    /\ UNCHANGED <<lists, refFlags, handles, climb, gcPc, stack, waits, asleep>>

\* What refEvent() started drops a member of the object.
GcTeardown(o) ==
    /\ Sweeping /\ called /\ o \in member[Head(Top.ev)]
    /\ member' = [member EXCEPT ![Head(Top.ev)] = @ \ {o}]
    /\ RelRef(o, Gc)
    /\ UNCHANGED <<refFlags, held, shed, gcVars, waits>>

GcCallbackDone ==
    /\ Sweeping /\ called
    /\ called' = FALSE
    /\ stack' = [stack EXCEPT ![1].ev = Tail(@)]
    /\ RelRef(Head(Top.ev), Gc)
    /\ UNCHANGED <<refFlags, handles, gcPc, waits>>

Swept == Sweeping /\ Top.del = <<>> /\ Top.ev = <<>>

\* Faulty variant: the right child is visited where the left one has work.
GcDescendAside ==
    /\ Swept /\ Top.flags # {}
    /\ LET side == IF 0 \in Top.flags THEN 0 ELSE 1
           b == Child(Top.id, 1 - side)
       IN  /\ stack' = <<Taken(b)>> \o [stack EXCEPT ![1].flags = @ \ {side}]
           /\ TakeOff(b)
    /\ UNCHANGED <<ref, refEvent_num, handles, climb, gcPc, called, waits, asleep>>

GcDescend ==
    /\ Swept /\ Top.flags # {}
    /\ LET side == IF 0 \in Top.flags THEN 0 ELSE 1
           b == Child(Top.id, side)
       IN  /\ stack' = <<Taken(b)>> \o [stack EXCEPT ![1].flags = @ \ {side}]
           /\ TakeOff(b)
    /\ UNCHANGED <<ref, refEvent_num, handles, climb, gcPc, called, waits, asleep>>

GcReturn ==
    /\ Swept /\ Top.flags = {}
    /\ stack' = Tail(stack)
    /\ gcPc' = IF Len(stack) = 1 THEN "check" ELSE "sweep"
    /\ UNCHANGED <<lists, refFlags, handles, climb, called, waits, asleep>>

-----------------------------------------------------------------------------
(* The main thread: wait_stable() and finish().                            *)

WaitStable ==
    /\ mainPc = "run" /\ ~RootEmpty
    /\ mainPc' = "stable" /\ asleep' = asleep \cup {Main}
    /\ UNCHANGED <<lists, refFlags, handles, climb, gcVars, finish_flag>>

WaitStableWake ==
    /\ mainPc = "stable" /\ Main \notin asleep
    /\ IF RootEmpty THEN mainPc' = "run" /\ UNCHANGED asleep
                    ELSE asleep' = asleep \cup {Main} /\ UNCHANGED mainPc
    /\ UNCHANGED <<lists, refFlags, handles, climb, gcVars, finish_flag>>

\* Faulty variant: the gc thread is not woken.
FinishQuietly ==
    /\ mainPc = "run"
    /\ finish_flag' = 1 /\ mainPc' = "finish" /\ asleep' = asleep \cup {Main}
    /\ UNCHANGED <<lists, refFlags, handles, climb, gcVars>>

\* finish() asks the gc thread to leave and sleeps until it has.
Finish ==
    /\ mainPc = "run"
    /\ finish_flag' = 1 /\ mainPc' = "finish" /\ asleep' = {Main}
    /\ UNCHANGED <<lists, refFlags, handles, climb, gcVars>>

FinishWake ==
    /\ mainPc = "finish" /\ Main \notin asleep
    /\ IF finish_flag = 1 THEN asleep' = asleep \cup {Main} /\ UNCHANGED mainPc
                          ELSE mainPc' = "done" /\ UNCHANGED asleep
    /\ UNCHANGED <<lists, refFlags, handles, climb, gcVars, finish_flag>>

-----------------------------------------------------------------------------
GcStep ==
    \/ GcCheck \/ GcWake \/ GcStart
    \/ GcDelete \/ GcCallback \/ GcCallbackDone \/ GcDescend \/ GcReturn
    \/ \E o \in Object : GcShed(o) \/ GcTeardown(o)

MainWakes == WaitStableWake \/ FinishWake

Next ==
    \/ \E t \in Thread, o \in Object :
          Copy(t, o) \/ Mint(t, o) \/ Drop(t, o) \/ Disarm(t, o)
    \/ \E t \in Thread, o, p \in Object : Store(t, o, p) \/ Clear(t, o, p)
    \/ \E a \in Actor : Announce(a)
    \/ GcStep
    \/ WaitStable \/ Finish \/ MainWakes

Spec == Init /\ [][Next]_vars

\* Threads go on inside relref(), the gc thread and a woken sleeper run, and
\* refEvent() returns.  Nothing else is assumed of programs.
Fairness ==
    /\ \A a \in Actor : WF_vars(Announce(a))
    /\ WF_vars(GcStep) /\ WF_vars(GcCallbackDone)
    /\ WF_vars(MainWakes)

FairSpec == Spec /\ Fairness

-----------------------------------------------------------------------------
(* Properties.                                                             *)

\* Every variable has its type.
TypeOK ==
    /\ ref \in [Object -> Nat \cup {-1}]
    /\ refEvent_num \in [Object -> {0, -1}]
    /\ refList \in [Bucket -> Seq(Object)]
    /\ refEvents \in [Bucket -> Seq(Object)]
    /\ refFlags \in [Bucket -> SUBSET {0, 1}]
    /\ finish_flag \in {0, 1, 2}
    /\ held \in [Thread -> SUBSET Object]
    /\ member \in [Object -> SUBSET Object]
    /\ climb \in [Actor -> {None} \cup (Bucket \ {0})]
    /\ gcPc \in {"check", "idle", "start", "sweep", "gone"}
    /\ stack \in Seq(Frame)
    /\ called \in BOOLEAN
    /\ shed \in SUBSET Object
    /\ mainPc \in {"run", "stable", "finish", "done"}
    /\ asleep \in SUBSET {Gc, Main}

\* Objects condemned but not yet deleted, on a list or in the gc thread's hands.
OnDelete == (UNION {InSeq(refList[b]) : b \in Bucket})
              \cup (UNION {InSeq(stack[i].del) : i \in 1..Len(stack)})

Handles(o) ==
    Cardinality({t \in Thread : o \in held[t]})
      + Cardinality({p \in Object : o \in member[p]})
      + (IF o \in shed THEN 1 ELSE 0)

\* A count is the number of handles, and one for the release that waits for
\* refEvent(); what is condemned or deleted has none.  So no handle ever points
\* to a deleted object, relref() and gc() never panic, and a handle made while
\* the callback was pending keeps the object (stdObject.cpp:88-107, 211-227).
CountsHandles ==
    \A o \in Object :
       /\ o \in OnEvents => o \notin OnDelete /\ ref[o] > 0
       /\ o \in OnDelete <=> ref[o] = 0
       /\ ref[o] = -1 => Handles(o) = 0
       /\ ref[o] # -1 => ref[o] = Handles(o) + (IF o \in OnEvents THEN 1 ELSE 0)

\* A bucket below the root that holds work is on somebody's way: its flag is
\* set in the parent, or an actor has still to set it, or the gc thread has taken
\* the flag and not yet come.  The root is on the way of a thread that is
\* awake.  Neither the early return at a set flag nor the clearing from the top
\* loses an object (stdObject.cpp:117-130, 195-229, 237-258).
HasWork(b) == refList[b] # <<>> \/ refEvents[b] # <<>> \/ refFlags[b] # {}
Coming(b) == \E i \in 1..Len(stack) :
                stack[i].id = Parent(b) /\ Side(b) \in stack[i].flags
WorkIsKnown ==
    \A b \in Bucket : HasWork(b) =>
       IF b = 0 THEN gcPc = "gone" \/ Gc \notin asleep
       ELSE \/ Side(b) \in refFlags[Parent(b)]
            \/ \E a \in Actor : climb[a] = b
            \/ Coming(b)

\* An object without handles is deleted, unless one is made in time or the gc
\* thread has been told to leave before it knew.
Reclaimed ==
    \A o \in Object :
       Handles(o) = 0 ~> ref[o] = -1 \/ Handles(o) > 0 \/ gcPc = "gone"

\* wait_stable() and finish() return: the two sleepers on refCond never wait for
\* each other (stdObject.cpp:109-115, 172-191).
SleepersReturn == mainPc \in {"stable", "finish"} ~> mainPc \in {"run", "done"}
=============================================================================
