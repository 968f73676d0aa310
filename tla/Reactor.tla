------------------------------ MODULE Reactor ------------------------------
(***************************************************************************)
(* fwIO, the reactor: tinyStates register to be told when a descriptor can *)
(* be read or written or when a time has passed, from any thread and under *)
(* mu; loop() sleeps in select() without mu and is woken through a pipe to *)
(* itself, which is written only while wait_flag is 0.                     *)
(*                                                                         *)
(* A channel is a descriptor together with "read" or "write".  Exceptional *)
(* conditions, the closed descriptors that select() refuses (EBADF) and    *)
(* announce() are left out, and so are the pins of addRefio(obj).          *)
(***************************************************************************)
EXTENDS Integers, Sequences, FiniteSets

CONSTANTS
    Obj,        \* tinyStates
    Channel,    \* pairs of a direction and a descriptor
    MaxTime,    \* bound: the longest wait(), in units of Tick
    MaxReg,     \* bound: registrations on a channel
    MaxRefio    \* bound: keep-alives taken at a time

ASSUME ReactorAssumption ==
    /\ IsFiniteSet(Obj) /\ IsFiniteSet(Channel)
    /\ MaxTime \in Nat /\ MaxReg \in Nat /\ MaxRefio \in Nat

VARIABLES
    objs,       \* read_objs, write_objs: of each channel, newest first
    interval_objs,  \* pairs of an object and the time that is left
    refio,
    wait_flag,
    pipe,       \* the pipe holds a byte
    ready,      \* channels that select() finds ready
    zombie,     \* objects in a ZOM state
    is_stable,  \* the gc thread has nothing on its lists
    pc,         \* of loop(): "prepare", "select", "collect", "deliver", "stable"
                \* or "out"
    sets,       \* the channels in the fd_sets given to select()
    timeout,    \* time left in select(), or None
    result      \* the objects to be told

calls == <<objs, interval_objs, refio>>
wakes == <<wait_flag, pipe>>
world == <<ready, zombie, is_stable>>
loopVars == <<pc, sets, timeout, result>>
vars == <<calls, wakes, world, loopVars>>

None == -1
Time == 0..MaxTime
Empty == \A ch \in Channel : objs[ch] = <<>>

\* What is left of s when the objects in gone are taken off it, in the same order.
Without(s, gone) ==
    LET left == {i \in 1..Len(s) : s[i] \notin gone}
        count(i) == Cardinality({j \in left : j <= i})
    IN  [n \in 1..Cardinality(left) |-> s[CHOOSE i \in left : count(i) = n]]

Init ==
    /\ objs = [ch \in Channel |-> <<>>] /\ interval_objs = {} /\ refio = 0
    /\ wait_flag = 1 /\ pipe = FALSE
    /\ ready = {} /\ zombie = {} /\ is_stable = TRUE
    /\ pc = "prepare" /\ sets = {} /\ timeout = None /\ result = {}

-----------------------------------------------------------------------------
(* What any thread may do, the loop's own while it is not in select().     *)
(* Each is one section under mu.                                           *)

writePipe ==
    /\ wait_flag' = 1
    /\ pipe' = (pipe \/ wait_flag = 0)

\* read(), write()
Register(o, ch) ==
    /\ o \notin zombie /\ Len(objs[ch]) < MaxReg
    /\ objs' = [objs EXCEPT ![ch] = <<o>> \o @]
    /\ writePipe
    /\ UNCHANGED <<interval_objs, refio, world, loopVars>>

\* Faulty variant: a time shorter than the loop's is not told.
WaitQuiet(o, t) ==
    /\ o \notin zombie /\ <<o, t>> \notin interval_objs
    /\ interval_objs' = interval_objs \cup {<<o, t>>}
    /\ UNCHANGED <<objs, refio, wakes, world, loopVars>>

\* wait(); bound: an object does not wait twice for the same time.
Wait(o, t) ==
    /\ o \notin zombie /\ <<o, t>> \notin interval_objs
    /\ interval_objs' = interval_objs \cup {<<o, t>>}
    /\ writePipe
    /\ UNCHANGED <<objs, refio, world, loopVars>>

\* detach(o, flags): FWTR_ALL, or FWTR_INTERVAL as an sTimer does.
Detach(o, all) ==
    /\ objs' = [ch \in Channel |->
                  IF all THEN Without(objs[ch], {o}) ELSE objs[ch]]
    /\ interval_objs' = {w \in interval_objs : w[1] # o}
    /\ writePipe
    /\ UNCHANGED <<refio, world, loopVars>>

addRefio ==
    /\ refio < MaxRefio
    /\ refio' = refio + 1
    /\ UNCHANGED <<objs, interval_objs, wakes, world, loopVars>>

\* Faulty variant: the loop is not told.
delRefioQuiet ==
    /\ refio' = (IF refio > 0 THEN refio - 1 ELSE 0)
    /\ UNCHANGED <<objs, interval_objs, wakes, world, loopVars>>

\* Faulty variant: a release too many is counted.
delRefioBelow ==
    /\ refio' = refio - 1
    /\ writePipe
    /\ UNCHANGED <<objs, interval_objs, world, loopVars>>

\* A release too many is clamped.
delRefio ==
    /\ refio' = (IF refio > 0 THEN refio - 1 ELSE 0)
    /\ writePipe
    /\ UNCHANGED <<objs, interval_objs, world, loopVars>>

\* A turn of the loops of abort(fd): a registration is taken away, and its object is
\* told.  Nothing is written to the pipe; but abort() is called when a descriptor is
\* finished, in or on the way to a state that the pool runs, and until that is done
\* the pool keeps the loop.
abort(ch) ==
    /\ refio > 0 /\ objs[ch] # <<>>
    /\ objs' = [objs EXCEPT ![ch] = Tail(@)]
    /\ UNCHANGED <<interval_objs, refio, wakes, world, loopVars>>

-----------------------------------------------------------------------------
(* loop()                                                                  *)

\* filter_zom takes every zombie off the channels, filter_zom2 only those that
\* come before every live object.
Living == [ch \in Channel |-> Without(objs[ch], zombie)]
Awaited == {w \in interval_objs : w[1] \notin zombie \/
               \E v \in interval_objs : v[1] \notin zombie /\ v[2] < w[2]}

Earliest(ws) == IF ws = {} THEN None
                ELSE CHOOSE t \in Time : /\ \E w \in ws : w[2] = t
                                         /\ \A w \in ws : t <= w[2]

\* Faulty variant: the threads are not told that the loop is going to sleep.
LoopPrepareSilent ==
    /\ pc = "prepare"
    /\ objs' = Living /\ interval_objs' = Awaited
    /\ sets' = {ch \in Channel : Living[ch] # <<>>}
    /\ timeout' = Earliest(Awaited)
    /\ IF sets' = {} /\ Awaited = {} /\ refio = 0
       THEN pc' = IF is_stable THEN "out" ELSE "stable"
       ELSE pc' = "select"
    /\ UNCHANGED <<refio, wait_flag, pipe, world, result>>

\* The first section under mu: the zombies go, and what is left is what to sleep
\* for.  The loop returns when there is nothing and the gc thread is idle.
LoopPrepare ==
    /\ pc = "prepare"
    /\ objs' = Living /\ interval_objs' = Awaited
    /\ sets' = {ch \in Channel : Living[ch] # <<>>}
    /\ timeout' = Earliest(Awaited)
    /\ IF sets' = {} /\ Awaited = {} /\ refio = 0
       THEN pc' = IF is_stable THEN "out" ELSE "stable"
       ELSE pc' = "select"
    /\ wait_flag' = IF pc' = "out" THEN wait_flag ELSE 0
    /\ UNCHANGED <<refio, pipe, world, result>>

\* wait_stable(), without mu
LoopStable ==
    /\ pc = "stable" /\ is_stable
    /\ pc' = "prepare"
    /\ UNCHANGED <<calls, wakes, world, sets, timeout, result>>

\* select() returns: sets becomes what it found.
Selectable == pipe \/ timeout = 0 \/ sets \cap ready # {}
Select ==
    /\ pc = "select" /\ Selectable
    /\ pc' = "collect" /\ sets' = sets \cap ready /\ timeout' = None
    /\ UNCHANGED <<calls, wakes, world, result>>

\* EINTR: a signal came before there was anything to report.
Interrupted ==
    /\ pc = "select" /\ ~Selectable
    /\ pc' = "prepare" /\ sets' = {} /\ timeout' = None
    /\ UNCHANGED <<calls, wakes, world, result>>

Due == {w \in interval_objs : w[2] = 0}
Found == {ch \in sets : objs[ch] # <<>>}

\* Faulty variant: what is ready goes, but only what was waiting for time is told.
LoopCollectEither ==
    /\ pc = "collect"
    /\ wait_flag' = 1 /\ pipe' = FALSE
    /\ result' = IF Due = {} THEN {Head(objs[ch]) : ch \in Found} ELSE {w[1] : w \in Due}
    /\ objs' = [ch \in Channel |-> IF ch \in sets THEN <<>> ELSE objs[ch]]
    /\ interval_objs' = interval_objs \ Due
    /\ pc' = "deliver" /\ sets' = {}
    /\ UNCHANGED <<refio, world, timeout>>

\* The second section under mu.  Of the registrations on a channel that is ready
\* the first is answered, and the others are dropped.
LoopCollect ==
    /\ pc = "collect"
    /\ wait_flag' = 1 /\ pipe' = FALSE
    /\ result' = {Head(objs[ch]) : ch \in Found} \cup {w[1] : w \in Due}
    /\ objs' = [ch \in Channel |-> IF ch \in sets THEN <<>> ELSE objs[ch]]
    /\ interval_objs' = interval_objs \ Due
    /\ pc' = "deliver" /\ sets' = {}
    /\ UNCHANGED <<refio, world, timeout>>

\* eventHandler() of each object.
LoopDeliver ==
    /\ pc = "deliver"
    /\ result' = {} /\ pc' = "prepare"
    /\ UNCHANGED <<calls, wakes, world, sets, timeout>>

\* The application calls loop() again; wait_flag is stored without mu.
LoopEnter ==
    /\ pc = "out"
    /\ pc' = "prepare" /\ wait_flag' = 1
    /\ UNCHANGED <<calls, pipe, world, sets, timeout, result>>

-----------------------------------------------------------------------------
(* The outside, and the specification.                                     *)

\* A channel becomes ready, or somebody takes what made it so.
Change(ch) ==
    /\ ready' = IF ch \in ready THEN ready \ {ch} ELSE ready \cup {ch}
    /\ UNCHANGED <<calls, wakes, zombie, is_stable, loopVars>>

\* An object ends; its registrations stay until the loop looks at them.
Die(o) ==
    /\ o \notin zombie
    /\ zombie' = zombie \cup {o}
    /\ UNCHANGED <<calls, wakes, ready, is_stable, loopVars>>

GcStarts ==
    /\ is_stable /\ is_stable' = FALSE
    /\ UNCHANGED <<calls, wakes, ready, zombie, loopVars>>
GcRests ==
    /\ ~is_stable /\ is_stable' = TRUE
    /\ UNCHANGED <<calls, wakes, ready, zombie, loopVars>>

Sooner(t) == IF t > 0 THEN t - 1 ELSE t
Tick ==
    /\ timeout > 0 \/ \E w \in interval_objs : w[2] > 0
    /\ interval_objs' = {<<w[1], Sooner(w[2])>> : w \in interval_objs}
    /\ timeout' = Sooner(timeout)
    /\ UNCHANGED <<objs, refio, wakes, world, pc, sets, result>>

Loop == LoopPrepare \/ Select \/ LoopCollect \/ LoopDeliver

Next ==
    \/ \E o \in Obj, ch \in Channel : Register(o, ch)
    \/ \E o \in Obj, t \in Time : Wait(o, t)
    \/ \E o \in Obj, all \in BOOLEAN : Detach(o, all)
    \/ addRefio \/ delRefio \/ \E ch \in Channel : abort(ch)
    \/ Loop \/ LoopStable \/ Interrupted \/ LoopEnter
    \/ \E ch \in Channel : Change(ch)
    \/ \E o \in Obj : Die(o)
    \/ GcStarts \/ GcRests \/ Tick

Spec == Init /\ [][Next]_vars

\* The loop's thread runs, time passes, and the gc thread comes to rest; who
\* waits for that is told each time it does (module RefCount, SleepersReturn).
\* Nothing is assumed of the objects: nobody has to register, detach or die.
Fairness ==
    /\ WF_vars(Loop) /\ SF_vars(LoopStable)
    /\ WF_vars(Tick) /\ WF_vars(GcRests)
FairSpec == Spec /\ Fairness

-----------------------------------------------------------------------------
(* Properties.                                                             *)

TypeOK ==
    /\ objs \in [Channel -> Seq(Obj)] /\ \A ch \in Channel : Len(objs[ch]) <= MaxReg
    /\ interval_objs \subseteq Obj \X Time
    /\ refio \in 0..MaxRefio
    /\ wait_flag \in {0, 1} /\ pipe \in BOOLEAN
    /\ ready \subseteq Channel /\ zombie \subseteq Obj /\ is_stable \in BOOLEAN
    /\ pc \in {"prepare", "select", "collect", "deliver", "stable", "out"}
    /\ sets \subseteq Channel /\ timeout \in Time \cup {None}
    /\ result \subseteq Obj

\* While the loop sleeps it sleeps for everything: a registration that is not in
\* the fd_sets, a time before the timeout, or that there is no longer anything to
\* sleep for, has been written to the pipe (fwIO.cpp:76-229, fwIOarch.cpp:85-105,
\* 289, 426).  Only a descriptor that is being aborted may go unnoticed, as long as
\* the pool works on it.
SleepsForAll ==
    pc = "select" /\ ~pipe =>
       /\ \A ch \in Channel : objs[ch] # <<>> => ch \in sets
       /\ \A w \in interval_objs : timeout # None /\ timeout <= w[2]
       /\ ~(Empty /\ interval_objs = {} /\ refio = 0)

\* The loop returns when nothing is registered, nobody keeps it and the gc thread
\* is idle, whoever took the last of these away and whatever it was doing then
\* (fwIOarch.cpp:277-283, 291-295).
ReturnsWhenDone ==
    LET Over == Empty /\ interval_objs = {} /\ refio = 0 /\ is_stable
    IN Over ~> pc = "out" \/ ~Over

\* A registration on a channel that stays ready, and a time that has come, do not
\* wait for ever: another thread that registers while the loop sleeps, is interrupted
\* or is delivering is not forgotten, unless the loop has returned and is not called
\* again.
Answered ==
    /\ \A ch \in Channel :
          objs[ch] # <<>> /\ ch \in ready ~>
             objs[ch] = <<>> \/ ch \notin ready \/ pc = "out"
    /\ \A w \in Obj \X {0} : w \in interval_objs ~>
          w \notin interval_objs \/ pc = "out"

\* What the loop takes away it tells, unless it belonged to a zombie or, on a channel
\* that is ready, came behind another (fwIOarch.cpp:429-476).
Holds(o, ch) == \E i \in 1..Len(objs[ch]) : objs[ch][i] = o
TellsWhatItTakes ==
    [][pc' # pc =>
         /\ \A ch \in Channel, o \in Obj : Holds(o, ch) /\ ~(Holds(o, ch)') =>
               o \in zombie \cup result' \/ objs[ch][1] \in result' \ {o}
         /\ \A w \in interval_objs \ interval_objs' :
               w[1] \in zombie \/ (w[2] = 0 /\ w[1] \in result')]_vars
=============================================================================
