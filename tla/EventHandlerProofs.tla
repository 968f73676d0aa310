-------------------------- MODULE EventHandlerProofs --------------------------
(***************************************************************************)
(* Proofs about EventHandler for any objects, threads, states, programs    *)
(* and bounds: its types, at most one call runs an object, no event is     *)
(* stranded, the app-mutex is balanced, state functions run where they     *)
(* should, the listeners know the last state, the pool holds one claim to  *)
(* an object at most, and each object behaves as SerialObject promises.    *)
(*                                                                         *)
(* The type invariant is not inductive alone.  That a push stays within    *)
(* MaxDepth, that a frame under way names an object and that the worker a  *)
(* frame enters in thrInfo is one need Sound, on what a frame may be at    *)
(* its place, and Blank, on the places above the top of a stack.           *)
(*                                                                         *)
(* What follows the proof of OneRunner rests on one invariant, Kept, that  *)
(* only holds with the types and Alone: what the frames, the bits beside   *)
(* state_lock, the queues, the pool's ready queue and the app-mutex know   *)
(* of one another.  None of its parts is inductive without the others.     *)
(* Each action either stays outside the loop of eventHandler() - it then   *)
(* moves one frame and perhaps the app-mutex, a claim or a notification -  *)
(* or makes one turn of it, and a turn (Proceed) either goes on with a     *)
(* function or leaves.                                                     *)
(*                                                                         *)
(* All but the types assume ~Torn, that a store to one bit-field leaves    *)
(* the others of the word alone: without it they are false (flag_word).    *)
(***************************************************************************)
EXTENDS EventHandler, FiniteSetTheorems, TLAPS

(***************************************************************************)
(* The stacks.                                                             *)
(***************************************************************************)

Sound(t, d, f) ==
    /\ f.pc \notin {"none", "gc"} => f.obj \in Obj
    /\ f.info => t \in Worker
    /\ f.pc = "gc" => d = 1

Blank == \A t \in Thread : \A d \in 1..MaxDepth : d > dep[t] => call[t][d] = NoFrame

Stacks ==
    /\ call \in [Thread -> [1..MaxDepth -> Frame]]
    /\ dep \in [Thread -> 0..MaxDepth]
    /\ Blank
    /\ \A t \in Thread : \A d \in 1..MaxDepth : Sound(t, d, call[t][d])

\* What Stacks says beyond the types.
IInv == TypeOK /\ Stacks

\* The fields of a new frame.
LEMMA NewFrameFields ==
    ASSUME NEW o \in Obj \cup {NoObj}, NEW e \in Event, NEW i \in BOOLEAN,
           NEW pc \in Pc
    PROVE  /\ NewFrame(o, e, i, pc) \in Frame
           /\ NewFrame(o, e, i, pc).obj = o
           /\ NewFrame(o, e, i, pc).ev = e
           /\ NewFrame(o, e, i, pc).info = i
           /\ NewFrame(o, e, i, pc).pc = pc
           /\ NewFrame(o, e, i, pc).ins = FALSE
           /\ NewFrame(o, e, i, pc).word = <<>>
  BY DEF NewFrame, Frame

\* The frame of an unused place.
LEMMA NoFrameFields ==
    /\ NoFrame \in Frame
    /\ NoFrame.pc = "none"
    /\ NoFrame.info = FALSE
    /\ NoFrame.obj = NoObj
  BY DEF NoFrame, NewFrame, Frame, Event, Pc

\* A frame whose pc alone, or pc and ins, are set.
LEMMA MovedFrame ==
    ASSUME NEW f \in Frame, NEW pc \in Pc, NEW ins \in BOOLEAN
    PROVE  /\ [f EXCEPT !.pc = pc] \in Frame
           /\ [f EXCEPT !.pc = pc].pc = pc
           /\ [f EXCEPT !.pc = pc].obj = f.obj
           /\ [f EXCEPT !.pc = pc].info = f.info
           /\ [f EXCEPT !.pc = pc, !.ins = ins] \in Frame
           /\ [f EXCEPT !.pc = pc, !.ins = ins].pc = pc
           /\ [f EXCEPT !.pc = pc, !.ins = ins].obj = f.obj
           /\ [f EXCEPT !.pc = pc, !.ins = ins].info = f.info
  BY DEF Frame

\* Where it belongs does not change with them, unless it becomes a gc frame.
LEMMA MovedSound ==
    ASSUME NEW f \in Frame, NEW pc \in Pc \ {"gc"}, NEW ins \in BOOLEAN,
           NEW t, NEW d, Sound(t, d, f), f.obj \in Obj
    PROVE  /\ Sound(t, d, [f EXCEPT !.pc = pc])
           /\ Sound(t, d, [f EXCEPT !.pc = pc, !.ins = ins])
  BY DEF Frame, Sound

\* A frame whose word, or word and pc, are set.
LEMMA LoadedFrame ==
    ASSUME NEW f \in Frame, NEW pc \in Pc, NEW w \in Word
    PROVE  /\ [f EXCEPT !.word = <<w>>] \in Frame
           /\ [f EXCEPT !.word = <<w>>].pc = f.pc
           /\ [f EXCEPT !.word = <<w>>].obj = f.obj
           /\ [f EXCEPT !.word = <<w>>].info = f.info
           /\ [f EXCEPT !.word = <<>>, !.pc = pc] \in Frame
           /\ [f EXCEPT !.word = <<>>, !.pc = pc].pc = pc
           /\ [f EXCEPT !.word = <<>>, !.pc = pc].obj = f.obj
           /\ [f EXCEPT !.word = <<>>, !.pc = pc].info = f.info
  BY DEF Frame

\* One place of one stack is set.
LEMMA PlaceSet ==
    ASSUME call \in [Thread -> [1..MaxDepth -> Frame]],
           NEW t \in Thread, NEW k \in 1..MaxDepth, NEW f \in Frame,
           call' = [call EXCEPT ![t][k] = f]
    PROVE  /\ call' \in [Thread -> [1..MaxDepth -> Frame]]
           /\ \A u \in Thread : \A d \in 1..MaxDepth :
                 call'[u][d] = IF u = t /\ d = k THEN f ELSE call[u][d]
  OBVIOUS

\* The top frame is a frame, at a place of the stack, with an object.
LEMMA TopFrame ==
    ASSUME Stacks, NEW t \in Thread, dep[t] > 0
    PROVE  /\ dep[t] \in 1..MaxDepth
           /\ Top(t) \in Frame
           /\ Sound(t, dep[t], Top(t))
  BY BoundsAssumption DEF Stacks, Top

\* A call, a return and a step of the top frame keep the stacks in order.
LEMMA PushKeepsStacks ==
    ASSUME Stacks, NEW t \in Thread, NEW f \in Frame, dep[t] < MaxDepth,
           Sound(t, dep[t] + 1, f), Push(t, f)
    PROVE  Stacks'
  <1>1. dep[t] \in Nat /\ MaxDepth \in Nat /\ dep[t] + 1 \in 1..MaxDepth
    BY BoundsAssumption DEF Stacks
  <1>2. dep' = [dep EXCEPT ![t] = dep[t] + 1]
    BY DEF Push
  <1>3. /\ call' \in [Thread -> [1..MaxDepth -> Frame]]
        /\ \A u \in Thread : \A d \in 1..MaxDepth :
              call'[u][d] = IF u = t /\ d = dep[t] + 1 THEN f ELSE call[u][d]
    BY <1>1, PlaceSet DEF Push, Stacks
  <1>4. dep' \in [Thread -> 0..MaxDepth]
    BY <1>1, <1>2 DEF Stacks
  <1>5. Blank'
    BY <1>1, <1>2, <1>3 DEF Stacks, Blank
  <1>6. ASSUME NEW u \in Thread, NEW d \in 1..MaxDepth
        PROVE  Sound(u, d, call'[u][d])
    BY <1>3 DEF Stacks
  <1>7. QED
    BY <1>3, <1>4, <1>5, <1>6 DEF Stacks, Sound

\* A return keeps the stacks in order: the place left is blank again.
LEMMA PopKeepsStacks ==
    ASSUME Stacks, NEW t \in Thread, dep[t] > 0, Pop(t)
    PROVE  Stacks'
  <1>1. dep[t] \in Nat /\ MaxDepth \in Nat /\ dep[t] \in 1..MaxDepth
    BY BoundsAssumption DEF Stacks
  <1>2. dep' = [dep EXCEPT ![t] = dep[t] - 1]
    BY DEF Pop
  <1>3. /\ call' \in [Thread -> [1..MaxDepth -> Frame]]
        /\ \A u \in Thread : \A d \in 1..MaxDepth :
              call'[u][d] = IF u = t /\ d = dep[t] THEN NoFrame ELSE call[u][d]
    BY <1>1, PlaceSet, NoFrameFields DEF Pop, Stacks
  <1>4. dep' \in [Thread -> 0..MaxDepth]
    BY <1>1, <1>2 DEF Stacks
  <1>5. Blank'
    BY <1>1, <1>2, <1>3 DEF Stacks, Blank
  <1>6. ASSUME NEW u \in Thread, NEW d \in 1..MaxDepth
        PROVE  Sound(u, d, call'[u][d])
    BY <1>3, NoFrameFields DEF Stacks, Sound
  <1>7. QED
    BY <1>3, <1>4, <1>5, <1>6 DEF Stacks, Sound

\* So does a step of the top frame to another frame that belongs there.
LEMMA SetTopKeepsStacks ==
    ASSUME Stacks, NEW t \in Thread, NEW f \in Frame, dep[t] > 0,
           Sound(t, dep[t], f), SetTop(t, f)
    PROVE  Stacks'
  <1>1. dep[t] \in Nat /\ MaxDepth \in Nat /\ dep[t] \in 1..MaxDepth
    BY BoundsAssumption DEF Stacks
  <1>2. dep' = dep
    BY DEF SetTop
  <1>3. /\ call' \in [Thread -> [1..MaxDepth -> Frame]]
        /\ \A u \in Thread : \A d \in 1..MaxDepth :
              call'[u][d] = IF u = t /\ d = dep[t] THEN f ELSE call[u][d]
    BY <1>1, PlaceSet DEF SetTop, Stacks
  <1>4. Blank'
    BY <1>1, <1>2, <1>3 DEF Stacks, Blank
  <1>5. ASSUME NEW u \in Thread, NEW d \in 1..MaxDepth
        PROVE  Sound(u, d, call'[u][d])
    BY <1>3 DEF Stacks
  <1>6. QED
    BY <1>2, <1>3, <1>4, <1>5 DEF Stacks, Sound

(***************************************************************************)
(* The event loop.                                                         *)
(***************************************************************************)

\* The types of what one turn of the loop changes beside the stack.
LoopTypes ==
    /\ que \in [Obj -> Seq(Event)]
    /\ occur \in [Obj -> SUBSET Once]
    /\ flags \in [Obj -> Word]
    /\ thrInfo \in [Obj -> Worker \cup {NoThread}]
    /\ app \in [owner : Thread \cup {NoThread}, level : Int]
    /\ asked \in SUBSET Obj
    /\ want \in SUBSET Obj

\* Taking and giving back the app-mutex, and setting a flag, keep the types.
LEMMA AppTypes ==
    ASSUME app \in [owner : Thread \cup {NoThread}, level : Int], NEW t \in Thread
    PROVE  /\ Acquired(t) \in [owner : Thread \cup {NoThread}, level : Int]
           /\ Released \in [owner : Thread \cup {NoThread}, level : Int]
  BY DEF Acquired, Released

\* A word of flags with one or two of its bitfields stored to is a word, and
\* reads as it was stored.
LEMMA WordSet ==
    ASSUME NEW w \in Word, NEW x \in Flag, NEW y \in Flag, NEW v \in BOOLEAN
    PROVE  /\ [w EXCEPT ![x] = v] \in Word
           /\ [w EXCEPT ![x] = FALSE, ![y] = FALSE] \in Word
           /\ [w EXCEPT ![x] = v][x] = v
           /\ x # y => [w EXCEPT ![x] = v][y] = w[y]
           /\ [w EXCEPT ![x] = FALSE, ![y] = FALSE][y] = FALSE
  BY DEF Word

\* _insEvent keeps the queue a sequence of events and onlyOneEvent_occur a
\* set of coalesced ones; the head of a queue is an event.
LEMMA QueueOps ==
    ASSUME NEW q \in Seq(Event), NEW occ \in SUBSET Once, NEW e \in Event
    PROVE  /\ Insert(q, occ, e) \in Seq(Event)
           /\ InsertMark(occ, e) \in SUBSET Once
           /\ q # <<>> => Head(q) \in Event /\ Tail(q) \in Seq(Event)
  BY DEF Insert, InsertMark

\* The end of the event loop keeps the types of what it writes.
LEMMA LeaveTypes ==
    ASSUME Stacks, LoopTypes, NEW t \in Thread, dep[t] > 0,
           NEW f \in Frame, Sound(t, dep[t], f), f.obj \in Obj, NEW q \in Seq(Event),
           NEW occ \in SUBSET Once, NEW fl \in Word, NEW ins \in BOOLEAN,
           Leave(t, f, f.obj, q, occ, fl, ins)
    PROVE  /\ Stacks'
           /\ que' \in [Obj -> Seq(Event)]
           /\ occur' \in [Obj -> SUBSET Once]
           /\ flags' \in [Obj -> Word]
           /\ thrInfo' \in [Obj -> Worker \cup {NoThread}]
           /\ app' \in [owner : Thread \cup {NoThread}, level : Int]
  <1>1. "post" \in Pc /\ "mtx" \in Flag /\ "lock" \in Flag
    BY DEF Pc, Flag
  <1>2. Stacks'
    <2>1. Sound(t, dep[t], [f EXCEPT !.pc = "post", !.ins = ins])
      BY <1>1, MovedSound
    <2>2. [f EXCEPT !.pc = "post", !.ins = ins] \in Frame
      BY <1>1, MovedFrame
    <2>3. QED
      BY <2>1, <2>2, SetTopKeepsStacks DEF Leave
  <1>3. que' \in [Obj -> Seq(Event)] /\ occur' \in [Obj -> SUBSET Once]
    BY DEF Leave, LoopTypes
  <1>4. flags' \in [Obj -> Word]
    <2>1. [fl EXCEPT !["mtx"] = FALSE, !["lock"] = FALSE] \in Word
      BY <1>1, WordSet
    <2>2. QED
      BY <2>1 DEF Leave, LoopTypes
  <1>5. thrInfo' \in [Obj -> Worker \cup {NoThread}]
    BY DEF Leave, LoopTypes
  <1>6. app' \in [owner : Thread \cup {NoThread}, level : Int]
    BY AppTypes DEF Leave, LoopTypes
  <1>7. QED
    BY <1>2, <1>3, <1>4, <1>5, <1>6

\* So does a turn of the event loop, whichever way it goes.
LEMMA ProceedTypes ==
    ASSUME Stacks, LoopTypes, NEW t \in Thread, dep[t] > 0,
           NEW f \in Frame, Sound(t, dep[t], f), f.obj \in Obj,
           NEW s \in State, NEW w \in Worker \cup {NoThread}, NEW q \in Seq(Event),
           NEW occ \in SUBSET Once, NEW fl \in Word, NEW inHand \in BOOLEAN,
           Proceed(t, f, f.obj, s, w, q, occ, fl, inHand)
    PROVE  Stacks' /\ LoopTypes'
  <1> DEFINE rest == IF inHand THEN q ELSE Tail(q)
             left == IF inHand THEN occ ELSE occ \ {Head(q)}
             Run(pc) ==
                /\ que' = [que EXCEPT ![f.obj] = rest]
                /\ occur' = [occur EXCEPT ![f.obj] = left]
                /\ flags' = [flags EXCEPT ![f.obj] = [fl EXCEPT !["thq"] = FALSE]]
                /\ thrInfo' = [thrInfo EXCEPT ![f.obj] = w]
                /\ SetTop(t, [f EXCEPT !.pc = pc])
                /\ want' = want \ {f.obj}
                /\ asked' = IF fl["destroy"] \/ fl["ref"]
                              THEN asked \cup {f.obj} ELSE asked
                /\ UNCHANGED app
  <1>1. "thq" \in Flag /\ "lock" \in Pc /\ "unlock" \in Pc
    BY DEF Pc, Flag
  <1>2. f.ins \in BOOLEAN
    BY DEF Frame
  <1>3. <<>> \in Seq(Event) /\ {} \in SUBSET Once
    OBVIOUS
  <1>4. ASSUME inHand \/ q # <<>>, NEW pc \in {"lock", "unlock"}, Run(pc)
        PROVE  Stacks' /\ LoopTypes'
    <2>1. rest \in Seq(Event) /\ left \in SUBSET Once
      BY <1>4, QueueOps
    <2>2. Stacks'
      <3>1. [f EXCEPT !.pc = pc] \in Frame
        BY <1>1, MovedFrame
      <3>2. Sound(t, dep[t], [f EXCEPT !.pc = pc])
        BY <1>1, MovedSound
      <3>3. QED
        BY <1>4, <3>1, <3>2, SetTopKeepsStacks
    <2>3. que' \in [Obj -> Seq(Event)] /\ occur' \in [Obj -> SUBSET Once]
      BY <1>4, <2>1 DEF LoopTypes
    <2>4. flags' \in [Obj -> Word]
      BY <1>1, <1>4, WordSet DEF LoopTypes
    <2>5. thrInfo' \in [Obj -> Worker \cup {NoThread}]
      BY <1>4 DEF LoopTypes
    <2>6. asked' \in SUBSET Obj /\ want' \in SUBSET Obj
      BY <1>4 DEF LoopTypes
    <2>7. app' \in [owner : Thread \cup {NoThread}, level : Int]
      BY <1>4 DEF LoopTypes
    <2>8. QED
      BY <2>2, <2>3, <2>4, <2>5, <2>6, <2>7 DEF LoopTypes
  <1>5. CASE /\ s = Zom
             /\ Leave(t, f, f.obj, <<>>, {}, fl, f.ins)
             /\ want' = want \ {f.obj}
             /\ UNCHANGED asked
    <2>1. Leave(t, f, f.obj, <<>>, {}, fl, f.ins)
      BY <1>5
    <2>2. /\ Stacks'
          /\ que' \in [Obj -> Seq(Event)]
          /\ occur' \in [Obj -> SUBSET Once]
          /\ flags' \in [Obj -> Word]
          /\ thrInfo' \in [Obj -> Worker \cup {NoThread}]
          /\ app' \in [owner : Thread \cup {NoThread}, level : Int]
      BY <1>2, <1>3, <2>1, LeaveTypes
    <2>3. QED
      BY <1>5, <2>2 DEF LoopTypes
  <1>6. CASE /\ s # Zom /\ ~inHand /\ q = <<>>
             /\ Leave(t, f, f.obj, q, occ, fl, f.ins)
             /\ UNCHANGED <<want, asked>>
    <2>1. Leave(t, f, f.obj, q, occ, fl, f.ins)
      BY <1>6
    <2>2. /\ Stacks'
          /\ que' \in [Obj -> Seq(Event)]
          /\ occur' \in [Obj -> SUBSET Once]
          /\ flags' \in [Obj -> Word]
          /\ thrInfo' \in [Obj -> Worker \cup {NoThread}]
          /\ app' \in [owner : Thread \cup {NoThread}, level : Int]
      BY <1>2, <2>1, LeaveTypes
    <2>3. QED
      BY <1>6, <2>2 DEF LoopTypes
  <1>7. CASE /\ inHand \/ q # <<>>
             /\ s \in TsState
             /\ Run("lock")
    BY <1>4, <1>7
  <1>8. CASE /\ inHand \/ q # <<>>
             /\ s \in TsThread /\ w # NoThread
             /\ Run("unlock")
    BY <1>4, <1>8
  <1>9. CASE /\ inHand \/ q # <<>>
             /\ s \in TsThread /\ w = NoThread
             /\ Leave(t, f, f.obj, <<>>, occ \ {q[i] : i \in 1..Len(q)},
                      [fl EXCEPT !["thq"] = TRUE], f.ins \/ ~fl["thq"])
             /\ want' = want \cup {f.obj}
             /\ UNCHANGED asked
    <2>1. [fl EXCEPT !["thq"] = TRUE] \in Word
      BY <1>1, WordSet
    <2>2. occ \ {q[i] : i \in 1..Len(q)} \in SUBSET Once
      OBVIOUS
    <2>3. (f.ins \/ ~fl["thq"]) \in BOOLEAN
      OBVIOUS
    <2>4. QED
      BY <1>3, <1>9, <2>1, <2>2, <2>3, LeaveTypes DEF LoopTypes
  <1>10. QED
    BY <1>5, <1>6, <1>7, <1>8, <1>9 DEF Proceed

(***************************************************************************)
(* Steps of the top frame.                                                 *)
(***************************************************************************)

\* A thread at a pc of eventHandler() has a top frame with an object.
LEMMA AtFrame ==
    ASSUME Stacks, NEW t \in Thread, NEW pc \in Pc \ {"none", "gc"}, At(t, pc)
    PROVE  /\ dep[t] > 0 /\ dep[t] \in 1..MaxDepth
           /\ Top(t) \in Frame /\ Top(t).obj \in Obj /\ Top(t).pc = pc
           /\ Sound(t, dep[t], Top(t))
  BY TopFrame DEF At, Sound

\* A step of the top frame to another pc, but for the gc's, keeps the stacks.
LEMMA GotoKeepsStacks ==
    ASSUME Stacks, NEW t \in Thread, dep[t] > 0, Top(t).obj \in Obj,
           NEW pc \in Pc \ {"gc"}, Goto(t, pc)
    PROVE  Stacks'
  <1>1. Top(t) \in Frame /\ Sound(t, dep[t], Top(t))
    BY TopFrame
  <1>2. /\ [Top(t) EXCEPT !.pc = pc] \in Frame
        /\ Sound(t, dep[t], [Top(t) EXCEPT !.pc = pc])
    BY <1>1, MovedFrame, MovedSound
  <1>3. QED
    BY <1>2, SetTopKeepsStacks DEF Goto

\* So does the end of the notification: the frame goes to the pool or returns.
LEMMA DoneKeepsStacks ==
    ASSUME Stacks, NEW t \in Thread, dep[t] > 0, Top(t).obj \in Obj, Done(t)
    PROVE  Stacks'
  <1>1. "ins" \in Pc \ {"gc"}
    BY DEF Pc
  <1>2. QED
    BY <1>1, GotoKeepsStacks, PopKeepsStacks DEF Done

\* A flag store without lm, torn or not, keeps the stacks and the flags' type.
LEMMA StoreFlagTypes ==
    ASSUME Stacks, flags \in [Obj -> Word], NEW t \in Thread, dep[t] > 0,
           Top(t).obj \in Obj, Top(t).pc \notin {"none", "gc"},
           NEW bit \in Flag, NEW v \in BOOLEAN,
           NEW pc \in Pc \ {"gc"}, StoreFlag(t, bit, v, pc)
    PROVE  Stacks' /\ flags' \in [Obj -> Word]
  <1>1. Top(t) \in Frame /\ Sound(t, dep[t], Top(t))
    BY TopFrame
  <1>2. flags[Top(t).obj] \in Word
    OBVIOUS
  <1>3. CASE /\ ~Torn
             /\ flags' = [flags EXCEPT ![Top(t).obj][bit] = v]
             /\ Goto(t, pc)
    BY <1>3, GotoKeepsStacks DEF Word
  <1>4. CASE /\ Torn /\ Top(t).word = <<>>
             /\ SetTop(t, [Top(t) EXCEPT !.word = <<flags[Top(t).obj]>>])
             /\ UNCHANGED flags
    <2>1. /\ [Top(t) EXCEPT !.word = <<flags[Top(t).obj]>>] \in Frame
          /\ Sound(t, dep[t], [Top(t) EXCEPT !.word = <<flags[Top(t).obj]>>])
      BY <1>1, <1>2 DEF Frame, Sound
    <2>2. QED
      BY <1>4, <2>1, SetTopKeepsStacks
  <1>5. CASE /\ Torn /\ Top(t).word # <<>>
             /\ flags' = [flags EXCEPT
                            ![Top(t).obj] = [Top(t).word[1] EXCEPT ![bit] = v]]
             /\ SetTop(t, [Top(t) EXCEPT !.word = <<>>, !.pc = pc])
    <2>1. PICK w \in Word : Top(t).word = <<w>>
      BY <1>1, <1>5 DEF Frame
    <2>2. [Top(t).word[1] EXCEPT ![bit] = v] \in Word
      <3>1. <<w>>[1] = w
        OBVIOUS
      <3>2. [w EXCEPT ![bit] = v] \in Word
        BY WordSet
      <3>3. QED
        BY <2>1, <3>1, <3>2
    <2>3. /\ [Top(t) EXCEPT !.word = <<>>, !.pc = pc] \in Frame
          /\ Sound(t, dep[t], [Top(t) EXCEPT !.word = <<>>, !.pc = pc])
      BY <1>1 DEF Frame, Sound
    <2>4. QED
      BY <1>5, <2>2, <2>3, SetTopKeepsStacks
  <1>6. QED
    BY <1>3, <1>4, <1>5 DEF StoreFlag

(***************************************************************************)
(* The type invariant.                                                     *)
(***************************************************************************)

\* The types of what is neither a stack nor changed by the event loop.
RestTypes ==
    /\ state \in [Obj -> State]
    /\ born \in [Obj -> {"no", "ctor", "out"}]
    /\ ready \in Seq(Obj)
    /\ gcq \in Seq([obj : Obj, ev : Event])
    /\ timer \in SUBSET Obj
    /\ told \in [Obj -> State]

\* The invariant is the stacks, what the event loop writes, and the rest.
LEMMA Parts == IInv <=> Stacks /\ LoopTypes /\ RestTypes
  BY DEF IInv, TypeOK, Stacks, LoopTypes, RestTypes

\* The same of the state after a step.
LEMMA PrimedParts == Stacks' /\ LoopTypes' /\ RestTypes' => IInv'
  BY DEF IInv, TypeOK, Stacks, LoopTypes, RestTypes

\* The process starts with empty stacks and queues, every object unborn.
LEMMA InitTypes == Init => IInv
  <1> SUFFICES ASSUME Init PROVE IInv
    OBVIOUS
  <1>1. Ini \in State
    BY ConstantsAssumption DEF State
  <1>2. NoFlag \in Word
    BY DEF NoFlag, Word
  <1>3. MaxDepth \in Nat
    BY BoundsAssumption
  <1>4. Stacks
    <2>1. /\ call \in [Thread -> [1..MaxDepth -> Frame]]
          /\ dep \in [Thread -> 0..MaxDepth]
      BY <1>3, NoFrameFields DEF Init
    <2>2. \A t \in Thread : \A d \in 1..MaxDepth : call[t][d] = NoFrame
      BY DEF Init
    <2>3. \A t \in Thread : \A d \in 1..MaxDepth : Sound(t, d, call[t][d])
      BY <2>2, NoFrameFields DEF Sound
    <2>4. QED
      BY <2>1, <2>2, <2>3 DEF Stacks, Blank
  <1>5. LoopTypes
    BY <1>2 DEF Init, LoopTypes
  <1>6. RestTypes
    BY <1>1 DEF Init, RestTypes
  <1>7. QED
    BY <1>4, <1>5, <1>6, Parts

\* A new call keeps the stacks, given room for it.
LEMMA NewCallKeepsStacks ==
    ASSUME Stacks, NEW t \in Thread, dep[t] < MaxDepth, NEW o \in Obj,
           NEW e \in Event, NEW i \in BOOLEAN, NEW pc \in Pc \ {"gc"},
           i => t \in Worker, Push(t, NewFrame(o, e, i, pc))
    PROVE  Stacks'
  <1>1. NewFrame(o, e, i, pc) \in Frame
    BY NewFrameFields
  <1>2. Sound(t, dep[t] + 1, NewFrame(o, e, i, pc))
    BY DEF Sound, NewFrame
  <1>3. QED
    BY <1>1, <1>2, PushKeepsStacks

\* Every way into eventHandler() leaves room on the stack of its thread.
LEMMA RequestTypes ==
    ASSUME IInv, NEW t \in Thread, Request(t)
    PROVE  IInv'
  <1>1. Stacks /\ LoopTypes /\ RestTypes
    BY Parts
  <1>2. /\ "TSE_INIT" \in Event /\ "TSE_INVOKE" \in Event
        /\ \A e \in Once \cup Many : e \in Event
        /\ "enter" \in Pc \ {"gc"} /\ "ref" \in Pc \ {"gc"}
    BY DEF Event, Pc
  <1>3. 0 < MaxDepth
    BY BoundsAssumption
  <1>4. PICK o \in Obj :
           \/ Construct(t, o)
           \/ \E e \in Once \cup Many : Call(t, o, e)
           \/ \E delay \in BOOLEAN : Destroy(t, o, delay)
           \/ RefEvent(t, o)
    BY DEF Request
  <1>5. CASE Construct(t, o)
    <2>1. Stacks'
      BY <1>1, <1>2, <1>5, NewCallKeepsStacks DEF Construct, CanCall
    <2>2. LoopTypes'
      BY <1>1, <1>5 DEF Construct, LoopTypes, ghosts
    <2>3. RestTypes'
      BY <1>1, <1>5 DEF Construct, RestTypes, ghosts
    <2>4. QED
      BY <2>1, <2>2, <2>3, PrimedParts
  <1>6. CASE \E e \in Once \cup Many : Call(t, o, e)
    <2>1. Stacks'
      BY <1>1, <1>2, <1>6, NewCallKeepsStacks DEF Call, CanCall
    <2>2. LoopTypes'
      BY <1>1, <1>6 DEF Call, LoopTypes, ghosts
    <2>3. RestTypes'
      BY <1>1, <1>6 DEF Call, RestTypes, ghosts
    <2>4. QED
      BY <2>1, <2>2, <2>3, PrimedParts
  <1>7. CASE \E delay \in BOOLEAN : Destroy(t, o, delay)
    <2>1. PICK delay \in BOOLEAN : Destroy(t, o, delay)
      BY <1>7
    <2>2. Stacks'
      <3>1. CASE delay
        BY <1>1, <2>1, <3>1 DEF Destroy, Stacks, Blank
      <3>2. CASE ~delay
        BY <1>1, <1>2, <2>1, <3>2, NewCallKeepsStacks DEF Destroy, CanCall
      <3>3. QED
        BY <3>1, <3>2
    <2>3. flags' \in [Obj -> Word]
      BY <1>1, <2>1 DEF Destroy, LoopTypes, Word
    <2>4. LoopTypes'
      BY <1>1, <2>1, <2>3 DEF Destroy, LoopTypes, ghosts
    <2>5. RestTypes'
      BY <1>1, <2>1 DEF Destroy, RestTypes, ghosts
    <2>6. QED
      BY <2>2, <2>4, <2>5, PrimedParts
  <1>8. CASE RefEvent(t, o)
    <2>1. Stacks'
      BY <1>1, <1>2, <1>3, <1>8, NewCallKeepsStacks DEF RefEvent
    <2>2. LoopTypes'
      BY <1>1, <1>8 DEF RefEvent, LoopTypes, ghosts
    <2>3. RestTypes'
      BY <1>1, <1>8 DEF RefEvent, RestTypes, ghosts
    <2>4. QED
      BY <2>1, <2>2, <2>3, PrimedParts
  <1>9. QED
    BY <1>4, <1>5, <1>6, <1>7, <1>8

\* A job out of the gc's queue is a job, and what is left is a queue of jobs.
LEMMA JobTaken ==
    ASSUME gcq \in Seq([obj : Obj, ev : Event]), NEW i \in 1..Len(gcq)
    PROVE  /\ gcq[i].obj \in Obj /\ gcq[i].ev \in Event
           /\ RemoveAt(gcq, i) \in Seq([obj : Obj, ev : Event])
  <1> DEFINE Job == [obj : Obj, ev : Event]
  <1>3. gcq \in Seq(Job)
    OBVIOUS
  <1> HIDE DEF Job
  <1>1. gcq[i] \in Job
    BY <1>3
  <1>2. gcq[i].obj \in Obj /\ gcq[i].ev \in Event
    BY <1>1 DEF Job
  <1>4. /\ SubSeq(gcq, 1, i - 1) \in Seq(Job)
        /\ SubSeq(gcq, i + 1, Len(gcq)) \in Seq(Job)
    BY <1>3
  <1>5. RemoveAt(gcq, i) \in Seq(Job)
    BY <1>4 DEF RemoveAt
  <1>6. QED
    BY <1>2, <1>5 DEF Job

\* The gc, the pool and the timer deliver to objects of the program.
LEMMA DeliveryTypes ==
    ASSUME IInv, NEW t \in Thread,
           PoolTake(t) \/ Gc(t) \/ \E o \in Obj : FireTimer(t, o)
    PROVE  IInv'
  <1>1. Stacks /\ LoopTypes /\ RestTypes
    BY Parts
  <1>2. /\ "TSE_INIT" \in Event /\ "TSE_INVOKE" \in Event /\ "TSE_THREAD" \in Event
        /\ "enter" \in Pc \ {"gc"} /\ "gc" \in Pc
    BY DEF Event, Pc
  <1>3. MaxDepth \in Nat /\ 2 < MaxDepth
    BY BoundsAssumption
  <1>4. CASE PoolTake(t)
    <2>1. ready # <<>> /\ Head(ready) \in Obj /\ Tail(ready) \in Seq(Obj)
      BY <1>1, <1>4 DEF PoolTake, RestTypes
    <2>2. Stacks'
      <3>1. dep[t] < MaxDepth /\ t \in Worker
        BY <1>3, <1>4 DEF PoolTake
      <3>2. Push(t, NewFrame(Head(ready), "TSE_THREAD", TRUE, "enter"))
        BY <1>4 DEF PoolTake
      <3>3. QED
        BY <1>1, <1>2, <2>1, <3>1, <3>2, NewCallKeepsStacks
    <2>3. LoopTypes'
      BY <1>1, <1>4 DEF PoolTake, LoopTypes, ghosts
    <2>4. RestTypes'
      BY <1>1, <1>4, <2>1 DEF PoolTake, RestTypes, ghosts
    <2>5. QED
      BY <2>2, <2>3, <2>4, PrimedParts
  <1>5. CASE GcEnd(t)
    <2>1. Stacks'
      BY <1>1, <1>5, PopKeepsStacks DEF GcEnd, At
    <2>2. LoopTypes'
      BY <1>1, <1>5, AppTypes DEF GcEnd, LoopTypes, ghosts
    <2>3. RestTypes'
      BY <1>1, <1>5 DEF GcEnd, RestTypes, ghosts
    <2>4. QED
      BY <2>1, <2>2, <2>3, PrimedParts
  <1>6. ASSUME NEW i \in 1..Len(gcq), GcStart(t, i)
        PROVE  IInv'
    <2> DEFINE g == NewFrame(NoObj, "TSE_INIT", FALSE, "gc")
               f == NewFrame(gcq[i].obj, gcq[i].ev, FALSE, "enter")
    <2>1. /\ gcq[i].obj \in Obj /\ gcq[i].ev \in Event
          /\ RemoveAt(gcq, i) \in Seq([obj : Obj, ev : Event])
      BY <1>1, JobTaken DEF RestTypes
    <2>2. g \in Frame /\ f \in Frame /\ Sound(t, 1, g) /\ Sound(t, 2, f)
      <3>1. g \in Frame
        BY <1>2, NewFrameFields
      <3>2. f \in Frame
        BY <1>2, <2>1, NewFrameFields
      <3>3. Sound(t, 1, g) /\ Sound(t, 2, f)
        BY <2>1 DEF Sound, NewFrame
      <3>4. QED
        BY <3>1, <3>2, <3>3
    <2>3. /\ call' = [call EXCEPT ![t] = [@ EXCEPT ![1] = g, ![2] = f]]
          /\ dep' = [dep EXCEPT ![t] = 2] /\ dep[t] = 0
      BY <1>6 DEF GcStart
    <2> HIDE DEF f, g
    <2>4. /\ call' \in [Thread -> [1..MaxDepth -> Frame]]
          /\ \A u \in Thread : \A d \in 1..MaxDepth :
                call'[u][d] = IF u = t /\ d = 1 THEN g
                              ELSE IF u = t /\ d = 2 THEN f ELSE call[u][d]
      <3>1. 1 \in 1..MaxDepth /\ 2 \in 1..MaxDepth
        BY <1>3
      <3>2. call \in [Thread -> [1..MaxDepth -> Frame]]
        BY <1>1 DEF Stacks
      <3> DEFINE c == [call[t] EXCEPT ![1] = g, ![2] = f]
      <3>3. call' = [call EXCEPT ![t] = c]
        BY <2>3
      <3>4. /\ c \in [1..MaxDepth -> Frame]
            /\ \A d \in 1..MaxDepth :
                 c[d] = IF d = 1 THEN g ELSE IF d = 2 THEN f ELSE call[t][d]
        <4> DEFINE c1 == [call[t] EXCEPT ![1] = g]
        <4>1. /\ c1 \in [1..MaxDepth -> Frame]
              /\ \A d \in 1..MaxDepth : c1[d] = IF d = 1 THEN g ELSE call[t][d]
          BY <2>2, <3>1, <3>2
        <4>2. c = [c1 EXCEPT ![2] = f]
          OBVIOUS
        <4> HIDE DEF c1, c
        <4>3. QED
          BY <2>2, <3>1, <4>1, <4>2
      <3> HIDE DEF c
      <3>5. QED
        BY <3>2, <3>3, <3>4
    <2>5. dep' \in [Thread -> 0..MaxDepth]
      BY <1>1, <1>3, <2>3 DEF Stacks
    <2>6. Blank'
      <3> SUFFICES ASSUME NEW u \in Thread, NEW d \in 1..MaxDepth, d > dep'[u]
                   PROVE  call'[u][d] = NoFrame
        BY DEF Blank
      <3>1. dep \in [Thread -> 0..MaxDepth]
        BY <1>1 DEF Stacks
      <3>2. d > dep[u]
        BY <1>3, <2>3, <3>1
      <3>3. call[u][d] = NoFrame
        BY <1>1, <3>2 DEF Stacks, Blank
      <3>4. ~(u = t /\ d \in {1, 2})
        BY <2>3, <3>1
      <3>5. QED
        BY <2>4, <3>3, <3>4
    <2>7. ASSUME NEW u \in Thread, NEW d \in 1..MaxDepth
          PROVE  Sound(u, d, call'[u][d])
      BY <1>1, <2>2, <2>4 DEF Stacks
    <2>8. Stacks'
      BY <2>4, <2>5, <2>6, <2>7 DEF Stacks, Sound
    <2>9. LoopTypes'
      BY <1>1, <1>6, AppTypes DEF GcStart, LoopTypes, ghosts
    <2>10. RestTypes'
      BY <1>1, <1>6, <2>1 DEF GcStart, RestTypes, ghosts
    <2>11. QED
      BY <2>8, <2>9, <2>10, PrimedParts
  <1>7. ASSUME NEW i \in 1..Len(gcq), GcDeliver(t, i)
        PROVE  IInv'
    <2>1. /\ gcq[i].obj \in Obj /\ gcq[i].ev \in Event
          /\ RemoveAt(gcq, i) \in Seq([obj : Obj, ev : Event])
      BY <1>1, JobTaken DEF RestTypes
    <2>2. dep[t] = 1
      <3>1. dep[t] > 0 /\ Top(t).pc = "gc"
        BY <1>7 DEF GcDeliver, At
      <3>2. QED
        BY <1>1, <3>1, TopFrame DEF Sound
    <2>3. Stacks'
      <3>1. dep[t] < MaxDepth
        BY <1>3, <2>2
      <3>2. Push(t, NewFrame(gcq[i].obj, gcq[i].ev, FALSE, "enter"))
        BY <1>7 DEF GcDeliver
      <3>3. QED
        BY <1>1, <1>2, <2>1, <3>1, <3>2, NewCallKeepsStacks
    <2>4. LoopTypes'
      BY <1>1, <1>7 DEF GcDeliver, LoopTypes, ghosts
    <2>5. RestTypes'
      BY <1>1, <1>7, <2>1 DEF GcDeliver, RestTypes, ghosts
    <2>6. QED
      BY <2>3, <2>4, <2>5, PrimedParts
  <1>8. ASSUME NEW o \in Obj, FireTimer(t, o)
        PROVE  IInv'
    <2>1. Stacks'
      <3>1. dep[t] < MaxDepth
        BY <1>3, <1>8 DEF FireTimer
      <3>2. Push(t, NewFrame(o, "TSE_INVOKE", FALSE, "enter"))
        BY <1>8 DEF FireTimer
      <3>3. QED
        BY <1>1, <1>2, <3>1, <3>2, NewCallKeepsStacks
    <2>2. LoopTypes'
      BY <1>1, <1>8 DEF FireTimer, LoopTypes, ghosts
    <2>3. RestTypes'
      BY <1>1, <1>8 DEF FireTimer, RestTypes, ghosts
    <2>4. QED
      BY <2>1, <2>2, <2>3, PrimedParts
  <1>9. QED
    BY <1>4, <1>5, <1>6, <1>7, <1>8 DEF Gc

\* The loop starts, or goes on, with an event, a state and a worker.
LEMMA TurnTypes ==
    ASSUME IInv, NEW t \in Thread,
           EnterLock(t) \/ \E to \in State, rDO \in BOOLEAN : Return(t, to, rDO)
    PROVE  IInv'
  <1>1. Stacks /\ LoopTypes /\ RestTypes
    BY Parts
  <1>2. {"enter", "runS", "runT"} \subseteq Pc \ {"none", "gc"}
    BY DEF Pc
  <1>3. "lock" \in Flag /\ "inv" \in Flag
    BY DEF Flag
  <1> DEFINE f == Top(t)
             o == f.obj
  <1>4. CASE EnterLock(t)
    <2>1. At(t, "enter")
      BY <1>4 DEF EnterLock
    <2>2. /\ dep[t] > 0 /\ f \in Frame /\ o \in Obj
          /\ Sound(t, dep[t], f)
      BY <1>1, <1>2, <2>1, AtFrame
    <2> DEFINE w == IF f.info THEN t ELSE NoThread
               q == Insert(que[o], occur[o], f.ev)
               occ == InsertMark(occur[o], f.ev)
               fl == [flags[o] EXCEPT !["lock"] = TRUE]
    <2>3. Proceed(t, f, o, state[o], w, q, occ, fl, FALSE)
      BY <1>4 DEF EnterLock
    <2>4. w \in Worker \cup {NoThread}
      BY <2>2 DEF Sound
    <2>5. q \in Seq(Event) /\ occ \in SUBSET Once
      <3>1. f.ev \in Event
        BY <2>2 DEF Frame
      <3>2. que[o] \in Seq(Event) /\ occur[o] \in SUBSET Once
        BY <1>1, <2>2 DEF LoopTypes
      <3>3. QED
        BY <3>1, <3>2, QueueOps
    <2>6. fl \in Word
      <3>1. flags[o] \in Word
        BY <1>1, <2>2 DEF LoopTypes
      <3>2. QED
        BY <1>3, <3>1, WordSet
    <2>7. state[o] \in State
      BY <1>1, <2>2 DEF RestTypes
    <2> HIDE DEF w, q, occ, fl
    <2>8. Stacks' /\ LoopTypes'
      BY <1>1, <2>2, <2>3, <2>4, <2>5, <2>6, <2>7, ProceedTypes
    <2>9. RestTypes'
      BY <1>1, <1>4, <2>2 DEF EnterLock, RestTypes
    <2>10. QED
      BY <2>8, <2>9, PrimedParts
  <1>5. ASSUME NEW to \in State, NEW rDO \in BOOLEAN, Return(t, to, rDO)
        PROVE  IInv'
    <2>1. At(t, "runS") \/ At(t, "runT")
      BY <1>5 DEF Return
    <2>2. /\ dep[t] > 0 /\ f \in Frame /\ o \in Obj
          /\ Sound(t, dep[t], f)
      BY <1>1, <1>2, <2>1, AtFrame
    <2> DEFINE fl == IF to # state[o] THEN [flags[o] EXCEPT !["inv"] = TRUE]
                                      ELSE flags[o]
    <2>3. Proceed(t, f, o, to, thrInfo[o], que[o], occur[o], fl, rDO)
      BY <1>5 DEF Return
    <2>4. /\ thrInfo[o] \in Worker \cup {NoThread}
          /\ que[o] \in Seq(Event) /\ occur[o] \in SUBSET Once
          /\ flags[o] \in Word
      BY <1>1, <2>2 DEF LoopTypes
    <2>5. fl \in Word
      BY <1>3, <2>4, WordSet
    <2> HIDE DEF fl
    <2>6. Stacks' /\ LoopTypes'
      BY <1>1, <2>2, <2>3, <2>4, <2>5, ProceedTypes
    <2>7. RestTypes'
      BY <1>1, <1>5, <2>2 DEF Return, RestTypes
    <2>8. QED
      BY <2>6, <2>7, PrimedParts
  <1>6. QED
    BY <1>4, <1>5

\* The steps of eventHandler() outside its loop.
LEMMA AdvanceTypes ==
    ASSUME IInv, NEW t \in Thread,
           (Advance(t) /\ ~EnterLock(t)) \/ AppAcquire(t) \/ NotifyDone(t)
    PROVE  IInv'
  <1>1. Stacks /\ LoopTypes /\ RestTypes
    BY Parts
  <1>2. /\ {"ref", "enter", "lock", "acquire", "runS", "unlock", "release", "runT",
             "post", "tell", "notify", "ins"} \subseteq Pc \ {"none", "gc"}
        /\ {"ref", "mtx", "inv", "thq"} \subseteq Flag
    BY DEF Pc, Flag
  <1>3. flags \in [Obj -> Word]
    BY <1>1 DEF LoopTypes
  <1>4. CASE RefFlag(t)
    <2>1. Stacks' /\ flags' \in [Obj -> Word]
      BY <1>1, <1>2, <1>3, <1>4, AtFrame, StoreFlagTypes DEF RefFlag
    <2>2. LoopTypes' /\ RestTypes'
      BY <1>1, <1>4, <2>1 DEF RefFlag, LoopTypes, RestTypes, ghosts
    <2>3. QED
      BY <2>1, <2>2, PrimedParts
  <1>5. CASE Escape(t)
    <2>1. dep[t] > 0 /\ Top(t) \in Frame /\ Top(t).obj \in Obj
      BY <1>1, <1>2, <1>5, AtFrame DEF Escape
    <2>2. Stacks'
      BY <1>1, <1>5, <2>1, PopKeepsStacks DEF Escape
    <2>3. [obj |-> Top(t).obj, ev |-> Top(t).ev] \in [obj : Obj, ev : Event]
      BY <2>1 DEF Frame
    <2>4. gcq' \in Seq([obj : Obj, ev : Event])
      <3> DEFINE Job == [obj : Obj, ev : Event]
                 j == [obj |-> Top(t).obj, ev |-> Top(t).ev]
      <3>1. gcq \in Seq(Job) /\ j \in Job /\ gcq' = Append(gcq, j)
        BY <1>1, <1>5, <2>3 DEF Escape, RestTypes
      <3> HIDE DEF Job, j
      <3>2. gcq' \in Seq(Job)
        BY <3>1
      <3>3. QED
        BY <3>2 DEF Job
    <2>5. LoopTypes' /\ RestTypes'
      BY <1>1, <1>5, <2>4 DEF Escape, LoopTypes, RestTypes, ghosts
    <2>6. QED
      BY <2>2, <2>5, PrimedParts
  <1>6. CASE EnterZombie(t)
    <2>1. Stacks'
      BY <1>1, <1>2, <1>6, AtFrame, PopKeepsStacks DEF EnterZombie
    <2>2. LoopTypes' /\ RestTypes'
      BY <1>1, <1>6 DEF EnterZombie, LoopTypes, RestTypes, ghosts
    <2>3. QED
      BY <2>1, <2>2, PrimedParts
  <1>7. CASE EnterBusy(t)
    <2> DEFINE f == Top(t)
               o == f.obj
    <2>1. At(t, "enter")
      BY <1>7 DEF EnterBusy
    <2>2. dep[t] > 0 /\ f \in Frame /\ o \in Obj
      BY <1>1, <1>2, <2>1, AtFrame
    <2>3. f.ev \in Event
      BY <2>2 DEF Frame
    <2>4. /\ Insert(que[o], occur[o], f.ev) \in Seq(Event)
          /\ InsertMark(occur[o], f.ev) \in SUBSET Once
      BY <1>1, <2>2, <2>3, QueueOps DEF LoopTypes
    <2>5. Stacks'
      BY <1>1, <1>7, <2>2, PopKeepsStacks DEF EnterBusy
    <2>6. que' \in [Obj -> Seq(Event)] /\ occur' \in [Obj -> SUBSET Once]
      BY <1>1, <1>7, <2>2, <2>4 DEF EnterBusy, LoopTypes
    <2>7. flags' \in [Obj -> Word]
      BY <1>2, <1>3, <1>7, <2>2 DEF EnterBusy, Word
    <2>8. LoopTypes' /\ RestTypes'
      BY <1>1, <1>7, <2>6, <2>7 DEF EnterBusy, LoopTypes, RestTypes, ghosts
    <2>9. QED
      BY <2>5, <2>8, PrimedParts
  <1>8. CASE AppMtxLock(t)
    <2>1. Stacks' /\ flags' \in [Obj -> Word]
      BY <1>1, <1>2, <1>3, <1>8, AtFrame, StoreFlagTypes, GotoKeepsStacks
         DEF AppMtxLock
    <2>2. LoopTypes' /\ RestTypes'
      BY <1>1, <1>8, <2>1 DEF AppMtxLock, LoopTypes, RestTypes, ghosts
    <2>3. QED
      BY <2>1, <2>2, PrimedParts
  <1>9. CASE AppMtxUnlock(t)
    <2>1. Stacks' /\ flags' \in [Obj -> Word]
      BY <1>1, <1>2, <1>3, <1>9, AtFrame, StoreFlagTypes, GotoKeepsStacks
         DEF AppMtxUnlock
    <2>2. LoopTypes' /\ RestTypes'
      BY <1>1, <1>9, <2>1 DEF AppMtxUnlock, LoopTypes, RestTypes, ghosts
    <2>3. QED
      BY <2>1, <2>2, PrimedParts
  <1>10. CASE AppRelease(t) \/ AppAcquire(t)
    <2>1. Stacks'
      BY <1>1, <1>2, <1>10, AtFrame, GotoKeepsStacks DEF AppRelease, AppAcquire
    <2>2. app' \in [owner : Thread \cup {NoThread}, level : Int]
      BY <1>1, <1>10, AppTypes DEF AppRelease, AppAcquire, LoopTypes
    <2>3. LoopTypes' /\ RestTypes'
      BY <1>1, <1>10, <2>2 DEF AppRelease, AppAcquire, LoopTypes, RestTypes, ghosts
    <2>4. QED
      BY <2>1, <2>3, PrimedParts
  <1>11. CASE InvokeState(t)
    <2>1. Stacks' /\ flags' \in [Obj -> Word]
      BY <1>1, <1>2, <1>3, <1>11, AtFrame, StoreFlagTypes, DoneKeepsStacks
         DEF InvokeState
    <2>2. LoopTypes' /\ RestTypes'
      BY <1>1, <1>11, <2>1 DEF InvokeState, LoopTypes, RestTypes, ghosts
    <2>3. QED
      BY <2>1, <2>2, PrimedParts
  <1>12. CASE Tell(t)
    <2>1. Top(t).obj \in Obj
      BY <1>1, <1>2, <1>12, AtFrame DEF Tell
    <2>2. Stacks'
      BY <1>1, <1>2, <1>12, AtFrame, GotoKeepsStacks DEF Tell
    <2>3. LoopTypes' /\ RestTypes'
      BY <1>1, <1>12, <2>1 DEF Tell, LoopTypes, RestTypes
    <2>4. QED
      BY <2>2, <2>3, PrimedParts
  <1>13. CASE NotifyDone(t)
    <2>1. Stacks'
      BY <1>1, <1>2, <1>13, AtFrame, DoneKeepsStacks DEF NotifyDone
    <2>2. LoopTypes' /\ RestTypes'
      BY <1>1, <1>13 DEF NotifyDone, LoopTypes, RestTypes, ghosts
    <2>3. QED
      BY <2>1, <2>2, PrimedParts
  <1>14. CASE PoolIns(t)
    <2>1. dep[t] > 0 /\ Top(t).obj \in Obj
      BY <1>1, <1>2, <1>14, AtFrame DEF PoolIns
    <2>2. Stacks'
      BY <1>1, <1>14, <2>1, PopKeepsStacks DEF PoolIns
    <2>3. LoopTypes' /\ RestTypes'
      BY <1>1, <1>14, <2>1 DEF PoolIns, LoopTypes, RestTypes, ghosts
    <2>4. QED
      BY <2>2, <2>3, PrimedParts
  <1>15. QED
    BY <1>4, <1>5, <1>6, <1>7, <1>8, <1>9, <1>10, <1>11, <1>12, <1>13, <1>14
       DEF Advance

\* Every step keeps the invariant.
THEOREM NextTypes == IInv /\ [Next]_vars => IInv'
  <1> SUFFICES ASSUME IInv, [Next]_vars PROVE IInv'
    OBVIOUS
  <1>1. CASE Next
    <2>1. PICK t \in Thread :
            \/ Request(t) \/ Advance(t) \/ AppAcquire(t) \/ NotifyDone(t)
            \/ PoolTake(t) \/ Gc(t)
            \/ \E o \in Obj : FireTimer(t, o)
            \/ \E to \in State, rDO \in BOOLEAN : Return(t, to, rDO)
      BY <1>1 DEF Next
    <2>2. QED
      BY <2>1, RequestTypes, DeliveryTypes, TurnTypes, AdvanceTypes
  <1>2. CASE UNCHANGED vars
    BY <1>2 DEF vars, IInv, TypeOK, Stacks, Blank
  <1>3. QED
    BY <1>1, <1>2

\* The type invariant holds of every reachable state, whatever the program does
\* and however its threads interleave, torn flag stores included.
THEOREM TypeInvariant == Spec => []TypeOK
  <1>1. IInv => TypeOK
    BY DEF IInv
  <1>2. QED
    BY <1>1, InitTypes, NextTypes, PTL DEF Spec

(***************************************************************************)
(* One runner.                                                             *)
(*                                                                         *)
(* SingleRunner is not inductive: that nobody runs the object a call is    *)
(* about to lock follows only if whoever runs an object has its state_lock *)
(* up.  A store to another bitfield keeps state_lock only if it is a store *)
(* to that bit alone, so the theorem assumes ~Torn.                        *)
(***************************************************************************)

Holds(u, d, o) == call[u][d].obj = o /\ call[u][d].pc \in Locked

Alone ==
    \A o \in Obj : \A u \in Thread : \A d \in 1..MaxDepth :
        Holds(u, d, o) =>
            /\ flags[o]["lock"]
            /\ \A v \in Thread : \A e \in 1..MaxDepth :
                  Holds(v, e, o) => v = u /\ e = d

\* A step that sets one place keeps Alone if the frame it puts there has its
\* object's lock and its object to itself, and the other runners keep theirs.
LEMMA PlaceKeepsAlone ==
    ASSUME call \in [Thread -> [1..MaxDepth -> Frame]], Alone,
           NEW t \in Thread, NEW k \in 1..MaxDepth, NEW f \in Frame,
           call' = [call EXCEPT ![t][k] = f],
           f.pc \in Locked /\ f.obj \in Obj =>
              /\ flags'[f.obj]["lock"]
              /\ \A u \in Thread : \A d \in 1..MaxDepth :
                    Holds(u, d, f.obj) => u = t /\ d = k,
           \A o \in Obj : \A u \in Thread : \A d \in 1..MaxDepth :
              Holds(u, d, o) /\ ~(u = t /\ d = k) => flags'[o]["lock"]
    PROVE  Alone'
  <1>1. \A u \in Thread : \A d \in 1..MaxDepth :
           call'[u][d] = IF u = t /\ d = k THEN f ELSE call[u][d]
    BY PlaceSet
  <1>2. SUFFICES ASSUME NEW o \in Obj, NEW u \in Thread, NEW d \in 1..MaxDepth,
                        Holds(u, d, o)'
                 PROVE  /\ flags'[o]["lock"]
                        /\ \A v \in Thread : \A e \in 1..MaxDepth :
                              Holds(v, e, o)' => v = u /\ e = d
    BY DEF Alone
  <1>3. CASE u = t /\ d = k
    BY <1>1, <1>2, <1>3 DEF Holds
  <1>4. CASE ~(u = t /\ d = k)
    <2>1. Holds(u, d, o)
      BY <1>1, <1>2, <1>4 DEF Holds
    <2>2. flags'[o]["lock"]
      BY <1>4, <2>1
    <2>3. ASSUME NEW v \in Thread, NEW e \in 1..MaxDepth, Holds(v, e, o)'
          PROVE  v = u /\ e = d
      <3>1. CASE v = t /\ e = k
        BY <1>1, <1>4, <2>1, <2>3, <3>1 DEF Holds
      <3>2. CASE ~(v = t /\ e = k)
        BY <1>1, <2>1, <2>3, <3>2 DEF Holds, Alone
      <3>3. QED
        BY <3>1, <3>2
    <2>4. QED
      BY <2>2, <2>3
  <1>5. QED
    BY <1>3, <1>4

\* No lock is lowered.
LocksStay == \A o \in Obj : flags[o]["lock"] => flags'[o]["lock"]

\* A new call, and a return, put a frame that runs nothing in a place.
LEMMA QuietKeepsAlone ==
    ASSUME Stacks, Alone, LocksStay, NEW t \in Thread, NEW k \in 1..MaxDepth,
           NEW f \in Frame, f.pc \notin Locked, call' = [call EXCEPT ![t][k] = f]
    PROVE  Alone'
  <1>1. call \in [Thread -> [1..MaxDepth -> Frame]]
    BY DEF Stacks
  <1>2. \A o \in Obj : \A u \in Thread : \A d \in 1..MaxDepth :
           Holds(u, d, o) => flags'[o]["lock"]
    BY DEF Alone, LocksStay
  <1>3. QED
    BY <1>1, <1>2, PlaceKeepsAlone

\* A new call runs nothing yet.
LEMMA NewCallKeepsAlone ==
    ASSUME Stacks, Alone, LocksStay, NEW t \in Thread, dep[t] < MaxDepth,
           NEW o \in Obj, NEW e \in Event, NEW i \in BOOLEAN,
           NEW pc \in Pc \ Locked, Push(t, NewFrame(o, e, i, pc))
    PROVE  Alone'
  <1>1. dep[t] + 1 \in 1..MaxDepth
    BY BoundsAssumption DEF Stacks
  <1>2. NewFrame(o, e, i, pc) \in Frame
    BY NewFrameFields
  <1>3. NewFrame(o, e, i, pc).pc \notin Locked
    BY DEF NewFrame
  <1>4. QED
    BY <1>1, <1>2, <1>3, QuietKeepsAlone DEF Push

\* A call that returns from outside the loop ran nothing.
LEMMA PopKeepsAlone ==
    ASSUME Stacks, Alone, LocksStay, NEW t \in Thread, dep[t] > 0, Pop(t)
    PROVE  Alone'
  <1>1. dep[t] \in 1..MaxDepth
    BY TopFrame
  <1>2. NoFrame \in Frame /\ NoFrame.pc \notin Locked
    BY NoFrameFields DEF Locked
  <1>3. QED
    BY <1>1, <1>2, QuietKeepsAlone DEF Pop

\* A step of the top frame that does not change whether it runs its object.
LEMMA GotoKeepsAlone ==
    ASSUME Stacks, Alone, LocksStay, NEW t \in Thread, dep[t] > 0,
           Top(t).obj \in Obj, NEW pc \in Pc,
           pc \in Locked => Top(t).pc \in Locked, Goto(t, pc)
    PROVE  Alone'
  <1> DEFINE f == Top(t)
             g == [f EXCEPT !.pc = pc]
  <1>1. /\ dep[t] \in 1..MaxDepth /\ f \in Frame
        /\ call \in [Thread -> [1..MaxDepth -> Frame]]
    BY TopFrame DEF Stacks
  <1>2. g \in Frame /\ g.pc = pc /\ g.obj = f.obj
    BY <1>1, MovedFrame
  <1>3. call' = [call EXCEPT ![t][dep[t]] = g]
    BY DEF Goto, SetTop
  <1>4. \A o \in Obj : \A u \in Thread : \A d \in 1..MaxDepth :
           Holds(u, d, o) => flags'[o]["lock"]
    BY DEF Alone, LocksStay
  <1>5. ASSUME pc \in Locked
        PROVE  /\ flags'[g.obj]["lock"]
               /\ \A u \in Thread : \A d \in 1..MaxDepth :
                     Holds(u, d, g.obj) => u = t /\ d = dep[t]
    <2>1. Holds(t, dep[t], g.obj)
      BY <1>2, <1>5 DEF Holds, Top
    <2>2. QED
      BY <1>1, <1>2, <1>4, <2>1 DEF Alone
  <1> HIDE DEF g, f
  <1>6. QED
    BY <1>1, <1>2, <1>3, <1>4, <1>5, PlaceKeepsAlone

\* The end of the notification runs nothing.
LEMMA DoneKeepsAlone ==
    ASSUME Stacks, Alone, LocksStay, NEW t \in Thread, dep[t] > 0,
           Top(t).obj \in Obj, Done(t)
    PROVE  Alone'
  <1>1. "ins" \in Pc /\ "ins" \notin Locked
    BY DEF Pc, Locked
  <1>2. QED
    BY <1>1, GotoKeepsAlone, PopKeepsAlone DEF Done

\* A store that leaves the other flags of the word alone does not touch
\* state_lock: here Torn must be FALSE.
LEMMA StoreFlagKeepsAlone ==
    ASSUME Stacks, Alone, flags \in [Obj -> Word], ~Torn, NEW t \in Thread,
           dep[t] > 0, Top(t).obj \in Obj, NEW bit \in Flag \ {"lock"},
           NEW v \in BOOLEAN, NEW pc \in Pc,
           pc \in Locked => Top(t).pc \in Locked, StoreFlag(t, bit, v, pc)
    PROVE  Alone'
  <1>1. /\ flags' = [flags EXCEPT ![Top(t).obj][bit] = v]
        /\ Goto(t, pc)
    BY DEF StoreFlag
  <1>2. LocksStay
    <2> SUFFICES ASSUME NEW o \in Obj, flags[o]["lock"] PROVE flags'[o]["lock"]
      BY DEF LocksStay
    <2>1. flags[o] \in Word /\ "lock" \in Flag
      BY DEF Flag
    <2>2. [flags[o] EXCEPT ![bit] = v]["lock"] = flags[o]["lock"]
      BY <2>1 DEF Word
    <2>3. CASE o = Top(t).obj
      <3>1. flags'[o] = [flags[o] EXCEPT ![bit] = v]
        BY <1>1, <2>3
      <3>2. QED
        BY <2>2, <3>1
    <2>4. CASE o # Top(t).obj
      BY <1>1, <2>4
    <2>5. QED
      BY <2>3, <2>4
  <1>3. QED
    BY <1>1, <1>2, GotoKeepsAlone

\* The end of the loop lowers the lock of an object nobody else runs.
LEMMA LeaveKeepsAlone ==
    ASSUME Stacks, Alone, flags \in [Obj -> Word], NEW t \in Thread, dep[t] > 0,
           NEW f \in Frame, f.obj \in Obj,
           \A u \in Thread : \A d \in 1..MaxDepth :
              Holds(u, d, f.obj) => u = t /\ d = dep[t],
           NEW q, NEW occ, NEW fl \in Word, NEW ins \in BOOLEAN,
           Leave(t, f, f.obj, q, occ, fl, ins)
    PROVE  Alone'
  <1> DEFINE g == [f EXCEPT !.pc = "post", !.ins = ins]
  <1>1. "post" \in Pc /\ "post" \notin Locked
    BY DEF Pc, Locked
  <1>2. g \in Frame /\ g.pc \notin Locked
    BY <1>1, MovedFrame
  <1>3. /\ dep[t] \in 1..MaxDepth
        /\ call \in [Thread -> [1..MaxDepth -> Frame]]
    BY TopFrame DEF Stacks
  <1>4. call' = [call EXCEPT ![t][dep[t]] = g]
    BY DEF Leave, SetTop
  <1>5. ASSUME NEW o \in Obj, NEW u \in Thread, NEW d \in 1..MaxDepth,
               Holds(u, d, o), ~(u = t /\ d = dep[t])
        PROVE  flags'[o]["lock"]
    <2>1. o # f.obj
      BY <1>5
    <2>2. flags'[o] = flags[o]
      BY <2>1 DEF Leave
    <2>3. QED
      BY <1>5, <2>2 DEF Alone
  <1> HIDE DEF g
  <1>6. QED
    BY <1>2, <1>3, <1>4, <1>5, PlaceKeepsAlone

\* A turn of the loop keeps the lock and runs the object, or leaves.
LEMMA ProceedKeepsAlone ==
    ASSUME Stacks, Alone, flags \in [Obj -> Word], NEW t \in Thread, dep[t] > 0,
           NEW f \in Frame, f.obj \in Obj,
           \A u \in Thread : \A d \in 1..MaxDepth :
              Holds(u, d, f.obj) => u = t /\ d = dep[t],
           NEW s, NEW w, NEW q, NEW occ, NEW fl \in Word, fl["lock"],
           NEW inHand \in BOOLEAN, Proceed(t, f, f.obj, s, w, q, occ, fl, inHand)
    PROVE  Alone'
  <1>1. {"lock", "unlock"} \subseteq Pc /\ "thq" \in Flag /\ "lock" \in Flag
    BY DEF Pc, Flag
  <1>2. /\ dep[t] \in 1..MaxDepth
        /\ call \in [Thread -> [1..MaxDepth -> Frame]]
    BY TopFrame DEF Stacks
  <1>3. f.ins \in BOOLEAN
    BY DEF Frame
  <1>4. ASSUME NEW pc \in {"lock", "unlock"},
               flags' = [flags EXCEPT ![f.obj] = [fl EXCEPT !["thq"] = FALSE]],
               SetTop(t, [f EXCEPT !.pc = pc])
        PROVE  Alone'
    <2> DEFINE g == [f EXCEPT !.pc = pc]
    <2>1. g \in Frame /\ g.obj = f.obj
      BY <1>1, MovedFrame
    <2>2. call' = [call EXCEPT ![t][dep[t]] = g]
      BY <1>4 DEF SetTop
    <2>3. flags'[f.obj]["lock"]
      <3>1. flags'[f.obj] = [fl EXCEPT !["thq"] = FALSE]
        BY <1>4
      <3>2. [fl EXCEPT !["thq"] = FALSE]["lock"] = fl["lock"]
        BY <1>1 DEF Word
      <3>3. QED
        BY <3>1, <3>2
    <2>4. ASSUME NEW o \in Obj, NEW u \in Thread, NEW d \in 1..MaxDepth,
                 Holds(u, d, o), ~(u = t /\ d = dep[t])
          PROVE  flags'[o]["lock"]
      <3>1. flags'[o] = flags[o]
        BY <1>4, <2>4
      <3>2. QED
        BY <2>4, <3>1 DEF Alone
    <2> HIDE DEF g
    <2>5. /\ flags'[g.obj]["lock"]
          /\ \A u \in Thread : \A d \in 1..MaxDepth :
                Holds(u, d, g.obj) => u = t /\ d = dep[t]
      BY <2>1, <2>3
    <2>6. QED
      BY <1>2, <2>1, <2>2, <2>4, <2>5, PlaceKeepsAlone
  <1>5. CASE /\ flags' = [flags EXCEPT ![f.obj] = [fl EXCEPT !["thq"] = FALSE]]
             /\ \E pc \in {"lock", "unlock"} : SetTop(t, [f EXCEPT !.pc = pc])
    BY <1>4, <1>5
  <1>6. CASE Leave(t, f, f.obj, <<>>, {}, fl, f.ins)
    BY <1>3, <1>6, LeaveKeepsAlone
  <1>7. CASE Leave(t, f, f.obj, q, occ, fl, f.ins)
    BY <1>3, <1>7, LeaveKeepsAlone
  <1>8. CASE Leave(t, f, f.obj, <<>>, occ \ {q[i] : i \in 1..Len(q)},
                   [fl EXCEPT !["thq"] = TRUE], f.ins \/ ~fl["thq"])
    <2>1. [fl EXCEPT !["thq"] = TRUE] \in Word /\ (f.ins \/ ~fl["thq"]) \in BOOLEAN
      BY <1>1, WordSet
    <2>2. QED
      BY <1>8, <2>1, LeaveKeepsAlone
  <1>9. QED
    BY <1>5, <1>6, <1>7, <1>8 DEF Proceed

\* At the start nothing runs.
LEMMA InitAlone == Init => Alone
  <1> SUFFICES ASSUME Init, NEW o \in Obj, NEW u \in Thread, NEW d \in 1..MaxDepth
               PROVE  ~Holds(u, d, o)
    BY DEF Alone
  <1>1. call[u][d].pc = "none"
    BY NoFrameFields DEF Init
  <1>2. QED
    BY <1>1 DEF Holds, Locked

\* Every step keeps Alone when flag stores are not torn.
THEOREM NextAlone ==
    ASSUME ~Torn, IInv, Alone, [Next]_vars
    PROVE  Alone'
  <1>1. Stacks /\ LoopTypes /\ RestTypes /\ flags \in [Obj -> Word]
    BY Parts DEF LoopTypes
  <1>2. /\ "TSE_INIT" \in Event /\ "TSE_INVOKE" \in Event /\ "TSE_THREAD" \in Event
        /\ \A e \in Once \cup Many : e \in Event
    BY DEF Event
  <1>3. MaxDepth \in Nat /\ 2 < MaxDepth
    BY BoundsAssumption
  <1>4. /\ {"ref", "enter", "lock", "acquire", "runS", "unlock", "release", "runT",
             "post", "tell", "notify", "ins"} \subseteq Pc \ {"none", "gc"}
        /\ {"ref", "mtx", "inv", "thq"} \subseteq Flag \ {"lock"}
        /\ "enter" \in Pc \ Locked /\ "ref" \in Pc \ Locked
        /\ {"lock", "acquire", "runS", "unlock", "release", "runT"} = Locked
        /\ {"post", "tell", "notify", "ins"} \cap Locked = {}
    BY DEF Pc, Flag, Locked
  <1>5. CASE UNCHANGED vars
    BY <1>5 DEF vars, Alone, Holds
  <1>6. ASSUME NEW t \in Thread, Request(t)
        PROVE  Alone'
    <2>1. PICK o \in Obj :
             \/ Construct(t, o)
             \/ \E e \in Once \cup Many : Call(t, o, e)
             \/ \E delay \in BOOLEAN : Destroy(t, o, delay)
             \/ RefEvent(t, o)
      BY <1>6 DEF Request
    <2>2. CASE Construct(t, o)
      <3>1. LocksStay
        BY <2>2 DEF Construct, LocksStay
      <3>2. QED
        BY <1>1, <1>2, <1>4, <2>2, <3>1, NewCallKeepsAlone DEF Construct, CanCall
    <2>3. CASE \E e \in Once \cup Many : Call(t, o, e)
      <3>1. LocksStay
        BY <2>3 DEF Call, LocksStay
      <3>2. QED
        BY <1>1, <1>2, <1>4, <2>3, <3>1, NewCallKeepsAlone DEF Call, CanCall
    <2>4. CASE \E delay \in BOOLEAN : Destroy(t, o, delay)
      <3>1. PICK delay \in BOOLEAN : Destroy(t, o, delay)
        BY <2>4
      <3>2. LocksStay
        <4> SUFFICES ASSUME NEW x \in Obj, flags[x]["lock"] PROVE flags'[x]["lock"]
          BY DEF LocksStay
        <4>1. flags' = [flags EXCEPT ![o]["destroy"] = TRUE]
          BY <3>1 DEF Destroy
        <4>2. flags'[x]["lock"] = flags[x]["lock"]
          BY <1>1, <4>1 DEF Word, Flag
        <4>3. QED
          BY <4>2
      <3>3. CASE delay
        BY <3>1, <3>2, <3>3 DEF Destroy, Alone, Holds, LocksStay
      <3>4. CASE ~delay
        BY <1>1, <1>2, <1>4, <3>1, <3>2, <3>4, NewCallKeepsAlone DEF Destroy, CanCall
      <3>5. QED
        BY <3>3, <3>4
    <2>5. CASE RefEvent(t, o)
      <3>1. LocksStay
        BY <2>5 DEF RefEvent, LocksStay
      <3>2. dep[t] < MaxDepth
        BY <1>3, <2>5 DEF RefEvent
      <3>3. Push(t, NewFrame(o, "TSE_INVOKE", FALSE, "ref"))
        BY <2>5 DEF RefEvent
      <3>4. QED
        BY <1>1, <1>2, <1>4, <3>1, <3>2, <3>3, NewCallKeepsAlone
    <2>6. QED
      BY <2>1, <2>2, <2>3, <2>4, <2>5
  <1>7. ASSUME NEW t \in Thread, PoolTake(t)
        PROVE  Alone'
    <2>1. LocksStay
      BY <1>7 DEF PoolTake, LocksStay
    <2>2. ready # <<>> /\ Head(ready) \in Obj
      BY <1>1, <1>7 DEF PoolTake, RestTypes
    <2>3. dep[t] < MaxDepth
      BY <1>3, <1>7 DEF PoolTake
    <2>4. Push(t, NewFrame(Head(ready), "TSE_THREAD", TRUE, "enter"))
      BY <1>7 DEF PoolTake
    <2>5. QED
      BY <1>1, <1>2, <1>4, <2>1, <2>2, <2>3, <2>4, NewCallKeepsAlone
  <1>8. ASSUME NEW t \in Thread, Gc(t)
        PROVE  Alone'
    <2>1. LocksStay
      BY <1>8 DEF Gc, GcEnd, GcStart, GcDeliver, LocksStay
    <2>2. CASE GcEnd(t)
      BY <1>1, <2>1, <2>2, PopKeepsAlone DEF GcEnd, At
    <2>3. ASSUME NEW i \in 1..Len(gcq), GcStart(t, i)
          PROVE  Alone'
      <3> DEFINE g == NewFrame(NoObj, "TSE_INIT", FALSE, "gc")
                 f == NewFrame(gcq[i].obj, gcq[i].ev, FALSE, "enter")
      <3>1. /\ call' = [call EXCEPT ![t] = [@ EXCEPT ![1] = g, ![2] = f]]
            /\ flags' = flags
        BY <2>3 DEF GcStart
      <3>2. g.pc \notin Locked /\ f.pc \notin Locked
        BY DEF NewFrame, Locked
      <3> HIDE DEF f, g
      <3> DEFINE c == [call[t] EXCEPT ![1] = g]
      <3>3. call' = [call EXCEPT ![t] = [c EXCEPT ![2] = f]]
        BY <3>1
      <3>4. /\ call \in [Thread -> [1..MaxDepth -> Frame]] /\ call[t] \in [1..MaxDepth -> Frame]
            /\ 1 \in 1..MaxDepth /\ 2 \in 1..MaxDepth
        BY <1>1, <1>3 DEF Stacks
      <3>5. \A d \in 1..MaxDepth : c[d] = IF d = 1 THEN g ELSE call[t][d]
        BY <3>4
      <3>6. \A d \in 1..MaxDepth : [c EXCEPT ![2] = f][d] = IF d = 2 THEN f ELSE c[d]
        BY <3>4
      <3> HIDE DEF c
      <3>7. ASSUME NEW o \in Obj, NEW u \in Thread, NEW d \in 1..MaxDepth, Holds(u, d, o)'
            PROVE  Holds(u, d, o)
        <4>1. CASE u # t
          <5>1. call'[u] = call[u]
            BY <3>3, <3>4, <4>1
          <5>2. QED
            BY <3>7, <5>1 DEF Holds
        <4>2. CASE u = t
          <5>1. call'[u][d] = IF d = 2 THEN f ELSE IF d = 1 THEN g ELSE call[u][d]
            BY <3>3, <3>4, <3>5, <3>6, <4>2
          <5>2. QED
            BY <3>2, <3>7, <5>1 DEF Holds
        <4>3. QED
          BY <4>1, <4>2
      <3>8. QED
        BY <3>1, <3>7 DEF Alone
    <2>4. ASSUME NEW i \in 1..Len(gcq), GcDeliver(t, i)
          PROVE  Alone'
      <3>1. gcq[i].obj \in Obj /\ gcq[i].ev \in Event
        BY <1>1, JobTaken DEF RestTypes
      <3>2. dep[t] = 1
        BY <1>1, <2>4, TopFrame DEF GcDeliver, At, Sound
      <3>3. dep[t] < MaxDepth
        BY <1>3, <3>2
      <3>4. Push(t, NewFrame(gcq[i].obj, gcq[i].ev, FALSE, "enter"))
        BY <2>4 DEF GcDeliver
      <3>5. QED
        BY <1>1, <1>4, <2>1, <3>1, <3>3, <3>4, NewCallKeepsAlone
    <2>5. QED
      BY <1>8, <2>2, <2>3, <2>4 DEF Gc
  <1>9. ASSUME NEW t \in Thread, NEW o \in Obj, FireTimer(t, o)
        PROVE  Alone'
    <2>1. LocksStay
      BY <1>9 DEF FireTimer, LocksStay
    <2>2. dep[t] < MaxDepth
      BY <1>3, <1>9 DEF FireTimer
    <2>3. Push(t, NewFrame(o, "TSE_INVOKE", FALSE, "enter"))
      BY <1>9 DEF FireTimer
    <2>4. QED
      BY <1>1, <1>2, <1>4, <2>1, <2>2, <2>3, NewCallKeepsAlone
  <1>10. ASSUME NEW t \in Thread, NEW to \in State, NEW rDO \in BOOLEAN,
                Return(t, to, rDO)
         PROVE  Alone'
    <2> DEFINE f == Top(t)
               o == f.obj
               fl == IF to # state[o] THEN [flags[o] EXCEPT !["inv"] = TRUE]
                                      ELSE flags[o]
    <2>1. At(t, "runS") \/ At(t, "runT")
      BY <1>10 DEF Return
    <2>2. dep[t] > 0 /\ dep[t] \in 1..MaxDepth /\ f \in Frame /\ o \in Obj
          /\ Holds(t, dep[t], o)
      BY <1>1, <1>4, <2>1, AtFrame DEF Holds, Top
    <2>3. /\ flags[o]["lock"]
          /\ \A u \in Thread : \A d \in 1..MaxDepth :
                Holds(u, d, o) => u = t /\ d = dep[t]
      BY <2>2 DEF Alone
    <2>4. fl \in Word /\ fl["lock"]
      <3>1. flags[o] \in Word
        BY <1>1, <2>2
      <3>2. [flags[o] EXCEPT !["inv"] = TRUE] \in Word
            /\ [flags[o] EXCEPT !["inv"] = TRUE]["lock"] = flags[o]["lock"]
        BY <3>1 DEF Word, Flag
      <3>3. QED
        BY <2>3, <3>1, <3>2
    <2>5. Proceed(t, f, o, to, thrInfo[o], que[o], occur[o], fl, rDO)
      BY <1>10 DEF Return
    <2> HIDE DEF fl, f
    <2>6. QED
      BY <1>1, <2>2, <2>3, <2>4, <2>5, ProceedKeepsAlone
  <1>11. ASSUME NEW t \in Thread, EnterLock(t)
         PROVE  Alone'
    <2> DEFINE f == Top(t)
               o == f.obj
               w == IF f.info THEN t ELSE NoThread
               q == Insert(que[o], occur[o], f.ev)
               occ == InsertMark(occur[o], f.ev)
               fl == [flags[o] EXCEPT !["lock"] = TRUE]
    <2>1. At(t, "enter") /\ ~flags[o]["lock"]
      BY <1>11 DEF EnterLock
    <2>2. dep[t] > 0 /\ f \in Frame /\ o \in Obj
      BY <1>1, <1>4, <2>1, AtFrame
    <2>3. \A u \in Thread : \A d \in 1..MaxDepth : ~Holds(u, d, o)
      BY <2>1, <2>2 DEF Alone
    <2>4. fl \in Word /\ fl["lock"]
      BY <1>1, <2>2 DEF Word, Flag
    <2>5. Proceed(t, f, o, state[o], w, q, occ, fl, FALSE)
      BY <1>11 DEF EnterLock
    <2> HIDE DEF fl, w, q, occ, f
    <2>6. QED
      BY <1>1, <2>2, <2>3, <2>4, <2>5, ProceedKeepsAlone
  <1>12. ASSUME NEW t \in Thread, Escape(t) \/ EnterZombie(t) \/ PoolIns(t)
         PROVE  Alone'
    <2>1. LocksStay
      BY <1>12 DEF Escape, EnterZombie, PoolIns, LocksStay
    <2>2. dep[t] > 0 /\ Pop(t)
      BY <1>12 DEF Escape, EnterZombie, PoolIns, At
    <2>3. QED
      BY <1>1, <2>1, <2>2, PopKeepsAlone
  <1>13. ASSUME NEW t \in Thread, EnterBusy(t)
         PROVE  Alone'
    <2>1. dep[t] > 0 /\ Pop(t)
      BY <1>13 DEF EnterBusy, At
    <2>2. LocksStay
      <3> SUFFICES ASSUME NEW x \in Obj, flags[x]["lock"] PROVE flags'[x]["lock"]
        BY DEF LocksStay
      <3>1. flags' = flags \/ flags' = [flags EXCEPT ![Top(t).obj]["thq"] = FALSE]
        BY <1>13 DEF EnterBusy
      <3>2. ASSUME NEW y, flags' = [flags EXCEPT ![y]["thq"] = FALSE]
            PROVE  flags'[x]["lock"] = flags[x]["lock"]
        <4>1. flags \in [Obj -> Word]
          BY <1>1
        <4>2. CASE y = x
          BY <3>2, <4>1, <4>2 DEF Word, Flag
        <4>3. CASE y # x
          BY <3>2, <4>1, <4>3
        <4>4. QED
          BY <4>2, <4>3
      <3>3. CASE flags' = flags
        BY <3>3
      <3>4. QED
        BY <3>1, <3>2, <3>3
    <2>3. QED
      BY <1>1, <2>1, <2>2, PopKeepsAlone
  <1>14. ASSUME NEW t \in Thread, RefFlag(t) \/ AppMtxLock(t) \/ AppMtxUnlock(t)
         PROVE  Alone'
    <2>1. CASE RefFlag(t)
      BY <1>1, <1>4, <2>1, AtFrame, StoreFlagKeepsAlone DEF RefFlag
    <2>2. ASSUME NEW pc \in {"lock", "unlock"}, NEW run \in {"runS", "runT"},
                 NEW next \in {"acquire", "release"}, NEW v \in BOOLEAN, At(t, pc),
                 (Goto(t, run) /\ UNCHANGED flags) \/ StoreFlag(t, "mtx", v, next)
          PROVE  Alone'
      <3>1. dep[t] > 0 /\ Top(t).obj \in Obj /\ Top(t).pc \in Locked
        BY <1>1, <1>4, <2>2, AtFrame
      <3>2. CASE Goto(t, run) /\ UNCHANGED flags
        BY <1>1, <1>4, <3>1, <3>2, GotoKeepsAlone DEF LocksStay
      <3>3. CASE StoreFlag(t, "mtx", v, next)
        BY <1>1, <1>4, <3>1, <3>3, StoreFlagKeepsAlone
      <3>4. QED
        BY <2>2, <3>2, <3>3
    <2>3. CASE AppMtxLock(t)
      BY <2>2, <2>3 DEF AppMtxLock
    <2>4. CASE AppMtxUnlock(t)
      BY <2>2, <2>4 DEF AppMtxUnlock
    <2>5. QED
      BY <1>14, <2>1, <2>3, <2>4
  <1>15. ASSUME NEW t \in Thread, AppAcquire(t) \/ AppRelease(t)
         PROVE  Alone'
    <2>1. LocksStay
      BY <1>15 DEF AppAcquire, AppRelease, LocksStay
    <2>2. dep[t] > 0 /\ Top(t).obj \in Obj /\ Top(t).pc \in Locked
      BY <1>1, <1>4, <1>15, AtFrame DEF AppAcquire, AppRelease
    <2>3. QED
      BY <1>1, <1>4, <1>15, <2>1, <2>2, GotoKeepsAlone DEF AppAcquire, AppRelease
  <1>16. ASSUME NEW t \in Thread, InvokeState(t) \/ Tell(t) \/ NotifyDone(t)
         PROVE  Alone'
    <2>1. dep[t] > 0 /\ Top(t).obj \in Obj
      BY <1>1, <1>4, <1>16, AtFrame DEF InvokeState, Tell, NotifyDone
    <2>2. CASE InvokeState(t)
      <3>1. CASE Done(t) /\ UNCHANGED flags
        BY <1>1, <2>1, <3>1, DoneKeepsAlone DEF LocksStay
      <3>2. CASE StoreFlag(t, "inv", FALSE, "tell")
        BY <1>1, <1>4, <2>1, <3>2, StoreFlagKeepsAlone
      <3>3. QED
        BY <2>2, <3>1, <3>2 DEF InvokeState
    <2>3. CASE Tell(t)
      <3>1. LocksStay
        BY <2>3 DEF Tell, LocksStay
      <3>2. QED
        BY <1>1, <1>4, <2>1, <2>3, <3>1, GotoKeepsAlone DEF Tell
    <2>4. CASE NotifyDone(t)
      <3>1. LocksStay
        BY <2>4 DEF NotifyDone, LocksStay
      <3>2. QED
        BY <1>1, <2>1, <2>4, <3>1, DoneKeepsAlone DEF NotifyDone
    <2>5. QED
      BY <1>16, <2>2, <2>3, <2>4
  <1>17. CASE Next
    <2>1. PICK t \in Thread :
            \/ Request(t) \/ Advance(t) \/ AppAcquire(t) \/ NotifyDone(t)
            \/ PoolTake(t) \/ Gc(t)
            \/ \E o \in Obj : FireTimer(t, o)
            \/ \E to \in State, rDO \in BOOLEAN : Return(t, to, rDO)
      BY <1>17 DEF Next
    <2>2. QED
      BY <2>1, <1>6, <1>7, <1>8, <1>9, <1>10, <1>11, <1>12, <1>13, <1>14, <1>15, <1>16
         DEF Advance
  <1>18. QED
    BY <1>5, <1>17

\* When a flag store leaves the other flags of its word alone, no two calls run
\* the same object at once: state_lock does what it is for.
THEOREM OneRunner ==
    ASSUME ~Torn
    PROVE  Spec => []SingleRunner
  <1>1. Alone => SingleRunner
    <2> SUFFICES ASSUME Alone, NEW o \in Obj, NEW p \in Place, NEW q \in Place,
                        Runs(p, o), Runs(q, o)
                 PROVE  p = q
      BY DEF SingleRunner
    <2>1. /\ p = <<p[1], p[2]>> /\ p[1] \in Thread /\ p[2] \in 1..MaxDepth
          /\ q = <<q[1], q[2]>> /\ q[1] \in Thread /\ q[2] \in 1..MaxDepth
      BY DEF Place
    <2>2. Holds(p[1], p[2], o) /\ Holds(q[1], q[2], o)
      BY DEF Runs, Fr, Holds
    <2>3. QED
      BY <2>1, <2>2 DEF Alone
  <1>2. IInv /\ Alone /\ [Next]_vars => Alone'
    BY NextAlone
  <1>3. QED
    BY <1>1, <1>2, InitTypes, NextTypes, InitAlone, PTL DEF Spec

-----------------------------------------------------------------------------
(* What the frames, the bits, the queues and the app-mutex know of one     *)
(* another.                                                                *)

\* What a frame is like where it stands.
FrameShape ==
    \A u \in Thread : \A d \in 1..MaxDepth :
        LET f == call[u][d] IN
        /\ f.word = <<>>
        /\ f.ins => f.pc \in {"post", "tell", "notify", "ins"}
        /\ f.pc = "ins" => f.ins
        /\ f.info => d = 1 /\ f.pc # "ref"

\* What the frame that runs an object knows of it.
Served ==
    \A u \in Thread : \A d \in 1..MaxDepth : \A o \in Obj :
        Holds(u, d, o) =>
            /\ thrInfo[o] # NoThread => thrInfo[o] = u /\ call[u][d].info
            /\ state[o] # Zom /\ o \notin want
            /\ call[u][d].pc \in {"acquire", "runS"} => flags[o]["mtx"]
            /\ call[u][d].pc \in {"release", "runT"} => ~flags[o]["mtx"]
            /\ call[u][d].pc \in {"unlock", "release", "runT"} => thrInfo[o] = u

\* What state_lock says of the object.
LockUsed ==
    \A o \in Obj :
        /\ flags[o]["lock"] => ~flags[o]["thq"]
        /\ flags[o]["lock"] =>
              \E u \in Thread : \E d \in 1..MaxDepth : Holds(u, d, o)
        /\ ~flags[o]["lock"] => ~flags[o]["mtx"] /\ que[o] = <<>>
        /\ flags[o]["thq"] => state[o] \in TsThread

\* A queue and its onlyOneEvent_occur.
Coal(q, occ) ==
    \A e \in Once :
        /\ e \in occ <=> \E i \in 1..Len(q) : q[i] = e
        /\ \A i, j \in 1..Len(q) : q[i] = e /\ q[j] = e => i = j
Coalesced == \A o \in Obj : Coal(que[o], occur[o])

\* A claim of the pool: an entry of the ready queue, or a frame that will make
\* one or has taken one.
InReady(i, o) == i \in 1..Len(ready) /\ ready[i] = o
Claiming(f, o) == f.obj = o /\ (f.ins \/ (f.info /\ f.pc = "enter"))
ClaimsAgree ==
    \A o \in Obj :
        /\ \A i, j \in Nat : InReady(i, o) /\ InReady(j, o) => i = j
        /\ \A u, v \in Thread : \A d, e \in 1..MaxDepth :
              Claiming(call[u][d], o) /\ Claiming(call[v][e], o) => u = v /\ d = e
        /\ \A i \in Nat : \A u \in Thread : \A d \in 1..MaxDepth :
              ~(InReady(i, o) /\ Claiming(call[u][d], o))
        /\ flags[o]["thq"] <=>
              \/ \E i \in Nat : InReady(i, o)
              \/ \E u \in Thread : \E d \in 1..MaxDepth : Claiming(call[u][d], o)

\* A state the listeners have not been told of is the business of a frame.
WillTell(f, o) ==
    /\ f.obj = o
    /\ f.pc = "tell" \/ (f.pc \in Locked \cup {"post"} /\ flags[o]["inv"])
ToldOrWillBe ==
    \A o \in Obj :
        told[o] # state[o] =>
            \E u \in Thread : \E d \in 1..MaxDepth : WillTell(call[u][d], o)

\* The levels of the app-mutex.
AppPlaces == {p \in Place : HasApp(Fr(p))}
Balance ==
    /\ IsFiniteSet(AppPlaces)
    /\ app.level = Cardinality(AppPlaces)
    /\ \A p \in AppPlaces : p[1] = app.owner
    /\ app.owner # NoThread => app.level # 0

\* What the parts of the dispatch know of one another.
Kept ==
    /\ FrameShape /\ Served /\ LockUsed
    /\ Coalesced /\ ClaimsAgree /\ ToldOrWillBe /\ Balance

(***************************************************************************)
(* The app-mutex.                                                          *)
(***************************************************************************)

\* Frames that take or drop nothing.
LEMMA BalanceSame ==
    ASSUME Balance, app' = app,
           \A u \in Thread : \A d \in 1..MaxDepth :
              HasApp(call[u][d])' <=> HasApp(call[u][d])
    PROVE  Balance'
  <1>1. \A p \in Place : HasApp(Fr(p))' <=> HasApp(Fr(p))
    BY DEF Place, Fr
  <1>2. AppPlaces' = AppPlaces
    BY <1>1 DEF AppPlaces
  <1>3. QED
    BY <1>2 DEF Balance

\* A frame of the owner's thread, or of any thread if nobody has it, takes a level.
LEMMA BalanceTake ==
    ASSUME Balance, NEW t \in Thread, NEW k \in 1..MaxDepth, AppFree(t),
           app' = Acquired(t), ~HasApp(call[t][k]), HasApp(call[t][k])',
           \A u \in Thread : \A d \in 1..MaxDepth : ~(u = t /\ d = k) =>
              (HasApp(call[u][d])' <=> HasApp(call[u][d]))
    PROVE  Balance'
  <1> DEFINE p == <<t, k>>
  <1>1. p \in Place /\ p \notin AppPlaces
    BY DEF Place, AppPlaces, Fr
  <1>2. AppPlaces' = AppPlaces \cup {p}
    <2>1. \A q \in Place : q # p => (HasApp(Fr(q))' <=> HasApp(Fr(q)))
      <3> SUFFICES ASSUME NEW q \in Place, q # p
                   PROVE  HasApp(Fr(q))' <=> HasApp(Fr(q))
        OBVIOUS
      <3>1. q = <<q[1], q[2]>> /\ q[1] \in Thread /\ q[2] \in 1..MaxDepth
        BY DEF Place
      <3>2. ~(q[1] = t /\ q[2] = k)
        BY <3>1
      <3>3. QED
        BY <3>1, <3>2 DEF Fr
    <2>2. HasApp(Fr(p))'
      BY DEF Fr
    <2> HIDE DEF p
    <2>3. QED
      BY <1>1, <2>1, <2>2 DEF AppPlaces
  <1>3. IsFiniteSet(AppPlaces) /\ app.level = Cardinality(AppPlaces)
    BY DEF Balance
  <1> HIDE DEF p
  <1>4. /\ IsFiniteSet(AppPlaces \cup {p})
        /\ Cardinality(AppPlaces \cup {p}) = Cardinality(AppPlaces) + 1
        /\ Cardinality(AppPlaces) \in Nat
    BY <1>1, <1>3, FS_AddElement, FS_CardinalityType
  <1>5. app'.owner = t /\ app'.level = app.level + 1
    BY DEF Acquired
  <1>6. \A q \in AppPlaces : q[1] = t
    <2>1. SUFFICES ASSUME NEW q \in AppPlaces PROVE q[1] = t
      OBVIOUS
    <2>2. q[1] = app.owner /\ q[1] \in Thread
      BY <2>1 DEF Balance, AppPlaces, Place
    <2>3. QED
      BY <2>2, ConstantsAssumption DEF AppFree
  <1>7. \A q \in AppPlaces' : q[1] = app'.owner
    BY <1>2, <1>5, <1>6 DEF p
  <1>8. QED
    BY <1>2, <1>3, <1>4, <1>5, <1>7 DEF Balance

\* A frame that has a level gives it back.
LEMMA BalanceDrop ==
    ASSUME Balance, NEW t \in Thread, NEW k \in 1..MaxDepth,
           app' = Released, HasApp(call[t][k]), ~HasApp(call[t][k])',
           \A u \in Thread : \A d \in 1..MaxDepth : ~(u = t /\ d = k) =>
              (HasApp(call[u][d])' <=> HasApp(call[u][d]))
    PROVE  Balance'
  <1> DEFINE p == <<t, k>>
  <1>1. p \in Place /\ p \in AppPlaces
    BY DEF Place, AppPlaces, Fr
  <1>2. AppPlaces' = AppPlaces \ {p}
    <2>1. \A q \in Place : q # p => (HasApp(Fr(q))' <=> HasApp(Fr(q)))
      <3> SUFFICES ASSUME NEW q \in Place, q # p
                   PROVE  HasApp(Fr(q))' <=> HasApp(Fr(q))
        OBVIOUS
      <3>1. q = <<q[1], q[2]>> /\ q[1] \in Thread /\ q[2] \in 1..MaxDepth
        BY DEF Place
      <3>2. ~(q[1] = t /\ q[2] = k)
        BY <3>1
      <3>3. QED
        BY <3>1, <3>2 DEF Fr
    <2>2. ~HasApp(Fr(p))'
      BY DEF Fr
    <2> HIDE DEF p
    <2>3. QED
      BY <1>1, <2>1, <2>2 DEF AppPlaces
  <1>3. IsFiniteSet(AppPlaces) /\ app.level = Cardinality(AppPlaces)
    BY DEF Balance
  <1> HIDE DEF p
  <1>4. /\ IsFiniteSet(AppPlaces \ {p})
        /\ Cardinality(AppPlaces \ {p}) = Cardinality(AppPlaces) - 1
        /\ Cardinality(AppPlaces) \in Nat
        /\ Cardinality(AppPlaces \ {p}) \in Nat
    BY <1>1, <1>3, FS_RemoveElement, FS_CardinalityType
  <1>5. /\ app'.level = app.level - 1
        /\ app'.owner = IF app.level = 1 THEN NoThread ELSE app.owner
    BY DEF Released
  <1>6. CASE app.level = 1
    <2>1. AppPlaces' = {}
      BY <1>2, <1>3, <1>4, <1>6, FS_EmptySet
    <2>2. QED
      BY <1>2, <1>3, <1>4, <1>5, <1>6, <2>1 DEF Balance
  <1>7. CASE app.level # 1
    <2>1. \A q \in AppPlaces' : q[1] = app'.owner
      BY <1>2, <1>5, <1>7 DEF Balance
    <2>2. QED
      BY <1>2, <1>3, <1>4, <1>5, <1>7, <2>1 DEF Balance
  <1>8. QED
    BY <1>6, <1>7

(***************************************************************************)
(* The queue.                                                              *)
(***************************************************************************)

\* An empty queue holds no coalesced event.
LEMMA CoalEmpty == Coal(<<>>, {})
  BY DEF Coal

\* _insEvent queues a coalesced event once, and leaves the queue with an event.
LEMMA CoalInsert ==
    ASSUME NEW q \in Seq(Event), NEW occ \in SUBSET Once, NEW e \in Event, Coal(q, occ)
    PROVE  /\ Coal(Insert(q, occ, e), InsertMark(occ, e))
           /\ Insert(q, occ, e) # <<>>
  <1>1. CASE e \in Once /\ e \in occ
    <2>1. \E i \in 1..Len(q) : q[i] = e
      BY <1>1 DEF Coal
    <2>2. q # <<>> /\ occ \cup {e} = occ
      BY <1>1, <2>1
    <2>3. QED
      BY <1>1, <2>2 DEF Insert, InsertMark
  <1>2. CASE ~(e \in Once /\ e \in occ)
    <2> DEFINE r == Append(q, e)
    <2>1. /\ Len(r) = Len(q) + 1 /\ Len(q) \in Nat
          /\ \A i \in 1..Len(r) : r[i] = IF i <= Len(q) THEN q[i] ELSE e
          /\ r # <<>>
      OBVIOUS
    <2>2. Insert(q, occ, e) = r
      BY <1>2 DEF Insert
    <2>3. InsertMark(occ, e) = IF e \in Once THEN occ \cup {e} ELSE occ
      BY DEF InsertMark
    <2> HIDE DEF r
    <2>4. ASSUME NEW x \in Once
          PROVE  /\ x \in InsertMark(occ, e) <=> \E i \in 1..Len(r) : r[i] = x
                 /\ \A i, j \in 1..Len(r) : r[i] = x /\ r[j] = x => i = j
      <3>1. /\ x \in occ <=> \E i \in 1..Len(q) : q[i] = x
            /\ \A i, j \in 1..Len(q) : q[i] = x /\ q[j] = x => i = j
        BY DEF Coal
      <3>2. CASE x = e
        <4>1. \A i \in 1..Len(q) : q[i] # x
          BY <1>2, <3>1, <3>2
        <4>2. r[Len(r)] = x /\ Len(r) \in 1..Len(r)
          BY <2>1, <3>2
        <4>3. \A i \in 1..Len(r) : r[i] = x => i = Len(r)
          BY <2>1, <4>1
        <4>4. QED
          BY <2>3, <3>2, <4>2, <4>3
      <3>3. CASE x # e
        <4>1. x \in InsertMark(occ, e) <=> x \in occ
          BY <2>3, <3>3
        <4>2. \A i \in 1..Len(r) : r[i] = x => i \in 1..Len(q) /\ q[i] = x
          BY <2>1, <3>3
        <4>3. \A i \in 1..Len(q) : i \in 1..Len(r) /\ r[i] = q[i]
          BY <2>1
        <4>4. QED
          BY <3>1, <4>1, <4>2, <4>3
      <3>4. QED
        BY <3>2, <3>3
    <2>5. QED
      BY <2>1, <2>2, <2>4 DEF Coal
  <1>3. QED
    BY <1>1, <1>2

\* The event the loop takes off the queue loses its mark.
LEMMA CoalTail ==
    ASSUME NEW q \in Seq(Event), NEW occ \in SUBSET Once, q # <<>>, Coal(q, occ)
    PROVE  Coal(Tail(q), occ \ {Head(q)})
  <1> DEFINE r == Tail(q)
  <1>1. /\ Len(r) = Len(q) - 1 /\ Len(q) \in Nat /\ Len(q) > 0
        /\ \A i \in 1..Len(r) : r[i] = q[i + 1]
        /\ Head(q) = q[1]
    OBVIOUS
  <1> HIDE DEF r
  <1>2. ASSUME NEW x \in Once
        PROVE  /\ x \in occ \ {q[1]} <=> \E i \in 1..Len(r) : r[i] = x
               /\ \A i, j \in 1..Len(r) : r[i] = x /\ r[j] = x => i = j
    <2>1. /\ x \in occ <=> \E i \in 1..Len(q) : q[i] = x
          /\ \A i, j \in 1..Len(q) : q[i] = x /\ q[j] = x => i = j
      BY DEF Coal
    <2>2. \A i \in 1..Len(r) : i + 1 \in 1..Len(q) /\ i + 1 # 1 /\ r[i] = q[i + 1]
      BY <1>1
    <2>3. \A i \in 1..Len(q) : i # 1 => i - 1 \in 1..Len(r) /\ r[i - 1] = q[i]
      BY <1>1
    <2>4. 1 \in 1..Len(q)
      BY <1>1
    <2>5. x \in occ \ {q[1]} => \E i \in 1..Len(r) : r[i] = x
      BY <2>1, <2>3
    <2>6. ASSUME NEW i \in 1..Len(r), r[i] = x
          PROVE  x \in occ \ {q[1]}
      BY <2>1, <2>2, <2>4, <2>6
    <2>7. ASSUME NEW i \in 1..Len(r), NEW j \in 1..Len(r), r[i] = x, r[j] = x
          PROVE  i = j
      <3>1. i + 1 = j + 1
        BY <2>1, <2>2, <2>7
      <3>2. QED
        BY <3>1
    <2>8. QED
      BY <2>5, <2>6, <2>7
  <1>3. QED
    BY <1>1, <1>2 DEF Coal, r

\* Dropping the whole queue drops every mark.
LEMMA CoalDrop ==
    ASSUME NEW q \in Seq(Event), NEW occ \in SUBSET Once, Coal(q, occ)
    PROVE  occ \ {q[i] : i \in 1..Len(q)} = {}
  BY DEF Coal

\* Queue by queue, a step that sets one object's keeps them coalesced.
LEMMA CoalescedStep ==
    ASSUME Coalesced, NEW o \in Obj, NEW q, NEW occ, Coal(q, occ),
           \A x \in Obj : /\ que'[x] = IF x = o THEN q ELSE que[x]
                          /\ occur'[x] = IF x = o THEN occ ELSE occur[x]
    PROVE  Coalesced'
  <1> SUFFICES ASSUME NEW x \in Obj PROVE Coal(que'[x], occur'[x])
    BY DEF Coalesced, Coal
  <1>1. Coal(que[x], occur[x])
    BY DEF Coalesced
  <1>2. CASE x = o
    BY <1>2
  <1>3. CASE x # o
    BY <1>1, <1>3
  <1>4. QED
    BY <1>2, <1>3

(***************************************************************************)
(* The pool's claims.                                                      *)
(***************************************************************************)

\* The frame g comes to the place of the stack of t at depth k.
Becomes(t, k, g) ==
    \A u \in Thread : \A d \in 1..MaxDepth :
        call'[u][d] = IF u = t /\ d = k THEN g ELSE call[u][d]

\* One bitfield of one object, or of none, is stored to.
Stores(o, b, v) ==
    \A x \in Obj : flags'[x][b] = IF x = o THEN v ELSE flags[x][b]
KeepsBit(b) == \A x \in Obj : flags'[x][b] = flags[x][b]

\* Frames that make or end no claim.
LEMMA ClaimsSame ==
    ASSUME ClaimsAgree, KeepsBit("thq"), ready' = ready,
           \A x \in Obj : \A u \in Thread : \A d \in 1..MaxDepth :
              Claiming(call'[u][d], x) <=> Claiming(call[u][d], x)
    PROVE  ClaimsAgree'
  <1>1. \A i \in Nat : \A x \in Obj : InReady(i, x)' <=> InReady(i, x)
    BY DEF InReady
  <1>2. \A x \in Obj : flags'[x]["thq"] = flags[x]["thq"]
    BY DEF KeepsBit
  <1>3. \A x \in Obj : \A u \in Thread : \A d \in 1..MaxDepth :
           Claiming(call[u][d], x)' <=> Claiming(call'[u][d], x)
    BY DEF Claiming
  <1>4. QED
    BY <1>1, <1>2, <1>3 DEF ClaimsAgree

\* A frame is left with the demand for a worker, where there was none.
LEMMA ClaimMade ==
    ASSUME ClaimsAgree, NEW t \in Thread, NEW k \in 1..MaxDepth, NEW g, NEW o \in Obj,
           Becomes(t, k, g), ~flags[o]["thq"], Stores(o, "thq", TRUE), ready' = ready,
           Claiming(g, o),
           \A x \in Obj \ {o} : ~Claiming(g, x) /\ ~Claiming(call[t][k], x)
    PROVE  ClaimsAgree'
  <1>1. \A i \in Nat : \A x \in Obj : InReady(i, x)' <=> InReady(i, x)
    BY DEF InReady
  <1>2. \A x \in Obj \ {o} : \A u \in Thread : \A d \in 1..MaxDepth :
           Claiming(call[u][d], x)' <=> Claiming(call[u][d], x)
    BY DEF Becomes, Claiming
  <1>3. \A i \in Nat : ~InReady(i, o)
    BY DEF ClaimsAgree
  <1>4. \A u \in Thread : \A d \in 1..MaxDepth : ~Claiming(call[u][d], o)
    BY DEF ClaimsAgree
  <1>5. \A u \in Thread : \A d \in 1..MaxDepth :
           Claiming(call[u][d], o)' <=> u = t /\ d = k
    BY <1>4 DEF Becomes, Claiming
  <1>6. \A x \in Obj : flags'[x]["thq"] <=> x = o \/ flags[x]["thq"]
    BY DEF Stores
  <1>7. ASSUME NEW x \in Obj
        PROVE  /\ \A i, j \in Nat : InReady(i, x)' /\ InReady(j, x)' => i = j
               /\ \A u, v \in Thread : \A d, e \in 1..MaxDepth :
                     Claiming(call[u][d], x)' /\ Claiming(call[v][e], x)' => u = v /\ d = e
               /\ \A i \in Nat : \A u \in Thread : \A d \in 1..MaxDepth :
                     ~(InReady(i, x)' /\ Claiming(call[u][d], x)')
               /\ flags'[x]["thq"] <=>
                     \/ \E i \in Nat : InReady(i, x)'
                     \/ \E u \in Thread : \E d \in 1..MaxDepth : Claiming(call[u][d], x)'
    <2>1. CASE x = o
      BY <1>1, <1>3, <1>5, <1>6, <2>1
    <2>2. CASE x # o
      BY <1>1, <1>2, <1>6, <2>2 DEF ClaimsAgree
    <2>3. QED
      BY <2>1, <2>2
  <1>8. QED
    BY <1>7 DEF ClaimsAgree

\* The dispatch of the pool enters: its claim is gone.
LEMMA ClaimEnds ==
    ASSUME ClaimsAgree, NEW t \in Thread, NEW k \in 1..MaxDepth, NEW g, NEW o \in Obj,
           Becomes(t, k, g), Stores(o, "thq", FALSE), ready' = ready,
           Claiming(call[t][k], o),
           \A x \in Obj : ~Claiming(g, x)
    PROVE  ClaimsAgree'
  <1>1. \A i \in Nat : \A x \in Obj : InReady(i, x)' <=> InReady(i, x)
    BY DEF InReady
  <1>2. \A x \in Obj \ {o} : \A u \in Thread : \A d \in 1..MaxDepth :
           Claiming(call[u][d], x)' <=> Claiming(call[u][d], x)
    BY DEF Becomes, Claiming
  <1>3. \A i \in Nat : ~InReady(i, o)
    BY DEF ClaimsAgree
  <1>4. \A u \in Thread : \A d \in 1..MaxDepth : ~Claiming(call[u][d], o)'
    <2> SUFFICES ASSUME NEW u \in Thread, NEW d \in 1..MaxDepth
                 PROVE  ~Claiming(call[u][d], o)'
      OBVIOUS
    <2>1. CASE u = t /\ d = k
      BY <2>1 DEF Becomes, Claiming
    <2>2. CASE ~(u = t /\ d = k)
      <3>1. ~Claiming(call[u][d], o)
        BY <2>2 DEF ClaimsAgree
      <3>2. QED
        BY <2>2, <3>1 DEF Becomes, Claiming
    <2>3. QED
      BY <2>1, <2>2
  <1>5. \A x \in Obj : flags'[x]["thq"] <=> x # o /\ flags[x]["thq"]
    BY DEF Stores
  <1>6. ASSUME NEW x \in Obj
        PROVE  /\ \A i, j \in Nat : InReady(i, x)' /\ InReady(j, x)' => i = j
               /\ \A u, v \in Thread : \A d, e \in 1..MaxDepth :
                     Claiming(call[u][d], x)' /\ Claiming(call[v][e], x)' => u = v /\ d = e
               /\ \A i \in Nat : \A u \in Thread : \A d \in 1..MaxDepth :
                     ~(InReady(i, x)' /\ Claiming(call[u][d], x)')
               /\ flags'[x]["thq"] <=>
                     \/ \E i \in Nat : InReady(i, x)'
                     \/ \E u \in Thread : \E d \in 1..MaxDepth : Claiming(call[u][d], x)'
    <2>1. CASE x = o
      BY <1>1, <1>3, <1>4, <1>5, <2>1
    <2>2. CASE x # o
      BY <1>1, <1>2, <1>5, <2>2 DEF ClaimsAgree
    <2>3. QED
      BY <2>1, <2>2
  <1>7. QED
    BY <1>6 DEF ClaimsAgree

\* The ready queue without its first entry.
LEMMA ReadyTail ==
    ASSUME ready \in Seq(Obj), ready # <<>>, ready' = Tail(ready)
    PROVE  /\ Head(ready) \in Obj /\ InReady(1, Head(ready))
           /\ \A i \in Nat : \A x \in Obj :
                 InReady(i, x)' => i # 0 /\ InReady(i + 1, x)
           /\ \A i \in Nat : \A x \in Obj :
                 InReady(i, x) => i = 1 \/ (i - 1 \in Nat /\ InReady(i - 1, x)')
  <1>1. /\ Len(ready) \in Nat /\ Len(ready) > 0
        /\ Head(ready) = ready[1] /\ Head(ready) \in Obj
        /\ Len(Tail(ready)) = Len(ready) - 1
        /\ \A i \in 1..Len(Tail(ready)) : Tail(ready)[i] = ready[i + 1]
    OBVIOUS
  <1>2. InReady(1, Head(ready))
    BY <1>1 DEF InReady
  <1>3. ASSUME NEW i \in Nat, NEW x \in Obj, InReady(i, x)'
        PROVE  i # 0 /\ InReady(i + 1, x)
    <2>1. i \in 1..Len(Tail(ready)) /\ Tail(ready)[i] = x
      BY <1>3 DEF InReady
    <2>2. i + 1 \in 1..Len(ready) /\ ready[i + 1] = x
      BY <1>1, <2>1
    <2>3. QED
      BY <2>1, <2>2 DEF InReady
  <1>4. ASSUME NEW i \in Nat, NEW x \in Obj, InReady(i, x), i # 1
        PROVE  i - 1 \in Nat /\ InReady(i - 1, x)'
    <2>1. i \in 1..Len(ready) /\ ready[i] = x
      BY <1>4 DEF InReady
    <2>2. i - 1 \in 1..Len(Tail(ready)) /\ Tail(ready)[i - 1] = ready[(i - 1) + 1]
      BY <1>1, <1>4, <2>1
    <2>3. (i - 1) + 1 = i
      OBVIOUS
    <2>4. QED
      BY <2>1, <2>2, <2>3 DEF InReady
  <1>5. QED
    BY <1>1, <1>2, <1>3, <1>4

\* A worker takes an object off the ready queue: its claim is now the worker's.
LEMMA ClaimTaken ==
    ASSUME ClaimsAgree, NEW t \in Thread, NEW k \in 1..MaxDepth, NEW g, NEW o \in Obj,
           InReady(1, o),
           \A i \in Nat : \A x \in Obj :
              InReady(i, x)' => i # 0 /\ InReady(i + 1, x),
           \A i \in Nat : \A x \in Obj :
              InReady(i, x) => i = 1 \/ (i - 1 \in Nat /\ InReady(i - 1, x)'),
           Becomes(t, k, g), KeepsBit("thq"),
           Claiming(g, o),
           \A x \in Obj \ {o} : ~Claiming(g, x),
           \A x \in Obj : ~Claiming(call[t][k], x)
    PROVE  ClaimsAgree'
  <1>1. 1 \in Nat /\ \A i \in Nat : i + 1 \in Nat /\ (i # 0 => i + 1 # 1)
    OBVIOUS
  <1>4. \A x \in Obj \ {o} : \A u \in Thread : \A d \in 1..MaxDepth :
           Claiming(call[u][d], x)' <=> Claiming(call[u][d], x)
    BY DEF Becomes, Claiming
  <1>5. \A u \in Thread : \A d \in 1..MaxDepth : ~Claiming(call[u][d], o)
    BY <1>1 DEF ClaimsAgree
  <1>6. \A u \in Thread : \A d \in 1..MaxDepth :
           Claiming(call[u][d], o)' <=> u = t /\ d = k
    BY <1>5 DEF Becomes, Claiming
  <1>7. \A i \in Nat : ~InReady(i, o)'
    <2> SUFFICES ASSUME NEW i \in Nat, InReady(i, o)' PROVE FALSE
      OBVIOUS
    <2>1. InReady(i + 1, o) /\ i # 0
      OBVIOUS
    <2>2. i + 1 = 1
      BY <1>1, <2>1 DEF ClaimsAgree
    <2>3. QED
      BY <1>1, <2>1, <2>2
  <1>8. \A x \in Obj \ {o} : ~InReady(1, x)
    BY <1>1 DEF InReady
  <1>9. \A x \in Obj : flags'[x]["thq"] = flags[x]["thq"]
    BY DEF KeepsBit
  <1>10. flags[o]["thq"]
    BY <1>1 DEF ClaimsAgree
  <1>11. ASSUME NEW x \in Obj
         PROVE  /\ \A i, j \in Nat : InReady(i, x)' /\ InReady(j, x)' => i = j
                /\ \A u, v \in Thread : \A d, e \in 1..MaxDepth :
                      Claiming(call[u][d], x)' /\ Claiming(call[v][e], x)' => u = v /\ d = e
                /\ \A i \in Nat : \A u \in Thread : \A d \in 1..MaxDepth :
                      ~(InReady(i, x)' /\ Claiming(call[u][d], x)')
                /\ flags'[x]["thq"] <=>
                      \/ \E i \in Nat : InReady(i, x)'
                      \/ \E u \in Thread : \E d \in 1..MaxDepth : Claiming(call[u][d], x)'
    <2>1. CASE x = o
      BY <1>6, <1>7, <1>9, <1>10, <2>1
    <2>2. CASE x # o
      <3>1. /\ \A i, j \in Nat : InReady(i, x) /\ InReady(j, x) => i = j
            /\ \A u, v \in Thread : \A d, e \in 1..MaxDepth :
                  Claiming(call[u][d], x) /\ Claiming(call[v][e], x) => u = v /\ d = e
            /\ \A i \in Nat : \A u \in Thread : \A d \in 1..MaxDepth :
                  ~(InReady(i, x) /\ Claiming(call[u][d], x))
            /\ flags[x]["thq"] <=>
                  \/ \E i \in Nat : InReady(i, x)
                  \/ \E u \in Thread : \E d \in 1..MaxDepth : Claiming(call[u][d], x)
        BY DEF ClaimsAgree
      <3>2. \A i, j \in Nat : InReady(i, x)' /\ InReady(j, x)' => i = j
        <4> SUFFICES ASSUME NEW i \in Nat, NEW j \in Nat, InReady(i, x)', InReady(j, x)'
                     PROVE  i = j
          OBVIOUS
        <4>1. i + 1 = j + 1
          BY <1>1, <3>1
        <4>2. QED
          BY <4>1
      <3>3. (\E i \in Nat : InReady(i, x)') <=> \E i \in Nat : InReady(i, x)
        BY <1>1, <1>8, <2>2
      <3>4. QED
        BY <1>1, <1>4, <1>9, <2>2, <3>1, <3>2, <3>3
    <2>3. QED
      BY <2>1, <2>2
  <1>12. QED
    BY <1>11 DEF ClaimsAgree

\* The pool takes the object on its ready queue: the claim of the frame is now an
\* entry of the queue.
LEMMA ClaimQueued ==
    ASSUME ClaimsAgree, NEW t \in Thread, NEW k \in 1..MaxDepth, NEW g, NEW o \in Obj,
           ready \in Seq(Obj), ready' = Append(ready, o),
           Becomes(t, k, g), KeepsBit("thq"), Claiming(call[t][k], o),
           \A x \in Obj : ~Claiming(g, x)
    PROVE  ClaimsAgree'
  <1>1. /\ Len(ready) \in Nat /\ Len(ready') = Len(ready) + 1
        /\ \A i \in 1..Len(ready') : ready'[i] = IF i <= Len(ready) THEN ready[i] ELSE o
    OBVIOUS
  <1>2. \A i \in Nat : \A x \in Obj :
           InReady(i, x)' <=> InReady(i, x) \/ (x = o /\ i = Len(ready) + 1)
    BY <1>1 DEF InReady
  <1>3. \A x \in Obj \ {o} : \A u \in Thread : \A d \in 1..MaxDepth :
           Claiming(call[u][d], x)' <=> Claiming(call[u][d], x)
    BY DEF Becomes, Claiming
  <1>4. \A i \in Nat : ~InReady(i, o)
    BY DEF ClaimsAgree
  <1>5. \A u \in Thread : \A d \in 1..MaxDepth : ~Claiming(call[u][d], o)'
    <2> SUFFICES ASSUME NEW u \in Thread, NEW d \in 1..MaxDepth
                 PROVE  ~Claiming(call[u][d], o)'
      OBVIOUS
    <2>1. CASE u = t /\ d = k
      BY <2>1 DEF Becomes, Claiming
    <2>2. CASE ~(u = t /\ d = k)
      <3>1. ~Claiming(call[u][d], o)
        BY <2>2 DEF ClaimsAgree
      <3>2. QED
        BY <2>2, <3>1 DEF Becomes, Claiming
    <2>3. QED
      BY <2>1, <2>2
  <1>6. \A x \in Obj : flags'[x]["thq"] = flags[x]["thq"]
    BY DEF KeepsBit
  <1>7. flags[o]["thq"]
    BY DEF ClaimsAgree
  <1>8. ASSUME NEW x \in Obj
        PROVE  /\ \A i, j \in Nat : InReady(i, x)' /\ InReady(j, x)' => i = j
               /\ \A u, v \in Thread : \A d, e \in 1..MaxDepth :
                     Claiming(call[u][d], x)' /\ Claiming(call[v][e], x)' => u = v /\ d = e
               /\ \A i \in Nat : \A u \in Thread : \A d \in 1..MaxDepth :
                     ~(InReady(i, x)' /\ Claiming(call[u][d], x)')
               /\ flags'[x]["thq"] <=>
                     \/ \E i \in Nat : InReady(i, x)'
                     \/ \E u \in Thread : \E d \in 1..MaxDepth : Claiming(call[u][d], x)'
    <2>1. CASE x = o
      <3>1. Len(ready) + 1 \in Nat
        BY <1>1
      <3>2. QED
        BY <1>2, <1>4, <1>5, <1>6, <1>7, <2>1, <3>1
    <2>2. CASE x # o
      BY <1>2, <1>3, <1>6, <2>2 DEF ClaimsAgree
    <2>3. QED
      BY <2>1, <2>2
  <1>9. QED
    BY <1>8 DEF ClaimsAgree

(***************************************************************************)
(* The other parts, for a step that sets one frame or some that run nothing.*)
(***************************************************************************)

\* A frame as FrameShape wants it comes to a place.
LEMMA ShapeStep ==
    ASSUME FrameShape, NEW t \in Thread, NEW k \in 1..MaxDepth, NEW g, Becomes(t, k, g),
           /\ g.word = <<>>
           /\ g.ins => g.pc \in {"post", "tell", "notify", "ins"}
           /\ g.pc = "ins" => g.ins
           /\ g.info => k = 1 /\ g.pc # "ref"
    PROVE  FrameShape'
  BY DEF FrameShape, Becomes

\* What a step does to the frames and the objects when nobody starts, stops or
\* goes on running an object.
RunnersStay ==
    /\ \A u \in Thread : \A d \in 1..MaxDepth : \A x \in Obj :
          /\ Holds(u, d, x)' <=> Holds(u, d, x)
          /\ Holds(u, d, x) => call'[u][d] = call[u][d]
    /\ KeepsBit("lock") /\ KeepsBit("mtx")
    /\ state' = state /\ thrInfo' = thrInfo /\ want' = want

\* Where nothing these speak of has moved, they stay.
LEMMA ServedSame ==
    ASSUME Served, RunnersStay
    PROVE  Served'
  BY DEF Served, RunnersStay, KeepsBit

LEMMA LockUsedSame ==
    ASSUME LockUsed, RunnersStay,
           \A x \in Obj : /\ flags'[x]["thq"] => flags[x]["thq"]
                          /\ ~flags[x]["lock"] => que'[x] = que[x]
    PROVE  LockUsed'
  BY DEF LockUsed, RunnersStay, KeepsBit

\* The frame of a place steps outside the loop.
LEMMA OutsideLoop ==
    ASSUME NEW t \in Thread, NEW k \in 1..MaxDepth, NEW g, Becomes(t, k, g),
           call[t][k].pc \notin Locked, g.pc \notin Locked,
           KeepsBit("lock"), KeepsBit("mtx"),
           state' = state, thrInfo' = thrInfo, want' = want
    PROVE  RunnersStay
  BY DEF RunnersStay, Becomes, Holds

\* Whoever has to tell the listeners still has to.
LEMMA ToldSame ==
    ASSUME ToldOrWillBe, state' = state, told' = told,
           \A x \in Obj : \A u \in Thread : \A d \in 1..MaxDepth :
              WillTell(call[u][d], x) => WillTell(call[u][d], x)'
    PROVE  ToldOrWillBe'
  BY DEF ToldOrWillBe

\* The frame g, there after the step, has to tell of o.
WillTellThen(g, o) ==
    /\ g.obj = o
    /\ g.pc = "tell" \/ (g.pc \in Locked \cup {"post"} /\ flags'[o]["inv"])

\* The frame of a place changes, and with it who has to tell of an object.
LEMMA ToldStep ==
    ASSUME ToldOrWillBe, NEW t \in Thread, NEW k \in 1..MaxDepth, NEW g,
           Becomes(t, k, g),
           \A x \in Obj :
              \/ told'[x] = state'[x]
              \/ WillTellThen(g, x)
              \/ /\ told'[x] = told[x] /\ state'[x] = state[x]
                 /\ flags'[x]["inv"] = flags[x]["inv"]
                 /\ ~WillTell(call[t][k], x)
    PROVE  ToldOrWillBe'
  <1> SUFFICES ASSUME NEW x \in Obj, told'[x] # state'[x]
               PROVE  \E u \in Thread : \E d \in 1..MaxDepth : WillTell(call[u][d], x)'
    BY DEF ToldOrWillBe
  <1>1. CASE WillTellThen(g, x)
    <2>1. call'[t][k] = g
      BY DEF Becomes
    <2>2. QED
      BY <1>1, <2>1 DEF WillTell, WillTellThen
  <1>2. CASE /\ told'[x] = told[x] /\ state'[x] = state[x]
             /\ flags'[x]["inv"] = flags[x]["inv"]
             /\ ~WillTell(call[t][k], x)
    <2>1. PICK u \in Thread, d \in 1..MaxDepth : WillTell(call[u][d], x)
      BY <1>2 DEF ToldOrWillBe
    <2>2. call'[u][d] = call[u][d]
      BY <1>2, <2>1 DEF Becomes
    <2>3. QED
      BY <1>2, <2>1, <2>2 DEF WillTell
  <1>3. QED
    BY <1>1, <1>2

(***************************************************************************)
(* Steps of a stack as settings of a place.                                *)
(***************************************************************************)

\* The fields of a frame that goes to another pc.
LEMMA GoneFrame ==
    ASSUME NEW f \in Frame, NEW pc \in Pc
    PROVE  /\ [f EXCEPT !.pc = pc] \in Frame
           /\ [f EXCEPT !.pc = pc].pc = pc
           /\ [f EXCEPT !.pc = pc].obj = f.obj
           /\ [f EXCEPT !.pc = pc].info = f.info
           /\ [f EXCEPT !.pc = pc].ins = f.ins
           /\ [f EXCEPT !.pc = pc].word = f.word
  BY DEF Frame

\* The fields of a frame that leaves the loop.
LEMMA LeftFrame ==
    ASSUME NEW f \in Frame, NEW ins \in BOOLEAN
    PROVE  /\ [f EXCEPT !.pc = "post", !.ins = ins] \in Frame
           /\ [f EXCEPT !.pc = "post", !.ins = ins].pc = "post"
           /\ [f EXCEPT !.pc = "post", !.ins = ins].obj = f.obj
           /\ [f EXCEPT !.pc = "post", !.ins = ins].info = f.info
           /\ [f EXCEPT !.pc = "post", !.ins = ins].ins = ins
           /\ [f EXCEPT !.pc = "post", !.ins = ins].word = f.word
  BY DEF Frame, Pc

\* The rest of an empty frame.
LEMMA NoFrameRest == NoFrame.ins = FALSE /\ NoFrame.word = <<>>
  BY DEF NoFrame, NewFrame

\* A new call, the end of one and the next pc of one each set one place.
LEMMA PushBecomes ==
    ASSUME Stacks, NEW t \in Thread, NEW f \in Frame, dep[t] < MaxDepth, Push(t, f)
    PROVE  /\ Becomes(t, dep[t] + 1, f)
           /\ dep[t] + 1 \in 1..MaxDepth
           /\ call[t][dep[t] + 1] = NoFrame
  <1>1. dep[t] \in Nat /\ MaxDepth \in Nat /\ dep[t] + 1 \in 1..MaxDepth
        /\ dep[t] + 1 > dep[t]
    BY BoundsAssumption DEF Stacks
  <1>2. call[t][dep[t] + 1] = NoFrame
    BY <1>1 DEF Stacks, Blank
  <1>3. QED
    BY <1>1, <1>2, PlaceSet DEF Push, Stacks, Becomes

LEMMA PopBecomes ==
    ASSUME Stacks, NEW t \in Thread, dep[t] > 0, Pop(t)
    PROVE  Becomes(t, dep[t], NoFrame)
  <1>1. dep[t] \in 1..MaxDepth
    BY TopFrame
  <1>2. QED
    BY <1>1, PlaceSet, NoFrameFields DEF Pop, Stacks, Becomes

LEMMA SetTopBecomes ==
    ASSUME Stacks, NEW t \in Thread, NEW f \in Frame, dep[t] > 0, SetTop(t, f)
    PROVE  Becomes(t, dep[t], f)
  <1>1. dep[t] \in 1..MaxDepth
    BY TopFrame
  <1>2. QED
    BY <1>1, PlaceSet DEF SetTop, Stacks, Becomes

\* A store to one bitfield of one object.
LEMMA BitSet ==
    ASSUME flags \in [Obj -> Word], NEW o \in Obj, NEW b \in Flag, NEW v \in BOOLEAN,
           flags' = [flags EXCEPT ![o][b] = v]
    PROVE  Stores(o, b, v) /\ \A y \in Flag \ {b} : KeepsBit(y)
  <1>1. \A x \in Obj : flags'[x] = IF x = o THEN [flags[o] EXCEPT ![b] = v] ELSE flags[x]
    OBVIOUS
  <1>2. /\ flags[o] \in Word
        /\ [flags[o] EXCEPT ![b] = v][b] = v
        /\ \A y \in Flag \ {b} : [flags[o] EXCEPT ![b] = v][y] = flags[o][y]
    BY DEF Word
  <1>3. QED
    BY <1>1, <1>2 DEF Stores, KeepsBit

\* StoreFlag when it is not torn.
LEMMA StoreFlagWhole ==
    ASSUME ~Torn, Stacks, flags \in [Obj -> Word], NEW t \in Thread, dep[t] > 0,
           Top(t).obj \in Obj, NEW b \in Flag, NEW v \in BOOLEAN, NEW pc \in Pc,
           StoreFlag(t, b, v, pc)
    PROVE  /\ Stores(Top(t).obj, b, v)
           /\ \A y \in Flag \ {b} : KeepsBit(y)
           /\ Becomes(t, dep[t], [Top(t) EXCEPT !.pc = pc])
  <1>1. flags' = [flags EXCEPT ![Top(t).obj][b] = v] /\ Goto(t, pc)
    BY DEF StoreFlag
  <1>2. [Top(t) EXCEPT !.pc = pc] \in Frame
    BY TopFrame, MovedFrame
  <1>3. QED
    BY <1>1, <1>2, BitSet, SetTopBecomes DEF Goto

\* Frames of other places have the app-mutex as they had it, if the store to an
\* app-mutex flag, where there is one, is for an object they do not run.
LEMMA AppOthers ==
    ASSUME Stacks, NEW t \in Thread, NEW k \in 1..MaxDepth, NEW g, Becomes(t, k, g),
           \A x \in Obj :
              \/ flags'[x]["mtx"] = flags[x]["mtx"]
              \/ \A u \in Thread : \A d \in 1..MaxDepth :
                    Holds(u, d, x) => u = t /\ d = k
    PROVE  \A u \in Thread : \A d \in 1..MaxDepth : ~(u = t /\ d = k) =>
              (HasApp(call[u][d])' <=> HasApp(call[u][d]))
  <1> SUFFICES ASSUME NEW u \in Thread, NEW d \in 1..MaxDepth, ~(u = t /\ d = k)
               PROVE  HasApp(call[u][d])' <=> HasApp(call[u][d])
    OBVIOUS
  <1>1. call'[u][d] = call[u][d]
    BY DEF Becomes
  <1>2. CASE call[u][d].pc \in {"lock", "runS", "unlock"}
    <2>1. call[u][d].obj \in Obj
      BY <1>2 DEF Stacks, Sound
    <2>2. Holds(u, d, call[u][d].obj)
      BY <1>2 DEF Holds, Locked
    <2>3. flags'[call[u][d].obj]["mtx"] = flags[call[u][d].obj]["mtx"]
      BY <2>1, <2>2
    <2>4. QED
      BY <1>1, <2>3 DEF HasApp
  <1>3. CASE call[u][d].pc \notin {"lock", "runS", "unlock"}
    BY <1>1, <1>3 DEF HasApp
  <1>4. QED
    BY <1>2, <1>3

\* The frame of a place steps outside the loop, and the gc's.
LEMMA BalanceOutside ==
    ASSUME Stacks, Balance, NEW t \in Thread, NEW k \in 1..MaxDepth, NEW g,
           Becomes(t, k, g), call[t][k].pc \notin Locked \cup {"gc"},
           g.pc \notin Locked \cup {"gc"}, KeepsBit("mtx"), app' = app
    PROVE  Balance'
  <1>1. \A u \in Thread : \A d \in 1..MaxDepth : ~(u = t /\ d = k) =>
           (HasApp(call[u][d])' <=> HasApp(call[u][d]))
    BY AppOthers DEF KeepsBit
  <1>2. ~HasApp(call[t][k]) /\ ~HasApp(call[t][k])'
    BY DEF HasApp, Becomes, Locked
  <1>3. QED
    BY <1>1, <1>2, BalanceSame

\* What such a step keeps whatever it does to queues, claims and notifications.
LEMMA OutsideKeeps ==
    ASSUME Stacks, FrameShape, Served, LockUsed, Balance,
           NEW t \in Thread, NEW k \in 1..MaxDepth, NEW g,
           Becomes(t, k, g), call[t][k].pc \notin Locked \cup {"gc"},
           g.pc \notin Locked \cup {"gc"},
           /\ g.word = <<>>
           /\ g.ins => g.pc \in {"post", "tell", "notify", "ins"}
           /\ g.pc = "ins" => g.ins
           /\ g.info => k = 1 /\ g.pc # "ref",
           KeepsBit("lock"), KeepsBit("mtx"),
           \A x \in Obj : /\ flags'[x]["thq"] => flags[x]["thq"]
                          /\ ~flags[x]["lock"] => que'[x] = que[x],
           state' = state, thrInfo' = thrInfo, want' = want, app' = app
    PROVE  FrameShape' /\ Served' /\ LockUsed' /\ Balance'
  <1>1. RunnersStay
    BY OutsideLoop
  <1>2. Balance'
    BY BalanceOutside
  <1>3. QED
    BY <1>1, <1>2, ShapeStep, ServedSame, LockUsedSame

\* A step that starts and stops no call that runs an object, and touches neither a
\* queue nor a state.
HoldersStay ==
    \A x \in Obj : \A u \in Thread : \A d \in 1..MaxDepth :
        Holds(u, d, x)' <=> Holds(u, d, x)
Quiet == HoldersStay /\ UNCHANGED <<state, que, want>>

\* A frame that moves outside the loop is such a step.
LEMMA QuietPlace ==
    ASSUME NEW t \in Thread, NEW k \in 1..MaxDepth, NEW g, Becomes(t, k, g),
           call[t][k].pc \notin Locked, g.pc \notin Locked,
           UNCHANGED <<state, que, want>>
    PROVE  Quiet
  BY DEF Quiet, HoldersStay, Becomes, Holds

(***************************************************************************)
(* Each step keeps them.                                                   *)
(***************************************************************************)

\* Somebody calls eventHandler(): not the pool.
LEMMA NewCallKeeps ==
    ASSUME Stacks, Kept, NEW t \in Thread, dep[t] < MaxDepth, NEW o \in Obj,
           NEW e \in Event, NEW pc \in {"enter", "ref"},
           Push(t, NewFrame(o, e, FALSE, pc)),
           KeepsBit("lock"), KeepsBit("mtx"), KeepsBit("thq"), KeepsBit("inv"),
           UNCHANGED <<state, que, occur, thrInfo, app, ready, told, want>>
    PROVE  Kept' /\ Quiet
  <1> DEFINE g == NewFrame(o, e, FALSE, pc)
             k == dep[t] + 1
  <1>1. /\ g \in Frame /\ g.obj = o /\ g.info = FALSE /\ g.pc = pc
        /\ g.ins = FALSE /\ g.word = <<>>
    <2>1. o \in Obj \cup {NoObj} /\ pc \in Pc
      BY DEF Pc
    <2>2. g \in Frame
      BY <2>1, NewFrameFields
    <2>3. QED
      BY <2>2 DEF NewFrame
  <1>2. Becomes(t, k, g) /\ k \in 1..MaxDepth /\ call[t][k] = NoFrame
    BY <1>1, PushBecomes
  <1>3. NoFrame.pc = "none" /\ NoFrame.ins = FALSE /\ NoFrame.info = FALSE
    BY NoFrameFields, NoFrameRest
  <1> HIDE DEF g, k
  <1>4. FrameShape' /\ Served' /\ LockUsed' /\ Balance'
    BY <1>1, <1>2, <1>3, OutsideKeeps DEF Kept, KeepsBit, Locked
  <1>5. Coalesced'
    BY DEF Kept, Coalesced
  <1>6. ClaimsAgree'
    <2>1. \A x \in Obj : \A u \in Thread : \A d \in 1..MaxDepth :
             Claiming(call'[u][d], x) <=> Claiming(call[u][d], x)
      BY <1>1, <1>2, <1>3 DEF Becomes, Claiming
    <2>2. QED
      BY <2>1, ClaimsSame DEF Kept
  <1>7. ToldOrWillBe'
    <2>1. \A x \in Obj : \A u \in Thread : \A d \in 1..MaxDepth :
             WillTell(call[u][d], x) => WillTell(call[u][d], x)'
      BY <1>2, <1>3 DEF Becomes, WillTell, KeepsBit, Locked
    <2>2. QED
      BY <2>1, ToldSame DEF Kept
  <1>8. Quiet
    BY <1>1, <1>2, <1>3, QuietPlace DEF Locked
  <1>9. QED
    BY <1>8, <1>4, <1>5, <1>6, <1>7 DEF Kept

\* A worker of the pool does.
LEMMA PoolTakeKeeps ==
    ASSUME Stacks, Kept, ready \in Seq(Obj), NEW t \in Thread, PoolTake(t)
    PROVE  Kept' /\ Quiet
  <1> DEFINE o == Head(ready)
             g == NewFrame(o, "TSE_THREAD", TRUE, "enter")
  <1>1. /\ ready # <<>> /\ ready' = Tail(ready) /\ dep[t] = 0 /\ Push(t, g)
        /\ UNCHANGED <<state, que, occur, flags, thrInfo, app, told, want>>
    BY DEF PoolTake, ghosts
  <1>2. /\ o \in Obj /\ InReady(1, o)
        /\ \A i \in Nat : \A x \in Obj :
              InReady(i, x)' => i # 0 /\ InReady(i + 1, x)
        /\ \A i \in Nat : \A x \in Obj :
              InReady(i, x) => i = 1 \/ (i - 1 \in Nat /\ InReady(i - 1, x)')
    BY <1>1, ReadyTail
  <1> HIDE DEF o
  <1>3. /\ g \in Frame /\ g.obj = o /\ g.info = TRUE /\ g.pc = "enter"
        /\ g.ins = FALSE /\ g.word = <<>>
    <2>1. o \in Obj \cup {NoObj} /\ "enter" \in Pc /\ "TSE_THREAD" \in Event
      BY <1>2 DEF Pc, Event
    <2>2. g \in Frame
      BY <2>1, NewFrameFields
    <2>3. QED
      BY <2>2 DEF NewFrame
  <1>4. Becomes(t, 1, g) /\ 1 \in 1..MaxDepth /\ call[t][1] = NoFrame
    <2>1. dep[t] < MaxDepth /\ dep[t] + 1 = 1
      BY <1>1, BoundsAssumption
    <2>2. QED
      BY <1>1, <1>3, <2>1, PushBecomes
  <1>5. NoFrame.pc = "none" /\ NoFrame.ins = FALSE /\ NoFrame.info = FALSE
    BY NoFrameFields, NoFrameRest
  <1>6. \A y \in Flag : KeepsBit(y)
    BY <1>1 DEF KeepsBit
  <1> HIDE DEF g
  <1>7. FrameShape' /\ Served' /\ LockUsed' /\ Balance'
    BY <1>1, <1>3, <1>4, <1>5, <1>6, OutsideKeeps DEF Kept, Locked, Flag
  <1>8. Coalesced'
    BY <1>1 DEF Kept, Coalesced
  <1>9. ClaimsAgree'
    <2>1. Claiming(g, o)
      BY <1>3 DEF Claiming
    <2>2. \A x \in Obj \ {o} : ~Claiming(g, x)
      BY <1>3 DEF Claiming
    <2>3. \A x \in Obj : ~Claiming(call[t][1], x)
      BY <1>4, <1>5 DEF Claiming
    <2>4. KeepsBit("thq") /\ ClaimsAgree
      BY <1>6 DEF Flag, Kept
    <2>5. QED
      BY <1>2, <1>4, <2>1, <2>2, <2>3, <2>4, ClaimTaken
  <1>10. ToldOrWillBe'
    <2>1. \A x \in Obj : \A u \in Thread : \A d \in 1..MaxDepth :
             WillTell(call[u][d], x) => WillTell(call[u][d], x)'
      BY <1>1, <1>4, <1>5 DEF Becomes, WillTell, Locked
    <2>2. QED
      BY <1>1, <2>1, ToldSame DEF Kept
  <1>11. Quiet
    BY <1>1, <1>3, <1>4, <1>5, QuietPlace DEF Locked
  <1>12. QED
    BY <1>11, <1>7, <1>8, <1>9, <1>10 DEF Kept

\* A call of no claim steps on to the gate of the loop, or returns there.
LEMMA PassKeeps ==
    ASSUME Stacks, Kept, NEW t \in Thread, NEW k \in 1..MaxDepth, NEW g,
           Becomes(t, k, g), call[t][k].pc \in {"ref", "enter"},
           g.pc \in {"none", "enter"}, ~g.info, ~g.ins, g.word = <<>>,
           \A x \in Obj : ~Claiming(call[t][k], x),
           KeepsBit("lock"), KeepsBit("mtx"), KeepsBit("thq"), KeepsBit("inv"),
           UNCHANGED <<state, que, occur, thrInfo, app, ready, told, want>>
    PROVE  Kept' /\ Quiet
  <1>1. FrameShape' /\ Served' /\ LockUsed' /\ Balance'
    BY OutsideKeeps DEF Kept, KeepsBit, Locked
  <1>2. Coalesced'
    BY DEF Kept, Coalesced
  <1>3. ClaimsAgree'
    <2>1. \A x \in Obj : \A u \in Thread : \A d \in 1..MaxDepth :
             Claiming(call'[u][d], x) <=> Claiming(call[u][d], x)
      BY DEF Becomes, Claiming
    <2>2. QED
      BY <2>1, ClaimsSame DEF Kept
  <1>4. ToldOrWillBe'
    <2>1. \A x \in Obj : \A u \in Thread : \A d \in 1..MaxDepth :
             WillTell(call[u][d], x) => WillTell(call[u][d], x)'
      BY DEF Becomes, WillTell, KeepsBit, Locked
    <2>2. QED
      BY <2>1, ToldSame DEF Kept
  <1>5. Quiet
    BY QuietPlace DEF Locked
  <1>6. QED
    BY <1>5, <1>1, <1>2, <1>3, <1>4 DEF Kept

\* An event is left to the call that runs the object.
LEMMA BusyKeeps ==
    ASSUME Stacks, LoopTypes, Kept, NEW t \in Thread, EnterBusy(t)
    PROVE  Kept'
  <1> DEFINE f == Top(t)
             o == f.obj
             k == dep[t]
  <1>1. /\ k > 0 /\ k \in 1..MaxDepth /\ f \in Frame /\ o \in Obj
        /\ f.pc = "enter" /\ f = call[t][k] /\ f.ev \in Event
    <2>1. "enter" \in Pc \ {"none", "gc"} /\ At(t, "enter")
      BY DEF Pc, EnterBusy
    <2>2. QED
      BY <2>1, AtFrame DEF Top, Frame
  <1>2. /\ flags[o]["lock"] /\ Pop(t)
        /\ que' = [que EXCEPT ![o] = Insert(@, occur[o], f.ev)]
        /\ occur' = [occur EXCEPT ![o] = InsertMark(@, f.ev)]
        /\ flags' = IF f.info THEN [flags EXCEPT ![o]["thq"] = FALSE] ELSE flags
        /\ UNCHANGED <<state, thrInfo, app, ready, told, want>>
    BY DEF EnterBusy, ghosts
  <1>3. Becomes(t, k, NoFrame)
    BY <1>1, <1>2, PopBecomes
  <1> HIDE DEF f, o, k
  <1>4. ~f.info /\ ~f.ins
    <2>1. ~flags[o]["thq"]
      BY <1>1, <1>2 DEF Kept, LockUsed
    <2>2. ~Claiming(f, o)
      BY <1>1, <2>1 DEF Kept, ClaimsAgree
    <2>3. QED
      BY <1>1, <2>2 DEF Claiming, o
  <1>5. flags' = flags
    BY <1>2, <1>4
  <1>6. \A y \in Flag : KeepsBit(y)
    BY <1>5 DEF KeepsBit
  <1>7. \A x \in Obj : /\ que'[x] = IF x = o THEN Insert(que[o], occur[o], f.ev) ELSE que[x]
                       /\ occur'[x] = IF x = o THEN InsertMark(occur[o], f.ev) ELSE occur[x]
    BY <1>1, <1>2 DEF LoopTypes
  <1>8. /\ NoFrame.pc = "none" /\ NoFrame.ins = FALSE /\ NoFrame.info = FALSE
        /\ NoFrame.word = <<>>
    BY NoFrameFields, NoFrameRest
  <1>9. FrameShape' /\ Served' /\ LockUsed' /\ Balance'
    <2>1. \A x \in Obj : ~flags[x]["lock"] => que'[x] = que[x]
      BY <1>2, <1>7
    <2>2. KeepsBit("lock") /\ KeepsBit("mtx")
      BY <1>6 DEF Flag
    <2>3. call[t][k].pc \notin Locked \cup {"gc"} /\ NoFrame.pc \notin Locked \cup {"gc"}
      BY <1>1, <1>8 DEF Locked
    <2>4. QED
      BY <1>1, <1>2, <1>3, <1>5, <1>8, <2>1, <2>2, <2>3, OutsideKeeps DEF Kept
  <1>10. Coalesced'
    <2>1. Coal(Insert(que[o], occur[o], f.ev), InsertMark(occur[o], f.ev))
      BY <1>1, CoalInsert DEF LoopTypes, Kept, Coalesced
    <2>2. QED
      BY <1>1, <1>7, <2>1, CoalescedStep DEF Kept
  <1>11. ClaimsAgree'
    <2>1. \A x \in Obj : \A u \in Thread : \A d \in 1..MaxDepth :
             Claiming(call'[u][d], x) <=> Claiming(call[u][d], x)
      BY <1>1, <1>3, <1>4, <1>8 DEF Becomes, Claiming
    <2>2. QED
      BY <1>2, <1>6, <2>1, ClaimsSame DEF Kept, Flag
  <1>12. ToldOrWillBe'
    <2>1. \A x \in Obj : \A u \in Thread : \A d \in 1..MaxDepth :
             WillTell(call[u][d], x) => WillTell(call[u][d], x)'
      BY <1>1, <1>3, <1>5 DEF Becomes, WillTell, Locked
    <2>2. QED
      BY <1>2, <2>1, ToldSame DEF Kept
  <1>13. QED
    BY <1>9, <1>10, <1>11, <1>12 DEF Kept

\* The frame of a place of a thread's stack is the gc's, and takes or gives back
\* the app-mutex; the frame above it is a call.
LEMMA GcKeeps ==
    ASSUME Kept, NEW t \in Thread,
           \A u \in Thread : \A d \in 1..MaxDepth : u # t => call'[u][d] = call[u][d],
           \A d \in 1..MaxDepth :
              \/ call'[t][d] = call[t][d]
              \/ /\ call[t][d].pc \in {"none", "gc"}
                 /\ call'[t][d].pc \in {"none", "gc", "enter"}
                 /\ ~call[t][d].ins
                 /\ ~call'[t][d].ins /\ ~call'[t][d].info
                 /\ call'[t][d].word = <<>>,
           Balance',
           UNCHANGED <<state, que, occur, flags, thrInfo, ready, told, want>>
    PROVE  Kept' /\ Quiet
  <1>1. \A u \in Thread : \A d \in 1..MaxDepth :
              \/ call'[u][d] = call[u][d]
              \/ /\ call[u][d].pc \in {"none", "gc"}
                 /\ call'[u][d].pc \in {"none", "gc", "enter"}
                 /\ ~call[u][d].ins
                 /\ ~call'[u][d].ins /\ ~call'[u][d].info
                 /\ call'[u][d].word = <<>>
    OBVIOUS
  <1>2. RunnersStay
    BY <1>1 DEF RunnersStay, Holds, Locked, KeepsBit
  <1>3. Served' /\ LockUsed'
    BY <1>2, ServedSame, LockUsedSame DEF Kept
  <1>4. FrameShape'
    BY <1>1 DEF Kept, FrameShape
  <1>5. Coalesced'
    BY DEF Kept, Coalesced
  <1>6. ClaimsAgree'
    <2>1. \A x \in Obj : \A u \in Thread : \A d \in 1..MaxDepth :
             Claiming(call'[u][d], x) <=> Claiming(call[u][d], x)
      BY <1>1 DEF Claiming
    <2>2. KeepsBit("thq")
      BY DEF KeepsBit
    <2>3. QED
      BY <2>1, <2>2, ClaimsSame DEF Kept
  <1>7. ToldOrWillBe'
    <2>1. \A x \in Obj : \A u \in Thread : \A d \in 1..MaxDepth :
             WillTell(call[u][d], x) => WillTell(call[u][d], x)'
      BY <1>1 DEF WillTell, Locked
    <2>2. QED
      BY <2>1, ToldSame DEF Kept
  <1>8. Quiet
    BY <1>2 DEF Quiet, HoldersStay, RunnersStay
  <1>9. QED
    BY <1>8, <1>3, <1>4, <1>5, <1>6, <1>7 DEF Kept

\* The call that runs an object takes or gives back the app-mutex for it.
LEMMA MutexKeeps ==
    ASSUME Kept, Alone, NEW t \in Thread, NEW k \in 1..MaxDepth, NEW o \in Obj,
           NEW g, Becomes(t, k, g), Holds(t, k, o),
           g.obj = o, g.info = call[t][k].info, ~g.ins, g.word = <<>>,
           g.pc \in Locked,
           g.pc \in {"acquire", "runS"} => flags'[o]["mtx"],
           g.pc \in {"release", "runT"} => ~flags'[o]["mtx"],
           g.pc \in {"unlock", "release", "runT"} => call[t][k].pc \in {"unlock", "release"},
           KeepsBit("lock"), KeepsBit("thq"), KeepsBit("inv"),
           \A x \in Obj \ {o} : flags'[x]["mtx"] = flags[x]["mtx"],
           Balance',
           UNCHANGED <<state, que, occur, thrInfo, ready, told, want>>
    PROVE  Kept' /\ Quiet
  <1>1. /\ call[t][k].obj = o /\ call[t][k].pc \in Locked
        /\ call[t][k].pc \notin {"enter", "post", "tell", "notify", "ins", "ref"}
        /\ ~call[t][k].ins
        /\ g.pc \notin {"enter", "post", "tell", "notify", "ins", "ref"}
    BY DEF Holds, Kept, FrameShape, Locked
  <1>2. \A u \in Thread : \A d \in 1..MaxDepth : \A x \in Obj :
           /\ Holds(u, d, x)' <=> Holds(u, d, x)
           /\ Holds(u, d, x) /\ x = o => u = t /\ d = k
    BY <1>1 DEF Holds, Becomes, Alone
  <1>3. FrameShape'
    <2>1. g.info => k = 1
      BY DEF Kept, FrameShape
    <2>2. QED
      BY <1>1, <2>1, ShapeStep DEF Kept
  <1>4. Served'
    <2> SUFFICES ASSUME NEW u \in Thread, NEW d \in 1..MaxDepth, NEW x \in Obj,
                        Holds(u, d, x)'
                 PROVE  /\ thrInfo'[x] # NoThread => thrInfo'[x] = u /\ call'[u][d].info
                        /\ state'[x] # Zom /\ x \notin want'
                        /\ call'[u][d].pc \in {"acquire", "runS"} => flags'[x]["mtx"]
                        /\ call'[u][d].pc \in {"release", "runT"} => ~flags'[x]["mtx"]
                        /\ call'[u][d].pc \in {"unlock", "release", "runT"} => thrInfo'[x] = u
      BY DEF Served
    <2>1. CASE x = o
      BY <1>2, <2>1 DEF Kept, Served, Becomes
    <2>2. CASE x # o
      <3>1. ~(u = t /\ d = k)
        BY <1>1, <1>2, <2>2 DEF Holds
      <3>2. QED
        BY <1>2, <2>2, <3>1 DEF Kept, Served, Becomes
    <2>3. QED
      BY <2>1, <2>2
  <1>5. LockUsed'
    <2>1. flags[o]["lock"]
      BY DEF Alone
    <2>2. QED
      BY <1>2, <2>1 DEF Kept, LockUsed, KeepsBit
  <1>6. Coalesced'
    BY DEF Kept, Coalesced
  <1>7. ClaimsAgree'
    <2>1. \A x \in Obj : \A u \in Thread : \A d \in 1..MaxDepth :
             Claiming(call'[u][d], x) <=> Claiming(call[u][d], x)
      BY <1>1 DEF Claiming, Becomes
    <2>2. QED
      BY <2>1, ClaimsSame DEF Kept
  <1>8. ToldOrWillBe'
    <2>1. \A x \in Obj : \A u \in Thread : \A d \in 1..MaxDepth :
             WillTell(call[u][d], x) => WillTell(call[u][d], x)'
      BY <1>1 DEF WillTell, Becomes, KeepsBit
    <2>2. QED
      BY <2>1, ToldSame DEF Kept
  <1>9. Quiet
    BY <1>2 DEF Quiet, HoldersStay
  <1>10. QED
    BY <1>9, <1>3, <1>4, <1>5, <1>6, <1>7, <1>8 DEF Kept

\* A call that has left the loop notifies, or is done.
LEMMA TalkKeeps ==
    ASSUME Stacks, Kept, NEW t \in Thread, NEW k \in 1..MaxDepth, NEW g,
           Becomes(t, k, g), call[t][k].pc \in {"post", "tell", "notify", "ins"},
           g.pc \in {"none", "tell", "notify", "ins"},
           g.word = <<>>, g.info => call[t][k].info,
           g.pc = "none" => ~g.ins, g.pc = "ins" => g.ins,
           KeepsBit("lock"), KeepsBit("mtx"), KeepsBit("thq"),
           ClaimsAgree', ToldOrWillBe',
           UNCHANGED <<state, que, occur, thrInfo, app, want>>
    PROVE  Kept' /\ Quiet
  <1>1. FrameShape' /\ Served' /\ LockUsed' /\ Balance'
    <2>1. g.info => k = 1
      BY DEF Kept, FrameShape
    <2>2. /\ call[t][k].pc \notin Locked \cup {"gc"} /\ g.pc \notin Locked \cup {"gc"}
          /\ g.ins => g.pc \in {"post", "tell", "notify", "ins"}
          /\ g.info => g.pc # "ref"
      BY DEF Locked
    <2>3. \A x \in Obj : flags'[x]["thq"] => flags[x]["thq"]
      BY DEF KeepsBit
    <2>4. QED
      BY <2>1, <2>2, <2>3, OutsideKeeps DEF Kept
  <1>2. Coalesced'
    BY DEF Kept, Coalesced
  <1>3. Quiet
    BY QuietPlace DEF Locked
  <1>4. QED
    BY <1>3, <1>1, <1>2 DEF Kept

\* The call is done: the pool gets its object, or it returns.
LEMMA DoneKeeps ==
    ASSUME Stacks, Kept, NEW t \in Thread, At(t, "post") \/ At(t, "notify"),
           At(t, "post") => ~flags[Top(t).obj]["inv"], Done(t), UNCHANGED flags,
           UNCHANGED <<state, que, occur, thrInfo, app, ready, told, want>>
    PROVE  Kept' /\ Quiet
  <1> DEFINE f == Top(t)
             k == dep[t]
             g == IF f.ins THEN [f EXCEPT !.pc = "ins"] ELSE NoFrame
  <1>1. /\ k > 0 /\ k \in 1..MaxDepth /\ f \in Frame
        /\ f.pc \in {"post", "notify"} /\ f = call[t][k]
        /\ f.pc = "post" => ~flags[f.obj]["inv"]
    BY TopFrame DEF At, Top
  <1>2. /\ f.ins => /\ [f EXCEPT !.pc = "ins"].pc = "ins" /\ [f EXCEPT !.pc = "ins"].ins
                    /\ [f EXCEPT !.pc = "ins"].info = f.info
                    /\ [f EXCEPT !.pc = "ins"].obj = f.obj
                    /\ [f EXCEPT !.pc = "ins"].word = f.word
                    /\ [f EXCEPT !.pc = "ins"] \in Frame
        /\ NoFrame.pc = "none" /\ NoFrame.ins = FALSE /\ NoFrame.info = FALSE
        /\ NoFrame.word = <<>> /\ f.word = <<>>
    <2>1. "ins" \in Pc
      BY DEF Pc
    <2>2. f.word = <<>>
      BY <1>1 DEF Kept, FrameShape
    <2>3. QED
      BY <1>1, <2>1, <2>2, GoneFrame, NoFrameFields, NoFrameRest
  <1>3. Becomes(t, k, g)
    BY <1>1, <1>2, PopBecomes, SetTopBecomes DEF Done, Goto
  <1> HIDE DEF f, k
  <1>4. \A y \in Flag : KeepsBit(y)
    BY DEF KeepsBit
  <1>5. ClaimsAgree'
    <2>1. \A x \in Obj : \A u \in Thread : \A d \in 1..MaxDepth :
             Claiming(call'[u][d], x) <=> Claiming(call[u][d], x)
      <3>1. \A x \in Obj : Claiming(g, x) <=> Claiming(f, x)
        <4>1. CASE f.ins
          BY <1>2, <4>1 DEF Claiming
        <4>2. CASE ~f.ins
          BY <1>1, <1>2, <4>2 DEF Claiming
        <4>3. QED
          BY <4>1, <4>2
      <3> HIDE DEF g
      <3>2. QED
        BY <1>1, <1>3, <3>1 DEF Becomes
    <2>2. QED
      BY <1>4, <2>1, ClaimsSame DEF Kept, Flag
  <1>6. ToldOrWillBe'
    <2>1. \A x \in Obj : \A u \in Thread : \A d \in 1..MaxDepth :
             WillTell(call[u][d], x) => WillTell(call[u][d], x)'
      BY <1>1, <1>3 DEF WillTell, Becomes, Locked
    <2>2. QED
      BY <2>1, ToldSame DEF Kept
  <1>7. /\ g.pc \in {"none", "tell", "notify", "ins"}
        /\ g.word = <<>> /\ (g.info => f.info)
        /\ (g.pc = "none" => ~g.ins) /\ (g.pc = "ins" => g.ins)
    BY <1>2
  <1> HIDE DEF g
  <1>8. QED
    BY <1>1, <1>3, <1>4, <1>5, <1>6, <1>7, TalkKeeps DEF Flag

\* invoke_state(), invoke_listen() and the pool's ins().
LEMMA TellsKeep ==
    ASSUME ~Torn, Stacks, LoopTypes, RestTypes, Kept, NEW t \in Thread,
           InvokeState(t) \/ Tell(t) \/ NotifyDone(t) \/ PoolIns(t)
    PROVE  Kept' /\ Quiet
  <1> DEFINE f == Top(t)
             o == f.obj
             k == dep[t]
  <1>1. /\ k > 0 /\ k \in 1..MaxDepth /\ f \in Frame /\ o \in Obj
        /\ f = call[t][k] /\ f.pc \in {"post", "tell", "notify", "ins"}
    <2>1. {"post", "tell", "notify", "ins"} \subseteq Pc \ {"none", "gc"}
      BY DEF Pc
    <2>2. At(t, "post") \/ At(t, "tell") \/ At(t, "notify") \/ At(t, "ins")
      BY DEF InvokeState, Tell, NotifyDone, PoolIns
    <2>3. QED
      BY <2>1, <2>2, AtFrame DEF Top
  <1>2. f.word = <<>> /\ (f.pc = "ins" => f.ins) /\ (f.info => k = 1)
    BY <1>1 DEF Kept, FrameShape
  <1>3. CASE Done(t) /\ UNCHANGED flags /\ At(t, "post") /\ InvokeState(t)
             /\ ~flags[Top(t).obj]["inv"]
    <2>1. UNCHANGED <<state, que, occur, thrInfo, app, ready, told, want>>
      BY <1>3 DEF InvokeState, ghosts
    <2>2. QED
      BY <1>3, <2>1, DoneKeeps
  <1>4. CASE NotifyDone(t)
    <2>1. /\ UNCHANGED <<state, que, occur, thrInfo, app, ready, told, want>>
          /\ Done(t) /\ At(t, "notify") /\ ~At(t, "post") /\ UNCHANGED flags
      BY <1>4 DEF NotifyDone, ghosts, At
    <2>2. QED
      BY <2>1, DoneKeeps
  <1>5. CASE InvokeState(t) /\ StoreFlag(t, "inv", FALSE, "tell")
    <2> DEFINE g == [f EXCEPT !.pc = "tell"]
    <2>1. "inv" \in Flag /\ "tell" \in Pc /\ flags \in [Obj -> Word] /\ FALSE \in BOOLEAN
      BY DEF Flag, Pc, LoopTypes
    <2>2. /\ Stores(o, "inv", FALSE) /\ Becomes(t, k, g)
          /\ \A y \in Flag \ {"inv"} : KeepsBit(y)
      BY <1>1, <1>5, <2>1, StoreFlagWhole
    <2>3. /\ f.pc = "post"
          /\ UNCHANGED <<state, que, occur, thrInfo, app, ready, told, want>>
      BY <1>5 DEF InvokeState, At, ghosts
    <2>4. /\ g.pc = "tell" /\ g.ins = f.ins /\ g.info = f.info /\ g.obj = o
          /\ g.word = <<>>
      BY <1>1, <1>2, <2>1, GoneFrame
    <2> HIDE DEF g, f, o, k
    <2>5. KeepsBit("lock") /\ KeepsBit("mtx") /\ KeepsBit("thq")
      BY <2>2 DEF Flag
    <2>6. ClaimsAgree'
      <3>1. \A x \in Obj : \A u \in Thread : \A d \in 1..MaxDepth :
               Claiming(call'[u][d], x) <=> Claiming(call[u][d], x)
        BY <1>1, <2>2, <2>3, <2>4 DEF Claiming, Becomes, o
      <3>2. QED
        BY <2>3, <2>5, <3>1, ClaimsSame DEF Kept
    <2>7. ToldOrWillBe'
      <3>1. WillTellThen(g, o)
        BY <2>4 DEF WillTellThen
      <3>2. ASSUME NEW x \in Obj, x # o
            PROVE  /\ told'[x] = told[x] /\ state'[x] = state[x]
                   /\ flags'[x]["inv"] = flags[x]["inv"]
                   /\ ~WillTell(call[t][k], x)
        BY <1>1, <2>2, <2>3, <3>2 DEF Stores, WillTell, o
      <3>3. QED
        BY <1>1, <2>2, <3>1, <3>2, ToldStep DEF Kept
    <2>8. QED
      BY <1>1, <2>2, <2>3, <2>4, <2>5, <2>6, <2>7, TalkKeeps
  <1>6. CASE Tell(t)
    <2> DEFINE g == [f EXCEPT !.pc = "notify"]
    <2>1. /\ f.pc = "tell" /\ told' = [told EXCEPT ![o] = state[o]]
          /\ UNCHANGED <<state, que, occur, flags, thrInfo, app, ready, want>>
      BY <1>6 DEF Tell, At
    <2>2. /\ g.pc = "notify" /\ g.ins = f.ins /\ g.info = f.info /\ g.obj = o
          /\ g.word = <<>> /\ g \in Frame
      <3>1. "notify" \in Pc
        BY DEF Pc
      <3>2. QED
        BY <1>1, <1>2, <3>1, GoneFrame
    <2>3. Becomes(t, k, g)
      BY <1>1, <1>6, <2>2, SetTopBecomes DEF Tell, Goto
    <2> HIDE DEF g, f, o, k
    <2>4. KeepsBit("lock") /\ KeepsBit("mtx") /\ KeepsBit("thq")
      BY <2>1 DEF KeepsBit
    <2>5. ClaimsAgree'
      <3>1. \A x \in Obj : \A u \in Thread : \A d \in 1..MaxDepth :
               Claiming(call'[u][d], x) <=> Claiming(call[u][d], x)
        BY <1>1, <2>1, <2>2, <2>3 DEF Claiming, Becomes, o
      <3>2. QED
        BY <2>1, <2>4, <3>1, ClaimsSame DEF Kept
    <2>6. ToldOrWillBe'
      <3>1. told'[o] = state'[o]
        BY <1>1, <2>1 DEF RestTypes
      <3>2. ASSUME NEW x \in Obj, x # o
            PROVE  /\ told'[x] = told[x] /\ state'[x] = state[x]
                   /\ flags'[x]["inv"] = flags[x]["inv"]
                   /\ ~WillTell(call[t][k], x)
        BY <1>1, <2>1, <3>2 DEF WillTell, o, RestTypes
      <3>3. QED
        BY <1>1, <2>3, <3>1, <3>2, ToldStep DEF Kept
    <2>7. QED
      BY <1>1, <2>1, <2>2, <2>3, <2>4, <2>5, <2>6, TalkKeeps
  <1>7. CASE PoolIns(t)
    <2>1. /\ f.pc = "ins" /\ ready' = Append(ready, o) /\ Pop(t)
          /\ UNCHANGED <<state, que, occur, flags, thrInfo, app, told, want>>
      BY <1>7 DEF PoolIns, At, ghosts
    <2>2. Becomes(t, k, NoFrame)
      BY <1>1, <2>1, PopBecomes
    <2>3. /\ NoFrame.pc = "none" /\ NoFrame.ins = FALSE /\ NoFrame.info = FALSE
          /\ NoFrame.word = <<>>
      BY NoFrameFields, NoFrameRest
    <2> HIDE DEF f, o, k
    <2>4. KeepsBit("lock") /\ KeepsBit("mtx") /\ KeepsBit("thq")
      BY <2>1 DEF KeepsBit
    <2>5. ClaimsAgree'
      <3>1. Claiming(call[t][k], o)
        BY <1>1, <1>2, <2>1 DEF Claiming, o
      <3>2. \A x \in Obj : ~Claiming(NoFrame, x)
        BY <2>3 DEF Claiming
      <3>3. ready \in Seq(Obj)
        BY DEF RestTypes
      <3>4. QED
        BY <1>1, <2>1, <2>2, <2>4, <3>1, <3>2, <3>3, ClaimQueued DEF Kept
    <2>6. ToldOrWillBe'
      <3>1. \A x \in Obj : \A u \in Thread : \A d \in 1..MaxDepth :
               WillTell(call[u][d], x) => WillTell(call[u][d], x)'
        BY <1>1, <2>1, <2>2 DEF WillTell, Becomes, Locked
      <3>2. QED
        BY <2>1, <3>1, ToldSame DEF Kept
    <2>7. QED
      BY <1>1, <2>1, <2>2, <2>3, <2>4, <2>5, <2>6, TalkKeeps
  <1>8. QED
    BY <1>2, <1>3, <1>4, <1>5, <1>6, <1>7 DEF InvokeState

\* A turn of the loop: f, which the thread t has at depth k, is alone with o and
\* has the flags fl ready to store; s is the state it goes on in, w its worker.
Turning(t, k, f, o, s, w, fl) ==
    /\ call[t][k] = f /\ f.obj = o /\ ~f.ins /\ f.word = <<>>
    /\ f.pc \in {"enter", "runS", "runT"}
    /\ f.info => k = 1
    /\ \A u \in Thread : \A d \in 1..MaxDepth : Holds(u, d, o) => u = t /\ d = k
    /\ fl["lock"] /\ fl["mtx"] = flags[o]["mtx"] /\ fl["thq"] = flags[o]["thq"]
    /\ fl["inv"] \/ (s = state[o] /\ fl["inv"] = flags[o]["inv"])
    /\ flags[o]["mtx"] <=> f.pc = "runS"
    /\ w \in {NoThread, t}
    /\ w # NoThread => f.info
    /\ f.info /\ f.pc = "enter" => w # NoThread
    /\ flags[o]["thq"] => s \in TsThread

\* A step of a call for o touches no other object.
TurnOnly(o, s) ==
    \A x \in Obj :
        /\ state'[x] = IF x = o THEN s ELSE state[x]
        /\ x # o => /\ thrInfo'[x] = thrInfo[x]
                    /\ que'[x] = que[x]
                    /\ x \in want' <=> x \in want

\* A turn stores the state of one object (invoke_check()).
TurnStates(o, s) == \A x \in Obj : state'[x] = IF x = o THEN s ELSE state[x]

\* The parts of a turn, whichever way it goes: g takes the place of f.
LEMMA TurnTold ==
    ASSUME Kept, NEW t \in Thread, NEW k \in 1..MaxDepth, NEW f, NEW o \in Obj,
           NEW s, NEW w, NEW fl, NEW g, Turning(t, k, f, o, s, w, fl),
           Becomes(t, k, g), g.obj = o, g.pc \in Locked \cup {"post"},
           told' = told, Stores(o, "inv", fl["inv"]), TurnOnly(o, s)
    PROVE  ToldOrWillBe'
  <1> USE DEF TurnOnly
  <1>1. f.pc \notin {"tell"} /\ call[t][k] = f /\ f.obj = o
    BY DEF Turning
  <1>2. ASSUME NEW x \in Obj, x # o
        PROVE  /\ told'[x] = told[x] /\ state'[x] = state[x]
               /\ flags'[x]["inv"] = flags[x]["inv"]
               /\ ~WillTell(call[t][k], x)
    BY <1>1, <1>2 DEF Stores, WillTell
  <1>3. CASE fl["inv"]
    <2>1. WillTellThen(g, o)
      BY <1>3 DEF WillTellThen, Stores
    <2>2. QED
      BY <1>2, <2>1, ToldStep DEF Kept
  <1>4. CASE ~fl["inv"]
    <2>1. s = state[o] /\ fl["inv"] = flags[o]["inv"]
      BY <1>4 DEF Turning
    <2>2. /\ told'[o] = told[o] /\ state'[o] = state[o]
          /\ flags'[o]["inv"] = flags[o]["inv"]
          /\ ~WillTell(call[t][k], o)
      BY <1>1, <1>4, <2>1 DEF Stores, WillTell
    <2>3. QED
      BY <1>2, <2>2, ToldStep DEF Kept
  <1>5. QED
    BY <1>3, <1>4

\* The loop starts a state function.
LEMMA RunKeeps ==
    ASSUME Stacks, flags \in [Obj -> Word], Alone, Kept, NEW t \in Thread, NEW k \in 1..MaxDepth, NEW f,
           NEW o \in Obj, NEW s, NEW w, NEW fl, NEW g,
           Turning(t, k, f, o, s, w, fl), s # Zom,
           Becomes(t, k, g), g.obj = o, g.info = f.info, ~g.ins, g.word = <<>>,
           g.pc \in {"lock", "unlock"},
           g.pc = "unlock" => w # NoThread,
           s \in TsThread => g.pc = "unlock",
           Coalesced',
           Stores(o, "lock", TRUE), Stores(o, "mtx", fl["mtx"]),
           Stores(o, "thq", FALSE), Stores(o, "inv", fl["inv"]),
           TurnOnly(o, s), thrInfo'[o] = w, o \notin want',
           app' = app, UNCHANGED <<told, ready>>
    PROVE  Kept'
  <1> USE DEF TurnOnly
  <1>1. /\ call[t][k] = f /\ f.obj = o /\ f.pc \in {"enter", "runS", "runT"}
        /\ g.pc \in Locked /\ call'[t][k] = g
        /\ ~f.ins
    BY DEF Turning, Locked, Becomes
  <1>2. \A u \in Thread : \A d \in 1..MaxDepth :
           /\ Holds(u, d, o)' <=> u = t /\ d = k
           /\ \A x \in Obj \ {o} : /\ Holds(u, d, x)' <=> Holds(u, d, x)
                                   /\ Holds(u, d, x) => call'[u][d] = call[u][d]
    BY <1>1 DEF Holds, Becomes, Turning
  <1>3. FrameShape'
    BY <1>1, ShapeStep DEF Kept, Turning
  <1>4. Served'
    <2> SUFFICES ASSUME NEW u \in Thread, NEW d \in 1..MaxDepth, NEW x \in Obj,
                        Holds(u, d, x)'
                 PROVE  /\ thrInfo'[x] # NoThread => thrInfo'[x] = u /\ call'[u][d].info
                        /\ state'[x] # Zom /\ x \notin want'
                        /\ call'[u][d].pc \in {"acquire", "runS"} => flags'[x]["mtx"]
                        /\ call'[u][d].pc \in {"release", "runT"} => ~flags'[x]["mtx"]
                        /\ call'[u][d].pc \in {"unlock", "release", "runT"} => thrInfo'[x] = u
      BY DEF Served
    <2>1. CASE x = o
      <3>1. u = t /\ d = k /\ call'[u][d] = g
        BY <1>1, <1>2, <2>1
      <3>2. w # NoThread => w = t /\ g.info
        BY DEF Turning
      <3>3. QED
        BY <2>1, <3>1, <3>2
    <2>2. CASE x # o
      <3>1. Holds(u, d, x) /\ call'[u][d] = call[u][d]
        BY <1>2, <2>2
      <3>2. QED
        BY <2>2, <3>1 DEF Kept, Served, Stores
    <2>3. QED
      BY <2>1, <2>2
  <1>5. LockUsed'
    <2> SUFFICES ASSUME NEW x \in Obj
                 PROVE  /\ flags'[x]["lock"] => ~flags'[x]["thq"]
                        /\ flags'[x]["lock"] =>
                              \E u \in Thread : \E d \in 1..MaxDepth : Holds(u, d, x)'
                        /\ ~flags'[x]["lock"] => ~flags'[x]["mtx"] /\ que'[x] = <<>>
                        /\ flags'[x]["thq"] => state'[x] \in TsThread
      BY DEF LockUsed
    <2>1. CASE x = o
      BY <1>2, <2>1 DEF Stores
    <2>2. CASE x # o
      BY <1>2, <2>2 DEF Stores, Kept, LockUsed
    <2>3. QED
      BY <2>1, <2>2
  <1>6. ClaimsAgree'
    <2>1. \A x \in Obj : ~Claiming(g, x)
      BY <1>1 DEF Claiming, Locked
    <2>2. CASE flags[o]["thq"]
      <3>1. Claiming(f, o)
        <4>1. s \in TsThread /\ f.info /\ ~flags[o]["lock"]
          BY <2>2 DEF Turning, Kept, LockUsed
        <4>2. f.pc = "enter"
          BY <1>1, <4>1 DEF Alone, Holds, Locked
        <4>3. QED
          BY <1>1, <4>1, <4>2 DEF Claiming
      <3>2. QED
        BY <1>1, <2>1, <3>1, ClaimEnds DEF Kept
    <2>3. CASE ~flags[o]["thq"]
      <3>1. ~Claiming(f, o)
        BY <1>1, <2>3 DEF Kept, ClaimsAgree
      <3>2. \A x \in Obj : \A u \in Thread : \A d \in 1..MaxDepth :
               Claiming(call'[u][d], x) <=> Claiming(call[u][d], x)
        BY <1>1, <2>1, <3>1 DEF Claiming, Becomes
      <3>3. KeepsBit("thq")
        <4>1. flags[o]["thq"] = FALSE
          BY <2>3 DEF Word, Flag
        <4>2. QED
          BY <4>1 DEF KeepsBit, Stores
      <3>4. QED
        BY <3>2, <3>3, ClaimsSame DEF Kept
    <2>4. QED
      BY <2>2, <2>3
  <1>7. Balance'
    <2>1. \A x \in Obj : flags'[x]["mtx"] = flags[x]["mtx"]
      BY DEF Stores, Turning
    <2>2. \A u \in Thread : \A d \in 1..MaxDepth : ~(u = t /\ d = k) =>
             (HasApp(call[u][d])' <=> HasApp(call[u][d]))
      BY <2>1, AppOthers
    <2>3. HasApp(call[t][k])' <=> HasApp(call[t][k])
      <3>1. HasApp(call[t][k]) <=> flags[o]["mtx"]
        BY <1>1 DEF HasApp, Turning
      <3>2. HasApp(call[t][k])' <=> flags'[o]["mtx"]
        BY <1>1 DEF HasApp
      <3>3. QED
        BY <2>1, <3>1, <3>2
    <2>4. QED
      BY <2>2, <2>3, BalanceSame DEF Kept
  <1>8. ToldOrWillBe'
    BY <1>1, TurnTold
  <1>9. QED
    BY <1>3, <1>4, <1>5, <1>6, <1>7, <1>8 DEF Kept

\* The call leaves the loop, with thrQueueing_flag v.
LEMMA LeaveKeeps ==
    ASSUME Stacks, flags \in [Obj -> Word], Alone, Kept, NEW t \in Thread, NEW k \in 1..MaxDepth, NEW f,
           NEW o \in Obj, NEW s, NEW w, NEW fl, NEW g, NEW v \in BOOLEAN,
           Turning(t, k, f, o, s, w, fl), ~(f.info /\ f.pc = "enter"),
           flags[o]["thq"] => v, v => s \in TsThread,
           Becomes(t, k, g), g.obj = o, g.info = f.info, g.word = <<>>,
           g.pc = "post", g.ins <=> v /\ ~flags[o]["thq"],
           Coalesced', que'[o] = <<>>,
           Stores(o, "lock", FALSE), Stores(o, "mtx", FALSE),
           Stores(o, "thq", v), Stores(o, "inv", fl["inv"]),
           TurnOnly(o, s),
           app' = IF fl["mtx"] THEN Released ELSE app, UNCHANGED <<told, ready>>
    PROVE  Kept'
  <1> USE DEF TurnOnly
  <1>1. /\ call[t][k] = f /\ f.obj = o /\ f.pc \in {"enter", "runS", "runT"}
        /\ g.pc \notin Locked /\ call'[t][k] = g
        /\ ~f.ins
    BY DEF Turning, Locked, Becomes
  <1>2. \A u \in Thread : \A d \in 1..MaxDepth :
           /\ ~Holds(u, d, o)'
           /\ \A x \in Obj \ {o} : /\ Holds(u, d, x)' <=> Holds(u, d, x)
                                   /\ Holds(u, d, x) => call'[u][d] = call[u][d]
    BY <1>1 DEF Holds, Becomes, Turning
  <1>3. FrameShape'
    BY <1>1, ShapeStep DEF Kept, Turning
  <1>4. Served'
    <2> SUFFICES ASSUME NEW u \in Thread, NEW d \in 1..MaxDepth, NEW x \in Obj,
                        Holds(u, d, x)'
                 PROVE  /\ thrInfo'[x] # NoThread => thrInfo'[x] = u /\ call'[u][d].info
                        /\ state'[x] # Zom /\ x \notin want'
                        /\ call'[u][d].pc \in {"acquire", "runS"} => flags'[x]["mtx"]
                        /\ call'[u][d].pc \in {"release", "runT"} => ~flags'[x]["mtx"]
                        /\ call'[u][d].pc \in {"unlock", "release", "runT"} => thrInfo'[x] = u
      BY DEF Served
    <2>1. x # o
      BY <1>2
    <2>2. Holds(u, d, x) /\ call'[u][d] = call[u][d]
      BY <1>2, <2>1
    <2>3. /\ thrInfo[x] # NoThread => thrInfo[x] = u /\ call[u][d].info
          /\ state[x] # Zom /\ x \notin want
          /\ call[u][d].pc \in {"acquire", "runS"} => flags[x]["mtx"]
          /\ call[u][d].pc \in {"release", "runT"} => ~flags[x]["mtx"]
          /\ call[u][d].pc \in {"unlock", "release", "runT"} => thrInfo[x] = u
      BY <2>2 DEF Kept, Served
    <2>4. /\ thrInfo'[x] = thrInfo[x] /\ state'[x] = state[x]
          /\ (x \in want' <=> x \in want) /\ flags'[x]["mtx"] = flags[x]["mtx"]
      BY <2>1 DEF Stores
    <2>5. QED
      BY <2>2, <2>3, <2>4
  <1>5. LockUsed'
    <2> SUFFICES ASSUME NEW x \in Obj
                 PROVE  /\ flags'[x]["lock"] => ~flags'[x]["thq"]
                        /\ flags'[x]["lock"] =>
                              \E u \in Thread : \E d \in 1..MaxDepth : Holds(u, d, x)'
                        /\ ~flags'[x]["lock"] => ~flags'[x]["mtx"] /\ que'[x] = <<>>
                        /\ flags'[x]["thq"] => state'[x] \in TsThread
      BY DEF LockUsed
    <2>1. CASE x = o
      BY <2>1 DEF Stores
    <2>2. CASE x # o
      <3>1. /\ flags'[x]["lock"] = flags[x]["lock"] /\ flags'[x]["thq"] = flags[x]["thq"]
            /\ flags'[x]["mtx"] = flags[x]["mtx"]
            /\ state'[x] = state[x] /\ que'[x] = que[x]
        BY <2>2 DEF Stores
      <3>2. /\ flags[x]["lock"] => ~flags[x]["thq"]
            /\ flags[x]["lock"] =>
                  \E u \in Thread : \E d \in 1..MaxDepth : Holds(u, d, x)
            /\ ~flags[x]["lock"] => ~flags[x]["mtx"] /\ que[x] = <<>>
            /\ flags[x]["thq"] => state[x] \in TsThread
        BY DEF Kept, LockUsed
      <3>3. QED
        <4>1. flags[x]["lock"] =>
                 \E u \in Thread : \E d \in 1..MaxDepth : Holds(u, d, x)'
          BY <1>2, <2>2, <3>2
        <4>2. QED
          BY <3>1, <3>2, <4>1
    <2>3. QED
      BY <2>1, <2>2
  <1>6. ClaimsAgree'
    <2>1. \A x \in Obj : ~Claiming(f, x)
      BY <1>1 DEF Claiming
    <2>2. CASE g.ins
      <3>1. Claiming(g, o) /\ \A x \in Obj \ {o} : ~Claiming(g, x)
        BY <2>2 DEF Claiming
      <3>2. Stores(o, "thq", TRUE) /\ ~flags[o]["thq"]
        BY <2>2
      <3>3. QED
        BY <1>1, <2>1, <3>1, <3>2, ClaimMade DEF Kept
    <2>3. CASE ~g.ins
      <3>1. \A x \in Obj : \A u \in Thread : \A d \in 1..MaxDepth :
               Claiming(call'[u][d], x) <=> Claiming(call[u][d], x)
        BY <1>1, <2>1, <2>3 DEF Claiming, Becomes
      <3>2. flags[o]["thq"] = v
        <4>1. flags[o]["thq"] \in BOOLEAN
          BY DEF Word, Flag
        <4>2. QED
          BY <2>3, <4>1
      <3>3. KeepsBit("thq")
        BY <3>2 DEF KeepsBit, Stores
      <3>4. QED
        BY <3>1, <3>3, ClaimsSame DEF Kept
    <2>4. QED
      BY <2>2, <2>3
  <1>7. Balance'
    <2>1. \A u \in Thread : \A d \in 1..MaxDepth : ~(u = t /\ d = k) =>
             (HasApp(call[u][d])' <=> HasApp(call[u][d]))
      <3>1. \A x \in Obj \ {o} : flags'[x]["mtx"] = flags[x]["mtx"]
        BY DEF Stores
      <3>2. \A u \in Thread : \A d \in 1..MaxDepth :
               Holds(u, d, o) => u = t /\ d = k
        BY DEF Turning
      <3>3. \A x \in Obj :
               \/ flags'[x]["mtx"] = flags[x]["mtx"]
               \/ \A u \in Thread : \A d \in 1..MaxDepth :
                     Holds(u, d, x) => u = t /\ d = k
        BY <3>1, <3>2
      <3>4. QED
        BY <3>3, AppOthers
    <2>2. ~HasApp(call[t][k])'
      BY <1>1 DEF HasApp
    <2>3. HasApp(call[t][k]) <=> fl["mtx"]
      BY <1>1 DEF HasApp, Turning
    <2>4. CASE fl["mtx"]
      BY <2>1, <2>2, <2>3, <2>4, BalanceDrop DEF Kept
    <2>5. CASE ~fl["mtx"]
      BY <2>1, <2>2, <2>3, <2>5, BalanceSame DEF Kept
    <2>6. QED
      BY <2>4, <2>5
  <1>8. ToldOrWillBe'
    BY <1>1, TurnTold
  <1>9. QED
    BY <1>3, <1>4, <1>5, <1>6, <1>7, <1>8 DEF Kept

\* What a word reads when the loop goes on, and when it is left.
LEMMA TurnedWord ==
    ASSUME NEW fl \in Word
    PROVE  /\ [fl EXCEPT !["thq"] = FALSE]["thq"] = FALSE
           /\ \A b \in {"lock", "mtx", "inv"} : [fl EXCEPT !["thq"] = FALSE][b] = fl[b]
           /\ [fl EXCEPT !["mtx"] = FALSE, !["lock"] = FALSE]["mtx"] = FALSE
           /\ [fl EXCEPT !["mtx"] = FALSE, !["lock"] = FALSE]["lock"] = FALSE
           /\ \A b \in {"thq", "inv"} :
                 [fl EXCEPT !["mtx"] = FALSE, !["lock"] = FALSE][b] = fl[b]
           /\ [fl EXCEPT !["thq"] = TRUE] \in Word
           /\ [fl EXCEPT !["thq"] = TRUE]["thq"] = TRUE
           /\ \A b \in {"lock", "mtx", "inv"} : [fl EXCEPT !["thq"] = TRUE][b] = fl[b]
  BY DEF Word, Flag

\* A store of a whole word stores each of its bits.
LEMMA WordStored ==
    ASSUME flags \in [Obj -> Word], NEW o \in Obj, NEW wd,
           flags' = [flags EXCEPT ![o] = wd]
    PROVE  \A b \in Flag : Stores(o, b, wd[b])
  BY DEF Stores

\* The call leaves the loop with the word fl and the queue q, and says so to the
\* pool when it leaves the demand.
LEMMA LeftKeeps ==
    ASSUME Stacks, LoopTypes, Alone, Kept, NEW t \in Thread, dep[t] > 0,
           NEW f \in Frame, NEW o \in Obj, NEW s, NEW w, NEW fl, NEW fl1 \in Word,
           NEW q, NEW occ, NEW ins \in BOOLEAN,
           Turning(t, dep[t], f, o, s, w, fl), ~(f.info /\ f.pc = "enter"),
           fl1["mtx"] = fl["mtx"], fl1["inv"] = fl["inv"],
           flags[o]["thq"] => fl1["thq"], fl1["thq"] => s \in TsThread,
           ins <=> fl1["thq"] /\ ~flags[o]["thq"],
           q = <<>>, Coal(q, occ),
           Leave(t, f, o, q, occ, fl1, ins), TurnStates(o, s),
           \A x \in Obj : x # o => (x \in want' <=> x \in want),
           UNCHANGED <<told, ready>>
    PROVE  Kept'
  <1> DEFINE g == [f EXCEPT !.pc = "post", !.ins = ins]
             wd == [fl1 EXCEPT !["mtx"] = FALSE, !["lock"] = FALSE]
  <1>1. /\ que' = [que EXCEPT ![o] = q] /\ occur' = [occur EXCEPT ![o] = occ]
        /\ flags' = [flags EXCEPT ![o] = wd]
        /\ app' = IF fl1["mtx"] THEN Released ELSE app
        /\ thrInfo' = [thrInfo EXCEPT ![o] = NoThread]
        /\ SetTop(t, g)
    BY DEF Leave
  <1>2. /\ g \in Frame /\ g.pc = "post" /\ g.obj = f.obj /\ g.info = f.info
        /\ g.ins = ins /\ g.word = f.word
    BY LeftFrame
  <1>3. Becomes(t, dep[t], g) /\ dep[t] \in 1..MaxDepth
    BY <1>1, <1>2, SetTopBecomes, TopFrame
  <1>4. /\ wd["mtx"] = FALSE /\ wd["lock"] = FALSE /\ wd["thq"] = fl1["thq"]
        /\ wd["inv"] = fl1["inv"]
    BY TurnedWord
  <1> HIDE DEF wd, g
  <1>5. /\ Stores(o, "lock", FALSE) /\ Stores(o, "mtx", FALSE)
        /\ Stores(o, "thq", fl1["thq"]) /\ Stores(o, "inv", fl["inv"])
    <2>1. \A b \in Flag : Stores(o, b, wd[b])
      BY <1>1, WordStored DEF LoopTypes
    <2>2. QED
      BY <1>4, <2>1 DEF Flag
  <1>6. /\ \A x \in Obj : /\ que'[x] = IF x = o THEN q ELSE que[x]
                          /\ occur'[x] = IF x = o THEN occ ELSE occur[x]
                          /\ x # o => thrInfo'[x] = thrInfo[x]
        /\ que'[o] = <<>>
    BY <1>1 DEF LoopTypes
  <1>7. Coalesced'
    BY <1>6, CoalescedStep DEF Kept
  <1>8. g.obj = o /\ g.word = <<>> /\ fl1["thq"] \in BOOLEAN
    BY <1>2 DEF Turning, Word, Flag
  <1>9. flags \in [Obj -> Word]
    BY DEF LoopTypes
  <1> DEFINE k == dep[t]
             v == fl1["thq"]
  <1>10. /\ Turning(t, k, f, o, s, w, fl) /\ Becomes(t, k, g) /\ k \in 1..MaxDepth
         /\ v \in BOOLEAN /\ (flags[o]["thq"] => v) /\ (v => s \in TsThread)
         /\ (g.ins <=> v /\ ~flags[o]["thq"])
         /\ Stores(o, "thq", v)
         /\ app' = IF fl["mtx"] THEN Released ELSE app
    BY <1>1, <1>2, <1>3, <1>5, <1>8
  <1> HIDE DEF k, v
  <1>11. TurnOnly(o, s)
    BY <1>6 DEF TurnOnly, TurnStates
  <1>12. QED
    BY <1>2, <1>5, <1>6, <1>7, <1>8, <1>9, <1>10, <1>11, LeaveKeeps

\* The loop goes on with a state function.
LEMMA RanKeeps ==
    ASSUME Stacks, LoopTypes, Alone, Kept, NEW t \in Thread, dep[t] > 0,
           NEW f \in Frame, NEW o \in Obj, NEW s, NEW w, NEW fl \in Word,
           NEW rest, NEW left, NEW pc \in {"lock", "unlock"},
           Turning(t, dep[t], f, o, s, w, fl), s # Zom,
           pc = "unlock" => w # NoThread, s \in TsThread => pc = "unlock",
           Coal(rest, left),
           que' = [que EXCEPT ![o] = rest], occur' = [occur EXCEPT ![o] = left],
           flags' = [flags EXCEPT ![o] = [fl EXCEPT !["thq"] = FALSE]],
           thrInfo' = [thrInfo EXCEPT ![o] = w],
           SetTop(t, [f EXCEPT !.pc = pc]), want' = want \ {o},
           TurnStates(o, s),
           UNCHANGED <<app, told, ready>>
    PROVE  Kept'
  <1> DEFINE g == [f EXCEPT !.pc = pc]
             wd == [fl EXCEPT !["thq"] = FALSE]
             k == dep[t]
  <1>1. /\ g \in Frame /\ g.pc = pc /\ g.obj = f.obj /\ g.info = f.info
        /\ g.ins = f.ins /\ g.word = f.word
    <2>1. pc \in Pc
      BY DEF Pc
    <2>2. QED
      BY <2>1, GoneFrame
  <1>2. Becomes(t, k, g) /\ k \in 1..MaxDepth /\ Turning(t, k, f, o, s, w, fl)
    BY <1>1, SetTopBecomes, TopFrame
  <1>3. wd["lock"] = fl["lock"] /\ wd["mtx"] = fl["mtx"] /\ wd["thq"] = FALSE
        /\ wd["inv"] = fl["inv"]
    BY TurnedWord
  <1>4. flags' = [flags EXCEPT ![o] = wd]
    OBVIOUS
  <1> HIDE DEF wd, g, k
  <1>5. /\ Stores(o, "lock", TRUE) /\ Stores(o, "mtx", fl["mtx"])
        /\ Stores(o, "thq", FALSE) /\ Stores(o, "inv", fl["inv"])
    <2>1. \A b \in Flag : Stores(o, b, wd[b])
      BY <1>4, WordStored DEF LoopTypes
    <2>2. fl["lock"] = TRUE
      BY DEF Turning, Word, Flag
    <2>3. QED
      BY <1>3, <2>1, <2>2 DEF Flag
  <1>6. \A x \in Obj : /\ que'[x] = IF x = o THEN rest ELSE que[x]
                       /\ occur'[x] = IF x = o THEN left ELSE occur[x]
                       /\ thrInfo'[x] = IF x = o THEN w ELSE thrInfo[x]
    BY DEF LoopTypes
  <1>7. Coalesced'
    BY <1>6, CoalescedStep DEF Kept
  <1>8. /\ g.obj = o /\ g.word = <<>> /\ ~g.ins /\ g.pc \in {"lock", "unlock"}
        /\ (g.pc = "unlock" => w # NoThread) /\ (s \in TsThread => g.pc = "unlock")
    BY <1>1 DEF Turning
  <1>9. flags \in [Obj -> Word]
    BY DEF LoopTypes
  <1>10. TurnOnly(o, s) /\ thrInfo'[o] = w /\ o \notin want'
    BY <1>6 DEF TurnOnly, TurnStates
  <1>11. QED
    BY <1>1, <1>2, <1>5, <1>7, <1>8, <1>9, <1>10, RunKeeps

\* A turn of the loop, whichever way it goes.
LEMMA TurnKeeps ==
    ASSUME Stacks, LoopTypes, Alone, Kept, NEW t \in Thread, dep[t] > 0,
           NEW f \in Frame, NEW o \in Obj, NEW s \in State, NEW w, NEW fl \in Word,
           NEW q \in Seq(Event), NEW occ \in SUBSET Once, NEW inHand \in BOOLEAN,
           Turning(t, dep[t], f, o, s, w, fl), Coal(q, occ),
           f.pc = "enter" => q # <<>>,
           Proceed(t, f, o, s, w, q, occ, fl, inHand),
           TurnStates(o, s),
           UNCHANGED <<told, ready>>
    PROVE  Kept'
  <1> DEFINE rest == IF inHand THEN q ELSE Tail(q)
             left == IF inHand THEN occ ELSE occ \ {Head(q)}
  <1>1. \A x \in TsState \cup TsThread : x # Zom
    BY ConstantsAssumption
  <1>2. inHand \/ q # <<>> => Coal(rest, left)
    BY CoalTail
  <1>3. Coal(<<>>, {}) /\ occ \ {q[i] : i \in 1..Len(q)} = {}
    BY CoalEmpty, CoalDrop
  <1>4. f.ins = FALSE /\ fl["thq"] = flags[o]["thq"] /\ flags[o]["thq"] \in BOOLEAN
    BY DEF Frame, Turning, LoopTypes, Word, Flag
  <1>5. CASE /\ s = Zom
             /\ Leave(t, f, o, <<>>, {}, fl, f.ins)
             /\ want' = want \ {o}
    <2>1. ~flags[o]["thq"]
      BY <1>1, <1>5 DEF Turning
    <2>2. ~(f.info /\ f.pc = "enter")
      <3>1. SUFFICES ASSUME f.info, f.pc = "enter" PROVE FALSE
        OBVIOUS
      <3>2. Claiming(call[t][dep[t]], o) /\ dep[t] \in 1..MaxDepth
        BY <3>1, TopFrame DEF Turning, Claiming
      <3>3. QED
        BY <2>1, <3>2 DEF Kept, ClaimsAgree
    <2>3. \A x \in Obj : x # o => (x \in want' <=> x \in want)
      BY <1>5
    <2>4. /\ flags[o]["thq"] => fl["thq"]
          /\ fl["thq"] => s \in TsThread
          /\ FALSE <=> fl["thq"] /\ ~flags[o]["thq"]
      BY <1>4, <2>1
    <2>5. Leave(t, f, o, <<>>, {}, fl, FALSE)
      BY <1>4, <1>5
    <2>6. QED
      BY <1>3, <2>2, <2>3, <2>4, <2>5, LeftKeeps
  <1>6. CASE /\ ~inHand /\ q = <<>>
             /\ Leave(t, f, o, q, occ, fl, f.ins)
             /\ UNCHANGED want
    <2>1. ~(f.info /\ f.pc = "enter")
      BY <1>6
    <2>2. \A x \in Obj : x # o => (x \in want' <=> x \in want)
      BY <1>6
    <2>3. /\ flags[o]["thq"] => fl["thq"]
          /\ fl["thq"] => s \in TsThread
          /\ FALSE <=> fl["thq"] /\ ~flags[o]["thq"]
      BY <1>4 DEF Turning
    <2>4. Leave(t, f, o, q, occ, fl, FALSE)
      BY <1>4, <1>6
    <2>5. q = <<>>
      BY <1>6
    <2>6. QED
      BY <2>1, <2>2, <2>3, <2>4, <2>5, LeftKeeps
  <1>7. ASSUME inHand \/ q # <<>>, NEW pc \in {"lock", "unlock"},
               /\ que' = [que EXCEPT ![o] = rest]
               /\ occur' = [occur EXCEPT ![o] = left]
               /\ flags' = [flags EXCEPT ![o] = [fl EXCEPT !["thq"] = FALSE]]
               /\ thrInfo' = [thrInfo EXCEPT ![o] = w]
               /\ SetTop(t, [f EXCEPT !.pc = pc])
               /\ want' = want \ {o}
               /\ UNCHANGED app,
               s # Zom, pc = "unlock" => w # NoThread, s \in TsThread => pc = "unlock"
        PROVE  Kept'
    <2>1. Coal(rest, left)
      BY <1>2, <1>7
    <2> HIDE DEF rest, left
    <2>2. QED
      BY <1>7, <2>1, RanKeeps
  <1>8. CASE /\ s \in TsThread /\ w = NoThread
             /\ Leave(t, f, o, <<>>, occ \ {q[i] : i \in 1..Len(q)},
                      [fl EXCEPT !["thq"] = TRUE], f.ins \/ ~fl["thq"])
             /\ want' = want \cup {o}
    <2> DEFINE fl1 == [fl EXCEPT !["thq"] = TRUE]
               ins == ~fl["thq"]
    <2>1. ~(f.info /\ f.pc = "enter")
      BY <1>8 DEF Turning
    <2>2. \A x \in Obj : x # o => (x \in want' <=> x \in want)
      BY <1>8
    <2>3. /\ fl1 \in Word /\ fl1["thq"] = TRUE
          /\ fl1["mtx"] = fl["mtx"] /\ fl1["inv"] = fl["inv"]
      BY TurnedWord
    <2>4. Leave(t, f, o, <<>>, {}, fl1, ins)
      <3>1. (f.ins \/ ~fl["thq"]) = ins
        BY <1>4
      <3>2. QED
        BY <1>3, <1>8, <3>1
    <2> HIDE DEF fl1
    <2>5. /\ flags[o]["thq"] => fl1["thq"]
          /\ fl1["thq"] => s \in TsThread
          /\ ins <=> fl1["thq"] /\ ~flags[o]["thq"]
          /\ ins \in BOOLEAN
      BY <1>4, <1>8, <2>3
    <2> HIDE DEF ins
    <2>6. QED
      BY <1>3, <2>1, <2>2, <2>3, <2>4, <2>5, LeftKeeps
  <1>9. TsState \cap TsThread = {}
    BY ConstantsAssumption
  <1>10. Proceed(t, f, o, s, w, q, occ, fl, inHand)
    OBVIOUS
  <1>11. \/ /\ s = Zom
            /\ Leave(t, f, o, <<>>, {}, fl, f.ins)
            /\ want' = want \ {o}
         \/ /\ ~inHand /\ q = <<>>
            /\ Leave(t, f, o, q, occ, fl, f.ins)
            /\ UNCHANGED want
         \/ /\ s \in TsThread /\ w = NoThread
            /\ Leave(t, f, o, <<>>, occ \ {q[i] : i \in 1..Len(q)},
                     [fl EXCEPT !["thq"] = TRUE], f.ins \/ ~fl["thq"])
            /\ want' = want \cup {o}
         \/ \E pc \in {"lock", "unlock"} :
              /\ inHand \/ q # <<>>
              /\ s \in TsState \cup TsThread
              /\ pc = "lock" => s \in TsState
              /\ pc = "unlock" => w # NoThread
              /\ que' = [que EXCEPT ![o] = rest]
              /\ occur' = [occur EXCEPT ![o] = left]
              /\ flags' = [flags EXCEPT ![o] = [fl EXCEPT !["thq"] = FALSE]]
              /\ thrInfo' = [thrInfo EXCEPT ![o] = w]
              /\ SetTop(t, [f EXCEPT !.pc = pc])
              /\ want' = want \ {o}
              /\ UNCHANGED app
    BY <1>10 DEF Proceed
  <1> HIDE DEF rest, left
  <1>12. ASSUME NEW pc \in {"lock", "unlock"},
              /\ inHand \/ q # <<>>
              /\ s \in TsState \cup TsThread
              /\ pc = "lock" => s \in TsState
              /\ pc = "unlock" => w # NoThread
              /\ que' = [que EXCEPT ![o] = rest]
              /\ occur' = [occur EXCEPT ![o] = left]
              /\ flags' = [flags EXCEPT ![o] = [fl EXCEPT !["thq"] = FALSE]]
              /\ thrInfo' = [thrInfo EXCEPT ![o] = w]
              /\ SetTop(t, [f EXCEPT !.pc = pc])
              /\ want' = want \ {o}
              /\ UNCHANGED app
         PROVE  Kept'
    <2>1. s # Zom /\ (s \in TsThread => pc = "unlock")
      BY <1>1, <1>9, <1>12
    <2>2. QED
      BY <1>7, <1>12, <2>1
  <1>13. QED
    BY <1>5, <1>6, <1>8, <1>11, <1>12

\* What a call that finds the object free brings to its first turn of the loop.
Entering(t, f, o, w, q, occ, fl) ==
    /\ f = Top(t) /\ o = f.obj /\ dep[t] > 0 /\ f.ev \in Event
    /\ ~flags[o]["lock"]
    /\ q = Insert(que[o], occur[o], f.ev) /\ occ = InsertMark(occur[o], f.ev)
    /\ Proceed(t, f, o, state[o], w, q, occ, fl, FALSE)
    /\ Coal(q, occ) /\ q # <<>>
    /\ state[o] \in State /\ TurnStates(o, state[o])
    /\ Turning(t, dep[t], f, o, state[o], w, fl)
    /\ UNCHANGED <<state, ready, told>>

\* The turn of a call that enters (tinyState.cpp:926-948).
LEMMA EnterTurning ==
    ASSUME Stacks, LoopTypes, RestTypes, Alone, Kept, NEW t \in Thread, EnterLock(t)
    PROVE  \E f \in Frame, o \in Obj, occ \in SUBSET Once, fl \in Word, q \in Seq(Event) :
              \E w : Entering(t, f, o, w, q, occ, fl)
  <1> DEFINE f == Top(t)
             o == f.obj
             w == IF f.info THEN t ELSE NoThread
             q == Insert(que[o], occur[o], f.ev)
             occ == InsertMark(occur[o], f.ev)
             fl == [flags[o] EXCEPT !["lock"] = TRUE]
  <1>1. At(t, "enter") /\ ~flags[o]["lock"]
    BY DEF EnterLock
  <1>2. /\ dep[t] > 0 /\ dep[t] \in 1..MaxDepth /\ f \in Frame /\ o \in Obj
        /\ f.pc = "enter" /\ f = call[t][dep[t]] /\ f.ev \in Event
    <2>1. "enter" \in Pc \ {"none", "gc"}
      BY DEF Pc
    <2>2. QED
      BY <1>1, <2>1, AtFrame DEF Top, Frame
  <1>3. \A u \in Thread : \A d \in 1..MaxDepth : ~Holds(u, d, o)
    BY <1>1, <1>2 DEF Alone
  <1>4. /\ fl \in Word /\ fl["lock"] = TRUE
        /\ \A b \in {"mtx", "thq", "inv"} : fl[b] = flags[o][b]
    BY <1>2 DEF Word, Flag, LoopTypes
  <1>5. /\ Proceed(t, f, o, state[o], w, q, occ, fl, FALSE)
        /\ UNCHANGED <<state, ready, told>>
    BY DEF EnterLock
  <1>6. que[o] \in Seq(Event) /\ occur[o] \in SUBSET Once /\ Coal(que[o], occur[o])
    BY <1>2 DEF LoopTypes, Kept, Coalesced
  <1>7. Coal(q, occ) /\ q # <<>> /\ q \in Seq(Event) /\ occ \in SUBSET Once
    BY <1>2, <1>6, CoalInsert, QueueOps
  <1>8. state[o] \in State /\ TurnStates(o, state[o])
    BY <1>2, <1>5 DEF RestTypes, TurnStates
  <1>9. Turning(t, dep[t], f, o, state[o], w, fl)
    <2>1. ~f.ins /\ f.word = <<>> /\ (f.info => dep[t] = 1)
      BY <1>2 DEF Kept, FrameShape
    <2>2. ~flags[o]["mtx"] /\ (flags[o]["thq"] => state[o] \in TsThread)
      BY <1>1, <1>2 DEF Kept, LockUsed
    <2>3. t # NoThread
      BY ConstantsAssumption
    <2>4. w \in {NoThread, t} /\ (w # NoThread => f.info) /\ (f.info => w # NoThread)
      BY <2>3
    <2> HIDE DEF w, fl, f
    <2>5. QED
      BY <1>2, <1>3, <1>4, <2>1, <2>2, <2>4 DEF Turning
  <1>10. Entering(t, f, o, w, q, occ, fl)
    BY <1>1, <1>2, <1>5, <1>7, <1>8, <1>9 DEF Entering
  <1> HIDE DEF w, q, occ, fl, f, o
  <1>11. QED
    BY <1>2, <1>4, <1>7, <1>10

\* A call finds the object free and enters the loop.
LEMMA EnterKeeps ==
    ASSUME Stacks, LoopTypes, RestTypes, Alone, Kept, NEW t \in Thread, EnterLock(t)
    PROVE  Kept'
  <1>1. PICK f \in Frame, o \in Obj, occ \in SUBSET Once, fl \in Word, q \in Seq(Event) :
           \E w : Entering(t, f, o, w, q, occ, fl)
    BY EnterTurning
  <1>2. PICK w : Entering(t, f, o, w, q, occ, fl)
    BY <1>1
  <1>3. QED
    BY <1>2, TurnKeeps DEF Entering

\* What the return of a state function brings to the next turn of the loop.
Returning(t, to, rDO, f, o, w, q, occ, fl) ==
    /\ f = Top(t) /\ o = f.obj /\ dep[t] > 0 /\ f.pc # "enter"
    /\ Holds(t, dep[t], o)
    /\ w = thrInfo[o] /\ q = que[o] /\ occ = occur[o]
    /\ Proceed(t, f, o, to, w, q, occ, fl, rDO)
    /\ Coal(q, occ)
    /\ TurnStates(o, to)
    /\ Turning(t, dep[t], f, o, to, w, fl)
    /\ state' = [state EXCEPT ![o] = to] /\ UNCHANGED <<ready, told>>

\* The turn of a call whose function returned (tinyState.cpp:1008-1026).
LEMMA ReturnTurning ==
    ASSUME Stacks, LoopTypes, RestTypes, Alone, Kept, NEW t \in Thread,
           NEW to \in State, NEW rDO \in BOOLEAN, Return(t, to, rDO)
    PROVE  \E f \in Frame, o \in Obj, occ \in SUBSET Once, fl \in Word, q \in Seq(Event) :
              \E w : Returning(t, to, rDO, f, o, w, q, occ, fl)
  <1> DEFINE f == Top(t)
             o == f.obj
             fl == IF to # state[o] THEN [flags[o] EXCEPT !["inv"] = TRUE]
                                    ELSE flags[o]
  <1>1. /\ dep[t] > 0 /\ dep[t] \in 1..MaxDepth /\ f \in Frame /\ o \in Obj
        /\ f.pc \in {"runS", "runT"} /\ f = call[t][dep[t]]
    <2>1. "runS" \in Pc \ {"none", "gc"} /\ "runT" \in Pc \ {"none", "gc"}
      BY DEF Pc
    <2>2. At(t, "runS") \/ At(t, "runT")
      BY DEF Return
    <2>3. QED
      BY <2>1, <2>2, AtFrame DEF Top
  <1>2. Holds(t, dep[t], o)
    BY <1>1 DEF Holds, Locked
  <1>3. /\ flags[o]["lock"]
        /\ \A u \in Thread : \A d \in 1..MaxDepth :
              Holds(u, d, o) => u = t /\ d = dep[t]
    BY <1>1, <1>2 DEF Alone
  <1>4. /\ fl \in Word
        /\ \A b \in {"lock", "mtx", "thq"} : fl[b] = flags[o][b]
        /\ fl["inv"] \/ (to = state[o] /\ fl["inv"] = flags[o]["inv"])
    <2>1. flags[o] \in Word
      BY <1>1 DEF LoopTypes
    <2>2. CASE to = state[o]
      BY <2>1, <2>2
    <2>3. CASE to # state[o]
      BY <2>1, <2>3 DEF Word, Flag
    <2>4. QED
      BY <2>2, <2>3
  <1>5. /\ Proceed(t, f, o, to, thrInfo[o], que[o], occur[o], fl, rDO)
        /\ state' = [state EXCEPT ![o] = to] /\ UNCHANGED <<ready, told>>
    BY DEF Return
  <1>6. que[o] \in Seq(Event) /\ occur[o] \in SUBSET Once /\ Coal(que[o], occur[o])
    BY <1>1 DEF LoopTypes, Kept, Coalesced
  <1>7. TurnStates(o, to)
    BY <1>5 DEF RestTypes, TurnStates
  <1>8. Turning(t, dep[t], f, o, to, thrInfo[o], fl)
    <2>1. ~f.ins /\ f.word = <<>> /\ (f.info => dep[t] = 1)
      BY <1>1 DEF Kept, FrameShape
    <2>2. ~flags[o]["thq"]
      BY <1>1, <1>3 DEF Kept, LockUsed
    <2>3. /\ flags[o]["mtx"] <=> f.pc = "runS"
          /\ thrInfo[o] # NoThread => thrInfo[o] = t /\ f.info
      BY <1>1, <1>2 DEF Kept, Served
    <2> HIDE DEF fl, f
    <2>4. QED
      BY <1>1, <1>3, <1>4, <2>1, <2>2, <2>3 DEF Turning
  <1>9. Returning(t, to, rDO, f, o, thrInfo[o], que[o], occur[o], fl)
    BY <1>1, <1>2, <1>5, <1>6, <1>7, <1>8 DEF Returning
  <1> HIDE DEF fl, f, o
  <1>10. QED
    BY <1>1, <1>4, <1>6, <1>9

\* A state function returns to the loop.
LEMMA ReturnKeeps ==
    ASSUME Stacks, LoopTypes, RestTypes, Alone, Kept, NEW t \in Thread,
           NEW to \in State, NEW rDO \in BOOLEAN, Return(t, to, rDO)
    PROVE  Kept'
  <1>1. PICK f \in Frame, o \in Obj, occ \in SUBSET Once, fl \in Word, q \in Seq(Event) :
           \E w : Returning(t, to, rDO, f, o, w, q, occ, fl)
    BY ReturnTurning
  <1>2. PICK w : Returning(t, to, rDO, f, o, w, q, occ, fl)
    BY <1>1
  <1>3. QED
    BY <1>2, TurnKeeps DEF Returning

\* At the start there are no calls, no queues and no claims.
LEMMA InitKept == Init => Kept
  <1> SUFFICES ASSUME Init PROVE Kept
    OBVIOUS
  <1>1. \A u \in Thread : \A d \in 1..MaxDepth : call[u][d] = NoFrame
    BY DEF Init
  <1>2. /\ NoFrame.pc = "none" /\ NoFrame.ins = FALSE /\ NoFrame.info = FALSE
        /\ NoFrame.word = <<>>
    BY NoFrameFields, NoFrameRest
  <1>3. \A o \in Obj : \A b \in Flag : flags[o][b] = FALSE
    BY DEF Init, NoFlag
  <1>4. \A u \in Thread : \A d \in 1..MaxDepth : \A o \in Obj :
           /\ ~Holds(u, d, o) /\ ~Claiming(call[u][d], o) /\ ~HasApp(call[u][d])
    BY <1>1, <1>2 DEF Holds, Claiming, HasApp, Locked
  <1>5. FrameShape
    BY <1>1, <1>2 DEF FrameShape
  <1>6. Served
    BY <1>4 DEF Served
  <1>7. LockUsed
    BY <1>3 DEF LockUsed, Init, Flag
  <1>8. Coalesced
    BY CoalEmpty DEF Coalesced, Init
  <1>9. ClaimsAgree
    <2>1. \A i \in Nat : \A o \in Obj : ~InReady(i, o)
      BY DEF InReady, Init
    <2>2. QED
      BY <1>3, <1>4, <2>1 DEF ClaimsAgree, Flag
  <1>10. ToldOrWillBe
    BY DEF ToldOrWillBe, Init
  <1>11. Balance
    <2>1. \A u \in Thread : \A d \in 1..MaxDepth : ~HasApp(call[u][d])
      BY <1>1, <1>2 DEF HasApp
    <2>2. AppPlaces = {}
      BY <2>1 DEF AppPlaces, Place, Fr
    <2>3. QED
      BY <2>2, FS_EmptySet DEF Balance, Init
  <1>12. QED
    BY <1>5, <1>6, <1>7, <1>8, <1>9, <1>10, <1>11 DEF Kept

\* A step of no frame and of no flag but the destroy flags.
LEMMA NothingMoves ==
    ASSUME Stacks, Kept, UNCHANGED call,
           KeepsBit("lock"), KeepsBit("mtx"), KeepsBit("thq"), KeepsBit("inv"),
           UNCHANGED <<state, que, occur, thrInfo, app, ready, told, want>>
    PROVE  Kept' /\ Quiet
  <1>1. RunnersStay
    BY DEF RunnersStay, Holds
  <1>2. Served' /\ LockUsed'
    BY <1>1, ServedSame, LockUsedSame DEF Kept, KeepsBit
  <1>3. FrameShape' /\ Coalesced'
    BY DEF Kept, FrameShape, Coalesced
  <1>4. ClaimsAgree'
    BY ClaimsSame DEF Kept
  <1>5. ToldOrWillBe'
    <2>1. \A x \in Obj : \A u \in Thread : \A d \in 1..MaxDepth :
             WillTell(call[u][d], x) => WillTell(call[u][d], x)'
      BY DEF WillTell, KeepsBit
    <2>2. QED
      BY <2>1, ToldSame DEF Kept
  <1>6. Balance'
    <2>1. \A u \in Thread : \A d \in 1..MaxDepth : HasApp(call[u][d])' <=> HasApp(call[u][d])
      <3> SUFFICES ASSUME NEW u \in Thread, NEW d \in 1..MaxDepth
                   PROVE  HasApp(call[u][d])' <=> HasApp(call[u][d])
        OBVIOUS
      <3>1. CASE call[u][d].pc \in {"lock", "runS", "unlock"}
        <4>1. call[u][d].obj \in Obj
          BY <3>1 DEF Stacks, Sound
        <4>2. QED
          BY <4>1 DEF HasApp, KeepsBit
      <3>2. CASE call[u][d].pc \notin {"lock", "runS", "unlock"}
        BY <3>2 DEF HasApp
      <3>3. QED
        BY <3>1, <3>2
    <2>2. QED
      BY <2>1, BalanceSame DEF Kept
  <1>7. Quiet
    BY <1>1 DEF Quiet, HoldersStay, RunnersStay
  <1>8. QED
    BY <1>7, <1>2, <1>3, <1>4, <1>5, <1>6 DEF Kept

\* Calls, constructors, destroy() and refEvent().
LEMMA RequestKeeps ==
    ASSUME Stacks, LoopTypes, Kept, NEW t \in Thread, Request(t)
    PROVE  Kept' /\ Quiet
  <1>1. /\ "TSE_INIT" \in Event /\ "TSE_INVOKE" \in Event
        /\ \A e \in Once \cup Many : e \in Event
        /\ 0 < MaxDepth
    BY BoundsAssumption DEF Event
  <1>2. PICK o \in Obj :
           \/ Construct(t, o)
           \/ \E e \in Once \cup Many : Call(t, o, e)
           \/ \E delay \in BOOLEAN : Destroy(t, o, delay)
           \/ RefEvent(t, o)
    BY DEF Request
  <1>3. CASE Construct(t, o)
    <2>1. dep[t] < MaxDepth /\ Push(t, NewFrame(o, "TSE_INIT", FALSE, "enter"))
          /\ UNCHANGED <<state, que, occur, flags, thrInfo, app, ready, told, want>>
      BY <1>3 DEF Construct, CanCall, ghosts
    <2>2. QED
      BY <1>1, <2>1, NewCallKeeps DEF KeepsBit
  <1>4. CASE \E e \in Once \cup Many : Call(t, o, e)
    <2>1. PICK e \in Once \cup Many : Call(t, o, e)
      BY <1>4
    <2>2. dep[t] < MaxDepth /\ Push(t, NewFrame(o, e, FALSE, "enter")) /\ e \in Event
          /\ UNCHANGED <<state, que, occur, flags, thrInfo, app, ready, told, want>>
      BY <1>1, <2>1 DEF Call, CanCall, ghosts
    <2>3. QED
      BY <2>2, NewCallKeeps DEF KeepsBit
  <1>5. CASE \E delay \in BOOLEAN : Destroy(t, o, delay)
    <2>1. PICK delay \in BOOLEAN : Destroy(t, o, delay)
      BY <1>5
    <2>2. /\ flags' = [flags EXCEPT ![o]["destroy"] = TRUE]
          /\ UNCHANGED <<state, que, occur, thrInfo, app, ready, told, want>>
      BY <2>1 DEF Destroy, ghosts
    <2>3. \A y \in Flag \ {"destroy"} : KeepsBit(y)
      <3>1. "destroy" \in Flag /\ flags \in [Obj -> Word]
        BY DEF Flag, LoopTypes
      <3>2. QED
        BY <2>2, <3>1, BitSet
    <2>4. KeepsBit("lock") /\ KeepsBit("mtx") /\ KeepsBit("thq") /\ KeepsBit("inv")
      BY <2>3 DEF Flag
    <2>5. CASE delay
      <3>1. UNCHANGED call
        BY <2>1, <2>5 DEF Destroy
      <3>2. QED
        BY <2>2, <2>4, <3>1, NothingMoves
    <2>6. CASE ~delay
      <3>1. dep[t] < MaxDepth /\ Push(t, NewFrame(o, "TSE_INVOKE", FALSE, "enter"))
        BY <2>1, <2>6 DEF Destroy, CanCall
      <3>2. QED
        BY <1>1, <2>2, <2>4, <3>1, NewCallKeeps
    <2>7. QED
      BY <2>5, <2>6
  <1>6. CASE RefEvent(t, o)
    <2>1. dep[t] < MaxDepth /\ Push(t, NewFrame(o, "TSE_INVOKE", FALSE, "ref"))
          /\ UNCHANGED <<state, que, occur, flags, thrInfo, app, ready, told, want>>
      BY <1>1, <1>6 DEF RefEvent, ghosts
    <2>2. QED
      BY <1>1, <2>1, NewCallKeeps DEF KeepsBit
  <1>7. QED
    BY <1>2, <1>3, <1>4, <1>5, <1>6

\* A timer of destroy().
LEMMA FireKeeps ==
    ASSUME Stacks, Kept, NEW t \in Thread, NEW o \in Obj, FireTimer(t, o)
    PROVE  Kept' /\ Quiet
  <1>1. dep[t] < MaxDepth /\ Push(t, NewFrame(o, "TSE_INVOKE", FALSE, "enter"))
        /\ UNCHANGED <<state, que, occur, flags, thrInfo, app, ready, told, want>>
    <2>1. 0 < MaxDepth
      BY BoundsAssumption
    <2>2. QED
      BY <2>1 DEF FireTimer, ghosts
  <1>2. "TSE_INVOKE" \in Event
    BY DEF Event
  <1>3. KeepsBit("lock") /\ KeepsBit("mtx") /\ KeepsBit("thq") /\ KeepsBit("inv")
    BY <1>1 DEF KeepsBit
  <1>4. QED
    BY <1>1, <1>2, <1>3, NewCallKeeps

\* A call that does not reach the gate of the loop, or returns there.
LEMMA PassesKeep ==
    ASSUME ~Torn, Stacks, LoopTypes, Kept, NEW t \in Thread,
           RefFlag(t) \/ Escape(t) \/ EnterZombie(t)
    PROVE  Kept' /\ Quiet
  <1> DEFINE f == Top(t)
             o == f.obj
             k == dep[t]
  <1>1. /\ k > 0 /\ k \in 1..MaxDepth /\ f \in Frame /\ o \in Obj
        /\ f = call[t][k] /\ f.pc \in {"ref", "enter"}
    <2>1. {"ref", "enter"} \subseteq Pc \ {"none", "gc"}
      BY DEF Pc
    <2>2. At(t, "ref") \/ At(t, "enter")
      BY DEF RefFlag, Escape, EnterZombie
    <2>3. QED
      BY <2>1, <2>2, AtFrame DEF Top
  <1>2. ~f.ins /\ f.word = <<>>
    BY <1>1 DEF Kept, FrameShape
  <1>3. CASE RefFlag(t)
    <2> DEFINE g == [f EXCEPT !.pc = "enter"]
    <2>1. /\ "ref" \in Flag /\ "enter" \in Pc /\ flags \in [Obj -> Word]
          /\ TRUE \in BOOLEAN
      BY DEF Flag, Pc, LoopTypes
    <2>2. /\ f.pc = "ref" /\ StoreFlag(t, "ref", TRUE, "enter")
          /\ UNCHANGED <<state, que, occur, thrInfo, app, ready, told, want>>
      BY <1>3 DEF RefFlag, At, ghosts
    <2>3. /\ Becomes(t, k, g)
          /\ \A y \in Flag \ {"ref"} : KeepsBit(y)
      BY <1>1, <2>1, <2>2, StoreFlagWhole
    <2>4. KeepsBit("lock") /\ KeepsBit("mtx") /\ KeepsBit("thq") /\ KeepsBit("inv")
      BY <2>3 DEF Flag
    <2>5. ~f.info
      BY <1>1, <2>2 DEF Kept, FrameShape
    <2>6. /\ g.pc = "enter" /\ g.ins = f.ins /\ g.info = f.info /\ g.word = f.word
      BY <1>1, <2>1, GoneFrame
    <2> HIDE DEF g, f, o, k
    <2>7. \A x \in Obj : ~Claiming(call[t][k], x)
      BY <1>1, <1>2, <2>5 DEF Claiming
    <2>8. /\ g.pc \in {"none", "enter"} /\ ~g.info /\ ~g.ins /\ g.word = <<>>
      BY <1>2, <2>5, <2>6
    <2>9. QED
      BY <1>1, <2>2, <2>3, <2>4, <2>7, <2>8, PassKeeps
  <1>4. CASE Escape(t) \/ EnterZombie(t)
    <2>1. /\ f.pc = "enter" /\ Pop(t)
          /\ f.info => state[o] = Zom
          /\ UNCHANGED <<state, que, occur, flags, thrInfo, app, ready, told, want>>
      BY <1>4 DEF Escape, EnterZombie, At, ghosts, Deep
    <2>2. /\ Becomes(t, k, NoFrame)
          /\ NoFrame.pc = "none" /\ NoFrame.ins = FALSE /\ NoFrame.info = FALSE
          /\ NoFrame.word = <<>>
      BY <1>1, <2>1, PopBecomes, NoFrameFields, NoFrameRest
    <2>3. KeepsBit("lock") /\ KeepsBit("mtx") /\ KeepsBit("thq") /\ KeepsBit("inv")
      BY <2>1 DEF KeepsBit
    <2>4. ~Claiming(f, o)
      <3>1. SUFFICES ASSUME Claiming(f, o) PROVE FALSE
        OBVIOUS
      <3>2. flags[o]["thq"]
        BY <1>1, <3>1 DEF Kept, ClaimsAgree
      <3>3. state[o] \in TsThread /\ state[o] = Zom
        BY <1>1, <1>2, <2>1, <3>1, <3>2 DEF Claiming, Kept, LockUsed
      <3>4. QED
        BY <3>3, ConstantsAssumption
    <2>5. \A x \in Obj : ~Claiming(call[t][k], x)
      BY <1>1, <2>4 DEF Claiming
    <2> HIDE DEF f, o, k
    <2>6. QED
      BY <1>1, <2>1, <2>2, <2>3, <2>5, PassKeeps
  <1>5. QED
    BY <1>3, <1>4

\* The app-mutex flag and the app-mutex, before a state function.
LEMMA MutexStepKeeps ==
    ASSUME ~Torn, Stacks, LoopTypes, Alone, Kept, NEW t \in Thread,
           NEW k, NEW f, NEW o, k = dep[t], f = Top(t), o = f.obj,
           AppMtxLock(t) \/ AppAcquire(t) \/ AppMtxUnlock(t) \/ AppRelease(t)
    PROVE  Kept' /\ Quiet
  <1> DEFINE G(pc) == [f EXCEPT !.pc = pc]
  <1>1. /\ k > 0 /\ k \in 1..MaxDepth /\ f \in Frame /\ o \in Obj
        /\ f = call[t][k] /\ f.pc \in {"lock", "acquire", "unlock", "release"}
    <2>1. {"lock", "acquire", "unlock", "release"} \subseteq Pc \ {"none", "gc"}
      BY DEF Pc
    <2>2. At(t, "lock") \/ At(t, "acquire") \/ At(t, "unlock") \/ At(t, "release")
      BY DEF AppMtxLock, AppAcquire, AppMtxUnlock, AppRelease
    <2>3. QED
      BY <2>1, <2>2, AtFrame DEF Top
  <1>2. /\ ~f.ins /\ f.word = <<>> /\ Holds(t, k, o)
        /\ f.pc = "acquire" => flags[o]["mtx"]
        /\ f.pc = "release" => ~flags[o]["mtx"]
    <2>1. Holds(t, k, o)
      BY <1>1 DEF Holds, Locked
    <2>2. QED
      BY <1>1, <2>1 DEF Kept, FrameShape, Served
  <1>3. UNCHANGED <<state, que, occur, thrInfo, ready, told, want>>
    BY DEF AppMtxLock, AppAcquire, AppMtxUnlock, AppRelease, ghosts
  <1>4. ASSUME NEW pc \in {"runS", "runT", "acquire", "release"}
        PROVE  /\ G(pc) \in Frame /\ G(pc).pc = pc /\ G(pc).obj = o /\ ~G(pc).ins
               /\ G(pc).info = call[t][k].info /\ G(pc).word = <<>>
               /\ G(pc).pc \in Locked
    <2>1. pc \in Pc /\ pc \in Locked
      BY DEF Pc, Locked
    <2>2. QED
      BY <1>1, <1>2, <2>1, GoneFrame
  <1>5. ASSUME NEW pc \in {"runS", "runT", "acquire", "release"}, Becomes(t, k, G(pc)),
               \A b \in Flag \ {"mtx"} : KeepsBit(b),
               \A x \in Obj \ {o} : flags'[x]["mtx"] = flags[x]["mtx"],
               pc \in {"acquire", "runS"} => flags'[o]["mtx"],
               pc \in {"release", "runT"} => ~flags'[o]["mtx"] /\ f.pc \in {"unlock", "release"},
               Balance'
        PROVE  Kept' /\ Quiet
    <2>1. KeepsBit("lock") /\ KeepsBit("thq") /\ KeepsBit("inv")
      BY <1>5 DEF Flag
    <2> DEFINE g == G(pc)
    <2>2. /\ Becomes(t, k, g) /\ g.obj = o /\ g.info = call[t][k].info
          /\ ~g.ins /\ g.word = <<>> /\ g.pc \in Locked /\ g.pc = pc
      BY <1>4, <1>5
    <2> HIDE DEF g, G
    <2>3. /\ g.pc \in {"acquire", "runS"} => flags'[o]["mtx"]
          /\ g.pc \in {"release", "runT"} => ~flags'[o]["mtx"]
          /\ g.pc \in {"unlock", "release", "runT"} => call[t][k].pc \in {"unlock", "release"}
      BY <1>1, <1>5, <2>2
    <2>4. QED
      BY <1>1, <1>2, <1>3, <1>5, <2>1, <2>2, <2>3, MutexKeeps
  <1>6. ASSUME NEW pc \in {"runS", "runT", "acquire", "release"}, Becomes(t, k, G(pc)),
               \A x \in Obj \ {o} : flags'[x]["mtx"] = flags[x]["mtx"]
        PROVE  /\ \A u \in Thread : \A d \in 1..MaxDepth : ~(u = t /\ d = k) =>
                     (HasApp(call[u][d])' <=> HasApp(call[u][d]))
               /\ HasApp(call[t][k])' <=>
                     pc = "release" \/ (pc = "runS" /\ flags'[o]["mtx"])
               /\ HasApp(call[t][k]) <=>
                     f.pc = "release" \/ (f.pc \in {"lock", "unlock"} /\ flags[o]["mtx"])
    <2> DEFINE g == G(pc)
    <2>1. Becomes(t, k, g) /\ g.pc = pc /\ g.obj = o
      BY <1>4, <1>6
    <2> HIDE DEF g, G
    <2>2. \A x \in Obj :
             \/ flags'[x]["mtx"] = flags[x]["mtx"]
             \/ \A u \in Thread : \A d \in 1..MaxDepth :
                   Holds(u, d, x) => u = t /\ d = k
      BY <1>1, <1>2, <1>6 DEF Alone
    <2>3. \A u \in Thread : \A d \in 1..MaxDepth : ~(u = t /\ d = k) =>
             (HasApp(call[u][d])' <=> HasApp(call[u][d]))
      BY <1>1, <2>1, <2>2, AppOthers
    <2>4. call'[t][k] = g
      BY <1>1, <2>1 DEF Becomes
    <2>5. HasApp(call[t][k])' <=> pc = "release" \/ (pc = "runS" /\ flags'[o]["mtx"])
      BY <2>1, <2>4 DEF HasApp
    <2>6. HasApp(call[t][k]) <=>
             f.pc = "release" \/ (f.pc \in {"lock", "unlock"} /\ flags[o]["mtx"])
      BY <1>1 DEF HasApp
    <2>7. QED
      BY <2>3, <2>5, <2>6
  <1>7. ASSUME NEW pc \in {"runS", "runT"}, Goto(t, pc), UNCHANGED flags
        PROVE  /\ Becomes(t, k, G(pc))
               /\ \A b \in Flag \ {"mtx"} : KeepsBit(b)
               /\ \A x \in Obj \ {o} : flags'[x]["mtx"] = flags[x]["mtx"]
    BY <1>1, <1>4, <1>7, SetTopBecomes DEF Goto, KeepsBit
  <1>8. ASSUME NEW pc \in {"acquire", "release"}, NEW v \in BOOLEAN,
               StoreFlag(t, "mtx", v, pc)
        PROVE  /\ Becomes(t, k, G(pc)) /\ flags'[o]["mtx"] = v
               /\ \A b \in Flag \ {"mtx"} : KeepsBit(b)
               /\ \A x \in Obj \ {o} : flags'[x]["mtx"] = flags[x]["mtx"]
    <2>1. "mtx" \in Flag /\ pc \in Pc /\ flags \in [Obj -> Word]
      BY DEF Flag, Pc, LoopTypes
    <2>2. Stores(o, "mtx", v)
      BY <1>1, <1>8, <2>1, StoreFlagWhole
    <2>3. Becomes(t, k, G(pc)) /\ \A b \in Flag \ {"mtx"} : KeepsBit(b)
      BY <1>1, <1>8, <2>1, StoreFlagWhole
    <2>4. QED
      BY <1>1, <2>2, <2>3 DEF Stores
  <1> HIDE DEF G
  <1>9. CASE AppMtxLock(t)
    <2>1. f.pc = "lock" /\ UNCHANGED app
      BY <1>9 DEF AppMtxLock, At
    <2>2. CASE flags[o]["mtx"] /\ Goto(t, "runS") /\ UNCHANGED flags
      <3>1. Balance'
        BY <1>6, <1>7, <2>1, <2>2, BalanceSame DEF Kept
      <3>2. QED
        BY <1>5, <1>7, <2>2, <3>1
    <2>3. CASE ~flags[o]["mtx"] /\ StoreFlag(t, "mtx", TRUE, "acquire")
      <3>1. Balance'
        BY <1>6, <1>8, <2>1, <2>3, BalanceSame DEF Kept
      <3>2. QED
        BY <1>5, <1>8, <2>3, <3>1
    <2>4. QED
      BY <1>2, <1>9, <2>2, <2>3 DEF AppMtxLock
  <1>10. CASE AppMtxUnlock(t)
    <2>1. f.pc = "unlock" /\ UNCHANGED app
      BY <1>10 DEF AppMtxUnlock, At
    <2>2. CASE ~flags[o]["mtx"] /\ Goto(t, "runT") /\ UNCHANGED flags
      <3>1. Balance'
        BY <1>6, <1>7, <2>1, <2>2, BalanceSame DEF Kept
      <3>2. QED
        BY <1>5, <1>7, <2>1, <2>2, <3>1
    <2>3. CASE flags[o]["mtx"] /\ StoreFlag(t, "mtx", FALSE, "release")
      <3>1. Balance'
        BY <1>6, <1>8, <2>1, <2>3, BalanceSame DEF Kept
      <3>2. QED
        BY <1>5, <1>8, <2>1, <2>3, <3>1
    <2>4. QED
      BY <1>2, <1>10, <2>2, <2>3 DEF AppMtxUnlock
  <1>11. CASE AppAcquire(t)
    <2>1. /\ f.pc = "acquire" /\ AppFree(t) /\ app' = Acquired(t)
          /\ Goto(t, "runS") /\ UNCHANGED flags
      BY <1>11 DEF AppAcquire, At
    <2>2. Balance'
      BY <1>1, <1>2, <1>6, <1>7, <2>1, BalanceTake DEF Kept
    <2>3. QED
      BY <1>2, <1>5, <1>7, <2>1, <2>2
  <1>12. CASE AppRelease(t)
    <2>1. /\ f.pc = "release" /\ app' = Released
          /\ Goto(t, "runT") /\ UNCHANGED flags
      BY <1>12 DEF AppRelease, At
    <2>2. Balance'
      BY <1>1, <1>2, <1>6, <1>7, <2>1, BalanceDrop DEF Kept
    <2>3. QED
      BY <1>2, <1>5, <1>7, <2>1, <2>2
  <1>13. QED
    BY <1>9, <1>10, <1>11, <1>12

\* appMtxLock() and appMtxUnlock(), step by step.
LEMMA MutexStepsKeep ==
    ASSUME ~Torn, Stacks, LoopTypes, Alone, Kept, NEW t \in Thread,
           AppMtxLock(t) \/ AppAcquire(t) \/ AppMtxUnlock(t) \/ AppRelease(t)
    PROVE  Kept' /\ Quiet
  BY MutexStepKeeps

\* The gc's own call begins, delivers and ends.
LEMMA GcStepKeeps ==
    ASSUME Stacks, RestTypes, Kept, NEW t \in Thread, NEW k, k = dep[t],
           GcEnd(t) \/ \E i \in 1..Len(gcq) : GcStart(t, i)
    PROVE  Kept' /\ Quiet
  <1>1. 1 \in 1..MaxDepth /\ 2 \in 1..MaxDepth
    BY BoundsAssumption
  <1>2. /\ NoFrame.pc = "none" /\ NoFrame.ins = FALSE /\ NoFrame.info = FALSE
        /\ NoFrame.word = <<>>
    BY NoFrameFields, NoFrameRest
  <1>3. CASE GcEnd(t)
    <2>1. /\ call[t][k].pc = "gc" /\ k > 0 /\ app' = Released /\ Pop(t)
          /\ UNCHANGED <<state, que, occur, flags, thrInfo, ready, told, want>>
      BY <1>3 DEF GcEnd, At, Top, ghosts
    <2>2. Becomes(t, k, NoFrame) /\ k \in 1..MaxDepth
      BY <2>1, PopBecomes, TopFrame
    <2>3. ~call[t][k].ins /\ call'[t][k] = NoFrame
      BY <2>1, <2>2 DEF Kept, FrameShape, Becomes
    <2>4. Balance'
      <3>1. \A u \in Thread : \A d \in 1..MaxDepth : ~(u = t /\ d = k) =>
               (HasApp(call[u][d])' <=> HasApp(call[u][d]))
        BY <2>1, <2>2, AppOthers
      <3>2. HasApp(call[t][k]) /\ ~HasApp(call[t][k])'
        BY <1>2, <2>1, <2>3 DEF HasApp
      <3>3. QED
        BY <2>1, <2>2, <3>1, <3>2, BalanceDrop DEF Kept
    <2>5. /\ \A u \in Thread : \A d \in 1..MaxDepth : u # t => call'[u][d] = call[u][d]
          /\ \A d \in 1..MaxDepth : d # k => call'[t][d] = call[t][d]
      BY <2>2 DEF Becomes
    <2>6. QED
      BY <1>2, <2>1, <2>3, <2>4, <2>5, GcKeeps
  <1>4. ASSUME NEW i \in 1..Len(gcq), GcStart(t, i)
        PROVE  Kept' /\ Quiet
    <2> DEFINE g == NewFrame(NoObj, "TSE_INIT", FALSE, "gc")
               f == NewFrame(gcq[i].obj, gcq[i].ev, FALSE, "enter")
               c == [call[t] EXCEPT ![1] = g]
    <2>1. /\ call' = [call EXCEPT ![t] = [c EXCEPT ![2] = f]]
          /\ dep[t] = 0 /\ AppFree(t) /\ app' = Acquired(t)
          /\ UNCHANGED <<state, que, occur, flags, thrInfo, ready, told, want>>
      BY <1>4 DEF GcStart, ghosts
    <2>2. /\ g.pc = "gc" /\ ~g.ins /\ ~g.info /\ g.word = <<>>
          /\ f.pc = "enter" /\ ~f.ins /\ ~f.info /\ f.word = <<>>
      BY DEF NewFrame
    <2> HIDE DEF f, g
    <2>3. /\ call \in [Thread -> [1..MaxDepth -> Frame]]
          /\ call[t] \in [1..MaxDepth -> Frame]
      BY DEF Stacks
    <2>4. \A d \in 1..MaxDepth : c[d] = IF d = 1 THEN g ELSE call[t][d]
      BY <1>1, <2>3
    <2>5. \A d \in 1..MaxDepth : [c EXCEPT ![2] = f][d] = IF d = 2 THEN f ELSE c[d]
      BY <1>1, <2>3
    <2> HIDE DEF c
    <2>6. call'[t] = [c EXCEPT ![2] = f]
      BY <2>1, <2>3
    <2>7. /\ \A d \in 1..MaxDepth :
                call'[t][d] = IF d = 2 THEN f ELSE IF d = 1 THEN g ELSE call[t][d]
          /\ \A u \in Thread : \A d \in 1..MaxDepth : u # t => call'[u][d] = call[u][d]
      BY <2>1, <2>3, <2>4, <2>5, <2>6
    <2>8. call[t][1] = NoFrame /\ call[t][2] = NoFrame
      BY <1>1, <2>1 DEF Stacks, Blank
    <2>9. Balance'
      <3>1. \A u \in Thread : \A d \in 1..MaxDepth : ~(u = t /\ d = 1) =>
               (HasApp(call[u][d])' <=> HasApp(call[u][d]))
        <4> SUFFICES ASSUME NEW u \in Thread, NEW d \in 1..MaxDepth, ~(u = t /\ d = 1)
                     PROVE  HasApp(call[u][d])' <=> HasApp(call[u][d])
          OBVIOUS
        <4>1. CASE u = t /\ d = 2
          BY <1>2, <2>2, <2>7, <2>8, <4>1 DEF HasApp
        <4>2. CASE ~(u = t /\ d = 2)
          BY <2>1, <2>7, <4>2 DEF HasApp
        <4>3. QED
          BY <4>1, <4>2
      <3>2. ~HasApp(call[t][1]) /\ HasApp(call[t][1])'
        BY <1>1, <1>2, <2>2, <2>7, <2>8 DEF HasApp
      <3>3. QED
        BY <1>1, <2>1, <3>1, <3>2, BalanceTake DEF Kept
    <2>10. \A d \in 1..MaxDepth :
              \/ call'[t][d] = call[t][d]
              \/ /\ call[t][d].pc \in {"none", "gc"}
                 /\ call'[t][d].pc \in {"none", "gc", "enter"}
                 /\ ~call[t][d].ins
                 /\ ~call'[t][d].ins /\ ~call'[t][d].info
                 /\ call'[t][d].word = <<>>
      BY <1>2, <2>2, <2>7, <2>8
    <2>11. QED
      BY <2>1, <2>7, <2>9, <2>10, GcKeeps
  <1>5. QED
    BY <1>3, <1>4

\* And it delivers a job, as a call of its own.
LEMMA GcStepsKeep ==
    ASSUME Stacks, RestTypes, Kept, NEW t \in Thread, Gc(t)
    PROVE  Kept' /\ Quiet
  <1>1. ASSUME NEW i \in 1..Len(gcq), GcDeliver(t, i)
        PROVE  Kept' /\ Quiet
    <2> DEFINE o == gcq[i].obj
               e == gcq[i].ev
    <2>1. o \in Obj /\ e \in Event
      BY JobTaken DEF RestTypes
    <2>2. /\ Push(t, NewFrame(o, e, FALSE, "enter"))
          /\ UNCHANGED <<state, que, occur, flags, thrInfo, app, ready, told, want>>
      BY <1>1 DEF GcDeliver, ghosts
    <2>3. dep[t] < MaxDepth
      <3>1. dep[t] = 1
        BY <1>1, TopFrame DEF GcDeliver, At, Sound
      <3>2. QED
        BY <3>1, BoundsAssumption
    <2>4. KeepsBit("lock") /\ KeepsBit("mtx") /\ KeepsBit("thq") /\ KeepsBit("inv")
      BY <2>2 DEF KeepsBit
    <2> HIDE DEF o, e
    <2>5. QED
      BY <2>1, <2>2, <2>3, <2>4, NewCallKeeps
  <1>2. QED
    BY <1>1, GcStepKeeps DEF Gc

\* Every step keeps what the calls, the pool and the app-mutex agree on.
LEMMA NextKept == ~Torn /\ IInv /\ Alone /\ Kept /\ [Next]_vars => Kept'
  <1> SUFFICES ASSUME ~Torn, IInv, Alone, Kept, [Next]_vars PROVE Kept'
    OBVIOUS
  <1>1. Stacks /\ LoopTypes /\ RestTypes
    BY Parts
  <1>2. CASE UNCHANGED vars
    <2>1. UNCHANGED <<call, flags, state, que, occur, thrInfo, app, ready, told, want>>
      BY <1>2 DEF vars
    <2>2. QED
      BY <1>1, <2>1, NothingMoves DEF KeepsBit
  <1>3. CASE Next
    <2>1. PICK t \in Thread :
            \/ Request(t) \/ Advance(t) \/ AppAcquire(t) \/ NotifyDone(t)
            \/ PoolTake(t) \/ Gc(t)
            \/ \E o \in Obj : FireTimer(t, o)
            \/ \E to \in State, rDO \in BOOLEAN : Return(t, to, rDO)
      BY <1>3 DEF Next
    <2>2. CASE Request(t)
      BY <1>1, <2>2, RequestKeeps
    <2>3. CASE RefFlag(t) \/ Escape(t) \/ EnterZombie(t)
      BY <1>1, <2>3, PassesKeep
    <2>4. CASE EnterBusy(t)
      BY <1>1, <2>4, BusyKeeps
    <2>5. CASE EnterLock(t)
      BY <1>1, <2>5, EnterKeeps
    <2>6. CASE AppMtxLock(t) \/ AppAcquire(t) \/ AppMtxUnlock(t) \/ AppRelease(t)
      BY <1>1, <2>6, MutexStepsKeep
    <2>7. CASE InvokeState(t) \/ Tell(t) \/ NotifyDone(t) \/ PoolIns(t)
      BY <1>1, <2>7, TellsKeep
    <2>8. CASE PoolTake(t)
      BY <1>1, <2>8, PoolTakeKeeps DEF RestTypes
    <2>9. CASE Gc(t)
      BY <1>1, <2>9, GcStepsKeep
    <2>10. CASE \E o \in Obj : FireTimer(t, o)
      BY <1>1, <2>10, FireKeeps
    <2>11. CASE \E to \in State, rDO \in BOOLEAN : Return(t, to, rDO)
      BY <1>1, <2>11, ReturnKeeps
    <2>12. QED
      BY <2>1, <2>2, <2>3, <2>4, <2>5, <2>6, <2>7, <2>8, <2>9, <2>10, <2>11 DEF Advance
  <1>4. QED
    BY <1>2, <1>3

\* The whole invariant.
LEMMA AllKept ==
    ASSUME ~Torn
    PROVE  Spec => [](IInv /\ Alone /\ Kept)
  <1>1. Init => IInv /\ Alone /\ Kept
    BY InitTypes, InitAlone, InitKept
  <1>2. IInv /\ Alone /\ Kept /\ [Next]_vars => (IInv /\ Alone /\ Kept)'
    BY NextTypes, NextAlone, NextKept
  <1>3. QED
    BY <1>1, <1>2, PTL DEF Spec

(***************************************************************************)
(* What follows.                                                           *)
(***************************************************************************)

\* A set with one member, known as such.
LEMMA OnlyMember ==
    ASSUME NEW S, NEW x \in S, \A y \in S : y = x
    PROVE  Cardinality(S) = 1
  <1>1. S = {x}
    OBVIOUS
  <1>2. QED
    BY <1>1, FS_Singleton

\* An event in a queue has a call that runs the object and will take it, and
\* a coalesced event is in the queue once, exactly when onlyOneEvent_occur says
\* so (tinyState.cpp:1027-1035).
THEOREM NoEventStranded ==
    ASSUME ~Torn
    PROVE  Spec => []NoStrandedEvent
  <1>1. Kept => NoStrandedEvent
    <2> SUFFICES ASSUME Kept, NEW o \in Obj
                 PROVE  /\ que[o] # <<>> => \E p \in Place : Runs(p, o)
                        /\ \A e \in Once :
                             Cardinality({i \in 1..Len(que[o]) : que[o][i] = e})
                               = IF e \in occur[o] THEN 1 ELSE 0
      BY DEF NoStrandedEvent
    <2>1. ASSUME que[o] # <<>>
          PROVE  \E p \in Place : Runs(p, o)
      <3>1. PICK u \in Thread, d \in 1..MaxDepth : Holds(u, d, o)
        BY <2>1 DEF Kept, LockUsed
      <3>2. <<u, d>> \in Place /\ Runs(<<u, d>>, o)
        BY <3>1 DEF Holds, Place, Runs, Fr
      <3>3. QED
        BY <3>2
    <2>2. ASSUME NEW e \in Once
          PROVE  Cardinality({i \in 1..Len(que[o]) : que[o][i] = e})
                   = IF e \in occur[o] THEN 1 ELSE 0
      <3> DEFINE S == {i \in 1..Len(que[o]) : que[o][i] = e}
      <3> SUFFICES Cardinality(S) = IF e \in occur[o] THEN 1 ELSE 0
        OBVIOUS
      <3>1. /\ e \in occur[o] <=> \E i \in S : TRUE
            /\ \A i, j \in S : i = j
        BY DEF Kept, Coalesced, Coal
      <3> HIDE DEF S
      <3>2. CASE e \in occur[o]
        BY <3>1, <3>2, OnlyMember
      <3>3. CASE e \notin occur[o]
        <4>1. S = {}
          BY <3>1, <3>3
        <4>2. QED
          BY <3>3, <4>1, FS_EmptySet
      <3>4. QED
        BY <3>2, <3>3
    <2>3. QED
      BY <2>1, <2>2
  <1>2. QED
    BY <1>1, AllKept, PTL

\* The app-mutex is held as often as the frames that took it say, by their
\* thread (tinyState.cpp:448-473, 994, 1033).
THEOREM AppMutexBalanced ==
    ASSUME ~Torn
    PROVE  Spec => []AppBalance
  <1>1. Kept => AppBalance
    BY DEF Kept, Balance, AppBalance, AppPlaces
  <1>2. QED
    BY <1>1, AllKept, PTL

\* TS_STATE functions run under the app-mutex, TS_THREAD functions on a worker,
\* in its outermost call, without it.
THEOREM RightPlace ==
    ASSUME ~Torn
    PROVE  Spec => []RunsWhereItShould
  <1>1. IInv /\ Kept => RunsWhereItShould
    <2> SUFFICES ASSUME IInv, Kept PROVE RunsWhereItShould
      OBVIOUS
    <2>1. Stacks /\ LoopTypes
      BY Parts
    <2>2. ASSUME NEW p \in Place, Fr(p).pc = "runS"
          PROVE  app.owner = p[1]
      <3>1. /\ p[1] \in Thread /\ p[2] \in 1..MaxDepth
            /\ Fr(p) = call[p[1]][p[2]]
        BY DEF Place, Fr
      <3>2. Fr(p).obj \in Obj
        BY <2>1, <2>2, <3>1 DEF Stacks, Sound
      <3>3. flags[Fr(p).obj]["mtx"]
        BY <2>2, <3>1, <3>2 DEF Kept, Served, Holds, Locked
      <3>4. p \in AppPlaces
        BY <2>2, <3>3 DEF AppPlaces, HasApp
      <3>5. QED
        BY <3>4 DEF Kept, Balance
    <2>3. ASSUME NEW t \in Thread, At(t, "runT")
          PROVE  t \in Worker /\ dep[t] = 1 /\ app.owner # t
      <3> DEFINE d == dep[t]
                 o == Top(t).obj
      <3>1. /\ d \in 1..MaxDepth /\ o \in Obj /\ Holds(t, d, o)
            /\ call[t][d].pc = "runT"
        <4>1. "runT" \in Pc \ {"none", "gc"} /\ "runT" \in Locked
          BY DEF Pc, Locked
        <4>2. QED
          BY <2>1, <2>3, <4>1, AtFrame DEF Holds, Top
      <3>2. thrInfo[o] = t /\ t # NoThread
        BY <3>1, ConstantsAssumption DEF Kept, Served
      <3>3. t \in Worker
        BY <2>1, <3>1, <3>2 DEF LoopTypes
      <3>4. d = 1
        BY <3>1, <3>2 DEF Kept, Served, FrameShape
      <3>5. app.owner # t
        <4>1. SUFFICES ASSUME app.owner = t PROVE FALSE
          OBVIOUS
        <4>2. AppPlaces # {}
          BY <3>2, <4>1, FS_EmptySet DEF Kept, Balance
        <4>3. PICK p \in AppPlaces : TRUE
          BY <4>2
        <4>4. /\ p[1] = t /\ p[2] \in 1..MaxDepth /\ HasApp(call[t][p[2]])
          BY <4>1, <4>3 DEF Kept, Balance, AppPlaces, Place, Fr
        <4>5. CASE p[2] = d
          BY <3>1, <4>4, <4>5 DEF HasApp
        <4>6. CASE p[2] # d
          <5>1. call[t][p[2]] = NoFrame
            BY <2>1, <3>4, <4>4, <4>6 DEF Stacks, Blank
          <5>2. QED
            BY <4>4, <5>1, NoFrameFields DEF HasApp
        <4>7. QED
          BY <4>5, <4>6
      <3>6. QED
        BY <3>3, <3>4, <3>5
    <2>4. QED
      BY <2>2, <2>3 DEF RunsWhereItShould
  <1>2. QED
    BY <1>1, AllKept, PTL

\* When no call has still to look at invoke_state_flag, the listeners know the
\* state of the object (tinyState.cpp:670-696, 1051).
THEOREM ListenersKnow ==
    ASSUME ~Torn
    PROVE  Spec => []NotifiedLast
  <1>1. Kept => NotifiedLast
    <2> SUFFICES ASSUME Kept, NEW o \in Obj, told[o] # state[o],
                        \A p \in Place :
                           Fr(p).obj = o => Fr(p).pc \notin Locked \cup {"post", "tell"}
                 PROVE  FALSE
      BY DEF NotifiedLast
    <2>1. PICK u \in Thread, d \in 1..MaxDepth : WillTell(call[u][d], o)
      BY DEF Kept, ToldOrWillBe
    <2>2. <<u, d>> \in Place /\ Fr(<<u, d>>) = call[u][d]
      BY DEF Place, Fr
    <2>3. QED
      BY <2>1, <2>2 DEF WillTell
  <1>2. QED
    BY <1>1, AllKept, PTL

\* thrQueueing_flag is up exactly while the pool holds one claim to the object
\* (tinyState.cpp:936-937, 973, 986-989, 993).
THEOREM OneClaimHeld ==
    ASSUME ~Torn
    PROVE  Spec => []OneClaim
  <1>1. IInv /\ Kept => OneClaim
    <2> SUFFICES ASSUME IInv, Kept, NEW o \in Obj
                 PROVE  Claims(o) = IF flags[o]["thq"] THEN 1 ELSE 0
      BY DEF OneClaim
    <2> DEFINE R == {i \in 1..Len(ready) : ready[i] = o}
               I == {p \in Place : Fr(p).obj = o /\ Fr(p).ins}
               E == {p \in Place : Fr(p).obj = o /\ Fr(p).info /\ Fr(p).pc = "enter"}
    <2>1. Claims(o) = Cardinality(R) + Cardinality(I) + Cardinality(E)
      BY DEF Claims
    <2>2. \A i \in R : i \in Nat /\ InReady(i, o)
      BY DEF InReady
    <2>3. \A i \in Nat : InReady(i, o) => i \in R
      BY DEF InReady
    <2>4. \A p \in I \cup E :
             /\ p = <<p[1], p[2]>> /\ p[1] \in Thread /\ p[2] \in 1..MaxDepth
             /\ Claiming(call[p[1]][p[2]], o)
      BY DEF Place, Fr, Claiming
    <2>5. \A u \in Thread : \A d \in 1..MaxDepth :
             Claiming(call[u][d], o) => <<u, d>> \in I \cup E
      BY DEF Place, Fr, Claiming
    <2>6. I \cap E = {}
      <3>1. SUFFICES ASSUME NEW p \in I, p \in E PROVE FALSE
        OBVIOUS
      <3>2. p[1] \in Thread /\ p[2] \in 1..MaxDepth
        BY <3>1 DEF Place
      <3>3. QED
        BY <3>1, <3>2 DEF Kept, FrameShape, Fr
    <2> HIDE DEF R, I, E
    <2>7. \A i, j \in R : i = j
      BY <2>2 DEF Kept, ClaimsAgree
    <2>8. \A p, q \in I \cup E : p = q
      <3> SUFFICES ASSUME NEW p \in I \cup E, NEW q \in I \cup E PROVE p = q
        OBVIOUS
      <3>1. p[1] = q[1] /\ p[2] = q[2]
        BY <2>4 DEF Kept, ClaimsAgree
      <3>2. QED
        BY <2>4, <3>1
    <2>9. \A i \in R : \A p \in I \cup E : FALSE
      BY <2>2, <2>4 DEF Kept, ClaimsAgree
    <2>10. flags[o]["thq"] <=> R # {} \/ I \cup E # {}
      <3>1. R # {} => \E i \in Nat : InReady(i, o)
        BY <2>2
      <3>2. (\E i \in Nat : InReady(i, o)) => R # {}
        BY <2>3
      <3>3. I \cup E # {} =>
               \E u \in Thread : \E d \in 1..MaxDepth : Claiming(call[u][d], o)
        BY <2>4
      <3>4. (\E u \in Thread : \E d \in 1..MaxDepth : Claiming(call[u][d], o))
               => I \cup E # {}
        BY <2>5
      <3>5. QED
        BY <3>1, <3>2, <3>3, <3>4 DEF Kept, ClaimsAgree
    <2>11. Cardinality({}) = 0
      BY FS_EmptySet
    <2>12. CASE R # {}
      <3>1. Cardinality(R) = 1 /\ I = {} /\ E = {}
        BY <2>7, <2>9, <2>12, OnlyMember
      <3>2. QED
        BY <2>1, <2>10, <2>11, <2>12, <3>1
    <2>13. CASE I # {}
      <3>1. Cardinality(I) = 1 /\ R = {} /\ E = {}
        BY <2>6, <2>8, <2>9, <2>13, OnlyMember
      <3>2. QED
        BY <2>1, <2>10, <2>11, <2>13, <3>1
    <2>14. CASE E # {}
      <3>1. Cardinality(E) = 1 /\ R = {} /\ I = {}
        BY <2>6, <2>8, <2>9, <2>14, OnlyMember
      <3>2. QED
        BY <2>1, <2>10, <2>11, <2>14, <3>1
    <2>15. CASE R = {} /\ I = {} /\ E = {}
      BY <2>1, <2>10, <2>11, <2>15
    <2>16. QED
      BY <2>12, <2>13, <2>14, <2>15
  <1>2. QED
    BY <1>1, AllKept, PTL

(***************************************************************************)
(* Each object behaves as SerialObject promises.                           *)
(***************************************************************************)

\* The frame that runs an object, if one does, says who serves it.
LEMMA RunnerNow ==
    ASSUME Alone, NEW o \in Obj
    PROVE  /\ \A u \in Thread : \A d \in 1..MaxDepth : Holds(u, d, o) => RunnerOf(o) = u
           /\ (\A u \in Thread : \A d \in 1..MaxDepth : ~Holds(u, d, o))
                 => RunnerOf(o) = NoThread
  <1>1. ASSUME NEW u \in Thread, NEW d \in 1..MaxDepth, Holds(u, d, o)
        PROVE  RunnerOf(o) = u
    <2> DEFINE p == CHOOSE p \in Place : Runs(p, o)
    <2>1. <<u, d>> \in Place /\ Runs(<<u, d>>, o)
      BY <1>1 DEF Place, Runs, Fr, Holds
    <2>2. p \in Place /\ Runs(p, o)
      BY <2>1
    <2>3. RunnerOf(o) = p[1]
      BY <2>1 DEF RunnerOf
    <2> HIDE DEF p
    <2>4. p[1] \in Thread /\ p[2] \in 1..MaxDepth /\ Holds(p[1], p[2], o)
      BY <2>2 DEF Place, Runs, Fr, Holds
    <2>5. QED
      BY <1>1, <2>3, <2>4 DEF Alone
  <1>2. ASSUME \A u \in Thread : \A d \in 1..MaxDepth : ~Holds(u, d, o)
        PROVE  RunnerOf(o) = NoThread
    <2>1. \A p \in Place : ~Runs(p, o)
      BY <1>2 DEF Place, Runs, Fr, Holds
    <2>2. QED
      BY <2>1 DEF RunnerOf
  <1>3. QED
    BY <1>1, <1>2

\* The same of the state after a step.
LEMMA RunnerThen ==
    ASSUME Alone', NEW o \in Obj
    PROVE  /\ \A u \in Thread : \A d \in 1..MaxDepth : Holds(u, d, o)' => RunnerOf(o)' = u
           /\ (\A u \in Thread : \A d \in 1..MaxDepth : ~Holds(u, d, o)')
                 => RunnerOf(o)' = NoThread
  <1> DEFINE RunsThen(r) == call'[r[1]][r[2]].obj = o /\ call'[r[1]][r[2]].pc \in Locked
             p == CHOOSE r \in Place : RunsThen(r)
  <1>1. RunnerOf(o)' = IF \E r \in Place : RunsThen(r) THEN p[1] ELSE NoThread
    BY DEF RunnerOf, Runs, Fr, Place
  <1>2. \A u \in Thread, d \in 1..MaxDepth :
           <<u, d>> \in Place /\ (RunsThen(<<u, d>>) <=> Holds(u, d, o)')
    BY DEF Place, Holds
  <1>3. \A r \in Place : /\ r[1] \in Thread /\ r[2] \in 1..MaxDepth
                         /\ RunsThen(r) <=> Holds(r[1], r[2], o)'
    BY DEF Place, Holds
  <1>4. (\E r \in Place : RunsThen(r)) => p \in Place /\ RunsThen(p)
    <2> HIDE DEF RunsThen
    <2> QED
      OBVIOUS
  <1> HIDE DEF RunsThen, p
  <1>5. ASSUME NEW u \in Thread, NEW d \in 1..MaxDepth, Holds(u, d, o)'
        PROVE  RunnerOf(o)' = u
    <2>1. \E r \in Place : RunsThen(r)
      BY <1>2, <1>5
    <2>2. RunnerOf(o)' = p[1] /\ p \in Place /\ RunsThen(p)
      BY <1>1, <1>4, <2>1
    <2>3. \E v \in Thread, e \in 1..MaxDepth : p = <<v, e>> /\ p[1] = v
      BY <2>2 DEF Place
    <2>4. PICK v \in Thread, e \in 1..MaxDepth : RunnerOf(o)' = v /\ Holds(v, e, o)'
      BY <1>2, <2>2, <2>3
    <2>5. QED
      BY <1>5, <2>4 DEF Alone
  <1>6. ASSUME \A u \in Thread : \A d \in 1..MaxDepth : ~Holds(u, d, o)'
        PROVE  RunnerOf(o)' = NoThread
    <2>1. \A r \in Place : ~RunsThen(r)
      BY <1>3, <1>6
    <2>2. QED
      BY <1>1, <2>1
  <1>7. QED
    BY <1>5, <1>6

\* An object whose runners stay is served by whom it was.
LEMMA RunnerStays ==
    ASSUME Alone, Alone', NEW o \in Obj,
           \A u \in Thread : \A d \in 1..MaxDepth : Holds(u, d, o)' <=> Holds(u, d, o)
    PROVE  RunnerOf(o)' = RunnerOf(o)
  <1>1. CASE \E u \in Thread : \E d \in 1..MaxDepth : Holds(u, d, o)
    <2>1. PICK u \in Thread, d \in 1..MaxDepth : Holds(u, d, o)
      BY <1>1
    <2>2. Holds(u, d, o)'
      BY <2>1
    <2>3. RunnerOf(o) = u
      BY <2>1, RunnerNow
    <2>4. RunnerOf(o)' = u
      BY <2>2, RunnerThen
    <2>5. QED
      BY <2>3, <2>4
  <1>2. CASE \A u \in Thread : \A d \in 1..MaxDepth : ~Holds(u, d, o)
    <2>1. RunnerOf(o) = NoThread
      BY <1>2, RunnerNow
    <2>2. \A u \in Thread : \A d \in 1..MaxDepth : ~Holds(u, d, o)'
      BY <1>2
    <2>3. RunnerOf(o)' = NoThread
      BY <2>2, RunnerThen
    <2>4. QED
      BY <2>1, <2>3
  <1>3. QED
    BY <1>1, <1>2

\* What a turn of the loop shows of the object: it is run, or left with an empty
\* queue, dead, idle or waiting for the pool.
TurnShows(t, o, s, q, inHand) ==
    \/ /\ inHand \/ q # <<>>
       /\ s # Zom
       /\ \A u \in Thread : \A d \in 1..MaxDepth : Holds(u, d, o)' <=> u = t /\ d = dep[t]
       /\ que' = [que EXCEPT ![o] = IF inHand THEN q ELSE Tail(q)]
       /\ want' = want \ {o}
    \/ /\ \A u \in Thread : \A d \in 1..MaxDepth : ~Holds(u, d, o)'
       /\ que' = [que EXCEPT ![o] = <<>>]
       /\ \/ s = Zom /\ want' = want \ {o}
          \/ s # Zom /\ ~inHand /\ q = <<>> /\ want' = want
          \/ s # Zom /\ (inHand \/ q # <<>>) /\ want' = want \cup {o}

\* Only one object is served by another thread, or by none, after the step.
SameElse(o) ==
    \A x \in Obj \ {o} : \A u \in Thread : \A d \in 1..MaxDepth :
        Holds(u, d, x)' <=> Holds(u, d, x)

\* A turn of the loop shows one of these and leaves the other objects alone.
LEMMA TurnRefines ==
    ASSUME Stacks, NEW t \in Thread, dep[t] > 0, NEW f \in Frame, NEW o \in Obj,
           NEW s, NEW w, NEW q, NEW occ, NEW fl, NEW inHand,
           Turning(t, dep[t], f, o, s, w, fl),
           Proceed(t, f, o, s, w, q, occ, fl, inHand)
    PROVE  TurnShows(t, o, s, q, inHand) /\ SameElse(o)
  <1> DEFINE R(pc) == [f EXCEPT !.pc = pc]
             L(ins) == [f EXCEPT !.pc = "post", !.ins = ins]
             rest == IF inHand THEN q ELSE Tail(q)
  <1>1. /\ call[t][dep[t]] = f /\ f.obj = o
        /\ \A u \in Thread : \A d \in 1..MaxDepth : Holds(u, d, o) => u = t /\ d = dep[t]
        /\ dep[t] \in 1..MaxDepth
    BY TopFrame DEF Turning
  <1>2. ASSUME NEW g, g \in Frame, SetTop(t, g), g.obj = o
        PROVE  /\ Becomes(t, dep[t], g) /\ dep[t] \in 1..MaxDepth
               /\ \A u \in Thread : \A d \in 1..MaxDepth :
                     /\ Holds(u, d, o)' <=> u = t /\ d = dep[t] /\ g.pc \in Locked
                     /\ \A x \in Obj \ {o} : Holds(u, d, x)' <=> Holds(u, d, x)
    <2>1. Becomes(t, dep[t], g)
      BY <1>2, SetTopBecomes
    <2> DEFINE k == dep[t]
    <2>2. Becomes(t, k, g) /\ k \in 1..MaxDepth
      BY <1>1, <2>1
    <2>3. ASSUME NEW u \in Thread, NEW d \in 1..MaxDepth
          PROVE  /\ Holds(u, d, o)' <=> u = t /\ d = k /\ g.pc \in Locked
                 /\ \A x \in Obj \ {o} : Holds(u, d, x)' <=> Holds(u, d, x)
      <3>1. call'[u][d] = IF u = t /\ d = k THEN g ELSE call[u][d]
        BY <2>1 DEF Becomes
      <3> HIDE DEF k
      <3>2. CASE u = t /\ d = k
        BY <1>1, <1>2, <3>1, <3>2 DEF Holds, k
      <3>3. CASE ~(u = t /\ d = k)
        BY <1>1, <3>1, <3>3 DEF Holds, k
      <3>4. QED
        BY <3>2, <3>3
    <2>4. QED
      BY <1>1, <2>1, <2>3
  <1>3. ASSUME NEW ins \in BOOLEAN, SetTop(t, L(ins))
        PROVE  \A u \in Thread : \A d \in 1..MaxDepth :
                  /\ ~Holds(u, d, o)'
                  /\ \A x \in Obj \ {o} : Holds(u, d, x)' <=> Holds(u, d, x)
    <2> DEFINE g == L(ins)
    <2>1. g \in Frame /\ g.obj = o /\ g.pc = "post" /\ SetTop(t, g)
      BY <1>1, <1>3, LeftFrame
    <2> HIDE DEF g
    <2>2. g.pc \notin Locked
      BY <2>1 DEF Locked
    <2>3. QED
      BY <1>2, <2>1, <2>2
  <1>4. ASSUME NEW pc \in {"lock", "unlock"}, SetTop(t, R(pc))
        PROVE  \A u \in Thread : \A d \in 1..MaxDepth :
                  /\ Holds(u, d, o)' <=> u = t /\ d = dep[t]
                  /\ \A x \in Obj \ {o} : Holds(u, d, x)' <=> Holds(u, d, x)
    <2> DEFINE g == R(pc)
    <2>1. pc \in Pc /\ pc \in Locked
      BY DEF Pc, Locked
    <2>2. g \in Frame /\ g.obj = o /\ g.pc = pc /\ SetTop(t, g)
      BY <1>1, <1>4, <2>1, GoneFrame
    <2> HIDE DEF g
    <2>3. QED
      BY <1>2, <2>1, <2>2
  <1>5. f.ins = FALSE /\ fl["thq"] = flags[o]["thq"]
    BY DEF Turning, Frame
  <1>6. \A x \in TsState \cup TsThread : x # Zom
    BY ConstantsAssumption
  <1>7. \/ /\ inHand \/ q # <<>>
           /\ s # Zom
           /\ \E pc \in {"lock", "unlock"} : SetTop(t, R(pc))
           /\ que' = [que EXCEPT ![o] = rest]
           /\ want' = want \ {o}
        \/ /\ \E ins \in BOOLEAN : SetTop(t, L(ins))
           /\ que' = [que EXCEPT ![o] = <<>>]
           /\ \/ s = Zom /\ want' = want \ {o}
              \/ s # Zom /\ ~inHand /\ q = <<>> /\ want' = want
              \/ s # Zom /\ (inHand \/ q # <<>>) /\ want' = want \cup {o}
    BY <1>5, <1>6 DEF Proceed, Leave
  <1> HIDE DEF R, L
  <1>8. SameElse(o)
    BY <1>3, <1>4, <1>7 DEF SameElse
  <1>9. TurnShows(t, o, s, q, inHand)
    BY <1>3, <1>4, <1>7 DEF TurnShows
  <1>10. QED
    BY <1>8, <1>9

\* Who serves the objects after a step that changes it for one object, or for none.
LEMMA RunnerSet ==
    ASSUME Alone, Alone', NEW o \in Obj, SameElse(o), NEW r, RunnerOf(o)' = r
    PROVE  [x \in Obj |-> RunnerOf(x)]' = [[x \in Obj |-> RunnerOf(x)] EXCEPT ![o] = r]
  <1>1. \A x \in Obj \ {o} : RunnerOf(x)' = RunnerOf(x)
    BY RunnerStays DEF SameElse
  <1>2. QED
    BY <1>1

LEMMA RunnersSame ==
    ASSUME Alone, Alone', NEW o \in Obj, SameElse(o), RunnerOf(o)' = RunnerOf(o)
    PROVE  [x \in Obj |-> RunnerOf(x)]' = [x \in Obj |-> RunnerOf(x)]
  <1>1. \A x \in Obj \ {o} : RunnerOf(x)' = RunnerOf(x)
    BY RunnerStays DEF SameElse
  <1>2. QED
    BY <1>1

\* A quiet step is none of SerialObject's.
LEMMA QuietRefines ==
    ASSUME Alone, Alone', Quiet
    PROVE  UNCHANGED Serial!vars
  <1>1. \A x \in Obj : RunnerOf(x)' = RunnerOf(x)
    BY RunnerStays DEF Quiet, HoldersStay
  <1>2. [x \in Obj |-> RunnerOf(x)]' = [x \in Obj |-> RunnerOf(x)]
    BY <1>1
  <1>3. {x \in Obj : state[x] = Zom}' = {x \in Obj : state[x] = Zom}
    BY DEF Quiet
  <1>4. QED
    BY <1>2, <1>3 DEF Quiet, Serial!vars

\* An event left to the call that runs the object waits in its queue.
LEMMA BusyRefines ==
    ASSUME Stacks, LoopTypes, Alone, Alone', Kept, NEW t \in Thread, EnterBusy(t)
    PROVE  [Serial!Next]_(Serial!vars)
  <1>1. /\ At(t, "enter") /\ dep[t] > 0 /\ Top(t) \in Frame /\ Top(t).obj \in Obj
        /\ Top(t).pc = "enter" /\ Top(t) = call[t][dep[t]] /\ Top(t).ev \in Event
        /\ dep[t] \in 1..MaxDepth
    <2>1. "enter" \in Pc \ {"none", "gc"} /\ At(t, "enter")
      BY DEF Pc, EnterBusy
    <2>2. QED
      BY <2>1, AtFrame DEF Top, Frame
  <1>2. PICK o \in Obj, e \in Event, k \in 1..MaxDepth :
           o = Top(t).obj /\ e = Top(t).ev /\ k = dep[t]
    BY <1>1
  <1>3. /\ flags[o]["lock"] /\ Pop(t) /\ state[o] # Zom
        /\ que' = [que EXCEPT ![o] = Insert(@, occur[o], e)]
        /\ UNCHANGED <<state, want>>
    BY <1>2 DEF EnterBusy, ghosts
  <1>4. Becomes(t, k, NoFrame) /\ call[t][k].pc \notin Locked /\ NoFrame.pc \notin Locked
    BY <1>1, <1>2, <1>3, PopBecomes, NoFrameFields DEF Locked
  <1>5. HoldersStay
    BY <1>4 DEF HoldersStay, Becomes, Holds
  <1>6. \A x \in Obj : RunnerOf(x)' = RunnerOf(x)
    BY <1>5, RunnerStays DEF HoldersStay
  <1>7. [x \in Obj |-> RunnerOf(x)]' = [x \in Obj |-> RunnerOf(x)]
    BY <1>6
  <1>8. {x \in Obj : state[x] = Zom}' = {x \in Obj : state[x] = Zom}
    BY <1>3
  <1>9. RunnerOf(o) # NoThread /\ NoThread \notin Thread
    <2>1. PICK u \in Thread, d \in 1..MaxDepth : Holds(u, d, o)
      BY <1>3 DEF Kept, LockUsed
    <2>2. QED
      BY <2>1, RunnerNow, ConstantsAssumption
  <1>10. CASE Insert(que[o], occur[o], e) = que[o]
    <2>1. que' = que
      BY <1>3, <1>10 DEF LoopTypes
    <2>2. QED
      BY <1>3, <1>7, <1>8, <2>1 DEF Serial!vars
  <1>11. CASE Insert(que[o], occur[o], e) = Append(que[o], e)
    <2>1. que' = [que EXCEPT ![o] = Append(que[o], e)]
      BY <1>3, <1>11
    <2>2. o \notin {x \in Obj : state[x] = Zom}
      BY <1>3
    <2>3. Serial!Post(o, e)
      BY <1>3, <1>7, <1>8, <1>9, <2>1, <2>2 DEF Serial!Post
    <2>4. QED
      BY <2>3 DEF Serial!Next
  <1>12. QED
    BY <1>10, <1>11 DEF Insert

\* A call that finds the object free serves it, or leaves it to the pool.
LEMMA EnterRefines ==
    ASSUME Stacks, LoopTypes, RestTypes, Alone, Alone', Kept, NEW t \in Thread, EnterLock(t)
    PROVE  [Serial!Next]_(Serial!vars)
  <1>1. PICK f \in Frame, o \in Obj, occ \in SUBSET Once, fl \in Word, q \in Seq(Event) :
           \E w : Entering(t, f, o, w, q, occ, fl)
    BY EnterTurning
  <1>2. PICK w : Entering(t, f, o, w, q, occ, fl)
    BY <1>1
  <1>3. TurnShows(t, o, state[o], q, FALSE) /\ SameElse(o)
    BY <1>2, TurnRefines DEF Entering
  <1>4. state[o] # Zom /\ o \notin {x \in Obj : state[x] = Zom}
    BY <1>2 DEF Entering, EnterLock
  <1>5. \A u \in Thread : \A d \in 1..MaxDepth : ~Holds(u, d, o)
    BY <1>2 DEF Alone, Entering
  <1>6. RunnerOf(o) = NoThread
    BY <1>5, RunnerNow
  <1>7. que[o] = <<>> /\ Tail(q) = <<>> /\ q # <<>>
    <2>1. que[o] = <<>> /\ Coal(que[o], occur[o]) /\ occur[o] \in SUBSET Once
      BY <1>2 DEF Entering, Kept, LockUsed, Coalesced, LoopTypes
    <2>2. occur[o] = {}
      BY <2>1 DEF Coal
    <2>3. q = Append(<<>>, f.ev)
      BY <1>2, <2>1, <2>2 DEF Entering, Insert
    <2>4. QED
      BY <2>1, <2>3
  <1>8. {x \in Obj : state[x] = Zom}' = {x \in Obj : state[x] = Zom}
    BY <1>2 DEF Entering
  <1>9. CASE /\ \A u \in Thread : \A d \in 1..MaxDepth : Holds(u, d, o)' <=> u = t /\ d = dep[t]
             /\ que' = [que EXCEPT ![o] = Tail(q)]
             /\ want' = want \ {o}
    <2>1. que' = que
      BY <1>7, <1>9 DEF LoopTypes
    <2>2. dep[t] \in 1..MaxDepth
      BY <1>2, TopFrame DEF Entering
    <2>3. RunnerOf(o)' = t
      BY <1>9, <2>2, RunnerThen
    <2>4. [x \in Obj |-> RunnerOf(x)]' = [[x \in Obj |-> RunnerOf(x)] EXCEPT ![o] = t]
      BY <1>3, <2>3, RunnerSet
    <2>5. Serial!Start(t, o)
      BY <1>4, <1>6, <1>8, <1>9, <2>1, <2>4 DEF Serial!Start
    <2>6. QED
      BY <2>5 DEF Serial!Next
  <1>10. CASE /\ \A u \in Thread : \A d \in 1..MaxDepth : ~Holds(u, d, o)'
              /\ que' = [que EXCEPT ![o] = <<>>]
              /\ want' = want \cup {o}
    <2>1. que' = que
      BY <1>7, <1>10 DEF LoopTypes
    <2>2. RunnerOf(o)' = RunnerOf(o)
      BY <1>6, <1>10, RunnerThen
    <2>3. [x \in Obj |-> RunnerOf(x)]' = [x \in Obj |-> RunnerOf(x)]
      BY <1>3, <2>2, RunnersSame
    <2>4. Serial!Park(o)
      BY <1>4, <1>6, <1>8, <1>10, <2>1, <2>3 DEF Serial!Park
    <2>5. QED
      BY <2>4 DEF Serial!Next
  <1>11. QED
    BY <1>3, <1>4, <1>7, <1>9, <1>10 DEF TurnShows

\* A state function that returned is given the next event, or the object is left.
LEMMA ReturnRefines ==
    ASSUME Stacks, LoopTypes, RestTypes, Alone, Alone', Kept, NEW t \in Thread,
           NEW to \in State, NEW rDO \in BOOLEAN, Return(t, to, rDO)
    PROVE  [Serial!Next]_(Serial!vars)
  <1>1. PICK f \in Frame, o \in Obj, occ \in SUBSET Once, fl \in Word, q \in Seq(Event) :
           \E w : Returning(t, to, rDO, f, o, w, q, occ, fl)
    BY ReturnTurning
  <1>2. PICK w : Returning(t, to, rDO, f, o, w, q, occ, fl)
    BY <1>1
  <1>3. TurnShows(t, o, to, q, rDO) /\ SameElse(o)
    BY <1>2, TurnRefines DEF Returning
  <1>4. dep[t] \in 1..MaxDepth /\ Holds(t, dep[t], o) /\ q = que[o]
    BY <1>2, TopFrame DEF Returning
  <1>5. state[o] # Zom /\ o \notin want /\ RunnerOf(o) = t /\ RunnerOf(o) # NoThread
    <2>1. state[o] # Zom /\ o \notin want
      BY <1>4 DEF Kept, Served
    <2>2. RunnerOf(o) = t
      BY <1>4, RunnerNow
    <2>3. QED
      BY <2>1, <2>2, ConstantsAssumption
  <1>6. \A x \in Obj : state'[x] = IF x = o THEN to ELSE state[x]
    BY <1>2 DEF Returning, RestTypes
  <1>7. to # Zom => {x \in Obj : state[x] = Zom}' = {x \in Obj : state[x] = Zom}
    BY <1>5, <1>6
  <1>8. to = Zom => {x \in Obj : state[x] = Zom}' = {x \in Obj : state[x] = Zom} \cup {o}
    BY <1>6
  <1>9. CASE /\ rDO \/ q # <<>>
             /\ to # Zom
             /\ \A u \in Thread : \A d \in 1..MaxDepth : Holds(u, d, o)' <=> u = t /\ d = dep[t]
             /\ que' = [que EXCEPT ![o] = IF rDO THEN q ELSE Tail(q)]
             /\ want' = want \ {o}
    <2>1. RunnerOf(o)' = RunnerOf(o)
      BY <1>4, <1>5, <1>9, RunnerThen
    <2>2. [x \in Obj |-> RunnerOf(x)]' = [x \in Obj |-> RunnerOf(x)]
      BY <1>3, <2>1, RunnersSame
    <2>3. want' = want
      BY <1>5, <1>9
    <2>4. CASE rDO
      <3>1. que' = que
        BY <1>4, <1>9, <2>4 DEF LoopTypes
      <3>2. QED
        BY <1>7, <1>9, <2>2, <2>3, <3>1 DEF Serial!vars
    <2>5. CASE ~rDO
      <3>1. que[o] # <<>> /\ que' = [que EXCEPT ![o] = Tail(que[o])]
        BY <1>4, <1>9, <2>5
      <3>2. Serial!Take(o)
        BY <1>5, <1>7, <1>9, <2>2, <3>1 DEF Serial!Take
      <3>3. QED
        BY <3>2 DEF Serial!Next
    <2>6. QED
      BY <2>4, <2>5
  <1>10. CASE /\ \A u \in Thread : \A d \in 1..MaxDepth : ~Holds(u, d, o)'
              /\ que' = [que EXCEPT ![o] = <<>>]
              /\ \/ to = Zom /\ want' = want \ {o}
                 \/ to # Zom /\ q = <<>> /\ want' = want
                 \/ to # Zom /\ want' = want \cup {o}
    <2>1. RunnerOf(o)' = NoThread
      BY <1>10, RunnerThen
    <2>2. [x \in Obj |-> RunnerOf(x)]' = [[x \in Obj |-> RunnerOf(x)] EXCEPT ![o] = NoThread]
      BY <1>3, <2>1, RunnerSet
    <2>3. Serial!Finish(o)
      BY <1>4, <1>5, <1>7, <1>8, <1>10, <2>2 DEF Serial!Finish
    <2>4. QED
      BY <2>3 DEF Serial!Next
  <1>11. QED
    BY <1>3, <1>9, <1>10 DEF TurnShows

\* Every step is one of SerialObject's, or none.
LEMMA StepRefines ==
    ASSUME ~Torn, IInv, Alone, Alone', Kept, [Next]_vars
    PROVE  [Serial!Next]_(Serial!vars)
  <1>1. Stacks /\ LoopTypes /\ RestTypes
    BY Parts
  <1>2. ASSUME Quiet PROVE [Serial!Next]_(Serial!vars)
    BY <1>2, QuietRefines
  <1>3. CASE UNCHANGED vars
    <2>1. UNCHANGED <<call, flags, state, que, occur, thrInfo, app, ready, told, want>>
      BY <1>3 DEF vars
    <2>2. Quiet
      BY <1>1, <2>1, NothingMoves DEF KeepsBit
    <2>3. QED
      BY <1>2, <2>2
  <1>4. CASE Next
    <2>1. PICK t \in Thread :
            \/ Request(t) \/ Advance(t) \/ AppAcquire(t) \/ NotifyDone(t)
            \/ PoolTake(t) \/ Gc(t)
            \/ \E o \in Obj : FireTimer(t, o)
            \/ \E to \in State, rDO \in BOOLEAN : Return(t, to, rDO)
      BY <1>4 DEF Next
    <2>2. CASE Request(t)
      BY <1>1, <1>2, <2>2, RequestKeeps
    <2>3. CASE RefFlag(t) \/ Escape(t) \/ EnterZombie(t)
      BY <1>1, <1>2, <2>3, PassesKeep
    <2>4. CASE EnterBusy(t)
      BY <1>1, <2>4, BusyRefines
    <2>5. CASE EnterLock(t)
      BY <1>1, <2>5, EnterRefines
    <2>6. CASE AppMtxLock(t) \/ AppAcquire(t) \/ AppMtxUnlock(t) \/ AppRelease(t)
      BY <1>1, <1>2, <2>6, MutexStepsKeep
    <2>7. CASE InvokeState(t) \/ Tell(t) \/ NotifyDone(t) \/ PoolIns(t)
      BY <1>1, <1>2, <2>7, TellsKeep
    <2>8. CASE PoolTake(t)
      BY <1>1, <1>2, <2>8, PoolTakeKeeps DEF RestTypes
    <2>9. CASE Gc(t)
      BY <1>1, <1>2, <2>9, GcStepsKeep
    <2>10. CASE \E o \in Obj : FireTimer(t, o)
      BY <1>1, <1>2, <2>10, FireKeeps
    <2>11. CASE \E to \in State, rDO \in BOOLEAN : Return(t, to, rDO)
      BY <1>1, <2>11, ReturnRefines
    <2>12. QED
      BY <2>1, <2>2, <2>3, <2>4, <2>5, <2>6, <2>7, <2>8, <2>9, <2>10, <2>11 DEF Advance
  <1>5. QED
    BY <1>3, <1>4

\* Each object is served by one thread at a time, takes its events in their order, is
\* not left while one waits unless it turns to the pool or dies, and hears nothing
\* once dead (tinyState.cpp:924-1051).
THEOREM ServesInTurn ==
    ASSUME ~Torn
    PROVE  Spec => ServesSerially
  <1>1. Init => Serial!Init
    <2>1. SUFFICES ASSUME Init PROVE Serial!Init
      OBVIOUS
    <2>2. Alone /\ \A o \in Obj : RunnerOf(o) = NoThread
      <3>1. Alone
        BY <2>1, InitAlone
      <3>2. \A u \in Thread : \A d \in 1..MaxDepth : call[u][d] = NoFrame
        BY <2>1 DEF Init
      <3>3. \A o \in Obj : \A u \in Thread : \A d \in 1..MaxDepth : ~Holds(u, d, o)
        BY <3>2, NoFrameFields DEF Holds, Locked
      <3>4. QED
        BY <3>1, <3>3, RunnerNow
    <2>3. [o \in Obj |-> RunnerOf(o)] = [o \in Obj |-> NoThread]
      BY <2>2
    <2>4. {o \in Obj : state[o] = Zom} = {}
      BY <2>1, ConstantsAssumption DEF Init
    <2>5. QED
      BY <2>1, <2>3, <2>4 DEF Init, Serial!Init
  <1>2. IInv /\ Alone /\ Kept /\ (IInv /\ Alone /\ Kept)' /\ [Next]_vars
          => [Serial!Next]_(Serial!vars)
    BY StepRefines
  <1>3. QED
    BY <1>1, <1>2, AllKept, PTL DEF Spec, ServesSerially, Serial!Spec
=============================================================================
