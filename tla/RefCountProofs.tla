--------------------------- MODULE RefCountProofs ---------------------------
(***************************************************************************)
(* Proofs about RefCount, for any number of buckets, threads and objects:  *)
(* the variables are well typed, no bucket with work is overlooked, and a  *)
(* count is the number of handles.                                         *)
(***************************************************************************)
EXTENDS RefCount, SequenceTheorems, FiniteSetTheorems, TLAPS

\* A flag names a bucket: the side it stands for is there.
Tree ==
    /\ \A b \in Bucket : \A side \in refFlags[b] : Child(b, side) \in Bucket
    /\ \A i \in 1..Len(stack) : \A side \in stack[i].flags :
          Child(stack[i].id, side) \in Bucket

\* The recursion of gc() is there in a sweep only, and a refEvent() that has run is
\* that of the first object of its top frame.
Shape ==
    /\ gcPc = "sweep" <=> stack # <<>>
    /\ called => stack # <<>> /\ Top.ev # <<>>

TInv == TypeOK /\ Tree /\ Shape

-----------------------------------------------------------------------------
(* The tree of buckets.                                                    *)

LEMMA Buckets0 == Bucket \subseteq Nat /\ 0 \in Bucket
BY RefCountAssumption DEF Bucket

\* The parent of a bucket is above it, and the bucket is its parent's child on its side.
LEMMA Up ==
    ASSUME NEW b \in Bucket \ {0}
    PROVE  /\ Parent(b) \in Bucket /\ Parent(b) < b
           /\ Side(b) \in {0, 1}
           /\ Child(Parent(b), Side(b)) = b
<1>1. b \in Nat /\ b > 0 /\ b < Buckets /\ Buckets \in Nat
  BY RefCountAssumption DEF Bucket
<1>2. PICK n \in Nat : b - 1 = 2 * n \/ b - 1 = 2 * n + 1
  <2>1. (b - 1) \div 2 \in Nat BY <1>1
  <2>2. \/ b - 1 = 2 * ((b - 1) \div 2) \/ b - 1 = 2 * ((b - 1) \div 2) + 1 BY <1>1
  <2> QED BY <2>1, <2>2
<1>3. Parent(b) = n BY <1>1, <1>2 DEF Parent
<1>4. Side(b) = b - 1 - 2 * n BY <1>1, <1>2 DEF Side
<1>5. n < b /\ n \in Bucket BY <1>1, <1>2 DEF Bucket
<1> QED BY <1>1, <1>2, <1>3, <1>4, <1>5 DEF Child

LEMMA Down ==
    ASSUME NEW b \in Nat, NEW side \in {0, 1}
    PROVE  Parent(Child(b, side)) = b /\ Side(Child(b, side)) = side
BY DEF Parent, Side, Child

-----------------------------------------------------------------------------
(* Types.                                                                  *)

\* What a release does to the variables it writes.
LEMMA Releases ==
    ASSUME TypeOK, NEW o \in Object, NEW a \in Actor, RelRef(o, a)
    PROVE  /\ ref' \in [Object -> Nat \cup {-1}]
           /\ refEvent_num' \in [Object -> {0, -1}]
           /\ refList' \in [Bucket -> Seq(Object)]
           /\ refEvents' \in [Bucket -> Seq(Object)]
           /\ climb' \in [Actor -> {None} \cup (Bucket \ {0})]
           /\ asleep' \in SUBSET {Gc, Main}
           /\ asleep' \subseteq asleep
           /\ \A c \in Actor : climb[c] # None => climb'[c] = climb[c]
           /\ \A b \in Bucket : refList'[b] # refList[b] \/ refEvents'[b] # refEvents[b] =>
                 IF b = 0 THEN asleep' = {} ELSE climb'[a] = b
<1> USE DEF TypeOK
<1>1. Home[o] \in Bucket BY RefCountAssumption DEF Bucket
<1>2. climb[a] = None BY DEF RelRef
<1>3. ASSUME PutInto(Home[o], a)
      PROVE  /\ climb' \in [Actor -> {None} \cup (Bucket \ {0})]
             /\ asleep' \in SUBSET {Gc, Main}
             /\ asleep' \subseteq asleep
             /\ \A c \in Actor : climb[c] # None => climb'[c] = climb[c]
             /\ IF Home[o] = 0 THEN asleep' = {} ELSE climb'[a] = Home[o]
  BY <1>1, <1>2, <1>3 DEF PutInto
<1>4. CASE ref[o] = -1
  BY <1>4 DEF RelRef, lists
<1>5. CASE ref[o] # -1 /\ ref[o] <= refEvent_num[o] + 1
  <2>1. /\ refEvent_num' = [refEvent_num EXCEPT ![o] = -1]
        /\ refEvents' = [refEvents EXCEPT ![Home[o]] = Append(@, o)]
        /\ PutInto(Home[o], a)
        /\ UNCHANGED <<ref, refList>>
    BY <1>5 DEF RelRef
  <2>2. \A b \in Bucket : refEvents'[b] # refEvents[b] => b = Home[o]
    BY <2>1
  <2>3. refEvents' \in [Bucket -> Seq(Object)]
    BY <1>1, <2>1, AppendProperties
  <2> QED BY <1>3, <2>1, <2>2, <2>3
<1>6. CASE ref[o] # -1 /\ ~(ref[o] <= refEvent_num[o] + 1)
  <2>0. ref[o] \in Nat \cup {-1} /\ refEvent_num[o] \in {0, -1}
    OBVIOUS
  <2>1. ref[o] \in Nat /\ ref[o] > 0
    BY <1>6, <2>0
  <2>2. ref' = [ref EXCEPT ![o] = @ - 1] /\ UNCHANGED <<refEvent_num, refEvents>>
    BY <1>6 DEF RelRef
  <2>3. ref' \in [Object -> Nat \cup {-1}] BY <2>1, <2>2
  <2>4. CASE ref[o] > 1
    <3>1. UNCHANGED <<refList, climb, asleep>> BY <1>6, <2>4 DEF RelRef
    <3> QED BY <2>2, <2>3, <3>1
  <2>5. CASE ~(ref[o] > 1)
    <3>1. /\ refList' = [refList EXCEPT ![Home[o]] = <<o>> \o @]
          /\ PutInto(Home[o], a)
      BY <1>6, <2>5 DEF RelRef
    <3>2. <<o>> \o refList[Home[o]] \in Seq(Object) BY <1>1, ConcatProperties
    <3>3. refList' \in [Bucket -> Seq(Object)] BY <3>1, <3>2
    <3>4. \A b \in Bucket : refList'[b] # refList[b] => b = Home[o] BY <3>1
    <3> QED BY <1>3, <2>2, <2>3, <3>1, <3>3, <3>4
  <2> QED BY <2>4, <2>5
<1> QED BY <1>4, <1>5, <1>6

\* The frame on top is well typed, and replacing it leaves the others.
LEMMA TopFrame ==
    ASSUME stack \in Seq(Frame), stack # <<>>
    PROVE  /\ Top \in Frame /\ Top = stack[1] /\ 1 \in 1..Len(stack)
           /\ \A f \in Frame :
                 /\ [stack EXCEPT ![1] = f] \in Seq(Frame)
                 /\ Len([stack EXCEPT ![1] = f]) = Len(stack)
                 /\ [stack EXCEPT ![1] = f] # <<>>
                 /\ Head([stack EXCEPT ![1] = f]) = f
                 /\ \A i \in 1..Len(stack) :
                       [stack EXCEPT ![1] = f][i] = IF i = 1 THEN f ELSE stack[i]
<1>1. Len(stack) \in Nat \ {0} /\ 1 \in 1..Len(stack)
  BY LenProperties, EmptySeq
<1>2. Top = stack[1] /\ Top \in Frame
  BY HeadTailProperties, <1>1 DEF Top
<1>3. ASSUME NEW f \in Frame
      PROVE  /\ [stack EXCEPT ![1] = f] \in Seq(Frame)
             /\ Len([stack EXCEPT ![1] = f]) = Len(stack)
             /\ [stack EXCEPT ![1] = f] # <<>>
             /\ Head([stack EXCEPT ![1] = f]) = f
             /\ \A i \in 1..Len(stack) :
                   [stack EXCEPT ![1] = f][i] = IF i = 1 THEN f ELSE stack[i]
  <2>1. [stack EXCEPT ![1] = f] \in Seq(Frame) /\ Len([stack EXCEPT ![1] = f]) = Len(stack)
    BY <1>1, ExceptSeq
  <2>2. [stack EXCEPT ![1] = f] # <<>>
    BY <1>1, <2>1, EmptySeq
  <2>3. \A i \in 1..Len(stack) :
           [stack EXCEPT ![1] = f][i] = IF i = 1 THEN f ELSE stack[i]
    BY <1>1, LenProperties, ExceptSeq
  <2>4. Head([stack EXCEPT ![1] = f]) = f
    BY <1>1, <2>1, <2>2, <2>3, HeadTailProperties
  <2> QED BY <2>1, <2>2, <2>3, <2>4
<1> QED BY <1>1, <1>2, <1>3

\* What gc() takes off a bucket is a frame.
LEMMA TakenFrame ==
    ASSUME TypeOK, Tree, NEW b \in Bucket
    PROVE  /\ Taken(b) \in Frame
           /\ \A side \in Taken(b).flags : Child(b, side) \in Bucket
BY DEF TypeOK, Tree, Taken, Frame

\* A step that leaves the flags and the gc thread's recursion alone.
LEMMA FlagsAlone ==
    ASSUME Tree, Shape, UNCHANGED <<refFlags, gcVars>>
    PROVE  Tree' /\ Shape'
BY DEF Tree, Shape, Top, gcVars

LEMMA TypedInit == Init => TInv
<1> SUFFICES ASSUME Init PROVE TInv OBVIOUS
<1>1. TypeOK
  <2>1. refList \in [Bucket -> Seq(Object)] /\ refEvents \in [Bucket -> Seq(Object)]
    BY EmptySeq DEF Init
  <2>2. stack \in Seq(Frame) BY EmptySeq DEF Init
  <2>3. held \in [Thread -> SUBSET Object] BY DEF Init
  <2> QED BY <2>1, <2>2, <2>3 DEF Init, TypeOK
<1>2. Tree
  <2>1. Len(stack) = 0 BY EmptySeq DEF Init
  <2> QED BY <2>1 DEF Init, Tree
<1>3. Shape BY DEF Init, Shape
<1> QED BY <1>1, <1>2, <1>3 DEF TInv

\* What programs do with handles.
LEMMA TypedHandles ==
    ASSUME TInv, NEW t \in Thread, NEW o \in Object, NEW p \in Object,
           \/ Copy(t, o) \/ Mint(t, o) \/ Drop(t, o) \/ Disarm(t, o)
           \/ Store(t, o, p) \/ Clear(t, o, p)
    PROVE  TInv'
<1> USE DEF TInv
<1>0. t \in Actor BY DEF Actor
<1>1. ASSUME NEW q \in Object, AddRef(q) PROVE ref' \in [Object -> Nat \cup {-1}]
  <2>1. ref[q] \in Nat \cup {-1} BY DEF TypeOK
  <2>2. (IF ref[q] = -1 THEN -1 ELSE ref[q] + 1) \in Nat \cup {-1} BY <2>1
  <2> QED BY <1>1, <2>2 DEF AddRef, TypeOK
<1>2. CASE Acquire(t, o)
  <2>1. TypeOK' BY <1>1, <1>2 DEF Acquire, TypeOK, gcVars, waits
  <2>2. Tree' /\ Shape' BY <1>2, FlagsAlone DEF Acquire
  <2> QED BY <2>1, <2>2
<1>3. CASE Store(t, o, p)
  <2>1. TypeOK' BY <1>1, <1>3 DEF Store, TypeOK, gcVars, waits
  <2>2. Tree' /\ Shape' BY <1>3, FlagsAlone DEF Store
  <2> QED BY <2>1, <2>2
<1>4. CASE Drop(t, o)
  <2>1. TypeOK' BY <1>0, <1>4, Releases DEF Drop, TypeOK, gcVars, waits
  <2>2. Tree' /\ Shape' BY <1>4, FlagsAlone DEF Drop
  <2> QED BY <2>1, <2>2
<1>5. CASE Clear(t, o, p)
  <2>1. TypeOK' BY <1>0, <1>5, Releases DEF Clear, TypeOK, gcVars, waits
  <2>2. Tree' /\ Shape' BY <1>5, FlagsAlone DEF Clear
  <2> QED BY <2>1, <2>2
<1>6. CASE Disarm(t, o)
  <2>1. TypeOK' BY <1>6 DEF Disarm, TypeOK, handles, gcVars, waits
  <2>2. Tree' /\ Shape' BY <1>6, FlagsAlone DEF Disarm
  <2> QED BY <2>1, <2>2
<1> QED BY <1>2, <1>3, <1>4, <1>5, <1>6 DEF Copy, Mint

LEMMA TypedAnnounce ==
    ASSUME TInv, NEW a \in Actor, Announce(a)
    PROVE  TInv'
<1> USE DEF TInv
<1> DEFINE b == climb[a]
<1>1. b \in Bucket \ {0} BY DEF Announce, TypeOK
<1>2. /\ Parent(b) \in Bucket /\ Side(b) \in {0, 1}
      /\ Child(Parent(b), Side(b)) = b
  BY <1>1, Up
<1>3. UNCHANGED <<lists, handles, gcVars, waits>> BY DEF Announce
<1>4. PICK up \in Bucket, side \in {0, 1} :
         /\ up = Parent(b) /\ side = Side(b) /\ Child(up, side) \in Bucket
         /\ \/ climb' = [climb EXCEPT ![a] = None] /\ UNCHANGED <<refFlags, asleep>>
            \/ /\ refFlags' = [refFlags EXCEPT ![up] = @ \cup {side}]
               /\ climb' = [climb EXCEPT ![a] = IF up = 0 THEN None ELSE up]
               /\ asleep' = {} \/ asleep' = asleep
  BY <1>1, <1>2 DEF Announce
<1>5. refFlags \in [Bucket -> SUBSET {0, 1}] /\ climb \in [Actor -> {None} \cup (Bucket \ {0})]
  BY DEF TypeOK
<1>6. /\ refFlags' \in [Bucket -> SUBSET {0, 1}]
      /\ climb' \in [Actor -> {None} \cup (Bucket \ {0})]
      /\ asleep' \in SUBSET {Gc, Main}
      /\ \A c \in Bucket : \A s \in refFlags'[c] : s \in refFlags[c] \/ (c = up /\ s = side)
  <2>1. CASE climb' = [climb EXCEPT ![a] = None] /\ UNCHANGED <<refFlags, asleep>>
    <3>1. UNCHANGED <<refFlags, asleep>> BY <2>1
    <3>2. climb' \in [Actor -> {None} \cup (Bucket \ {0})] BY <1>5, <2>1
    <3>3. asleep' \in SUBSET {Gc, Main} BY <3>1 DEF TypeOK
    <3> QED BY <1>5, <3>1, <3>2, <3>3
  <2>2. CASE /\ refFlags' = [refFlags EXCEPT ![up] = @ \cup {side}]
             /\ climb' = [climb EXCEPT ![a] = IF up = 0 THEN None ELSE up]
             /\ asleep' = {} \/ asleep' = asleep
    <3>1. refFlags' \in [Bucket -> SUBSET {0, 1}] BY <1>5, <2>2
    <3>2. climb' \in [Actor -> {None} \cup (Bucket \ {0})] BY <1>5, <2>2
    <3>3. asleep' \in SUBSET {Gc, Main} BY <2>2 DEF TypeOK
    <3>4. ASSUME NEW c \in Bucket, NEW s \in refFlags'[c]
          PROVE  s \in refFlags[c] \/ (c = up /\ s = side)
      <4>1. refFlags'[c] = IF c = up THEN refFlags[c] \cup {side} ELSE refFlags[c]
        BY <1>5, <2>2
      <4> QED BY <3>4, <4>1
    <3> QED BY <3>1, <3>2, <3>3, <3>4
  <2> QED BY <1>4, <2>1, <2>2
<1>8. TypeOK' BY <1>3, <1>6 DEF TypeOK, lists, handles, gcVars, waits
<1>9. Tree'
  <2>1. UNCHANGED stack BY <1>3 DEF gcVars
  <2>2. \A c \in Bucket : \A s \in refFlags'[c] : Child(c, s) \in Bucket
    BY <1>4, <1>6 DEF Tree
  <2> QED BY <2>1, <2>2 DEF Tree
<1>7. Shape' BY <1>3 DEF Shape, Top, gcVars
<1> QED BY <1>7, <1>8, <1>9

\* The main thread, and the gc thread's sleep.
LEMMA TypedWaits ==
    ASSUME TInv,
           \/ GcCheck \/ GcWake
           \/ WaitStable \/ Finish \/ MainWakes
    PROVE  TInv'
<1> USE DEF TInv
<1>1. CASE GcCheck \/ GcWake
  <2>1. TypeOK' BY <1>1 DEF GcCheck, GcWake, Rest, TypeOK, lists, handles
  <2>2. Tree' BY <1>1 DEF GcCheck, GcWake, Tree
  <2>3. gcPc # "sweep" /\ gcPc' # "sweep" BY <1>1 DEF GcCheck, GcWake, Rest
  <2>4. Shape' BY <1>1, <2>3 DEF GcCheck, GcWake, Shape, Top
  <2> QED BY <2>1, <2>2, <2>4
<1>2. CASE WaitStable \/ Finish \/ MainWakes
  <2> USE DEF WaitStable, Finish, MainWakes, WaitStableWake, FinishWake
  <2>1. UNCHANGED <<lists, refFlags, handles, climb, gcVars>> BY <1>2
  <2>2. /\ mainPc' \in {"run", "stable", "finish", "done"}
        /\ asleep' \in SUBSET {Gc, Main}
        /\ finish_flag' \in {0, 1, 2}
    BY <1>2 DEF TypeOK
  <2>3. TypeOK' BY <2>1, <2>2 DEF TypeOK, lists, handles, gcVars
  <2>4. Tree' /\ Shape' BY <2>1, FlagsAlone
  <2> QED BY <2>3, <2>4
<1> QED BY <1>1, <1>2

\* The gc thread deletes, calls back and releases: the recursion keeps its buckets
\* and flags.
LEMMA TypedSweep ==
    ASSUME TInv, NEW o \in Object,
           GcDelete \/ GcCallback \/ GcCallbackDone \/ GcShed(o) \/ GcTeardown(o)
    PROVE  TInv'
<1> USE DEF TInv
<1>0. Gc \in Actor BY DEF Actor
<1>1. CASE GcShed(o)
  <2>1. TypeOK' BY <1>0, <1>1, Releases DEF GcShed, TypeOK, gcVars, waits
  <2>2. Tree' /\ Shape' BY <1>1, FlagsAlone DEF GcShed
  <2> QED BY <2>1, <2>2
<1>2. CASE GcTeardown(o)
  <2>1. TypeOK' BY <1>0, <1>2, Releases DEF GcTeardown, TypeOK, gcVars, waits
  <2>2. Tree' /\ Shape' BY <1>2, FlagsAlone DEF GcTeardown
  <2> QED BY <2>1, <2>2
<1>3. CASE GcCallback
  <2>1. TypeOK' BY <1>3 DEF GcCallback, TypeOK, lists, handles, waits
  <2>2. Tree' BY <1>3 DEF GcCallback, Tree
  <2>3. stack # <<>> BY <1>3 DEF GcCallback, Sweeping, Shape
  <2>4. Shape' BY <1>3, <2>3 DEF GcCallback, Shape, Top
  <2> QED BY <2>1, <2>2, <2>4
<1>4. CASE GcDelete \/ GcCallbackDone
  <2>1. stack \in Seq(Frame) /\ stack # <<>>
    BY <1>4 DEF GcDelete, GcCallbackDone, Sweeping, Shape, TypeOK
  <2>2. Top \in Frame /\ Top = stack[1] /\ 1 \in 1..Len(stack) BY <2>1, TopFrame
  <2>3. CASE GcDelete
    <3> DEFINE f == [Top EXCEPT !.del = Tail(@)]
    <3>1. Top.del \in Seq(Object) /\ Top.del # <<>> BY <2>2, <2>3 DEF GcDelete, Frame
    <3>2. Head(Top.del) \in Object /\ Tail(Top.del) \in Seq(Object)
      BY <3>1, HeadTailProperties
    <3>3. f \in Frame /\ f.id = Top.id /\ f.flags = Top.flags /\ f.ev = Top.ev
      BY <2>2, <3>2 DEF Frame
    <3>4. stack' = [stack EXCEPT ![1] = f] BY <2>2, <2>3 DEF GcDelete
    <3>5. TypeOK'
      <4>1. stack' \in Seq(Frame) BY <2>1, <3>3, <3>4, TopFrame
      <4>2. /\ ref' \in [Object -> Nat \cup {-1}]
            /\ member' \in [Object -> SUBSET Object]
            /\ shed' \in SUBSET Object
        BY <2>3, <3>2 DEF GcDelete, TypeOK
      <4> QED BY <2>3, <4>1, <4>2 DEF GcDelete, TypeOK, waits
    <3>6. Tree'
      BY <2>1, <2>2, <2>3, <3>3, <3>4, TopFrame DEF GcDelete, Tree
    <3>7. Shape'
      <4>1. Top' = f /\ stack' # <<>> BY <2>1, <3>3, <3>4, TopFrame DEF Top
      <4> QED BY <2>3, <3>3, <4>1 DEF GcDelete, Shape, Sweeping
    <3> QED BY <3>5, <3>6, <3>7
  <2>4. CASE GcCallbackDone
    <3> DEFINE f == [Top EXCEPT !.ev = Tail(@)]
    <3>1. Top.ev \in Seq(Object) /\ Top.ev # <<>>
      BY <2>2, <2>4 DEF GcCallbackDone, Shape, Frame
    <3>2. Head(Top.ev) \in Object /\ Tail(Top.ev) \in Seq(Object)
      BY <3>1, HeadTailProperties
    <3>3. f \in Frame /\ f.id = Top.id /\ f.flags = Top.flags
      BY <2>2, <3>2 DEF Frame
    <3>4. stack' = [stack EXCEPT ![1] = f] BY <2>2, <2>4 DEF GcCallbackDone
    <3>5. TypeOK'
      <4>1. stack' \in Seq(Frame) BY <2>1, <3>3, <3>4, TopFrame
      <4>2. RelRef(Head(Top.ev), Gc) BY <2>4 DEF GcCallbackDone
      <4>3. /\ ref' \in [Object -> Nat \cup {-1}]
            /\ refEvent_num' \in [Object -> {0, -1}]
            /\ refList' \in [Bucket -> Seq(Object)]
            /\ refEvents' \in [Bucket -> Seq(Object)]
            /\ climb' \in [Actor -> {None} \cup (Bucket \ {0})]
            /\ asleep' \in SUBSET {Gc, Main}
        BY <1>0, <3>2, <4>2, Releases
      <4> QED BY <2>4, <4>1, <4>3 DEF GcCallbackDone, TypeOK, handles, waits
    <3>6. Tree'
      BY <2>1, <2>2, <2>4, <3>3, <3>4, TopFrame DEF GcCallbackDone, Tree
    <3>7. Shape'
      <4>1. stack' # <<>> BY <2>1, <3>3, <3>4, TopFrame
      <4> QED BY <2>4, <4>1 DEF GcCallbackDone, Shape, Sweeping
    <3> QED BY <3>5, <3>6, <3>7
  <2> QED BY <1>4, <2>3, <2>4
<1> QED BY <1>1, <1>2, <1>3, <1>4
\* What is taken off a bucket goes on top of the recursion.
LEMMA Pushes ==
    ASSUME NEW f \in Frame, NEW rest \in Seq(Frame)
    PROVE  /\ <<f>> \o rest \in Seq(Frame)
           /\ <<f>> \o rest # <<>>
           /\ Len(<<f>> \o rest) = Len(rest) + 1
           /\ (<<f>> \o rest)[1] = f
           /\ \A i \in 1..Len(rest) : (<<f>> \o rest)[i + 1] = rest[i]
           /\ Head(<<f>> \o rest) = f
<1> DEFINE s == <<f>> \o rest
<1>1. <<f>> \in Seq(Frame) /\ Len(<<f>>) = 1 /\ <<f>>[1] = f
  OBVIOUS
<1>2. Len(rest) \in Nat BY LenProperties
<1>3. /\ s \in Seq(Frame) /\ Len(s) = Len(rest) + 1
      /\ \A i \in 1..(Len(rest) + 1) : s[i] = IF i <= 1 THEN <<f>>[i] ELSE rest[i - 1]
  <2>1. /\ s \in Seq(Frame) /\ Len(s) = Len(<<f>>) + Len(rest)
        /\ \A i \in 1..(Len(<<f>>) + Len(rest)) :
              s[i] = IF i <= Len(<<f>>) THEN <<f>>[i] ELSE rest[i - Len(<<f>>)]
    BY <1>1, ConcatProperties
  <2> QED BY <1>1, <1>2, <2>1
<1>4. s[1] = f BY <1>1, <1>2, <1>3
<1>5. s # <<>> BY <1>2, <1>3, EmptySeq
<1>6. ASSUME NEW i \in 1..Len(rest) PROVE s[i + 1] = rest[i]
  BY <1>2, <1>3
<1>7. Head(s) = f BY <1>3, <1>4, <1>5
<1> QED BY <1>3, <1>4, <1>5, <1>6, <1>7

\* What is taken off a bucket leaves nothing in it.
LEMMA TypedTakeOff ==
    ASSUME TypeOK, Tree, NEW b \in Bucket, TakeOff(b)
    PROVE  /\ refList' \in [Bucket -> Seq(Object)]
           /\ refEvents' \in [Bucket -> Seq(Object)]
           /\ refFlags' \in [Bucket -> SUBSET {0, 1}]
           /\ \A c \in Bucket : \A side \in refFlags'[c] : Child(c, side) \in Bucket
<1>1. refList' \in [Bucket -> Seq(Object)] /\ refEvents' \in [Bucket -> Seq(Object)]
  BY EmptySeq DEF TypeOK, TakeOff
<1>2. refFlags' \in [Bucket -> SUBSET {0, 1}]
  BY DEF TypeOK, TakeOff
<1>3. \A c \in Bucket : refFlags'[c] \subseteq refFlags[c]
  BY DEF TypeOK, TakeOff
<1> QED BY <1>1, <1>2, <1>3 DEF Tree

\* The child gc() descends to, and the frame it leaves for it.
Side0 == IF 0 \in Top.flags THEN 0 ELSE 1
Next0 == Child(Top.id, Side0)
Rest0 == [Top EXCEPT !.flags = @ \ {Side0}]

LEMMA Descends ==
    ASSUME TInv, GcDescend
    PROVE  /\ stack \in Seq(Frame) /\ stack # <<>> /\ Top = stack[1]
           /\ Side0 \in Top.flags /\ Side0 \in {0, 1}
           /\ Next0 \in Bucket \ {0}
           /\ Parent(Next0) = Top.id /\ Side(Next0) = Side0
           /\ Rest0 \in Frame /\ Rest0.id = Top.id
           /\ Rest0.flags = Top.flags \ {Side0}
           /\ Taken(Next0) \in Frame
           /\ stack' = <<Taken(Next0)>> \o [stack EXCEPT ![1] = Rest0]
           /\ TakeOff(Next0)
           /\ called = FALSE
<1> USE DEF TInv
<1>1. stack \in Seq(Frame) /\ stack # <<>>
  BY DEF GcDescend, Swept, Sweeping, Shape, TypeOK
<1>2. Top \in Frame /\ Top = stack[1] /\ 1 \in 1..Len(stack) BY <1>1, TopFrame
<1>3. Top.flags \in SUBSET {0, 1} /\ Top.flags # {} /\ Top.id \in Bucket
  BY <1>2 DEF GcDescend, Frame
<1>4. Side0 \in Top.flags /\ Side0 \in {0, 1} BY <1>3 DEF Side0
<1>5. Next0 \in Bucket BY <1>2, <1>4 DEF Tree, Next0
<1>6. Top.id \in Nat BY <1>3, Buckets0
<1>7. Next0 # 0 BY <1>4, <1>6 DEF Next0, Child
<1>8. Parent(Next0) = Top.id /\ Side(Next0) = Side0 BY <1>4, <1>6, Down DEF Next0
<1>9. Rest0 \in Frame /\ Rest0.id = Top.id /\ Rest0.flags = Top.flags \ {Side0}
  BY <1>2, <1>3 DEF Rest0, Frame
<1>10. Taken(Next0) \in Frame BY <1>5, TakenFrame
<1>11. TakeOff(Next0) BY DEF GcDescend, Next0, Side0
<1>12. stack' = <<Taken(Next0)>> \o [stack EXCEPT ![1] = Rest0]
  BY <1>2 DEF GcDescend, Next0, Side0, Rest0
<1>13. called = FALSE BY DEF GcDescend, Swept, Shape, TypeOK
<1> QED BY <1>1, <1>2, <1>4, <1>5, <1>7, <1>8, <1>9, <1>10, <1>11, <1>12, <1>13

\* gc() enters and leaves a bucket.
LEMMA TypedWalk ==
    ASSUME TInv, GcStart \/ GcDescend \/ GcReturn
    PROVE  TInv'
<1> USE DEF TInv
<1>1. CASE GcStart
  <2>1. Taken(0) \in Frame /\ \A side \in Taken(0).flags : Child(0, side) \in Bucket
    BY Buckets0, TakenFrame
  <2>2. stack' = <<Taken(0)>> /\ TakeOff(0) /\ gcPc' = "sweep" BY <1>1 DEF GcStart
  <2>3. stack' \in Seq(Frame) /\ Len(stack') = 1 /\ stack'[1] = Taken(0) /\ stack' # <<>>
    BY <2>1, <2>2
  <2>4. TypeOK'
    BY <1>1, <2>2, <2>3, Buckets0, TypedTakeOff DEF GcStart, TypeOK, handles, waits
  <2>5. Taken(0).id = 0 BY DEF Taken
  <2>6. Tree' BY <2>1, <2>2, <2>3, <2>5, Buckets0, TypedTakeOff DEF Tree
  <2>7. called' = FALSE BY <1>1 DEF GcStart, Shape, TypeOK
  <2>8. Shape' BY <2>2, <2>3, <2>7 DEF Shape
  <2> QED BY <2>4, <2>6, <2>8
<1>2. CASE GcDescend
  <2> DEFINE rest == [stack EXCEPT ![1] = Rest0]
  <2>1. /\ rest \in Seq(Frame) /\ Len(rest) = Len(stack)
        /\ \A i \in 1..Len(stack) : rest[i] = IF i = 1 THEN Rest0 ELSE stack[i]
    BY <1>2, Descends, TopFrame
  <2>2. /\ stack' \in Seq(Frame) /\ stack' # <<>>
        /\ Len(stack') = Len(stack) + 1
        /\ stack'[1] = Taken(Next0)
        /\ \A i \in 1..Len(stack) : stack'[i + 1] = rest[i]
    BY <1>2, <2>1, Descends, Pushes
  <2>3. TypeOK'
    BY <1>2, <2>2, Descends, TypedTakeOff DEF GcDescend, TypeOK, handles, waits
  <2>4. Tree'
    <3>1. \A b \in Bucket : \A side \in refFlags'[b] : Child(b, side) \in Bucket
      BY <1>2, Descends, TypedTakeOff
    <3>2. ASSUME NEW i \in 1..Len(stack'), NEW side \in stack'[i].flags
          PROVE  Child(stack'[i].id, side) \in Bucket
      <4>1. CASE i = 1
        <5>1. stack'[i].id = Next0 BY <2>2, <4>1 DEF Taken
        <5> QED BY <1>2, <2>2, <3>2, <4>1, <5>1, Descends, TakenFrame
      <4>2. CASE i # 1
        <5>1. Len(stack) \in Nat BY <1>2, Descends, LenProperties
        <5>2. i - 1 \in 1..Len(stack) /\ (i - 1) + 1 = i BY <2>2, <4>2, <5>1
        <5>3. stack'[i] = IF i - 1 = 1 THEN Rest0 ELSE stack[i - 1]
          BY <2>1, <2>2, <5>2
        <5>4. stack'[i].id = stack[i - 1].id /\ stack'[i].flags \subseteq stack[i - 1].flags
          BY <1>2, <5>3, Descends
        <5> QED BY <3>2, <5>2, <5>4 DEF Tree
      <4> QED BY <4>1, <4>2
    <3> QED BY <3>1, <3>2 DEF Tree
  <2>5. Shape'
    <3>1. gcPc' = "sweep" /\ called' = called BY <1>2 DEF GcDescend, Swept, Sweeping
    <3> QED BY <1>2, <2>2, <3>1, Descends DEF Shape
  <2> QED BY <2>3, <2>4, <2>5
<1>3. CASE GcReturn
  <2>1. stack \in Seq(Frame) /\ stack # <<>> /\ Len(stack) \in Nat
    BY <1>3, LenProperties DEF GcReturn, Swept, Sweeping, Shape, TypeOK
  <2>2. /\ stack' \in Seq(Frame) /\ Len(stack') = Len(stack) - 1
        /\ \A i \in 1..Len(stack') : stack'[i] = stack[i + 1]
    BY <1>3, <2>1, HeadTailProperties DEF GcReturn
  <2>3. TypeOK' BY <1>3, <2>2 DEF GcReturn, TypeOK, lists, handles, waits
  <2>4. Tree'
    <3>1. \A i \in 1..Len(stack') : i + 1 \in 1..Len(stack) BY <2>1, <2>2
    <3>2. UNCHANGED refFlags BY <1>3 DEF GcReturn
    <3> QED BY <2>2, <3>1, <3>2 DEF Tree
  <2>5. Shape'
    <3>1. called' = FALSE BY <1>3 DEF GcReturn, Swept, Shape, TypeOK
    <3>2. stack' # <<>> <=> Len(stack) # 1
      <4>1. stack' = <<>> <=> Len(stack') = 0 BY <2>2, EmptySeq
      <4> QED BY <2>1, <2>2, <4>1
    <3>3. gcPc' = "sweep" <=> Len(stack) # 1 BY <1>3 DEF GcReturn
    <3> QED BY <3>1, <3>2, <3>3 DEF Shape
  <2> QED BY <2>3, <2>4, <2>5
<1> QED BY <1>1, <1>2, <1>3

\* There is an object where one is deleted or called back.
LEMMA SomeObject ==
    ASSUME TInv, GcCallback \/ GcDelete \/ GcCallbackDone
    PROVE  \E o : o \in Object
<1>1. stack \in Seq(Frame) /\ stack # <<>>
  BY DEF GcCallback, GcDelete, GcCallbackDone, Sweeping, Shape, TypeOK, TInv
<1>2. Top.ev \in Seq(Object) /\ Top.del \in Seq(Object)
  BY <1>1, TopFrame DEF Frame
<1>3. Top.ev # <<>> \/ Top.del # <<>>
  BY DEF GcCallback, GcDelete, GcCallbackDone, Shape, TInv
<1> QED BY <1>2, <1>3, HeadTailProperties

LEMMA TypedNext == TInv /\ [Next]_vars => TInv'
<1> SUFFICES ASSUME TInv, [Next]_vars PROVE TInv' OBVIOUS
<1>1. ASSUME NEW t \in Thread, NEW o \in Object,
             Copy(t, o) \/ Mint(t, o) \/ Drop(t, o) \/ Disarm(t, o)
      PROVE  TInv'
  BY <1>1, TypedHandles
<1>2. ASSUME NEW t \in Thread, NEW o \in Object, NEW p \in Object,
             Store(t, o, p) \/ Clear(t, o, p)
      PROVE  TInv'
  BY <1>2, TypedHandles
<1>3. ASSUME NEW a \in Actor, Announce(a) PROVE TInv'
  BY <1>3, TypedAnnounce
<1>4. CASE GcCheck \/ GcWake \/ WaitStable \/ Finish \/ MainWakes
  BY <1>4, TypedWaits
<1>5. CASE GcStart \/ GcDescend \/ GcReturn BY <1>5, TypedWalk
<1>6. CASE GcCallback \/ GcDelete \/ GcCallbackDone
  <2>1. PICK o : o \in Object BY <1>6, SomeObject
  <2> QED BY <1>6, <2>1, TypedSweep
<1>7. CASE UNCHANGED vars
  BY <1>7 DEF vars, lists, handles, gcVars, waits, TInv, TypeOK, Tree, Shape, Top
<1>8. ASSUME NEW o \in Object, GcShed(o) \/ GcTeardown(o) PROVE TInv'
  BY <1>8, TypedSweep
<1> QED
  BY <1>1, <1>2, <1>3, <1>4, <1>5, <1>6, <1>7, <1>8 DEF Next, GcStep

\* The variables keep their types, the flags name buckets, and the recursion of the
\* gc thread exists in a sweep only.
LEMMA Typed == Spec => []TInv
BY TypedInit, TypedNext, PTL DEF Spec

\* Every variable has its type, for any number of buckets, threads and objects.
THEOREM TypeInvariant == Spec => []TypeOK
<1>1. TInv => TypeOK BY DEF TInv
<1> QED BY <1>1, Typed, PTL
-----------------------------------------------------------------------------
(* No work is overlooked.                                                  *)

\* What WorkIsKnown says of one bucket.
Known(b) ==
    IF b = 0 THEN gcPc = "gone" \/ Gc \notin asleep
    ELSE \/ Side(b) \in refFlags[Parent(b)]
         \/ \E a \in Actor : climb[a] = b
         \/ Coming(b)

LEMMA KnownDef == WorkIsKnown <=> \A b \in Bucket : HasWork(b) => Known(b)
BY DEF WorkIsKnown, Known

\* A release puts its object into a bucket and is on its way up from there.
LEMMA ReleaseKnown ==
    ASSUME TypeOK, WorkIsKnown, NEW o \in Object, NEW a \in Actor, RelRef(o, a),
           UNCHANGED <<refFlags, gcPc>>,
           \A b \in Bucket : Coming(b) => Coming(b)'
    PROVE  WorkIsKnown'
<1> SUFFICES ASSUME NEW b \in Bucket, HasWork(b)' PROVE Known(b)'
  BY DEF WorkIsKnown, Known
<1>1. /\ asleep' \subseteq asleep
      /\ \A c \in Actor : climb[c] # None => climb'[c] = climb[c]
      /\ refList'[b] # refList[b] \/ refEvents'[b] # refEvents[b] =>
           IF b = 0 THEN asleep' = {} ELSE climb'[a] = b
  BY Releases
<1>2. CASE refList'[b] # refList[b] \/ refEvents'[b] # refEvents[b]
  BY <1>1, <1>2 DEF Known
<1>3. CASE ~(refList'[b] # refList[b] \/ refEvents'[b] # refEvents[b])
  <2>1. HasWork(b) BY <1>3 DEF HasWork
  <2>2. Known(b) BY <2>1, KnownDef
  <2>3. CASE b = 0 BY <1>1, <2>2, <2>3 DEF Known
  <2>4. CASE b # 0
    <3>1. b # None BY Buckets0 DEF None
    <3>2. (\E c \in Actor : climb[c] = b) => \E c \in Actor : climb'[c] = b
      BY <1>1, <3>1
    <3> QED BY <2>2, <2>4, <3>2 DEF Known
  <2> QED BY <2>3, <2>4
<1> QED BY <1>2, <1>3

\* A step that touches no bucket and no recursion, and puts nobody to sleep.
LEMMA ElsewhereKnown ==
    ASSUME WorkIsKnown,
           UNCHANGED <<refList, refEvents, refFlags, climb, stack, gcPc>>,
           Gc \in asleep' => Gc \in asleep
    PROVE  WorkIsKnown'
BY DEF WorkIsKnown, HasWork, Coming

LEMMA HandlesKnown ==
    ASSUME TInv, WorkIsKnown, NEW t \in Thread, NEW o \in Object, NEW p \in Object,
           \/ Copy(t, o) \/ Mint(t, o) \/ Drop(t, o) \/ Disarm(t, o)
           \/ Store(t, o, p) \/ Clear(t, o, p)
    PROVE  WorkIsKnown'
<1>1. t \in Actor /\ TypeOK BY DEF Actor, TInv
<1>2. CASE Copy(t, o) \/ Mint(t, o) \/ Disarm(t, o) \/ Store(t, o, p)
  BY <1>2, ElsewhereKnown DEF Copy, Mint, Acquire, Disarm, Store, gcVars
<1>3. CASE Drop(t, o) \/ Clear(t, o, p)
  <2>1. UNCHANGED <<refFlags, gcPc, stack>> BY <1>3 DEF Drop, Clear, gcVars
  <2>2. \A b \in Bucket : Coming(b) => Coming(b)' BY <2>1 DEF Coming
  <2>3. RelRef(o, t) \/ RelRef(p, t) BY <1>3 DEF Drop, Clear
  <2> QED BY <1>1, <2>1, <2>2, <2>3, ReleaseKnown
<1> QED BY <1>2, <1>3

\* Who announces work moves it up, or leaves it to the flag that is there.
LEMMA AnnounceKnown ==
    ASSUME TInv, WorkIsKnown, NEW a \in Actor, Announce(a)
    PROVE  WorkIsKnown'
<1>1. PICK c \in Bucket \ {0} : climb[a] = c BY DEF Announce, TInv, TypeOK
<1>2. PICK up \in Bucket, side \in {0, 1} : up = Parent(c) /\ side = Side(c)
  BY <1>1, Up
<1>3. UNCHANGED <<refList, refEvents, stack, gcPc>> BY DEF Announce, lists, gcVars
<1>4. /\ refFlags \in [Bucket -> SUBSET {0, 1}]
      /\ climb \in [Actor -> {None} \cup (Bucket \ {0})]
  BY DEF TInv, TypeOK
<1>5. \/ /\ side \in refFlags[up]
         /\ climb' = [climb EXCEPT ![a] = None] /\ UNCHANGED <<refFlags, asleep>>
      \/ /\ refFlags' = [refFlags EXCEPT ![up] = @ \cup {side}]
         /\ climb' = [climb EXCEPT ![a] = IF up = 0 THEN None ELSE up]
         /\ IF up = 0 THEN asleep' = {} ELSE UNCHANGED asleep
  BY <1>1, <1>2 DEF Announce
<1>6. /\ side \in refFlags'[up]
      /\ \A b \in Bucket : refFlags[b] \subseteq refFlags'[b]
      /\ \A b \in Bucket \ {up} : refFlags'[b] = refFlags[b]
      /\ \A d \in Actor \ {a} : climb'[d] = climb[d]
      /\ refFlags'[up] # refFlags[up] => IF up = 0 THEN asleep' = {} ELSE climb'[a] = up
      /\ Gc \in asleep' => Gc \in asleep
  <2>1. CASE /\ side \in refFlags[up]
             /\ climb' = [climb EXCEPT ![a] = None] /\ UNCHANGED <<refFlags, asleep>>
    BY <1>4, <2>1
  <2>2. CASE /\ refFlags' = [refFlags EXCEPT ![up] = @ \cup {side}]
             /\ climb' = [climb EXCEPT ![a] = IF up = 0 THEN None ELSE up]
             /\ IF up = 0 THEN asleep' = {} ELSE UNCHANGED asleep
    BY <1>4, <2>2
  <2> QED BY <1>5, <2>1, <2>2
<1> SUFFICES ASSUME NEW b \in Bucket, HasWork(b)' PROVE Known(b)'
  BY DEF WorkIsKnown, Known
<1>7. CASE refFlags'[b] # refFlags[b]
  <2>1. b = up BY <1>6, <1>7
  <2> QED BY <1>6, <1>7, <2>1 DEF Known
<1>8. CASE refFlags'[b] = refFlags[b]
  <2>1. Known(b) BY <1>3, <1>8, KnownDef DEF HasWork
  <2>2. CASE b = 0 BY <1>3, <1>6, <2>1, <2>2 DEF Known
  <2>3. CASE b # 0 /\ b = c BY <1>2, <1>6, <2>3 DEF Known
  <2>4. CASE b # 0 /\ b # c
    <3>1. CASE Side(b) \in refFlags[Parent(b)]
      <4>1. Parent(b) \in Bucket BY <2>4, Up
      <4> QED BY <1>6, <2>4, <3>1, <4>1 DEF Known
    <3>2. CASE \E d \in Actor : climb[d] = b
      <4>1. PICK d \in Actor : climb[d] = b BY <3>2
      <4>2. climb'[d] = b BY <1>1, <1>6, <2>4, <4>1
      <4> QED BY <2>4, <4>2 DEF Known
    <3>3. CASE Coming(b)
      <4>1. Coming(b)' BY <1>3, <3>3 DEF Coming
      <4> QED BY <2>4, <4>1 DEF Known
    <3> QED BY <2>1, <2>4, <3>1, <3>2, <3>3 DEF Known
  <2> QED BY <2>2, <2>3, <2>4
<1> QED BY <1>7, <1>8

\* The gc thread goes to sleep only at an empty root.
LEMMA WaitsKnown ==
    ASSUME TInv, WorkIsKnown, GcCheck \/ GcWake \/ WaitStable \/ Finish \/ MainWakes
    PROVE  WorkIsKnown'
<1>1. CASE WaitStable \/ Finish \/ MainWakes
  <2>1. /\ UNCHANGED <<refList, refEvents, refFlags, climb, stack, gcPc>>
        /\ Gc \in asleep' => Gc \in asleep
    BY <1>1 DEF WaitStable, Finish, MainWakes, WaitStableWake, FinishWake, lists, gcVars,
                Gc, Main
  <2> QED BY <2>1, ElsewhereKnown
<1>2. CASE GcCheck \/ GcWake
  <2>1. UNCHANGED <<refList, refEvents, refFlags, climb, stack>>
    BY <1>2 DEF GcCheck, GcWake, lists
  <2>2. \A b \in Bucket : b # 0 /\ HasWork(b)' => Known(b)'
    BY <2>1, KnownDef DEF HasWork, Known, Coming
  <2>3. HasWork(0)' => Known(0)'
    <3>1. CASE RootEmpty BY <2>1, <3>1 DEF RootEmpty, HasWork
    <3>2. CASE ~RootEmpty
      <4>1. UNCHANGED asleep BY <1>2, <3>2 DEF GcCheck, GcWake
      <4>2. HasWork(0) /\ gcPc # "gone"
        BY <1>2, <3>2 DEF RootEmpty, HasWork, GcCheck, GcWake
      <4>3. Gc \notin asleep BY <4>2, Buckets0, KnownDef DEF Known
      <4> QED BY <4>1, <4>3 DEF Known
    <3> QED BY <3>1, <3>2
  <2> QED BY <2>2, <2>3 DEF WorkIsKnown, Known
<1> QED BY <1>1, <1>2

\* Deleting, calling back and releasing, it forgets none of the flags it took.
LEMMA SweepKnown ==
    ASSUME TInv, WorkIsKnown, NEW o \in Object,
           GcDelete \/ GcCallback \/ GcCallbackDone \/ GcShed(o) \/ GcTeardown(o)
    PROVE  WorkIsKnown'
<1>0. Gc \in Actor /\ TypeOK BY DEF Actor, TInv
<1>1. CASE GcShed(o) \/ GcTeardown(o)
  <2>1. UNCHANGED <<refFlags, gcPc, stack>> BY <1>1 DEF GcShed, GcTeardown, gcVars
  <2>2. \A b \in Bucket : Coming(b) => Coming(b)' BY <2>1 DEF Coming
  <2>3. RelRef(o, Gc) BY <1>1 DEF GcShed, GcTeardown
  <2> QED BY <1>0, <2>1, <2>2, <2>3, ReleaseKnown
<1>2. CASE GcCallback
  BY <1>2, ElsewhereKnown DEF GcCallback, lists, waits
<1>3. CASE GcDelete \/ GcCallbackDone
  <2>1. stack \in Seq(Frame) /\ stack # <<>>
    BY <1>3 DEF GcDelete, GcCallbackDone, Sweeping, Shape, TypeOK, TInv
  <2>2. Top \in Frame /\ Top = stack[1] /\ 1 \in 1..Len(stack) BY <2>1, TopFrame
  <2>3. PICK f \in Frame : /\ stack' = [stack EXCEPT ![1] = f]
                          /\ f.id = Top.id /\ f.flags = Top.flags
    <3>1. CASE GcDelete
      <4>1. Tail(Top.del) \in Seq(Object)
        BY <2>2, <3>1, HeadTailProperties DEF GcDelete, Frame
      <4>2. [Top EXCEPT !.del = Tail(@)] \in Frame BY <2>2, <4>1 DEF Frame
      <4> QED BY <2>2, <3>1, <4>2 DEF GcDelete, Frame
    <3>2. CASE GcCallbackDone
      <4>1. Tail(Top.ev) \in Seq(Object)
        BY <2>2, <3>2, HeadTailProperties DEF GcCallbackDone, Shape, TInv, Frame
      <4>2. [Top EXCEPT !.ev = Tail(@)] \in Frame BY <2>2, <4>1 DEF Frame
      <4> QED BY <2>2, <3>2, <4>2 DEF GcCallbackDone, Frame
    <3> QED BY <1>3, <3>1, <3>2
  <2>4. /\ Len(stack') = Len(stack)
        /\ \A i \in 1..Len(stack) :
              stack'[i].id = stack[i].id /\ stack'[i].flags = stack[i].flags
    BY <2>1, <2>2, <2>3, TopFrame
  <2>5. \A b \in Bucket : Coming(b) => Coming(b)' BY <2>4 DEF Coming
  <2>6. CASE GcDelete
    <3>1. UNCHANGED <<refList, refEvents, refFlags, climb, gcPc, asleep>>
      BY <2>6 DEF GcDelete, waits
    <3> QED BY <2>5, <3>1 DEF WorkIsKnown, HasWork
  <2>7. CASE GcCallbackDone
    <3>1. UNCHANGED <<refFlags, gcPc>> /\ RelRef(Head(Top.ev), Gc)
      BY <2>7 DEF GcCallbackDone
    <3>2. Head(Top.ev) \in Object
      BY <2>2, <2>7, HeadTailProperties DEF GcCallbackDone, Shape, TInv, Frame
    <3> QED BY <1>0, <2>5, <3>1, <3>2, ReleaseKnown
  <2> QED BY <1>3, <2>6, <2>7
<1> QED BY <1>1, <1>2, <1>3

\* Walking the tree, the gc thread takes the flags with the work they stand for, and
\* visits every child it has a flag of.
LEMMA WalkKnown ==
    ASSUME TInv, WorkIsKnown, GcStart \/ GcDescend \/ GcReturn
    PROVE  WorkIsKnown'
<1> USE DEF TInv
<1> SUFFICES ASSUME NEW b \in Bucket, HasWork(b)' PROVE Known(b)'
  BY DEF WorkIsKnown, Known
<1>1. UNCHANGED <<climb, asleep>> BY DEF GcStart, GcDescend, GcReturn, waits
<1>2. gcPc # "gone"
  BY DEF GcStart, GcDescend, GcReturn, Swept, Sweeping
<1>3. ASSUME NEW c \in Bucket, TakeOff(c)
      PROVE  /\ b # c /\ HasWork(b)
             /\ \A d \in Bucket : d # c => refFlags'[d] = refFlags[d]
  BY <1>3 DEF TakeOff, HasWork, TypeOK
<1>4. HasWork(b)
  <2>1. CASE GcStart BY <1>3, <2>1, Buckets0 DEF GcStart
  <2>2. CASE GcDescend BY <1>3, <2>2, Descends
  <2>3. CASE GcReturn BY <2>3 DEF GcReturn, HasWork, lists
  <2> QED BY <2>1, <2>2, <2>3
<1>5. Known(b) BY <1>4, KnownDef
<1>6. CASE b = 0 BY <1>1, <1>2, <1>5, <1>6 DEF Known
<1>7. CASE b # 0 /\ \E a \in Actor : climb[a] = b
  BY <1>1, <1>7 DEF Known
<1>8. CASE b # 0 /\ Side(b) \in refFlags[Parent(b)]
  <2>1. Parent(b) \in Bucket BY <1>8, Up
  <2>2. CASE GcStart
    <3>1. stack' = <<Taken(0)>> /\ TakeOff(0) BY <2>2 DEF GcStart
    <3>2. CASE Parent(b) = 0
      <4>1. 1 \in 1..Len(stack') /\ stack'[1] = Taken(0) BY <3>1
      <4>2. Taken(0).id = Parent(b) /\ Side(b) \in Taken(0).flags
        BY <1>8, <3>2 DEF Taken
      <4> QED BY <1>8, <4>1, <4>2 DEF Known, Coming
    <3>3. CASE Parent(b) # 0
      BY <1>3, <1>8, <2>1, <3>1, <3>3, Buckets0 DEF Known
    <3> QED BY <3>2, <3>3
  <2>3. CASE GcDescend
    <3>1. CASE Parent(b) = Next0
      <4>1. [stack EXCEPT ![1] = Rest0] \in Seq(Frame) BY <2>3, Descends, TopFrame
      <4>2. 1 \in 1..Len(stack') /\ stack'[1] = Taken(Next0)
        <5>1. /\ Len(stack') = Len([stack EXCEPT ![1] = Rest0]) + 1
              /\ stack'[1] = Taken(Next0)
          BY <2>3, <4>1, Descends, Pushes
        <5> QED BY <4>1, <5>1, LenProperties
      <4>3. Taken(Next0).id = Parent(b) /\ Side(b) \in Taken(Next0).flags
        BY <1>8, <3>1 DEF Taken
      <4> QED BY <1>8, <4>2, <4>3 DEF Known, Coming
    <3>2. CASE Parent(b) # Next0
      BY <1>3, <1>8, <2>1, <2>3, <3>2, Descends DEF Known
    <3> QED BY <3>1, <3>2
  <2>4. CASE GcReturn BY <1>8, <2>4 DEF GcReturn, Known
  <2> QED BY <2>2, <2>3, <2>4
<1>9. CASE b # 0 /\ Coming(b)
  <2>1. PICK i \in 1..Len(stack) : stack[i].id = Parent(b) /\ Side(b) \in stack[i].flags
    BY <1>9 DEF Coming
  <2>2. stack \in Seq(Frame) /\ Len(stack) \in Nat BY LenProperties DEF TypeOK
  <2>3. CASE GcStart
    BY <2>1, <2>2, <2>3, EmptySeq DEF GcStart, Shape
  <2>4. CASE GcDescend
    <3> DEFINE rest == [stack EXCEPT ![1] = Rest0]
    <3>1. /\ rest \in Seq(Frame) /\ Len(rest) = Len(stack)
          /\ rest[i] = IF i = 1 THEN Rest0 ELSE stack[i]
      BY <2>1, <2>4, Descends, TopFrame
    <3>2. Len(stack') = Len(stack) + 1 /\ stack'[i + 1] = rest[i]
      BY <2>1, <2>4, <3>1, Descends, Pushes
    <3>3. i + 1 \in 1..Len(stack') BY <2>1, <2>2, <3>2
    <3>4. rest[i].id = Parent(b) /\ Side(b) \in rest[i].flags
      <4>1. CASE i # 1 BY <2>1, <3>1, <4>1
      <4>2. CASE i = 1
        <5>1. Top.id = Parent(b) /\ Side(b) \in Top.flags
          BY <2>1, <2>4, <4>2, Descends
        <5>2. Side(b) # Side0
          <6>1. Child(Parent(b), Side(b)) = b BY <1>9, Up
          <6>2. b # Next0 BY <1>3, <2>4, Descends
          <6> QED BY <5>1, <6>1, <6>2 DEF Next0
        <5> QED BY <2>4, <3>1, <4>2, <5>1, <5>2, Descends
      <4> QED BY <4>1, <4>2
    <3> QED BY <1>9, <3>2, <3>3, <3>4 DEF Known, Coming
  <2>5. CASE GcReturn
    <3>1. stack # <<>> BY <2>5 DEF GcReturn, Swept, Sweeping, Shape
    <3>2. Top.flags = {} /\ Top = stack[1]
      BY <2>2, <2>5, <3>1, TopFrame DEF GcReturn
    <3>3. i # 1 BY <2>1, <3>2
    <3>4. /\ Len(stack') = Len(stack) - 1
          /\ \A j \in 1..Len(stack') : stack'[j] = stack[j + 1]
      BY <2>2, <2>5, <3>1, HeadTailProperties DEF GcReturn
    <3>5. i - 1 \in 1..Len(stack') /\ stack'[i - 1] = stack[i]
      <4>1. i - 1 \in 1..Len(stack') /\ (i - 1) + 1 = i BY <2>1, <2>2, <3>3, <3>4
      <4> QED BY <3>4, <4>1
    <3> QED BY <1>9, <2>1, <3>5 DEF Known, Coming
  <2> QED BY <2>3, <2>4, <2>5
<1> QED BY <1>5, <1>6, <1>7, <1>8, <1>9 DEF Known

LEMMA KnownInit == Init => WorkIsKnown
BY Buckets0 DEF Init, WorkIsKnown, HasWork

LEMMA KnownNext == TInv /\ WorkIsKnown /\ [Next]_vars => WorkIsKnown'
<1> SUFFICES ASSUME TInv, WorkIsKnown, [Next]_vars PROVE WorkIsKnown' OBVIOUS
<1>1. ASSUME NEW t \in Thread, NEW o \in Object,
             Copy(t, o) \/ Mint(t, o) \/ Drop(t, o) \/ Disarm(t, o)
      PROVE  WorkIsKnown'
  BY <1>1, HandlesKnown
<1>2. ASSUME NEW t \in Thread, NEW o \in Object, NEW p \in Object,
             Store(t, o, p) \/ Clear(t, o, p)
      PROVE  WorkIsKnown'
  BY <1>2, HandlesKnown
<1>3. ASSUME NEW a \in Actor, Announce(a) PROVE WorkIsKnown'
  BY <1>3, AnnounceKnown
<1>4. CASE GcCheck \/ GcWake \/ WaitStable \/ Finish \/ MainWakes
  BY <1>4, WaitsKnown
<1>5. CASE GcStart \/ GcDescend \/ GcReturn BY <1>5, WalkKnown
<1>6. CASE GcCallback \/ GcDelete \/ GcCallbackDone
  <2>1. PICK o : o \in Object BY <1>6, SomeObject
  <2> QED BY <1>6, <2>1, SweepKnown
<1>7. ASSUME NEW o \in Object, GcShed(o) \/ GcTeardown(o) PROVE WorkIsKnown'
  BY <1>7, SweepKnown
<1>8. CASE UNCHANGED vars
  BY <1>8, ElsewhereKnown DEF vars, lists, gcVars
<1> QED
  BY <1>1, <1>2, <1>3, <1>4, <1>5, <1>6, <1>7, <1>8 DEF Next, GcStep

\* A bucket with work is flagged in its parent, or somebody is on the way to flag it,
\* or the gc thread has the flag and will come; at an empty-handed root it does not
\* sleep.  For any number of buckets, threads and objects, relref()'s climb, one mutex
\* at a time, and gc()'s clearing from the root lose nothing (stdObject.cpp:117-130,
\* 195-258).
THEOREM NoWorkOverlooked == Spec => []WorkIsKnown
<1>1. Init => TInv /\ WorkIsKnown BY TypedInit, KnownInit
<1>2. TInv /\ WorkIsKnown /\ [Next]_vars => (TInv /\ WorkIsKnown)'
  BY TypedNext, KnownNext
<1> QED BY <1>1, <1>2, PTL DEF Spec

-----------------------------------------------------------------------------
(* Counts and handles.                                                     *)

\* No object is on a list twice.
Single(s) == \A i, j \in 1..Len(s) : s[i] = s[j] => i = j

LEMMA NoneListed == InSeq(<<>>) = {} /\ Single(<<>>)
BY DEF InSeq, Single

\* An object that is put on a list, at either end.
LEMMA Listed ==
    ASSUME NEW s \in Seq(Object), NEW o \in Object, Single(s), o \notin InSeq(s)
    PROVE  /\ InSeq(Append(s, o)) = InSeq(s) \cup {o} /\ Single(Append(s, o))
           /\ InSeq(<<o>> \o s) = InSeq(s) \cup {o} /\ Single(<<o>> \o s)
<1>1. Len(s) \in Nat /\ \A i \in 1..Len(s) : s[i] # o
  BY DEF InSeq
<1>2. InSeq(Append(s, o)) = InSeq(s) \cup {o} /\ Single(Append(s, o))
  <2> DEFINE r == Append(s, o)
  <2>1. /\ Len(r) = Len(s) + 1
        /\ \A i \in 1..Len(r) : r[i] = IF i <= Len(s) THEN s[i] ELSE o
    OBVIOUS
  <2> HIDE DEF r
  <2>2. r[Len(s) + 1] = o /\ Len(s) + 1 \in 1..Len(r)
    BY <1>1, <2>1
  <2>3. \A i \in 1..Len(s) : i \in 1..Len(r) /\ r[i] = s[i]
    BY <1>1, <2>1
  <2>4. \A i \in 1..Len(r) : \/ i \in 1..Len(s) /\ r[i] = s[i]
                             \/ i = Len(s) + 1 /\ r[i] = o
    <3> SUFFICES ASSUME NEW i \in 1..Len(r)
                 PROVE  \/ i \in 1..Len(s) /\ r[i] = s[i]
                        \/ i = Len(s) + 1 /\ r[i] = o
      OBVIOUS
    <3>1. i \in 1..Len(s) \/ i = Len(s) + 1
      BY <1>1, <2>1
    <3>2. i \in 1..Len(s) => i <= Len(s)
      BY <1>1
    <3>3. ~(Len(s) + 1 <= Len(s))
      BY <1>1
    <3> QED BY <2>1, <3>1, <3>2, <3>3
  <2>5. InSeq(r) = InSeq(s) \cup {o}
    BY <2>2, <2>3, <2>4 DEF InSeq
  <2>6. Single(r)
    BY <1>1, <2>4 DEF Single
  <2> QED BY <2>5, <2>6 DEF r
<1>3. InSeq(<<o>> \o s) = InSeq(s) \cup {o} /\ Single(<<o>> \o s)
  <2> DEFINE r == <<o>> \o s
  <2>1. /\ Len(r) = Len(s) + 1
        /\ \A i \in 1..Len(r) : r[i] = IF i <= 1 THEN o ELSE s[i - 1]
    OBVIOUS
  <2> HIDE DEF r
  <2>2. r[1] = o /\ 1 \in 1..Len(r)
    BY <1>1, <2>1
  <2>3. \A i \in 1..Len(s) : i + 1 \in 1..Len(r) /\ r[i + 1] = s[i]
    <3>1. ASSUME NEW i \in 1..Len(s) PROVE i + 1 \in 1..Len(r) /\ ~(i + 1 <= 1) /\ (i + 1) - 1 = i
      BY <1>1, <2>1
    <3> QED BY <2>1, <3>1
  <2>4. \A i \in 1..Len(r) : \/ i - 1 \in 1..Len(s) /\ r[i] = s[i - 1]
                             \/ i = 1 /\ r[i] = o
    <3> SUFFICES ASSUME NEW i \in 1..Len(r)
                 PROVE  \/ i - 1 \in 1..Len(s) /\ r[i] = s[i - 1]
                        \/ i = 1 /\ r[i] = o
      OBVIOUS
    <3>1. i = 1 \/ (i - 1 \in 1..Len(s) /\ ~(i <= 1))
      BY <1>1, <2>1
    <3> QED BY <2>1, <3>1
  <2>5. InSeq(r) = InSeq(s) \cup {o}
    BY <2>2, <2>3, <2>4 DEF InSeq
  <2>6. ASSUME NEW i \in 1..Len(r), NEW j \in 1..Len(r), r[i] = r[j]
        PROVE  i = j
    <3>1. CASE i - 1 \in 1..Len(s) /\ j - 1 \in 1..Len(s) /\ r[i] = s[i - 1] /\ r[j] = s[j - 1]
      <4>1. i - 1 = j - 1
        BY <2>6, <3>1 DEF Single
      <4> QED BY <4>1
    <3> QED BY <1>1, <2>4, <2>6, <3>1
  <2>7. Single(r)
    BY <2>6 DEF Single
  <2> QED BY <2>5, <2>7 DEF r
<1> QED BY <1>2, <1>3

\* The first object leaves its list.
LEMMA Unlisted ==
    ASSUME NEW s \in Seq(Object), s # <<>>, Single(s)
    PROVE  /\ InSeq(Tail(s)) = InSeq(s) \ {Head(s)} /\ Single(Tail(s))
           /\ Head(s) \in InSeq(s)
<1> DEFINE r == Tail(s)
<1>1. /\ Len(s) \in Nat /\ Len(s) > 0 /\ Len(r) = Len(s) - 1
      /\ \A i \in 1..Len(r) : r[i] = s[i + 1]
      /\ Head(s) = s[1]
  OBVIOUS
<1> HIDE DEF r
<1>2. \A i \in 1..Len(r) : i + 1 \in 1..Len(s) /\ i + 1 # 1 /\ r[i] = s[i + 1]
  BY <1>1
<1>3. \A i \in 1..Len(s) : i # 1 => i - 1 \in 1..Len(r) /\ r[i - 1] = s[i]
  <2>1. ASSUME NEW i \in 1..Len(s), i # 1
        PROVE  i - 1 \in 1..Len(r) /\ (i - 1) + 1 = i
    BY <1>1, <2>1
  <2> QED BY <1>1, <2>1
<1>4. 1 \in 1..Len(s)
  BY <1>1
<1>5. \A i \in 1..Len(s) : s[i] = s[1] => i = 1
  BY <1>4 DEF Single
<1>6. InSeq(r) = InSeq(s) \ {s[1]}
  BY <1>2, <1>3, <1>5 DEF InSeq
<1>7. ASSUME NEW i \in 1..Len(r), NEW j \in 1..Len(r), r[i] = r[j]
      PROVE  i = j
  <2>1. i + 1 = j + 1
    BY <1>2, <1>7 DEF Single
  <2> QED BY <2>1
<1> QED BY <1>1, <1>4, <1>6, <1>7 DEF Single, InSeq, r

\* The lists of one kind: a bucket's, and those in the hands of the gc thread, the n
\* frames of its recursion.  Each object is on one of them at most, and once.
Among(o, B, n, S) ==
    (\E b \in Bucket : o \in InSeq(B[b])) \/ (\E i \in 1..n : o \in InSeq(S[i]))
Apart(B, n, S) ==
    /\ \A b \in Bucket : Single(B[b])
    /\ \A i \in 1..n : Single(S[i])
    /\ \A b, c \in Bucket : \A o : o \in InSeq(B[b]) /\ o \in InSeq(B[c]) => b = c
    /\ \A b \in Bucket : \A i \in 1..n : \A o : ~(o \in InSeq(B[b]) /\ o \in InSeq(S[i]))
    /\ \A i, j \in 1..n : \A o : o \in InSeq(S[i]) /\ o \in InSeq(S[j]) => i = j

\* An object is put on a bucket's list.
LEMMA PutApart ==
    ASSUME NEW B, NEW n, NEW S, Apart(B, n, S), NEW b \in Bucket, NEW o,
           ~Among(o, B, n, S), NEW C, InSeq(C[b]) = InSeq(B[b]) \cup {o}, Single(C[b]),
           \A c \in Bucket : c # b => C[c] = B[c]
    PROVE  /\ Apart(C, n, S)
           /\ \A x : Among(x, C, n, S) <=> Among(x, B, n, S) \/ x = o
BY DEF Apart, Among

\* gc() takes a bucket's list.
LEMMA TakenApart ==
    ASSUME NEW B, NEW n \in Nat, NEW S, Apart(B, n, S), NEW b \in Bucket,
           NEW C, \A c \in Bucket : C[c] = IF c = b THEN <<>> ELSE B[c],
           NEW T, T[1] = B[b], \A i \in 1..n : T[i + 1] = S[i]
    PROVE  /\ Apart(C, n + 1, T)
           /\ \A x : Among(x, C, n + 1, T) <=> Among(x, B, n, S)
<1>1. /\ \A i \in 1..(n + 1) : \/ i = 1 /\ T[i] = B[b]
                               \/ i - 1 \in 1..n /\ T[i] = S[i - 1]
      /\ 1 \in 1..(n + 1)
      /\ \A i \in 1..n : i + 1 \in 1..(n + 1)
  <2>1. ASSUME NEW i \in 1..(n + 1), i # 1 PROVE i - 1 \in 1..n /\ (i - 1) + 1 = i
    BY <2>1
  <2>2. ASSUME NEW i \in 1..(n + 1)
        PROVE  (i = 1 /\ T[i] = B[b]) \/ (i - 1 \in 1..n /\ T[i] = S[i - 1])
    <3>1. CASE i # 1
      <4>1. T[(i - 1) + 1] = S[i - 1] /\ (i - 1) + 1 = i
        BY <2>1, <3>1
      <4> QED BY <2>1, <3>1, <4>1
    <3> QED BY <3>1
  <2>3. 1 \in 1..(n + 1) /\ \A i \in 1..n : i + 1 \in 1..(n + 1)
    OBVIOUS
  <2> QED BY <2>2, <2>3
<1>2. \A c \in Bucket : /\ Single(C[c])
                        /\ \A o : o \in InSeq(C[c]) <=> o \in InSeq(B[c]) /\ c # b
  BY NoneListed DEF Apart
<1>3. \A i \in 1..(n + 1) : Single(T[i])
  BY <1>1 DEF Apart
<1>4. ASSUME NEW i \in 1..(n + 1), NEW j \in 1..(n + 1), NEW o,
             o \in InSeq(T[i]), o \in InSeq(T[j])
      PROVE  i = j
  <2>1. CASE i # 1 /\ j # 1
    <3>1. i - 1 = j - 1
      BY <1>1, <1>4, <2>1 DEF Apart
    <3> QED BY <3>1
  <2> QED BY <1>1, <1>4, <2>1 DEF Apart
<1>5. \A c \in Bucket : \A i \in 1..(n + 1) : \A o : ~(o \in InSeq(C[c]) /\ o \in InSeq(T[i]))
  <2> SUFFICES ASSUME NEW c \in Bucket, NEW i \in 1..(n + 1), NEW o,
                      o \in InSeq(C[c]), o \in InSeq(T[i])
               PROVE  FALSE
    OBVIOUS
  <2>1. o \in InSeq(B[c]) /\ c # b
    BY <1>2
  <2>2. CASE T[i] = B[b]
    BY <2>1, <2>2 DEF Apart
  <2>3. CASE i - 1 \in 1..n /\ T[i] = S[i - 1]
    BY <2>1, <2>3 DEF Apart
  <2> QED BY <1>1, <2>2, <2>3
<1>6. Apart(C, n + 1, T)
  <2>1. \A c, d \in Bucket : \A o : o \in InSeq(C[c]) /\ o \in InSeq(C[d]) => c = d
    BY <1>2 DEF Apart
  <2> QED BY <1>2, <1>3, <1>4, <1>5, <2>1 DEF Apart
<1>7. ASSUME NEW x PROVE Among(x, C, n + 1, T) <=> Among(x, B, n, S)
  <2>1. ASSUME Among(x, C, n + 1, T) PROVE Among(x, B, n, S)
    BY <1>1, <1>2, <2>1 DEF Among
  <2>2. ASSUME Among(x, B, n, S) PROVE Among(x, C, n + 1, T)
    <3>1. CASE x \in InSeq(B[b])
      BY <1>1, <3>1 DEF Among
    <3>2. CASE \E c \in Bucket \ {b} : x \in InSeq(B[c])
      BY <1>2, <3>2 DEF Among
    <3>3. CASE \E i \in 1..n : x \in InSeq(S[i])
      BY <1>1, <3>3 DEF Among
    <3> QED BY <2>2, <3>1, <3>2, <3>3 DEF Among
  <2> QED BY <2>1, <2>2
<1> QED BY <1>6, <1>7

\* It is done with the first object of its top frame.
Shortened(T, n, S, h) ==
    /\ n \in Nat \ {0} /\ S[1] \in Seq(Object) /\ S[1] # <<>> /\ h = Head(S[1])
    /\ T[1] = Tail(S[1]) /\ \A i \in 1..n : i # 1 => T[i] = S[i]

Without(B, n, S, T, h) ==
    /\ Apart(B, n, T) /\ Among(h, B, n, S)
    /\ \A x : Among(x, B, n, T) <=> Among(x, B, n, S) /\ x # h

LEMMA DoneApart ==
    ASSUME NEW B, NEW n, NEW S, NEW h, NEW T, Apart(B, n, S), Shortened(T, n, S, h)
    PROVE  Without(B, n, S, T, h)
<1>1. n \in Nat \ {0} /\ 1 \in 1..n /\ Single(S[1])
  BY DEF Apart, Shortened
<1>2. /\ \A x : x \in InSeq(T[1]) <=> x \in InSeq(S[1]) /\ x # h
      /\ Single(T[1]) /\ h \in InSeq(S[1])
  <2>1. /\ InSeq(Tail(S[1])) = InSeq(S[1]) \ {h} /\ Single(Tail(S[1]))
        /\ h \in InSeq(S[1])
    BY <1>1, Unlisted DEF Shortened
  <2> QED BY <2>1 DEF Shortened
<1>3. \A i \in 1..n : /\ Single(T[i])
                      /\ \A x : x \in InSeq(T[i]) <=> x \in InSeq(S[i]) /\ x # h
  <2> SUFFICES ASSUME NEW i \in 1..n
               PROVE  /\ Single(T[i])
                      /\ \A x : x \in InSeq(T[i]) <=> x \in InSeq(S[i]) /\ x # h
    OBVIOUS
  <2>1. CASE i = 1
    BY <1>2, <2>1
  <2>2. CASE i # 1
    <3>1. T[i] = S[i] /\ h \notin InSeq(S[i])
      BY <1>1, <1>2, <2>2 DEF Apart, Shortened
    <3> QED BY <3>1 DEF Apart
  <2> QED BY <2>1, <2>2
<1>4. \A b \in Bucket : h \notin InSeq(B[b])
  BY <1>1, <1>2 DEF Apart
<1>5. Apart(B, n, T)
  BY <1>3 DEF Apart
<1>6. Among(h, B, n, S)
  BY <1>1, <1>2 DEF Among
<1>7. \A x : Among(x, B, n, T) <=> Among(x, B, n, S) /\ x # h
  BY <1>3, <1>4 DEF Among
<1> QED BY <1>5, <1>6, <1>7 DEF Without

\* It leaves a bucket it has emptied.
LEMMA LeftApart ==
    ASSUME NEW B, NEW n \in Nat \ {0}, NEW S, Apart(B, n, S), S[1] = <<>>,
           NEW T, \A i \in 1..(n - 1) : T[i] = S[i + 1]
    PROVE  /\ Apart(B, n - 1, T)
           /\ \A x : Among(x, B, n - 1, T) <=> Among(x, B, n, S)
<1>1. /\ \A i \in 1..(n - 1) : i + 1 \in 1..n /\ T[i] = S[i + 1]
      /\ \A i \in 1..n : i # 1 => i - 1 \in 1..(n - 1) /\ T[i - 1] = S[i]
  <2>1. ASSUME NEW i \in 1..n, i # 1 PROVE i - 1 \in 1..(n - 1) /\ (i - 1) + 1 = i
    BY <2>1
  <2>2. \A i \in 1..(n - 1) : i + 1 \in 1..n
    OBVIOUS
  <2>3. ASSUME NEW i \in 1..n, i # 1 PROVE i - 1 \in 1..(n - 1) /\ T[i - 1] = S[i]
    <3>1. T[i - 1] = S[(i - 1) + 1] /\ (i - 1) + 1 = i
      BY <2>1, <2>3
    <3> QED BY <2>1, <2>3, <3>1
  <2> QED BY <2>2, <2>3
<1>2. InSeq(S[1]) = {}
  BY NoneListed
<1>3. ASSUME NEW i \in 1..(n - 1), NEW j \in 1..(n - 1), NEW o,
             o \in InSeq(T[i]), o \in InSeq(T[j])
      PROVE  i = j
  <2>1. i + 1 = j + 1
    BY <1>1, <1>3 DEF Apart
  <2> QED BY <2>1
<1>4. Apart(B, n - 1, T)
  BY <1>1, <1>3 DEF Apart
<1>5. \A x : Among(x, B, n - 1, T) <=> Among(x, B, n, S)
  BY <1>1, <1>2 DEF Among
<1> QED BY <1>4, <1>5

\* What the gc thread has taken, as lists.
Dels == [i \in 1..Len(stack) |-> stack[i].del]
Evs == [i \in 1..Len(stack) |-> stack[i].ev]
Condemned(o) == Among(o, refList, Len(stack), Dels)
Pending(o) == Among(o, refEvents, Len(stack), Evs)
Lists == Apart(refList, Len(stack), Dels) /\ Apart(refEvents, Len(stack), Evs)

\* What CountsHandles says of one object, and that the watch for the last release is
\* off while the callback is pending, so that an object is called back once.
Counted(o) ==
    /\ Pending(o) => ~Condemned(o) /\ ref[o] > 0 /\ refEvent_num[o] = -1
    /\ Condemned(o) <=> ref[o] = 0
    /\ ref[o] = -1 => Handles(o) = 0
    /\ ref[o] # -1 => ref[o] = Handles(o) + (IF Pending(o) THEN 1 ELSE 0)

CInv == Lists /\ \A o \in Object : Counted(o)

\* Where an object is on a list it is on a bucket's or in the gc thread's hands.
LEMMA OnLists ==
    ASSUME NEW o
    PROVE  (o \in OnDelete <=> Condemned(o)) /\ (o \in OnEvents <=> Pending(o))
<1>1. \A i \in 1..Len(stack) : Dels[i] = stack[i].del /\ Evs[i] = stack[i].ev
  BY DEF Dels, Evs
<1>2. o \in OnDelete <=> \/ \E b \in Bucket : o \in InSeq(refList[b])
                         \/ \E i \in 1..Len(stack) : o \in InSeq(stack[i].del)
  BY DEF OnDelete
<1>3. o \in OnEvents <=> \/ \E b \in Bucket : o \in InSeq(refEvents[b])
                         \/ \E i \in 1..Len(stack) : o \in InSeq(stack[i].ev)
  BY DEF OnEvents
<1> QED BY <1>1, <1>2, <1>3 DEF Condemned, Pending, Among

\* The invariant gives the property.
LEMMA CountedCounts == CInv => CountsHandles
BY OnLists DEF CInv, Counted, CountsHandles

-----------------------------------------------------------------------------
(* The number of handles.                                                  *)

\* Who has a handle of an object.
Holders(o) == {t \in Thread : o \in held[t]}
Owners(o) == {p \in Object : o \in member[p]}

\* Their numbers.
LEMMA HandlesNat ==
    ASSUME NEW o
    PROVE  /\ IsFiniteSet(Holders(o)) /\ IsFiniteSet(Owners(o))
           /\ Cardinality(Holders(o)) \in Nat /\ Cardinality(Owners(o)) \in Nat
           /\ Handles(o) = Cardinality(Holders(o)) + Cardinality(Owners(o))
                             + (IF o \in shed THEN 1 ELSE 0)
           /\ Handles(o) \in Nat
<1>1. IsFiniteSet(Holders(o)) /\ IsFiniteSet(Owners(o))
  <2>1. Holders(o) \in SUBSET Thread /\ Owners(o) \in SUBSET Object
    BY DEF Holders, Owners
  <2> QED BY <2>1, FS_Subset, RefCountAssumption
<1>2. Cardinality(Holders(o)) \in Nat /\ Cardinality(Owners(o)) \in Nat
  BY <1>1, FS_CardinalityType
<1>3. Handles(o) = Cardinality(Holders(o)) + Cardinality(Owners(o))
                     + (IF o \in shed THEN 1 ELSE 0)
  BY DEF Handles, Holders, Owners
<1> QED BY <1>1, <1>2, <1>3

\* The same after a step.
LEMMA HandlesThen ==
    ASSUME NEW o
    PROVE  Handles(o)' = Cardinality(Holders(o)') + Cardinality(Owners(o)')
                           + (IF o \in shed' THEN 1 ELSE 0)
BY DEF Handles, Holders, Owners

\* A handle counts.
LEMMA HandleCounts ==
    ASSUME NEW o
    PROVE  /\ \A t \in Thread : o \in held[t] => Handles(o) > 0
           /\ \A p \in Object : o \in member[p] => Handles(o) > 0
           /\ o \in shed => Handles(o) > 0
<1>1. Holders(o) # {} => Cardinality(Holders(o)) > 0
  BY HandlesNat, FS_EmptySet
<1>2. Owners(o) # {} => Cardinality(Owners(o)) > 0
  BY HandlesNat, FS_EmptySet
<1>3. /\ \A t \in Thread : o \in held[t] => Holders(o) # {}
      /\ \A p \in Object : o \in member[p] => Owners(o) # {}
  BY DEF Holders, Owners
<1>4. /\ Cardinality(Holders(o)) \in Nat /\ Cardinality(Owners(o)) \in Nat
      /\ Handles(o) = Cardinality(Holders(o)) + Cardinality(Owners(o))
                        + (IF o \in shed THEN 1 ELSE 0)
  BY HandlesNat
<1> QED BY <1>1, <1>2, <1>3, <1>4

\* One handle more, or one less.
LEMMA OneMore ==
    ASSUME NEW S, IsFiniteSet(S), NEW x, x \notin S, NEW T, T = S \cup {x}
    PROVE  Cardinality(T) = Cardinality(S) + 1
BY FS_AddElement

LEMMA OneLess ==
    ASSUME NEW S, IsFiniteSet(S), NEW x \in S, NEW T, T = S \ {x}
    PROVE  Cardinality(T) = Cardinality(S) - 1
BY FS_RemoveElement

\* A thread makes a handle, or drops one.
LEMMA HeldMore ==
    ASSUME NEW t \in Thread, NEW o, o \notin held[t],
           \A u \in Thread : held'[u] = IF u = t THEN held[u] \cup {o} ELSE held[u],
           UNCHANGED <<member, shed>>
    PROVE  Handles(o)' = Handles(o) + 1 /\ \A x : x # o => Handles(x)' = Handles(x)
<1>1. Holders(o)' = Holders(o) \cup {t} /\ t \notin Holders(o)
  BY DEF Holders
<1>2. Cardinality(Holders(o)') = Cardinality(Holders(o)) + 1
  BY <1>1, HandlesNat, OneMore
<1>3. \A x : Owners(x)' = Owners(x) /\ (x # o => Holders(x)' = Holders(x))
  BY DEF Holders, Owners
<1>4. Handles(o)' = Handles(o) + 1
  BY <1>2, <1>3, HandlesNat, HandlesThen
<1>5. ASSUME NEW x, x # o PROVE Handles(x)' = Handles(x)
  BY <1>3, <1>5, HandlesNat, HandlesThen
<1> QED BY <1>4, <1>5

LEMMA HeldLess ==
    ASSUME NEW t \in Thread, NEW o, o \in held[t],
           \A u \in Thread : held'[u] = IF u = t THEN held[u] \ {o} ELSE held[u],
           UNCHANGED <<member, shed>>
    PROVE  Handles(o)' = Handles(o) - 1 /\ \A x : x # o => Handles(x)' = Handles(x)
<1>1. Holders(o)' = Holders(o) \ {t} /\ t \in Holders(o)
  BY DEF Holders
<1>2. Cardinality(Holders(o)') = Cardinality(Holders(o)) - 1
  BY <1>1, HandlesNat, OneLess
<1>3. \A x : Owners(x)' = Owners(x) /\ (x # o => Holders(x)' = Holders(x))
  BY DEF Holders, Owners
<1>4. Handles(o)' = Handles(o) - 1
  BY <1>2, <1>3, HandlesNat, HandlesThen
<1>5. ASSUME NEW x, x # o PROVE Handles(x)' = Handles(x)
  BY <1>3, <1>5, HandlesNat, HandlesThen
<1> QED BY <1>4, <1>5

\* An object's member gets a handle, or loses it.
LEMMA MemberMore ==
    ASSUME NEW q \in Object, NEW o, o \notin member[q],
           \A p \in Object : member'[p] = IF p = q THEN member[p] \cup {o} ELSE member[p],
           UNCHANGED <<held, shed>>
    PROVE  Handles(o)' = Handles(o) + 1 /\ \A x : x # o => Handles(x)' = Handles(x)
<1>1. Owners(o)' = Owners(o) \cup {q} /\ q \notin Owners(o)
  BY DEF Owners
<1>2. Cardinality(Owners(o)') = Cardinality(Owners(o)) + 1
  BY <1>1, HandlesNat, OneMore
<1>3. \A x : Holders(x)' = Holders(x) /\ (x # o => Owners(x)' = Owners(x))
  BY DEF Holders, Owners
<1>4. Handles(o)' = Handles(o) + 1
  BY <1>2, <1>3, HandlesNat, HandlesThen
<1>5. ASSUME NEW x, x # o PROVE Handles(x)' = Handles(x)
  BY <1>3, <1>5, HandlesNat, HandlesThen
<1> QED BY <1>4, <1>5

LEMMA MemberLess ==
    ASSUME NEW q \in Object, NEW o, o \in member[q],
           \A p \in Object : member'[p] = IF p = q THEN member[p] \ {o} ELSE member[p],
           UNCHANGED <<held, shed>>
    PROVE  Handles(o)' = Handles(o) - 1 /\ \A x : x # o => Handles(x)' = Handles(x)
<1>1. Owners(o)' = Owners(o) \ {q} /\ q \in Owners(o)
  BY DEF Owners
<1>2. Cardinality(Owners(o)') = Cardinality(Owners(o)) - 1
  BY <1>1, HandlesNat, OneLess
<1>3. \A x : Holders(x)' = Holders(x) /\ (x # o => Owners(x)' = Owners(x))
  BY DEF Holders, Owners
<1>4. Handles(o)' = Handles(o) - 1
  BY <1>2, <1>3, HandlesNat, HandlesThen
<1>5. ASSUME NEW x, x # o PROVE Handles(x)' = Handles(x)
  BY <1>3, <1>5, HandlesNat, HandlesThen
<1> QED BY <1>4, <1>5

\* A destructor takes over the handles of the members, and releases them.
LEMMA ShedLess ==
    ASSUME NEW o, o \in shed, shed' = shed \ {o}, UNCHANGED <<held, member>>
    PROVE  Handles(o)' = Handles(o) - 1 /\ \A x : x # o => Handles(x)' = Handles(x)
<1>1. \A x : Holders(x)' = Holders(x) /\ Owners(x)' = Owners(x)
  BY DEF Holders, Owners
<1>2. o \notin shed' /\ \A x : x # o => (x \in shed' <=> x \in shed)
  OBVIOUS
<1>3. Handles(o)' = Handles(o) - 1
  BY <1>1, <1>2, HandlesNat, HandlesThen
<1>4. ASSUME NEW x, x # o PROVE Handles(x)' = Handles(x)
  BY <1>1, <1>2, <1>4, HandlesNat, HandlesThen
<1> QED BY <1>3, <1>4

LEMMA ShedAll ==
    ASSUME NEW q \in Object, shed = {}, shed' = member[q],
           \A p \in Object : member'[p] = IF p = q THEN {} ELSE member[p],
           UNCHANGED held
    PROVE  \A x : Handles(x)' = Handles(x)
<1> SUFFICES ASSUME NEW x PROVE Handles(x)' = Handles(x)
  OBVIOUS
<1>1. Holders(x)' = Holders(x)
  BY DEF Holders
<1>2. CASE x \in member[q]
  <2>1. Owners(x)' = Owners(x) \ {q} /\ q \in Owners(x)
    BY <1>2 DEF Owners
  <2>2. Cardinality(Owners(x)') = Cardinality(Owners(x)) - 1
    BY <2>1, HandlesNat, OneLess
  <2> QED BY <1>1, <1>2, <2>2, HandlesNat, HandlesThen
<1>3. CASE x \notin member[q]
  <2>1. Owners(x)' = Owners(x)
    BY <1>3 DEF Owners
  <2> QED BY <1>1, <1>3, <2>1, HandlesNat, HandlesThen
<1> QED BY <1>2, <1>3

-----------------------------------------------------------------------------
(* Releases.                                                               *)

\* The same of the next state.
LEMMA ListsThen ==
    /\ Lists' <=> /\ Apart(refList', Len(stack'), Dels')
                  /\ Apart(refEvents', Len(stack'), Evs')
    /\ \A x : Condemned(x)' <=> Among(x, refList', Len(stack'), Dels')
    /\ \A x : Pending(x)' <=> Among(x, refEvents', Len(stack'), Evs')
BY DEF Lists, Condemned, Pending, Apart, Among

\* x has h handles, is d condemned and p pending, and has e releases still to come.
Owes(x, h, d, p, e) ==
    /\ p => ~d /\ ref[x] > 0 /\ refEvent_num[x] = -1
    /\ d <=> ref[x] = 0
    /\ ref[x] = -1 => h = 0
    /\ ref[x] # -1 => ref[x] = h + (IF p THEN 1 ELSE 0) + e

\* What is to be shown of an object after a step.
LEMMA CountedThen ==
    ASSUME NEW x, Handles(x)' \in Nat,
           NEW d, d <=> Among(x, refList', Len(stack'), Dels'),
           NEW p, p <=> Among(x, refEvents', Len(stack'), Evs'),
           p => ~d /\ ref'[x] > 0 /\ refEvent_num'[x] = -1,
           d <=> ref'[x] = 0,
           ref'[x] = -1 => Handles(x)' = 0,
           ref'[x] # -1 => ref'[x] = Handles(x)' + (IF p THEN 1 ELSE 0)
    PROVE  Counted(x)'
<1>1. (Condemned(x)' <=> d) /\ (Pending(x)' <=> p)
  BY ListsThen
<1>2. /\ Pending(x)' => ~Condemned(x)' /\ ref'[x] > 0 /\ refEvent_num'[x] = -1
      /\ Condemned(x)' <=> ref'[x] = 0
      /\ ref'[x] = -1 => Handles(x)' = 0
      /\ ref'[x] # -1 => ref'[x] = Handles(x)' + (IF Pending(x)' THEN 1 ELSE 0)
  BY <1>1
<1> QED BY <1>2 DEF Counted

\* A step that leaves the counts, the lists and the handles alone.
LEMMA SameCounts ==
    ASSUME CInv, UNCHANGED <<ref, refEvent_num, refList, refEvents, stack>>,
           \A x : Handles(x)' = Handles(x)
    PROVE  CInv'
<1>1. Dels' = Dels /\ Evs' = Evs
  BY DEF Dels, Evs
<1>2. Lists'
  BY <1>1, ListsThen DEF CInv, Lists
<1>3. ASSUME NEW x \in Object PROVE Counted(x)'
  <2>1. (Condemned(x)' <=> Condemned(x)) /\ (Pending(x)' <=> Pending(x))
    BY <1>1, ListsThen DEF Condemned, Pending
  <2>2. Counted(x)
    BY DEF CInv
  <2> QED BY <2>1, <2>2 DEF Counted
<1> QED BY <1>2, <1>3 DEF CInv

LEMMA SameHandles ==
    ASSUME UNCHANGED handles
    PROVE  \A x : Handles(x)' = Handles(x)
BY DEF handles, Handles

\* A release takes away the count that was owed, or keeps it for the callback.
LEMMA ReleaseCounts ==
    ASSUME TypeOK, NEW a \in Actor, NEW o \in Object, RelRef(o, a), ref[o] # -1,
           NEW n, n = Len(stack'), NEW D, D = Dels', NEW E, E = Evs',
           Apart(refList, n, D), Apart(refEvents, n, E),
           \A x \in Object :
              /\ Handles(x)' \in Nat
              /\ Owes(x, Handles(x)', Among(x, refList, n, D), Among(x, refEvents, n, E),
                      IF x = o THEN 1 ELSE 0)
    PROVE  CInv'
<1>1. /\ Home[o] \in Bucket
      /\ refList \in [Bucket -> Seq(Object)] /\ refEvents \in [Bucket -> Seq(Object)]
      /\ ref \in [Object -> Nat \cup {-1}] /\ refEvent_num \in [Object -> {0, -1}]
  BY RefCountAssumption DEF Bucket, TypeOK
<1>2. ref[o] \in Nat /\ refEvent_num[o] \in {0, -1}
  BY <1>1
<1>3. /\ Handles(o)' \in Nat
      /\ Owes(o, Handles(o)', Among(o, refList, n, D), Among(o, refEvents, n, E), 1)
  OBVIOUS
<1>4. \A x \in Object : x # o =>
         /\ Handles(x)' \in Nat
         /\ Owes(x, Handles(x)', Among(x, refList, n, D), Among(x, refEvents, n, E), 0)
  OBVIOUS
<1>5. /\ ref[o] = Handles(o)' + (IF Among(o, refEvents, n, E) THEN 1 ELSE 0) + 1
      /\ ~Among(o, refList, n, D)
      /\ Among(o, refEvents, n, E) => refEvent_num[o] = -1
  BY <1>2, <1>3 DEF Owes
<1>7. CASE ref[o] <= refEvent_num[o] + 1
  <2>1. /\ refEvent_num' = [refEvent_num EXCEPT ![o] = -1]
        /\ refEvents' = [refEvents EXCEPT ![Home[o]] = Append(@, o)]
        /\ UNCHANGED <<ref, refList>>
    BY <1>7 DEF RelRef
  <2>2. ref[o] = 1 /\ Handles(o)' = 0 /\ ~Among(o, refEvents, n, E)
    BY <1>2, <1>3, <1>5, <1>7
  <2>3. /\ Apart(refEvents', n, E)
        /\ \A x : Among(x, refEvents', n, E) <=> Among(x, refEvents, n, E) \/ x = o
    <3> DEFINE q == refEvents[Home[o]]
               r == Append(q, o)
    <3>1. q \in Seq(Object) /\ Single(q) /\ o \notin InSeq(q)
      BY <1>1, <2>2 DEF Apart, Among
    <3>2. InSeq(r) = InSeq(q) \cup {o} /\ Single(r)
      BY <3>1, Listed
    <3>3. refEvents'[Home[o]] = r /\ \A c \in Bucket : c # Home[o] => refEvents'[c] = refEvents[c]
      BY <1>1, <2>1
    <3>4. /\ InSeq(refEvents'[Home[o]]) = InSeq(refEvents[Home[o]]) \cup {o}
          /\ Single(refEvents'[Home[o]])
      BY <3>2, <3>3
    <3>5. ASSUME NEW B, B = refEvents, NEW C, C = refEvents', NEW b \in Bucket, b = Home[o]
          PROVE  /\ Apart(C, n, E)
                 /\ \A x : Among(x, C, n, E) <=> Among(x, B, n, E) \/ x = o
      <4>1. /\ Apart(B, n, E) /\ ~Among(o, B, n, E)
            /\ InSeq(C[b]) = InSeq(B[b]) \cup {o} /\ Single(C[b])
            /\ \A c \in Bucket : c # b => C[c] = B[c]
        BY <2>2, <3>3, <3>4, <3>5
      <4> QED BY <4>1, PutApart
    <3> QED BY <1>1, <3>5
  <2>4. ASSUME NEW x \in Object PROVE Counted(x)'
    <3> DEFINE d == Among(x, refList, n, D)
               p == Among(x, refEvents, n, E)
    <3>1. /\ d <=> Among(x, refList', Len(stack'), Dels')
          /\ (p \/ x = o) <=> Among(x, refEvents', Len(stack'), Evs')
      BY <2>1, <2>3
    <3>2. /\ ref'[x] = ref[x]
          /\ refEvent_num'[x] = IF x = o THEN -1 ELSE refEvent_num[x]
      BY <1>1, <2>1
    <3> HIDE DEF d, p
    <3>3. CASE x = o
      BY <1>3, <1>5, <2>2, <3>1, <3>2, <3>3, CountedThen DEF Owes, d, p
    <3>4. CASE x # o
      <4>1. Handles(x)' \in Nat /\ Owes(x, Handles(x)', d, p, 0)
        BY <1>4, <3>4 DEF d, p
      <4> QED BY <3>1, <3>2, <3>4, <4>1, CountedThen DEF Owes
    <3> QED BY <3>3, <3>4
  <2>5. Lists'
    BY <2>1, <2>3, ListsThen
  <2> QED BY <2>4, <2>5 DEF CInv
<1>8. CASE ~(ref[o] <= refEvent_num[o] + 1)
  <2>1. ref' = [ref EXCEPT ![o] = @ - 1] /\ UNCHANGED <<refEvent_num, refEvents>>
    BY <1>8 DEF RelRef
  <2>2. \A x \in Object : ref'[x] = IF x = o THEN ref[o] - 1 ELSE ref[x]
    BY <1>1, <2>1
  <2>3. CASE ref[o] > 1
    <3>1. UNCHANGED refList
      BY <1>8, <2>3 DEF RelRef
    <3>2. ASSUME NEW x \in Object PROVE Counted(x)'
      <4> DEFINE d == Among(x, refList, n, D)
                 p == Among(x, refEvents, n, E)
      <4>1. /\ d <=> Among(x, refList', Len(stack'), Dels')
            /\ p <=> Among(x, refEvents', Len(stack'), Evs')
            /\ refEvent_num'[x] = refEvent_num[x]
        BY <2>1, <3>1
      <4>2. CASE x = o
        BY <1>2, <1>3, <1>5, <2>2, <2>3, <4>1, <4>2, CountedThen
      <4>3. CASE x # o
        <5> HIDE DEF d, p
        <5>1. Handles(x)' \in Nat /\ Owes(x, Handles(x)', d, p, 0)
          BY <1>4, <4>3 DEF d, p
        <5> QED BY <2>2, <4>1, <4>3, <5>1, CountedThen DEF Owes
      <4> QED BY <4>2, <4>3
    <3>3. Lists'
      BY <2>1, <3>1, ListsThen
    <3> QED BY <3>2, <3>3 DEF CInv
  <2>4. CASE ~(ref[o] > 1)
    <3>1. refList' = [refList EXCEPT ![Home[o]] = <<o>> \o @]
      BY <1>8, <2>4 DEF RelRef
    <3>2. ref[o] = 1 /\ Handles(o)' = 0 /\ ~Among(o, refEvents, n, E)
      BY <1>2, <1>3, <1>5, <2>4
    <3>3. /\ Apart(refList', n, D)
          /\ \A x : Among(x, refList', n, D) <=> Among(x, refList, n, D) \/ x = o
      <4> DEFINE q == refList[Home[o]]
                 r == <<o>> \o q
      <4>1. q \in Seq(Object) /\ Single(q) /\ o \notin InSeq(q)
        BY <1>1, <1>5 DEF Apart, Among
      <4>2. InSeq(r) = InSeq(q) \cup {o} /\ Single(r)
        BY <4>1, Listed
      <4>3. refList'[Home[o]] = r /\ \A c \in Bucket : c # Home[o] => refList'[c] = refList[c]
        BY <1>1, <3>1
      <4>4. /\ InSeq(refList'[Home[o]]) = InSeq(refList[Home[o]]) \cup {o}
            /\ Single(refList'[Home[o]])
        BY <4>2, <4>3
      <4>5. ASSUME NEW B, B = refList, NEW C, C = refList', NEW b \in Bucket, b = Home[o]
            PROVE  /\ Apart(C, n, D)
                   /\ \A x : Among(x, C, n, D) <=> Among(x, B, n, D) \/ x = o
        <5>1. /\ Apart(B, n, D) /\ ~Among(o, B, n, D)
              /\ InSeq(C[b]) = InSeq(B[b]) \cup {o} /\ Single(C[b])
              /\ \A c \in Bucket : c # b => C[c] = B[c]
          BY <1>5, <4>3, <4>4, <4>5
        <5> QED BY <5>1, PutApart
      <4> QED BY <1>1, <4>5
    <3>4. ASSUME NEW x \in Object PROVE Counted(x)'
      <4> DEFINE d == Among(x, refList, n, D)
                 p == Among(x, refEvents, n, E)
      <4>1. /\ (d \/ x = o) <=> Among(x, refList', Len(stack'), Dels')
            /\ p <=> Among(x, refEvents', Len(stack'), Evs')
            /\ refEvent_num'[x] = refEvent_num[x]
        BY <2>1, <3>3
      <4> HIDE DEF d, p
      <4>2. CASE x = o
        BY <2>2, <3>2, <4>1, <4>2, CountedThen DEF d, p
      <4>3. CASE x # o
        <5>1. Handles(x)' \in Nat /\ Owes(x, Handles(x)', d, p, 0)
          BY <1>4, <4>3 DEF d, p
        <5> QED BY <2>2, <4>1, <4>3, <5>1, CountedThen DEF Owes
      <4> QED BY <4>2, <4>3
    <3>5. Lists'
      BY <2>1, <3>3, ListsThen
    <3> QED BY <3>4, <3>5 DEF CInv
  <2> QED BY <2>3, <2>4
<1> QED BY <1>7, <1>8

-----------------------------------------------------------------------------
(* Handles made and dropped.                                               *)

\* A handle made while the object is counted.
LEMMA MoreCounts ==
    ASSUME TypeOK, CInv, NEW o \in Object, AddRef(o), ref[o] > 0,
           UNCHANGED <<refEvent_num, refList, refEvents, stack>>,
           Handles(o)' = Handles(o) + 1, \A x : x # o => Handles(x)' = Handles(x)
    PROVE  CInv'
<1>1. Dels' = Dels /\ Evs' = Evs
  BY DEF Dels, Evs
<1>2. Lists'
  BY <1>1, ListsThen DEF CInv, Lists
<1>3. ref \in [Object -> Nat \cup {-1}]
  BY DEF TypeOK
<1>4. \A x \in Object : ref'[x] = IF x = o THEN ref[o] + 1 ELSE ref[x]
  BY <1>3 DEF AddRef
<1>5. ASSUME NEW x \in Object PROVE Counted(x)'
  <2>1. (Condemned(x)' <=> Condemned(x)) /\ (Pending(x)' <=> Pending(x))
    BY <1>1, ListsThen DEF Condemned, Pending
  <2>2. Counted(x)
    BY DEF CInv
  <2>3. Handles(x) \in Nat /\ ref[x] \in Nat \cup {-1}
    BY <1>3, HandlesNat
  <2>4. CASE x = o
    BY <1>4, <2>1, <2>2, <2>3, <2>4 DEF Counted
  <2>5. CASE x # o
    BY <1>4, <2>1, <2>2, <2>5 DEF Counted
  <2> QED BY <2>4, <2>5
<1> QED BY <1>2, <1>5 DEF CInv

\* A handle that is dropped.
LEMMA LessCounts ==
    ASSUME TypeOK, CInv, NEW o \in Object, NEW a \in Actor, RelRef(o, a), UNCHANGED stack,
           Handles(o) > 0,
           Handles(o)' = Handles(o) - 1, \A x : x # o => Handles(x)' = Handles(x)
    PROVE  CInv'
<1>1. Dels' = Dels /\ Evs' = Evs
  BY DEF Dels, Evs
<1>2. ref \in [Object -> Nat \cup {-1}]
  BY DEF TypeOK
<1>3. ref[o] # -1
  BY DEF CInv, Counted
<1>4. ASSUME NEW n, n = Len(stack), NEW D, D = Dels, NEW E, E = Evs, NEW x \in Object
      PROVE  /\ Handles(x)' \in Nat
             /\ Owes(x, Handles(x)', Among(x, refList, n, D), Among(x, refEvents, n, E),
                     IF x = o THEN 1 ELSE 0)
  <2> DEFINE d == Among(x, refList, n, D)
             p == Among(x, refEvents, n, E)
  <2>1. (d <=> Condemned(x)) /\ (p <=> Pending(x))
    BY <1>4 DEF Condemned, Pending
  <2> HIDE DEF d, p
  <2>2. Counted(x) /\ Handles(x) \in Nat /\ ref[x] \in Nat \cup {-1}
    BY <1>2, HandlesNat DEF CInv
  <2>3. CASE x = o
    <3>1. Handles(x)' \in Nat /\ Handles(x)' = Handles(x) - 1
      BY <2>2, <2>3
    <3> QED BY <1>3, <2>1, <2>2, <2>3, <3>1 DEF Counted, Owes, d, p
  <2>4. CASE x # o
    <3>1. Handles(x)' \in Nat /\ Handles(x)' = Handles(x)
      BY <2>2, <2>4
    <3> QED BY <2>1, <2>2, <2>4, <3>1 DEF Counted, Owes, d, p
  <2> QED BY <2>3, <2>4
<1>5. ASSUME NEW n, n = Len(stack), NEW D, D = Dels, NEW E, E = Evs
      PROVE  CInv'
  <2>1. Apart(refList, n, D) /\ Apart(refEvents, n, E)
    BY <1>5 DEF CInv, Lists
  <2>2. n = Len(stack') /\ D = Dels' /\ E = Evs'
    BY <1>1, <1>5
  <2> QED BY <1>3, <1>4, <1>5, <2>1, <2>2, ReleaseCounts
<1> QED BY <1>5

\* A counted object is not deleted, nor condemned.
LEMMA HandleKeeps ==
    ASSUME TypeOK, CInv, NEW o \in Object, Handles(o) > 0 \/ o \in OnEvents
    PROVE  ref[o] > 0
<1>1. Counted(o) /\ Handles(o) \in Nat /\ ref[o] \in Nat \cup {-1}
  BY HandlesNat DEF CInv, TypeOK
<1>2. o \in OnEvents => Pending(o)
  BY OnLists
<1> QED BY <1>1, <1>2 DEF Counted

\* Threads copy, make, store and drop handles, and take the watch off.
LEMMA ProgramCounts ==
    ASSUME TInv, CInv, NEW t \in Thread, NEW o \in Object, NEW p \in Object,
           \/ Copy(t, o) \/ Mint(t, o) \/ Drop(t, o) \/ Disarm(t, o)
           \/ Store(t, o, p) \/ Clear(t, o, p)
    PROVE  CInv'
<1>1. TypeOK /\ t \in Actor
  BY DEF TInv, Actor
<1>2. held \in [Thread -> SUBSET Object] /\ member \in [Object -> SUBSET Object]
  BY <1>1 DEF TypeOK
<1>3. CASE Copy(t, o) \/ Mint(t, o)
  <2>1. Acquire(t, o) /\ (Handles(o) > 0 \/ o \in OnEvents)
    BY <1>3, <1>2, HandleCounts DEF Copy, Mint
  <2>2. ref[o] > 0
    BY <1>1, <2>1, HandleKeeps
  <2>3. /\ AddRef(o) /\ o \notin held[t]
        /\ held' = [held EXCEPT ![t] = @ \cup {o}]
        /\ UNCHANGED <<refEvent_num, refList, refEvents, stack, member, shed>>
    BY <2>1 DEF Acquire, gcVars
  <2>4. \A u \in Thread : held'[u] = IF u = t THEN held[u] \cup {o} ELSE held[u]
    BY <1>2, <2>3
  <2>5. Handles(o)' = Handles(o) + 1 /\ \A x : x # o => Handles(x)' = Handles(x)
    BY <2>3, <2>4, HeldMore
  <2> QED BY <1>1, <2>2, <2>3, <2>5, MoreCounts
<1>4. CASE Store(t, o, p)
  <2>1. /\ AddRef(p) /\ p \notin member[o] /\ p \in held[t]
        /\ member' = [member EXCEPT ![o] = @ \cup {p}]
        /\ UNCHANGED <<refEvent_num, refList, refEvents, stack, held, shed>>
    BY <1>4 DEF Store, gcVars
  <2>2. ref[p] > 0
    BY <1>1, <2>1, HandleCounts, HandleKeeps
  <2>3. \A q \in Object : member'[q] = IF q = o THEN member[q] \cup {p} ELSE member[q]
    BY <1>2, <2>1
  <2>4. Handles(p)' = Handles(p) + 1 /\ \A x : x # p => Handles(x)' = Handles(x)
    BY <2>1, <2>3, MemberMore
  <2> QED BY <1>1, <2>1, <2>2, <2>4, MoreCounts
<1>5. CASE Drop(t, o)
  <2>1. /\ o \in held[t] /\ RelRef(o, t)
        /\ held' = [held EXCEPT ![t] = @ \ {o}]
        /\ UNCHANGED <<stack, member, shed>>
    BY <1>5 DEF Drop, gcVars
  <2>2. \A u \in Thread : held'[u] = IF u = t THEN held[u] \ {o} ELSE held[u]
    BY <1>2, <2>1
  <2>3. /\ Handles(o) > 0 /\ Handles(o)' = Handles(o) - 1
        /\ \A x : x # o => Handles(x)' = Handles(x)
    BY <2>1, <2>2, HeldLess, HandleCounts
  <2> QED BY <1>1, <2>1, <2>3, LessCounts
<1>6. CASE Clear(t, o, p)
  <2>1. /\ p \in member[o] /\ RelRef(p, t)
        /\ member' = [member EXCEPT ![o] = @ \ {p}]
        /\ UNCHANGED <<stack, held, shed>>
    BY <1>6 DEF Clear, gcVars
  <2>2. \A q \in Object : member'[q] = IF q = o THEN member[q] \ {p} ELSE member[q]
    BY <1>2, <2>1
  <2>3. /\ Handles(p) > 0 /\ Handles(p)' = Handles(p) - 1
        /\ \A x : x # p => Handles(x)' = Handles(x)
    BY <2>1, <2>2, MemberLess, HandleCounts
  <2> QED BY <1>1, <2>1, <2>3, LessCounts
<1>7. CASE Disarm(t, o)
  <2>1. /\ refEvent_num' = [refEvent_num EXCEPT ![o] = -1] /\ UNCHANGED handles
        /\ UNCHANGED <<ref, refList, refEvents, stack>>
    BY <1>7 DEF Disarm, gcVars
  <2>2. Dels' = Dels /\ Evs' = Evs
    BY <2>1 DEF Dels, Evs
  <2>3. Lists'
    BY <2>1, <2>2, ListsThen DEF CInv, Lists
  <2>4. ASSUME NEW x \in Object PROVE Counted(x)'
    <3>1. (Condemned(x)' <=> Condemned(x)) /\ (Pending(x)' <=> Pending(x))
      BY <2>1, <2>2, ListsThen DEF Condemned, Pending
    <3>2. Counted(x) /\ Handles(x)' = Handles(x)
      BY <2>1, SameHandles DEF CInv
    <3>3. refEvent_num[x] = -1 => refEvent_num'[x] = -1
      BY <1>1, <2>1 DEF TypeOK
    <3> QED BY <2>1, <3>1, <3>2, <3>3 DEF Counted
  <2> QED BY <2>3, <2>4 DEF CInv
<1> QED BY <1>3, <1>4, <1>5, <1>6, <1>7

-----------------------------------------------------------------------------
(* The gc thread's counts.                                                 *)

\* What it has taken, frame by frame.
LEMMA InFrames ==
    ASSUME TInv, stack # <<>>
    PROVE  /\ Len(stack) \in Nat \ {0} /\ stack \in Seq(Frame)
           /\ Top = stack[1] /\ Top \in Frame /\ 1 \in 1..Len(stack)
           /\ Dels[1] = Top.del /\ Evs[1] = Top.ev
           /\ Top.del \in Seq(Object) /\ Top.ev \in Seq(Object)
           /\ \A i \in 1..Len(stack) : Dels[i] = stack[i].del /\ Evs[i] = stack[i].ev
<1>1. stack \in Seq(Frame)
  BY DEF TInv, TypeOK
<1>2. Len(stack) \in Nat \ {0}
  BY <1>1, LenProperties, EmptySeq
<1>3. Top = stack[1] /\ Top \in Frame /\ 1 \in 1..Len(stack)
  BY <1>1, TopFrame
<1>4. Top.del \in Seq(Object) /\ Top.ev \in Seq(Object)
  BY <1>3 DEF Frame
<1> QED BY <1>1, <1>2, <1>3, <1>4 DEF Dels, Evs

LEMMA FramesThen ==
    \A i \in 1..Len(stack') : Dels'[i] = stack'[i].del /\ Evs'[i] = stack'[i].ev
BY DEF Dels, Evs

\* Lists that hold the same objects, the counts and the handles as they were.
LEMMA MovedCounts ==
    ASSUME CInv, UNCHANGED <<ref, refEvent_num>>, \A x : Handles(x)' = Handles(x),
           Apart(refList', Len(stack'), Dels'), Apart(refEvents', Len(stack'), Evs'),
           \A x : Among(x, refList', Len(stack'), Dels') <=> Condemned(x),
           \A x : Among(x, refEvents', Len(stack'), Evs') <=> Pending(x)
    PROVE  CInv'
<1>1. Lists'
  BY ListsThen
<1>2. ASSUME NEW x \in Object PROVE Counted(x)'
  <2>1. (Condemned(x)' <=> Condemned(x)) /\ (Pending(x)' <=> Pending(x))
    BY ListsThen
  <2>2. Counted(x)
    BY DEF CInv
  <2> QED BY <2>1, <2>2 DEF Counted
<1> QED BY <1>1, <1>2 DEF CInv

\* What is taken off a bucket is still on a list.
LEMMA TakeOffCounts ==
    ASSUME CInv, TypeOK, Len(stack) \in Nat, NEW b \in Bucket, TakeOff(b),
           UNCHANGED <<ref, refEvent_num, handles>>,
           Len(stack') = Len(stack) + 1,
           stack'[1].del = refList[b], stack'[1].ev = refEvents[b],
           \A i \in 1..Len(stack) :
              stack'[i + 1].del = stack[i].del /\ stack'[i + 1].ev = stack[i].ev
    PROVE  CInv'
<1>1. /\ Dels'[1] = refList[b] /\ Evs'[1] = refEvents[b]
      /\ \A i \in 1..Len(stack) : Dels'[i + 1] = Dels[i] /\ Evs'[i + 1] = Evs[i]
  <2>1. 1 \in 1..Len(stack') /\ \A i \in 1..Len(stack) : i + 1 \in 1..Len(stack')
    OBVIOUS
  <2>2. \A i \in 1..Len(stack) : Dels[i] = stack[i].del /\ Evs[i] = stack[i].ev
    BY DEF Dels, Evs
  <2> QED BY <2>1, <2>2, FramesThen
<1>2. /\ \A c \in Bucket : refList'[c] = IF c = b THEN <<>> ELSE refList[c]
      /\ \A c \in Bucket : refEvents'[c] = IF c = b THEN <<>> ELSE refEvents[c]
  BY DEF TypeOK, TakeOff
<1>3. ASSUME NEW n, n = Len(stack), NEW B, B = refList, NEW S, S = Dels,
             NEW C, C = refList', NEW T, T = Dels'
      PROVE  Apart(C, n + 1, T) /\ \A x : Among(x, C, n + 1, T) <=> Among(x, B, n, S)
  <2>1. Apart(B, n, S) /\ n \in Nat
    BY <1>3 DEF CInv, Lists
  <2>2. /\ \A c \in Bucket : C[c] = IF c = b THEN <<>> ELSE B[c]
        /\ T[1] = B[b] /\ \A i \in 1..n : T[i + 1] = S[i]
    BY <1>1, <1>2, <1>3
  <2> QED BY <2>1, <2>2, TakenApart
<1>4. ASSUME NEW n, n = Len(stack), NEW B, B = refEvents, NEW S, S = Evs,
             NEW C, C = refEvents', NEW T, T = Evs'
      PROVE  Apart(C, n + 1, T) /\ \A x : Among(x, C, n + 1, T) <=> Among(x, B, n, S)
  <2>1. Apart(B, n, S) /\ n \in Nat
    BY <1>4 DEF CInv, Lists
  <2>2. /\ \A c \in Bucket : C[c] = IF c = b THEN <<>> ELSE B[c]
        /\ T[1] = B[b] /\ \A i \in 1..n : T[i + 1] = S[i]
    BY <1>1, <1>2, <1>4
  <2> QED BY <2>1, <2>2, TakenApart
<1>5. /\ Apart(refList', Len(stack'), Dels') /\ Apart(refEvents', Len(stack'), Evs')
      /\ \A x : Among(x, refList', Len(stack'), Dels') <=> Condemned(x)
      /\ \A x : Among(x, refEvents', Len(stack'), Evs') <=> Pending(x)
  BY <1>3, <1>4 DEF Condemned, Pending
<1> QED BY <1>5, MovedCounts, SameHandles

\* The gc thread's walk.
LEMMA WalkCounts ==
    ASSUME TInv, CInv, GcStart \/ GcDescend \/ GcReturn
    PROVE  CInv'
<1>0. TypeOK /\ UNCHANGED <<ref, refEvent_num, handles>>
  BY DEF TInv, GcStart, GcDescend, GcReturn, lists
<1>1. CASE GcStart
  <2>1. stack = <<>> /\ stack' = <<Taken(0)>> /\ TakeOff(0)
    BY <1>1 DEF GcStart, TInv, Shape
  <2>2. /\ Len(stack) = 0 /\ Len(stack') = 1 /\ stack'[1] = Taken(0)
    BY <2>1
  <2>3. Taken(0).del = refList[0] /\ Taken(0).ev = refEvents[0]
    BY DEF Taken
  <2> QED BY <1>0, <2>1, <2>2, <2>3, Buckets0, TakeOffCounts
<1>2. CASE GcDescend
  <2>1. /\ stack \in Seq(Frame) /\ stack # <<>> /\ Top = stack[1]
        /\ Next0 \in Bucket /\ Rest0 \in Frame /\ Taken(Next0) \in Frame
        /\ stack' = <<Taken(Next0)>> \o [stack EXCEPT ![1] = Rest0] /\ TakeOff(Next0)
    BY <1>2, Descends
  <2>2. Rest0.del = Top.del /\ Rest0.ev = Top.ev
    BY <2>1, TopFrame DEF Rest0, Frame
  <2> DEFINE rest == [stack EXCEPT ![1] = Rest0]
  <2>3. /\ rest \in Seq(Frame) /\ Len(rest) = Len(stack)
        /\ \A i \in 1..Len(stack) : rest[i] = IF i = 1 THEN Rest0 ELSE stack[i]
    BY <2>1, TopFrame
  <2>4. /\ Len(stack') = Len(stack) + 1 /\ stack'[1] = Taken(Next0)
        /\ \A i \in 1..Len(stack) : stack'[i + 1] = rest[i]
    BY <2>1, <2>3, Pushes
  <2>5. Taken(Next0).del = refList[Next0] /\ Taken(Next0).ev = refEvents[Next0]
    BY DEF Taken
  <2>6. \A i \in 1..Len(stack) :
           stack'[i + 1].del = stack[i].del /\ stack'[i + 1].ev = stack[i].ev
    BY <2>1, <2>2, <2>3, <2>4
  <2>7. Len(stack) \in Nat
    BY <2>1, LenProperties
  <2> HIDE DEF rest
  <2> QED BY <1>0, <2>1, <2>4, <2>5, <2>6, <2>7, TakeOffCounts
<1>3. CASE GcReturn
  <2>1. stack # <<>> /\ stack' = Tail(stack) /\ Top.del = <<>> /\ Top.ev = <<>>
    BY <1>3 DEF GcReturn, Swept, Sweeping, TInv, Shape
  <2>2. UNCHANGED <<refList, refEvents>>
    BY <1>3 DEF GcReturn, lists
  <2>3. /\ Len(stack) \in Nat \ {0} /\ Dels[1] = <<>> /\ Evs[1] = <<>>
        /\ stack \in Seq(Frame)
        /\ \A i \in 1..Len(stack) : Dels[i] = stack[i].del /\ Evs[i] = stack[i].ev
    BY <2>1, InFrames
  <2>4. /\ Len(stack') = Len(stack) - 1
        /\ \A i \in 1..Len(stack') : stack'[i] = stack[i + 1]
    BY <2>1, <2>3, HeadTailProperties
  <2>5. \A i \in 1..(Len(stack) - 1) : Dels'[i] = Dels[i + 1] /\ Evs'[i] = Evs[i + 1]
    <3>1. \A i \in 1..(Len(stack) - 1) : i \in 1..Len(stack') /\ i + 1 \in 1..Len(stack)
      BY <2>3, <2>4
    <3> QED BY <2>3, <2>4, <3>1, FramesThen
  <2>6. ASSUME NEW n, n = Len(stack), NEW B, NEW S, Apart(B, n, S), S[1] = <<>>,
               NEW T, \A i \in 1..(n - 1) : T[i] = S[i + 1]
        PROVE  Apart(B, n - 1, T) /\ \A x : Among(x, B, n - 1, T) <=> Among(x, B, n, S)
    <3>1. n \in Nat \ {0}
      BY <2>3, <2>6
    <3> QED BY <2>6, <3>1, LeftApart
  <2>7. /\ Apart(refList, Len(stack) - 1, Dels')
        /\ \A x : Among(x, refList, Len(stack) - 1, Dels') <=> Among(x, refList, Len(stack), Dels)
    BY <2>3, <2>5, <2>6 DEF CInv, Lists
  <2>8. /\ Apart(refEvents, Len(stack) - 1, Evs')
        /\ \A x : Among(x, refEvents, Len(stack) - 1, Evs') <=> Among(x, refEvents, Len(stack), Evs)
    BY <2>3, <2>5, <2>6 DEF CInv, Lists
  <2> QED BY <1>0, <2>2, <2>4, <2>7, <2>8, MovedCounts, SameHandles DEF Condemned, Pending
<1> QED BY <1>1, <1>2, <1>3

\* The gc thread deletes a condemned object: it has no handle, and is on no list.
LEMMA DeleteCounts ==
    ASSUME TInv, CInv, GcDelete
    PROVE  CInv'
<1>1. stack # <<>> /\ TypeOK /\ shed = {} /\ Top.del # <<>>
  BY DEF TInv, Shape, GcDelete, Sweeping
<1>2. /\ Len(stack) \in Nat \ {0} /\ stack \in Seq(Frame)
      /\ Top = stack[1] /\ Top \in Frame /\ 1 \in 1..Len(stack)
      /\ Dels[1] = Top.del /\ Evs[1] = Top.ev /\ Top.del \in Seq(Object)
      /\ \A i \in 1..Len(stack) : Dels[i] = stack[i].del /\ Evs[i] = stack[i].ev
  BY <1>1, InFrames
<1>3. PICK o : o = Head(Top.del) /\ o \in Object
  BY <1>1, <1>2, HeadTailProperties
<1>4. /\ ref' = [ref EXCEPT ![o] = -1]
      /\ shed' = member[o] /\ member' = [member EXCEPT ![o] = {}]
      /\ stack' = [stack EXCEPT ![1] = [Top EXCEPT !.del = Tail(@)]]
      /\ UNCHANGED <<refEvent_num, refList, refEvents, held>>
  BY <1>2, <1>3 DEF GcDelete
<1> DEFINE f == [Top EXCEPT !.del = Tail(@)]
<1>5. f \in Frame /\ f.del = Tail(Top.del) /\ f.ev = Top.ev
  <2>1. Tail(Top.del) \in Seq(Object)
    BY <1>1, <1>2, HeadTailProperties
  <2> QED BY <1>2, <2>1 DEF Frame
<1>6. /\ Len(stack') = Len(stack)
      /\ \A i \in 1..Len(stack) : stack'[i] = IF i = 1 THEN f ELSE stack[i]
  BY <1>1, <1>2, <1>4, <1>5, TopFrame
<1> HIDE DEF f
<1>7. /\ Dels'[1] = Tail(Top.del) /\ \A i \in 1..Len(stack) : i # 1 => Dels'[i] = Dels[i]
      /\ Evs' = Evs
  <2>1. \A i \in 1..Len(stack) : Dels'[i] = stack'[i].del /\ stack'[i].ev = stack[i].ev
    BY <1>2, <1>5, <1>6, FramesThen
  <2>2. Evs' = Evs
    BY <1>6, <2>1 DEF Evs
  <2> QED BY <1>2, <1>5, <1>6, <2>1, <2>2
<1>8. /\ Apart(refList, Len(stack), Dels') /\ Condemned(o)
      /\ \A x : Among(x, refList, Len(stack), Dels') <=> Condemned(x) /\ x # o
  <2>1. ASSUME NEW n, n = Len(stack), NEW S, S = Dels, NEW T, T = Dels', NEW B, B = refList
        PROVE  Without(B, n, S, T, o)
    <3>1. Apart(B, n, S) /\ Shortened(T, n, S, o)
      BY <1>1, <1>2, <1>3, <1>7, <2>1 DEF CInv, Lists, Shortened
    <3> QED BY <3>1, DoneApart
  <2> QED BY <2>1 DEF Condemned, Without
<1>9. Apart(refEvents, Len(stack), Evs)
  BY DEF CInv, Lists
<1>10. Lists'
  BY <1>4, <1>6, <1>7, <1>8, <1>9, ListsThen
<1>11. \A x : Handles(x)' = Handles(x)
  <2>1. member \in [Object -> SUBSET Object]
    BY <1>1 DEF TypeOK
  <2>2. \A q \in Object : member'[q] = IF q = o THEN {} ELSE member[q]
    BY <1>4, <2>1
  <2> QED BY <1>1, <1>3, <1>4, <2>2, ShedAll
<1>12. ASSUME NEW x \in Object PROVE Counted(x)'
  <2>1. (Condemned(x)' <=> Condemned(x) /\ x # o) /\ (Pending(x)' <=> Pending(x))
    BY <1>4, <1>6, <1>7, <1>8, ListsThen DEF Pending
  <2>2. Counted(x) /\ Counted(o) /\ Handles(x)' = Handles(x) /\ Handles(x) \in Nat
    BY <1>3, <1>11, HandlesNat DEF CInv
  <2>3. ref'[x] = IF x = o THEN -1 ELSE ref[x]
    BY <1>1, <1>4 DEF TypeOK
  <2>4. CASE x = o
    <3>1. ref[o] = 0 /\ ~Pending(o) /\ Handles(o) = 0
      BY <1>8, <2>2, <2>4 DEF Counted
    <3> QED BY <2>1, <2>2, <2>3, <2>4, <3>1 DEF Counted
  <2>5. CASE x # o
    BY <1>4, <2>1, <2>2, <2>3, <2>5 DEF Counted
  <2> QED BY <2>4, <2>5
<1> QED BY <1>10, <1>12 DEF CInv

\* The release that asked for a callback is counted after it: until then the object
\* was pending, and is now condemned, unless a handle was made of it.
LEMMA CallbackCounts ==
    ASSUME TInv, CInv, GcCallbackDone
    PROVE  CInv'
<1>1. stack # <<>> /\ TypeOK /\ Top.ev # <<>> /\ Gc \in Actor
  BY DEF TInv, Shape, GcCallbackDone, Sweeping, Actor
<1>2. /\ Len(stack) \in Nat \ {0} /\ stack \in Seq(Frame)
      /\ Top = stack[1] /\ Top \in Frame /\ 1 \in 1..Len(stack)
      /\ Dels[1] = Top.del /\ Evs[1] = Top.ev /\ Top.ev \in Seq(Object)
      /\ \A i \in 1..Len(stack) : Dels[i] = stack[i].del /\ Evs[i] = stack[i].ev
  BY <1>1, InFrames
<1>3. PICK o : o = Head(Top.ev) /\ o \in Object
  BY <1>1, <1>2, HeadTailProperties
<1>4. /\ RelRef(o, Gc) /\ UNCHANGED handles
      /\ stack' = [stack EXCEPT ![1] = [Top EXCEPT !.ev = Tail(@)]]
  BY <1>2, <1>3 DEF GcCallbackDone
<1> DEFINE f == [Top EXCEPT !.ev = Tail(@)]
<1>5. f \in Frame /\ f.ev = Tail(Top.ev) /\ f.del = Top.del
  <2>1. Tail(Top.ev) \in Seq(Object)
    BY <1>1, <1>2, HeadTailProperties
  <2> QED BY <1>2, <2>1 DEF Frame
<1>6. /\ Len(stack') = Len(stack)
      /\ \A i \in 1..Len(stack) : stack'[i] = IF i = 1 THEN f ELSE stack[i]
  BY <1>1, <1>2, <1>4, <1>5, TopFrame
<1> HIDE DEF f
<1>7. /\ Evs'[1] = Tail(Top.ev) /\ \A i \in 1..Len(stack) : i # 1 => Evs'[i] = Evs[i]
      /\ Dels' = Dels
  <2>1. \A i \in 1..Len(stack) : Evs'[i] = stack'[i].ev /\ stack'[i].del = stack[i].del
    BY <1>2, <1>5, <1>6, FramesThen
  <2>2. Dels' = Dels
    BY <1>6, <2>1 DEF Dels
  <2> QED BY <1>2, <1>5, <1>6, <2>1, <2>2
<1>8. /\ Apart(refEvents, Len(stack), Evs') /\ Pending(o)
      /\ \A x : Among(x, refEvents, Len(stack), Evs') <=> Pending(x) /\ x # o
  <2>1. ASSUME NEW n, n = Len(stack), NEW S, S = Evs, NEW T, T = Evs', NEW B, B = refEvents
        PROVE  Without(B, n, S, T, o)
    <3>1. Apart(B, n, S) /\ Shortened(T, n, S, o)
      BY <1>1, <1>2, <1>3, <1>7, <2>1 DEF CInv, Lists, Shortened
    <3> QED BY <3>1, DoneApart
  <2> QED BY <2>1 DEF Pending, Without
<1>9. Apart(refList, Len(stack), Dels)
  BY DEF CInv, Lists
<1>10. ref[o] > 0 /\ ref[o] # -1
  BY <1>1, <1>3, <1>8 DEF CInv, Counted, TypeOK
<1>11. ASSUME NEW n, n = Len(stack), NEW D, D = Dels, NEW E, E = Evs', NEW x \in Object
       PROVE  /\ Handles(x)' \in Nat
              /\ Owes(x, Handles(x)', Among(x, refList, n, D), Among(x, refEvents, n, E),
                      IF x = o THEN 1 ELSE 0)
  <2> DEFINE d == Among(x, refList, n, D)
             p == Among(x, refEvents, n, E)
  <2>1. (d <=> Condemned(x)) /\ (p <=> Pending(x) /\ x # o)
    BY <1>8, <1>11 DEF Condemned
  <2> HIDE DEF d, p
  <2>2. Counted(x) /\ Handles(x) \in Nat /\ Handles(x)' = Handles(x)
    BY <1>4, HandlesNat, SameHandles DEF CInv
  <2>3. CASE x = o
    BY <1>8, <1>10, <2>1, <2>2, <2>3 DEF Counted, Owes, d, p
  <2>4. CASE x # o
    <3>1. Owes(x, Handles(x)', d, p, 0)
      <4>1. ref[x] \in Nat \cup {-1}
        BY <1>1 DEF TypeOK
      <4> QED BY <2>1, <2>2, <2>4, <4>1 DEF Counted, Owes
    <3> QED BY <2>2, <2>4, <3>1 DEF d, p
  <2> QED BY <2>3, <2>4
<1>12. ASSUME NEW n, n = Len(stack), NEW D, D = Dels, NEW E, E = Evs'
       PROVE  CInv'
  <2>1. /\ Apart(refList, n, D) /\ Apart(refEvents, n, E)
        /\ n = Len(stack') /\ D = Dels'
    BY <1>6, <1>7, <1>8, <1>9, <1>12
  <2> QED BY <1>1, <1>3, <1>4, <1>10, <1>11, <1>12, <2>1, ReleaseCounts
<1> QED BY <1>12

\* What a destructor or a callback releases.
LEMMA SweepCounts ==
    ASSUME TInv, CInv, NEW o \in Object, GcCallback \/ GcShed(o) \/ GcTeardown(o)
    PROVE  CInv'
<1>1. TypeOK /\ Gc \in Actor
  BY DEF TInv, Actor
<1>2. CASE GcCallback
  <2>1. UNCHANGED <<ref, refEvent_num, refList, refEvents, stack, handles>>
    BY <1>2 DEF GcCallback, lists
  <2> QED BY <2>1, SameHandles, SameCounts
<1>3. CASE GcShed(o)
  <2>1. /\ o \in shed /\ shed' = shed \ {o} /\ RelRef(o, Gc)
        /\ UNCHANGED <<held, member, stack>>
    BY <1>3 DEF GcShed, gcVars
  <2>2. /\ Handles(o) > 0 /\ Handles(o)' = Handles(o) - 1
        /\ \A x : x # o => Handles(x)' = Handles(x)
    BY <2>1, ShedLess, HandleCounts
  <2> QED BY <1>1, <2>1, <2>2, LessCounts
<1>4. CASE GcTeardown(o)
  <2>1. stack # <<>> /\ Top.ev # <<>>
    BY <1>4 DEF GcTeardown, Sweeping, TInv, Shape
  <2>2. PICK q \in Object : q = Head(Top.ev)
    BY <2>1, InFrames, HeadTailProperties
  <2>3. /\ o \in member[q] /\ RelRef(o, Gc)
        /\ member' = [member EXCEPT ![q] = @ \ {o}]
        /\ UNCHANGED <<held, shed, stack>>
    BY <1>4, <2>2 DEF GcTeardown, gcVars
  <2>4. \A p \in Object : member'[p] = IF p = q THEN member[p] \ {o} ELSE member[p]
    BY <1>1, <2>3 DEF TypeOK
  <2>5. /\ Handles(o) > 0 /\ Handles(o)' = Handles(o) - 1
        /\ \A x : x # o => Handles(x)' = Handles(x)
    BY <2>3, <2>4, MemberLess, HandleCounts
  <2> QED BY <1>1, <2>3, <2>5, LessCounts
<1> QED BY <1>2, <1>3, <1>4

\* Announcing, waiting and sleeping.
LEMMA IdleCounts ==
    ASSUME CInv, (\E a \in Actor : Announce(a)) \/ GcCheck \/ GcWake
                   \/ WaitStable \/ Finish \/ MainWakes \/ UNCHANGED vars
    PROVE  CInv'
<1>1. UNCHANGED <<ref, refEvent_num, refList, refEvents, stack, handles>>
  BY DEF Announce, GcCheck, GcWake, WaitStable, Finish, MainWakes, WaitStableWake,
         FinishWake, vars, lists, gcVars
<1> QED BY <1>1, SameHandles, SameCounts

LEMMA CountsInit == Init => CInv
<1> SUFFICES ASSUME Init PROVE CInv
  OBVIOUS
<1>1. /\ ref = [o \in Object |-> 1] /\ stack = <<>> /\ shed = {}
      /\ refList = [b \in Bucket |-> <<>>] /\ refEvents = [b \in Bucket |-> <<>>]
      /\ member = [o \in Object |-> {}]
  BY DEF Init
<1>2. PICK maker \in [Object -> Thread] :
         held = [t \in Thread |-> {o \in Object : maker[o] = t}]
  BY DEF Init
<1>3. Len(stack) = 0
  BY <1>1
<1>4. \A b \in Bucket : /\ InSeq(refList[b]) = {} /\ InSeq(refEvents[b]) = {}
                        /\ Single(refList[b]) /\ Single(refEvents[b])
  BY <1>1, NoneListed
<1>5. 1..0 = {}
  OBVIOUS
<1>6. Lists
  BY <1>3, <1>4, <1>5 DEF Lists, Apart
<1>7. ASSUME NEW o \in Object PROVE Counted(o)
  <2>1. ~Condemned(o) /\ ~Pending(o)
    BY <1>3, <1>4, <1>5 DEF Condemned, Pending, Among
  <2>2. Holders(o) = {maker[o]}
    BY <1>2 DEF Holders
  <2>3. Cardinality(Holders(o)) = 1
    BY <2>2, FS_Singleton
  <2>4. Owners(o) = {}
    BY <1>1 DEF Owners
  <2>5. Cardinality(Owners(o)) = 0
    BY <2>4, FS_EmptySet
  <2>6. Handles(o) = 1
    BY <1>1, <2>3, <2>5, HandlesNat
  <2> QED BY <1>1, <2>1, <2>6 DEF Counted
<1> QED BY <1>6, <1>7 DEF CInv

LEMMA CountsNext == TInv /\ CInv /\ [Next]_vars => CInv'
<1> SUFFICES ASSUME TInv, CInv, [Next]_vars PROVE CInv'
  OBVIOUS
<1>1. ASSUME NEW t \in Thread, NEW o \in Object,
             Copy(t, o) \/ Mint(t, o) \/ Drop(t, o) \/ Disarm(t, o)
      PROVE  CInv'
  BY <1>1, ProgramCounts
<1>2. ASSUME NEW t \in Thread, NEW o \in Object, NEW p \in Object,
             Store(t, o, p) \/ Clear(t, o, p)
      PROVE  CInv'
  BY <1>2, ProgramCounts
<1>3. CASE (\E a \in Actor : Announce(a)) \/ GcCheck \/ GcWake
             \/ WaitStable \/ Finish \/ MainWakes \/ UNCHANGED vars
  BY <1>3, IdleCounts
<1>4. CASE GcStart \/ GcDescend \/ GcReturn
  BY <1>4, WalkCounts
<1>5. CASE GcDelete
  BY <1>5, DeleteCounts
<1>6. CASE GcCallbackDone
  BY <1>6, CallbackCounts
<1>7. CASE GcCallback
  <2>1. PICK o : o \in Object
    BY <1>7, SomeObject
  <2> QED BY <1>7, <2>1, SweepCounts
<1>8. ASSUME NEW o \in Object, GcShed(o) \/ GcTeardown(o)
      PROVE  CInv'
  BY <1>8, SweepCounts
<1> QED BY <1>1, <1>2, <1>3, <1>4, <1>5, <1>6, <1>7, <1>8 DEF Next, GcStep

\* A count is the number of handles, and one for the release that waits for its
\* callback; what is condemned or deleted has none, so no handle points to a deleted
\* object and none is deleted twice.  It holds for any objects, threads and buckets,
\* and whoever makes handles while a callback is pending (stdObject.cpp:88-107,
\* 195-258).
THEOREM NoHandleDangles == Spec => []CountsHandles
<1>1. Init => TInv /\ CInv
  BY TypedInit, CountsInit
<1>2. TInv /\ CInv /\ [Next]_vars => (TInv /\ CInv)'
  BY TypedNext, CountsNext
<1>3. CInv => CountsHandles
  BY CountedCounts
<1> QED BY <1>1, <1>2, <1>3, PTL DEF Spec
=============================================================================
