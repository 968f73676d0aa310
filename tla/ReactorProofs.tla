--------------------------- MODULE ReactorProofs ---------------------------
(***************************************************************************)
(* Proofs about Reactor, for any objects, channels, times and numbers of   *)
(* registrations: loop() never sleeps past something that was registered,  *)
(* or when there is nothing left to sleep for; the variables are well      *)
(* typed; and what loop() takes away it tells.                             *)
(***************************************************************************)
EXTENDS Reactor, FiniteSetTheorems, SequenceTheorems, WellFoundedInduction, TLAPS

\* The types that the invariant rests on.
Types ==
    /\ objs = [ch \in Channel |-> objs[ch]]
    /\ interval_objs \subseteq Obj \X Time
    /\ refio \in Nat
    /\ wait_flag \in {0, 1} /\ pipe \in BOOLEAN
    /\ timeout \in Time \cup {None}

\* While the loop sleeps, who changes something writes to the pipe, or somebody has.
Listens == pc = "select" => pipe \/ wait_flag = 0

IInv == Types /\ Listens /\ SleepsForAll

\* A set of times has an earliest one.
LEMMA EarliestExists ==
    ASSUME NEW ws, ws \subseteq Obj \X Time, ws # {}
    PROVE  /\ Earliest(ws) \in Time
           /\ \A w \in ws : Earliest(ws) <= w[2]
<1> DEFINE T == {w[2] : w \in ws}
<1>1. T \subseteq Nat /\ T # {} /\ T \subseteq Time
  BY ReactorAssumption DEF Time
<1>2. PICK t \in T : \A u \in T : ~(<<u, t>> \in OpToRel(<, Nat))
  <2> HIDE DEF T
  <2> QED BY <1>1, NatLessThanWellFounded, WFMin
<1>3. \A u \in T : t <= u
  <2> SUFFICES ASSUME NEW u \in T, u < t PROVE FALSE
    BY <1>1
  <2> HIDE DEF T
  <2>1. u \in Nat /\ t \in Nat BY <1>1
  <2>2. <<u, t>> \in OpToRel(<, Nat) BY <2>1 DEF OpToRel
  <2> QED BY <1>2, <2>2
<1>4. \E x \in Time : /\ \E w \in ws : w[2] = x
                      /\ \A w \in ws : x <= w[2]
  BY <1>1, <1>3
<1> QED BY <1>4 DEF Earliest

LEMMA InitInv == Init => IInv
<1> SUFFICES ASSUME Init PROVE IInv OBVIOUS
<1>1. Types BY DEF Init, Types
<1>2. pc = "prepare" BY DEF Init
<1> QED BY <1>1, <1>2 DEF IInv, Listens, SleepsForAll

\* A step of another thread that writes to the pipe.
LEMMA Told ==
    ASSUME IInv, writePipe, UNCHANGED <<pc, timeout>>,
           objs' = [ch \in Channel |-> objs'[ch]],
           interval_objs' \subseteq Obj \X Time, refio' \in Nat
    PROVE  IInv'
<1>1. wait_flag' = 1 /\ pipe' \in BOOLEAN /\ (pc' = "select" => pipe')
  BY DEF writePipe, IInv, Types, Listens
<1> QED BY <1>1 DEF IInv, Types, Listens, SleepsForAll

LEMMA CallsInv ==
    ASSUME IInv,
           \/ \E o \in Obj, ch \in Channel : Register(o, ch)
           \/ \E o \in Obj, t \in Time : Wait(o, t)
           \/ \E o \in Obj, all \in BOOLEAN : Detach(o, all)
           \/ addRefio \/ delRefio
    PROVE  IInv'
<1> USE DEF IInv, Types
<1>1. CASE \E o \in Obj, ch \in Channel : Register(o, ch)
  BY <1>1, Told DEF Register, loopVars
<1>2. CASE \E o \in Obj, t \in Time : Wait(o, t)
  BY <1>2, Told DEF Wait, loopVars
<1>3. CASE \E o \in Obj, all \in BOOLEAN : Detach(o, all)
  <2>1. PICK o \in Obj, all \in BOOLEAN : Detach(o, all) BY <1>3
  <2>2. objs' = [ch \in Channel |-> objs'[ch]] BY <2>1 DEF Detach
  <2> QED BY <2>1, <2>2, Told DEF Detach, loopVars
<1>4. CASE addRefio
  BY <1>4 DEF addRefio, loopVars, wakes, Listens, SleepsForAll, Empty
<1>5. CASE delRefio BY <1>5, Told DEF delRefio, loopVars
<1> QED BY <1>1, <1>2, <1>3, <1>4, <1>5

\* abort() writes nothing, but only takes away, and while the pool keeps the loop.
LEMMA AbortInv == ASSUME IInv, NEW ch \in Channel, abort(ch) PROVE IInv'
<1>1. /\ objs' = [c \in Channel |-> objs'[c]]
      /\ \A c \in Channel : objs'[c] # <<>> => objs[c] # <<>>
      /\ refio > 0
      /\ UNCHANGED <<interval_objs, refio, wait_flag, pipe, pc, sets, timeout>>
  BY DEF abort, IInv, Types, wakes, loopVars
<1> QED BY <1>1 DEF IInv, Types, Listens, SleepsForAll

\* The loop's own sections: it goes to sleep in LoopPrepare only.
LEMMA PrepareInv == IInv /\ LoopPrepare => IInv'
<1> SUFFICES ASSUME IInv, LoopPrepare PROVE IInv' OBVIOUS
<1> USE DEF IInv, Types
<1>1. Awaited \subseteq Obj \X Time BY DEF Awaited
<1>2. /\ Awaited # {} => timeout' \in Time /\ \A w \in Awaited : timeout' <= w[2]
      /\ Awaited = {} => timeout' = None
  <2>1. timeout' = Earliest(Awaited) BY DEF LoopPrepare
  <2>2. Awaited = {} => timeout' = None BY <2>1 DEF Earliest
  <2>3. CASE Awaited # {} BY <1>1, <2>1, <2>3, EarliestExists
  <2> QED BY <2>2, <2>3
<1>3. objs' = [ch \in Channel |-> objs'[ch]] BY DEF LoopPrepare, Living
<1>4. timeout' \in Time => timeout' # None
  BY ReactorAssumption DEF Time, None
<1>5. Types' BY <1>1, <1>2, <1>3 DEF LoopPrepare
<1>6. Listens' BY DEF LoopPrepare, Listens
<1>7. SleepsForAll'
  <2> SUFFICES ASSUME pc' = "select"
               PROVE  /\ \A ch \in Channel : objs'[ch] # <<>> => ch \in sets'
                      /\ \A w \in interval_objs' : timeout' # None /\ timeout' <= w[2]
                      /\ ~(Empty' /\ interval_objs' = {} /\ refio' = 0)
    BY DEF SleepsForAll
  <2>1. /\ objs' = Living /\ interval_objs' = Awaited /\ refio' = refio
        /\ sets' = {ch \in Channel : Living[ch] # <<>>}
    BY DEF LoopPrepare
  <2>2. ~(sets' = {} /\ Awaited = {} /\ refio = 0) BY DEF LoopPrepare
  <2>3. Empty' => sets' = {} BY <2>1 DEF Empty
  <2> QED BY <1>2, <1>4, <2>1, <2>2, <2>3
<1> QED BY <1>5, <1>6, <1>7

LEMMA LoopInv ==
    ASSUME IInv,
           \/ Select \/ LoopCollect \/ LoopDeliver
           \/ LoopStable \/ Interrupted \/ LoopEnter
    PROVE  IInv'
<1>1. /\ pc' # "select"
      /\ objs' = [ch \in Channel |-> objs'[ch]]
      /\ interval_objs' \subseteq interval_objs
      /\ UNCHANGED refio
      /\ wait_flag' \in {0, 1} /\ pipe' \in BOOLEAN
      /\ timeout' \in Time \cup {None}
  BY DEF IInv, Types, Select, LoopCollect, LoopDeliver, LoopStable, Interrupted,
     LoopEnter, calls, wakes
<1> QED BY <1>1 DEF IInv, Types, Listens, SleepsForAll

\* Time passes for the registrations and for the sleeper alike.
LEMMA TickInv == IInv /\ Tick => IInv'
<1> SUFFICES ASSUME IInv, Tick PROVE IInv' OBVIOUS
<1> USE DEF IInv, Types
<1>1. \A t \in Time : Sooner(t) \in Time
  BY ReactorAssumption DEF Sooner, Time
<1>2. \A w \in interval_objs : w \in Obj \X Time OBVIOUS
<1>3. interval_objs' = {<<w[1], Sooner(w[2])>> : w \in interval_objs} BY DEF Tick
<1>4. interval_objs' \subseteq Obj \X Time BY <1>1, <1>2, <1>3
<1>5. timeout' \in Time \cup {None} /\ (timeout # None => timeout' # None)
  BY ReactorAssumption DEF Tick, Sooner, Time, None
<1>6. UNCHANGED <<objs, refio, wait_flag, pipe, pc, sets>> BY DEF Tick, wakes
<1>7. Types' /\ Listens' BY <1>4, <1>5, <1>6 DEF Listens
<1>8. SleepsForAll'
  <2> SUFFICES ASSUME pc = "select", ~pipe
               PROVE  /\ \A ch \in Channel : objs[ch] # <<>> => ch \in sets
                      /\ \A w \in interval_objs' : timeout' # None /\ timeout' <= w[2]
                      /\ ~(Empty /\ interval_objs' = {} /\ refio = 0)
    BY <1>6 DEF SleepsForAll, Empty
  <2>1. ASSUME NEW w \in interval_objs'
        PROVE  timeout' # None /\ timeout' <= w[2]
    <3>1. PICK v \in interval_objs : w = <<v[1], Sooner(v[2])>> BY <1>3
    <3>2. timeout # None /\ timeout <= v[2] BY DEF SleepsForAll
    <3>3. v[2] \in Time /\ w[2] = Sooner(v[2]) BY <1>2, <3>1
    <3>4. timeout' <= w[2]
      BY <3>2, <3>3, ReactorAssumption DEF Tick, Sooner, Time, None
    <3> QED BY <1>5, <3>2, <3>4
  <2>2. interval_objs' = {} => interval_objs = {} BY <1>3
  <2> QED BY <2>1, <2>2 DEF SleepsForAll
<1> QED BY <1>7, <1>8

LEMMA OutsideInv ==
    ASSUME IInv,
           \/ \E ch \in Channel : Change(ch)
           \/ \E o \in Obj : Die(o)
           \/ GcStarts \/ GcRests \/ UNCHANGED vars
    PROVE  IInv'
<1>1. UNCHANGED <<objs, interval_objs, refio, wait_flag, pipe, pc, sets, timeout>>
  BY DEF Change, Die, GcStarts, GcRests, vars, calls, wakes, loopVars
<1> QED BY <1>1 DEF IInv, Types, Listens, SleepsForAll, Empty

LEMMA NextInv == IInv /\ [Next]_vars => IInv'
<1> SUFFICES ASSUME IInv, [Next]_vars PROVE IInv' OBVIOUS
<1> QED BY CallsInv, AbortInv, PrepareInv, LoopInv, TickInv, OutsideInv
        DEF Next, Loop

\* The loop sleeps for all that is registered, or a byte in the pipe will wake it: no
\* thread can register, detach or give a keep-alive back in a gap between the loop's
\* sections where wait_flag says that it need not be told
\* (fwIO.cpp:76-229, fwIOarch.cpp:101-125, 289-354, 475-481).
THEOREM NeverOversleeps == Spec => []SleepsForAll
<1>1. IInv => SleepsForAll BY DEF IInv
<1> QED BY <1>1, InitInv, NextInv, PTL DEF Spec

-----------------------------------------------------------------------------
(* What is left of a list of registrations.                                *)

\* A position that is left is found at the number of those up to it.
LEMMA Numbered ==
    ASSUME NEW n \in Nat, NEW left \in SUBSET (1..n)
    PROVE  /\ IsFiniteSet(left) /\ Cardinality(left) \in 0..n
           /\ \A i \in left :
                 Cardinality({j \in left : j <= i}) \in 1..Cardinality(left)
           /\ \A m \in 1..Cardinality(left) :
                 \E i \in left : Cardinality({j \in left : j <= i}) = m
           /\ \A i, k \in left :
                 Cardinality({j \in left : j <= i}) = Cardinality({j \in left : j <= k})
                    => i = k
<1> DEFINE upto(i) == {j \in left : j <= i}
           number == [i \in left |-> Cardinality(upto(i))]
<1>1. IsFiniteSet(1..n) /\ Cardinality(1..n) = n
  BY FS_Interval
<1>2. IsFiniteSet(left) /\ Cardinality(left) \in Nat /\ Cardinality(left) <= n
  BY <1>1, FS_Subset, FS_CardinalityType
<1>3. ASSUME NEW i \in left
      PROVE  /\ IsFiniteSet(upto(i)) /\ Cardinality(upto(i)) \in Nat
             /\ Cardinality(upto(i)) \in 1..Cardinality(left)
  <2>1. /\ IsFiniteSet(upto(i)) /\ Cardinality(upto(i)) \in Nat
        /\ Cardinality(upto(i)) <= Cardinality(left)
    <3>1. upto(i) \subseteq left
      OBVIOUS
    <3>2. QED
      BY <1>2, <3>1, FS_Subset, FS_CardinalityType
  <2>2. i \in upto(i)
    OBVIOUS
  <2>3. Cardinality(upto(i)) # 0
    BY <2>1, <2>2, FS_EmptySet
  <2>4. QED
    BY <1>2, <2>1, <2>3
<1>4. ASSUME NEW i \in left, NEW k \in left, i < k
      PROVE  Cardinality(upto(i)) < Cardinality(upto(k))
  <2>0. \A j \in left : j \in Nat
    OBVIOUS
  <2>1. upto(i) \subseteq upto(k) /\ k \in upto(k) /\ k \notin upto(i)
    <3>1. i \in Nat /\ k \in Nat
      BY <2>0
    <3>2. \A j \in left : j <= i => j <= k
      BY <1>4, <2>0, <3>1
    <3>3. k <= k /\ ~(k <= i)
      BY <1>4, <3>1
    <3>4. QED
      BY <3>2, <3>3
  <2>2. upto(i) # upto(k)
    BY <2>1
  <2>3. IsFiniteSet(upto(k))
    BY <1>3
  <2> HIDE DEF upto
  <2>4. Cardinality(upto(i)) <= Cardinality(upto(k))
    BY <2>1, <2>3, FS_Subset
  <2>5. Cardinality(upto(i)) # Cardinality(upto(k))
    BY <2>1, <2>2, <2>3, FS_Subset
  <2>6. Cardinality(upto(i)) \in Nat /\ Cardinality(upto(k)) \in Nat
    BY <1>3
  <2>7. QED
    BY <2>4, <2>5, <2>6
<1>5. ASSUME NEW i \in left, NEW k \in left,
             Cardinality(upto(i)) = Cardinality(upto(k))
      PROVE  i = k
  <2>1. i \in Nat /\ k \in Nat
    OBVIOUS
  <2> HIDE DEF upto
  <2>2. Cardinality(upto(i)) \in Nat
    BY <1>3
  <2>3. ~(i < k) /\ ~(k < i)
    BY <1>4, <1>5, <2>2
  <2>4. QED
    BY <2>1, <2>3
<1>6. number \in [left -> 1..Cardinality(left)]
  <2> HIDE DEF upto
  <2> QED
    BY <1>3
<1>7. number \in Injection(left, 1..Cardinality(left))
  <2> HIDE DEF upto
  <2> QED
    BY <1>5, <1>6 DEF Injection, IsInjective
<1>8. IsFiniteSet(1..Cardinality(left)) /\ Cardinality(1..Cardinality(left)) = Cardinality(left)
  BY <1>2, FS_Interval
<1>9. number \in Surjection(left, 1..Cardinality(left))
  <2> HIDE DEF number
  <2> QED
    BY <1>7, <1>8, FS_Injection
<1>10. ASSUME NEW m \in 1..Cardinality(left)
       PROVE  \E i \in left : Cardinality(upto(i)) = m
  <2> HIDE DEF upto
  <2> QED
    BY <1>9 DEF Surjection
<1>11. QED
  BY <1>2, <1>3, <1>5, <1>10

\* What is left is on the list that was, in its place of the same or a higher number,
\* and nothing that is not taken off is missing.
LEMMA WithoutLeaves ==
    ASSUME NEW s \in Seq(Obj), NEW gone
    PROVE  /\ Without(s, gone) \in Seq(Obj)
           /\ Len(Without(s, gone)) <= Len(s)
           /\ \A i \in 1..Len(s) : s[i] \notin gone =>
                 \E n \in 1..Len(Without(s, gone)) : Without(s, gone)[n] = s[i]
<1> DEFINE left == {i \in 1..Len(s) : s[i] \notin gone}
           count(i) == Cardinality({j \in left : j <= i})
           at(n) == CHOOSE i \in left : count(i) = n
<1>1. Len(s) \in Nat /\ \A i \in 1..Len(s) : s[i] \in Obj
  BY LenProperties, ElementOfSeq
<1>2. left \in SUBSET (1..Len(s))
  OBVIOUS
<1>3. Without(s, gone) = [n \in 1..Cardinality(left) |-> s[at(n)]]
  BY DEF Without
<1> HIDE DEF left
<1>4. /\ Cardinality(left) \in 0..Len(s)
      /\ \A i \in left : count(i) \in 1..Cardinality(left)
      /\ \A n \in 1..Cardinality(left) : \E i \in left : count(i) = n
      /\ \A i, k \in left : count(i) = count(k) => i = k
  BY <1>1, <1>2, Numbered
<1> HIDE DEF count
<1>5. \A n \in 1..Cardinality(left) : at(n) \in left /\ count(at(n)) = n
  BY <1>4
<1> HIDE DEF at
<1>6. \A n \in 1..Cardinality(left) : s[at(n)] \in Obj
  BY <1>1, <1>2, <1>5
<1>7. Without(s, gone) \in Seq(Obj) /\ Len(Without(s, gone)) = Cardinality(left)
  <2>1. Cardinality(left) \in Nat
    BY <1>4
  <2>2. Without(s, gone) \in [1..Cardinality(left) -> Obj]
    BY <1>3, <1>6
  <2>3. Without(s, gone) \in Seq(Obj)
    BY <2>1, <2>2, IsASeq, <1>3, <1>6
  <2>4. DOMAIN Without(s, gone) = 1..Cardinality(left)
    BY <1>3
  <2>5. QED
    BY <2>1, <2>3, <2>4, LenProperties
<1>8. ASSUME NEW i \in 1..Len(s), s[i] \notin gone
      PROVE  \E n \in 1..Len(Without(s, gone)) : Without(s, gone)[n] = s[i]
  <2>1. i \in left
    BY <1>8 DEF left
  <2>2. count(i) \in 1..Cardinality(left)
    BY <1>4, <2>1
  <2>3. at(count(i)) = i
    BY <1>4, <1>5, <2>1, <2>2
  <2>4. Without(s, gone)[count(i)] = s[i]
    BY <1>3, <2>2, <2>3
  <2>5. QED
    BY <1>7, <2>2, <2>4
<1>9. QED
  BY <1>1, <1>4, <1>7, <1>8

-----------------------------------------------------------------------------
(* The types.                                                              *)

\* The lists of registrations, on each channel no longer than the program makes them.
Lists ==
    /\ objs \in [Channel -> Seq(Obj)]
    /\ \A ch \in Channel : Len(objs[ch]) <= MaxReg

LEMMA RegisterLists ==
    ASSUME TypeOK, NEW o \in Obj, NEW ch \in Channel, Register(o, ch)
    PROVE  Lists'
<1> DEFINE new == <<o>> \o objs[ch]
<1>1. objs[ch] \in Seq(Obj) /\ Len(objs[ch]) \in Nat /\ Len(objs[ch]) < MaxReg
  BY LenProperties DEF TypeOK, Register
<1>2. new \in Seq(Obj) /\ Len(new) = 1 + Len(objs[ch])
  <2>1. <<o>> \in Seq(Obj) /\ Len(<<o>>) = 1
    OBVIOUS
  <2>2. QED
    BY <1>1, <2>1, ConcatProperties
<1>3. Len(new) <= MaxReg
  BY <1>1, <1>2, ReactorAssumption
<1>4. objs' = [objs EXCEPT ![ch] = new]
  BY DEF Register
<1> HIDE DEF new
<1>5. QED
  BY <1>2, <1>3, <1>4 DEF Lists, TypeOK

\* A list that some objects are taken off, and one whose head is taken off, is no
\* longer than before.
LEMMA WithoutLists ==
    ASSUME TypeOK, NEW gone,
           \A ch \in Channel : objs'[ch] = Without(objs[ch], gone)
                               \/ objs'[ch] = objs[ch],
           objs' = [ch \in Channel |-> objs'[ch]]
    PROVE  Lists'
<1>1. ASSUME NEW ch \in Channel
      PROVE  objs'[ch] \in Seq(Obj) /\ Len(objs'[ch]) <= MaxReg
  <2>1. objs[ch] \in Seq(Obj) /\ Len(objs[ch]) <= MaxReg
    BY DEF TypeOK
  <2>2. Len(objs[ch]) \in Nat /\ MaxReg \in Nat
    BY <2>1, LenProperties, ReactorAssumption
  <2>3. /\ Without(objs[ch], gone) \in Seq(Obj)
        /\ Len(Without(objs[ch], gone)) <= Len(objs[ch])
    BY <2>1, WithoutLeaves
  <2>4. Len(Without(objs[ch], gone)) \in Nat
    BY <2>3, LenProperties
  <2>5. QED
    BY <2>1, <2>2, <2>3, <2>4
<1>2. QED
  BY <1>1 DEF Lists

LEMMA AbortLists ==
    ASSUME TypeOK, NEW ch \in Channel, abort(ch)
    PROVE  Lists'
<1>1. objs[ch] \in Seq(Obj) /\ objs[ch] # <<>> /\ Len(objs[ch]) <= MaxReg
  BY DEF TypeOK, abort
<1>2. Tail(objs[ch]) \in Seq(Obj) /\ Len(Tail(objs[ch])) = Len(objs[ch]) - 1
  BY <1>1, HeadTailProperties
<1>3. Len(Tail(objs[ch])) <= MaxReg
  BY <1>1, <1>2, LenProperties, ReactorAssumption
<1>4. objs' = [objs EXCEPT ![ch] = Tail(objs[ch])]
  BY DEF abort
<1>5. QED
  BY <1>2, <1>3, <1>4 DEF Lists, TypeOK

LEMMA CallsLists ==
    ASSUME TypeOK,
           \/ \E o \in Obj, ch \in Channel : Register(o, ch)
           \/ \E o \in Obj, t \in Time : Wait(o, t)
           \/ \E o \in Obj, all \in BOOLEAN : Detach(o, all)
           \/ addRefio \/ delRefio \/ \E ch \in Channel : abort(ch)
    PROVE  Lists'
<1>1. CASE \E o \in Obj, ch \in Channel : Register(o, ch)
  BY <1>1, RegisterLists
<1>2. CASE \E o \in Obj, all \in BOOLEAN : Detach(o, all)
  <2>1. PICK o \in Obj, all \in BOOLEAN : Detach(o, all)
    BY <1>2
  <2>2. /\ objs' = [ch \in Channel |-> objs'[ch]]
        /\ \A ch \in Channel : objs'[ch] = Without(objs[ch], {o}) \/ objs'[ch] = objs[ch]
    BY <2>1 DEF Detach
  <2>3. QED
    BY <2>2, WithoutLists
<1>3. CASE \E ch \in Channel : abort(ch)
  BY <1>3, AbortLists
<1>4. CASE addRefio \/ delRefio \/ \E o \in Obj, t \in Time : Wait(o, t)
  <2>1. objs' = objs
    BY <1>4 DEF addRefio, delRefio, Wait
  <2>2. QED
    BY <2>1 DEF Lists, TypeOK
<1>5. QED
  BY <1>1, <1>2, <1>3, <1>4

LEMMA CallsTypes ==
    ASSUME TypeOK,
           \/ \E o \in Obj, ch \in Channel : Register(o, ch)
           \/ \E o \in Obj, t \in Time : Wait(o, t)
           \/ \E o \in Obj, all \in BOOLEAN : Detach(o, all)
           \/ addRefio \/ delRefio \/ \E ch \in Channel : abort(ch)
    PROVE  TypeOK'
<1>1. Lists'
  BY CallsLists
<1>2. interval_objs' \subseteq Obj \X Time
  <2>1. \/ \E o \in Obj, t \in Time : interval_objs' = interval_objs \cup {<<o, t>>}
        \/ interval_objs' \subseteq interval_objs
    BY DEF Register, Wait, Detach, addRefio, delRefio, abort
  <2>2. QED
    BY <2>1 DEF TypeOK
<1>3. refio' \in 0..MaxRefio
  <2>1. \/ refio < MaxRefio /\ refio' = refio + 1
        \/ refio > 0 /\ refio' = refio - 1
        \/ refio' = 0 \/ refio' = refio
    BY DEF Register, Wait, Detach, addRefio, delRefio, abort
  <2>2. refio \in 0..MaxRefio
    BY DEF TypeOK
  <2>3. QED
    BY <2>1, <2>2, ReactorAssumption
<1>4. wait_flag' \in {0, 1} /\ pipe' \in BOOLEAN
  <2>1. writePipe \/ UNCHANGED wakes
    BY DEF Register, Wait, Detach, addRefio, delRefio, abort
  <2>2. CASE writePipe
    BY <2>2 DEF writePipe, TypeOK
  <2>3. CASE UNCHANGED wakes
    BY <2>3 DEF wakes, TypeOK
  <2>4. QED
    BY <2>1, <2>2, <2>3
<1>5. UNCHANGED <<world, loopVars>>
  BY DEF Register, Wait, Detach, addRefio, delRefio, abort
<1>6. QED
  BY <1>1, <1>2, <1>3, <1>4, <1>5 DEF TypeOK, Lists, world, loopVars

LEMMA PrepareTypes == TypeOK /\ LoopPrepare => TypeOK'
<1> SUFFICES ASSUME TypeOK, LoopPrepare PROVE TypeOK'
  OBVIOUS
<1>1. Lists'
  <2>1. /\ objs' = [ch \in Channel |-> objs'[ch]]
        /\ \A ch \in Channel : objs'[ch] = Without(objs[ch], zombie)
    BY DEF LoopPrepare, Living
  <2>2. QED
    BY <2>1, WithoutLists
<1>2. Awaited \subseteq Obj \X Time
  BY DEF Awaited, TypeOK
<1>3. Earliest(Awaited) \in Time \cup {None}
  <2>1. CASE Awaited = {}
    BY <2>1 DEF Earliest
  <2>2. CASE Awaited # {}
    BY <1>2, <2>2, EarliestExists
  <2>3. QED
    BY <2>1, <2>2
<1>4. /\ interval_objs' = Awaited /\ timeout' = Earliest(Awaited)
      /\ sets' \subseteq Channel
      /\ pc' \in {"out", "stable", "select"}
      /\ wait_flag' \in {wait_flag, 0}
      /\ UNCHANGED <<refio, pipe, world, result>>
  BY DEF LoopPrepare
<1>5. QED
  BY <1>1, <1>2, <1>3, <1>4 DEF TypeOK, Lists, world

LEMMA CollectTypes == TypeOK /\ LoopCollect => TypeOK'
<1> SUFFICES ASSUME TypeOK, LoopCollect PROVE TypeOK'
  OBVIOUS
<1>1. Lists'
  <2>1. objs' = [ch \in Channel |-> IF ch \in sets THEN <<>> ELSE objs[ch]]
    BY DEF LoopCollect
  <2>2. <<>> \in Seq(Obj) /\ Len(<<>>) <= MaxReg
    BY EmptySeq, ReactorAssumption
  <2>3. QED
    BY <2>1, <2>2 DEF Lists, TypeOK
<1>2. result' \subseteq Obj
  <2>1. result' = {Head(objs[ch]) : ch \in Found} \cup {w[1] : w \in Due}
    BY DEF LoopCollect
  <2>2. ASSUME NEW ch \in Found
        PROVE  Head(objs[ch]) \in Obj
    <3>1. objs[ch] \in Seq(Obj) /\ objs[ch] # <<>>
      BY DEF Found, TypeOK
    <3>2. QED
      BY <3>1, HeadTailProperties
  <2>3. \A w \in Due : w[1] \in Obj
    BY DEF Due, TypeOK
  <2>4. QED
    BY <2>1, <2>2, <2>3
<1>3. /\ interval_objs' \subseteq interval_objs
      /\ wait_flag' = 1 /\ pipe' = FALSE /\ pc' = "deliver" /\ sets' = {}
      /\ UNCHANGED <<refio, world, timeout>>
  BY DEF LoopCollect
<1>4. QED
  BY <1>1, <1>2, <1>3 DEF TypeOK, Lists, world

LEMMA OtherTypes ==
    ASSUME TypeOK,
           \/ Select \/ LoopDeliver \/ LoopStable \/ Interrupted \/ LoopEnter
           \/ \E ch \in Channel : Change(ch)
           \/ \E o \in Obj : Die(o)
           \/ GcStarts \/ GcRests \/ UNCHANGED vars
    PROVE  TypeOK'
<1>1. CASE Select \/ LoopDeliver \/ LoopStable \/ Interrupted \/ LoopEnter
  <2>1. /\ pc' \in {"collect", "prepare"} /\ sets' \subseteq sets
        /\ timeout' \in {timeout, None} /\ result' \subseteq result
        /\ wait_flag' \in {wait_flag, 1}
        /\ UNCHANGED <<calls, pipe, world>>
    BY <1>1 DEF Select, LoopDeliver, LoopStable, Interrupted, LoopEnter, wakes
  <2>2. QED
    BY <2>1 DEF TypeOK, calls, world
<1>2. CASE \/ \E ch \in Channel : Change(ch)
           \/ \E o \in Obj : Die(o)
           \/ GcStarts \/ GcRests \/ UNCHANGED vars
  <2>1. UNCHANGED <<calls, wakes, loopVars>>
    BY <1>2 DEF Change, Die, GcStarts, GcRests, vars
  <2>2. ready' \subseteq Channel
    BY <1>2 DEF Change, Die, GcStarts, GcRests, vars, world, TypeOK
  <2>3. zombie' \subseteq Obj
    BY <1>2 DEF Change, Die, GcStarts, GcRests, vars, world, TypeOK
  <2>4. is_stable' \in BOOLEAN
    <3>1. is_stable' \in {TRUE, FALSE} \/ is_stable' = is_stable
      BY <1>2 DEF Change, Die, GcStarts, GcRests, vars, world
    <3>2. QED
      BY <3>1 DEF TypeOK
  <2>5. QED
    BY <2>1, <2>2, <2>3, <2>4 DEF TypeOK, calls, wakes, loopVars
<1>3. QED
  BY <1>1, <1>2

LEMMA TickTypes == TypeOK /\ Tick => TypeOK'
<1> SUFFICES ASSUME TypeOK, Tick PROVE TypeOK'
  OBVIOUS
<1>1. \A t \in Time : Sooner(t) \in Time
  BY ReactorAssumption DEF Sooner, Time
<1>2. Sooner(None) = None
  BY DEF Sooner, None
<1>3. interval_objs' \subseteq Obj \X Time
  BY <1>1 DEF Tick, TypeOK
<1>4. timeout' \in Time \cup {None}
  BY <1>1, <1>2 DEF Tick, TypeOK
<1>5. UNCHANGED <<objs, refio, wakes, world, pc, sets, result>>
  BY DEF Tick
<1>6. QED
  BY <1>3, <1>4, <1>5 DEF TypeOK, wakes, world

\* For any objects, descriptors and bounds every reachable state is well typed: whatever
\* is detached, aborted or dropped, only what was registered is ever told, and a
\* timeout does not pass 0 (fwIO.cpp:76-229, fwIOarch.cpp:277-481).
THEOREM TypeInvariant == Spec => []TypeOK
<1>1. Init => TypeOK
  <2> SUFFICES ASSUME Init PROVE TypeOK
    OBVIOUS
  <2>1. <<>> \in Seq(Obj) /\ Len(<<>>) = 0
    BY EmptySeq
  <2>2. 0 <= MaxReg /\ 0 \in 0..MaxRefio
    BY ReactorAssumption
  <2>3. objs \in [Channel -> Seq(Obj)] /\ \A ch \in Channel : Len(objs[ch]) <= MaxReg
    BY <2>1, <2>2 DEF Init
  <2>4. QED
    BY <2>2, <2>3 DEF Init, TypeOK
<1>2. TypeOK /\ [Next]_vars => TypeOK'
  BY CallsTypes, PrepareTypes, CollectTypes, OtherTypes, TickTypes DEF Next, Loop
<1>3. QED
  BY <1>1, <1>2, PTL DEF Spec

-----------------------------------------------------------------------------
(* What loop() takes away.                                                 *)

LEMMA PrepareTells ==
    ASSUME TypeOK, LoopPrepare
    PROVE  /\ \A ch \in Channel, o \in Obj : Holds(o, ch) /\ ~(Holds(o, ch)') => o \in zombie
           /\ \A w \in interval_objs \ interval_objs' : w[1] \in zombie
<1>1. ASSUME NEW ch \in Channel, NEW o \in Obj, Holds(o, ch), o \notin zombie
      PROVE  Holds(o, ch)'
  <2>1. objs[ch] \in Seq(Obj) /\ objs'[ch] = Without(objs[ch], zombie)
    BY DEF TypeOK, LoopPrepare, Living
  <2>2. PICK i \in 1..Len(objs[ch]) : objs[ch][i] = o
    BY <1>1 DEF Holds
  <2>3. \E n \in 1..Len(objs'[ch]) : objs'[ch][n] = objs[ch][i]
    BY <1>1, <2>1, <2>2, WithoutLeaves
  <2>4. QED
    BY <2>2, <2>3 DEF Holds
<1>2. interval_objs' = Awaited
  BY DEF LoopPrepare
<1>3. QED
  BY <1>1, <1>2 DEF Awaited

LEMMA CollectTells ==
    ASSUME TypeOK, LoopCollect
    PROVE  /\ \A ch \in Channel, o \in Obj : Holds(o, ch) /\ ~(Holds(o, ch)') =>
                 o \in result' \/ objs[ch][1] \in result' \ {o}
           /\ \A w \in interval_objs \ interval_objs' : w[2] = 0 /\ w[1] \in result'
<1>1. ASSUME NEW ch \in Channel, NEW o \in Obj, Holds(o, ch), ~(Holds(o, ch)')
      PROVE  o \in result' \/ objs[ch][1] \in result' \ {o}
  <2>1. ch \in sets
    BY <1>1 DEF Holds, LoopCollect
  <2>2. objs[ch] \in Seq(Obj) /\ objs[ch] # <<>>
    <3>1. PICK i \in 1..Len(objs[ch]) : objs[ch][i] = o
      BY <1>1 DEF Holds
    <3>2. objs[ch] \in Seq(Obj)
      BY DEF TypeOK
    <3>3. QED
      BY <3>1, <3>2, EmptySeq
  <2>3. Head(objs[ch]) \in result' /\ Head(objs[ch]) = objs[ch][1]
    <3>1. ch \in Found
      BY <2>1, <2>2 DEF Found
    <3>2. QED
      BY <2>2, <3>1, HeadTailProperties DEF LoopCollect
  <2>4. QED
    BY <2>3
<1>2. interval_objs' = interval_objs \ Due /\ \A w \in Due : w[1] \in result'
  BY DEF LoopCollect
<1>3. QED
  BY <1>1, <1>2 DEF Due

\* What loop() takes off its lists it tells, unless its object has ended or, on a
\* channel that is ready, stood behind another that is told: nothing that was
\* registered is forgotten silently (fwIOarch.cpp:289-354, 429-476).
THEOREM NothingForgotten == Spec => TellsWhatItTakes
<1> DEFINE Tells ==
       pc' # pc =>
         /\ \A ch \in Channel, o \in Obj : Holds(o, ch) /\ ~(Holds(o, ch)') =>
               o \in zombie \cup result' \/ objs[ch][1] \in result' \ {o}
         /\ \A w \in interval_objs \ interval_objs' :
               w[1] \in zombie \/ (w[2] = 0 /\ w[1] \in result')
<1>1. TypeOK /\ [Next]_vars => [Tells]_vars
  <2> SUFFICES ASSUME TypeOK, Next, pc' # pc PROVE Tells
    BY DEF vars
  <2>1. CASE LoopPrepare
    BY <2>1, PrepareTells
  <2>2. CASE LoopCollect
    BY <2>2, CollectTells
  <2>3. CASE Select \/ LoopDeliver \/ LoopStable \/ Interrupted \/ LoopEnter
    <3>1. UNCHANGED <<objs, interval_objs>>
      BY <2>3 DEF Select, LoopDeliver, LoopStable, Interrupted, LoopEnter, calls
    <3>2. \A ch \in Channel, o \in Obj : Holds(o, ch) => Holds(o, ch)'
      BY <3>1 DEF Holds
    <3>3. QED
      BY <3>1, <3>2
  <2>4. LoopPrepare \/ LoopCollect \/ Select \/ LoopDeliver \/ LoopStable
          \/ Interrupted \/ LoopEnter
    BY DEF Next, Loop, Register, Wait, Detach, addRefio, delRefio, abort, Change, Die,
       GcStarts, GcRests, Tick, loopVars
  <2>5. QED
    BY <2>1, <2>2, <2>3, <2>4
<1>2. QED
  BY <1>1, TypeInvariant, PTL DEF Spec, TellsWhatItTakes
=============================================================================
