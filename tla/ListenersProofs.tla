-------------------------- MODULE ListenersProofs --------------------------
(***************************************************************************)
(* Proofs about Listeners, for any objects, threads and bounds: the two    *)
(* ends of a registration agree.                                           *)
(*                                                                         *)
(* The invariant says what the lists of a live object, the fields of a     *)
(* registration and the threads that work on it know of one another.  An   *)
(* object that ends may lose and revive registrations, as its lists are    *)
(* swept without lm, but never for the object at the other end.            *)
(***************************************************************************)
EXTENDS Listeners, SequenceTheorems, WellFoundedInduction, TLAPS

-----------------------------------------------------------------------------
(* Lists.                                                                  *)

LEMMA ToSetIs ==
    ASSUME NEW S, NEW s \in Seq(S)
    PROVE  ToSet(s) = {s[i] : i \in 1..Len(s)} /\ ToSet(s) \subseteq S
<1>1. DOMAIN s = 1..Len(s)
  BY LenProperties
<1>2. \A i \in 1..Len(s) : s[i] \in S
  BY ElementOfSeq
<1>3. QED
  BY <1>1, <1>2 DEF ToSet

LEMMA InjectiveIs ==
    ASSUME NEW S, NEW s \in Seq(S)
    PROVE  IsInjective(s) <=> \A i, j \in 1..Len(s) : s[i] = s[j] => i = j
<1>1. DOMAIN s = 1..Len(s)
  BY LenProperties
<1>2. QED
  BY <1>1 DEF IsInjective

LEMMA EmptyList == ToSet(<<>>) = {} /\ IsInjective(<<>>) /\ <<>> \in Seq(Nat)
<1>1. PICK s \in Seq(Nat) : s = <<>> /\ Len(s) = 0
  BY EmptySeq
<1>2. ToSet(s) = {s[i] : i \in 1..Len(s)}
  BY ToSetIs
<1>3. 1..Len(s) = {}
  BY <1>1
<1>4. ToSet(s) = {}
  BY <1>2, <1>3
<1>5. IsInjective(s)
  BY <1>3, InjectiveIs
<1>6. QED
  BY <1>1, <1>4, <1>5

LEMMA AppendList ==
    ASSUME NEW s \in Seq(Nat), NEW e \in Nat
    PROVE  /\ Append(s, e) \in Seq(Nat)
           /\ ToSet(Append(s, e)) = ToSet(s) \cup {e}
           /\ IsInjective(s) /\ e \notin ToSet(s) => IsInjective(Append(s, e))
<1> DEFINE a == Append(s, e)
<1>1. /\ Len(s) \in Nat /\ a \in Seq(Nat) /\ Len(a) = Len(s) + 1
      /\ \A i \in 1..Len(s) : a[i] = s[i]
      /\ a[Len(s) + 1] = e
  BY AppendProperties, LenProperties
<1> HIDE DEF a
<1>2. ToSet(s) = {s[i] : i \in 1..Len(s)} /\ ToSet(a) = {a[i] : i \in 1..Len(a)}
  BY <1>1, ToSetIs
<1>3. \A i \in 1..Len(a) : i \in 1..Len(s) \/ i = Len(s) + 1
  BY <1>1
<1>4. \A i \in 1..Len(s) : i \in 1..Len(a)
  BY <1>1
<1>5. Len(s) + 1 \in 1..Len(a)
  BY <1>1
<1>6. ToSet(a) = ToSet(s) \cup {e}
  BY <1>1, <1>2, <1>3, <1>4, <1>5
<1>7. ASSUME IsInjective(s), e \notin ToSet(s),
             NEW i \in 1..Len(a), NEW j \in 1..Len(a), a[i] = a[j]
      PROVE  i = j
  <2>1. \A k \in 1..Len(s) : a[k] \in ToSet(s)
    BY <1>1, <1>2
  <2>2. CASE i \in 1..Len(s) /\ j \in 1..Len(s)
    BY <1>1, <1>7, <2>2, InjectiveIs
  <2>3. CASE i = Len(s) + 1 \/ j = Len(s) + 1
    BY <1>1, <1>3, <1>7, <2>1, <2>3
  <2>4. QED
    BY <1>3, <2>2, <2>3
<1>8. IsInjective(s) /\ e \notin ToSet(s) => IsInjective(a)
  BY <1>1, <1>7, InjectiveIs
<1>9. QED
  BY <1>1, <1>6, <1>8 DEF a

LEMMA ConsList ==
    ASSUME NEW s \in Seq(Nat), NEW e \in Nat
    PROVE  /\ <<e>> \o s \in Seq(Nat)
           /\ ToSet(<<e>> \o s) = ToSet(s) \cup {e}
           /\ IsInjective(s) /\ e \notin ToSet(s) => IsInjective(<<e>> \o s)
<1> DEFINE a == <<e>> \o s
<1>1. <<e>> \in Seq(Nat) /\ Len(<<e>>) = 1 /\ <<e>>[1] = e
  OBVIOUS
<1>2. /\ Len(s) \in Nat /\ a \in Seq(Nat) /\ Len(a) = Len(s) + 1
      /\ a[1] = e /\ \A i \in 2..Len(a) : a[i] = s[i - 1]
  <2>1. /\ a \in Seq(Nat) /\ Len(a) = Len(<<e>>) + Len(s)
        /\ \A i \in 1..(Len(<<e>>) + Len(s)) :
              a[i] = IF i <= Len(<<e>>) THEN <<e>>[i] ELSE s[i - Len(<<e>>)]
    BY <1>1, ConcatProperties
  <2>2. Len(s) \in Nat
    BY LenProperties
  <2> HIDE DEF a
  <2>3. QED
    BY <1>1, <2>1, <2>2
<1> HIDE DEF a
<1>3. ToSet(s) = {s[i] : i \in 1..Len(s)} /\ ToSet(a) = {a[i] : i \in 1..Len(a)}
  BY <1>2, ToSetIs
<1>4. \A i \in 1..Len(a) : i = 1 \/ (i \in 2..Len(a) /\ i - 1 \in 1..Len(s))
  BY <1>2
<1>5. \A i \in 1..Len(s) : i + 1 \in 2..Len(a) /\ i + 1 \in 1..Len(a) /\ (i + 1) - 1 = i
  BY <1>2
<1>6. 1 \in 1..Len(a)
  BY <1>2
<1>7. ToSet(a) = ToSet(s) \cup {e}
  <2>1. \A i \in 1..Len(s) : s[i] = a[i + 1]
    BY <1>2, <1>5
  <2>2. \A i \in 1..Len(a) : a[i] \in ToSet(s) \cup {e}
    BY <1>2, <1>3, <1>4
  <2>3. \A i \in 1..Len(s) : s[i] \in ToSet(a)
    BY <1>3, <1>5, <2>1
  <2>4. e \in ToSet(a)
    BY <1>2, <1>3, <1>6
  <2>5. QED
    BY <1>3, <2>2, <2>3, <2>4
<1>8. ASSUME IsInjective(s), e \notin ToSet(s),
             NEW i \in 1..Len(a), NEW j \in 1..Len(a), a[i] = a[j]
      PROVE  i = j
  <2>1. \A k \in 2..Len(a) : k - 1 \in 1..Len(s) /\ a[k] = s[k - 1] /\ a[k] \in ToSet(s)
    BY <1>2, <1>3
  <2>2. CASE i # 1 /\ j # 1
    <3>1. i \in 2..Len(a) /\ j \in 2..Len(a)
      BY <2>2
    <3>2. i - 1 = j - 1
      BY <1>8, <2>1, <3>1, InjectiveIs
    <3>3. QED
      BY <3>1, <3>2
  <2>3. CASE i = 1 \/ j = 1
    BY <1>2, <1>4, <1>8, <2>1, <2>3
  <2>4. QED
    BY <2>2, <2>3
<1>9. IsInjective(s) /\ e \notin ToSet(s) => IsInjective(a)
  BY <1>2, <1>8, InjectiveIs
<1>10. QED
  BY <1>2, <1>7, <1>9 DEF a

LEMMA HeadTailList ==
    ASSUME NEW s \in Seq(Nat), s # <<>>
    PROVE  /\ Head(s) \in Nat /\ Tail(s) \in Seq(Nat)
           /\ ToSet(s) = {Head(s)} \cup ToSet(Tail(s))
<1>1. /\ Len(s) \in Nat /\ Len(s) >= 1 /\ Head(s) = s[1] /\ Head(s) \in Nat
      /\ Tail(s) \in Seq(Nat) /\ Len(Tail(s)) = Len(s) - 1
      /\ \A i \in 1..Len(Tail(s)) : Tail(s)[i] = s[i + 1]
  BY HeadTailProperties, LenProperties, EmptySeq
<1>2. /\ ToSet(s) = {s[i] : i \in 1..Len(s)}
      /\ ToSet(Tail(s)) = {Tail(s)[i] : i \in 1..Len(Tail(s))}
  BY <1>1, ToSetIs
<1>3. \A i \in 1..Len(Tail(s)) : i + 1 \in 1..Len(s)
  BY <1>1
<1>4. \A i \in 1..Len(s) : i = 1 \/ (i - 1 \in 1..Len(Tail(s)) /\ (i - 1) + 1 = i)
  BY <1>1
<1>5. 1 \in 1..Len(s)
  BY <1>1
<1>6. ToSet(Tail(s)) \subseteq ToSet(s) /\ Head(s) \in ToSet(s)
  BY <1>1, <1>2, <1>3, <1>5
<1>7. \A i \in 1..Len(s) : s[i] \in {Head(s)} \cup ToSet(Tail(s))
  BY <1>1, <1>2, <1>4
<1>8. QED
  BY <1>1, <1>2, <1>6, <1>7

\* del(eh, 0) takes a registration off a list that does not name it twice.
LEMMA RemoveList ==
    ASSUME NEW s \in Seq(Nat), NEW e
    PROVE  /\ RemoveFirst(s, e) \in Seq(Nat)
           /\ ToSet(RemoveFirst(s, e)) \subseteq ToSet(s)
           /\ IsInjective(s) => /\ IsInjective(RemoveFirst(s, e))
                                /\ ToSet(RemoveFirst(s, e)) = ToSet(s) \ {e}
<1>0. Len(s) \in Nat /\ ToSet(s) = {s[i] : i \in 1..Len(s)}
  BY LenProperties, ToSetIs
<1>1. CASE ~\E i \in 1..Len(s) : s[i] = e
  BY <1>0, <1>1 DEF RemoveFirst
<1>2. CASE \E i \in 1..Len(s) : s[i] = e
  <2>1. PICK p \in 1..Len(s) : s[p] = e /\ RemoveFirst(s, e) = RemoveAt(s, p)
    <3> DEFINE I == {i \in 1..Len(s) : s[i] = e}
    <3>1. RemoveFirst(s, e) = RemoveAt(s, Min(I))
      BY <1>2 DEF RemoveFirst, SelectInSeq
    <3>2. I \subseteq Nat /\ I # {}
      BY <1>2
    <3>3. PICK m \in I : \A i \in I : ~(<<i, m>> \in OpToRel(<, Nat))
      <4> HIDE DEF I
      <4> QED
        BY <3>2, NatLessThanWellFounded, WFMin
    <3>4. \A i \in I : m <= i
      <4> SUFFICES ASSUME NEW i \in I, i < m PROVE FALSE
        BY <3>2
      <4> HIDE DEF I
      <4>1. <<i, m>> \in OpToRel(<, Nat)
        BY <3>2 DEF OpToRel
      <4> QED
        BY <3>3, <4>1
    <3>5. Min(I) \in I
      <4> HIDE DEF I
      <4> QED
        BY <3>3, <3>4 DEF Min
    <3>6. QED
      BY <3>1, <3>5
  <2> DEFINE q == RemoveFirst(s, e)
             front == SubSeq(s, 1, p - 1)
             back == SubSeq(s, p + 1, Len(s))
  <2>2. /\ front \in Seq(Nat) /\ Len(front) = p - 1
        /\ \A j \in 1..(p - 1) : front[j] = s[j]
    BY <1>0, SubSeqProperties
  <2>3. /\ back \in Seq(Nat) /\ Len(back) = Len(s) - p
        /\ \A j \in 1..(Len(s) - p) : back[j] = s[p + j]
    <3>1. CASE p = Len(s)
      BY <1>0, <3>1, SubSeqEmpty, EmptySeq
    <3>2. CASE p < Len(s)
      BY <1>0, <3>2, SubSeqProperties
    <3>3. QED
      BY <1>0, <3>1, <3>2
  <2>4. q = front \o back
    BY <2>1 DEF RemoveAt
  <2> HIDE DEF front, back
  <2>5. /\ q \in Seq(Nat) /\ Len(q) = Len(front) + Len(back)
        /\ \A j \in 1..(Len(front) + Len(back)) :
              q[j] = IF j <= Len(front) THEN front[j] ELSE back[j - Len(front)]
    <3> HIDE DEF q
    <3> QED
      BY <2>2, <2>3, <2>4, ConcatProperties
  <2> HIDE DEF q
  <2>6. Len(q) = Len(s) - 1
    BY <1>0, <2>2, <2>3, <2>5
  <2>7. \A j \in 1..Len(q) : q[j] = IF j < p THEN s[j] ELSE s[j + 1]
    <3>1. ASSUME NEW j \in 1..Len(q)
          PROVE  q[j] = IF j < p THEN s[j] ELSE s[j + 1]
      <4>1. CASE j < p
        BY <1>0, <2>2, <2>3, <2>5, <4>1
      <4>2. CASE ~(j < p)
        <5>1. j - (p - 1) \in 1..(Len(s) - p) /\ p + (j - (p - 1)) = j + 1
          BY <1>0, <2>6, <4>2
        <5>2. q[j] = back[j - (p - 1)]
          BY <1>0, <2>2, <2>3, <2>5, <4>2
        <5>3. QED
          BY <2>3, <4>2, <5>1, <5>2
      <4>3. QED
        BY <4>1, <4>2
    <3>2. QED
      BY <3>1
  <2> DEFINE was(j) == IF j < p THEN j ELSE j + 1
  <2>8. \A j \in 1..Len(q) : was(j) \in 1..Len(s) /\ was(j) # p /\ q[j] = s[was(j)]
    BY <1>0, <2>6, <2>7
  <2>9. \A i \in 1..Len(s) : i # p => \E j \in 1..Len(q) : was(j) = i
    <3>1. ASSUME NEW i \in 1..Len(s), i # p
          PROVE  \E j \in 1..Len(q) : was(j) = i
      <4>1. CASE i < p
        <5>1. i \in 1..Len(q) /\ was(i) = i
          BY <1>0, <2>6, <4>1
        <5>2. QED
          BY <5>1
      <4>2. CASE i > p
        <5>1. i - 1 \in 1..Len(q) /\ was(i - 1) = i
          BY <1>0, <2>6, <4>2
        <5>2. QED
          BY <5>1
      <4>3. QED
        BY <3>1, <4>1, <4>2
    <3>2. QED
      BY <3>1
  <2>10. \A i, j \in 1..Len(q) : was(i) = was(j) => i = j
    BY <1>0, <2>6
  <2> HIDE DEF was
  <2>11. ToSet(q) = {q[j] : j \in 1..Len(q)}
    BY <2>5, ToSetIs
  <2>12. ToSet(q) \subseteq ToSet(s)
    BY <1>0, <2>8, <2>11
  <2>13. ASSUME IsInjective(s)
         PROVE  IsInjective(q) /\ ToSet(q) = ToSet(s) \ {e}
    <3>1. \A i, j \in 1..Len(s) : s[i] = s[j] => i = j
      BY <2>13, InjectiveIs
    <3>2. \A i, j \in 1..Len(q) : q[i] = q[j] => i = j
      BY <2>8, <2>10, <3>1
    <3>3. IsInjective(q)
      BY <2>5, <3>2, InjectiveIs
    <3>4. e \notin ToSet(q)
      BY <2>1, <2>8, <2>11, <3>1
    <3>5. \A i \in 1..Len(s) : i # p => s[i] \in ToSet(q)
      BY <2>8, <2>9, <2>11
    <3>6. QED
      BY <1>0, <2>1, <2>12, <3>3, <3>4, <3>5
  <2>14. QED
    BY <2>5, <2>12, <2>13 DEF q
<1>3. QED
  BY <1>1, <1>2

-----------------------------------------------------------------------------
(* The invariant.                                                          *)

Frame ==
    [pc : {"none", "fn", "add", "look", "done", "clean", "hook", "src", "lsn",
           "last", "sweep", "pop", "tell", "call", "told"},
     obj : Object \cup {NoObj}, reg : Nat,
     src : Object \cup {NoObj}, lsn : Object \cup {NoObj},
     todo : Seq(Nat), took : BOOLEAN, last : BOOLEAN]

\* The dispatch a thread is in, if any.
NoFrame == [NewFrame(NoObj, FALSE) EXCEPT !.pc = "none"]
Cur == [t \in Thread |-> IF call[t] = <<>> THEN NoFrame ELSE call[t][1]]

Alive == {o \in Object : st[o] = "live"}

\* What a frame is like, wherever it is in a stack, with m registrations made and
\* the objects L alive: the registration a step works on and its ends are filled in,
\* and who has begun to end is not alive any more.
Well(f, m, L) ==
    /\ f.obj \in Object /\ f.pc # "none"
    /\ f.reg \in 0..m /\ ToSet(f.todo) \subseteq 1..m
    /\ f.pc \in {"add", "hook", "src", "lsn", "pop"} => f.reg # 0
    /\ f.pc \notin {"add", "look", "pop", "hook", "src"} => f.src = NoObj
    /\ f.pc \notin {"pop", "hook", "src", "lsn", "told"} => f.lsn = NoObj
    /\ f.pc = "call" => f.todo # <<>>
    /\ f.pc = "pop" => {f.src, f.lsn} \subseteq {f.obj, NoObj}
    /\ f.pc \in {"fn", "add", "look", "done", "clean"} => ~f.last
    /\ f.last \/ f.pc \in {"last", "sweep", "pop"} => f.obj \notin L

\* Below the innermost dispatch a thread is in calls of handlers.
Stack(c, m, L) ==
    /\ c \in Seq(Frame)
    /\ \A i \in 1..Len(c) : Well(c[i], m, L) /\ (i > 1 => c[i].pc = "told")

Stacks ==
    /\ DOMAIN call = Thread
    /\ \A t \in Thread : Stack(call[t], made, Alive)

Fields ==
    /\ made \in 0..MaxReg /\ DOMAIN st = Object
    /\ source \in [Reg -> Object \cup {NoObj}]
    /\ listener \in [Reg -> Object \cup {NoObj}]
    /\ \A e \in Reg : source[e] = NoObj <=> listener[e] = NoObj

\* No list names a registration that has not been made.
List(s, m) == s \in Seq(Nat) /\ ToSet(s) \subseteq 1..m
Lists ==
    /\ DOMAIN event_listener = Object /\ DOMAIN handle_list = Object
    /\ \A o \in Object : List(event_listener[o], made) /\ List(handle_list[o], made)

Shape == Stacks /\ Fields /\ Lists /\ DOMAIN lm = Object

\* No list of an object that is alive names a registration twice.
Single ==
    \A o \in Alive : IsInjective(event_listener[o]) /\ IsInjective(handle_list[o])

\* A frame f is about to put registration e on its listener's list, or to take it off
\* both lists.
Adds(f, e) == f.pc = "add" /\ f.reg = e
Drops(f, e) ==
    \/ f.pc \in {"clean", "hook", "src", "lsn"} /\ ~f.last /\ e \in ToSet(f.todo)
    \/ f.pc = "hook" /\ f.reg = e

\* f has cleared e and goes to its source s, or to its listener l.
ToSource(f, e, s) == f.pc = "src" /\ f.reg = e /\ f.src = s
ToListener(f, e, l) == f.pc \in {"src", "lsn"} /\ f.reg = e /\ f.lsn = l

Linked(e) == e \in 1..made /\ source[e] # NoObj
Cleared(e) == e \in 1..made /\ source[e] = NoObj

\* The source's list names exactly its registrations; the listener's names no other,
\* and misses one only while a thread is at work on it.
LinkedAgree ==
    \A e : Linked(e) =>
       /\ \A o \in Alive : e \in ToSet(event_listener[o]) <=> o = source[e]
       /\ \A o \in Alive : e \in ToSet(handle_list[o]) => o = listener[e]
       /\ listener[e] \in Alive =>
             \/ e \in ToSet(handle_list[listener[e]])
             \/ \E t \in Thread : Adds(Cur[t], e) \/ Drops(Cur[t], e)

\* A list that still names a cleared registration has a thread on the way to it.
ClearedAgree ==
    \A e : Cleared(e) =>
       /\ \A o \in Alive : e \in ToSet(event_listener[o]) =>
             \E t \in Thread : ToSource(Cur[t], e, o)
       /\ \A o \in Alive : e \in ToSet(handle_list[o]) =>
             \E t \in Thread : ToListener(Cur[t], e, o)

\* A thread that adds a registration holds the source's lm.  Whoever cleared the
\* registration meanwhile waits for that lm, and comes to the listener after it.
AddsWell(t) ==
    Cur[t].pc = "add" =>
       /\ Cur[t].src \in Object /\ lm[Cur[t].src] = t
       /\ Linked(Cur[t].reg) =>
             source[Cur[t].reg] = Cur[t].src /\ listener[Cur[t].reg] = Cur[t].obj
       /\ Cleared(Cur[t].reg) =>
             \E u \in Thread : /\ ToSource(Cur[u], Cur[t].reg, Cur[t].src)
                               /\ ToListener(Cur[u], Cur[t].reg, Cur[t].obj)
       /\ \A o \in Alive : Cur[t].reg \notin ToSet(handle_list[o])
       /\ \A u \in Thread : Adds(Cur[u], Cur[t].reg) => u = t

Adding == \A t \in Thread : AddsWell(t)

Removing == \A t \in Thread : Cur[t].pc \in {"src", "lsn"} => Cleared(Cur[t].reg)

\* Nobody is registered with the same source twice.
Once ==
    \A d, e : /\ Linked(d) /\ Linked(e)
              /\ source[d] = source[e] /\ listener[d] = listener[e]
              /\ source[e] \in Alive
              => d = e

Agree == Single /\ LinkedAgree /\ ClearedAgree /\ Adding /\ Removing /\ Once
IInv == Shape /\ Agree

-----------------------------------------------------------------------------
(* Stacks.                                                                 *)

LEMMA WellKeeps ==
    ASSUME NEW f, NEW m \in Nat, NEW n \in Nat, m <= n, NEW K, NEW L, K \subseteq L,
           Well(f, m, L)
    PROVE  Well(f, n, K)
<1>1. 1..m \subseteq 1..n /\ 0..m \subseteq 0..n
  OBVIOUS
<1>2. QED
  BY <1>1 DEF Well

\* The innermost dispatch of a thread that is in one.
LEMMA TopIs ==
    ASSUME Shape, NEW t \in Thread, call[t] # <<>>
    PROVE  /\ Cur[t] = Top(t) /\ Top(t) \in Frame /\ Well(Top(t), made, Alive)
           /\ Tail(call[t]) \in Seq(Frame)
           /\ \A i \in 1..Len(Tail(call[t])) :
                 Well(Tail(call[t])[i], made, Alive) /\ Tail(call[t])[i].pc = "told"
<1>1. Stack(call[t], made, Alive)
  BY DEF Shape, Stacks
<1>2. PICK c \in Seq(Frame) : c = call[t] /\ c # <<>>
  BY <1>1 DEF Stack
<1>3. /\ Len(c) \in Nat /\ Len(c) >= 1 /\ c[1] \in Frame
      /\ Tail(c) \in Seq(Frame) /\ Len(Tail(c)) = Len(c) - 1
      /\ \A i \in 1..Len(Tail(c)) : Tail(c)[i] = c[i + 1]
  <2>1. Len(c) \in Nat /\ Len(c) # 0
    BY <1>2, LenProperties, EmptySeq
  <2>2. 1 \in 1..Len(c)
    BY <2>1
  <2>3. c[1] \in Frame
    BY <2>2, ElementOfSeq
  <2>4. /\ Tail(c) \in Seq(Frame) /\ Len(Tail(c)) = Len(c) - 1
        /\ \A i \in 1..Len(Tail(c)) : Tail(c)[i] = c[i + 1]
    BY <1>2, HeadTailProperties
  <2>5. QED
    BY <2>1, <2>3, <2>4
<1>4. \A i \in 1..Len(Tail(c)) : i + 1 \in 1..Len(c) /\ i + 1 > 1
  BY <1>3
<1>5. \A i \in 1..Len(c) : Well(c[i], made, Alive) /\ (i > 1 => c[i].pc = "told")
  BY <1>1, <1>2 DEF Stack
<1>6. \A i \in 1..Len(Tail(c)) : Well(Tail(c)[i], made, Alive) /\ Tail(c)[i].pc = "told"
  <2> HIDE DEF Well
  <2>1. QED
    BY <1>3, <1>4, <1>5
<1>7. 1 \in 1..Len(c)
  BY <1>3
<1>8. Well(c[1], made, Alive)
  BY <1>5, <1>7
<1>9. Cur[t] = c[1] /\ Top(t) = c[1]
  BY <1>2 DEF Cur, Top
<1>10. QED
  BY <1>2, <1>3, <1>6, <1>8, <1>9

LEMMA IdleIs ==
    ASSUME NEW t \in Thread, call[t] = <<>>
    PROVE  Cur[t] = NoFrame /\ Cur[t].pc = "none" /\ Cur[t].reg = 0
BY DEF Cur, NoFrame, NewFrame

\* What a thread works on has been made.
LEMMA WorksOnMade ==
    ASSUME Shape, NEW t \in Thread
    PROVE  Cur[t].reg \in 0..made
<1>1. CASE call[t] = <<>>
  BY <1>1, IdleIs DEF Shape, Fields, ListenersAssumption
<1>2. CASE call[t] # <<>>
  BY <1>2, TopIs DEF Well
<1>3. QED
  BY <1>1, <1>2

\* A step that gives thread t the stack c, makes registrations or lets objects end.
LEMMA NewStack ==
    ASSUME Shape, NEW t \in Thread, NEW c, Stack(c, made', Alive'),
           call' = [call EXCEPT ![t] = c],
           Alive' \subseteq Alive, made' \in Nat, made <= made'
    PROVE  /\ Stacks'
           /\ Cur' = [Cur EXCEPT ![t] = IF c = <<>> THEN NoFrame ELSE c[1]]
<1>0. made \in Nat
  BY ListenersAssumption DEF Shape, Fields, ListenersAssumption
<1>1. ASSUME NEW u \in Thread, u # t PROVE Stack(call[u], made', Alive')
  <2>1. Stack(call[u], made, Alive)
    BY DEF Shape, Stacks
  <2>2. \A i \in 1..Len(call[u]) : Well(call[u][i], made, Alive)
    BY <2>1 DEF Stack
  <2>3. \A i \in 1..Len(call[u]) : Well(call[u][i], made', Alive')
    BY <1>0, <2>2, WellKeeps
  <2>4. QED
    BY <2>1, <2>3 DEF Stack
<1>2. DOMAIN call' = Thread /\ call'[t] = c /\ \A u \in Thread : u # t => call'[u] = call[u]
  BY DEF Shape, Stacks
<1>3. \A u \in Thread : Stack(call'[u], made', Alive')
  BY <1>1, <1>2
<1>4. Stacks'
  BY <1>2, <1>3 DEF Stacks
<1>5. Cur' = [Cur EXCEPT ![t] = IF c = <<>> THEN NoFrame ELSE c[1]]
  BY <1>2 DEF Cur
<1>6. QED
  BY <1>4, <1>5

LEMMA PutStack ==
    ASSUME Shape, NEW t \in Thread, call[t] # <<>>, NEW g \in Frame, Put(t, g),
           Well(g, made', Alive'), Alive' \subseteq Alive, made' \in Nat, made <= made'
    PROVE  Stacks' /\ Cur' = [Cur EXCEPT ![t] = g]
<1>0. made \in Nat
  BY ListenersAssumption DEF Shape, Fields, ListenersAssumption
<1>1. PICK r \in Seq(Frame) :
         /\ r = Tail(call[t])
         /\ \A i \in 1..Len(r) : Well(r[i], made, Alive) /\ r[i].pc = "told"
  BY TopIs
<1>2. PICK c : c = <<g>> \o r
  OBVIOUS
<1>3. <<g>> \in Seq(Frame) /\ Len(<<g>>) = 1 /\ <<g>>[1] = g
  OBVIOUS
<1>4. /\ c \in Seq(Frame) /\ Len(c) = 1 + Len(r) /\ Len(r) \in Nat
      /\ \A i \in 1..(1 + Len(r)) : c[i] = IF i <= 1 THEN <<g>>[i] ELSE r[i - 1]
  BY <1>2, <1>3, ConcatProperties, LenProperties
<1>5. c[1] = g /\ c # <<>>
  BY <1>3, <1>4, EmptySeq
<1>6. \A i \in 1..Len(c) : i = 1 \/ (i - 1 \in 1..Len(r) /\ c[i] = r[i - 1])
  BY <1>4
<1>7. \A i \in 1..Len(r) : Well(r[i], made', Alive')
  BY <1>0, <1>1, WellKeeps
<1>8. \A i \in 1..Len(c) : Well(c[i], made', Alive') /\ (i > 1 => c[i].pc = "told")
  <2>1. ASSUME NEW i \in 1..Len(c)
        PROVE  Well(c[i], made', Alive') /\ (i > 1 => c[i].pc = "told")
    <3>1. CASE i = 1
      BY <1>5, <3>1
    <3>2. CASE i - 1 \in 1..Len(r) /\ c[i] = r[i - 1]
      BY <1>1, <1>7, <3>2
    <3>3. QED
      BY <1>6, <3>1, <3>2
  <2>2. QED
    BY <2>1
<1>9. Stack(c, made', Alive')
  BY <1>4, <1>8 DEF Stack
<1>10. call' = [call EXCEPT ![t] = c]
  BY <1>1, <1>2 DEF Put
<1>11. QED
  BY <1>5, <1>9, <1>10, NewStack

\* A function begins on an idle thread or in a handler.
LEMMA PushStack ==
    ASSUME Shape, NEW t \in Thread, call[t] = <<>> \/ Top(t).pc = "told",
           NEW g \in Frame, call' = [call EXCEPT ![t] = <<g>> \o call[t]],
           Well(g, made, Alive), Alive' = Alive, made' = made
    PROVE  Stacks' /\ Cur' = [Cur EXCEPT ![t] = g]
<1>0. made \in Nat
  BY ListenersAssumption DEF Shape, Fields, ListenersAssumption
<1>1. PICK r \in Seq(Frame) : r = call[t] /\ Stack(r, made, Alive)
  BY DEF Shape, Stacks, Stack
<1>2. \A i \in 1..Len(r) : Well(r[i], made, Alive) /\ r[i].pc = "told"
  <2>1. \A i \in 1..Len(r) : Well(r[i], made, Alive) /\ (i > 1 => r[i].pc = "told")
    BY <1>1 DEF Stack
  <2>2. Len(r) \in Nat /\ (r = <<>> => Len(r) = 0)
    BY LenProperties, EmptySeq
  <2>3. \A i \in 1..Len(r) : i = 1 => r[i].pc = "told"
    BY <1>1, <2>2 DEF Top
  <2>4. \A i \in 1..Len(r) : i = 1 \/ i > 1
    BY <2>2
  <2>5. QED
    BY <2>1, <2>3, <2>4
<1>3. PICK c : c = <<g>> \o r
  OBVIOUS
<1>4. <<g>> \in Seq(Frame) /\ Len(<<g>>) = 1 /\ <<g>>[1] = g
  OBVIOUS
<1>5. /\ c \in Seq(Frame) /\ Len(c) = 1 + Len(r) /\ Len(r) \in Nat
      /\ \A i \in 1..(1 + Len(r)) : c[i] = IF i <= 1 THEN <<g>>[i] ELSE r[i - 1]
  BY <1>3, <1>4, ConcatProperties, LenProperties
<1>6. c[1] = g /\ c # <<>>
  BY <1>4, <1>5, EmptySeq
<1>7. \A i \in 1..Len(c) : i = 1 \/ (i - 1 \in 1..Len(r) /\ c[i] = r[i - 1])
  BY <1>5
<1>8. \A i \in 1..Len(c) : Well(c[i], made, Alive) /\ (i > 1 => c[i].pc = "told")
  BY <1>2, <1>6, <1>7
<1>9. Stack(c, made', Alive')
  BY <1>5, <1>8 DEF Stack
<1>10. call' = [call EXCEPT ![t] = c]
  BY <1>1, <1>3
<1>11. QED
  <2>1. Alive' \subseteq Alive /\ made' \in Nat /\ made <= made'
    BY <1>0
  <2>2. QED
    BY <1>6, <1>9, <1>10, <2>1, NewStack

\* A dispatch is over: what is left is in a call of a handler.
LEMMA LeaveStack ==
    ASSUME Shape, NEW t \in Thread, call[t] # <<>>, Leave(t),
           Alive' = Alive, made' = made
    PROVE  /\ Stacks'
           /\ \E g : Cur' = [Cur EXCEPT ![t] = g] /\ g.pc \in {"none", "told"}
<1>0. made \in Nat
  BY ListenersAssumption DEF Shape, Fields, ListenersAssumption
<1>1. PICK r \in Seq(Frame) :
         /\ r = Tail(call[t])
         /\ \A i \in 1..Len(r) : Well(r[i], made, Alive) /\ r[i].pc = "told"
  BY TopIs
<1>2. Stack(r, made', Alive')
  BY <1>1 DEF Stack
<1>3. call' = [call EXCEPT ![t] = r]
  BY <1>1 DEF Leave
<1>4. PICK g : g = IF r = <<>> THEN NoFrame ELSE r[1]
  OBVIOUS
<1>5. Stacks' /\ Cur' = [Cur EXCEPT ![t] = g]
  <2>1. Alive' \subseteq Alive /\ made' \in Nat /\ made <= made'
    BY <1>0
  <2>2. QED
    BY <1>2, <1>3, <1>4, <2>1, NewStack
<1>6. r # <<>> => 1 \in 1..Len(r)
  BY LenProperties, EmptySeq
<1>7. NoFrame.pc = "none"
  BY DEF NoFrame, NewFrame
<1>8. g.pc \in {"none", "told"}
  BY <1>1, <1>4, <1>6, <1>7
<1>9. QED
  BY <1>5, <1>8

-----------------------------------------------------------------------------
(* Steps that leave the registrations alone.                               *)

LEMMA Others ==
    ASSUME NEW t \in Thread, NEW g, Cur' = [Cur EXCEPT ![t] = g]
    PROVE  Cur'[t] = g /\ \A u \in Thread : u # t => Cur'[u] = Cur[u]
<1>1. DOMAIN Cur = Thread
  BY DEF Cur
<1>2. QED
  BY <1>1

\* The lists of who is alive, the fields and the locks stay as they are, and no
\* thread leaves a registration it was adding or removing.
LEMMA Quiet ==
    ASSUME Agree, NEW t \in Thread, NEW g, Cur' = [Cur EXCEPT ![t] = g],
           UNCHANGED <<fields, made, lm>>, Alive' \subseteq Alive,
           \A o \in Alive' : /\ event_listener'[o] = event_listener[o]
                             /\ handle_list'[o] = handle_list[o],
           Cur[t].pc \notin {"add", "src", "lsn"}, g.pc \notin {"add", "src", "lsn"},
           \A e : Drops(Cur[t], e) => Drops(g, e)
    PROVE  Agree'
<1>1. Cur'[t] = g /\ \A u \in Thread : u # t => Cur'[u] = Cur[u]
  BY Others
<1>2. source' = source /\ listener' = listener /\ made' = made /\ lm' = lm
  BY DEF fields
<1>3. (\A e : Linked(e)' <=> Linked(e)) /\ (\A e : Cleared(e)' <=> Cleared(e))
  BY <1>2 DEF Linked, Cleared
<1>4. \A e : /\ ~Adds(Cur[t], e) /\ ~Adds(g, e)
             /\ \A o : ~ToSource(Cur[t], e, o) /\ ~ToListener(Cur[t], e, o)
  BY DEF Adds, ToSource, ToListener
<1>5. Single'
  BY DEF Agree, Single
<1>6. LinkedAgree'
  <2>1. \A e : (\E u \in Thread : Adds(Cur[u], e) \/ Drops(Cur[u], e))
                 => \E u \in Thread : Adds(Cur'[u], e) \/ Drops(Cur'[u], e)
    BY <1>1, <1>4
  <2>2. QED
    BY <1>2, <1>3, <2>1 DEF Agree, LinkedAgree
<1>7. \A e : /\ \A o : (\E u \in Thread : ToSource(Cur[u], e, o))
                          => \E u \in Thread : ToSource(Cur'[u], e, o)
             /\ \A o : (\E u \in Thread : ToListener(Cur[u], e, o))
                          => \E u \in Thread : ToListener(Cur'[u], e, o)
             /\ \A o, p : (\E u \in Thread : ToSource(Cur[u], e, o) /\ ToListener(Cur[u], e, p))
                    => \E u \in Thread : ToSource(Cur'[u], e, o) /\ ToListener(Cur'[u], e, p)
  BY <1>1, <1>4
<1>8. ClearedAgree'
  BY <1>3, <1>7 DEF Agree, ClearedAgree
<1>9. Adding'
  <2>1. ASSUME NEW u \in Thread, Cur'[u].pc = "add"
        PROVE  AddsWell(u)'
    <3>1. PICK f : f = Cur[u] /\ f = Cur'[u] /\ f.pc = "add"
      BY <1>1, <2>1
    <3>2. AddsWell(u)
      BY DEF Agree, Adding
    <3>3. /\ f.src \in Object /\ lm[f.src] = u
          /\ Linked(f.reg) => source[f.reg] = f.src /\ listener[f.reg] = f.obj
          /\ Cleared(f.reg) => \E v \in Thread : /\ ToSource(Cur[v], f.reg, f.src)
                                                 /\ ToListener(Cur[v], f.reg, f.obj)
          /\ \A o \in Alive : f.reg \notin ToSet(handle_list[o])
          /\ \A v \in Thread : Adds(Cur[v], f.reg) => v = u
      BY <3>1, <3>2 DEF AddsWell
    <3>4. \A v \in Thread : Adds(Cur'[v], f.reg) => v = u
      BY <1>1, <1>4, <3>3
    <3>5. Cleared(f.reg) => \E v \in Thread : /\ ToSource(Cur'[v], f.reg, f.src)
                                              /\ ToListener(Cur'[v], f.reg, f.obj)
      BY <1>7, <3>3
    <3>6. \A o \in Alive' : f.reg \notin ToSet(handle_list'[o])
      BY <3>3
    <3>7. QED
      BY <1>2, <1>3, <3>1, <3>3, <3>4, <3>5, <3>6 DEF AddsWell
  <2>2. QED
    BY <2>1 DEF Adding, AddsWell
<1>10. Removing'
  BY <1>1, <1>3 DEF Agree, Removing
<1>11. Once'
  BY <1>2, <1>3 DEF Agree, Once
<1>12. QED
  BY <1>5, <1>6, <1>8, <1>9, <1>10, <1>11 DEF Agree

\* The same, for a step that keeps all lists.
LEMMA KeepsLists ==
    ASSUME IInv, UNCHANGED <<ends, fields, made, lm>>, DOMAIN st' = Object, Stacks'
    PROVE  Shape'
BY DEF IInv, Shape, Fields, Lists, ends, fields

LEMMA QuietTurn ==
    ASSUME IInv, NEW t \in Thread, NEW g \in Frame, call[t] # <<>>, Put(t, g),
           UNCHANGED <<ends, fields, made, lm>>,
           DOMAIN st' = Object, Alive' \subseteq Alive, Well(g, made, Alive'),
           Top(t).pc \notin {"add", "src", "lsn"}, g.pc \notin {"add", "src", "lsn"},
           \A e : Drops(Top(t), e) => Drops(g, e)
    PROVE  IInv'
<1>0. made \in Nat /\ made' = made /\ made' \in Nat /\ made <= made'
  BY ListenersAssumption DEF IInv, Shape, Fields, ListenersAssumption
<1>1. Stacks' /\ Cur' = [Cur EXCEPT ![t] = g]
  BY <1>0, PutStack DEF IInv
<1>2. Shape'
  BY <1>1, KeepsLists
<1>3. Cur[t] = Top(t)
  BY TopIs DEF IInv
<1>4. Agree'
  BY <1>1, <1>3, Quiet DEF IInv, ends
<1>5. QED
  BY <1>2, <1>4 DEF IInv

LEMMA QuietLeave ==
    ASSUME IInv, NEW t \in Thread, call[t] # <<>>, Leave(t),
           UNCHANGED <<ends, fields, made, lm, st>>,
           Top(t).pc \in {"fn", "done", "tell"}
    PROVE  IInv'
<1>0. made' = made /\ Alive' = Alive /\ DOMAIN st' = Object
  BY DEF IInv, Shape, Fields, Alive
<1>1. PICK g : Stacks' /\ Cur' = [Cur EXCEPT ![t] = g] /\ g.pc \in {"none", "told"}
  BY <1>0, LeaveStack DEF IInv
<1>2. Shape'
  BY <1>0, <1>1, KeepsLists
<1>3. Cur[t] = Top(t)
  BY TopIs DEF IInv
<1>4. \A e : ~Drops(Cur[t], e)
  BY <1>3 DEF Drops
<1>5. Agree'
  BY <1>0, <1>1, <1>3, <1>4, Quiet DEF IInv, ends
<1>6. QED
  BY <1>2, <1>5 DEF IInv

\* The types of a frame's fields.
LEMMA TopFields ==
    ASSUME IInv, NEW t \in Thread, call[t] # <<>>
    PROVE  /\ Top(t) \in Frame /\ Well(Top(t), made, Alive)
           /\ Top(t).obj \in Object /\ DOMAIN st = Object /\ made \in Nat
           /\ ToSet(Top(t).todo) \subseteq 1..made /\ Top(t).todo \in Seq(Nat)
           /\ List(event_listener[Top(t).obj], made)
           /\ List(handle_list[Top(t).obj], made)
<1>1. Top(t) \in Frame /\ Well(Top(t), made, Alive)
  BY TopIs DEF IInv
<1>2. Top(t).obj \in Object /\ ToSet(Top(t).todo) \subseteq 1..made
  BY <1>1 DEF Well
<1>3. Top(t).todo \in Seq(Nat)
  BY <1>1 DEF Frame
<1>4. QED
  BY <1>1, <1>2, <1>3, ListenersAssumption
     DEF IInv, Shape, Fields, Lists, ListenersAssumption

LEMMA LookKeeps ==
    ASSUME IInv, NEW t \in Thread, Look(t)
    PROVE  IInv'
<1>1. PICK f \in Frame : /\ f = Top(t) /\ f.pc = "look" /\ call[t] # <<>>
                         /\ Well(f, made, Alive)
  BY TopFields DEF Look, At
<1>2. PICK g : g = [f EXCEPT !.pc = "done", !.src = NoObj]
  OBVIOUS
<1>3. g \in Frame /\ Put(t, g) /\ Well(g, made, Alive) /\ g.pc = "done"
  BY <1>1, <1>2 DEF Look, Frame, Well
<1>4. \A e : ~Drops(f, e)
  BY <1>1 DEF Drops
<1>5. Alive' = Alive /\ DOMAIN st' = Object /\ UNCHANGED <<ends, fields, made, lm>>
  BY DEF Look, IInv, Shape, Fields, Alive
<1>6. QED
  BY <1>1, <1>3, <1>4, <1>5, QuietTurn

LEMMA HandlerReturnsKeeps ==
    ASSUME IInv, NEW t \in Thread, HandlerReturns(t)
    PROVE  IInv'
<1>1. PICK f \in Frame : /\ f = Top(t) /\ f.pc = "told" /\ call[t] # <<>>
                         /\ Well(f, made, Alive)
  BY TopFields DEF HandlerReturns, At
<1>2. PICK g : g = [f EXCEPT !.pc = "tell", !.lsn = NoObj]
  OBVIOUS
<1>3. g \in Frame /\ Put(t, g) /\ Well(g, made, Alive) /\ g.pc = "tell"
  BY <1>1, <1>2 DEF HandlerReturns, Frame, Well
<1>4. \A e : ~Drops(f, e)
  BY <1>1 DEF Drops
<1>5. Alive' = Alive /\ DOMAIN st' = Object /\ UNCHANGED <<ends, fields, made, lm>>
  BY DEF HandlerReturns, IInv, Shape, Fields, Alive
<1>6. QED
  BY <1>1, <1>3, <1>4, <1>5, QuietTurn

LEMMA TinyStateLastKeeps ==
    ASSUME IInv, NEW t \in Thread, TinyStateLast(t)
    PROVE  IInv'
<1>1. PICK f \in Frame : /\ f = Top(t) /\ f.pc = "last" /\ call[t] # <<>>
                         /\ Well(f, made, Alive) /\ f.obj \in Object
  BY TopFields DEF TinyStateLast, At
<1>2. PICK q \in Seq(Nat) : q = event_listener[f.obj] /\ ToSet(q) \subseteq 1..made
  BY <1>1, TopFields DEF List
<1>3. PICK g : g = [f EXCEPT !.pc = "tell", !.todo = q]
  OBVIOUS
<1>4. g \in Frame /\ Put(t, g) /\ Well(g, made, Alive) /\ g.pc = "tell"
  BY <1>1, <1>2, <1>3 DEF TinyStateLast, Frame, Well
<1>5. \A e : ~Drops(f, e)
  BY <1>1 DEF Drops
<1>6. Alive' = Alive /\ DOMAIN st' = Object /\ UNCHANGED <<ends, fields, made, lm>>
  BY DEF TinyStateLast, IInv, Shape, Fields, Alive
<1>7. QED
  BY <1>1, <1>4, <1>5, <1>6, QuietTurn

LEMMA ReturnKeeps ==
    ASSUME IInv, NEW t \in Thread, Return(t)
    PROVE  IInv'
<1>1. PICK f \in Frame : /\ f = Top(t) /\ f.pc \in {"fn", "done"} /\ call[t] # <<>>
                         /\ Well(f, made, Alive) /\ f.obj \in Object
  BY TopFields DEF Return, At
<1>2. /\ Alive' = Alive /\ DOMAIN st' = Object /\ st' = st
      /\ UNCHANGED <<ends, fields, made, lm>>
  BY DEF Return, IInv, Shape, Fields, Alive
<1>3. CASE Leave(t)
  BY <1>1, <1>2, <1>3, QuietLeave
<1>4. CASE Put(t, [f EXCEPT !.pc = "tell", !.took = FALSE,
                            !.todo = event_listener[f.obj]])
  <2>1. PICK q \in Seq(Nat) : q = event_listener[f.obj] /\ ToSet(q) \subseteq 1..made
    BY <1>1, TopFields DEF List
  <2>2. PICK g : g = [f EXCEPT !.pc = "tell", !.took = FALSE, !.todo = q]
    OBVIOUS
  <2>3. g \in Frame /\ Put(t, g) /\ Well(g, made, Alive) /\ g.pc = "tell"
    BY <1>1, <1>4, <2>1, <2>2 DEF Frame, Well
  <2>4. \A e : ~Drops(f, e)
    BY <1>1 DEF Drops
  <2>5. QED
    BY <1>1, <1>2, <2>3, <2>4, QuietTurn
<1>5. QED
  BY <1>1, <1>3, <1>4 DEF Return

\* What the rest of a list holds.
LEMMA RestOfList ==
    ASSUME NEW s \in Seq(Nat), s # <<>>, NEW m, ToSet(s) \subseteq 1..m
    PROVE  /\ Head(s) \in 1..m /\ Tail(s) \in Seq(Nat) /\ ToSet(Tail(s)) \subseteq 1..m
           /\ \A e : e \in ToSet(s) <=> e = Head(s) \/ e \in ToSet(Tail(s))
BY HeadTailList

LEMMA CleanNextKeeps ==
    ASSUME IInv, NEW t \in Thread, CleanNext(t)
    PROVE  IInv'
<1>1. PICK f \in Frame : /\ f = Top(t) /\ f.pc = "clean" /\ call[t] # <<>>
                         /\ Well(f, made, Alive) /\ made \in Nat
                         /\ f.todo \in Seq(Nat) /\ ToSet(f.todo) \subseteq 1..made
  BY TopFields DEF CleanNext, At
<1>2. /\ Alive' = Alive /\ DOMAIN st' = Object
      /\ UNCHANGED <<ends, fields, made, lm>>
  BY DEF CleanNext, IInv, Shape, Fields, Alive
<1>3. CASE f.todo = <<>>
  <2>1. PICK g : g = [f EXCEPT !.pc = "done"]
    OBVIOUS
  <2>2. g \in Frame /\ Put(t, g) /\ Well(g, made, Alive) /\ g.pc = "done"
    BY <1>1, <1>3, <2>1 DEF CleanNext, Frame, Well
  <2>3. \A e : ~Drops(f, e)
    BY <1>1, <1>3, EmptyList DEF Drops
  <2>4. QED
    BY <1>1, <1>2, <2>2, <2>3, QuietTurn
<1>4. CASE f.todo # <<>>
  <2>1. PICK d, q : d = Head(f.todo) /\ q = Tail(f.todo)
    OBVIOUS
  <2>2. /\ d \in 1..made /\ d \in Nat /\ d # 0 /\ d \in 0..made
        /\ q \in Seq(Nat) /\ ToSet(q) \subseteq 1..made
        /\ \A e : e \in ToSet(f.todo) <=> e = d \/ e \in ToSet(q)
    <3>1. /\ d \in 1..made /\ q \in Seq(Nat) /\ ToSet(q) \subseteq 1..made
          /\ \A e : e \in ToSet(f.todo) <=> e = d \/ e \in ToSet(q)
      BY <1>1, <1>4, <2>1, RestOfList
    <3>2. d \in Nat /\ d # 0 /\ d \in 0..made
      BY <1>1, <3>1
    <3>3. QED
      BY <3>1, <3>2
  <2>3. PICK g : g = [f EXCEPT !.pc = "hook", !.reg = d, !.todo = q]
    OBVIOUS
  <2>4. g \in Frame /\ Put(t, g) /\ Well(g, made, Alive) /\ g.pc = "hook"
    BY <1>1, <1>4, <2>1, <2>2, <2>3 DEF CleanNext, Frame, Well
  <2>5. \A e : Drops(f, e) => Drops(g, e)
    BY <1>1, <2>2, <2>3 DEF Drops, Frame
  <2>6. QED
    BY <1>1, <1>2, <2>4, <2>5, QuietTurn
<1>5. QED
  BY <1>3, <1>4

LEMMA TellKeeps ==
    ASSUME IInv, NEW t \in Thread, Tell(t)
    PROVE  IInv'
<1>1. PICK f \in Frame : /\ f = Top(t) /\ f.pc = "tell" /\ call[t] # <<>>
                         /\ Well(f, made, Alive) /\ made \in Nat
                         /\ f.todo \in Seq(Nat) /\ ToSet(f.todo) \subseteq 1..made
  BY TopFields DEF Tell, At
<1>2. /\ Alive' = Alive /\ DOMAIN st' = Object /\ st' = st
      /\ UNCHANGED <<ends, fields, made, lm>>
  BY DEF Tell, IInv, Shape, Fields, Alive
<1>3. \A e : ~Drops(f, e)
  BY <1>1 DEF Drops
<1>4. ASSUME NEW g \in Frame, Put(t, g), Well(g, made, Alive), g.pc \in {"tell", "call", "sweep"}
      PROVE  IInv'
  BY <1>1, <1>2, <1>3, <1>4, QuietTurn
<1>5. CASE f.todo # <<>> /\ listener[Head(f.todo)] = NoObj
  <2>1. PICK q : q = Tail(f.todo) /\ q \in Seq(Nat) /\ ToSet(q) \subseteq 1..made
    BY <1>1, <1>5, RestOfList
  <2>2. PICK g : g = [f EXCEPT !.todo = q]
    OBVIOUS
  <2>3. g \in Frame /\ Put(t, g) /\ Well(g, made, Alive) /\ g.pc = "tell"
    BY <1>1, <1>5, <2>1, <2>2 DEF Tell, Frame, Well
  <2>4. QED
    BY <1>4, <2>3
<1>6. CASE f.todo # <<>> /\ listener[Head(f.todo)] # NoObj
  <2>1. PICK g : g = [f EXCEPT !.pc = "call"]
    OBVIOUS
  <2>2. g \in Frame /\ Put(t, g) /\ Well(g, made, Alive) /\ g.pc = "call"
    BY <1>1, <1>6, <2>1 DEF Tell, Frame, Well
  <2>3. QED
    BY <1>4, <2>2
<1>7. CASE f.todo = <<>> /\ f.last
  <2>1. PICK g : g = [f EXCEPT !.pc = "sweep"]
    OBVIOUS
  <2>2. g \in Frame /\ Put(t, g) /\ Well(g, made, Alive) /\ g.pc = "sweep"
    BY <1>1, <1>7, <2>1 DEF Tell, Frame, Well
  <2>3. QED
    BY <1>4, <2>2
<1>8. CASE f.todo = <<>> /\ ~f.last
  <2>1. Leave(t)
    BY <1>1, <1>8 DEF Tell
  <2>2. QED
    BY <1>1, <1>2, <2>1, QuietLeave
<1>9. QED
  BY <1>5, <1>6, <1>7, <1>8

LEMMA FieldsAre ==
    ASSUME IInv, NEW e \in 1..made
    PROVE  e \in Reg /\ source[e] \in Object \cup {NoObj} /\ listener[e] \in Object \cup {NoObj}
<1>1. made \in Nat /\ made <= MaxReg /\ MaxReg \in Nat
  BY ListenersAssumption DEF IInv, Shape, Fields, ListenersAssumption
<1>2. e \in Reg
  BY <1>1 DEF Reg
<1>3. QED
  BY <1>2 DEF IInv, Shape, Fields

LEMMA CallHandlerKeeps ==
    ASSUME IInv, NEW t \in Thread, CallHandler(t)
    PROVE  IInv'
<1>1. PICK f \in Frame : /\ f = Top(t) /\ f.pc = "call" /\ call[t] # <<>>
                         /\ Well(f, made, Alive) /\ made \in Nat
                         /\ f.todo \in Seq(Nat) /\ ToSet(f.todo) \subseteq 1..made
                         /\ f.todo # <<>>
  <2>1. Well(Top(t), made, Alive) /\ Top(t).pc = "call" => Top(t).todo # <<>>
    BY DEF Well
  <2>2. QED
    BY <2>1, TopFields DEF CallHandler, At
<1>2. /\ Alive' = Alive /\ DOMAIN st' = Object /\ st' = st
      /\ UNCHANGED <<ends, fields, made, lm>>
  BY DEF CallHandler, IInv, Shape, Fields, Alive
<1>3. CASE UNCHANGED call
  <2>1. Stacks' /\ Cur' = Cur
    BY <1>2, <1>3 DEF IInv, Shape, Stacks, Cur
  <2>2. Cur' = [Cur EXCEPT ![t] = Cur[t]]
    BY <2>1 DEF Cur
  <2>3. Shape'
    BY <1>2, <2>1, KeepsLists
  <2>4. Cur[t] = f
    BY <1>1, TopIs DEF IInv
  <2>5. Agree'
    BY <1>1, <1>2, <2>2, <2>4, Quiet DEF IInv, ends
  <2>6. QED
    BY <2>3, <2>5 DEF IInv
<1>4. CASE ~UNCHANGED call
  <2>1. PICK l, q : l = listener[Head(f.todo)] /\ q = Tail(f.todo)
    OBVIOUS
  <2>2. /\ l \in Object \cup {NoObj} /\ q \in Seq(Nat) /\ ToSet(q) \subseteq 1..made
    BY <1>1, <2>1, RestOfList, FieldsAre
  <2>3. PICK g : g = [f EXCEPT !.pc = "told", !.lsn = l, !.todo = q]
    OBVIOUS
  <2>4. Put(t, g)
    BY <1>1, <1>4, <2>1, <2>3 DEF CallHandler
  <2>5. g \in Frame /\ Well(g, made, Alive) /\ g.pc = "told"
    BY <1>1, <2>2, <2>3 DEF Frame, Well
  <2>6. \A e : ~Drops(f, e)
    BY <1>1 DEF Drops
  <2>7. QED
    BY <1>1, <1>2, <2>4, <2>5, <2>6, QuietTurn
<1>5. QED
  BY <1>3, <1>4

LEMMA RunKeeps ==
    ASSUME IInv, NEW t \in Thread, NEW o \in Object, Run(t, o)
    PROVE  IInv'
<1>1. /\ call[t] = <<>> \/ (Top(t).pc = "told" /\ call[t] # <<>>)
      /\ st' = st
      /\ UNCHANGED <<ends, fields, made, lm>>
  BY DEF Run, At
<1>2. Alive' = Alive /\ DOMAIN st' = Object /\ made' = made
  BY <1>1 DEF IInv, Shape, Fields, Alive
<1>3. PICK took \in BOOLEAN : call' = [call EXCEPT ![t] = <<NewFrame(o, took)>> \o @]
  BY DEF Run
<1>4. PICK g : g = NewFrame(o, took)
  OBVIOUS
<1>5. g \in Frame /\ Well(g, made, Alive) /\ g.pc = "fn"
  BY <1>4, EmptyList, ListenersAssumption
     DEF NewFrame, Frame, Well, IInv, Shape, Fields, ListenersAssumption
<1>6. call' = [call EXCEPT ![t] = <<g>> \o call[t]]
  BY <1>3, <1>4
<1>7. call[t] = <<>> \/ Top(t).pc = "told"
  BY <1>1
<1>8. Stacks' /\ Cur' = [Cur EXCEPT ![t] = g]
  BY <1>2, <1>5, <1>6, <1>7, PushStack DEF IInv
<1>9. Shape'
  BY <1>1, <1>2, <1>8, KeepsLists
<1>10. Cur[t].pc \in {"none", "told"}
  BY <1>1, IdleIs, TopIs DEF IInv
<1>11. \A e : ~Drops(Cur[t], e)
  BY <1>10 DEF Drops
<1>12. Agree'
  BY <1>1, <1>2, <1>5, <1>8, <1>10, <1>11, Quiet DEF IInv, ends
<1>13. QED
  BY <1>9, <1>12 DEF IInv

LEMMA EndKeeps ==
    ASSUME IInv, NEW t \in Thread, End(t)
    PROVE  IInv'
<1>1. PICK f \in Frame : /\ f = Top(t) /\ f.pc = "fn" /\ call[t] # <<>>
                         /\ Well(f, made, Alive) /\ f.obj \in Object
  BY TopFields DEF End, At
<1>2. PICK b \in BOOLEAN : b = (f.took \/ mtx = NoThread)
  OBVIOUS
<1>3. PICK g : g = [f EXCEPT !.pc = "last", !.last = TRUE, !.took = b]
  OBVIOUS
<1>4. DOMAIN st' = Object /\ Alive' = Alive \ {f.obj} /\ UNCHANGED <<ends, fields, made, lm>>
  BY <1>1 DEF End, IInv, Shape, Fields, Alive
<1>5. Put(t, g)
  BY <1>1, <1>2, <1>3 DEF End
<1>6. g \in Frame /\ Well(g, made, Alive') /\ g.pc = "last"
  BY <1>1, <1>3, <1>4 DEF Frame, Well
<1>7. \A e : ~Drops(f, e)
  BY <1>1 DEF Drops
<1>8. QED
  BY <1>1, <1>4, <1>5, <1>6, <1>7, QuietTurn

LEMMA SweepKeeps ==
    ASSUME IInv, NEW t \in Thread, Sweep(t)
    PROVE  IInv'
<1>1. PICK f \in Frame : /\ f = Top(t) /\ f.pc = "sweep" /\ call[t] # <<>>
                         /\ Well(f, made, Alive) /\ made \in Nat /\ f.obj \in Object
                         /\ f.obj \notin Alive
  <2>1. Well(Top(t), made, Alive) /\ Top(t).pc = "sweep" => Top(t).obj \notin Alive
    BY DEF Well
  <2>2. QED
    BY <2>1, TopFields DEF Sweep, At
<1>2. PICK own, others \in Seq(Nat) :
         /\ own = handle_list[f.obj] /\ ToSet(own) \subseteq 1..made
         /\ others = event_listener[f.obj] /\ ToSet(others) \subseteq 1..made
  BY <1>1, TopFields DEF List
<1>3. UNCHANGED <<ends, fields, made, lm>> /\ DOMAIN st = Object
  BY DEF Sweep, IInv, Shape, Fields
<1>4. \A e : ~Drops(f, e)
  BY <1>1 DEF Drops
<1>5. ASSUME NEW g \in Frame, Put(t, g), Well(g, made, Alive), g.pc \in {"pop", "last"},
             DOMAIN st' = Object, Alive' = Alive
      PROVE  IInv'
  BY <1>1, <1>3, <1>4, <1>5, QuietTurn
<1>6. ASSUME NEW s \in Seq(Nat), s # <<>>, ToSet(s) \subseteq 1..made,
             NEW a \in {f.obj, NoObj}, NEW l \in {f.obj, NoObj},
             Put(t, [f EXCEPT !.pc = "pop", !.reg = Head(s), !.src = a, !.lsn = l,
                              !.todo = Tail(s)]),
             UNCHANGED st
      PROVE  IInv'
  <2>1. PICK d, q : d = Head(s) /\ q = Tail(s)
    OBVIOUS
  <2>2. d \in 1..made /\ q \in Seq(Nat) /\ ToSet(q) \subseteq 1..made
    BY <1>6, <2>1, RestOfList
  <2>3. d \in Nat /\ d # 0 /\ d \in 0..made
    BY <1>1, <2>2
  <2>4. PICK g : g = [f EXCEPT !.pc = "pop", !.reg = d, !.src = a, !.lsn = l, !.todo = q]
    OBVIOUS
  <2>5. g \in Frame /\ Put(t, g) /\ Well(g, made, Alive) /\ g.pc = "pop"
    BY <1>1, <1>6, <2>1, <2>2, <2>3, <2>4 DEF Frame, Well
  <2>6. DOMAIN st' = Object /\ Alive' = Alive
    BY <1>3, <1>6 DEF Alive
  <2>7. QED
    BY <1>5, <2>5, <2>6
<1>7. f.src = NoObj /\ f.lsn = NoObj
  BY <1>1 DEF Well
<1>8. CASE /\ own # <<>> /\ UNCHANGED st
           /\ Put(t, [f EXCEPT !.pc = "pop", !.reg = Head(own), !.lsn = f.obj,
                               !.todo = Tail(own)])
  <2>1. [f EXCEPT !.pc = "pop", !.reg = Head(own), !.lsn = f.obj, !.todo = Tail(own)]
          = [f EXCEPT !.pc = "pop", !.reg = Head(own), !.src = NoObj, !.lsn = f.obj,
                      !.todo = Tail(own)]
    BY <1>7 DEF Frame
  <2>2. QED
    BY <1>2, <1>6, <1>8, <2>1
<1>9. CASE /\ others # <<>> /\ UNCHANGED st
           /\ Put(t, [f EXCEPT !.pc = "pop", !.reg = Head(others), !.src = f.obj,
                               !.todo = Tail(others)])
  <2>1. [f EXCEPT !.pc = "pop", !.reg = Head(others), !.src = f.obj, !.todo = Tail(others)]
          = [f EXCEPT !.pc = "pop", !.reg = Head(others), !.src = f.obj, !.lsn = NoObj,
                      !.todo = Tail(others)]
    BY <1>7 DEF Frame
  <2>2. QED
    BY <1>2, <1>6, <1>9, <2>1
<1>10. CASE /\ st' = [st EXCEPT ![f.obj] = "zom"]
            /\ Put(t, [f EXCEPT !.pc = "last", !.last = FALSE, !.took = FALSE])
  <2>1. PICK g : g = [f EXCEPT !.pc = "last", !.last = FALSE, !.took = FALSE]
    OBVIOUS
  <2>2. g \in Frame /\ Put(t, g) /\ Well(g, made, Alive) /\ g.pc = "last"
    BY <1>1, <1>10, <2>1 DEF Frame, Well
  <2>3. DOMAIN st' = Object /\ Alive' = Alive
    BY <1>1, <1>3, <1>10 DEF Alive
  <2>4. QED
    BY <1>5, <2>2, <2>3
<1>11. QED
  BY <1>1, <1>2, <1>8, <1>9, <1>10 DEF Sweep

\* An object that has begun to end writes a rest of its own lists back.
LEMMA PopKeeps ==
    ASSUME IInv, NEW t \in Thread, Pop(t)
    PROVE  IInv'
<1>1. PICK f \in Frame : /\ f = Top(t) /\ f.pc = "pop" /\ call[t] # <<>>
                         /\ Well(f, made, Alive) /\ made \in Nat
                         /\ f.obj \notin Alive /\ {f.src, f.lsn} \subseteq {f.obj, NoObj}
                         /\ f.todo \in Seq(Nat) /\ ToSet(f.todo) \subseteq 1..made
                         /\ f.reg # 0
  <2>1. Well(Top(t), made, Alive) /\ Top(t).pc = "pop" =>
           /\ Top(t).obj \notin Alive /\ Top(t).reg # 0
           /\ {Top(t).src, Top(t).lsn} \subseteq {Top(t).obj, NoObj}
    BY DEF Well
  <2>2. QED
    BY <2>1, TopFields DEF Pop, At
<1>2. /\ Alive' = Alive /\ DOMAIN st' = Object /\ made' = made
      /\ UNCHANGED <<fields, lm>>
  BY DEF Pop, IInv, Shape, Fields, Alive
<1>3. PICK g : g = [f EXCEPT !.pc = "hook", !.todo = <<>>]
  OBVIOUS
<1>4. g \in Frame /\ Put(t, g) /\ Well(g, made, Alive) /\ g.pc = "hook"
  BY <1>1, <1>3, EmptyList DEF Pop, Frame, Well
<1>5. Stacks' /\ Cur' = [Cur EXCEPT ![t] = g]
  BY <1>1, <1>2, <1>4, PutStack DEF IInv
<1>6. /\ handle_list' = [o \in Object |-> IF o = f.lsn THEN f.todo ELSE handle_list[o]]
      /\ event_listener' = [o \in Object |-> IF o = f.src THEN f.todo ELSE event_listener[o]]
  BY <1>1 DEF Pop
<1>7. List(f.todo, made)
  BY <1>1 DEF List
<1>8. Lists'
  BY <1>2, <1>6, <1>7 DEF IInv, Shape, Lists
<1>9. Shape'
  BY <1>2, <1>5, <1>8 DEF IInv, Shape, Fields, fields
<1>10. NoObj \notin Alive
  BY ListenersAssumption DEF Alive, ListenersAssumption
<1>11. \A o \in Alive : o \in Object /\ o # f.src /\ o # f.lsn
  BY <1>1, <1>10 DEF Alive
<1>12. \A o \in Alive' : /\ event_listener'[o] = event_listener[o]
                         /\ handle_list'[o] = handle_list[o]
  BY <1>2, <1>6, <1>11
<1>13. \A e : ~Drops(f, e)
  BY <1>1 DEF Drops
<1>14. Cur[t] = f
  BY <1>1, TopIs DEF IInv
<1>15. Agree'
  BY <1>1, <1>2, <1>4, <1>5, <1>12, <1>13, <1>14, Quiet DEF IInv
<1>16. QED
  BY <1>9, <1>15 DEF IInv

-----------------------------------------------------------------------------
(* Steps that add or remove a registration.                                *)

\* No list names a registration that has not been made.
LEMMA ListsAre ==
    ASSUME IInv, NEW o \in Object
    PROVE  /\ event_listener[o] \in Seq(Nat) /\ ToSet(event_listener[o]) \subseteq 1..made
           /\ handle_list[o] \in Seq(Nat) /\ ToSet(handle_list[o]) \subseteq 1..made
BY DEF IInv, Shape, Lists, List

\* What a thread that adds a registration may rely on.
LEMMA AddsWellIs ==
    ASSUME IInv, NEW u \in Thread, NEW h, h = Cur[u], h.pc = "add"
    PROVE  /\ h.src \in Object /\ lm[h.src] = u
           /\ Linked(h.reg) => source[h.reg] = h.src /\ listener[h.reg] = h.obj
           /\ Cleared(h.reg) => \E v \in Thread : /\ ToSource(Cur[v], h.reg, h.src)
                                                  /\ ToListener(Cur[v], h.reg, h.obj)
           /\ \A o \in Alive : h.reg \notin ToSet(handle_list[o])
           /\ \A v \in Thread : Adds(Cur[v], h.reg) => v = u
<1>1. AddsWell(u)
  BY DEF IInv, Agree, Adding
<1>2. QED
  BY <1>1 DEF AddsWell

\* clean_stdEventHandle(): what it takes away it has kept in its copy.
LEMMA CleanKeeps ==
    ASSUME IInv, NEW t \in Thread, Clean(t)
    PROVE  IInv'
<1>1. PICK f \in Frame : /\ f = Top(t) /\ f.pc = "fn" /\ call[t] # <<>>
                         /\ Well(f, made, Alive) /\ made \in Nat
                         /\ f.obj \in Object /\ ~f.last
  <2>1. Well(Top(t), made, Alive) /\ Top(t).pc = "fn" => ~Top(t).last
    BY DEF Well
  <2>2. QED
    BY <2>1, TopFields DEF Clean, At
<1>2. PICK own \in Seq(Nat) : own = handle_list[f.obj] /\ ToSet(own) \subseteq 1..made
  BY <1>1, ListsAre
<1>3. PICK g : g = [f EXCEPT !.pc = "clean", !.todo = own]
  OBVIOUS
<1>4. /\ Alive' = Alive /\ DOMAIN st' = Object /\ made' = made
      /\ source' = source /\ listener' = listener /\ lm' = lm
      /\ event_listener' = event_listener
  BY DEF Clean, IInv, Shape, Fields, Alive, fields
<1>5. g \in Frame /\ Put(t, g) /\ Well(g, made, Alive)
  BY <1>1, <1>2, <1>3 DEF Clean, Frame, Well
<1>6. Stacks' /\ Cur' = [Cur EXCEPT ![t] = g]
  BY <1>1, <1>4, <1>5, PutStack DEF IInv
<1>7. handle_list' = handle_list \/ handle_list' = [handle_list EXCEPT ![f.obj] = <<>>]
  BY <1>1 DEF Clean
<1>8. DOMAIN handle_list = Object
  BY DEF IInv, Shape, Lists
<1>9. \A o \in Object : \/ handle_list'[o] = handle_list[o]
                        \/ o = f.obj /\ handle_list'[o] = <<>>
  BY <1>7, <1>8
<1>10. \A o \in Object : /\ List(handle_list'[o], made)
                         /\ ToSet(handle_list'[o]) \subseteq ToSet(handle_list[o])
                         /\ IsInjective(handle_list[o]) => IsInjective(handle_list'[o])
  <2>1. List(<<>>, made)
    BY EmptyList DEF List
  <2>2. QED
    BY <1>9, <2>1, EmptyList DEF IInv, Shape, Lists
<1>11. Lists'
  BY <1>4, <1>7, <1>8, <1>10 DEF IInv, Shape, Lists
<1>12. Shape'
  BY <1>4, <1>6, <1>11 DEF IInv, Shape, Fields
<1>13. Cur'[t] = g /\ \A u \in Thread : u # t => Cur'[u] = Cur[u]
  BY <1>6, Others
<1>14. Cur[t] = f
  BY <1>1, TopIs DEF IInv
<1>15. (\A e : Linked(e)' <=> Linked(e)) /\ (\A e : Cleared(e)' <=> Cleared(e))
  BY <1>4 DEF Linked, Cleared
<1>16. f.pc = "fn" /\ g.pc = "clean" /\ g.todo = own /\ ~g.last
  BY <1>1, <1>3 DEF Frame
<1>17. \A e : /\ ~Adds(f, e) /\ ~Adds(g, e) /\ ~Drops(f, e)
              /\ e \in ToSet(own) => Drops(g, e)
              /\ \A o : ~ToSource(f, e, o) /\ ~ToListener(f, e, o)
  BY <1>16 DEF Adds, Drops, ToSource, ToListener
<1>18. Single'
  BY <1>4, <1>10 DEF IInv, Agree, Single, Alive
<1>19. LinkedAgree'
  <2>1. ASSUME NEW e, Linked(e), listener[e] \in Alive
        PROVE  \/ e \in ToSet(handle_list'[listener[e]])
               \/ \E u \in Thread : Adds(Cur'[u], e) \/ Drops(Cur'[u], e)
    <3>1. CASE e \in ToSet(handle_list[listener[e]])
      BY <1>2, <1>9, <1>13, <1>17, <2>1, <3>1 DEF Alive
    <3>2. CASE \E u \in Thread : Adds(Cur[u], e) \/ Drops(Cur[u], e)
      BY <1>13, <1>14, <1>17, <3>2
    <3>3. QED
      BY <2>1, <3>1, <3>2 DEF IInv, Agree, LinkedAgree
  <2>2. \A o \in Alive : o \in Object
    BY DEF Alive
  <2>3. QED
    BY <1>4, <1>10, <1>15, <2>1, <2>2 DEF IInv, Agree, LinkedAgree
<1>20. \A u \in Thread : \A e, o : ToSource(Cur[u], e, o) \/ ToListener(Cur[u], e, o) => u # t
  BY <1>14, <1>17
<1>21. ClearedAgree'
  <2>1. ASSUME NEW e, Cleared(e), NEW o \in Alive
        PROVE  /\ e \in ToSet(event_listener[o]) => \E u \in Thread : ToSource(Cur'[u], e, o)
               /\ e \in ToSet(handle_list'[o]) => \E u \in Thread : ToListener(Cur'[u], e, o)
    <3>1. /\ e \in ToSet(event_listener[o]) => \E u \in Thread : ToSource(Cur[u], e, o)
          /\ e \in ToSet(handle_list[o]) => \E u \in Thread : ToListener(Cur[u], e, o)
      BY <2>1 DEF IInv, Agree, ClearedAgree
    <3>2. e \in ToSet(handle_list'[o]) => e \in ToSet(handle_list[o])
      BY <1>10, <2>1 DEF Alive
    <3>3. QED
      BY <1>13, <1>20, <3>1, <3>2
  <2>2. QED
    BY <1>4, <1>15, <2>1 DEF ClearedAgree
<1>22. Adding'
  <2>1. ASSUME NEW u \in Thread, Cur'[u].pc = "add"
        PROVE  AddsWell(u)'
    <3>1. PICK h : h = Cur[u] /\ h = Cur'[u] /\ h.pc = "add"
      BY <1>13, <1>16, <2>1
    <3>2. /\ h.src \in Object /\ lm[h.src] = u
          /\ Linked(h.reg) => source[h.reg] = h.src /\ listener[h.reg] = h.obj
          /\ Cleared(h.reg) => \E v \in Thread : /\ ToSource(Cur[v], h.reg, h.src)
                                                 /\ ToListener(Cur[v], h.reg, h.obj)
          /\ \A o \in Alive : h.reg \notin ToSet(handle_list[o])
          /\ \A v \in Thread : Adds(Cur[v], h.reg) => v = u
      BY <3>1, AddsWellIs
    <3>3. \A v \in Thread : Adds(Cur'[v], h.reg) => v = u
      BY <1>13, <1>17, <3>2
    <3>4. \A o \in Alive' : h.reg \notin ToSet(handle_list'[o])
      BY <1>4, <1>10, <3>2 DEF Alive
    <3>5. Cleared(h.reg) => \E v \in Thread : /\ ToSource(Cur'[v], h.reg, h.src)
                                              /\ ToListener(Cur'[v], h.reg, h.obj)
      BY <1>13, <1>20, <3>2
    <3>6. QED
      BY <1>4, <1>15, <3>1, <3>2, <3>3, <3>4, <3>5 DEF AddsWell
  <2>2. QED
    BY <2>1 DEF Adding, AddsWell
<1>23. Removing'
  BY <1>13, <1>15, <1>16 DEF IInv, Agree, Removing
<1>24. Once'
  BY <1>4, <1>15 DEF IInv, Agree, Once
<1>25. QED
  BY <1>12, <1>18, <1>19, <1>21, <1>22, <1>23, <1>24 DEF IInv, Agree

\* stdEventHandle::remove() clears the fields and goes to both ends.
LEMMA UnhookKeeps ==
    ASSUME IInv, NEW t \in Thread, Unhook(t)
    PROVE  IInv'
<1>1. PICK f \in Frame : /\ f = Top(t) /\ f.pc = "hook" /\ call[t] # <<>>
                         /\ Well(f, made, Alive) /\ made \in Nat
                         /\ f.obj \in Object /\ f.reg \in 1..made
  <2>1. Well(Top(t), made, Alive) /\ Top(t).pc = "hook" =>
           Top(t).reg \in 0..made /\ Top(t).reg # 0
    BY DEF Well
  <2>2. QED
    BY <2>1, TopFields DEF Unhook, At
<1>2. PICK e \in 1..made : e = f.reg
  BY <1>1
<1>3. PICK s, l \in Object \cup {NoObj} : s = source[e] /\ l = listener[e]
  BY FieldsAre
<1>4. PICK g : g = [f EXCEPT !.pc = "src", !.src = s, !.lsn = l]
  OBVIOUS
<1>5. /\ Alive' = Alive /\ DOMAIN st' = Object /\ made' = made /\ lm' = lm
      /\ event_listener' = event_listener /\ handle_list' = handle_list
      /\ source' = [source EXCEPT ![e] = NoObj] /\ listener' = [listener EXCEPT ![e] = NoObj]
  BY <1>1, <1>2 DEF Unhook, IInv, Shape, Fields, Alive, ends
<1>6. g \in Frame /\ Put(t, g) /\ Well(g, made, Alive)
  BY <1>1, <1>2, <1>3, <1>4 DEF Unhook, Frame, Well
<1>7. Stacks' /\ Cur' = [Cur EXCEPT ![t] = g]
  BY <1>1, <1>5, <1>6, PutStack DEF IInv
<1>8. e \in Reg /\ DOMAIN source = Reg /\ DOMAIN listener = Reg
  BY FieldsAre DEF IInv, Shape, Fields
<1>9. Fields'
  BY <1>5, <1>8 DEF IInv, Shape, Fields
<1>10. Lists' /\ DOMAIN lm' = Object
  BY <1>5 DEF IInv, Shape, Lists
<1>11. Shape'
  BY <1>7, <1>9, <1>10 DEF Shape
<1>12. Cur'[t] = g /\ \A u \in Thread : u # t => Cur'[u] = Cur[u]
  BY <1>7, Others
<1>13. Cur[t] = f
  BY <1>1, TopIs DEF IInv
<1>14. /\ f.pc = "hook" /\ g.pc = "src" /\ g.src = s /\ g.lsn = l /\ g.reg = e /\ f.reg = e
       /\ g.todo = f.todo /\ g.last = f.last
  BY <1>1, <1>2, <1>4 DEF Frame
<1>15. /\ source'[e] = NoObj /\ listener'[e] = NoObj
       /\ \A d \in 1..made : d # e => source'[d] = source[d] /\ listener'[d] = listener[d]
  BY <1>5, <1>8, FieldsAre
<1>16. /\ \A d : Linked(d)' <=> Linked(d) /\ d # e
       /\ \A d : Cleared(d)' <=> Cleared(d) \/ d = e
  BY <1>5, <1>15 DEF Linked, Cleared
<1>17. /\ \A d : ~Adds(f, d) /\ ~Adds(g, d)
       /\ \A d : d # e /\ Drops(f, d) => Drops(g, d)
       /\ \A d, o : ~ToSource(f, d, o) /\ ~ToListener(f, d, o)
       /\ ToSource(g, e, s) /\ ToListener(g, e, l)
  BY <1>14 DEF Adds, Drops, ToSource, ToListener
<1>18. \A u \in Thread : \A d, o, p : ToSource(Cur[u], d, o) \/ ToListener(Cur[u], d, p) => u # t
  BY <1>13, <1>17
<1>19. Single'
  BY <1>5 DEF IInv, Agree, Single
<1>20. LinkedAgree'
  <2>1. \A d : d # e /\ (\E u \in Thread : Adds(Cur[u], d) \/ Drops(Cur[u], d))
                 => \E u \in Thread : Adds(Cur'[u], d) \/ Drops(Cur'[u], d)
    BY <1>12, <1>13, <1>17
  <2>2. \A d : Linked(d)' => source'[d] = source[d] /\ listener'[d] = listener[d]
    BY <1>15, <1>16 DEF Linked
  <2>3. QED
    BY <1>5, <1>16, <2>1, <2>2 DEF IInv, Agree, LinkedAgree
<1>21. ClearedAgree'
  <2>1. ASSUME NEW d, Cleared(d)', NEW o \in Alive, d \in ToSet(event_listener[o])
        PROVE  \E u \in Thread : ToSource(Cur'[u], d, o)
    <3>1. CASE Cleared(d)
      BY <1>12, <1>18, <2>1, <3>1 DEF IInv, Agree, ClearedAgree
    <3>2. CASE Linked(d) /\ d = e
      <4>1. o = s
        BY <1>3, <2>1, <3>2 DEF IInv, Agree, LinkedAgree
      <4>2. QED
        BY <1>12, <1>17, <3>2, <4>1
    <3>3. QED
      BY <1>2, <1>16, <2>1, <3>1, <3>2 DEF Linked, Cleared
  <2>2. ASSUME NEW d, Cleared(d)', NEW o \in Alive, d \in ToSet(handle_list[o])
        PROVE  \E u \in Thread : ToListener(Cur'[u], d, o)
    <3>1. CASE Cleared(d)
      BY <1>12, <1>18, <2>2, <3>1 DEF IInv, Agree, ClearedAgree
    <3>2. CASE Linked(d) /\ d = e
      <4>1. o = l
        BY <1>3, <2>2, <3>2 DEF IInv, Agree, LinkedAgree
      <4>2. QED
        BY <1>12, <1>17, <3>2, <4>1
    <3>3. QED
      BY <1>2, <1>16, <2>2, <3>1, <3>2 DEF Linked, Cleared
  <2>3. QED
    BY <1>5, <2>1, <2>2 DEF ClearedAgree
<1>22. Adding'
  <2>1. ASSUME NEW u \in Thread, Cur'[u].pc = "add"
        PROVE  AddsWell(u)'
    <3>1. PICK h : h = Cur[u] /\ h = Cur'[u] /\ h.pc = "add"
      BY <1>12, <1>14, <2>1
    <3>2. /\ h.src \in Object /\ lm[h.src] = u
          /\ Linked(h.reg) => source[h.reg] = h.src /\ listener[h.reg] = h.obj
          /\ Cleared(h.reg) => \E v \in Thread : /\ ToSource(Cur[v], h.reg, h.src)
                                                 /\ ToListener(Cur[v], h.reg, h.obj)
          /\ \A o \in Alive : h.reg \notin ToSet(handle_list[o])
          /\ \A v \in Thread : Adds(Cur[v], h.reg) => v = u
      BY <3>1, AddsWellIs
    <3>3. \A v \in Thread : Adds(Cur'[v], h.reg) => v = u
      BY <1>12, <1>17, <3>2
    <3>4. Linked(h.reg)' => source'[h.reg] = h.src /\ listener'[h.reg] = h.obj
      BY <1>15, <1>16, <3>2 DEF Linked
    <3>5. ASSUME Cleared(h.reg)'
          PROVE  \E v \in Thread : /\ ToSource(Cur'[v], h.reg, h.src)
                                   /\ ToListener(Cur'[v], h.reg, h.obj)
      <4>1. CASE Cleared(h.reg)
        BY <1>12, <1>18, <3>2, <4>1
      <4>2. CASE Linked(h.reg) /\ h.reg = e
        BY <1>3, <1>12, <1>17, <3>2, <4>2
      <4>3. QED
        BY <1>2, <1>16, <3>5, <4>1, <4>2 DEF Linked, Cleared
    <3>6. QED
      BY <1>5, <3>1, <3>2, <3>3, <3>4, <3>5 DEF AddsWell
  <2>2. QED
    BY <2>1 DEF Adding, AddsWell
<1>23. Removing'
  BY <1>12, <1>14, <1>16 DEF IInv, Agree, Removing
<1>24. Once'
  BY <1>5, <1>15, <1>16 DEF IInv, Agree, Once, Linked
<1>25. QED
  BY <1>11, <1>19, <1>20, <1>21, <1>22, <1>23, <1>24 DEF IInv, Agree

\* tinyState_::remove_listener(): only now may the registration's add_listener(),
\* which holds this lm, have put it on the listener's list.
LEMMA RemoveListenerKeeps ==
    ASSUME IInv, NEW t \in Thread, RemoveListener(t)
    PROVE  IInv'
<1>1. PICK f \in Frame : /\ f = Top(t) /\ f.pc = "src" /\ call[t] # <<>>
                         /\ Well(f, made, Alive) /\ made \in Nat /\ f.obj \in Object
  BY TopFields DEF RemoveListener, At
<1>2. PICK e, s : e = f.reg /\ s = f.src
  OBVIOUS
<1>3. PICK g : g = [f EXCEPT !.pc = "lsn", !.src = NoObj]
  OBVIOUS
<1>4. /\ Alive' = Alive /\ DOMAIN st' = Object /\ made' = made /\ lm' = lm
      /\ source' = source /\ listener' = listener /\ handle_list' = handle_list
      /\ event_listener' = [o \in Object |->
            IF o = s THEN RemoveFirst(event_listener[o], e) ELSE event_listener[o]]
  BY <1>1, <1>2 DEF RemoveListener, IInv, Shape, Fields, Alive, fields
<1>5. g \in Frame /\ Put(t, g) /\ Well(g, made, Alive)
  BY <1>1, <1>3 DEF RemoveListener, Frame, Well
<1>6. Stacks' /\ Cur' = [Cur EXCEPT ![t] = g]
  BY <1>1, <1>4, <1>5, PutStack DEF IInv
<1>7. ASSUME NEW o \in Object
      PROVE  /\ event_listener'[o] \in Seq(Nat)
             /\ ToSet(event_listener'[o]) \subseteq ToSet(event_listener[o])
             /\ IsInjective(event_listener[o]) =>
                   /\ IsInjective(event_listener'[o])
                   /\ \A d : d \in ToSet(event_listener'[o])
                               <=> d \in ToSet(event_listener[o]) /\ ~(o = s /\ d = e)
  <2>1. CASE o = s
    BY <1>4, <2>1, ListsAre, RemoveList
  <2>2. CASE o # s
    BY <1>4, <2>2, ListsAre
  <2>3. QED
    BY <2>1, <2>2
<1>8. Lists'
  <2>1. \A o \in Object : List(event_listener'[o], made)
    BY <1>7, ListsAre DEF List
  <2>2. QED
    BY <1>4, <2>1 DEF IInv, Shape, Lists
<1>9. Shape'
  BY <1>4, <1>6, <1>8 DEF IInv, Shape, Fields
<1>10. Cur'[t] = g /\ \A u \in Thread : u # t => Cur'[u] = Cur[u]
  BY <1>6, Others
<1>11. Cur[t] = f
  BY <1>1, TopIs DEF IInv
<1>12. /\ f.pc = "src" /\ g.pc = "lsn" /\ f.reg = e /\ g.reg = e /\ g.lsn = f.lsn /\ f.src = s
       /\ g.todo = f.todo /\ g.last = f.last
  BY <1>1, <1>2, <1>3 DEF Frame
<1>13. (\A d : Linked(d)' <=> Linked(d)) /\ (\A d : Cleared(d)' <=> Cleared(d))
  BY <1>4 DEF Linked, Cleared
<1>14. Cleared(e)
  BY <1>11, <1>12 DEF IInv, Agree, Removing
<1>15. /\ \A d : ~Adds(f, d) /\ ~Adds(g, d)
       /\ \A d : Drops(f, d) => Drops(g, d)
       /\ \A d, o : ToSource(f, d, o) => d = e /\ o = s
       /\ \A d, o : ToListener(f, d, o) => ToListener(g, d, o)
  BY <1>12 DEF Adds, Drops, ToSource, ToListener
<1>16. \A o \in Alive : o \in Object /\ IsInjective(event_listener[o])
  BY DEF IInv, Agree, Single, Alive
<1>17. Single'
  BY <1>4, <1>7, <1>16 DEF IInv, Agree, Single
<1>18. LinkedAgree'
  <2>1. \A d : (\E u \in Thread : Adds(Cur[u], d) \/ Drops(Cur[u], d))
                 => \E u \in Thread : Adds(Cur'[u], d) \/ Drops(Cur'[u], d)
    BY <1>10, <1>11, <1>15
  <2>2. \A d : Linked(d) => \A o \in Alive :
             d \in ToSet(event_listener'[o]) <=> d \in ToSet(event_listener[o])
    BY <1>7, <1>14, <1>16 DEF Linked, Cleared
  <2>3. QED
    BY <1>4, <1>13, <2>1, <2>2 DEF IInv, Agree, LinkedAgree
<1>19. \A d, o : (\E u \in Thread : ToListener(Cur[u], d, o))
                    => \E u \in Thread : ToListener(Cur'[u], d, o)
  BY <1>10, <1>11, <1>15
<1>20. ClearedAgree'
  <2>1. ASSUME NEW d, Cleared(d), NEW o \in Alive, d \in ToSet(event_listener'[o])
        PROVE  \E u \in Thread : ToSource(Cur'[u], d, o)
    <3>1. d \in ToSet(event_listener[o]) /\ ~(o = s /\ d = e)
      BY <1>7, <1>16, <2>1
    <3>2. PICK u \in Thread : ToSource(Cur[u], d, o)
      BY <2>1, <3>1 DEF IInv, Agree, ClearedAgree
    <3>3. u # t
      BY <1>11, <1>15, <3>1, <3>2
    <3>4. QED
      BY <1>10, <3>2, <3>3
  <2>2. QED
    BY <1>4, <1>13, <1>19, <2>1 DEF IInv, Agree, ClearedAgree
<1>21. Adding'
  <2>1. ASSUME NEW u \in Thread, Cur'[u].pc = "add"
        PROVE  AddsWell(u)'
    <3>1. PICK h : h = Cur[u] /\ h = Cur'[u] /\ h.pc = "add" /\ u # t
      BY <1>10, <1>12, <2>1
    <3>2. /\ h.src \in Object /\ lm[h.src] = u
          /\ Linked(h.reg) => source[h.reg] = h.src /\ listener[h.reg] = h.obj
          /\ Cleared(h.reg) => \E v \in Thread : /\ ToSource(Cur[v], h.reg, h.src)
                                                 /\ ToListener(Cur[v], h.reg, h.obj)
          /\ \A o \in Alive : h.reg \notin ToSet(handle_list[o])
          /\ \A v \in Thread : Adds(Cur[v], h.reg) => v = u
      BY <3>1, AddsWellIs
    <3>3. \A v \in Thread : Adds(Cur'[v], h.reg) => v = u
      BY <1>10, <1>15, <3>2
    <3>4. h.src # s
      <4>1. LmFree(t, s)
        BY <1>1, <1>2 DEF RemoveListener
      <4>2. h.src # NoObj /\ u # NoThread
        BY <3>2, ListenersAssumption DEF ListenersAssumption
      <4>3. QED
        BY <3>1, <3>2, <4>1, <4>2 DEF LmFree
    <3>5. ASSUME Cleared(h.reg)
          PROVE  \E v \in Thread : /\ ToSource(Cur'[v], h.reg, h.src)
                                   /\ ToListener(Cur'[v], h.reg, h.obj)
      <4>1. PICK v \in Thread : ToSource(Cur[v], h.reg, h.src) /\ ToListener(Cur[v], h.reg, h.obj)
        BY <3>2, <3>5
      <4>2. v # t
        BY <1>11, <1>15, <3>4, <4>1
      <4>3. QED
        BY <1>10, <4>1, <4>2
    <3>6. QED
      BY <1>4, <1>13, <3>1, <3>2, <3>3, <3>5 DEF AddsWell
  <2>2. QED
    BY <2>1 DEF Adding, AddsWell
<1>22. Removing'
  BY <1>10, <1>12, <1>13, <1>14 DEF IInv, Agree, Removing
<1>23. Once'
  BY <1>4, <1>13 DEF IInv, Agree, Once
<1>24. QED
  BY <1>9, <1>17, <1>18, <1>20, <1>21, <1>22, <1>23 DEF IInv, Agree

\* tinyState_::remove_handle(), and back to the loop.
LEMMA RemoveHandleKeeps ==
    ASSUME IInv, NEW t \in Thread, RemoveHandle(t)
    PROVE  IInv'
<1>1. PICK f \in Frame : /\ f = Top(t) /\ f.pc = "lsn" /\ call[t] # <<>>
                         /\ Well(f, made, Alive) /\ made \in Nat /\ f.obj \in Object
  BY TopFields DEF RemoveHandle, At
<1>2. PICK e, l : e = f.reg /\ l = f.lsn
  OBVIOUS
<1>3. PICK p, g : /\ p = IF f.last THEN "sweep" ELSE "clean"
                  /\ g = [f EXCEPT !.pc = p, !.reg = 0, !.lsn = NoObj]
  OBVIOUS
<1>4. /\ Alive' = Alive /\ DOMAIN st' = Object /\ made' = made /\ lm' = lm
      /\ source' = source /\ listener' = listener /\ event_listener' = event_listener
      /\ handle_list' = [o \in Object |->
            IF o = l THEN RemoveFirst(handle_list[o], e) ELSE handle_list[o]]
  BY <1>1, <1>2 DEF RemoveHandle, IInv, Shape, Fields, Alive, fields
<1>5. g \in Frame /\ Put(t, g) /\ Well(g, made, Alive)
  <2>1. Put(t, g)
    BY <1>1, <1>3 DEF RemoveHandle, Removed
  <2>2. g \in Frame
    BY <1>1, <1>3 DEF Frame
  <2>3. f.src = NoObj /\ 0 \in 0..made /\ (f.last => f.obj \notin Alive)
    BY <1>1 DEF Well
  <2>4. Well(g, made, Alive)
    BY <1>1, <1>3, <2>3 DEF Frame, Well
  <2>5. QED
    BY <2>1, <2>2, <2>4
<1>6. Stacks' /\ Cur' = [Cur EXCEPT ![t] = g]
  BY <1>1, <1>4, <1>5, PutStack DEF IInv
<1>7. ASSUME NEW o \in Object
      PROVE  /\ handle_list'[o] \in Seq(Nat)
             /\ ToSet(handle_list'[o]) \subseteq ToSet(handle_list[o])
             /\ IsInjective(handle_list[o]) =>
                   /\ IsInjective(handle_list'[o])
                   /\ \A d : d \in ToSet(handle_list'[o])
                               <=> d \in ToSet(handle_list[o]) /\ ~(o = l /\ d = e)
  <2>1. CASE o = l
    BY <1>4, <2>1, ListsAre, RemoveList
  <2>2. CASE o # l
    BY <1>4, <2>2, ListsAre
  <2>3. QED
    BY <2>1, <2>2
<1>8. Lists'
  <2>1. \A o \in Object : List(handle_list'[o], made)
    BY <1>7, ListsAre DEF List
  <2>2. QED
    BY <1>4, <2>1 DEF IInv, Shape, Lists
<1>9. Shape'
  BY <1>4, <1>6, <1>8 DEF IInv, Shape, Fields
<1>10. Cur'[t] = g /\ \A u \in Thread : u # t => Cur'[u] = Cur[u]
  BY <1>6, Others
<1>11. Cur[t] = f
  BY <1>1, TopIs DEF IInv
<1>12. /\ f.pc = "lsn" /\ f.reg = e /\ f.lsn = l /\ g.todo = f.todo /\ g.last = f.last
       /\ g.pc \in {"clean", "sweep"} /\ (~f.last => g.pc = "clean")
  BY <1>1, <1>2, <1>3 DEF Frame
<1>13. (\A d : Linked(d)' <=> Linked(d)) /\ (\A d : Cleared(d)' <=> Cleared(d))
  BY <1>4 DEF Linked, Cleared
<1>14. Cleared(e)
  BY <1>11, <1>12 DEF IInv, Agree, Removing
<1>15. /\ \A d : ~Adds(f, d) /\ ~Adds(g, d)
       /\ \A d : Drops(f, d) => Drops(g, d)
       /\ \A d, o : ~ToSource(f, d, o)
       /\ \A d, o : ToListener(f, d, o) => d = e /\ o = l
  BY <1>12 DEF Adds, Drops, ToSource, ToListener
<1>16. \A o \in Alive : o \in Object /\ IsInjective(handle_list[o])
  BY DEF IInv, Agree, Single, Alive
<1>17. Single'
  BY <1>4, <1>7, <1>16 DEF IInv, Agree, Single
<1>18. LinkedAgree'
  <2>1. \A d : (\E u \in Thread : Adds(Cur[u], d) \/ Drops(Cur[u], d))
                 => \E u \in Thread : Adds(Cur'[u], d) \/ Drops(Cur'[u], d)
    BY <1>10, <1>11, <1>15
  <2>2. \A d : Linked(d) => \A o \in Alive :
             d \in ToSet(handle_list'[o]) <=> d \in ToSet(handle_list[o])
    BY <1>7, <1>14, <1>16 DEF Linked, Cleared
  <2>3. QED
    BY <1>4, <1>13, <2>1, <2>2 DEF IInv, Agree, LinkedAgree
<1>19. \A u \in Thread : \A d, o : ToSource(Cur[u], d, o) => u # t
  BY <1>11, <1>15
<1>20. ClearedAgree'
  <2>1. ASSUME NEW d, Cleared(d), NEW o \in Alive, d \in ToSet(handle_list'[o])
        PROVE  \E u \in Thread : ToListener(Cur'[u], d, o)
    <3>1. d \in ToSet(handle_list[o]) /\ ~(o = l /\ d = e)
      BY <1>7, <1>16, <2>1
    <3>2. PICK u \in Thread : ToListener(Cur[u], d, o)
      BY <2>1, <3>1 DEF IInv, Agree, ClearedAgree
    <3>3. u # t
      BY <1>11, <1>15, <3>1, <3>2
    <3>4. QED
      BY <1>10, <3>2, <3>3
  <2>2. \A d, o : (\E u \in Thread : ToSource(Cur[u], d, o))
                     => \E u \in Thread : ToSource(Cur'[u], d, o)
    BY <1>10, <1>19
  <2>3. QED
    BY <1>4, <1>13, <2>1, <2>2 DEF IInv, Agree, ClearedAgree
<1>21. Adding'
  <2>1. ASSUME NEW u \in Thread, Cur'[u].pc = "add"
        PROVE  AddsWell(u)'
    <3>1. PICK h : h = Cur[u] /\ h = Cur'[u] /\ h.pc = "add"
      BY <1>10, <1>12, <2>1
    <3>2. /\ h.src \in Object /\ lm[h.src] = u
          /\ Linked(h.reg) => source[h.reg] = h.src /\ listener[h.reg] = h.obj
          /\ Cleared(h.reg) => \E v \in Thread : /\ ToSource(Cur[v], h.reg, h.src)
                                                 /\ ToListener(Cur[v], h.reg, h.obj)
          /\ \A o \in Alive : h.reg \notin ToSet(handle_list[o])
          /\ \A v \in Thread : Adds(Cur[v], h.reg) => v = u
      BY <3>1, AddsWellIs
    <3>3. \A v \in Thread : Adds(Cur'[v], h.reg) => v = u
      BY <1>10, <1>15, <3>2
    <3>4. \A o \in Alive : h.reg \notin ToSet(handle_list'[o])
      BY <1>7, <1>16, <3>2
    <3>5. Cleared(h.reg) => \E v \in Thread : /\ ToSource(Cur'[v], h.reg, h.src)
                                              /\ ToListener(Cur'[v], h.reg, h.obj)
      BY <1>10, <1>19, <3>2
    <3>6. QED
      BY <1>4, <1>13, <3>1, <3>2, <3>3, <3>4, <3>5 DEF AddsWell
  <2>2. QED
    BY <2>1 DEF Adding, AddsWell
<1>22. Removing'
  BY <1>10, <1>12, <1>13 DEF IInv, Agree, Removing
<1>23. Once'
  BY <1>4, <1>13 DEF IInv, Agree, Once
<1>24. QED
  BY <1>9, <1>17, <1>18, <1>20, <1>21, <1>22, <1>23 DEF IInv, Agree

\* add_listener() makes registration e of a listener that has none with s.
LEMMA AddListenerKeeps ==
    ASSUME IInv, NEW t \in Thread, NEW s \in Object, At(t, "fn"), LmFree(t, s),
           \A e \in ToSet(event_listener[s]) : listener[e] # Top(t).obj,
           AddListener(t, s), UNCHANGED <<st, handle_list>>
    PROVE  IInv'
<1>1. PICK f \in Frame : /\ f = Top(t) /\ f.pc = "fn" /\ call[t] # <<>>
                         /\ Well(f, made, Alive) /\ made \in Nat
                         /\ f.obj \in Object /\ ~f.last
                         /\ ToSet(f.todo) \subseteq 1..made
  <2>1. Well(Top(t), made, Alive) /\ Top(t).pc = "fn" => ~Top(t).last
    BY DEF Well
  <2>2. QED
    BY <2>1, TopFields DEF At
<1>2. PICK e : e = made + 1
  OBVIOUS
<1>3. /\ e \in Nat /\ e # 0 /\ e \in 1..e /\ made <= e /\ e \in Reg /\ e <= MaxReg
      /\ \A d : d \in 1..e <=> d \in 1..made \/ d = e
      /\ e \notin 1..made /\ 0..made \subseteq 0..e /\ e \in 0..e
  BY <1>1, <1>2, ListenersAssumption
     DEF AddListener, Reg, IInv, Shape, Fields, ListenersAssumption
<1>4. PICK g : g = [f EXCEPT !.pc = "add", !.src = s, !.reg = e]
  OBVIOUS
<1>5. /\ made' = e /\ Alive' = Alive /\ DOMAIN st' = Object /\ handle_list' = handle_list
      /\ source' = [source EXCEPT ![e] = s] /\ listener' = [listener EXCEPT ![e] = f.obj]
      /\ event_listener' = [event_listener EXCEPT ![s] = Append(@, e)]
      /\ lm' = [lm EXCEPT ![s] = t]
  BY <1>1, <1>2 DEF AddListener, IInv, Shape, Fields, Alive
<1>6. Put(t, g)
  BY <1>1, <1>2, <1>4 DEF AddListener
<1>7. g \in Frame /\ Well(g, e, Alive)
  <2>1. g \in Frame
    BY <1>1, <1>3, <1>4 DEF Frame
  <2>2. ToSet(f.todo) \subseteq 1..e /\ f.lsn = NoObj
    BY <1>1, <1>3 DEF Well
  <2>3. QED
    BY <1>1, <1>3, <1>4, <2>1, <2>2 DEF Frame, Well
<1>8. Stacks' /\ Cur' = [Cur EXCEPT ![t] = g]
  BY <1>1, <1>3, <1>5, <1>6, <1>7, PutStack DEF IInv
<1>9. DOMAIN source = Reg /\ DOMAIN listener = Reg /\ DOMAIN event_listener = Object /\ DOMAIN lm = Object
  BY DEF IInv, Shape, Fields, Lists
<1>10. NoObj \notin Object /\ NoThread \notin Thread /\ MaxReg \in Nat
  BY ListenersAssumption DEF ListenersAssumption
<1>11. Fields'
  <2>1. made' \in 0..MaxReg
    BY <1>3, <1>5, <1>10
  <2>2. QED
    BY <1>1, <1>3, <1>5, <1>9, <1>10, <2>1 DEF IInv, Shape, Fields
<1>12. ASSUME NEW o \in Object
       PROVE  /\ event_listener'[o] \in Seq(Nat)
              /\ \A d : d \in ToSet(event_listener'[o])
                           <=> d \in ToSet(event_listener[o]) \/ (o = s /\ d = e)
              /\ IsInjective(event_listener[o]) => IsInjective(event_listener'[o])
  <2>1. e \notin ToSet(event_listener[o])
    BY <1>3, ListsAre
  <2>2. CASE o = s
    BY <1>3, <1>5, <1>9, <2>1, <2>2, ListsAre, AppendList
  <2>3. CASE o # s
    BY <1>5, <1>9, <2>3, ListsAre
  <2>4. QED
    BY <2>2, <2>3
<1>13. Lists'
  <2>1. \A o \in Object : List(event_listener'[o], e)
    BY <1>3, <1>12, ListsAre DEF List
  <2>2. \A o \in Object : List(handle_list[o], e)
    BY <1>3, ListsAre DEF List
  <2>3. DOMAIN handle_list = Object
    BY DEF IInv, Shape, Lists
  <2>4. QED
    BY <1>5, <1>9, <2>1, <2>2, <2>3 DEF Lists
<1>14. Shape'
  BY <1>5, <1>8, <1>9, <1>11, <1>13 DEF Shape
<1>15. Cur'[t] = g /\ \A u \in Thread : u # t => Cur'[u] = Cur[u]
  BY <1>8, Others
<1>16. Cur[t] = f
  BY <1>1, TopIs DEF IInv
<1>17. f.pc = "fn" /\ g.pc = "add" /\ g.src = s /\ g.reg = e /\ g.obj = f.obj
  BY <1>1, <1>4 DEF Frame
<1>18. /\ source'[e] = s /\ listener'[e] = f.obj /\ s # NoObj
       /\ \A d \in 1..made : /\ d \in Reg /\ d # e
                             /\ source'[d] = source[d] /\ listener'[d] = listener[d]
  BY <1>3, <1>5, <1>9, <1>10, FieldsAre
<1>19. /\ \A d : Linked(d)' <=> Linked(d) \/ d = e
       /\ \A d : Cleared(d)' <=> Cleared(d)
       /\ \A d : Linked(d) \/ Cleared(d) => d \in 1..made
  BY <1>3, <1>5, <1>18 DEF Linked, Cleared
<1>20. /\ \A d : Adds(g, d) <=> d = e
       /\ \A d : ~Adds(f, d) /\ ~Drops(f, d)
       /\ \A d, o : ~ToSource(f, d, o) /\ ~ToListener(f, d, o)
       /\ \A d, o : ~ToSource(g, d, o) /\ ~ToListener(g, d, o)
  BY <1>17 DEF Adds, Drops, ToSource, ToListener
<1>21. \A u \in Thread : Cur[u].reg # e
  BY <1>3, WorksOnMade DEF IInv
<1>22. \A o \in Alive : /\ o \in Object /\ e \notin ToSet(event_listener[o])
                        /\ e \notin ToSet(handle_list[o])
  BY <1>3, ListsAre DEF Alive
<1>23. Single'
  BY <1>5, <1>12, <1>22 DEF IInv, Agree, Single
<1>24. LinkedAgree'
  <2>1. \A d : (\E u \in Thread : Adds(Cur[u], d) \/ Drops(Cur[u], d))
                 => \E u \in Thread : Adds(Cur'[u], d) \/ Drops(Cur'[u], d)
    BY <1>15, <1>16, <1>20
  <2>2. ASSUME NEW d, Linked(d), d # e
        PROVE  /\ \A o \in Alive : d \in ToSet(event_listener'[o]) <=> o = source'[d]
               /\ \A o \in Alive : d \in ToSet(handle_list[o]) => o = listener'[d]
               /\ listener'[d] \in Alive =>
                     \/ d \in ToSet(handle_list[listener'[d]])
                     \/ \E u \in Thread : Adds(Cur'[u], d) \/ Drops(Cur'[u], d)
    <3>1. source'[d] = source[d] /\ listener'[d] = listener[d]
      BY <1>18, <1>19, <2>2
    <3>2. QED
      BY <1>12, <1>22, <2>1, <2>2, <3>1 DEF IInv, Agree, LinkedAgree
  <2>3. /\ \A o \in Alive : e \in ToSet(event_listener'[o]) <=> o = source'[e]
        /\ \A o \in Alive : e \in ToSet(handle_list[o]) => o = listener'[e]
        /\ \E u \in Thread : Adds(Cur'[u], e) \/ Drops(Cur'[u], e)
    BY <1>12, <1>15, <1>18, <1>20, <1>22
  <2>4. QED
    BY <1>5, <1>19, <2>2, <2>3 DEF LinkedAgree
<1>25. ClearedAgree'
  <2>1. ASSUME NEW d, Cleared(d), NEW o \in Alive
        PROVE  /\ d \in ToSet(event_listener'[o]) => \E u \in Thread : ToSource(Cur'[u], d, o)
               /\ d \in ToSet(handle_list[o]) => \E u \in Thread : ToListener(Cur'[u], d, o)
    <3>1. d # e
      BY <1>18, <1>19, <2>1
    <3>2. /\ d \in ToSet(event_listener[o]) => \E u \in Thread : ToSource(Cur[u], d, o)
          /\ d \in ToSet(handle_list[o]) => \E u \in Thread : ToListener(Cur[u], d, o)
      BY <2>1 DEF IInv, Agree, ClearedAgree
    <3>3. \A u \in Thread : ToSource(Cur[u], d, o) \/ ToListener(Cur[u], d, o) => u # t
      BY <1>16, <1>20
    <3>4. QED
      BY <1>12, <1>15, <1>22, <3>1, <3>2, <3>3
  <2>2. QED
    BY <1>5, <1>19, <2>1 DEF ClearedAgree
<1>26. Adding'
  <2>1. ASSUME NEW u \in Thread, u # t, Cur'[u].pc = "add"
        PROVE  AddsWell(u)'
    <3>1. PICK h : h = Cur[u] /\ h = Cur'[u] /\ h.pc = "add" /\ h.reg # e
      BY <1>15, <1>21, <2>1
    <3>2. /\ h.src \in Object /\ lm[h.src] = u
          /\ Linked(h.reg) => source[h.reg] = h.src /\ listener[h.reg] = h.obj
          /\ Cleared(h.reg) => \E v \in Thread : /\ ToSource(Cur[v], h.reg, h.src)
                                                 /\ ToListener(Cur[v], h.reg, h.obj)
          /\ \A o \in Alive : h.reg \notin ToSet(handle_list[o])
          /\ \A v \in Thread : Adds(Cur[v], h.reg) => v = u
      BY <3>1, AddsWellIs
    <3>3. h.src # s /\ lm'[h.src] = u
      <4>1. s # NoObj /\ u # NoThread
        BY <1>10
      <4>2. h.src # s
        BY <2>1, <3>2, <4>1 DEF LmFree
      <4>3. QED
        BY <1>5, <1>9, <3>2, <4>2
    <3>4. Linked(h.reg)' => source'[h.reg] = h.src /\ listener'[h.reg] = h.obj
      BY <1>18, <1>19, <3>1, <3>2
    <3>5. \A v \in Thread : Adds(Cur'[v], h.reg) => v = u
      BY <1>15, <1>20, <3>1, <3>2
    <3>6. Cleared(h.reg) => \E v \in Thread : /\ ToSource(Cur'[v], h.reg, h.src)
                                              /\ ToListener(Cur'[v], h.reg, h.obj)
      BY <1>15, <1>16, <1>20, <3>2
    <3>7. QED
      BY <1>5, <1>19, <3>1, <3>2, <3>3, <3>4, <3>5, <3>6 DEF AddsWell
  <2>2. AddsWell(t)'
    <3>1. lm'[s] = t
      BY <1>5, <1>9
    <3>2. ~Cleared(e)'
      BY <1>18, <1>19
    <3>3. \A v \in Thread : Adds(Cur'[v], e) => v = t
      BY <1>15, <1>21 DEF Adds
    <3>4. QED
      BY <1>5, <1>15, <1>17, <1>18, <1>22, <3>1, <3>2, <3>3 DEF AddsWell
  <2>3. QED
    BY <2>1, <2>2 DEF Adding, AddsWell
<1>27. Removing'
  BY <1>15, <1>17, <1>19 DEF IInv, Agree, Removing
<1>28. Once'
  <2>1. ASSUME NEW d, Linked(d), source[d] = s, listener[d] = f.obj, s \in Alive
        PROVE  FALSE
    <3>1. d \in ToSet(event_listener[s])
      BY <2>1 DEF IInv, Agree, LinkedAgree
    <3>2. QED
      BY <1>1, <2>1, <3>1
  <2>2. \A d : Linked(d) => /\ source'[d] = source[d] /\ listener'[d] = listener[d]
                            /\ d # e
    BY <1>18, <1>19
  <2>3. QED
    BY <1>5, <1>18, <1>19, <2>1, <2>2 DEF IInv, Agree, Once
<1>29. QED
  BY <1>14, <1>23, <1>24, <1>25, <1>26, <1>27, <1>28 DEF IInv, Agree

\* A registration this listener has already is returned as it is.
LEMMA ListenKeeps ==
    ASSUME IInv, NEW t \in Thread, NEW s \in Object, Listen(t, s)
    PROVE  IInv'
<1>1. PICK f \in Frame : /\ f = Top(t) /\ f.pc = "fn" /\ call[t] # <<>>
                         /\ Well(f, made, Alive)
  BY TopFields DEF Listen, At
<1>2. CASE AddListener(t, s) /\ \A e \in ToSet(event_listener[s]) : listener[e] # Top(t).obj
  BY <1>2, AddListenerKeeps DEF Listen
<1>3. CASE /\ Put(t, [f EXCEPT !.pc = "look", !.src = s])
           /\ UNCHANGED <<event_listener, fields, lm, made>>
  <2>1. PICK g : g = [f EXCEPT !.pc = "look", !.src = s]
    OBVIOUS
  <2>2. g \in Frame /\ Put(t, g) /\ Well(g, made, Alive) /\ g.pc = "look"
    BY <1>1, <1>3, <2>1 DEF Frame, Well
  <2>3. \A e : ~Drops(f, e)
    BY <1>1 DEF Drops
  <2>4. Alive' = Alive /\ DOMAIN st' = Object /\ UNCHANGED <<ends, fields, made, lm>>
    BY <1>3 DEF Listen, IInv, Shape, Fields, Alive, ends
  <2>5. QED
    BY <1>1, <2>2, <2>3, <2>4, QuietTurn
<1>4. QED
  BY <1>1, <1>2, <1>3 DEF Listen

\* ins_handle_list(): the registration comes onto its listener's list, and the lm of
\* the source is given back.
LEMMA AddKeeps ==
    ASSUME IInv, NEW t \in Thread, Add(t)
    PROVE  IInv'
<1>1. PICK f \in Frame : /\ f = Top(t) /\ f.pc = "add" /\ call[t] # <<>>
                         /\ Well(f, made, Alive) /\ made \in Nat
                         /\ f.obj \in Object /\ f.reg \in 1..made
  <2>1. Well(Top(t), made, Alive) /\ Top(t).pc = "add" =>
           Top(t).reg \in 0..made /\ Top(t).reg # 0
    BY DEF Well
  <2>2. QED
    BY <2>1, TopFields DEF Add, At
<1>2. PICK e, o, s : /\ e = f.reg /\ o = f.obj /\ s = f.src
                     /\ e \in 1..made /\ o \in Object
  BY <1>1
<1>3. PICK g : g = [f EXCEPT !.pc = "look", !.reg = 0]
  OBVIOUS
<1>4. /\ Alive' = Alive /\ DOMAIN st' = Object /\ made' = made
      /\ source' = source /\ listener' = listener /\ event_listener' = event_listener
      /\ handle_list' = [handle_list EXCEPT ![o] = <<e>> \o @]
      /\ lm' = [lm EXCEPT ![s] = NoThread]
  BY <1>1, <1>2 DEF Add, IInv, Shape, Fields, Alive, fields
<1>5. g \in Frame /\ Put(t, g) /\ Well(g, made, Alive)
  <2>1. g \in Frame /\ Put(t, g)
    BY <1>1, <1>3 DEF Add, Frame
  <2>2. 0 \in 0..made
    BY <1>1
  <2>3. Well(g, made, Alive)
    BY <1>1, <1>3, <2>2 DEF Frame, Well
  <2>4. QED
    BY <2>1, <2>3
<1>6. Stacks' /\ Cur' = [Cur EXCEPT ![t] = g]
  BY <1>1, <1>4, <1>5, PutStack DEF IInv
<1>7. DOMAIN handle_list = Object /\ DOMAIN lm = Object /\ e \in Nat
  BY <1>1, <1>2 DEF IInv, Shape, Lists
<1>8. Cur'[t] = g /\ \A u \in Thread : u # t => Cur'[u] = Cur[u]
  BY <1>6, Others
<1>9. Cur[t] = f
  BY <1>1, TopIs DEF IInv
<1>10. f.pc = "add" /\ g.pc = "look" /\ f.reg = e /\ f.src = s /\ f.obj = o
  BY <1>1, <1>2, <1>3 DEF Frame
<1>11. /\ s \in Object /\ lm[s] = t
       /\ Linked(e) => source[e] = s /\ listener[e] = o
       /\ Cleared(e) => \E v \in Thread : ToSource(Cur[v], e, s) /\ ToListener(Cur[v], e, o)
       /\ \A p \in Alive : e \notin ToSet(handle_list[p])
       /\ \A v \in Thread : Adds(Cur[v], e) => v = t
  BY <1>9, <1>10, AddsWellIs
<1>12. ASSUME NEW p \in Object
       PROVE  /\ handle_list'[p] \in Seq(Nat)
              /\ \A d : d \in ToSet(handle_list'[p])
                           <=> d \in ToSet(handle_list[p]) \/ (p = o /\ d = e)
              /\ IsInjective(handle_list[p]) /\ e \notin ToSet(handle_list[p])
                    => IsInjective(handle_list'[p])
  <2>1. CASE p = o
    BY <1>4, <1>7, <2>1, ListsAre, ConsList
  <2>2. CASE p # o
    BY <1>4, <1>7, <2>2, ListsAre
  <2>3. QED
    BY <2>1, <2>2
<1>13. Lists'
  <2>1. \A p \in Object : List(handle_list'[p], made)
    BY <1>2, <1>12, ListsAre DEF List
  <2>2. QED
    BY <1>4, <1>7, <2>1 DEF IInv, Shape, Lists
<1>14. Shape'
  BY <1>4, <1>6, <1>7, <1>13 DEF IInv, Shape, Fields
<1>15. (\A d : Linked(d)' <=> Linked(d)) /\ (\A d : Cleared(d)' <=> Cleared(d))
  BY <1>4 DEF Linked, Cleared
<1>16. \A d : /\ Adds(f, d) => d = e
              /\ ~Adds(g, d) /\ ~Drops(f, d)
              /\ \A p : ~ToSource(f, d, p) /\ ~ToListener(f, d, p)
  BY <1>10 DEF Adds, Drops, ToSource, ToListener
<1>17. \A p \in Alive : p \in Object /\ e \notin ToSet(handle_list[p])
  BY <1>11 DEF Alive
<1>18. Single'
  BY <1>4, <1>12, <1>17 DEF IInv, Agree, Single
<1>19. LinkedAgree'
  <2>1. ASSUME NEW d, Linked(d)
        PROVE  /\ \A p \in Alive : d \in ToSet(handle_list'[p]) => p = listener[d]
               /\ listener[d] \in Alive =>
                     \/ d \in ToSet(handle_list'[listener[d]])
                     \/ \E u \in Thread : Adds(Cur'[u], d) \/ Drops(Cur'[u], d)
    <3>1. /\ \A p \in Alive : d \in ToSet(handle_list[p]) => p = listener[d]
          /\ listener[d] \in Alive =>
                     \/ d \in ToSet(handle_list[listener[d]])
                     \/ \E u \in Thread : Adds(Cur[u], d) \/ Drops(Cur[u], d)
      BY <2>1 DEF IInv, Agree, LinkedAgree
    <3>2. CASE d = e
      BY <1>2, <1>11, <1>12, <1>17, <2>1, <3>2
    <3>3. CASE d # e
      <4>1. (\E u \in Thread : Adds(Cur[u], d) \/ Drops(Cur[u], d))
              => \E u \in Thread : Adds(Cur'[u], d) \/ Drops(Cur'[u], d)
        BY <1>8, <1>9, <1>16, <3>3
      <4>2. QED
        BY <1>12, <1>17, <3>1, <3>3, <4>1
    <3>4. QED
      BY <3>2, <3>3
  <2>2. QED
    BY <1>4, <1>15, <2>1 DEF IInv, Agree, LinkedAgree
<1>20. \A u \in Thread : \A d, p : ToSource(Cur[u], d, p) \/ ToListener(Cur[u], d, p) => u # t
  BY <1>9, <1>16
<1>21. ClearedAgree'
  <2>1. ASSUME NEW d, Cleared(d), NEW p \in Alive
        PROVE  /\ d \in ToSet(event_listener[p]) => \E u \in Thread : ToSource(Cur'[u], d, p)
               /\ d \in ToSet(handle_list'[p]) => \E u \in Thread : ToListener(Cur'[u], d, p)
    <3>1. /\ d \in ToSet(event_listener[p]) => \E u \in Thread : ToSource(Cur[u], d, p)
          /\ d \in ToSet(handle_list[p]) => \E u \in Thread : ToListener(Cur[u], d, p)
      BY <2>1 DEF IInv, Agree, ClearedAgree
    <3>2. d \in ToSet(handle_list'[p]) => \E u \in Thread : ToListener(Cur[u], d, p)
      <4>1. CASE d \in ToSet(handle_list[p])
        BY <3>1, <4>1
      <4>2. CASE p = o /\ d = e
        BY <1>11, <2>1, <4>2
      <4>3. QED
        BY <1>12, <1>17, <4>1, <4>2
    <3>3. QED
      BY <1>8, <1>20, <3>1, <3>2
  <2>2. QED
    BY <1>4, <1>15, <2>1 DEF ClearedAgree
<1>22. Adding'
  <2>1. ASSUME NEW u \in Thread, Cur'[u].pc = "add"
        PROVE  AddsWell(u)'
    <3>1. PICK h : h = Cur[u] /\ h = Cur'[u] /\ h.pc = "add" /\ u # t
      BY <1>8, <1>10, <2>1
    <3>2. /\ h.src \in Object /\ lm[h.src] = u
          /\ Linked(h.reg) => source[h.reg] = h.src /\ listener[h.reg] = h.obj
          /\ Cleared(h.reg) => \E v \in Thread : /\ ToSource(Cur[v], h.reg, h.src)
                                                 /\ ToListener(Cur[v], h.reg, h.obj)
          /\ \A p \in Alive : h.reg \notin ToSet(handle_list[p])
          /\ \A v \in Thread : Adds(Cur[v], h.reg) => v = u
      BY <3>1, AddsWellIs
    <3>3. h.reg # e
      BY <1>11, <3>1 DEF Adds
    <3>4. lm'[h.src] = u
      BY <1>4, <1>7, <1>11, <3>1, <3>2
    <3>5. \A p \in Alive : h.reg \notin ToSet(handle_list'[p])
      BY <1>12, <1>17, <3>2, <3>3
    <3>6. \A v \in Thread : Adds(Cur'[v], h.reg) => v = u
      BY <1>8, <1>16, <3>2
    <3>7. Cleared(h.reg) => \E v \in Thread : /\ ToSource(Cur'[v], h.reg, h.src)
                                              /\ ToListener(Cur'[v], h.reg, h.obj)
      BY <1>8, <1>20, <3>2
    <3>8. QED
      BY <1>4, <1>15, <3>1, <3>2, <3>4, <3>5, <3>6, <3>7 DEF AddsWell
  <2>2. QED
    BY <2>1 DEF Adding, AddsWell
<1>23. Removing'
  BY <1>8, <1>10, <1>15 DEF IInv, Agree, Removing
<1>24. Once'
  BY <1>4, <1>15 DEF IInv, Agree, Once
<1>25. QED
  BY <1>14, <1>18, <1>19, <1>21, <1>22, <1>23, <1>24 DEF IInv, Agree

-----------------------------------------------------------------------------
(* The theorem.                                                            *)

LEMMA InitHolds == Init => IInv
<1> SUFFICES ASSUME Init PROVE IInv
  OBVIOUS
<1>1. \A t \in Thread : call[t] = <<>>
  BY DEF Init
<1>2. \A t \in Thread : Cur[t].pc = "none" /\ Cur[t].reg = 0
  BY <1>1, IdleIs
<1>3. made = 0 /\ 1..made = {} /\ made \in 0..MaxReg
  BY ListenersAssumption DEF Init, ListenersAssumption
<1>4. PICK s \in Seq(Frame) : s = <<>> /\ Len(s) = 0
  BY EmptySeq
<1>5. Stack(s, made, Alive)
  BY <1>4 DEF Stack
<1>6. Stacks
  BY <1>4, <1>5 DEF Init, Stacks
<1>7. Fields
  BY <1>3 DEF Init, Fields
<1>8. List(<<>>, made)
  BY EmptyList DEF List
<1>9. Lists
  BY <1>8 DEF Init, Lists
<1>10. Shape
  BY <1>6, <1>7, <1>9 DEF Init, Shape
<1>11. Single
  BY EmptyList DEF Init, Single, Alive
<1>12. (\A e : ~Linked(e)) /\ (\A e : ~Cleared(e))
  BY <1>3 DEF Linked, Cleared
<1>13. LinkedAgree /\ ClearedAgree /\ Once
  BY <1>12 DEF LinkedAgree, ClearedAgree, Once
<1>14. Adding /\ Removing
  BY <1>2 DEF Adding, AddsWell, Removing
<1>15. QED
  BY <1>10, <1>11, <1>13, <1>14 DEF IInv, Agree

LEMMA StutterKeeps ==
    ASSUME IInv, UNCHANGED vars
    PROVE  IInv'
<1>1. /\ st' = st /\ event_listener' = event_listener /\ handle_list' = handle_list
      /\ source' = source /\ listener' = listener /\ lm' = lm /\ call' = call
      /\ made' = made
  BY DEF vars, ends, fields
<1>2. Alive' = Alive /\ Cur' = Cur
  BY <1>1 DEF Alive, Cur
<1>3. Shape'
  BY <1>1, <1>2 DEF IInv, Shape, Stacks, Fields, Lists
<1>4. (\A e : Linked(e)' <=> Linked(e)) /\ (\A e : Cleared(e)' <=> Cleared(e))
  BY <1>1 DEF Linked, Cleared
<1>5. Single' /\ LinkedAgree' /\ ClearedAgree' /\ Removing' /\ Once'
  BY <1>1, <1>2, <1>4
     DEF IInv, Agree, Single, LinkedAgree, ClearedAgree, Removing, Once
<1>6. Adding'
  BY <1>1, <1>2, <1>4 DEF IInv, Agree, Adding, AddsWell
<1>7. QED
  BY <1>3, <1>5, <1>6 DEF IInv, Agree

LEMMA NextKeeps ==
    ASSUME IInv, Next
    PROVE  IInv'
<1>1. PICK t \in Thread : \/ Work(t) \/ Clean(t) \/ End(t)
                          \/ \E o \in Object : Run(t, o) \/ Listen(t, o)
  BY DEF Next
<1>2. CASE Work(t)
  BY <1>2, ReturnKeeps, AddKeeps, LookKeeps, CleanNextKeeps, UnhookKeeps,
     RemoveListenerKeeps, RemoveHandleKeeps, TellKeeps, CallHandlerKeeps,
     HandlerReturnsKeeps, TinyStateLastKeeps, SweepKeeps, PopKeeps DEF Work
<1>3. CASE \E o \in Object : Run(t, o) \/ Listen(t, o)
  BY <1>3, RunKeeps, ListenKeeps
<1>4. QED
  BY <1>1, <1>2, <1>3, CleanKeeps, EndKeeps

\* Who is at work on a registration nobody has in hand: no thread.
LEMMA NotInWork ==
    ASSUME IInv, NEW e \in 1..made, e \notin InWork, NEW t \in Thread
    PROVE  /\ ~Adds(Cur[t], e) /\ ~Drops(Cur[t], e)
           /\ \A o : ~ToSource(Cur[t], e, o) /\ ~ToListener(Cur[t], e, o)
<1>1. CASE call[t] = <<>>
  BY <1>1, IdleIs DEF Adds, Drops, ToSource, ToListener
<1>2. CASE call[t] # <<>>
  <2>1. PICK f : f = Top(t) /\ f = Cur[t]
    BY <1>2, TopIs DEF IInv
  <2>2. PICK c \in Seq(Frame) : c = call[t]
    BY DEF IInv, Shape, Stacks, Stack
  <2>3. Len(c) \in Nat /\ Len(c) # 0
    BY <1>2, <2>2, LenProperties, EmptySeq
  <2>4. 1 <= Len(call[t]) /\ 1 \in 1..MaxDepth
    BY <2>2, <2>3, ListenersAssumption DEF ListenersAssumption
  <2>5. PICK p : p = <<t, 1>>
    OBVIOUS
  <2>6. p \in {q \in Thread \X (1..MaxDepth) : q[2] <= Len(call[q[1]])}
    BY <2>4, <2>5
  <2>7. f = call[p[1]][p[2]]
    BY <2>1, <2>5 DEF Top
  <2>8. e \notin {f.reg} \cup (IF f.pc \in {"tell", "call", "told"} THEN {} ELSE ToSet(f.todo))
    BY <2>6, <2>7 DEF InWork
  <2>9. QED
    BY <2>1, <2>8 DEF Adds, Drops, ToSource, ToListener
<1>3. QED
  BY <1>1, <1>2

LEMMA InvariantAgrees == IInv => EndsAgree
<1> SUFFICES ASSUME IInv, NEW e \in 1..made \ InWork
             PROVE  LET L == {o \in Object : st[o] = "live"}
                        sources == {o \in L : e \in ToSet(event_listener[o])}
                        listeners == {o \in L : e \in ToSet(handle_list[o])}
                    IN  /\ source[e] = NoObj => sources = {} /\ listeners = {}
                        /\ {source[e], listener[e]} \subseteq L =>
                             /\ sources = {source[e]} /\ listeners = {listener[e]}
                             /\ \A d \in 1..made \ {e} :
                                  <<source[d], listener[d]>> # <<source[e], listener[e]>>
  BY DEF EndsAgree
<1>1. \A t \in Thread : /\ ~Adds(Cur[t], e) /\ ~Drops(Cur[t], e)
                        /\ \A o : ~ToSource(Cur[t], e, o) /\ ~ToListener(Cur[t], e, o)
  BY NotInWork
<1>2. ASSUME source[e] = NoObj
      PROVE  \A o \in Alive : e \notin ToSet(event_listener[o]) /\ e \notin ToSet(handle_list[o])
  BY <1>1, <1>2 DEF IInv, Agree, ClearedAgree, Cleared
<1>3. ASSUME source[e] \in Alive, listener[e] \in Alive
      PROVE  /\ \A o \in Alive : e \in ToSet(event_listener[o]) <=> o = source[e]
             /\ \A o \in Alive : e \in ToSet(handle_list[o]) <=> o = listener[e]
             /\ \A d \in 1..made \ {e} : source[d] # source[e] \/ listener[d] # listener[e]
  <2>1. Linked(e) /\ source[e] # NoObj
    BY <1>3, ListenersAssumption DEF Linked, Alive, ListenersAssumption
  <2>2. \A d \in 1..made : source[d] = source[e] => Linked(d)
    BY <2>1 DEF Linked
  <2>3. QED
    BY <1>1, <1>3, <2>1, <2>2 DEF IInv, Agree, LinkedAgree, Once
<1>4. QED
  BY <1>2, <1>3 DEF Alive

\* The two ends of a registration agree, whoever adds and removes registrations at
\* either of them, on any thread (EndsAgree).
THEOREM TwoEndsAgree == Spec => []EndsAgree
<1>1. Init => IInv
  BY InitHolds
<1>2. IInv /\ [Next]_vars => IInv'
  BY NextKeeps, StutterKeeps
<1>3. IInv => EndsAgree
  BY InvariantAgrees
<1>4. QED
  BY <1>1, <1>2, <1>3, PTL DEF Spec
=============================================================================
