--------------------------- MODULE GcDispatchProofs ---------------------------
(***************************************************************************)
(* Proofs about tsGC and its queue, for any jobs, priorities and callers:  *)
(* the heap stays a balanced heap in every step of ins() and del(), and    *)
(* the queue loses nothing and serves the least key first, but for the     *)
(* collision of two callers without the application mutex.                 *)
(***************************************************************************)
EXTENDS GcDispatch, WellFoundedInduction, TLAPS

Place == Nat \ {0}

\* A loop is at a node that exists.
Working ==
    /\ step = "idle" => np = 1
    /\ step # "idle" => Here(1) /\ Here(np)
    /\ IF step = "down" THEN new \in {Entry(j) : j \in Job} ELSE new = NoEntry
    /\ step = "up" => Here(Left(np))
    /\ step = "cut" => np # 1 \/ Here(Left(np))

\* What Ordered leaves out where an entry is on its way: what is below the one
\* that may rise is not less than what it would change places with, and one side
\* at most may rise; what is below the one that sinks is not less than what is
\* above it.
OnItsWay ==
    /\ step = "up" =>
          /\ \A p \in DOMAIN node \ {1} :
                Parent(p) # 1 /\ Parent(Parent(p)) = np => node[np].key <= node[p].key
          /\ Here(Right(np)) =>
                \/ node[np].key <= node[Left(np)].key
                \/ node[np].key <= node[Right(np)].key
    /\ step = "sink" /\ np # 1 =>
          \A p \in DOMAIN node \ {1} :
             Parent(p) = np => node[Parent(np)].key <= node[p].key

\* A job is in the heap once, with its priority, and not on its way there too.
Distinct == \A p, q \in DOMAIN node : node[p].data = node[q].data => p = q
Keyed == \A p \in DOMAIN node : node[p].key = Priority[node[p].data]
Fresh == step = "down" => new.data \notin Held

\* A caller that found the queue empty has a job that is nowhere else.
Hands ==
    \A c \in Caller :
        IF at[c] = "store"
        THEN /\ hand[c] \in Job \ Held
             /\ step = "down" => new.data # hand[c]
             /\ \A d \in Caller : d # c => hand[d] # hand[c]
        ELSE hand[c] = NoJob

\* What the gc is doing says who is in the queue.
GcPlaces ==
    /\ running # NoJob => gc = "EXE"
    /\ step \in {"cut", "sink"} => gc = "EXE"
    /\ step = "cut" => running = NoJob
    /\ \A c \in Caller : at[c] = "ins" => step \in {"down", "up"}
    /\ gc = "ZOM" => app = "end" /\ step = "idle"

\* The part of TypeOK that is about the queue.
HeapTypes ==
    /\ DOMAIN node \subseteq Place
    /\ \A p \in DOMAIN node :
          node[p] \in [key : Int, data : Job, count : Place]
    /\ step \in {"idle", "down", "up", "cut", "sink"} /\ np \in Place

\* And the rest of it.
RestTypes ==
    /\ gc \in {"START", "RET", "EXE", "ZOM"}
    /\ wakeup \in BOOLEAN /\ timer \in BOOLEAN /\ late \in BOOLEAN
    /\ raced \in BOOLEAN
    /\ budget_us \in Budgets /\ spent \in 0..MaxSpent
    /\ running \in Job \cup {NoJob}
    /\ at \in [Caller -> {"idle", "store", "ins", "wake"}]
    /\ hand \in [Caller -> Job \cup {NoJob}]
    /\ app \in {"loop", "folded", "wait", "end"}

Heap == HeapTypes /\ Tree /\ Ordered /\ Balanced /\ Working /\ OnItsWay

IInv == Heap /\ RestTypes /\ Distinct /\ Keyed /\ Fresh /\ Hands /\ GcPlaces

-----------------------------------------------------------------------------
(* Places.                                                                 *)

LEMMA Sides ==
    ASSUME NEW p \in Place
    PROVE  /\ Left(p) \in Place \ {1} /\ Right(p) \in Place \ {1}
           /\ Left(p) # p /\ Right(p) # p /\ Left(p) # Right(p)
           /\ Parent(Left(p)) = p /\ Parent(Right(p)) = p
           /\ \A q \in Place : Left(p) = Left(q) \/ Right(p) = Right(q) => p = q
           /\ \A q \in Place : Left(p) # Right(q)
BY DEF Place, Left, Right, Parent

LEMMA Parents ==
    ASSUME NEW p \in Place \ {1}
    PROVE  /\ Parent(p) \in Place /\ Parent(p) < p
           /\ p = Left(Parent(p)) \/ p = Right(Parent(p))
BY DEF Place, Left, Right, Parent

-----------------------------------------------------------------------------
(* ins() keeps the heap.                                                   *)

LEMMA CountTypes ==
    ASSUME HeapTypes, NEW p
    PROVE  /\ Count(p) \in Nat /\ (Here(p) <=> Count(p) # 0)
           /\ Ahead(p) \in Int
           /\ p # np => Ahead(p) = Count(p)
           /\ p = np => Ahead(p) = Count(p) + (CASE step = "down" -> 1 [] step = "cut" -> -1
                                                 [] OTHER -> 0)
BY DEF HeapTypes, Count, Ahead, Here, Place

\* Nothing is in the heap below a place that is not.
LEMMA NothingBelow ==
    ASSUME Heap, NEW p \in Place, ~Here(p)
    PROVE  ~Here(Left(p)) /\ ~Here(Right(p))
BY Sides DEF Heap, Tree, HeapTypes, Here

LEMMA DescendOn ==
    ASSUME Heap, step = "down", NEW q, q = FreeSide(np), Here(q),
           node' = [node EXCEPT ![np].count = @ + 1], np' = q, UNCHANGED <<step, new>>
    PROVE  Heap' /\ Held' = Held
<1> USE DEF Heap, Place
<1>1. np \in DOMAIN node /\ np \in Place /\ q \in DOMAIN node /\ q \in Place
  BY DEF Working, HeapTypes, Here
<1>2. /\ DOMAIN node' = DOMAIN node
      /\ \A p \in DOMAIN node : p # np => node'[p] = node[p]
      /\ node'[np].count = node[np].count + 1
      /\ node'[np] \in [key : Int, data : Job, count : Place]
      /\ node'[np].key = node[np].key /\ node'[np].data = node[np].data
  BY <1>1 DEF HeapTypes
<1>3. q \in {Left(np), Right(np)} /\ q # np
  BY <1>1, Sides DEF FreeSide
<1>4. HeapTypes' BY <1>1, <1>2 DEF HeapTypes
<1>5. Tree' BY <1>2 DEF Tree, Here
<1>6. Ordered'
  BY <1>1, <1>2, Parents DEF Ordered, HeapTypes, Tree, Here
<1>7. Working' BY <1>1, <1>2 DEF Working, Here
<1>8. OnItsWay' BY DEF OnItsWay
<1>9. Balanced'
  <2>1. /\ \A p \in Place : p # q => Ahead(p)' = Ahead(p)
        /\ Ahead(q)' = Ahead(q) + 1
    BY <1>1, <1>2, <1>3, CountTypes DEF Ahead, Count, Here, HeapTypes
  <2>2. Ahead(q) = Count(q) /\ Ahead(Left(np)) = Count(Left(np)) /\ Ahead(Right(np)) = Count(Right(np))
    BY <1>1, <1>3, Sides, CountTypes
  <2>3. ASSUME NEW p \in DOMAIN node
        PROVE  /\ node'[p].count = 1 + Ahead(Left(p))' + Ahead(Right(p))'
               /\ Ahead(Left(p))' - Ahead(Right(p))' \in -1..1
    <3>0. p \in Place /\ Left(p) \in Place /\ Right(p) \in Place /\ Left(p) # Right(p)
          /\ Ahead(Left(p)) \in Int /\ Ahead(Right(p)) \in Int
      BY Sides, CountTypes DEF HeapTypes
    <3>1. CASE p = np
      <4>1. /\ node[p].count = 1 + Ahead(Left(p)) + Ahead(Right(p))
            /\ Ahead(Left(p)) - Ahead(Right(p)) \in -1..1
        BY DEF Balanced
      <4>2. CASE q = Left(p)
        <5>1. Count(Left(p)) <= Count(Right(p)) \/ ~Here(Left(p))
          BY <3>1, <3>0, <4>2 DEF FreeSide
        <5> QED BY <3>0, <3>1, <4>1, <4>2, <5>1, <2>1, <2>2, <1>2
      <4>3. CASE q = Right(p)
        <5>1. ~(Count(Left(p)) <= Count(Right(p)))
          BY <3>1, <3>0, <4>3 DEF FreeSide
        <5> QED BY <3>0, <3>1, <4>1, <4>3, <5>1, <2>1, <2>2, <1>2, CountTypes
      <4> QED BY <1>3, <3>1, <4>2, <4>3
    <3>2. CASE p # np
      <4>1. Left(p) # q /\ Right(p) # q
        BY <1>1, <1>3, <3>0, <3>2, Sides
      <4> QED BY <4>1, <3>0, <3>2, <2>1, <1>2 DEF Balanced
    <3> QED BY <3>1, <3>2
  <2>4. \A p : Left(p)' = Left(p) /\ Right(p)' = Right(p) BY DEF Left, Right
  <2> QED BY <1>2, <2>3 DEF Balanced
<1>10. Held' = Held BY <1>2, <1>1 DEF Held
<1> QED BY <1>4, <1>5, <1>6, <1>7, <1>8, <1>9, <1>10

LEMMA DescendEnds ==
    ASSUME Heap, step = "down", NEW q, q = FreeSide(np), ~Here(q),
           node' = [p \in DOMAIN node \cup {q} |->
                       IF p = q THEN Leaf(new) ELSE [node EXCEPT ![np].count = @ + 1][p]],
           step' = "up", new' = NoEntry, np' = np,
           Priority \in [Job -> Int]
    PROVE  Heap' /\ Held' = Held \cup {new.data} /\ new.data \in Job
<1> USE DEF Heap, Place
<1>1. np \in DOMAIN node /\ np \in Place /\ q \notin DOMAIN node
  BY DEF Working, HeapTypes, Here
<1>2. PICK j \in Job : new = [key |-> Priority[j], data |-> j]
  BY DEF Working, Entry
<1>3. q \in {Left(np), Right(np)} /\ q # np /\ q \in Place \ {1} /\ Parent(q) = np
  BY <1>1, Sides DEF FreeSide
<1>4. /\ DOMAIN node' = DOMAIN node \cup {q}
      /\ \A p \in DOMAIN node : p # np => node'[p] = node[p]
      /\ node'[np].count = node[np].count + 1
      /\ node'[np] \in [key : Int, data : Job, count : Place]
      /\ node'[np].key = node[np].key /\ node'[np].data = node[np].data
      /\ node'[q] = [key |-> Priority[j], data |-> j, count |-> 1]
  BY <1>1, <1>2, <1>3 DEF HeapTypes, Leaf
<1>5. HeapTypes' BY <1>1, <1>2, <1>3, <1>4 DEF HeapTypes
<1>6. Here(Left(np))'
  BY <1>1, <1>3, <1>4 DEF FreeSide, Here, Left, Right
<1>7. Tree'
  <2>1. ASSUME NEW p \in DOMAIN node' PROVE p = 1 \/ Parent(p) \in DOMAIN node'
    BY <1>1, <1>3, <1>4 DEF Tree, Here
  <2>2. ASSUME NEW p \in DOMAIN node', Right(p) \in DOMAIN node' PROVE Left(p) \in DOMAIN node'
    <3>1. p \in Place BY <1>1, <1>3, <1>4 DEF HeapTypes
    <3>2. CASE p = np BY <3>2, <1>6 DEF Here, Left
    <3>3. CASE p # np
      <4>1. Right(p) # q BY <3>1, <3>3, <1>1, <1>3, Sides
      <4>2. Right(p) \in DOMAIN node BY <4>1, <2>2, <1>4
      <4>3. p \in DOMAIN node BY <4>2, <3>1, NothingBelow DEF Here
      <4> QED BY <4>2, <4>3, <1>4 DEF Tree, Here
    <3> QED BY <3>2, <3>3
  <2>3. \A p : Left(p)' = Left(p) /\ Right(p)' = Right(p) /\ Parent(p)' = Parent(p)
    BY DEF Left, Right, Parent
  <2> QED BY <2>1, <2>2 DEF Tree, Here
<1>8. Ordered'
  <2>1. ASSUME NEW p \in DOMAIN node' \ {1}, Parent(p) # np
        PROVE  node'[Parent(p)].key <= node'[p].key
    <3>1. p \in DOMAIN node /\ p # q BY <2>1, <1>3, <1>4
    <3>2. Parent(p) \in DOMAIN node /\ node[Parent(p)].key <= node[p].key
      BY <3>1 DEF Ordered, Tree, Here
    <3> QED BY <3>1, <3>2, <2>1, <1>4
  <2> QED BY <2>1 DEF Ordered
<1>9. Working' BY <1>1, <1>4, <1>6 DEF Working, Here
<1>10. OnItsWay'
  <2>1. ASSUME NEW p \in DOMAIN node' \ {1}, Parent(p) # 1, Parent(Parent(p)) = np
        PROVE  node'[np].key <= node'[p].key
    <3>1. p \in Place /\ Parent(p) \in Place \ {1} BY <2>1, <1>3, <1>4, Parents DEF HeapTypes
    <3>2. p # q BY <2>1, <3>1, <1>1, <1>3, Parents
    <3>3. p \in DOMAIN node BY <3>2, <1>4
    <3>4. /\ Parent(p) \in DOMAIN node /\ node[Parent(p)].key <= node[p].key
          /\ node[np].key <= node[Parent(p)].key
      BY <3>1, <3>3, <2>1 DEF Ordered, Tree, Here
    <3>5. p # np BY <2>1, <3>1, Parents
    <3>6. node'[np].key = node[np].key /\ node'[p] = node[p] BY <3>3, <3>5, <1>4
    <3>7. node[np].key \in Int /\ node[Parent(p)].key \in Int /\ node[p].key \in Int
      BY <3>3, <3>4, <1>1 DEF HeapTypes
    <3> QED BY <3>4, <3>6, <3>7
  <2>2. ASSUME Right(np) \in DOMAIN node'
        PROVE  node'[np].key <= node'[Left(np)].key
    <3>1. q = Right(np) /\ Left(np) \in DOMAIN node
      <4>1. CASE q = Left(np)
        <5>1. Right(np) \in DOMAIN node BY <4>1, <2>2, <1>1, <1>4, Sides
        <5> QED BY <5>1, <4>1, <1>1 DEF Tree, Here
      <4> QED BY <4>1, <1>1, <1>3, <1>4, <1>6, Sides DEF Here
    <3>2. Left(np) # np /\ Left(np) # 1 /\ Parent(Left(np)) = np BY <1>1, Sides
    <3> QED BY <3>1, <3>2, <1>4 DEF Ordered
  <2>3. \A p : Left(p)' = Left(p) /\ Right(p)' = Right(p) /\ Parent(p)' = Parent(p)
    BY DEF Left, Right, Parent
  <2> QED BY <2>1, <2>2 DEF OnItsWay, Here
<1>11. Balanced'
  <2>1. /\ \A p \in Place : p # q /\ p # np => Ahead(p)' = Ahead(p)
        /\ Ahead(q)' = 1 /\ Ahead(q) = 0
    BY <1>1, <1>3, <1>4, CountTypes DEF Ahead, Count, Here, HeapTypes
  <2>2. Ahead(np)' = Ahead(np)
    BY <1>1, <1>4 DEF Ahead, Count, Here, HeapTypes
  <2>3. Ahead(Left(np)) = Count(Left(np)) /\ Ahead(Right(np)) = Count(Right(np))
    BY <1>1, Sides, CountTypes
  <2>4. ASSUME NEW p \in DOMAIN node'
        PROVE  /\ node'[p].count = 1 + Ahead(Left(p))' + Ahead(Right(p))'
               /\ Ahead(Left(p))' - Ahead(Right(p))' \in -1..1
    <3>0. p \in Place /\ Left(p) \in Place /\ Right(p) \in Place /\ Left(p) # Right(p)
          /\ Ahead(Left(p)) \in Int /\ Ahead(Right(p)) \in Int
      BY <1>3, <1>4, Sides, CountTypes DEF HeapTypes
    <3>1. CASE p = np
      <4>1. /\ node[p].count = 1 + Ahead(Left(p)) + Ahead(Right(p))
            /\ Ahead(Left(p)) - Ahead(Right(p)) \in -1..1
        BY <3>1, <1>1 DEF Balanced
      <4>2. Left(np) # np /\ Right(np) # np BY <1>1, Sides
      <4>3. CASE q = Left(p)
        <5>1. ~Here(Right(p)) BY <4>3, <3>1, <1>1 DEF Tree, Here
        <5>2. Ahead(Right(p)) = 0 BY <5>1, <2>3, <3>1 DEF Count
        <5> QED BY <3>0, <3>1, <4>1, <4>2, <4>3, <5>2, <2>1, <1>4
      <4>4. CASE q = Right(p)
        <5>1. Here(Left(p)) BY <4>4, <3>1, <3>0, <1>4, <1>6 DEF Here
        <5>2. Ahead(Left(p)) # 0 /\ Ahead(Left(p)) \in Nat BY <5>1, <2>3, <3>1, CountTypes
        <5> QED BY <3>0, <3>1, <4>1, <4>2, <4>4, <5>2, <2>1, <1>4
      <4> QED BY <1>3, <3>1, <4>3, <4>4
    <3>2. CASE p = q
      <4>1. ~Here(Left(q)) /\ ~Here(Right(q)) BY <1>1, <1>3, NothingBelow DEF Here
      <4>2. Left(q) # q /\ Right(q) # q /\ Left(q) # np /\ Right(q) # np
        BY <4>1, <1>1, <1>3, Sides DEF Here
      <4>3. Ahead(Left(q))' = 0 /\ Ahead(Right(q))' = 0
        BY <4>1, <4>2, <3>0, <3>2, <2>1, CountTypes DEF Count
      <4> QED BY <3>2, <4>3, <1>4
    <3>3. CASE p # np /\ p # q
      <4>1. Left(p) # q /\ Right(p) # q
        BY <1>1, <1>3, <3>0, <3>3, Sides
      <4>2. p \in DOMAIN node /\ node'[p] = node[p] BY <3>3, <1>4
      <4>3. Ahead(Left(p))' = Ahead(Left(p)) /\ Ahead(Right(p))' = Ahead(Right(p))
        BY <4>1, <3>0, <2>1, <2>2
      <4> QED BY <4>2, <4>3 DEF Balanced
    <3> QED BY <3>1, <3>2, <3>3
  <2>5. \A p : Left(p)' = Left(p) /\ Right(p)' = Right(p) BY DEF Left, Right
  <2> QED BY <2>4 DEF Balanced
<1>12. Held' = Held \cup {new.data}
  <2>1. \A p \in DOMAIN node : node'[p].data = node[p].data BY <1>4
  <2>2. node'[q].data = new.data BY <1>2, <1>4
  <2>3. ASSUME NEW x \in Held' PROVE x \in Held \cup {new.data}
    <3>1. PICK p \in DOMAIN node' : x = node'[p].data BY <2>3 DEF Held
    <3> QED BY <3>1, <2>1, <2>2, <1>4 DEF Held
  <2>4. ASSUME NEW x \in Held PROVE x \in Held'
    BY <2>1, <2>4, <1>4 DEF Held
  <2>5. new.data \in Held' BY <2>2, <1>4 DEF Held
  <2> QED BY <2>3, <2>4, <2>5
<1> QED BY <1>2, <1>5, <1>7, <1>8, <1>9, <1>10, <1>11, <1>12

LEMMA Swap ==
    ASSUME HeapTypes, NEW p \in DOMAIN node, NEW q \in DOMAIN node, p # q,
           node' = Swapped(p, q)
    PROVE  /\ DOMAIN node' = DOMAIN node
           /\ \A r \in DOMAIN node : r # p /\ r # q => node'[r] = node[r]
           /\ \A r \in DOMAIN node :
                 /\ node'[r] \in [key : Int, data : Job, count : Place]
                 /\ node'[r].count = node[r].count
           /\ node'[p].key = node[q].key /\ node'[q].key = node[p].key
           /\ node'[p].data = node[q].data /\ node'[q].data = node[p].data
           /\ Held' = Held
<1>1. /\ DOMAIN node' = DOMAIN node
      /\ \A r \in DOMAIN node : r # p /\ r # q => node'[r] = node[r]
      /\ node'[p] = [key |-> node[q].key, data |-> node[q].data, count |-> node[p].count]
      /\ node'[q] = [key |-> node[p].key, data |-> node[p].data, count |-> node[q].count]
  BY DEF Swapped, HeapTypes
<1>2. \A r \in DOMAIN node : /\ node'[r] \in [key : Int, data : Job, count : Place]
                             /\ node'[r].count = node[r].count
  BY <1>1 DEF HeapTypes
<1>3. Held' = Held
  <2>1. \A r \in DOMAIN node : node'[r].data =
            IF r = p THEN node[q].data ELSE IF r = q THEN node[p].data ELSE node[r].data
    BY <1>1
  <2>2. ASSUME NEW x \in Held' PROVE x \in Held
    BY <2>1, <2>2, <1>1 DEF Held
  <2>3. ASSUME NEW x \in Held PROVE x \in Held'
    <3>1. PICK r \in DOMAIN node : x = node[r].data BY <2>3 DEF Held
    <3>2. \E s \in DOMAIN node : x = node'[s].data BY <3>1, <2>1
    <3> QED BY <3>2, <1>1 DEF Held
  <2> QED BY <2>2, <2>3
<1> QED BY <1>1, <1>2, <1>3

\* Counts that do not change stay right.
LEMMA CountsKept ==
    ASSUME Balanced, DOMAIN node' = DOMAIN node,
           \A r \in DOMAIN node : node'[r].count = node[r].count,
           step \in {"up", "sink", "idle"}, step' \in {"up", "sink", "idle"}
    PROVE  Balanced'
<1>1. \A p : Ahead(p)' = Ahead(p) BY DEF Ahead, Count, Here
<1>2. \A p : Left(p)' = Left(p) /\ Right(p)' = Right(p) BY DEF Left, Right
<1> QED BY <1>1, <1>2 DEF Balanced

LEMMA TreeKept ==
    ASSUME Tree, DOMAIN node' = DOMAIN node
    PROVE  Tree'
<1>1. \A p : Left(p)' = Left(p) /\ Right(p)' = Right(p) /\ Parent(p)' = Parent(p)
  BY DEF Left, Right, Parent
<1> QED BY <1>1 DEF Tree, Here

LEMMA ClimbKeeps ==
    ASSUME Heap, Climb
    PROVE  /\ Heap' /\ Held' = Held
           /\ \/ node' = node
              \/ \E p, q \in DOMAIN node : p # q /\ node' = Swapped(p, q)
<1> USE DEF Heap, Place
<1> DEFINE q == RisingSide(np)
<1>1. /\ np \in DOMAIN node /\ np \in Place /\ step = "up" /\ q \in DOMAIN node
      /\ q \in {Left(np), Right(np)} /\ q # np /\ q # 1 /\ Parent(q) = np
  <2>1. np \in DOMAIN node /\ np \in Place /\ step = "up" /\ Left(np) \in DOMAIN node
    BY DEF Working, HeapTypes, Here, Climb
  <2> QED BY <2>1, Sides DEF RisingSide, Here
<1>2. /\ node' = IF node[np].key <= node[q].key THEN node ELSE Swapped(np, q)
      /\ step' = IF np = 1 THEN "idle" ELSE "up"
      /\ np' = IF np = 1 THEN 1 ELSE Parent(np)
      /\ new' = new
  BY DEF Climb
<1>3. \A r \in DOMAIN node : node[r].key \in Int /\ r \in Place
  BY DEF HeapTypes
<1>4. /\ DOMAIN node' = DOMAIN node /\ Held' = Held
      /\ \A r \in DOMAIN node : r # np /\ r # q => node'[r] = node[r]
      /\ \A r \in DOMAIN node :
            /\ node'[r] \in [key : Int, data : Job, count : Place]
            /\ node'[r].count = node[r].count
      /\ node'[np].key <= node'[q].key
      /\ \/ node'[np].key = node[np].key /\ node'[q].key = node[q].key
         \/ /\ node'[np].key = node[q].key /\ node'[q].key = node[np].key
            /\ node[q].key < node[np].key
  <2>1. CASE node[np].key <= node[q].key
    <3>1. node' = node BY <2>1, <1>2
    <3> QED BY <3>1, <2>1, <1>1 DEF HeapTypes, Held
  <2>2. CASE ~(node[np].key <= node[q].key)
    <3>1. node' = Swapped(np, q) BY <2>2, <1>2
    <3> QED BY <3>1, <2>2, <1>1, <1>3, Swap
  <2> QED BY <2>1, <2>2
<1>5. \/ node' = node
      \/ \E p, r \in DOMAIN node : p # r /\ node' = Swapped(p, r)
  BY <1>1, <1>2
<1> HIDE DEF q
<1>5a. HeapTypes'
  BY <1>1, <1>2, <1>4, Parents DEF HeapTypes
<1>6. Tree' BY <1>4, TreeKept
<1>7. Balanced' BY <1>1, <1>2, <1>4, CountsKept
\* After the step nothing right below is less than the node's key was, and that is
\* not less than it is now.
<1>8. ASSUME NEW p \in DOMAIN node \ {1}, Parent(p) = np
      PROVE  node[np].key <= node'[p].key
  <2>1. CASE p = q BY <2>1, <1>1, <1>3, <1>4
  <2>2. CASE p # q
    <3>1. p # np BY <1>3, <1>8, Parents
    <3>2. p \in {Left(np), Right(np)} BY <1>3, <1>8, Parents
    <3>3. Here(Left(np)) /\ Here(Right(np)) /\ Left(np) # Right(np)
      BY <1>1, <2>2, <3>2, Sides DEF Here
    <3>4. node[np].key <= node[p].key \/ node[np].key <= node[q].key
      BY <1>1, <2>2, <3>2, <3>3 DEF OnItsWay
    <3>5. node[np].key <= node[q].key => node[np].key <= node[p].key
      BY <1>1, <1>3, <2>2, <3>2, <3>3 DEF RisingSide, q
    <3> QED BY <3>1, <3>4, <3>5, <2>2, <1>1, <1>3, <1>4
  <2> QED BY <2>1, <2>2
<1>8a. node'[np].key <= node[np].key /\ node'[np].key \in Int
  BY <1>1, <1>3, <1>4
\* What is further below is as it was, but that q may have the node's key.
<1>9. ASSUME NEW p \in DOMAIN node \ {1}, Parent(p) # np, p # np
      PROVE  node'[Parent(p)].key <= node'[p].key
  <2>1. Parent(p) \in DOMAIN node /\ node[Parent(p)].key <= node[p].key
    BY <1>1, <1>9 DEF Ordered, Tree, Here
  <2>2. p # q /\ p # np BY <1>1, <1>9
  <2>3. node'[p] = node[p] BY <2>2, <1>4
  <2>4. CASE Parent(p) = q
    <3>1. node[np].key <= node[p].key
      BY <2>4, <1>1, <1>9 DEF OnItsWay
    <3> QED BY <3>1, <2>1, <2>3, <2>4, <1>1, <1>3, <1>4
  <2>5. CASE Parent(p) # q BY <2>1, <2>3, <2>5, <1>4, <1>9
  <2> QED BY <2>4, <2>5
<1>10. CASE np = 1
  <2>1. step' = "idle" /\ np' = 1 BY <1>2, <1>10
  <2>2. ASSUME NEW p \in DOMAIN node' \ {1}
        PROVE  node'[Parent(p)].key <= node'[p].key
    <3>1. CASE Parent(p) = np BY <3>1, <2>2, <1>1, <1>3, <1>4, <1>8, <1>8a
    <3>2. CASE Parent(p) # np BY <3>2, <2>2, <1>4, <1>9, <1>10
    <3> QED BY <3>1, <3>2
  <2>3. Ordered' BY <2>2 DEF Ordered, Parent
  <2>4. Working' BY <1>1, <1>2, <2>1 DEF Working
  <2>5. OnItsWay' BY <2>1 DEF OnItsWay
  <2> QED BY <1>4, <1>5, <1>5a, <1>6, <1>7, <2>3, <2>4, <2>5
<1>11. CASE np # 1
  <2> DEFINE P == Parent(np)
  <2>1. /\ step' = "up" /\ np' = P /\ P \in DOMAIN node /\ P \in Place /\ P # np
        /\ np \in {Left(P), Right(P)} /\ P # q
        /\ node[P].key <= node[np].key
    <3>1. step' = "up" /\ np' = P BY <1>2, <1>11
    <3>2. P \in DOMAIN node /\ node[P].key <= node[np].key
      BY <1>1, <1>11, Parents DEF Tree, Here, Ordered
    <3>3. P \in Place /\ P < np /\ np \in {Left(P), Right(P)} BY <1>1, <1>11, Parents
    <3>4. q \in Place /\ np < q BY <1>1, <1>3, Parents
    <3> QED BY <3>1, <3>2, <3>3, <3>4, <1>1
  <2> HIDE DEF P
  <2>2. node'[P] = node[P] BY <2>1, <1>4
  <2>3. Ordered'
    <3>1. ASSUME NEW p \in DOMAIN node' \ {1}, Parent(p) # P
          PROVE  node'[Parent(p)].key <= node'[p].key
      <4>1. CASE Parent(p) = np BY <4>1, <3>1, <1>1, <1>3, <1>4, <1>8, <1>8a
      <4>2. CASE Parent(p) # np BY <4>2, <3>1, <1>4, <1>9 DEF P
      <4> QED BY <4>1, <4>2
    <3> QED BY <3>1, <2>1 DEF Ordered, Parent
  <2>4. Working'
    <3>1. Left(P) \in DOMAIN node'
      BY <2>1, <1>1, <1>4 DEF Tree, Here
    <3>2. Here(1)' /\ Here(np)' BY <2>1, <1>1, <1>4 DEF Here, Working
    <3>3. np' # 1 \/ step' # "cut" BY <2>1
    <3>4. Here(Left(np))'
      <4>1. Left(np)' = Left(P) BY <2>1 DEF Left
      <4> QED BY <3>1, <4>1 DEF Here
    <3> QED BY <3>2, <3>4, <2>1, <1>1, <1>2 DEF Working
  <2>5. OnItsWay'
    <3>1. ASSUME NEW p \in DOMAIN node' \ {1}, Parent(p) # 1, Parent(Parent(p)) = P
          PROVE  node'[P].key <= node'[p].key
      <4>1. p \in DOMAIN node /\ Parent(p) \in DOMAIN node
        BY <3>1, <1>4 DEF Tree, Here
      <4>2. node'[P].key \in Int /\ node'[p].key \in Int /\ node'[Parent(p)].key \in Int
            /\ node'[np].key \in Int
        BY <4>1, <2>1, <1>1, <1>4
      <4>3. CASE Parent(p) = np
        <5>1. node[np].key <= node'[p].key BY <4>1, <4>3, <3>1, <1>8
        <5> QED BY <5>1, <4>2, <2>1, <2>2, <1>1, <1>3
      <4>4. CASE Parent(p) # np
        <5>0. p # np
          BY <3>1, <2>1, <1>11, <1>1, Parents DEF P
        <5>1. Parent(p) # 1 /\ node[P].key <= node[Parent(p)].key
          BY <4>1, <3>1, <2>1, <1>1 DEF Ordered
        <5>2. node'[Parent(p)].key <= node'[p].key
          BY <5>0, <4>1, <4>4, <3>1, <1>9
        <5>3. Parent(p) # q BY <4>4, <3>1, <1>1, <2>1
        <5>4. node'[Parent(p)] = node[Parent(p)] BY <5>3, <4>1, <4>4, <1>4
        <5> QED BY <5>1, <5>2, <5>4, <4>2, <2>2
      <4> QED BY <4>3, <4>4
    <3>2. ASSUME Right(P) \in DOMAIN node'
          PROVE  \/ node'[P].key <= node'[Left(P)].key
                 \/ node'[P].key <= node'[Right(P)].key
      <4>1. PICK t \in {Left(P), Right(P)} : t # np
        BY <2>1, Sides
      <4>2. t \in DOMAIN node BY <4>1, <3>2, <2>1, <1>4 DEF Tree, Here
      <4>3. t # 1 /\ Parent(t) = P BY <4>1, <2>1, Sides
      <4>4. t # q BY <4>3, <1>1, <2>1
      <4>5. node'[P].key <= node'[t].key
        BY <4>1, <4>2, <4>3, <4>4, <2>1, <2>2, <1>1, <1>4 DEF Ordered
      <4> QED BY <4>1, <4>5
    <3>3. \A p : Left(p)' = Left(p) /\ Right(p)' = Right(p) /\ Parent(p)' = Parent(p)
      BY DEF Left, Right, Parent
    <3> QED BY <3>1, <3>2, <2>1 DEF OnItsWay, Here, Left, Right, Parent
  <2> QED BY <1>4, <1>5, <1>5a, <1>6, <1>7, <2>3, <2>4, <2>5
<1> QED BY <1>10, <1>11

\* A new entry alone is a heap.
LEMMA LoneEntry ==
    ASSUME NEW j \in Job, Priority \in [Job -> Int],
           node' = [p \in {1} |-> Leaf(Entry(j))],
           step' = "idle", np' = 1, new' = NoEntry
    PROVE  /\ Heap' /\ DOMAIN node' = {1}
           /\ node'[1] = [key |-> Priority[j], data |-> j, count |-> 1]
           /\ Held' = {j}
<1> USE DEF Heap, Place
<1>2. DOMAIN node' = {1} /\ node'[1] = [key |-> Priority[j], data |-> j, count |-> 1]
  BY DEF Leaf, Entry
<1>3. HeapTypes' BY <1>2 DEF HeapTypes
<1>4. 1 \in Place BY DEF Place
<1>5. ~Here(Left(1))' /\ ~Here(Right(1))' BY <1>2, <1>4, Sides DEF Here, Left, Right
<1>6. Tree' BY <1>2, <1>5 DEF Tree, Here, Left, Right
<1>7. Ordered' BY <1>2 DEF Ordered
<1>8. Ahead(Left(1))' = 0 /\ Ahead(Right(1))' = 0 BY <1>5 DEF Ahead, Count
<1>9. Balanced' BY <1>2, <1>8 DEF Balanced, Left, Right
<1>10. Working' /\ OnItsWay' BY DEF Working, OnItsWay
<1>11. Held' = {j} BY <1>2 DEF Held
<1> QED BY <1>2, <1>3, <1>6, <1>7, <1>9, <1>10, <1>11

LEMMA InsKeeps ==
    ASSUME Heap, NEW j \in Job, Ins(Entry(j)), Priority \in [Job -> Int]
    PROVE  /\ Heap'
           /\ IF Here(1) THEN node' = node /\ step' = "down" /\ new' = Entry(j)
              ELSE /\ node' = [p \in {1} |-> Leaf(Entry(j))]
                   /\ step' = "idle" /\ np' = 1 /\ new' = NoEntry
<1> USE DEF Heap, Place
<1>1. CASE ~Here(1)
  <2>1. /\ node' = [p \in {1} |-> Leaf(Entry(j))] /\ step = "idle"
        /\ step' = "idle" /\ np' = 1 /\ new' = NoEntry
    BY <1>1 DEF Ins, Working
  <2>2. Heap' BY <2>1, LoneEntry
  <2> QED BY <1>1, <2>1, <2>2
<1>2. CASE Here(1)
  <2>1. /\ node' = node /\ step = "idle" /\ step' = "down" /\ np' = 1
        /\ new' = Entry(j)
    BY <1>2 DEF Ins
  <2>2. HeapTypes' /\ Tree' /\ Ordered' BY <2>1 DEF HeapTypes, Tree, Ordered, Here, Left, Right, Parent
  <2>3. Working' BY <1>2, <2>1 DEF Working, Here
  <2>4. OnItsWay' BY <2>1 DEF OnItsWay
  <2>5. \A p \in Place : p # 1 => Ahead(p)' = Ahead(p)
    BY <2>1 DEF Ahead, Count, Here
  <2>6. Balanced' BY <2>1, <2>5, Sides DEF Balanced, HeapTypes, Left, Right
  <2> QED BY <1>2, <2>1, <2>2, <2>3, <2>4, <2>6
<1> QED BY <1>1, <1>2

-----------------------------------------------------------------------------
(* del() keeps the heap.                                                   *)

\* A set of natural numbers has a least member.
LEMMA LeastNumber ==
    ASSUME NEW S \in SUBSET Nat, S # {}
    PROVE  \E m \in S : \A n \in S : m <= n
<1> DEFINE R == OpToRel(<, Nat)
<1>1. IsWellFoundedOn(R, Nat) BY NatLessThanWellFounded
<1>2. \A m, n \in Nat : n < m => <<n, m>> \in R
  BY DEF OpToRel
<1> HIDE DEF R
<1>3. PICK m \in S : \A n \in S : ~ (<<n, m>> \in R)
  BY <1>1, WFMin
<1>4. \A n \in S : m <= n
  <2> SUFFICES ASSUME NEW n \in S, ~(m <= n) PROVE FALSE OBVIOUS
  <2>1. n < m /\ m \in Nat /\ n \in Nat OBVIOUS
  <2> QED BY <2>1, <1>2, <1>3, Zenon
<1> QED BY <1>4

\* Without a top there is nothing.
LEMMA EmptyHeap ==
    ASSUME Heap, ~Here(1)
    PROVE  DOMAIN node = {} /\ Held = {}
<1>1. ASSUME DOMAIN node # {} PROVE FALSE
  <2>1. PICK m \in DOMAIN node : \A n \in DOMAIN node : m <= n
    BY <1>1, LeastNumber DEF Heap, HeapTypes, Place
  <2>2. m \in Place \ {1} BY DEF Heap, HeapTypes, Here
  <2>3. Parent(m) \in DOMAIN node BY <2>2 DEF Heap, Tree, Here
  <2> QED BY <2>1, <2>2, <2>3, Parents DEF Place
<1> QED BY <1>1 DEF Held

\* With nothing below the top, that is all there is.
LEMMA LoneTop ==
    ASSUME Heap, Here(1), ~Here(Left(1))
    PROVE  DOMAIN node = {1} /\ Held = {node[1].data}
<1>1. ASSUME DOMAIN node \ {1} # {} PROVE FALSE
  <2>1. PICK m \in DOMAIN node \ {1} : \A n \in DOMAIN node \ {1} : m <= n
    BY <1>1, LeastNumber DEF Heap, HeapTypes, Place
  <2>2. m \in Place \ {1} BY DEF Heap, HeapTypes, Here
  <2>3. Parent(m) \in DOMAIN node BY <2>2 DEF Heap, Tree, Here
  <2>4. Parent(m) = 1 BY <2>1, <2>2, <2>3, Parents DEF Place
  <2>5. m = Left(1) \/ m = Right(1) BY <2>2, <2>4, Parents
  <2> QED BY <2>5 DEF Heap, Tree, Here
<1> QED BY <1>1 DEF Held, Here

\* The top is the least.
LEMMA TopIsLeast ==
    ASSUME Heap, step \notin {"up", "sink"}, NEW p \in DOMAIN node
    PROVE  Here(1) /\ node[1].key <= node[p].key
<1>1. 1 \in DOMAIN node BY EmptyHeap DEF Here
<1>2. \A q \in DOMAIN node : node[q].key \in Int /\ q \in Place
  BY DEF Heap, HeapTypes
<1> DEFINE Less == {q \in DOMAIN node : node[q].key < node[1].key}
<1>3. ASSUME Less # {} PROVE FALSE
  <2>1. PICK m \in Less : \A n \in Less : m <= n
    BY <1>2, <1>3, LeastNumber DEF Place
  <2>2. m \in DOMAIN node \ {1} /\ m \in Place \ {1} BY <1>1, <1>2
  <2>3. Parent(m) \in DOMAIN node /\ node[Parent(m)].key <= node[m].key
    BY <2>2 DEF Heap, Tree, Ordered, Here
  <2>4. Parent(m) \in Less BY <1>1, <1>2, <2>1, <2>2, <2>3
  <2> QED BY <2>1, <2>2, <2>4, Parents DEF Place
<1> QED BY <1>1, <1>2, <1>3 DEF Here

LEMMA DelKeeps ==
    ASSUME Heap, Del
    PROVE  /\ Heap'
           /\ IF Here(Left(1)) THEN node' = node /\ step' = "cut"
              ELSE DOMAIN node' = {} /\ step' = "idle" /\ Held' = {}
           /\ new' = new /\ step = "idle" /\ Here(1)
<1> USE DEF Heap, Place
<1>1. CASE ~Here(Left(1))
  <2>1. node' = [p \in {} |-> 0] /\ step = "idle" /\ step' = step /\ np' = np /\ new' = new
    BY <1>1 DEF Del, Nil
  <2>2. DOMAIN node' = {} BY <2>1
  <2>3. HeapTypes' /\ Tree' /\ Ordered' /\ Balanced'
    BY <2>1, <2>2 DEF HeapTypes, Tree, Ordered, Balanced
  <2>4. Working' /\ OnItsWay' BY <2>1 DEF Working, OnItsWay
  <2> QED BY <1>1, <2>1, <2>2, <2>3, <2>4 DEF Held, Del
<1>2. CASE Here(Left(1))
  <2>1. node' = node /\ step = "idle" /\ step' = "cut" /\ np' = 1 /\ new' = new
    BY <1>2 DEF Del
  <2>2. HeapTypes' /\ Tree' /\ Ordered' BY <2>1 DEF HeapTypes, Tree, Ordered, Here, Left, Right, Parent
  <2>3. Working'
    <3>1. Left(np)' = Left(1) BY <2>1 DEF Left
    <3> QED BY <1>2, <2>1, <3>1 DEF Working, Here, Del
  <2>4. OnItsWay' BY <2>1 DEF OnItsWay
  <2>5. \A p \in Place : p # 1 => Ahead(p)' = Ahead(p)
    BY <2>1 DEF Ahead, Count, Here
  <2>6. Balanced' BY <2>1, <2>5, Sides DEF Balanced, HeapTypes, Left, Right
  <2> QED BY <1>2, <2>1, <2>2, <2>3, <2>4, <2>6 DEF Del
<1> QED BY <1>1, <1>2

LEMMA CutOn ==
    ASSUME Heap, step = "cut", Here(Left(np)), NEW q, q = FullSide(np),
           node' = [node EXCEPT ![np].count = @ - 1], np' = q, UNCHANGED <<step, new>>
    PROVE  Heap' /\ Held' = Held
<1> USE DEF Heap, Place
<1>1. np \in DOMAIN node /\ np \in Place
  BY DEF Working, HeapTypes, Here
<1>2. q \in {Left(np), Right(np)} /\ q # np /\ q # 1 /\ q \in Place /\ q \in DOMAIN node
  BY <1>1, Sides DEF FullSide, Here
<1>3. /\ node[np].count = 1 + Ahead(Left(np)) + Ahead(Right(np))
      /\ Ahead(Left(np)) - Ahead(Right(np)) \in -1..1
      /\ Ahead(Left(np)) = Count(Left(np)) /\ Ahead(Right(np)) = Count(Right(np))
      /\ Count(Left(np)) \in Place /\ Count(Right(np)) \in Nat
  BY <1>1, Sides, CountTypes DEF Balanced
<1>4. /\ DOMAIN node' = DOMAIN node
      /\ \A p \in DOMAIN node : p # np => node'[p] = node[p]
      /\ node'[np].count = node[np].count - 1
      /\ node'[np] \in [key : Int, data : Job, count : Place]
      /\ node'[np].key = node[np].key /\ node'[np].data = node[np].data
  BY <1>1, <1>3 DEF HeapTypes
<1>5. HeapTypes' BY <1>1, <1>2, <1>4 DEF HeapTypes
<1>6. Tree' BY <1>4, TreeKept
<1>7. Ordered'
  BY <1>1, <1>4, Parents DEF Ordered, HeapTypes, Tree, Here, Parent
<1>8. Working' BY <1>1, <1>2, <1>4 DEF Working, Here
<1>9. OnItsWay' BY DEF OnItsWay
<1>10. Balanced'
  <2>1. /\ \A p \in Place : p # q => Ahead(p)' = Ahead(p)
        /\ Ahead(q)' = Ahead(q) - 1
    BY <1>1, <1>2, <1>4, CountTypes DEF Ahead, Count, Here, HeapTypes
  <2>2. ASSUME NEW p \in DOMAIN node
        PROVE  /\ node'[p].count = 1 + Ahead(Left(p))' + Ahead(Right(p))'
               /\ Ahead(Left(p))' - Ahead(Right(p))' \in -1..1
    <3>0. p \in Place /\ Left(p) \in Place /\ Right(p) \in Place /\ Left(p) # Right(p)
      BY Sides DEF HeapTypes
    <3>1. CASE p = np
      <4>1. CASE q = Left(p)
        <5>1. Count(Left(p)) >= Count(Right(p))
          BY <1>3, <3>1, <3>0, <4>1 DEF FullSide, Count
        <5> QED BY <3>0, <3>1, <4>1, <5>1, <2>1, <1>3, <1>4
      <4>2. CASE q = Right(p)
        <5>1. ~(Count(Left(p)) >= Count(Right(p)))
          BY <3>1, <3>0, <4>2 DEF FullSide
        <5> QED BY <3>0, <3>1, <4>2, <5>1, <2>1, <1>3, <1>4
      <4> QED BY <1>2, <3>1, <4>1, <4>2
    <3>2. CASE p # np
      <4>1. Left(p) # q /\ Right(p) # q
        BY <1>1, <1>2, <3>0, <3>2, Sides
      <4> QED BY <4>1, <3>0, <3>2, <2>1, <1>4 DEF Balanced
    <3> QED BY <3>1, <3>2
  <2>3. \A p : Left(p)' = Left(p) /\ Right(p)' = Right(p) BY DEF Left, Right
  <2> QED BY <1>4, <2>2 DEF Balanced
<1>11. Held' = Held BY <1>4, <1>1 DEF Held
<1> QED BY <1>5, <1>6, <1>7, <1>8, <1>9, <1>10, <1>11

\* The leaf, the place that is free when its entry is on top, and what is left.
LEMMA CutEnds ==
    ASSUME Heap, step = "cut", ~Here(Left(np)), node' = CutLeaf(np),
           step' = "sink", np' = 1, new' = new
    PROVE  /\ Heap' /\ Here(1)
           /\ \E gone \in DOMAIN node :
                 /\ gone # 1 /\ DOMAIN node' = DOMAIN node \ {gone}
                 /\ \A p \in DOMAIN node' :
                       LET from == IF p = 1 THEN np ELSE IF p = np THEN gone ELSE p
                       IN  /\ from \in DOMAIN node \ {1}
                           /\ node'[p].data = node[from].data
                           /\ node'[p].key = node[from].key
                 /\ np # 1 /\ np \in DOMAIN node
<1> USE DEF Heap, Place
<1> DEFINE P == Parent(np)
           right == Right(P)
           gone == IF Here(right) THEN right ELSE np
<1>1. /\ np \in DOMAIN node /\ np \in Place \ {1} /\ Here(1)
      /\ P \in DOMAIN node /\ P \in Place /\ P # np /\ Left(P) \in DOMAIN node
      /\ np \in {Left(P), right} /\ Left(P) # right
  <2>1. np \in DOMAIN node /\ np \in Place \ {1} /\ Here(1)
    BY DEF Working, HeapTypes, Here
  <2>2. P \in DOMAIN node /\ P \in Place /\ P # np /\ np \in {Left(P), right}
    BY <2>1, Parents DEF Tree, Here
  <2> QED BY <2>1, <2>2, Sides DEF Tree, Here
<1>2. \A p \in Place : p # np => Ahead(p) = Count(p)
  BY CountTypes
<1>3. ~Here(Left(np)) /\ ~Here(Right(np)) /\ node[np].count = 1 /\ Ahead(np) = 0
  <2>1. ~Here(Right(np)) BY <1>1 DEF Tree
  <2>2. Ahead(Left(np)) = 0 /\ Ahead(Right(np)) = 0
    BY <2>1, <1>1, <1>2, Sides DEF Count
  <2>3. node[np].count = 1 BY <1>1, <2>2 DEF Balanced
  <2> QED BY <2>1, <2>3, <1>1 DEF Ahead, Count, Here
<1>4. /\ Ahead(Left(P)) - Ahead(right) \in -1..1
      /\ node[P].count = 1 + Ahead(Left(P)) + Ahead(right)
  BY <1>1 DEF Balanced
\* What is right of the leaf is one.
<1>5. ASSUME np # gone
      PROVE  /\ np = Left(P) /\ gone = right /\ Here(right)
             /\ ~Here(Left(right)) /\ ~Here(Right(right)) /\ node[right].count = 1
  <2>1. np = Left(P) /\ gone = right /\ Here(right) BY <1>1, <1>5
  <2>2. right \in Place /\ Count(right) = 1
    BY <2>1, <1>1, <1>2, <1>3, <1>4, Sides, CountTypes
  <2>3. node[right].count = 1 /\ right \in DOMAIN node BY <2>1, <2>2 DEF Count, Here
  <2>4. right # np BY <1>1, <2>1
  <2>5. /\ Left(right) \in Place /\ Right(right) \in Place
        /\ Left(right) # np /\ Right(right) # np
    BY <2>1, <2>2, <2>3, <1>1, Sides
  <2>6. 1 = 1 + Count(Left(right)) + Count(Right(right))
    BY <2>3, <2>5, <1>2 DEF Balanced
  <2> QED BY <2>1, <2>3, <2>6, CountTypes
<1>6. /\ gone \in DOMAIN node /\ gone \in Place \ {1} /\ gone \in {Left(P), right}
      /\ ~Here(Left(gone)) /\ ~Here(Right(gone)) /\ node[gone].count = 1
      /\ Parent(gone) = P
  <2>1. CASE np = gone BY <2>1, <1>1, <1>3
  <2>2. CASE np # gone BY <2>2, <1>1, <1>5, Sides DEF Here
  <2> QED BY <2>1, <2>2
<1>7. gone = Left(P) => ~Here(right) BY <1>1
<1>8. node' = [q \in DOMAIN node \ {gone} |->
                  CASE q = 1 -> [node[np] EXCEPT !.count = node[1].count]
                    [] q # 1 /\ q = np -> node[gone]
                    [] OTHER -> node[q]]
  BY DEF CutLeaf
<1> HIDE DEF gone
<1>9. /\ DOMAIN node' = DOMAIN node \ {gone}
      /\ \A p \in DOMAIN node' : p # 1 /\ p # np => node'[p] = node[p]
      /\ np # gone => node'[np] = node[gone]
      /\ node'[1].key = node[np].key /\ node'[1].data = node[np].data
      /\ node'[1].count = node[1].count
      /\ node'[1] \in [key : Int, data : Job, count : Place]
      /\ 1 \in DOMAIN node'
  BY <1>1, <1>6, <1>8 DEF HeapTypes, Here
<1>10. HeapTypes' BY <1>1, <1>6, <1>9 DEF HeapTypes
<1>11. \A p : Left(p)' = Left(p) /\ Right(p)' = Right(p) /\ Parent(p)' = Parent(p)
  BY DEF Left, Right, Parent
<1>12. \A p \in Place \ {1} : Here(p) => Parent(p) # gone /\ Parent(p) # np
  BY <1>1, <1>3, <1>6, Parents
<1>13. Tree'
  <2>1. ASSUME NEW p \in DOMAIN node', p # 1 PROVE Parent(p) \in DOMAIN node'
    BY <2>1, <1>9, <1>12 DEF Tree, Here, HeapTypes
  <2>2. ASSUME NEW p \in DOMAIN node', Right(p) \in DOMAIN node' PROVE Left(p) \in DOMAIN node'
    <3>1. p \in Place /\ p \in DOMAIN node /\ Left(p) \in DOMAIN node
      BY <2>2, <1>9 DEF HeapTypes, Tree, Here
    <3>2. CASE Left(p) = gone
      <4>1. p = P /\ gone = Left(P) BY <3>1, <3>2, <1>1, <1>6, Sides
      <4> QED BY <4>1, <1>7, <2>2, <1>9 DEF Here
    <3> QED BY <3>1, <3>2, <1>9
  <2> QED BY <2>1, <2>2 DEF Tree, Here, Left, Right, Parent
<1>14. Ordered'
  <2>1. ASSUME NEW p \in DOMAIN node' \ {1}, Parent(p) # 1
        PROVE  node'[Parent(p)].key <= node'[p].key
    <3>1. p \in Place \ {1} /\ p \in DOMAIN node BY <1>9, <2>1 DEF HeapTypes
    <3>2. Parent(p) \in DOMAIN node /\ Parent(p) # gone /\ Parent(p) # np
      BY <3>1, <1>12 DEF Tree, Here
    <3>3. node'[Parent(p)] = node[Parent(p)] BY <2>1, <3>2, <1>9
    <3>4. CASE p = np
      <4>1. node'[p] = node[gone] BY <3>4, <2>1, <1>9
      <4>2. node[P].key <= node[gone].key BY <1>6 DEF Ordered
      <4> QED BY <3>3, <3>4, <4>1, <4>2
    <3>5. CASE p # np
      <4>1. node'[p] = node[p] BY <3>5, <2>1, <1>9
      <4> QED BY <3>1, <3>3, <4>1 DEF Ordered
    <3> QED BY <3>4, <3>5
  <2> QED BY <2>1 DEF Ordered, Parent
<1>15. Working' /\ OnItsWay'
  BY <1>9 DEF Working, OnItsWay, Here
<1>16. Balanced'
  <2>1. \A p \in Place :
           Ahead(p)' = IF p = gone THEN 0 ELSE IF p = np THEN 1 ELSE Count(p)
    <3>1. \A p \in Place : Ahead(p)' = IF p \in DOMAIN node' THEN node'[p].count ELSE 0
      <4>1. \A p \in DOMAIN node' : node'[p].count \in Int BY <1>10 DEF HeapTypes
      <4> QED BY <4>1 DEF Ahead, Count, Here
    <3>2. \A p \in DOMAIN node' : p # np => node'[p].count = node[p].count
      BY <1>9
    <3> QED BY <3>1, <3>2, <1>1, <1>6, <1>9 DEF Count, Here
  <2>2. ASSUME NEW p \in DOMAIN node'
        PROVE  /\ node'[p].count = 1 + Ahead(Left(p))' + Ahead(Right(p))'
               /\ Ahead(Left(p))' - Ahead(Right(p))' \in -1..1
    <3>0. /\ p \in DOMAIN node /\ p \in Place
          /\ Left(p) \in Place /\ Right(p) \in Place /\ Left(p) # Right(p)
          /\ p # gone
          /\ Count(Left(p)) \in Nat /\ Count(Right(p)) \in Nat
      BY <1>9, Sides, CountTypes DEF HeapTypes
    <3>1. CASE p = P
      <4>1. node'[p].count = node[P].count BY <3>1, <1>1, <1>9
      <4>2. CASE gone = np
        <5>1. CASE np = Left(P)
          <6>1. Count(right) = 0 /\ Ahead(right) = 0
            BY <5>1, <4>2, <1>1, <1>2, <1>7, Sides DEF Count
          <6> QED BY <3>0, <3>1, <4>1, <4>2, <5>1, <6>1, <2>1, <1>1, <1>3, <1>4
        <5>2. CASE np = right
          <6>1. Ahead(Left(P)) = Count(Left(P)) BY <5>2, <1>1, <1>2, Sides
          <6> QED BY <3>0, <3>1, <4>1, <4>2, <5>2, <6>1, <2>1, <1>1, <1>3, <1>4
        <5> QED BY <5>1, <5>2, <1>1
      <4>3. CASE gone # np
        <5>1. np = Left(P) /\ gone = right /\ Count(right) = 1 /\ Ahead(right) = 1
          BY <4>3, <1>1, <1>2, <1>5, <1>6, Sides DEF Count, Here
        <5> QED BY <3>0, <3>1, <4>1, <4>3, <5>1, <2>1, <1>1, <1>3, <1>4
      <4> QED BY <4>2, <4>3
    <3>2. CASE p # P
      <4>1. /\ Left(p) # gone /\ Left(p) # np /\ Right(p) # gone /\ Right(p) # np
        BY <3>0, <3>2, <1>1, <1>6, Sides
      <4>2. /\ Ahead(Left(p))' = Count(Left(p)) /\ Ahead(Right(p))' = Count(Right(p))
            /\ Ahead(Left(p)) = Count(Left(p)) /\ Ahead(Right(p)) = Count(Right(p))
        BY <3>0, <4>1, <2>1, <1>2
      <4>3. CASE p = np
        <5>1. node'[p].count = 1 BY <3>0, <4>3, <1>6, <1>9
        <5>2. Count(Left(p)) = 0 /\ Count(Right(p)) = 0 BY <4>3, <1>3 DEF Count
        <5> QED BY <4>2, <5>1, <5>2
      <4>4. CASE p # np
        <5>1. node'[p].count = node[p].count BY <3>0, <4>4, <1>9
        <5> QED BY <3>0, <4>2, <5>1 DEF Balanced
      <4> QED BY <4>3, <4>4
    <3> QED BY <3>1, <3>2
  <2> QED BY <2>2 DEF Balanced, Left, Right
<1>17. \A p \in DOMAIN node' :
          LET from == IF p = 1 THEN np ELSE IF p = np THEN gone ELSE p
          IN  /\ from \in DOMAIN node \ {1}
              /\ node'[p].data = node[from].data
              /\ node'[p].key = node[from].key
  BY <1>1, <1>6, <1>9
<1> QED BY <1>1, <1>6, <1>9, <1>10, <1>13, <1>14, <1>15, <1>16, <1>17

LEMMA SinkKeeps ==
    ASSUME Heap, Sink
    PROVE  /\ Heap' /\ Held' = Held /\ new' = new /\ step = "sink"
           /\ step' \in {"sink", "idle"}
           /\ \/ node' = node
              \/ \E p, q \in DOMAIN node : p # q /\ node' = Swapped(p, q)
<1> USE DEF Heap, Place
<1>1. np \in DOMAIN node /\ np \in Place /\ step = "sink" /\ new' = new
  BY DEF Working, HeapTypes, Here, Sink
<1>2. \A r \in DOMAIN node : node[r].key \in Int /\ r \in Place
  BY DEF HeapTypes
<1>3. CASE Settled(np)
  <2>1. node' = node /\ step' = "idle" /\ np' = 1 BY <1>3 DEF Sink
  <2>2. HeapTypes' /\ Tree' BY <2>1 DEF HeapTypes, Tree, Here, Left, Right, Parent
  <2>3. Ordered'
    <3>1. ASSUME NEW p \in DOMAIN node \ {1} PROVE node[Parent(p)].key <= node[p].key
      <4>1. CASE Parent(p) = np
        BY <4>1, <1>2, <1>3, <3>1, Parents DEF Settled, Here
      <4> QED BY <4>1 DEF Ordered
    <3> QED BY <2>1, <3>1 DEF Ordered, Parent
  <2>4. Balanced' BY <1>1, <2>1, CountsKept
  <2>5. Working' /\ OnItsWay' BY <1>1, <2>1 DEF Working, OnItsWay
  <2> QED BY <1>1, <2>1, <2>2, <2>3, <2>4, <2>5 DEF Held
<1>4. CASE ~Settled(np)
  <2> DEFINE q == SinkingSide(np)
  <2>1. node' = Swapped(np, q) /\ step' = "sink" /\ np' = q
    BY <1>4, <1>1 DEF Sink
  <2>2. Here(Left(np)) BY <1>1, <1>4 DEF Settled, Tree
  <2>3. /\ q \in DOMAIN node /\ q \in {Left(np), Right(np)} /\ q # np
        /\ q # 1 /\ Parent(q) = np /\ q \in Place
    BY <1>1, <2>2, Sides DEF SinkingSide, Here
  <2>4. node[q].key < node[np].key
    BY <1>1, <1>2, <1>4, <2>2 DEF SinkingSide, Settled, Here
  <2>5. ASSUME NEW p \in DOMAIN node \ {1}, Parent(p) = np
        PROVE  node[q].key <= node[p].key
    <3>1. p \in {Left(np), Right(np)} /\ p \in Place BY <2>5, <1>2, Parents
    <3>2. CASE p = q BY <3>2, <1>2, <2>3
    <3>3. CASE q = Left(np) /\ p = Right(np)
      BY <3>3, <2>5, <1>1, <1>2, <2>3, Sides DEF SinkingSide, Here
    <3>4. CASE q = Right(np) /\ p = Left(np)
      <4>1. ~(node[p].key <= node[np].key /\ node[p].key <= node[q].key)
        BY <3>4, <1>1, <2>3, Sides DEF SinkingSide
      <4> QED BY <4>1, <2>4, <2>5, <1>1, <1>2, <2>3
    <3> QED BY <3>1, <3>2, <3>3, <3>4, <2>3
  <2>5a. \E p, r \in DOMAIN node : p # r /\ node' = Swapped(p, r)
    BY <1>1, <2>1, <2>3
  <2> HIDE DEF q
  <2>6. /\ DOMAIN node' = DOMAIN node /\ Held' = Held
        /\ \A r \in DOMAIN node : r # np /\ r # q => node'[r] = node[r]
        /\ \A r \in DOMAIN node :
              /\ node'[r] \in [key : Int, data : Job, count : Place]
              /\ node'[r].count = node[r].count
        /\ node'[np].key = node[q].key /\ node'[q].key = node[np].key
    BY <1>1, <2>1, <2>3, Swap
  <2>7. HeapTypes' BY <1>2, <2>1, <2>3, <2>6 DEF HeapTypes
  <2>8. Tree' BY <2>6, TreeKept
  <2>9. Balanced' BY <1>1, <2>1, <2>6, CountsKept
  <2>10. Ordered'
    <3>1. ASSUME NEW p \in DOMAIN node \ {1}, Parent(p) # q
          PROVE  node'[Parent(p)].key <= node'[p].key
      <4>1. Parent(p) \in DOMAIN node BY <3>1 DEF Tree, Here
      <4>2. CASE Parent(p) = np
        <5>1. p # np BY <4>2, <3>1, <1>2, Parents
        <5>2. CASE p = q BY <4>2, <5>2, <1>1, <1>2, <2>3, <2>4, <2>6
        <5>3. CASE p # q BY <4>2, <5>1, <5>3, <3>1, <2>5, <2>6
        <5> QED BY <5>2, <5>3
      <4>3. CASE p = np
        <5>1. Parent(np) # np BY <4>3, <3>1, <1>2, Parents
        <5>2. node[Parent(np)].key <= node[q].key
          BY <4>3, <3>1, <1>1, <2>3 DEF OnItsWay
        <5> QED BY <4>1, <4>3, <5>1, <5>2, <3>1, <2>6
      <4>4. CASE Parent(p) # np /\ p # np
        <5>1. p # q BY <4>4, <2>3
        <5> QED BY <4>1, <4>4, <5>1, <3>1, <2>6, <1>1 DEF Ordered
      <4> QED BY <4>2, <4>3, <4>4
    <3> QED BY <3>1, <2>1, <2>6 DEF Ordered, Parent
  <2>11. Working' BY <1>1, <2>1, <2>3, <2>6 DEF Working, Here
  <2>12. OnItsWay'
    <3>1. ASSUME NEW p \in DOMAIN node \ {1}, Parent(p) = q
          PROVE  node'[np].key <= node'[p].key
      <4>1. p # np /\ p # q
        BY <3>1, <1>1, <1>2, <2>3, Parents
      <4>2. node[q].key <= node[p].key BY <3>1, <2>3, <1>1 DEF Ordered
      <4> QED BY <4>1, <4>2, <3>1, <2>6
    <3>2. Parent(np)' = np BY <2>1, <2>3 DEF Parent
    <3> QED BY <3>1, <3>2, <2>1, <2>6 DEF OnItsWay, Parent
  <2> QED BY <1>1, <2>1, <2>5a, <2>6, <2>7, <2>8, <2>9, <2>10, <2>11, <2>12
<1> QED BY <1>3, <1>4

-----------------------------------------------------------------------------
(* A job is in one place.                                                  *)

LEMMA SwapOnce ==
    ASSUME HeapTypes, Distinct, Keyed, NEW p \in DOMAIN node, NEW q \in DOMAIN node,
           p # q, node' = Swapped(p, q)
    PROVE  Distinct' /\ Keyed'
<1> DEFINE from(r) == IF r = p THEN q ELSE IF r = q THEN p ELSE r
<1>1. /\ DOMAIN node' = DOMAIN node
      /\ \A r \in DOMAIN node : /\ from(r) \in DOMAIN node
                                /\ node'[r].data = node[from(r)].data
                                /\ node'[r].key = node[from(r)].key
  BY Swap
<1>2. Keyed' BY <1>1 DEF Keyed
<1>3. \A r, s \in DOMAIN node : from(r) = from(s) => r = s OBVIOUS
<1> HIDE DEF from
<1>4. Distinct' BY <1>1, <1>3 DEF Distinct
<1> QED BY <1>2, <1>4

\* The node that is made has a data of its own.
LEMMA DescendOnce ==
    ASSUME IInv, Descend, Priority \in [Job -> Int]
    PROVE  /\ Heap' /\ Distinct' /\ Keyed' /\ Fresh'
           /\ step = "down"
           /\ \/ Held' = Held /\ step' = "down" /\ new' = new
              \/ /\ Held' = Held \cup {new.data} /\ step' = "up"
                 /\ new.data \in Job \ Held
<1> DEFINE q == FreeSide(np)
<1>1. Heap /\ step = "down" /\ np \in DOMAIN node /\ new.data \notin Held
  BY DEF IInv, Descend, Heap, Working, Here, Fresh
<1>2. CASE Here(q)
  <2>1. /\ node' = [node EXCEPT ![np].count = @ + 1]
        /\ np' = q /\ UNCHANGED <<step, new>>
    BY <1>2 DEF Descend
  <2> HIDE DEF q
  <2>2. Heap' /\ Held' = Held BY <1>1, <1>2, <2>1, DescendOn DEF q
  <2>3. /\ DOMAIN node' = DOMAIN node
        /\ \A p \in DOMAIN node : node'[p].key = node[p].key /\ node'[p].data = node[p].data
    BY <1>1, <2>1 DEF Heap, HeapTypes
  <2>4. Distinct' /\ Keyed' BY <2>3 DEF IInv, Distinct, Keyed
  <2>5. Fresh' BY <1>1, <2>1, <2>2 DEF Fresh
  <2> QED BY <1>1, <2>1, <2>2, <2>4, <2>5
<1>3. CASE ~Here(q)
  <2>1. /\ node' = [p \in DOMAIN node \cup {q} |->
                       IF p = q THEN Leaf(new) ELSE [node EXCEPT ![np].count = @ + 1][p]]
        /\ step' = "up" /\ new' = NoEntry /\ np' = np
    BY <1>3 DEF Descend
  <2> HIDE DEF q
  <2>2. Heap' /\ Held' = Held \cup {new.data} /\ new.data \in Job
    BY <1>1, <1>3, <2>1, DescendEnds DEF q
  <2>3. /\ DOMAIN node' = DOMAIN node \cup {q} /\ q \notin DOMAIN node
        /\ \A p \in DOMAIN node : node'[p].key = node[p].key /\ node'[p].data = node[p].data
        /\ node'[q].key = new.key /\ node'[q].data = new.data
    BY <1>1, <1>3, <2>1 DEF Heap, HeapTypes, Here, Leaf
  <2>4. \A p \in DOMAIN node : node[p].data # new.data BY <1>1 DEF Held
  <2>5. new.key = Priority[new.data] BY <1>1 DEF Heap, Working, Entry
  <2>6. Distinct' BY <2>3, <2>4 DEF IInv, Distinct
  <2>7. Keyed' BY <2>3, <2>5 DEF IInv, Keyed
  <2> QED BY <1>1, <2>1, <2>2, <2>6, <2>7 DEF Fresh
<1> QED BY <1>2, <1>3

LEMMA ClimbOnce ==
    ASSUME IInv, Climb
    PROVE  /\ Heap' /\ Distinct' /\ Keyed' /\ Fresh' /\ Held' = Held
           /\ step = "up" /\ step' \in {"up", "idle"} /\ new' = new
<1>1. step = "up" /\ step' \in {"up", "idle"} /\ new' = new BY DEF Climb
<1>2. Heap' /\ Held' = Held BY ClimbKeeps DEF IInv
<1>3. Distinct' /\ Keyed'
  <2>1. CASE node' = node BY <2>1 DEF IInv, Distinct, Keyed
  <2>2. CASE \E p, q \in DOMAIN node : p # q /\ node' = Swapped(p, q)
    BY <2>2, SwapOnce DEF IInv, Heap
  <2> QED BY <2>1, <2>2, ClimbKeeps DEF IInv
<1> QED BY <1>1, <1>2, <1>3 DEF Fresh

LEMMA SinkOnce ==
    ASSUME IInv, Sink
    PROVE  /\ Heap' /\ Distinct' /\ Keyed' /\ Fresh' /\ Held' = Held
           /\ step = "sink" /\ step' \in {"sink", "idle"} /\ new' = new
<1>1. /\ step = "sink" /\ step' \in {"sink", "idle"} /\ new' = new
      /\ Heap' /\ Held' = Held
  BY SinkKeeps DEF IInv
<1>2. Distinct' /\ Keyed'
  <2>1. CASE node' = node BY <2>1 DEF IInv, Distinct, Keyed
  <2>2. CASE \E p, q \in DOMAIN node : p # q /\ node' = Swapped(p, q)
    BY <2>2, SwapOnce DEF IInv, Heap
  <2> QED BY <2>1, <2>2, SinkKeeps DEF IInv
<1> QED BY <1>1, <1>2 DEF Fresh

\* The first loop takes nothing off but the data of the top, the least of all.
LEMMA CutOnce ==
    ASSUME IInv, Cut
    PROVE  /\ Heap' /\ Distinct' /\ Keyed' /\ Fresh'
           /\ step = "cut" /\ new' = new
           /\ \/ Held' = Held /\ step' = "cut"
              \/ /\ step' = "sink" /\ Here(1)
                 /\ Held' = Held \ {node[1].data}
<1>1. Heap /\ step = "cut" /\ new' = new /\ np \in DOMAIN node
  BY DEF IInv, Cut, Heap, Working, Here
<1>2. CASE Here(Left(np))
  <2>1. /\ node' = [node EXCEPT ![np].count = @ - 1]
        /\ np' = FullSide(np) /\ UNCHANGED step
    BY <1>1, <1>2 DEF Cut
  <2>2. Heap' /\ Held' = Held BY <1>1, <1>2, <2>1, CutOn
  <2>3. /\ DOMAIN node' = DOMAIN node
        /\ \A p \in DOMAIN node : node'[p].key = node[p].key /\ node'[p].data = node[p].data
    BY <1>1, <2>1 DEF Heap, HeapTypes
  <2>4. Distinct' /\ Keyed' BY <2>3 DEF IInv, Distinct, Keyed
  <2> QED BY <1>1, <2>1, <2>2, <2>4 DEF Fresh
<1>3. CASE ~Here(Left(np))
  <2>1. node' = CutLeaf(np) /\ step' = "sink" /\ np' = 1
    BY <1>1, <1>3 DEF Cut
  <2>2. Heap' /\ Here(1) BY <1>1, <1>3, <2>1, CutEnds
  <2>3. PICK gone \in DOMAIN node :
           /\ gone # 1 /\ DOMAIN node' = DOMAIN node \ {gone}
           /\ \A p \in DOMAIN node' :
                 LET from == IF p = 1 THEN np ELSE IF p = np THEN gone ELSE p
                 IN  /\ from \in DOMAIN node \ {1}
                     /\ node'[p].data = node[from].data
                     /\ node'[p].key = node[from].key
           /\ np # 1 /\ np \in DOMAIN node
    BY <1>1, <1>3, <2>1, CutEnds
  <2> DEFINE from(p) == IF p = 1 THEN np ELSE IF p = np THEN gone ELSE p
  <2>4. \A p \in DOMAIN node' :
           /\ from(p) \in DOMAIN node \ {1}
           /\ node'[p].data = node[from(p)].data
           /\ node'[p].key = node[from(p)].key
    BY <2>3
  <2>5. \A p, r \in DOMAIN node' : from(p) = from(r) => p = r
    BY <2>3
  <2>6. \A r \in DOMAIN node \ {1} : \E p \in DOMAIN node' : from(p) = r
    <3> SUFFICES ASSUME NEW r \in DOMAIN node \ {1}
                 PROVE  \E p \in DOMAIN node' : from(p) = r
      OBVIOUS
    <3>1. CASE r = np
      <4>1. 1 \in DOMAIN node' BY <2>2, <2>3 DEF Here
      <4> QED BY <3>1, <4>1
    <3>2. CASE r # np /\ r = gone
      <4>1. np \in DOMAIN node' BY <2>3, <3>2
      <4> QED BY <3>2, <4>1, <2>3
    <3>3. CASE r # np /\ r # gone
      <4>1. r \in DOMAIN node' BY <2>3, <3>3
      <4> QED BY <3>3, <4>1
    <3> QED BY <3>1, <3>2, <3>3
  <2> HIDE DEF from
  <2>7. Distinct' BY <2>4, <2>5 DEF IInv, Distinct
  <2>8. Keyed' BY <2>4 DEF IInv, Keyed
  <2>9. Held' = Held \ {node[1].data}
    <3>1. ASSUME NEW x \in Held' PROVE x \in Held \ {node[1].data}
      <4>1. PICK p \in DOMAIN node' : x = node'[p].data BY <3>1 DEF Held
      <4> QED BY <4>1, <2>2, <2>4 DEF IInv, Distinct, Held, Here
    <3>2. ASSUME NEW x \in Held, x # node[1].data PROVE x \in Held'
      <4>1. PICK r \in DOMAIN node \ {1} : x = node[r].data BY <3>2 DEF Held
      <4>2. PICK p \in DOMAIN node' : from(p) = r BY <2>6
      <4>3. x = node'[p].data BY <4>1, <4>2, <2>4
      <4> QED BY <4>3 DEF Held
    <3> QED BY <3>1, <3>2
  <2> QED BY <1>1, <2>1, <2>2, <2>7, <2>8, <2>9 DEF Fresh
<1> QED BY <1>2, <1>3

LEMMA InsOnce ==
    ASSUME IInv, NEW j \in Job, Absent(j), Ins(Entry(j)), Priority \in [Job -> Int]
    PROVE  /\ Heap' /\ Distinct' /\ Keyed' /\ Fresh'
           /\ step = "idle"
           /\ \/ Held' = Held /\ step' = "down" /\ new'.data = j /\ Here(1)
              \/ Held = {} /\ Held' = {j} /\ step' = "idle" /\ ~Here(1)
<1>1. Heap' /\ step = "idle" /\ Heap BY InsKeeps DEF IInv, Ins
<1>2. CASE Here(1)
  <2>1. node' = node /\ step' = "down" /\ new' = Entry(j) BY <1>1, <1>2, InsKeeps
  <2>2. Held' = Held /\ new'.data = j BY <2>1 DEF Held, Entry
  <2>3. Distinct' /\ Keyed' BY <2>1 DEF IInv, Distinct, Keyed
  <2>4. Fresh' BY <2>2 DEF Fresh, Absent
  <2> QED BY <1>1, <1>2, <2>1, <2>2, <2>3, <2>4
<1>3. CASE ~Here(1)
  <2>1. /\ node' = [p \in {1} |-> Leaf(Entry(j))]
        /\ step' = "idle" /\ np' = 1 /\ new' = NoEntry
    BY <1>1, <1>3, InsKeeps
  <2>2. /\ DOMAIN node' = {1} /\ Held' = {j}
        /\ node'[1] = [key |-> Priority[j], data |-> j, count |-> 1]
    BY <2>1, LoneEntry
  <2>3. Distinct' /\ Keyed' /\ Fresh' BY <2>1, <2>2 DEF Distinct, Keyed, Fresh
  <2>4. Held = {} BY <1>1, <1>3, EmptyHeap
  <2> QED BY <1>1, <1>3, <2>1, <2>2, <2>3, <2>4
<1> QED BY <1>2, <1>3

LEMMA DelOnce ==
    ASSUME IInv, Del
    PROVE  /\ Heap' /\ Distinct' /\ Keyed' /\ Fresh'
           /\ step = "idle" /\ Here(1)
           /\ \/ Held' = Held /\ step' = "cut"
              \/ step' = "idle" /\ Held = {node[1].data} /\ Held' = {}
<1>1. Heap /\ Heap' /\ step = "idle" /\ Here(1) BY DelKeeps DEF IInv
<1>2. CASE Here(Left(1))
  <2>1. node' = node /\ step' = "cut" BY <1>1, <1>2, DelKeeps
  <2> QED BY <1>1, <2>1 DEF IInv, Distinct, Keyed, Fresh, Held
<1>3. CASE ~Here(Left(1))
  <2>1. DOMAIN node' = {} /\ step' = "idle" /\ Held' = {} BY <1>1, <1>3, DelKeeps
  <2>2. Held = {node[1].data} BY <1>1, <1>3, LoneTop
  <2> QED BY <1>1, <2>1, <2>2 DEF Distinct, Keyed, Fresh
<1> QED BY <1>2, <1>3

\* The top has the least key of all the jobs.
LEMMA LeastServed ==
    ASSUME IInv, step \notin {"up", "sink"}, Here(1)
    PROVE  /\ node[1].data \in Job /\ node[1].data \in Held
           /\ \A k \in Held : Priority[node[1].data] <= Priority[k]
<1>1. 1 \in DOMAIN node /\ Heap /\ HeapTypes /\ Keyed BY DEF IInv, Heap, Here
<1>2. node[1].data \in Job /\ node[1].data \in Held BY <1>1 DEF HeapTypes, Held
<1>3. ASSUME NEW k \in Held PROVE Priority[node[1].data] <= Priority[k]
  <2>1. PICK p \in DOMAIN node : k = node[p].data BY DEF Held
  <2>2. node[1].key <= node[p].key BY <1>1, TopIsLeast
  <2> QED BY <1>1, <2>1, <2>2 DEF Keyed
<1> QED BY <1>2, <1>3

LEMMA QueueRests ==
    ASSUME IInv, UNCHANGED queue
    PROVE  /\ Heap' /\ Distinct' /\ Keyed' /\ Fresh'
           /\ Held' = Held /\ step' = step /\ new' = new
<1>1. node' = node /\ step' = step /\ np' = np /\ new' = new BY DEF queue
<1>2. Held' = Held /\ Distinct' /\ Keyed' /\ Fresh'
  BY <1>1 DEF IInv, Held, Distinct, Keyed, Fresh
<1>3. HeapTypes' /\ Tree' BY <1>1, TreeKept DEF IInv, Heap, HeapTypes
<1>4. Ordered' BY <1>1 DEF IInv, Heap, Ordered, Parent
<1>5. \A p : Ahead(p)' = Ahead(p) BY <1>1 DEF Ahead, Count, Here
<1>6. Balanced' BY <1>1, <1>5 DEF IInv, Heap, Balanced, Left, Right
<1>7. Working' BY <1>1 DEF IInv, Heap, Working, Here, Left
<1>8. OnItsWay' BY <1>1 DEF IInv, Heap, OnItsWay, Here, Left, Right, Parent
<1> QED BY <1>1, <1>2, <1>3, <1>4, <1>6, <1>7, <1>8 DEF Heap

-----------------------------------------------------------------------------
(* The steps of the program.                                               *)

\* A step that the queue of jobs allows, or that leaves it alone.
Kept == [Promise!Next \/ raced']_<<Held, running, gc # "ZOM">>

LEMMA KeptIf ==
    ASSUME \/ Held' = Held /\ running' = running /\ (gc' = "ZOM" <=> gc = "ZOM")
           \/ raced'
           \/ /\ gc # "ZOM" /\ gc' # "ZOM" /\ running' = running
              /\ \E j \in Job \ Held : Held' = Held \cup {j}
           \/ /\ gc' = "ZOM" <=> gc = "ZOM"
              /\ running = NoJob /\ running' \in Held \cap Job
              /\ \A k \in Held : Priority[running'] <= Priority[k]
              /\ Held' = Held \ {running'}
           \/ /\ gc' = "ZOM" <=> gc = "ZOM"
              /\ running # NoJob /\ running' = NoJob /\ Held' = Held
           \/ /\ Held = {} /\ Held' = {} /\ running = NoJob /\ running' = NoJob
              /\ gc' = "ZOM"
    PROVE  Kept
<1>1. CASE Held' = Held /\ running' = running /\ (gc' = "ZOM" <=> gc = "ZOM")
  BY <1>1 DEF Kept
<1>2. CASE raced'
  BY <1>2 DEF Kept
<1>3. CASE /\ gc # "ZOM" /\ gc' # "ZOM" /\ running' = running
           /\ \E j \in Job \ Held : Held' = Held \cup {j}
  BY <1>3 DEF Kept, Promise!Next, Promise!Give
<1>4. CASE /\ gc' = "ZOM" <=> gc = "ZOM"
           /\ running = NoJob /\ running' \in Held \cap Job
           /\ \A k \in Held : Priority[running'] <= Priority[k]
           /\ Held' = Held \ {running'}
  <2>1. Promise!Take(running') BY <1>4 DEF Promise!Take
  <2> QED BY <1>4, <2>1 DEF Kept, Promise!Next
<1>5. CASE /\ gc' = "ZOM" <=> gc = "ZOM"
           /\ running # NoJob /\ running' = NoJob /\ Held' = Held
  BY <1>5 DEF Kept, Promise!Next, Promise!Done
<1>6. CASE /\ Held = {} /\ Held' = {} /\ running = NoJob /\ running' = NoJob
           /\ gc' = "ZOM"
  BY <1>6 DEF Kept, Promise!Next, Promise!Close
<1> QED BY <1>1, <1>2, <1>3, <1>4, <1>5, <1>6

LEMMA TimerFiresKept ==
    ASSUME IInv, TimerFires, GcAssumption
    PROVE  IInv' /\ Kept
<1>1. /\ Heap' /\ Distinct' /\ Keyed' /\ Fresh'
      /\ Held' = Held /\ step' = step /\ new' = new
  BY QueueRests DEF TimerFires
<1>2. RestTypes'
  <2>1. /\ timer' = FALSE /\ gc' = "EXE" /\ spent' = 0
        /\ UNCHANGED <<wakeup, budget_us, running, app, at, hand, late, raced>>
    BY DEF TimerFires, callers
  <2>2. 0 \in 0..MaxSpent BY DEF GcAssumption
  <2> QED BY <2>1, <2>2 DEF IInv, RestTypes
<1>3. Hands' BY <1>1 DEF TimerFires, callers, IInv, Hands
<1>4. GcPlaces' BY <1>1 DEF TimerFires, callers, IInv, GcPlaces
<1>5. Kept BY <1>1, KeptIf DEF TimerFires, IInv, GcPlaces
<1> QED BY <1>1, <1>2, <1>3, <1>4, <1>5 DEF IInv

LEMMA ActExeKept ==
    ASSUME IInv, ActExe, GcAssumption
    PROVE  IInv' /\ Kept
<1>0. /\ gc = "EXE" /\ running = NoJob /\ step = "idle"
      /\ UNCHANGED <<wakeup, budget_us, spent, app, at, hand, late, raced>>
  BY DEF ActExe, callers
<1>1. CASE ~Here(1) /\ ActStart /\ UNCHANGED <<queue, running>>
  <2>1. /\ Heap' /\ Distinct' /\ Keyed' /\ Fresh'
        /\ Held' = Held /\ step' = step /\ new' = new
    BY <1>1, QueueRests
  <2>2. gc' \in {"START", "RET"} /\ timer' \in BOOLEAN
    BY <1>1 DEF ActStart, IInv, RestTypes
  <2>3. RestTypes' BY <1>0, <1>1, <2>2 DEF IInv, RestTypes
  <2>4. Hands' BY <1>0, <2>1 DEF IInv, Hands
  <2>5. GcPlaces' BY <1>0, <1>1, <2>1, <2>2 DEF IInv, GcPlaces
  <2>6. Kept BY <1>0, <1>1, <2>1, <2>2, KeptIf
  <2> QED BY <2>1, <2>3, <2>4, <2>5, <2>6 DEF IInv
<1>2. CASE /\ Del /\ UNCHANGED <<gc, timer>>
           /\ running' = IF step' = "idle" THEN node[1].data ELSE NoJob
  <2>1. /\ Heap' /\ Distinct' /\ Keyed' /\ Fresh' /\ Here(1)
        /\ \/ Held' = Held /\ step' = "cut"
           \/ step' = "idle" /\ Held = {node[1].data} /\ Held' = {}
    BY <1>2, DelOnce
  <2>2. /\ node[1].data \in Job /\ node[1].data \in Held
        /\ \A k \in Held : Priority[node[1].data] <= Priority[k]
    BY <1>0, <2>1, LeastServed
  <2>3. RestTypes' BY <1>0, <1>2, <2>2 DEF IInv, RestTypes
  <2>4. Hands' BY <1>0, <2>1 DEF IInv, Hands
  <2>5. GcPlaces' BY <1>0, <1>2, <2>1 DEF IInv, GcPlaces
  <2>6. Kept
    <3>1. CASE step' = "cut" /\ Held' = Held BY <1>0, <1>2, <3>1, KeptIf
    <3>2. CASE step' = "idle" /\ Held = {node[1].data} /\ Held' = {}
      BY <1>0, <1>2, <2>2, <3>2, KeptIf
    <3> QED BY <2>1, <3>1, <3>2
  <2> QED BY <2>1, <2>3, <2>4, <2>5, <2>6 DEF IInv
<1> QED BY <1>1, <1>2 DEF ActExe

LEMMA DelGoesOnKept ==
    ASSUME IInv, DelGoesOn
    PROVE  IInv' /\ Kept
<1>0. UNCHANGED <<gc, timer, wakeup, budget_us, spent, app, at, hand, late, raced>>
  BY DEF DelGoesOn, callers
<1>1. CASE Cut /\ running' = IF step' = "sink" THEN node[1].data ELSE running
  <2>1. /\ Heap' /\ Distinct' /\ Keyed' /\ Fresh' /\ step = "cut"
        /\ \/ Held' = Held /\ step' = "cut"
           \/ step' = "sink" /\ Here(1) /\ Held' = Held \ {node[1].data}
    BY <1>1, CutOnce
  <2>2. gc = "EXE" /\ running = NoJob /\ Here(1)
    BY <2>1 DEF IInv, GcPlaces, Heap, Working
  <2>3. /\ node[1].data \in Job /\ node[1].data \in Held
        /\ \A k \in Held : Priority[node[1].data] <= Priority[k]
    BY <2>1, <2>2, LeastServed
  <2>4. RestTypes' BY <1>0, <1>1, <2>3 DEF IInv, RestTypes
  <2>5. Hands' BY <1>0, <2>1 DEF IInv, Hands
  <2>6. GcPlaces' BY <1>0, <1>1, <2>1, <2>2 DEF IInv, GcPlaces
  <2>7. Kept
    <3>1. CASE step' = "cut" /\ Held' = Held BY <1>0, <1>1, <3>1, KeptIf
    <3>2. CASE step' = "sink" /\ Held' = Held \ {node[1].data}
      BY <1>0, <1>1, <2>2, <2>3, <3>2, KeptIf
    <3> QED BY <2>1, <3>1, <3>2
  <2> QED BY <2>1, <2>4, <2>5, <2>6, <2>7 DEF IInv
<1>2. CASE Sink /\ UNCHANGED running
  <2>1. /\ Heap' /\ Distinct' /\ Keyed' /\ Fresh' /\ Held' = Held
        /\ step = "sink" /\ step' \in {"sink", "idle"}
    BY <1>2, SinkOnce
  <2>2. RestTypes' BY <1>0, <1>2 DEF IInv, RestTypes
  <2>3. Hands' BY <1>0, <2>1 DEF IInv, Hands
  <2>4. GcPlaces' BY <1>0, <1>2, <2>1 DEF IInv, GcPlaces
  <2>5. Kept BY <1>0, <1>2, <2>1, KeptIf
  <2> QED BY <2>1, <2>2, <2>3, <2>4, <2>5 DEF IInv
<1> QED BY <1>1, <1>2 DEF DelGoesOn

LEMMA DeliveredKept ==
    ASSUME IInv, Delivered
    PROVE  IInv' /\ Kept
<1>0. /\ running # NoJob /\ ~GcAtQueue /\ running' = NoJob /\ gc = "EXE"
      /\ UNCHANGED <<wakeup, budget_us, spent, app, at, hand, late, raced>>
  BY DEF Delivered, callers, IInv, GcPlaces
<1>1. /\ Heap' /\ Distinct' /\ Keyed' /\ Fresh'
      /\ Held' = Held /\ step' = step /\ new' = new
  BY QueueRests DEF Delivered
<1>2. gc' \in {"START", "RET", "EXE"} /\ timer' \in BOOLEAN
  BY <1>0 DEF Delivered, ActStart, IInv, RestTypes
<1>3. RestTypes' BY <1>0, <1>2 DEF IInv, RestTypes
<1>4. Hands' BY <1>0, <1>1 DEF IInv, Hands
<1>5. GcPlaces' BY <1>0, <1>1, <1>2 DEF IInv, GcPlaces, GcAtQueue
<1>6. Kept BY <1>0, <1>1, <1>2, KeptIf
<1> QED BY <1>1, <1>3, <1>4, <1>5, <1>6 DEF IInv

\* A wake-up, or the end of a dispatch, may send the gc from START to RET.
LEMMA WokenTo ==
    ASSUME RestTypes, Woken
    PROVE  /\ timer' \in BOOLEAN
           /\ gc' = gc \/ (gc = "START" /\ gc' = "RET")
BY DEF Woken, ActStart, RestTypes

LEMMA RestKept ==
    ASSUME IInv, Rest
    PROVE  IInv' /\ Kept
<1>0. /\ UNCHANGED <<budget_us, spent, running, app, at, hand, late, raced>>
      /\ wakeup' = FALSE
      /\ timer' \in BOOLEAN /\ (gc' = gc \/ (gc = "START" /\ gc' = "RET"))
  BY WokenTo DEF Rest, callers, IInv
<1>1. /\ Heap' /\ Distinct' /\ Keyed' /\ Fresh'
      /\ Held' = Held /\ step' = step /\ new' = new
  BY QueueRests DEF Rest
<1>2. RestTypes' BY <1>0 DEF IInv, RestTypes
<1>3. Hands' BY <1>0, <1>1 DEF IInv, Hands
<1>4. GcPlaces' BY <1>0, <1>1 DEF IInv, GcPlaces
<1>5. Kept BY <1>0, <1>1, KeptIf
<1> QED BY <1>1, <1>2, <1>3, <1>4, <1>5 DEF IInv

LEMMA ElapseKept ==
    ASSUME IInv, Elapse, GcAssumption
    PROVE  IInv' /\ Kept
<1>1. /\ Heap' /\ Distinct' /\ Keyed' /\ Fresh'
      /\ Held' = Held /\ step' = step /\ new' = new
  BY QueueRests DEF Elapse
<1>2. RestTypes' BY DEF Elapse, callers, IInv, RestTypes, GcAssumption
<1>3. Hands' BY <1>1 DEF Elapse, callers, IInv, Hands
<1>4. GcPlaces' BY <1>1 DEF Elapse, callers, IInv, GcPlaces
<1>5. Kept BY <1>1, KeptIf DEF Elapse
<1> QED BY <1>1, <1>2, <1>3, <1>4, <1>5 DEF IInv

LEMMA ExeInsideKept ==
    ASSUME IInv, NEW j \in Job, ExeInside(j), GcAssumption
    PROVE  IInv' /\ Kept
<1>0. /\ UNCHANGED <<gc, timer, budget_us, spent, running, app, at, hand, late, raced>>
      /\ wakeup' = TRUE /\ running # NoJob /\ gc = "EXE" /\ Absent(j)
  BY DEF ExeInside, callers, IInv, GcPlaces
<1>1. /\ Heap' /\ Distinct' /\ Keyed' /\ Fresh' /\ step = "idle"
      /\ \/ Held' = Held /\ step' = "down" /\ new'.data = j
         \/ Held = {} /\ Held' = {j} /\ step' = "idle"
  BY InsOnce DEF ExeInside, GcAssumption
<1>2. RestTypes' BY <1>0 DEF IInv, RestTypes
<1>3. Hands' BY <1>0, <1>1 DEF IInv, Hands, Absent
<1>4. GcPlaces' BY <1>0, <1>1 DEF IInv, GcPlaces
<1>5. Kept BY <1>0, <1>1, KeptIf
<1> QED BY <1>1, <1>2, <1>3, <1>4, <1>5 DEF IInv

\* Who calls exe() meets a gc that has not ended.
LEMMA InsByKept ==
    ASSUME IInv, NEW c \in Caller, NEW j \in Job, MayCall(c), Absent(j), InsBy(c, j),
           UNCHANGED <<gc, wakeup, timer, budget_us, spent, running, app, hand, raced>>,
           late' \in BOOLEAN, GcAssumption
    PROVE  IInv' /\ Kept
<1>0. /\ at[c] = "idle" /\ gc # "ZOM"
      /\ at' = [at EXCEPT ![c] = IF step' = "idle" THEN "wake" ELSE "ins"]
  BY DEF MayCall, InsBy, IInv, GcPlaces
<1>1. /\ Heap' /\ Distinct' /\ Keyed' /\ Fresh' /\ step = "idle"
      /\ \/ Held' = Held /\ step' = "down" /\ new'.data = j
         \/ Held = {} /\ Held' = {j} /\ step' = "idle"
  BY InsOnce DEF InsBy, GcAssumption
<1>2. at \in [Caller -> {"idle", "store", "ins", "wake"}] BY DEF IInv, RestTypes
<1>3. /\ at' \in [Caller -> {"idle", "store", "ins", "wake"}]
      /\ at'[c] # "store" /\ (at'[c] = "ins" => step' = "down")
      /\ \A d \in Caller : d # c => at'[d] = at[d]
  BY <1>0, <1>1, <1>2
<1>4. RestTypes' BY <1>3 DEF IInv, RestTypes
<1>5. Hands' BY <1>0, <1>1, <1>3 DEF IInv, Hands, Absent
<1>6. GcPlaces' BY <1>0, <1>1, <1>3 DEF IInv, GcPlaces
<1>7. Kept BY <1>0, <1>1, KeptIf
<1> QED BY <1>1, <1>4, <1>5, <1>6, <1>7 DEF IInv

LEMMA ExeKept ==
    ASSUME IInv, NEW c \in Caller, NEW j \in Job, Exe(c, j), GcAssumption
    PROVE  IInv' /\ Kept
<1>1. late' \in BOOLEAN BY Zenon DEF Exe
<1> QED BY <1>1, InsByKept DEF Exe

LEMMA ExeLookKept ==
    ASSUME IInv, NEW c \in Caller, NEW j \in Job, ExeLook(c, j), GcAssumption
    PROVE  IInv' /\ Kept
<1>0. /\ late' \in BOOLEAN /\ MayCall(c) /\ step = "idle" /\ Absent(j)
      /\ UNCHANGED <<gc, wakeup, timer, budget_us, spent, running, app, raced>>
  BY Zenon DEF ExeLook
<1>1. CASE Here(1) /\ InsBy(c, j) /\ UNCHANGED hand
  BY <1>0, <1>1, InsByKept
<1>2. CASE /\ ~Here(1) /\ UNCHANGED queue
           /\ at' = [at EXCEPT ![c] = "store"]
           /\ hand' = [hand EXCEPT ![c] = j]
  <2>1. /\ Heap' /\ Distinct' /\ Keyed' /\ Fresh'
        /\ Held' = Held /\ step' = step /\ new' = new
    BY <1>2, QueueRests
  <2>2. /\ at \in [Caller -> {"idle", "store", "ins", "wake"}]
        /\ hand \in [Caller -> Job \cup {NoJob}]
    BY DEF IInv, RestTypes
  <2>3. /\ at' \in [Caller -> {"idle", "store", "ins", "wake"}]
        /\ hand' \in [Caller -> Job \cup {NoJob}]
        /\ at'[c] = "store" /\ hand'[c] = j
        /\ \A d \in Caller : d # c => at'[d] = at[d] /\ hand'[d] = hand[d]
    BY <1>2, <2>2
  <2>4. RestTypes' BY <1>0, <2>3 DEF IInv, RestTypes
  <2>5. Hands' BY <1>0, <2>1, <2>3 DEF IInv, Hands, Absent
  <2>6. GcPlaces' BY <1>0, <2>1, <2>3 DEF IInv, GcPlaces
  <2>7. Kept BY <1>0, <2>1, KeptIf
  <2> QED BY <2>1, <2>4, <2>5, <2>6, <2>7 DEF IInv
<1> QED BY <1>1, <1>2 DEF ExeLook

\* Only here may an entry be stored over another.
LEMMA ExeStoreKept ==
    ASSUME IInv, NEW c \in Caller, ExeStore(c), GcAssumption
    PROVE  IInv' /\ Kept
<1>0. /\ at[c] = "store" /\ gc # "ZOM" /\ step = "idle"
      /\ node' = [p \in {1} |-> Leaf(Entry(hand[c]))]
      /\ hand' = [hand EXCEPT ![c] = NoJob]
      /\ at' = [at EXCEPT ![c] = "wake"]
      /\ UNCHANGED <<step, np, new, gc, wakeup, timer, budget_us, spent, running, app,
                     late>>
  BY DEF ExeStore
<1>1. raced' \in BOOLEAN /\ (Here(1) => raced') BY Zenon DEF ExeStore
<1>2. hand[c] \in Job /\ Heap /\ np = 1 /\ new = NoEntry
  BY <1>0 DEF IInv, Hands, Heap, Working
<1>3. /\ Heap' /\ DOMAIN node' = {1} /\ Held' = {hand[c]}
      /\ node'[1] = [key |-> Priority[hand[c]], data |-> hand[c], count |-> 1]
  BY <1>0, <1>2, LoneEntry DEF GcAssumption
<1>4. Distinct' /\ Keyed' /\ Fresh' BY <1>0, <1>3 DEF Distinct, Keyed, Fresh
<1>5. /\ at \in [Caller -> {"idle", "store", "ins", "wake"}]
      /\ hand \in [Caller -> Job \cup {NoJob}]
  BY DEF IInv, RestTypes
<1>6. /\ at' \in [Caller -> {"idle", "store", "ins", "wake"}]
      /\ hand' \in [Caller -> Job \cup {NoJob}]
      /\ at'[c] = "wake" /\ hand'[c] = NoJob
      /\ \A d \in Caller : d # c => at'[d] = at[d] /\ hand'[d] = hand[d]
  BY <1>0, <1>5
<1>7. RestTypes' BY <1>0, <1>1, <1>6 DEF IInv, RestTypes
<1>8. Hands' BY <1>0, <1>3, <1>6 DEF IInv, Hands, GcAssumption
<1>9. GcPlaces' BY <1>0, <1>6 DEF IInv, GcPlaces
<1>10. Kept
  <2>1. CASE Here(1) BY <1>1, <2>1, KeptIf
  <2>2. CASE ~Here(1)
    <3>1. Held = {} BY <1>2, <2>2, EmptyHeap
    <3> QED BY <1>0, <1>2, <1>3, <3>1, KeptIf
  <2> QED BY <2>1, <2>2
<1> QED BY <1>3, <1>4, <1>7, <1>8, <1>9, <1>10 DEF IInv

LEMMA InsGoesOnKept ==
    ASSUME IInv, InsGoesOn, GcAssumption
    PROVE  IInv' /\ Kept
<1>0. /\ at' = [c \in Caller |-> IF at[c] = "ins" /\ step' = "idle" THEN "wake" ELSE at[c]]
      /\ UNCHANGED <<gc, wakeup, timer, budget_us, spent, running, hand, app, late, raced>>
  BY DEF InsGoesOn
<1>1. /\ Heap' /\ Distinct' /\ Keyed' /\ Fresh'
      /\ step \in {"down", "up"} /\ step' \in {"down", "up", "idle"}
      /\ \/ Held' = Held /\ (step' = "down" => step = "down" /\ new' = new)
         \/ /\ Held' = Held \cup {new.data} /\ step' = "up" /\ step = "down"
            /\ new.data \in Job \ Held
  <2>1. CASE Descend BY <2>1, DescendOnce DEF GcAssumption
  <2>2. CASE Climb BY <2>2, ClimbOnce
  <2> QED BY <2>1, <2>2 DEF InsGoesOn
<1>2. gc # "ZOM" BY <1>1 DEF IInv, GcPlaces
<1>3. at \in [Caller -> {"idle", "store", "ins", "wake"}] BY DEF IInv, RestTypes
<1>4. /\ at' \in [Caller -> {"idle", "store", "ins", "wake"}]
      /\ \A c \in Caller : /\ at'[c] = "store" <=> at[c] = "store"
                           /\ at'[c] = "ins" => step' \in {"down", "up"}
  BY <1>0, <1>1, <1>3
<1>5. RestTypes' BY <1>0, <1>4 DEF IInv, RestTypes
<1>6. Hands' BY <1>0, <1>1, <1>4 DEF IInv, Hands
<1>7. GcPlaces' BY <1>0, <1>1, <1>2, <1>4 DEF IInv, GcPlaces
<1>8. Kept BY <1>0, <1>1, <1>2, KeptIf
<1> QED BY <1>1, <1>5, <1>6, <1>7, <1>8 DEF IInv

LEMMA ExeWakeKept ==
    ASSUME IInv, NEW c \in Caller, ExeWake(c)
    PROVE  IInv' /\ Kept
<1>0. /\ at[c] = "wake" /\ at' = [at EXCEPT ![c] = "idle"]
      /\ UNCHANGED <<queue, budget_us, spent, running, app, hand, late, raced>>
  BY DEF ExeWake
<1>1. /\ wakeup' \in BOOLEAN /\ timer' \in BOOLEAN
      /\ gc' = gc \/ (gc = "START" /\ gc' = "RET")
  <2>1. CASE wakeup' = TRUE /\ UNCHANGED <<gc, timer>>
    BY <2>1 DEF IInv, RestTypes
  <2>2. CASE Woken /\ UNCHANGED wakeup
    BY <2>2, WokenTo DEF IInv, RestTypes
  <2> QED BY <2>1, <2>2 DEF ExeWake
<1>2. /\ Heap' /\ Distinct' /\ Keyed' /\ Fresh'
      /\ Held' = Held /\ step' = step /\ new' = new
  BY <1>0, QueueRests
<1>3. at \in [Caller -> {"idle", "store", "ins", "wake"}] BY DEF IInv, RestTypes
<1>4. /\ at' \in [Caller -> {"idle", "store", "ins", "wake"}]
      /\ at'[c] = "idle" /\ \A d \in Caller : d # c => at'[d] = at[d]
  BY <1>0, <1>3
<1>5. RestTypes' BY <1>0, <1>1, <1>4 DEF IInv, RestTypes
<1>6. Hands' BY <1>0, <1>2, <1>4 DEF IInv, Hands
<1>7. GcPlaces' BY <1>0, <1>1, <1>2, <1>4 DEF IInv, GcPlaces
<1>8. Kept BY <1>0, <1>1, <1>2, KeptIf
<1> QED BY <1>2, <1>5, <1>6, <1>7, <1>8 DEF IInv

LEMMA LoopReturnsKept ==
    ASSUME IInv, LoopReturns
    PROVE  IInv' /\ Kept
<1>0. /\ app = "loop" /\ app' = "folded"
      /\ UNCHANGED <<queue, gc, wakeup, timer, budget_us, spent, running, at, hand, raced>>
  BY DEF LoopReturns
<1>1. late' \in BOOLEAN BY Zenon DEF LoopReturns
<1>2. /\ Heap' /\ Distinct' /\ Keyed' /\ Fresh'
      /\ Held' = Held /\ step' = step /\ new' = new
  BY <1>0, QueueRests
<1>3. RestTypes' BY <1>0, <1>1 DEF IInv, RestTypes
<1>4. Hands' BY <1>0, <1>2 DEF IInv, Hands
<1>5. GcPlaces' BY <1>0, <1>2 DEF IInv, GcPlaces
<1>6. Kept BY <1>0, <1>2, KeptIf
<1> QED BY <1>2, <1>3, <1>4, <1>5, <1>6 DEF IInv

LEMMA DestroyGcKept ==
    ASSUME IInv, DestroyGc
    PROVE  IInv' /\ Kept
<1>0. UNCHANGED <<queue, wakeup, budget_us, spent, running, at, hand, late, raced>>
  BY DEF DestroyGc, callers
<1>1. \/ /\ gc = "START" /\ ~Here(1) /\ gc' = "ZOM" /\ app' = "end" /\ timer' = timer
      \/ /\ gc \in {"START", "RET"} /\ gc' \in {"START", "RET"} /\ app' = "wait"
         /\ timer' \in BOOLEAN
  BY DEF DestroyGc, ActStart, IInv, RestTypes
<1>2. /\ Heap' /\ Distinct' /\ Keyed' /\ Fresh'
      /\ Held' = Held /\ step' = step /\ new' = new
  BY <1>0, QueueRests
<1>3. running = NoJob /\ step \notin {"cut", "sink"} BY <1>1 DEF IInv, GcPlaces
<1>4. ~Here(1) => Held = {} /\ step = "idle"
  BY EmptyHeap DEF IInv, Heap, Working, HeapTypes
<1>5. RestTypes' BY <1>0, <1>1 DEF IInv, RestTypes
<1>6. Hands' BY <1>0, <1>2 DEF IInv, Hands
<1>7. GcPlaces' BY <1>0, <1>1, <1>2, <1>3, <1>4 DEF IInv, GcPlaces
<1>8. Kept BY <1>0, <1>1, <1>2, <1>3, <1>4, KeptIf
<1> QED BY <1>2, <1>5, <1>6, <1>7, <1>8 DEF IInv

-----------------------------------------------------------------------------
(* The theorems.                                                           *)

LEMMA InitKeeps ==
    ASSUME Init, GcAssumption
    PROVE  IInv /\ Promise!Init
<1>1. DOMAIN node = {} /\ step = "idle" /\ np = 1 /\ new = NoEntry
  BY DEF Init, QueueInit, Nil
<1>2. Held = {} BY <1>1 DEF Held
<1>3. HeapTypes /\ Tree /\ Ordered /\ Balanced
  BY <1>1 DEF HeapTypes, Tree, Ordered, Balanced, Place
<1>4. Working /\ OnItsWay BY <1>1 DEF Working, OnItsWay
<1>5. Distinct /\ Keyed /\ Fresh BY <1>1 DEF Distinct, Keyed, Fresh
<1>6. RestTypes
  <2>1. 0 \in 0..MaxSpent BY DEF GcAssumption
  <2>2. /\ at \in [Caller -> {"idle", "store", "ins", "wake"}]
        /\ hand \in [Caller -> Job \cup {NoJob}]
    BY DEF Init
  <2> QED BY <2>1, <2>2 DEF Init, RestTypes
<1>7. Hands BY <1>2 DEF Init, Hands
<1>8. GcPlaces BY <1>1 DEF Init, GcPlaces
<1>9. Promise!Init BY <1>2 DEF Init, Promise!Init
<1> QED BY <1>3, <1>4, <1>5, <1>6, <1>7, <1>8, <1>9 DEF IInv, Heap

LEMMA NextKeeps ==
    ASSUME IInv, [Next]_vars
    PROVE  IInv' /\ Kept
<1> USE GcAssumption
<1>1. CASE TimerFires BY <1>1, TimerFiresKept
<1>2. CASE ActExe BY <1>2, ActExeKept
<1>3. CASE DelGoesOn BY <1>3, DelGoesOnKept
<1>4. CASE Delivered BY <1>4, DeliveredKept
<1>5. CASE Rest BY <1>5, RestKept
<1>6. CASE Elapse BY <1>6, ElapseKept
<1>7. CASE InsGoesOn BY <1>7, InsGoesOnKept
<1>8. ASSUME NEW j \in Job, ExeInside(j) PROVE IInv' /\ Kept BY <1>8, ExeInsideKept
<1>9. ASSUME NEW c \in Caller, ExeStore(c) PROVE IInv' /\ Kept BY <1>9, ExeStoreKept
<1>10. ASSUME NEW c \in Caller, ExeWake(c) PROVE IInv' /\ Kept BY <1>10, ExeWakeKept
<1>11. ASSUME NEW c \in Caller, NEW j \in Job, Exe(c, j) PROVE IInv' /\ Kept
  BY <1>11, ExeKept
<1>12. ASSUME NEW c \in Caller, NEW j \in Job, ExeLook(c, j) PROVE IInv' /\ Kept
  BY <1>12, ExeLookKept
<1>13. CASE LoopReturns BY <1>13, LoopReturnsKept
<1>14. CASE DestroyGc BY <1>14, DestroyGcKept
<1>15. CASE UNCHANGED vars
  <2>1. UNCHANGED <<queue, gc, wakeup, timer, budget_us, spent, running, app, callers>>
    BY <1>15 DEF vars, queue, callers
  <2>2. /\ Heap' /\ Distinct' /\ Keyed' /\ Fresh'
        /\ Held' = Held /\ step' = step /\ new' = new
    BY <2>1, QueueRests
  <2>3. RestTypes' /\ Hands' /\ GcPlaces'
    BY <2>1, <2>2 DEF callers, IInv, RestTypes, Hands, GcPlaces
  <2>4. Kept BY <2>1, <2>2, KeptIf
  <2> QED BY <2>2, <2>3, <2>4 DEF IInv
<1> QED BY <1>1, <1>2, <1>3, <1>4, <1>5, <1>6, <1>7, <1>8, <1>9, <1>10, <1>11, <1>12,
           <1>13, <1>14, <1>15
        DEF Next

LEMMA TypesFollow ==
    ASSUME IInv
    PROVE  TypeOK
<1>1. WellFormed BY DEF IInv, Heap, WellFormed
<1>2. new \in {Entry(j) : j \in Job} \cup {NoEntry}
  BY DEF IInv, Heap, Working
<1> QED BY <1>1, <1>2 DEF TypeOK, IInv, Heap, HeapTypes, RestTypes, Place

\* Whatever the jobs, their priorities and the callers, the variables have their
\* types, and at every call of _ins() and in every turn of the loops of del() the
\* queue is a heap whose counts are right and differ by one at most between the
\* sides of a node, but where an entry is on its way
\* (stdHalfOrderQueue.cpp:23-67, 69-130).
THEOREM TypeInvariant == Spec => []TypeOK
<1>1. Init => IInv BY InitKeeps, GcAssumption
<1>2. IInv /\ [Next]_vars => IInv' BY NextKeeps
<1>3. IInv => TypeOK BY TypesFollow
<1> QED BY <1>1, <1>2, <1>3, PTL DEF Spec

\* tsGC is a queue that loses no job, delivers one at a time and the least key
\* first, and closes when it is empty (tsGC.cpp:167-200; docs/COOKBOOK.md:662),
\* but for a step in which two callers without the application mutex collide on
\* the empty queue, and what follows it.
THEOREM QueueKept == Spec => ImplementsJobQueue
<1>1. Init => IInv /\ Promise!Init BY InitKeeps, GcAssumption
<1>2. IInv /\ [Next]_vars => IInv' /\ [Promise!Next \/ raced']_<<Held, running, gc # "ZOM">>
  BY NextKeeps DEF Kept
<1> QED BY <1>1, <1>2, PTL DEF Spec, ImplementsJobQueue

\* When every caller holds the application mutex, none is left with an empty
\* queue in its mind.
Orderly == ~raced /\ \A c \in Caller : at[c] # "store"

LEMMA OrderlyKept ==
    ASSUME Locked = Caller, IInv, Orderly, [Next]_vars
    PROVE  Orderly'
<1>0. at \in [Caller -> {"idle", "store", "ins", "wake"}] BY DEF IInv, RestTypes
<1>1. CASE UNCHANGED <<at, raced>>
  BY <1>1 DEF Orderly
<1>2. ASSUME NEW c \in Caller, NEW j \in Job, Exe(c, j) PROVE Orderly'
  <2>1. /\ at' = [at EXCEPT ![c] = IF step' = "idle" THEN "wake" ELSE "ins"]
        /\ raced' = raced
    BY <1>2 DEF Exe, InsBy
  <2> QED BY <1>0, <2>1 DEF Orderly
<1>3. ASSUME NEW c \in Caller, ExeWake(c) PROVE Orderly'
  <2>1. at' = [at EXCEPT ![c] = "idle"] /\ raced' = raced BY <1>3 DEF ExeWake
  <2> QED BY <1>0, <2>1 DEF Orderly
<1>4. CASE InsGoesOn
  <2>1. /\ at' = [c \in Caller |->
                    IF at[c] = "ins" /\ step' = "idle" THEN "wake" ELSE at[c]]
        /\ raced' = raced
    BY <1>4 DEF InsGoesOn
  <2> QED BY <2>1 DEF Orderly
<1>5. ASSUME NEW c \in Caller PROVE ~ExeStore(c) BY DEF ExeStore, Orderly
<1>6. ASSUME NEW c \in Caller, NEW j \in Job PROVE ~ExeLook(c, j) BY DEF ExeLook
<1>7. TimerFires \/ ActExe \/ DelGoesOn \/ Delivered \/ Rest \/ Elapse \/ DestroyGc
         => UNCHANGED <<at, raced>>
  BY DEF TimerFires, ActExe, DelGoesOn, Delivered, Rest, Elapse, DestroyGc, callers
<1>8. \A j \in Job : ExeInside(j) => UNCHANGED <<at, raced>> BY DEF ExeInside, callers
<1>9. LoopReturns => UNCHANGED <<at, raced>> BY DEF LoopReturns
<1>10. UNCHANGED vars => UNCHANGED <<at, raced>> BY DEF vars
<1> QED BY <1>1, <1>2, <1>3, <1>4, <1>5, <1>6, <1>7, <1>8, <1>9, <1>10 DEF Next

\* If every thread that calls exe() holds the application mutex, as every state
\* function does, nothing is left of the exception: tsGC is the queue of jobs.
THEOREM LockedCallersLoseNothing ==
    ASSUME Locked = Caller
    PROVE  Spec => Promise!Spec
<1>1. Init => IInv /\ Orderly /\ Promise!Init
  <2>1. ASSUME Init PROVE Orderly BY <2>1 DEF Init, Orderly
  <2> QED BY <2>1, InitKeeps, GcAssumption
<1>2. IInv /\ Orderly /\ [Next]_vars
         => IInv' /\ Orderly' /\ [Promise!Next]_<<Held, running, gc # "ZOM">>
  <2>1. ASSUME IInv, Orderly, [Next]_vars
        PROVE  IInv' /\ Orderly' /\ [Promise!Next]_<<Held, running, gc # "ZOM">>
    <3>1. IInv' /\ Kept /\ Orderly' BY <2>1, NextKeeps, OrderlyKept
    <3> QED BY <3>1 DEF Kept, Orderly
  <2> QED BY <2>1
<1>3. Spec => Promise!Init /\ [][Promise!Next]_<<Held, running, gc # "ZOM">>
  BY <1>1, <1>2, PTL DEF Spec
<1> QED BY <1>3 DEF Promise!Spec, Promise!vars
=============================================================================
