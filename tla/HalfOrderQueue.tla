--------------------------- MODULE HalfOrderQueue ---------------------------
(***************************************************************************)
(* stdHalfOrderQueue: a binary heap of nodes that count the entries below  *)
(* them.  ins() goes down the side that holds fewer and lets a lesser key  *)
(* rise on the way back; del() takes the top, puts an entry from the       *)
(* fuller side into its place and lets it sink.                            *)
(*                                                                         *)
(* An action is a call of _ins() up to the next one, the rest of it when   *)
(* that one has returned, or a turn of one of the loops of del().  A node  *)
(* is named by its place: 1 is top, and n[0] and n[1] of the node at p are *)
(* at 2 * p and 2 * p + 1.                                                 *)
(***************************************************************************)
EXTENDS Integers

VARIABLES
    node,       \* the nodes, by their places
    step,       \* "idle"; in _ins() "down" or "up"; in del() "cut" or "sink"
    np,         \* the place _ins() or the loop of del() is at
    new         \* the entry that _ins() carries down

queue == <<node, step, np, new>>

Left(p) == 2 * p
Right(p) == 2 * p + 1
Parent(p) == p \div 2

\* No node; no entry.
Nil == [p \in {} |-> 0]
NoEntry == <<>>

Leaf(e) == [key |-> e.key, data |-> e.data, count |-> 1]

Here(p) == p \in DOMAIN node

\* count(), for the node at p.
Count(p) == IF Here(p) THEN node[p].count ELSE 0

\* The entries at p and q change places.
Swapped(p, q) ==
    [node EXCEPT ![p].key = node[q].key, ![p].data = node[q].data,
                 ![q].key = node[p].key, ![q].data = node[p].data]

QueueInit == node = Nil /\ step = "idle" /\ np = 1 /\ new = NoEntry

-----------------------------------------------------------------------------
(* ins                                                                     *)

\* What ins() does before the first _ins().
Ins(e) ==
    /\ step = "idle"
    /\ \/ /\ ~Here(1)
          /\ node' = [p \in {1} |-> Leaf(e)]
          /\ UNCHANGED <<step, np, new>>
       \/ /\ Here(1)
          /\ step' = "down" /\ np' = 1 /\ new' = e
          /\ UNCHANGED node

\* Faulty variant: the fuller side, once both have an entry.
FullerSide(p) == IF ~Here(Left(p)) \/ (Here(Right(p)) /\ Count(Left(p)) >= Count(Right(p)))
                 THEN Left(p) ELSE Right(p)

\* Where the new entry goes: the left side first, then the one with fewer.
FreeSide(p) == IF ~Here(Left(p)) \/ (Here(Right(p)) /\ Count(Left(p)) <= Count(Right(p)))
               THEN Left(p) ELSE Right(p)

\* _ins() counts the entry, and makes a node for it or calls itself.
Descend ==
    LET q == FreeSide(np)
        counted == [node EXCEPT ![np].count = @ + 1]
    IN  /\ step = "down"
        /\ \/ /\ Here(q)
              /\ node' = counted /\ np' = q
              /\ UNCHANGED <<step, new>>
           \/ /\ ~Here(q)
              /\ node' = [p \in DOMAIN node \cup {q} |->
                             IF p = q THEN Leaf(new) ELSE counted[p]]
              /\ step' = "up" /\ new' = NoEntry
              /\ UNCHANGED np

\* Which side's key may rise.
RisingSide(p) ==
    IF \/ ~Here(Right(p))
       \/ /\ node[Left(p)].key < node[p].key
          /\ node[Left(p)].key < node[Right(p)].key
    THEN Left(p) ELSE Right(p)

\* It rises if it is less than the node's, and _ins() returns.
Climb ==
    LET q == RisingSide(np)
    IN  /\ step = "up"
        /\ node' = IF node[np].key <= node[q].key THEN node ELSE Swapped(np, q)
        /\ step' = IF np = 1 THEN "idle" ELSE "up"
        /\ np' = IF np = 1 THEN 1 ELSE Parent(np)
        /\ UNCHANGED new

-----------------------------------------------------------------------------
(* del                                                                     *)

\* What del() does before its loops, if there is a top.
Del ==
    /\ step = "idle" /\ Here(1)
    /\ \/ /\ ~Here(Left(1))
          /\ node' = Nil
          /\ UNCHANGED <<step, np, new>>
       \/ /\ Here(Left(1))
          /\ step' = "cut" /\ np' = 1
          /\ UNCHANGED <<node, new>>

\* The side on which del() looks for the leaf that replaces the top.
FullSide(p) == IF ~Here(Right(p)) \/ Count(Left(p)) >= Count(Right(p))
               THEN Left(p) ELSE Right(p)

\* The leaf's entry goes to the top, the leaf is taken off, and what is on the
\* right moves to the left: by the counts, that is a leaf too.
CutLeaf(p) ==
    LET right == Right(Parent(p))
        gone == IF Here(right) THEN right ELSE p
    IN  [q \in DOMAIN node \ {gone} |->
            CASE q = 1 -> [node[p] EXCEPT !.count = node[1].count]
              [] q # 1 /\ q = p -> node[gone]
              [] OTHER -> node[q]]

\* A turn of the first loop.
Cut ==
    /\ step = "cut"
    /\ \/ /\ Here(Left(np))
          /\ node' = [node EXCEPT ![np].count = @ - 1]
          /\ np' = FullSide(np)
          /\ UNCHANGED step
       \/ /\ ~Here(Left(np))
          /\ node' = CutLeaf(np)
          /\ step' = "sink" /\ np' = 1
    /\ UNCHANGED new

\* Faulty variant: the right side is not looked at.
SettledLeft(p) == Here(Left(p)) => node[p].key <= node[Left(p)].key

\* No key below is less.
Settled(p) ==
    /\ Here(Left(p)) => node[p].key <= node[Left(p)].key
    /\ Here(Right(p)) => node[p].key <= node[Right(p)].key

SinkingSide(p) ==
    IF \/ ~Here(Right(p))
       \/ /\ node[Left(p)].key <= node[p].key
          /\ node[Left(p)].key <= node[Right(p)].key
    THEN Left(p) ELSE Right(p)

\* A turn of the second loop.
Sink ==
    /\ step = "sink"
    /\ \/ /\ Settled(np)
          /\ step' = "idle" /\ np' = 1
          /\ UNCHANGED node
       \/ /\ ~Settled(np)
          /\ node' = Swapped(np, SinkingSide(np))
          /\ np' = SinkingSide(np)
          /\ UNCHANGED step
    /\ UNCHANGED new

-----------------------------------------------------------------------------
(* What the heap is to be.                                                 *)

\* The data in the heap.
Held == {node[p].data : p \in DOMAIN node}

\* The node whose count is not yet, or no longer, what its parent's says.
Ahead(p) == Count(p) + (IF p # np THEN 0 ELSE
                        CASE step = "down" -> 1 [] step = "cut" -> -1 [] OTHER -> 0)

\* A node with a right side has a left one, and all but the top have a parent.
Tree ==
    \A p \in DOMAIN node :
        /\ p = 1 \/ Here(Parent(p))
        /\ Here(Right(p)) => Here(Left(p))

\* No key is less than its parent's, but where an entry is on its way.
Ordered ==
    \A p \in DOMAIN node \ {1} :
        \/ step \in {"up", "sink"} /\ Parent(p) = np
        \/ node[Parent(p)].key <= node[p].key

\* The counts are right, and differ by one at most, so that _ins() recurses to a
\* depth logarithmic in the length of the queue.
Balanced ==
    \A p \in DOMAIN node :
        /\ node[p].count = 1 + Ahead(Left(p)) + Ahead(Right(p))
        /\ Ahead(Left(p)) - Ahead(Right(p)) \in -1..1

WellFormed == Tree /\ Ordered /\ Balanced
=============================================================================
