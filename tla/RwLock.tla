------------------------------- MODULE RwLock -------------------------------
(***************************************************************************)
(* What a reader-writer lock promises, with no queue and no wake-ups: many *)
(* readers or one writer.                                                  *)
(***************************************************************************)
EXTENDS Naturals

CONSTANT Client

VARIABLES readers, writers

vars == <<readers, writers>>

Init == readers = {} /\ writers = {}

Read(c) == /\ writers = {}
           /\ readers' = readers \cup {c}
           /\ UNCHANGED writers

Write(c) == /\ writers = {} /\ readers = {}
            /\ writers' = {c}
            /\ UNCHANGED readers

Release(c) == /\ c \in readers \cup writers
              /\ readers' = readers \ {c}
              /\ writers' = writers \ {c}

Next == \E c \in Client : Read(c) \/ Write(c) \/ Release(c)

Spec == Init /\ [][Next]_vars
=============================================================================
