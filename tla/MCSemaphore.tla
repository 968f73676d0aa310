---------------------------- MODULE MCSemaphore ----------------------------
(* Instances of Semaphore for TLC: two clients of one priority and an urgent *)
(* one.                                                                      *)
EXTENDS Semaphore

CONSTANTS x, y, z

Priorities == [c \in Client |-> IF c = z THEN 0 ELSE 1]
=============================================================================
