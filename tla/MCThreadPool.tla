---------------------------- MODULE MCThreadPool ----------------------------
(* An instance of ThreadPool for TLC: one worker is kept when idle, a second *)
(* is made when a job waits.                                               *)
EXTENDS ThreadPool

CONSTANTS o1, o2, w1, w2
=============================================================================
