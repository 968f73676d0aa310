------------------------------- MODULE STimer -------------------------------
(***************************************************************************)
(* sTimer, the timer a tinyState keeps as a member, and its registrations  *)
(* with the reactor.  Times are counted from now: 0 is "has passed".       *)
(* A registration stays in fwIO until it is delivered or detached; the     *)
(* timer itself only remembers when the last one it made falls due.        *)
(***************************************************************************)
EXTENDS Integers, FiniteSets

\* setup and expire as in sTimer (setup_time, expire); stop is stop_flag; regs
\* are the due times of the owner's entries in fwIO::interval_objs.
Timer(Time) == [setup : Time, expire : Time, stop : BOOLEAN, regs : SUBSET Time]

\* sTimer(): setup_time = -1.
NewTimer == [setup |-> 0, expire |-> 0, stop |-> FALSE, regs |-> {}]

\* start(me, length): nothing is registered when an earlier due time is thought
\* to be registered; is_expire() will then register the rest.
Started(tm, length) ==
    IF tm.setup = 0 \/ length < tm.setup
    THEN [setup |-> length, expire |-> length, stop |-> FALSE,
          regs |-> tm.regs \cup {length}]
    ELSE [tm EXCEPT !.expire = length, !.stop = FALSE]

\* stop(me): the owner's registrations are detached, setup_time stays.  Nobody looks
\* at expire before the next start().
Stopped(tm) == [tm EXCEPT !.stop = TRUE, !.regs = {}, !.expire = 0]

\* What is_expire(me) answers, and the timer it leaves.
Expired(tm) == ~tm.stop /\ tm.expire = 0
Asked(tm) ==
    IF ~tm.stop /\ tm.expire > 0 /\ tm.setup = 0
    THEN [tm EXCEPT !.setup = tm.expire, !.regs = @ \cup {tm.expire}]
    ELSE tm

\* Time passes: a unit for all of them.  A delivery may be late.
Sooner(t) == IF t = 0 THEN 0 ELSE t - 1
Passed(tm) == [tm EXCEPT !.setup = Sooner(@), !.expire = Sooner(@),
                         !.regs = {Sooner(t) : t \in @}]
Runs(tm) == tm.setup > 0 \/ tm.expire > 0 \/ \E t \in tm.regs : t > 0

\* loop() delivers what is due and drops the registration.
IsDue(tm) == 0 \in tm.regs
Delivered(tm) == [tm EXCEPT !.regs = @ \ {0}]
=============================================================================
