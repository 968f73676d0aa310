----------------------------- MODULE ThreadKill -----------------------------
(***************************************************************************)
(* How a blocking call of a TS_THREAD function is interrupted: destroy()   *)
(* of a ts2IOraw sends SIGPIPE to the worker that runs it, stdThreadInfo   *)
(* remembers that, and a co_tsThreadKill, here a poller, sends it again    *)
(* every 10 ms, for a signal that comes just before the call is lost.      *)
(*                                                                         *)
(* One object and the worker that has taken it.  A stdThreadInfo belongs to *)
(* a job of the pool: each dispatch has a new one.  THR_CATCH, which waits *)
(* for a wakeup and not for a signal, is not modelled.                     *)
(***************************************************************************)
EXTENDS Naturals, FiniteSets

CONSTANTS
    Killer,     \* threads that destroy the object
    Bare,       \* those of them that do it from a TS_THREAD function
    Poller      \* bound: co_tsThreadKills that live at the same time

ASSUME ThreadKillAssumption ==
    /\ IsFiniteSet(Killer) /\ IsFiniteSet(Poller) /\ Killer \cap Poller = {}
    /\ Bare \subseteq Killer /\ "none" \notin Killer \cup Poller

VARIABLES
    stage,      \* of the worker, see KillTypeOK
    kf,         \* stdThreadInfo::state
    pol,        \* stdThreadInfo::pol, or Nobody
    lm,         \* who holds the object's lm to kill: a killer, a poller or Nobody
    app,        \* who of them holds the application mutex
    at,         \* of killers and pollers, see KillTypeOK
    threw,      \* a function of this dispatch left by an exception
    fin         \* the object's state is C_FIN or C_ZOM

killVars == <<stage, kf, pol, lm, app, at, threw, fin>>

Nobody == "none"
Agent == Killer \cup Poller
Alive == {p \in Poller : at[p] # "none"}
Creating == {a \in Agent : at[a] = "create"}
Active == {"look", "kill", "create"}

\* The worker has the object, and thrInfo is set.
Attached == stage \notin {"queued", "elsewhere"}
InSection == stage \in {"call", "blocked", "leave"}

KillInit ==
    /\ stage = "queued" /\ kf = "IDLE" /\ pol = Nobody /\ lm = Nobody /\ app = Nobody
    /\ at = [a \in Agent |-> IF a \in Killer THEN "idle" ELSE "none"]
    /\ threw = FALSE /\ fin = FALSE

-----------------------------------------------------------------------------
(* The worker.  It holds lm from entering the object or coming back from a *)
(* function until it has chosen the next one; that is one action here.     *)

\* setId() and eventHandler(TSE_THREAD), up to the first TS_THREAD function.
Enter ==
    /\ stage = "queued" /\ lm = Nobody
    /\ stage' = "starting"
    /\ UNCHANGED <<kf, pol, lm, app, at, threw, fin>>

\* stdThreadInfo::start().  A panic ends the program; nothing more is said of it.
Start ==
    /\ stage = "starting"
    /\ IF kf \in {"IDLE", "THR"}
       THEN stage' = "fn" /\ kf' = "THR"
       ELSE stage' = "panic" /\ UNCHANGED kf
    /\ UNCHANGED <<pol, lm, app, at, threw, fin>>

\* THR_CATCH_KILL, kill_begin(): with a request pending the call is not made.
\* Bound: a poller is left for the section.
KillBegin ==
    /\ stage = "fn"
    /\ Cardinality(Alive) + Cardinality(Creating) < Cardinality(Poller)
    /\ IF kf = "THR" THEN stage' = "call" /\ kf' = "THR_CATCH"
                     ELSE stage' = "leave" /\ kf' = "THR_CATCH_REQUEST"
    /\ UNCHANGED <<pol, lm, app, at, threw, fin>>

\* The system call returns at once, or blocks; and returns when it is done.
Call ==
    /\ stage = "call" /\ stage' \in {"blocked", "leave"}
    /\ UNCHANGED <<kf, pol, lm, app, at, threw, fin>>
CallDone ==
    /\ stage = "blocked" /\ stage' = "leave"
    /\ UNCHANGED <<kf, pol, lm, app, at, threw, fin>>

\* kill_finish(), under m
KillFinish ==
    /\ stage = "leave" /\ stage' = "unpoll"
    /\ kf' = IF kf = "THR_CATCH" THEN "THR" ELSE "THR_REQUEST"
    /\ UNCHANGED <<pol, lm, app, at, threw, fin>>

\* kill_finish(), without m.  destroy() lets the poller run its ACT_WAIT once, on
\* this thread: it kills once more, which only leaves a request.  The poller goes on.
Unpoll ==
    /\ stage = "unpoll" /\ stage' = "fn"
    /\ pol' = Nobody
    /\ IF pol # Nobody /\ at[pol] = "wait" /\ ~fin
       THEN app = Nobody /\ lm = Nobody /\ kf' = "THR_REQUEST"
       ELSE UNCHANGED kf
    /\ at' = IF pol # Nobody /\ at[pol] = "wait" /\ fin
             THEN [at EXCEPT ![pol] = "none"] ELSE at
    /\ UNCHANGED <<lm, app, threw, fin>>

\* The function returns to finish(), or throws and it is skipped.
FnReturns ==
    /\ stage = "fn" /\ stage' = "returned"
    /\ kf' = "IDLE"
    /\ UNCHANGED <<pol, lm, app, at, threw, fin>>
FnThrows ==
    /\ stage = "fn" /\ stage' = "returned"
    /\ threw' = TRUE
    /\ UNCHANGED <<kf, pol, lm, app, at, fin>>

\* The state returned is taken over.  The next function is called, or thrInfo is set
\* to null and the worker turns to another job.
Proceed ==
    /\ stage = "returned" /\ lm = Nobody
    /\ fin' \in {fin, TRUE}
    /\ stage' \in {"starting", "elsewhere"}
    /\ UNCHANGED <<kf, pol, lm, app, at, threw>>

\* The object asks for a worker again, with a new stdThreadInfo.
Requeue ==
    /\ stage = "elsewhere" /\ stage' = "queued"
    /\ kf' = "IDLE" /\ pol' = Nobody /\ threw' = FALSE
    /\ UNCHANGED <<lm, app, at, fin>>

-----------------------------------------------------------------------------
(* Killers and pollers.                                                    *)

Goes(a, label) == at' = [at EXCEPT ![a] = label]
Rests(a) ==
    /\ Goes(a, IF a \in Killer THEN "idle" ELSE "wait")
    /\ lm' = Nobody
    /\ app' = IF app = a THEN Nobody ELSE app

\* ts2IOraw::destroy() ends in a THR_KILL, on an object destroyed before too.  A
\* state function that calls it holds the application mutex.
Destroy(k) ==
    /\ at[k] = "idle" /\ Goes(k, "look")
    /\ IF k \in Bare THEN UNCHANGED app ELSE app = Nobody /\ app' = k
    /\ UNCHANGED <<stage, kf, pol, lm, threw, fin>>

\* Faulty variant: the poller does not look at the state of its object.
PollAlways(p) ==
    /\ at[p] = "wait" /\ \A q \in Poller : at[q] \notin Active
    /\ app = Nobody /\ app' = p /\ Goes(p, "look")
    /\ UNCHANGED <<stage, kf, pol, lm, threw, fin>>

\* ACT_WAIT of the poller, a TS_STATE, every 10 ms in the reactor's thread.
Poll(p) ==
    /\ at[p] = "wait" /\ \A q \in Poller : at[q] \notin Active
    /\ app = Nobody
    /\ IF fin THEN Goes(p, "none") /\ UNCHANGED app
              ELSE Goes(p, "look") /\ app' = p
    /\ UNCHANGED <<stage, kf, pol, lm, threw, fin>>

\* Faulty variant: lm is not held for kill().
ThrKillUnlocked(a) ==
    /\ at[a] = "look" /\ lm = Nobody
    /\ IF Attached THEN Goes(a, "kill") /\ UNCHANGED <<lm, app>> ELSE Rests(a)
    /\ UNCHANGED <<stage, kf, pol, threw, fin>>

\* tinyState::thrKill(): lm is held until kill() returns.
ThrKill(a) ==
    /\ at[a] = "look" /\ lm = Nobody
    /\ IF Attached THEN Goes(a, "kill") /\ lm' = a /\ UNCHANGED app ELSE Rests(a)
    /\ UNCHANGED <<stage, kf, pol, threw, fin>>

Requested == CASE kf = "THR"       -> "THR_REQUEST"
               [] kf = "THR_CATCH" -> "THR_CATCH_REQUEST"
               [] OTHER            -> kf

\* Faulty variant: the signal is sent once.
KillOnce(a) ==
    /\ at[a] = "kill"
    /\ stage' = IF stage = "blocked" THEN "leave" ELSE stage
    /\ kf' = Requested
    /\ Rests(a)
    /\ UNCHANGED <<pol, threw, fin>>

\* stdThreadInfo::kill(), under m: pthread_kill() ends a call that blocks and is lost
\* on everything else.
Kill(a) ==
    /\ at[a] = "kill"
    /\ stage' = IF stage = "blocked" THEN "leave" ELSE stage
    /\ kf' = Requested
    /\ IF kf = "THR_CATCH" THEN Goes(a, "create") /\ UNCHANGED <<lm, app>>
                           ELSE Rests(a)
    /\ UNCHANGED <<pol, threw, fin>>

\* kill(), when m has been released: pol = thNEW(co_tsThreadKill).  By now the
\* section may be over and kill_finish() have found no pol.  INI_START of the poller
\* is a TS_STATE and is run here, with lm held.
CreatePoller(a) ==
    /\ at[a] = "create" /\ app \in {a, Nobody}
    /\ \E p \in Poller :
          /\ at[p] = "none"
          /\ pol' = p
          /\ at' = [at EXCEPT ![p] = "wait",
                             ![a] = IF a \in Killer THEN "idle" ELSE "wait"]
    /\ lm' = Nobody /\ app' = Nobody
    /\ UNCHANGED <<stage, kf, threw, fin>>

WorkerGoes ==
    \/ Enter \/ Start \/ KillBegin \/ Call \/ CallDone \/ KillFinish \/ Unpoll
    \/ FnReturns \/ FnThrows \/ Proceed \/ Requeue
AgentStep(a) == ThrKill(a) \/ Kill(a) \/ CreatePoller(a)

KillNext ==
    \/ WorkerGoes
    \/ \E k \in Killer : Destroy(k)
    \/ \E p \in Poller : Poll(p)
    \/ \E a \in Agent : AgentStep(a)

KillSpec == KillInit /\ [][KillNext]_killVars

\* Threads run, timers expire one after the other, and who waits for lm gets it.
\* A call that blocks need not return, a function need not end, and nobody has to
\* destroy anything.
KillFairness ==
    /\ WF_killVars(Call) /\ WF_killVars(KillFinish)
    /\ \A a \in Agent : SF_killVars(AgentStep(a))
    /\ \A p \in Poller : SF_killVars(Poll(p))
KillFairSpec == KillSpec /\ KillFairness

-----------------------------------------------------------------------------
(* Properties.                                                             *)

\* A state of stdThreadInfo that ends a section, or a function that did not throw,
\* and start()'s panic, fit where the worker is (tsThread.cpp:236-309).
KillTypeOK ==
    /\ stage \in {"queued", "starting", "fn", "call", "blocked", "leave", "unpoll",
               "returned", "elsewhere", "panic"}
    /\ kf \in {"IDLE", "THR", "THR_REQUEST", "THR_CATCH", "THR_CATCH_REQUEST"}
    /\ pol \in Poller \cup {Nobody}
    /\ lm \in Agent \cup {Nobody} /\ app \in Agent \cup {Nobody}
    /\ \A a \in Agent :
          at[a] \in Active \cup IF a \in Killer THEN {"idle"} ELSE {"none", "wait"}
    /\ threw \in BOOLEAN /\ fin \in BOOLEAN
    /\ InSection <=> kf \in {"THR_CATCH", "THR_CATCH_REQUEST"}
    /\ stage \in {"fn", "unpoll"} => kf \in {"THR", "THR_REQUEST"}
    /\ stage \in {"starting", "returned", "panic"} /\ kf # "IDLE" => threw

\* Nobody signals a worker that has turned to another job, nor leaves a poller with
\* its stdThreadInfo: until kill() is over the worker cannot give the object up
\* (tinyState.cpp:753-757, 1031-1036, tsThread.cpp:317-341).
HandsOff ==
    \A a \in Agent : at[a] \in {"kill", "create"} => Attached /\ lm = a

\* A killer that holds lm wants the application mutex for the poller it creates, and
\* who holds that one wants lm.
Crossed ==
    \E a \in Bare, b \in Agent :
        at[a] = "create" /\ lm = a /\ at[b] = "look" /\ app = b

\* A kill that found a function at work is not lost, whether the signal came before
\* the call or in it: the call is interrupted, except in a C_FIN state, where the
\* pollers give up (tsThread.cpp:265-341, co_tsThreadKill.cpp:73-75), and when two
\* cross.  A kill that comes when no worker has the object yet, before start() or
\* after finish() is not recorded, and a call that is made later blocks.
Interrupted ==
    kf = "THR_CATCH_REQUEST" /\ ~fin ~> (kf # "THR_CATCH_REQUEST" \/ Crossed)

\* No poller outlives its object, though destroy() does not end one and it may have
\* been created after the section, or by another poller (co_tsThreadKill.cpp:70-79).
PollersEnd ==
    \A p \in Poller : fin /\ at[p] # "none" ~> (at[p] = "none" \/ Crossed)
=============================================================================
