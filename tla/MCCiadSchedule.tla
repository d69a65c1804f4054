---------------------------- MODULE MCCiadSchedule ----------------------------
(***************************************************************************)
(* CiadLimiter with the code's INITIAL_LIMIT, MIN_LIMIT and BACKOFF_RATIO. *)
(* That many tasks cannot be interleaved freely, so they follow a          *)
(* schedule, and every behavior of ScheduledSpec is one of Spec. Tasks are *)
(* 1 .. INITIAL_LIMIT and each runs once: all acquire in turn; then all    *)
(* but the last six meet an overload, one after the other, which brings    *)
(* the limit down to MIN_LIMIT while six requests are still in flight;     *)
(* then four of these end, freely interleaved.                             *)
(***************************************************************************)
EXTENDS CiadLimiter

Last       == InitialLimit
Overloaded == 1 .. Last - 6
Racing     == Last - 5 .. Last - 2

AllAcquired == pc[Last] = "holding"

Acquire(t) ==
    /\ ~AllAcquired
    /\ \A u \in 1 .. t - 1 : pc[u] = "holding"
    /\ acquire_now(t) \/ enter(t)

Unanswered(t) == pc[t] = "holding" /\ mode[t] = "Ignore"

Finish(t, outcomes) ==
    \/ Unanswered(t) /\ \E outcome \in outcomes : on_response(t, outcome)
    \/ ~Unanswered(t) /\ Running(t)

ScheduledNext ==
    \/ \E t \in Tasks : Acquire(t)
    \/ \E t \in Overloaded :
          /\ AllAcquired
          /\ \A u \in 1 .. t - 1 : pc[u] = "idle"
          /\ Finish(t, {"5xx"})
    \/ \E t \in Racing :
          /\ \A u \in Overloaded : AllAcquired /\ pc[u] = "idle"
          /\ Finish(t, {"ok", "5xx"})

ScheduledSpec == Init /\ [][ScheduledNext]_vars
=============================================================================
