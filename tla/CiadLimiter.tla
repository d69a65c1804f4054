----------------------------- MODULE CiadLimiter -----------------------------
(***************************************************************************)
(* service/node/limiter/ciad.rs: a concurrency limiter that raises its     *)
(* limit cautiously on success and lowers it aggressively on overload. It  *)
(* stands on the semaphore of deficit_semaphore.rs, by way of the abstract *)
(* FairSemaphore that DeficitSemaphore implements.                         *)
(*                                                                         *)
(* The limit, the in-flight count and the semaphore are three objects, and *)
(* each atomic operation or locked section on one of them is a step: other *)
(* threads run between any two.                                            *)
(*                                                                         *)
(* The f64 limit is a fixed-point number, an integer count of 1/Scale; the *)
(* increment 1/limit is rounded down to that grid, and Scale >= MaxLimit   *)
(* keeps it positive. Everything the code does with the limit (compare,    *)
(* floor, `as usize`) is then integer arithmetic.                          *)
(***************************************************************************)
EXTENDS FairSemaphore, FiniteSetsExt

CONSTANTS
    Behavior,   \* "host" or "endpoint": the limiter's type parameter
    MinLimit, MaxLimit,        \* MIN_LIMIT, MAX_LIMIT
    BackoffNum, BackoffDen,    \* BACKOFF_RATIO = BackoffNum / BackoffDen
    Scale                      \* the limit's unit is 1/Scale

InitialLimit == InitialPermits

ASSUME CiadAssumption ==
    /\ IsFiniteSet(Tasks)
    /\ Behavior \in {"host", "endpoint"}
    /\ MinLimit \in Nat /\ MaxLimit \in Nat /\ Scale \in Nat
    /\ BackoffNum \in Nat /\ BackoffDen \in Nat
    /\ 0 < MinLimit /\ MinLimit <= InitialLimit /\ InitialLimit <= MaxLimit
    /\ MaxLimit <= Scale /\ MaxLimit <= MaxPermits
    /\ BackoffNum < BackoffDen

VARIABLES
    limit,      \* CiadConcurrencyLimiter.limit, in units of 1/Scale
    in_flight,  \* CiadConcurrencyLimiter.in_flight
    pc,         \* where each task is in acquire or in the drop of its Permit
    in_flight_snapshot, mode,  \* fields of each task's Permit
    old_limit,  \* update_limit's local, while it runs
    delta,      \* the change of permits that follows a successful exchange
    lost        \* history: permits whose removal panicked

taskVars == <<pc, in_flight_snapshot, mode, old_limit, delta>>
vars == <<limit, in_flight, taskVars, lost, semaphoreVars>>

(* idle      no Acquire, no Permit                                         *)
(* queued    awaiting the semaphore                                        *)
(* granted   the semaphore's permit is in hand, in_flight not yet raised   *)
(* holding   the Permit exists                                             *)
(* loading, exchanging, adjusting   inside update_limit                    *)
(* releasing only the semaphore's permit is left to drop                   *)
Stages == {"idle", "queued", "granted", "holding",
           "loading", "exchanging", "adjusting", "releasing"}
Modes == {"Ignore", "Success", "Dropped"}

(* The results a request may end with, as far as the behaviors tell them   *)
(* apart. "5xx" is any other server error, "ok" any other status.          *)
Outcomes == {"ok", "429", "500", "5xx", "RawClientError", "other error"}

TypeOK ==
    /\ SemTypeOK
    /\ limit \in MinLimit * Scale .. MaxLimit * Scale
    /\ in_flight \in Nat
    /\ pc \in [Tasks -> Stages]
    /\ in_flight_snapshot \in [Tasks -> Nat]
    /\ mode \in [Tasks -> Modes]
    /\ old_limit \in [Tasks -> {0} \cup (MinLimit * Scale .. MaxLimit * Scale)]
    /\ delta \in [Tasks -> -MaxLimit .. MaxLimit]
    /\ lost \in Nat

Init ==
    /\ SemInit
    /\ limit = InitialLimit * Scale
    /\ in_flight = 0
    /\ pc = [t \in Tasks |-> "idle"]
    /\ in_flight_snapshot = [t \in Tasks |-> 0]
    /\ mode = [t \in Tasks |-> "Ignore"]
    /\ old_limit = [t \in Tasks |-> 0]
    /\ delta = [t \in Tasks |-> 0]
    /\ lost = 0

-----------------------------------------------------------------------------
(* `limit as usize` *)
Whole(l) == l \div Scale

(* `(limit * BACKOFF_RATIO) as usize`, and its floor *)
BackedOff(l) == (l * BackoffNum) \div (BackoffDen * Scale)

(* The closures Permit::drop hands to update_limit: whether they return    *)
(* Some, and what. A success raises the limit only if the request saw the  *)
(* limiter nearly full.                                                    *)
Changes(t, l) ==
    \/ mode[t] = "Dropped"
    \/ mode[t] = "Success" /\ in_flight_snapshot[t] >= BackedOff(l)

NewLimit(t, l) ==
    IF mode[t] = "Success"
    THEN Min({MaxLimit * Scale, l + (Scale * Scale) \div l})
    ELSE Max({MinLimit * Scale, BackedOff(l) * Scale})

(* Behavior::on_success and on_failure of HostLevel and EndpointLevel *)
ModeOf(outcome) ==
    CASE outcome = "ok" -> "Success"
      [] outcome \in {"429", "500"} -> IF Behavior = "host" THEN "Ignore" ELSE "Dropped"
      [] outcome \in {"5xx", "RawClientError"} -> IF Behavior = "host" THEN "Dropped" ELSE "Ignore"
      [] outcome = "other error" -> "Ignore"

Goto(t, stage) == pc' = [pc EXCEPT ![t] = stage]

(* The Permit's fields are read no more, and are cleared in the model. *)
Forget(t) ==
    /\ mode' = [mode EXCEPT ![t] = "Ignore"]
    /\ in_flight_snapshot' = [in_flight_snapshot EXCEPT ![t] = 0]

-----------------------------------------------------------------------------
(* acquire: the await of the semaphore's permit... *)
acquire_now(t) ==
    /\ pc[t] = "idle" /\ AcquireNow(t)
    /\ Goto(t, "granted")
    /\ UNCHANGED <<limit, in_flight, in_flight_snapshot, mode, old_limit, delta, lost>>

acquire_wait(t) ==
    /\ pc[t] = "idle" /\ Join(t)
    /\ Goto(t, "queued")
    /\ UNCHANGED <<limit, in_flight, in_flight_snapshot, mode, old_limit, delta, lost>>

acquire_granted(t) ==
    /\ pc[t] = "queued" /\ Grant(t)
    /\ Goto(t, "granted")
    /\ UNCHANGED <<limit, in_flight, in_flight_snapshot, mode, old_limit, delta, lost>>

(* ...which may be cancelled... *)
acquire_cancelled(t) ==
    /\ pc[t] = "queued" /\ Abandon(t)
    /\ Goto(t, "idle")
    /\ UNCHANGED <<limit, in_flight, in_flight_snapshot, mode, old_limit, delta, lost>>

(* ...then the fetch_add, whose result the Permit keeps. *)
enter(t) ==
    /\ pc[t] = "granted"
    /\ in_flight' = in_flight + 1
    /\ in_flight_snapshot' = [in_flight_snapshot EXCEPT ![t] = in_flight + 1]
    /\ Goto(t, "holding")
    /\ UNCHANGED <<limit, mode, old_limit, delta, lost, semaphoreVars>>

on_response(t, outcome) ==
    /\ pc[t] = "holding"
    /\ mode' = [mode EXCEPT ![t] = ModeOf(outcome)]
    /\ UNCHANGED <<limit, in_flight, pc, in_flight_snapshot, old_limit, delta, lost,
                   semaphoreVars>>

(* Mutant: a cancelled request stays in flight. *)
drop_permit_if_answered(t) ==
    /\ pc[t] = "holding"
    /\ in_flight' = IF mode[t] = "Ignore" THEN in_flight ELSE in_flight - 1
    /\ Goto(t, IF mode[t] = "Ignore" THEN "releasing" ELSE "loading")
    /\ IF mode[t] = "Ignore" THEN Forget(t) ELSE UNCHANGED <<mode, in_flight_snapshot>>
    /\ UNCHANGED <<limit, old_limit, delta, lost, semaphoreVars>>

(* Permit::drop. A request that was cancelled still has mode Ignore. *)
drop_permit(t) ==
    /\ pc[t] = "holding"
    /\ in_flight' = in_flight - 1
    /\ Goto(t, IF mode[t] = "Ignore" THEN "releasing" ELSE "loading")
    /\ IF mode[t] = "Ignore" THEN Forget(t) ELSE UNCHANGED <<mode, in_flight_snapshot>>
    /\ UNCHANGED <<limit, old_limit, delta, lost, semaphoreVars>>

load_limit(t) ==
    /\ pc[t] = "loading"
    /\ old_limit' = [old_limit EXCEPT ![t] = limit]
    /\ Goto(t, "exchanging")
    /\ UNCHANGED <<limit, in_flight, in_flight_snapshot, mode, delta, lost, semaphoreVars>>

(* One round of update_limit's loop: nothing to do; the exchange succeeds; *)
(* or another thread was faster and the loop starts over from its value.   *)
keep_limit(t) ==
    /\ pc[t] = "exchanging"
    /\ ~Changes(t, old_limit[t])
    /\ old_limit' = [old_limit EXCEPT ![t] = 0]
    /\ Goto(t, "releasing") /\ Forget(t)
    /\ UNCHANGED <<limit, in_flight, delta, lost, semaphoreVars>>

(* Mutant: the new limit is stored without comparing the old one. *)
store_limit(t) ==
    /\ pc[t] = "exchanging"
    /\ Changes(t, old_limit[t])
    /\ limit' = NewLimit(t, old_limit[t])
    /\ delta' = [delta EXCEPT ![t] = Whole(limit') - Whole(old_limit[t])]
    /\ old_limit' = [old_limit EXCEPT ![t] = 0]
    /\ Goto(t, IF delta'[t] = 0 THEN "releasing" ELSE "adjusting") /\ Forget(t)
    /\ UNCHANGED <<in_flight, lost, semaphoreVars>>

exchange_limit(t) ==
    /\ pc[t] = "exchanging"
    /\ Changes(t, old_limit[t])
    /\ limit = old_limit[t]
    /\ limit' = NewLimit(t, old_limit[t])
    /\ delta' = [delta EXCEPT ![t] = Whole(limit') - Whole(old_limit[t])]
    /\ old_limit' = [old_limit EXCEPT ![t] = 0]
    /\ Goto(t, IF delta'[t] = 0 THEN "releasing" ELSE "adjusting") /\ Forget(t)
    /\ UNCHANGED <<in_flight, lost, semaphoreVars>>

exchange_failed(t) ==
    /\ pc[t] = "exchanging"
    /\ Changes(t, old_limit[t])
    /\ limit # old_limit[t]
    /\ old_limit' = [old_limit EXCEPT ![t] = limit]
    /\ UNCHANGED <<limit, in_flight, pc, in_flight_snapshot, mode, delta, lost, semaphoreVars>>

(* Mutant: a raised limit does not reach the semaphore. *)
raise_limit_only(t) ==
    /\ pc[t] = "adjusting" /\ delta[t] > 0
    /\ delta' = [delta EXCEPT ![t] = 0]
    /\ Goto(t, "releasing")
    /\ UNCHANGED <<limit, in_flight, in_flight_snapshot, mode, old_limit, lost, semaphoreVars>>

raise_total(t) ==
    /\ pc[t] = "adjusting" /\ delta[t] > 0
    /\ AddPermits(delta[t])
    /\ delta' = [delta EXCEPT ![t] = 0]
    /\ Goto(t, "releasing")
    /\ UNCHANGED <<limit, in_flight, in_flight_snapshot, mode, old_limit, lost>>

(* remove_permits panics ("permit count underflow") if there are too few,  *)
(* and changes nothing; unwinding still drops the semaphore's permit.      *)
lower_total(t) ==
    /\ pc[t] = "adjusting" /\ delta[t] < 0
    /\ IF -delta[t] <= total
       THEN RemovePermits(-delta[t]) /\ UNCHANGED lost
       ELSE lost' = lost - delta[t] /\ UNCHANGED semaphoreVars
    /\ delta' = [delta EXCEPT ![t] = 0]
    /\ Goto(t, "releasing")
    /\ UNCHANGED <<limit, in_flight, in_flight_snapshot, mode, old_limit>>

(* The field _permit is dropped last. *)
release(t) ==
    /\ pc[t] = "releasing"
    /\ Release(t)
    /\ Goto(t, "idle")
    /\ UNCHANGED <<limit, in_flight, in_flight_snapshot, mode, old_limit, delta, lost>>

-----------------------------------------------------------------------------
Acquiring(t) == acquire_now(t) \/ acquire_wait(t) \/ acquire_granted(t) \/ acquire_cancelled(t)

(* The steps a thread takes on its own once it holds the semaphore. *)
Running(t) ==
    \/ enter(t) \/ drop_permit(t)
    \/ load_limit(t) \/ keep_limit(t) \/ exchange_limit(t) \/ exchange_failed(t)
    \/ raise_total(t) \/ lower_total(t)
    \/ release(t)

Next ==
    \E t \in Tasks :
        \/ Acquiring(t)
        \/ Running(t)
        \/ \E outcome \in Outcomes : on_response(t, outcome)

Spec == Init /\ [][Next]_vars

(* A granted permit is taken up (the semaphore's own promise), a request   *)
(* ends or is cancelled, and a thread in the middle of dropping a Permit   *)
(* does not stop for ever.                                                 *)
Fairness ==
    \A t \in Tasks :
        /\ WF_vars(acquire_granted(t))
        /\ WF_vars(Running(t))

FairSpec == Spec /\ Fairness

-----------------------------------------------------------------------------
(* The semaphore's total is the whole part of the limit, up to the         *)
(* adjustments that exchanged the limit and have not reached the semaphore *)
(* yet, in whatever order they arrive, and up to the removals lost to a    *)
(* panic.                                                                  *)
TotalFollowsLimit ==
    total = Whole(limit) - MapThenSumSet(LAMBDA t : delta[t], Tasks) + lost

(* in_flight counts the Permits alive, and never more tasks than hold a    *)
(* permit of the semaphore: it is raised after the permit is granted and   *)
(* lowered before it is released.                                          *)
InFlightIsExact ==
    /\ in_flight = Cardinality({t \in Tasks : pc[t] = "holding"})
    /\ in_flight <= Cardinality(holders)

(* `.expect("permit count underflow")`: lowering the limit never removes   *)
(* more permits than the semaphore has.                                    *)
NoPermitUnderflow ==
    \A t \in Tasks : pc[t] = "adjusting" /\ delta[t] < 0 => -delta[t] <= total

(* A task that waits for a permit gets one or is cancelled, however the    *)
(* limit moves: it never drops below MIN_LIMIT, and every pending raise    *)
(* reaches the semaphore.                                                  *)
WaitersProceed == \A t \in Tasks : (pc[t] = "queued") ~> (pc[t] # "queued")
=============================================================================
