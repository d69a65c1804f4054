---------------------------- MODULE PinUntilError ----------------------------
(***************************************************************************)
(* service/node/selector/pin_until_error.rs: concurrent requests share one *)
(* pin, an index into the (possibly reshuffled) order of the nodes. The    *)
(* pin is loaded when a request starts and exchanged when it has failed,   *)
(* with everything other requests do in between.                           *)
(***************************************************************************)
EXTENDS Naturals, FiniteSets, Functions

CONSTANTS
    Calls,        \* concurrent requests; each may be repeated
    NumNodes,     \* nodes.len()
    Interval,     \* interval_with_jitter, in ticks
    MaxTime       \* bound on the clock

ASSUME PinAssumption ==
    NumNodes \in Nat \ {0} /\ Interval \in Nat \ {0} /\ MaxTime \in Nat

Indices == 0 .. NumNodes - 1

VARIABLES
    reshuffling,           \* ReshufflingNodes rather than FixedNodes, fixed
    current_pin,
    shuffle,               \* index -> node
    next_reshuffle_nanos,  \* in ticks
    clock,                 \* Instant::now() - start, in ticks
    pc, pin, target,       \* each request: where it is, its pin, its node
    times,                 \* reshuffle_if_necessary's locals: now, next
    reshuffles,            \* history: reshuffles begun
    stale,                 \* history: requests sent before the last reshuffle
    last_result            \* history: how the last request ended

shared == <<reshuffling, current_pin, shuffle, next_reshuffle_nanos, clock>>
history == <<reshuffles, stale, last_result>>
pinVars == <<shared, pc, pin, target, times, history>>


(* A response, one with a server error, or no response: what call tells    *)
(* apart.                                                                  *)
Results == {"Ok", "5xx", "Err"}

NoTimes == [now |-> 0, next |-> 0]

PinTypeOK ==
    /\ reshuffling \in BOOLEAN
    /\ current_pin \in Indices
    /\ shuffle \in Bijection(Indices, Indices)
    /\ next_reshuffle_nanos \in Nat
    /\ clock \in 0 .. MaxTime
    /\ pc \in [Calls -> {"idle", "now", "check", "exchange", "store", "get", "sent"}]
    /\ pin \in [Calls -> Indices]
    /\ target \in [Calls -> Indices]
    /\ times \in [Calls -> [now : Nat, next : Nat]]
    /\ reshuffles \in Nat
    /\ stale \subseteq Calls
    /\ last_result \in Results

(* FixedNodes and ReshufflingNodes both start from a random order. *)
PinInit ==
    /\ reshuffling \in BOOLEAN
    /\ current_pin = 0
    /\ shuffle \in Bijection(Indices, Indices)
    /\ next_reshuffle_nanos = Interval
    /\ clock = 0
    /\ pc = [r \in Calls |-> "idle"]
    /\ pin = [r \in Calls |-> 0]
    /\ target = [r \in Calls |-> 0]
    /\ times = [r \in Calls |-> NoTimes]
    /\ reshuffles = 0
    /\ stale = {}
    /\ last_result = "Ok"

Move(r, stage) == pc' = [pc EXCEPT ![r] = stage]

-----------------------------------------------------------------------------
tick ==
    /\ reshuffling /\ clock < MaxTime
    /\ clock' = clock + 1
    /\ UNCHANGED <<reshuffling, current_pin, shuffle, next_reshuffle_nanos,
                   pc, pin, target, times, history>>

(* call: load the pin, then nodes.get(pin), which for FixedNodes is just   *)
(* an index.                                                               *)
call(r) ==
    /\ pc[r] = "idle"
    /\ pin' = [pin EXCEPT ![r] = current_pin]
    /\ Move(r, IF reshuffling THEN "now" ELSE "get")
    /\ UNCHANGED <<shared, target, times, history>>

(* reshuffle_if_necessary reads the clock, then next_reshuffle_nanos: it   *)
(* is too early, or due as far as this request saw.                        *)
read_clock(r) ==
    /\ pc[r] = "now"
    /\ times' = [times EXCEPT ![r].now = clock]
    /\ Move(r, "check")
    /\ UNCHANGED <<shared, pin, target, history>>

check_early(r) ==
    /\ pc[r] = "check" /\ times[r].now < next_reshuffle_nanos
    /\ times' = [times EXCEPT ![r] = NoTimes]
    /\ Move(r, "get")
    /\ UNCHANGED <<shared, pin, target, history>>

check_due(r) ==
    /\ pc[r] = "check" /\ times[r].now >= next_reshuffle_nanos
    /\ times' = [times EXCEPT ![r].next = next_reshuffle_nanos]
    /\ Move(r, "exchange")
    /\ UNCHANGED <<shared, pin, target, history>>

(* Mutant: next_reshuffle_nanos is stored without comparing. *)
exchange_won_always(r) ==
    /\ pc[r] = "exchange"
    /\ next_reshuffle_nanos' = times[r].now + Interval
    /\ reshuffles' = reshuffles + 1
    /\ times' = [times EXCEPT ![r] = NoTimes]
    /\ Move(r, "store")
    /\ UNCHANGED <<reshuffling, current_pin, shuffle, clock, pin, target, stale, last_result>>

(* Only the request that moves next_reshuffle_nanos reshuffles. *)
exchange_won(r) ==
    /\ pc[r] = "exchange" /\ next_reshuffle_nanos = times[r].next
    /\ next_reshuffle_nanos' = times[r].now + Interval
    /\ reshuffles' = reshuffles + 1
    /\ times' = [times EXCEPT ![r] = NoTimes]
    /\ Move(r, "store")
    /\ UNCHANGED <<reshuffling, current_pin, shuffle, clock, pin, target, stale, last_result>>

exchange_lost(r) ==
    /\ pc[r] = "exchange" /\ next_reshuffle_nanos # times[r].next
    /\ times' = [times EXCEPT ![r] = NoTimes]
    /\ Move(r, "get")
    /\ UNCHANGED <<shared, pin, target, history>>

(* A random permutation of the order loaded is any order at all. *)
store(r) ==
    /\ pc[r] = "store"
    /\ shuffle' \in Bijection(Indices, Indices)
    /\ stale' = {q \in Calls : pc[q] = "sent"}
    /\ Move(r, "get")
    /\ UNCHANGED <<reshuffling, current_pin, next_reshuffle_nanos, clock, pin, target, times,
                   reshuffles, last_result>>

get(r) ==
    /\ pc[r] = "get"
    /\ target' = [target EXCEPT ![r] = shuffle[pin[r]]]
    /\ Move(r, "sent")
    /\ UNCHANGED <<shared, pin, times, history>>

increment_host(result) == result \in {"5xx", "Err"}

(* Mutant: every failed request moves the pin, wherever it is. *)
Exchanged_always(r, result) ==
    IF increment_host(result) THEN (current_pin + 1) % NumNodes ELSE current_pin

Exchanged(r, result) ==
    IF increment_host(result) /\ current_pin = pin[r]
    THEN (pin[r] + 1) % NumNodes
    ELSE current_pin

(* The request ends; a failed one moves the pin unless it has been moved.  *)
conclude(r, result) ==
    /\ pc[r] = "sent"
    /\ current_pin' = Exchanged(r, result)
    /\ last_result' = result
    /\ stale' = stale \ {r}
    /\ pin' = [pin EXCEPT ![r] = 0]
    /\ target' = [target EXCEPT ![r] = 0]
    /\ Move(r, "idle")
    /\ UNCHANGED <<reshuffling, shuffle, next_reshuffle_nanos, clock, times, reshuffles>>

-----------------------------------------------------------------------------
PinNext ==
    \/ tick
    \/ \E r \in Calls :
          \/ call(r)
          \/ read_clock(r) \/ check_early(r) \/ check_due(r)
          \/ exchange_won(r) \/ exchange_lost(r) \/ store(r)
          \/ get(r)
          \/ \E result \in Results : conclude(r, result)

PinSpec == PinInit /\ [][PinNext]_pinVars

-----------------------------------------------------------------------------
PinnedNode == shuffle[current_pin]

(* A request that fails moves the pin one place on, and only if no other   *)
(* request moved it meanwhile: the pin leaves a host only when a request   *)
(* to that very host has failed, however many fail at once or come back    *)
(* late. The exception is a request that was sent before a reshuffle.      *)
PinLeavesFailedHost ==
    [][current_pin' # current_pin =>
          /\ current_pin' = (current_pin + 1) % NumNodes
          /\ increment_host(last_result')
          /\ \E r \in Calls : /\ pc[r] = "sent" /\ pc'[r] = "idle"
                              /\ target[r] = PinnedNode \/ r \in stale]_pinVars

(* "pins to a host until a request either fails with a 5xx error or IO     *)
(* error, after which it rotates to the next" (line 171), without that     *)
(* exception.                                                              *)
PinsUntilError ==
    [][current_pin' # current_pin =>
          \E r \in Calls : /\ pc[r] = "sent" /\ pc'[r] = "idle"
                           /\ target[r] = PinnedNode
                           /\ increment_host(last_result')]_pinVars

(* However many requests notice that a reshuffle is due, there is one per  *)
(* interval.                                                               *)
OneReshufflePerInterval == reshuffles * Interval <= clock
=============================================================================
