------------------------------ MODULE Balanced ------------------------------
(***************************************************************************)
(* The balanced node selector over rate limited nodes: a request scores    *)
(* the nodes, drops the ones that look unhealthy, and waits on all others  *)
(* at once, for a permit of its endpoint and then one of the host. The     *)
(* first node to let it through gets it; its other waits are dropped,      *)
(* whatever they already hold. The empty and single selectors are the      *)
(* cases of no node and of one.                                            *)
(*                                                                         *)
(* The semaphores are FairSemaphore's, one per node and one per node and   *)
(* endpoint, with their wakeups: a task has one waker, which all the       *)
(* semaphores it waits on share. The limits are CiadLimiter's, in whole    *)
(* permits: an answer moves a limit first, and the semaphore's permits     *)
(* follow in a later step, out of order with those of other answers.       *)
(***************************************************************************)
EXTENDS Integers, FiniteSets, Sequences, FiniteSetsExt, SequencesExt

CONSTANTS
    Requests,       \* concurrent calls
    Endpoints,      \* method and path pattern
    EndpointOf,     \* the endpoint each call is for
    MaxNodes,       \* bound on the configured URIs
    Configs,        \* how many URIs there are, and whether ClientQos is enabled
    InitialLimit,   \* of a new concurrency limiter
    MaxHostLimit,   \* bounds on the limits
    MaxEndpointLimit,
    INFLIGHT_COMPARISON_THRESHOLD,
    UNHEALTHY_SCORE_MULTIPLIER,
    FAILURE_WEIGHT, \* in hundredths, as a client error weighs 1/100
    MaxFailures     \* bound on the failures remembered

ASSUME BalancedAssumption ==
    /\ IsFiniteSet(Requests)
    /\ EndpointOf \in [Requests -> Endpoints]
    /\ MaxNodes \in Nat
    /\ Configs \subseteq [nodes : 0 .. MaxNodes, qos : BOOLEAN]
    /\ {InitialLimit, MaxHostLimit, MaxEndpointLimit} \subseteq Nat \ {0}
    /\ InitialLimit <= MaxHostLimit /\ InitialLimit <= MaxEndpointLimit
    /\ {INFLIGHT_COMPARISON_THRESHOLD, UNHEALTHY_SCORE_MULTIPLIER, FAILURE_WEIGHT, MaxFailures}
         \subseteq Nat

Nodes == 1 .. MaxNodes
HostOf(n) == <<n>>
Semaphores == {HostOf(n) : n \in Nodes} \cup (Nodes \X Endpoints)

EndpointAt(r, n) == <<n, EndpointOf[r]>>

(* Mutant: the host's permit is taken before the endpoint's. *)
AcquireOrder_host_first(r, n) == <<HostOf(n), EndpointAt(r, n)>>

(* Limiter::acquire: the endpoint's permit first, the host's after it. *)
AcquireOrder(r, n) == <<EndpointAt(r, n), HostOf(n)>>
FirstOf(r, n) == AcquireOrder(r, n)[1]
SecondOf(r, n) == AcquireOrder(r, n)[2]

VARIABLES
    nodes,            \* indices of the configured URIs
    qos,              \* whether the nodes have limiters
    limit,            \* of the limiters, in whole permits
    \* the semaphores
    total,            \* permits in the system
    outstanding,      \* permits given out
    queue,            \* who waits, in order
    \* TrackedNode
    in_flight,
    recent_failures,  \* in hundredths
    \* the calls
    stage,
    acq,              \* where the acquire of each node stands
    seen,             \* scores read so far
    plan,             \* nodes left to poll, in order
    woken,            \* the task's waker was used since it was last polled
    node,             \* the node acquired, 0 before and after
    answer,           \* what is still to be made of the answer
    change            \* permits a limiter has still to add, or if negative to remove

semVars == <<total, outstanding, queue, woken>>
limitVars == <<limit, answer, change>>
trackVars == <<in_flight, recent_failures>>
callVars == <<stage, acq, seen, plan, node>>
vars == <<nodes, qos, semVars, limitVars, trackVars, callVars>>

(* While a call counts as in flight, and the stages of dropping its permits. *)
Busy == {"running", "endpoint_drop", "host_drop"}
Stages == {"idle", "scoring", "polling", "waiting", "acquired", "cancelled", "done"} \cup Busy
AcquireStates == {"absent", "new", "first", "held", "second"}

Modes == {"Success", "Dropped", "Ignore"}

(* The answers, by what the two Behaviors and the selector make of them. *)
Answers ==
    { [endpoint |-> "Success", host |-> "Success", blame |-> 0],                      \* 2xx, 3xx
      [endpoint |-> "Success", host |-> "Success", blame |-> FAILURE_WEIGHT \div 100],\* 4xx
      [endpoint |-> "Dropped", host |-> "Ignore",  blame |-> FAILURE_WEIGHT \div 100],\* 429
      [endpoint |-> "Dropped", host |-> "Ignore",  blame |-> FAILURE_WEIGHT],         \* 500
      [endpoint |-> "Ignore",  host |-> "Dropped", blame |-> FAILURE_WEIGHT],         \* other 5xx, I/O
      [endpoint |-> "Ignore",  host |-> "Ignore",  blame |-> FAILURE_WEIGHT] }        \* other errors
NoAnswer == [endpoint |-> "Ignore", host |-> "Ignore", blame |-> 0]

TypeOK ==
    /\ nodes \subseteq Nodes /\ qos \in BOOLEAN
    /\ limit \in [Semaphores -> 1 .. Max({MaxHostLimit, MaxEndpointLimit})]
    /\ total \in [Semaphores -> Nat]
    /\ outstanding \in [Semaphores -> 0 .. Cardinality(Requests)]
    /\ queue \in [Semaphores -> Seq(Requests)]
    /\ in_flight \in [Nodes -> 0 .. Cardinality(Requests)]
    /\ recent_failures \in [Nodes -> 0 .. MaxFailures]
    /\ stage \in [Requests -> Stages]
    /\ acq \in [Requests -> [Nodes -> AcquireStates]]
    /\ woken \in [Requests -> BOOLEAN]
    /\ node \in [Requests -> nodes \cup {0}]
    /\ answer \in [Requests -> [endpoint : Modes, host : Modes, blame : Nat]]
    /\ change \in [Requests -> Int]
    /\ \A r \in Requests :
          /\ \A i \in DOMAIN plan[r] : plan[r][i] \in nodes
          /\ DOMAIN seen[r] \subseteq nodes

NoAcquire == [n \in Nodes |-> "absent"]
Unread == [n \in {} |-> 0]

(* NodeSelectorLayer::new with its LimitedNodes: no node, one, or several. *)
Init ==
    /\ \E c \in Configs : nodes = 1 .. c.nodes /\ qos = c.qos
    /\ limit = [s \in Semaphores |-> InitialLimit]
    /\ total = [s \in Semaphores |-> InitialLimit]
    /\ outstanding = [s \in Semaphores |-> 0]
    /\ queue = [s \in Semaphores |-> <<>>]
    /\ in_flight = [n \in Nodes |-> 0]
    /\ recent_failures = [n \in Nodes |-> 0]
    /\ stage = [r \in Requests |-> "idle"]
    /\ acq = [r \in Requests |-> NoAcquire]
    /\ seen = [r \in Requests |-> Unread]
    /\ plan = [r \in Requests |-> <<>>]
    /\ woken = [r \in Requests |-> FALSE]
    /\ node = [r \in Requests |-> 0]
    /\ answer = [r \in Requests |-> NoAnswer]
    /\ change = [r \in Requests |-> 0]

IsBalanced == Cardinality(nodes) > 1
Goto(r, s) == stage' = [stage EXCEPT ![r] = s]
Set(f, r, v) == [f EXCEPT ![r] = v]
Live(r) == {n \in nodes : acq[r][n] # "absent"}

-----------------------------------------------------------------------------
(* The semaphores *)

(* State::maybe_wake, after every change of the semaphores in S. *)
Wake(S) ==
    woken' = [u \in Requests |-> woken[u] \/
        \E s \in S : queue'[s] # <<>> /\ Head(queue'[s]) = u /\ outstanding'[s] < total'[s]]

(* Acquire::poll of semaphore s succeeds: nobody else waits before r. *)
MayTake(r, s) ==
    /\ outstanding[s] < total[s]
    /\ queue[s] # <<>> => Head(queue[s]) = r

IsQueued(r, s) == \E i \in DOMAIN queue[s] : queue[s][i] = r
Dequeued(r, s) ==
    IF IsQueued(r, s) THEN RemoveAt(queue[s], CHOOSE i \in DOMAIN queue[s] : queue[s][i] = r)
                      ELSE queue[s]

Take(r, s) ==
    /\ outstanding' = [outstanding EXCEPT ![s] = @ + 1]
    /\ queue' = [queue EXCEPT ![s] = Dequeued(r, s)]
    /\ UNCHANGED total
    /\ Wake({s})

Enqueue(r, s) ==
    /\ queue' = [queue EXCEPT ![s] = IF IsQueued(r, s) THEN @ ELSE Append(@, r)]
    /\ UNCHANGED <<total, outstanding, woken>>

(* Permits of S are dropped, and r leaves the queues of Q. *)
Abandon(r, S, Q) ==
    /\ outstanding' = [s \in Semaphores |-> IF s \in S THEN outstanding[s] - 1 ELSE outstanding[s]]
    /\ queue' = [s \in Semaphores |-> IF s \in Q THEN Dequeued(r, s) ELSE queue[s]]

(* What an answer makes of a limit of l whole permits and some fraction,   *)
(* which is raised by its inverse, or lowered by a tenth and rounded down. *)
Adjusted(l, mode, max) ==
    CASE mode = "Success" -> {l, Min({max, l + 1})}
      [] mode = "Dropped" -> {Max({1, k}) : k \in (9 * l) \div 10 .. (9 * l + 8) \div 10}
      [] mode = "Ignore"  -> {l}

(* CiadConcurrencyLimiter::update_limit of s, up to its compare_exchange. *)
UpdateLimit(r, s, mode, max) ==
    \E l \in Adjusted(limit[s], mode, max) :
        /\ limit' = [limit EXCEPT ![s] = l]
        /\ change' = [change EXCEPT ![r] = l - limit[s]]

(* The rest of ciad's Permit::drop: permits are added or removed, and the  *)
(* one held is given back. Removing more than there are panics, and then   *)
(* removes none.                                                           *)
Underflows(r, s) == total[s] + change[r] < 0
ReleasePermit(r, s) ==
    /\ total' = [total EXCEPT ![s] = IF Underflows(r, s) THEN @ ELSE @ + change[r]]
    /\ Abandon(r, {s}, {})
    /\ Wake({s})

-----------------------------------------------------------------------------
(* NodeSelectorService::call *)

call_empty(r) ==
    /\ stage[r] = "idle" /\ nodes = {}
    /\ Goto(r, "done")
    /\ UNCHANGED <<nodes, qos, limitVars, semVars, trackVars, acq, seen, plan, node>>

call_single(r) ==
    /\ stage[r] = "idle" /\ Cardinality(nodes) = 1
    /\ Goto(r, "polling")
    /\ acq' = Set(acq, r, [NoAcquire EXCEPT ![1] = "new"])
    /\ plan' = Set(plan, r, <<1>>)
    /\ UNCHANGED <<nodes, qos, limitVars, semVars, trackVars, seen, node>>

call_balanced(r) ==
    /\ stage[r] = "idle" /\ IsBalanced
    /\ Goto(r, "scoring")
    /\ UNCHANGED <<nodes, qos, limitVars, semVars, trackVars, acq, seen, plan, node>>

(* CoarseExponentialDecayReservoir::decay_if_necessary: no interval has    *)
(* passed since the last decay, or so many that nothing is left.           *)
Decayed(v) == {v, 0}

Rounded(v) == (v + 50) \div 100

(* TrackedNode::score of the next node of the list, which may decay its    *)
(* failures: what r has seen once n is read.                               *)
NextNode(r, n) == n \in nodes \ DOMAIN seen[r] /\ \A m \in nodes \ DOMAIN seen[r] : n <= m
Scored(n, v) == [in_flight |-> in_flight[n], score |-> in_flight[n] + Rounded(v)]
SeenWith(r, n, v) ==
    [m \in DOMAIN seen[r] \cup {n} |-> IF m = n THEN Scored(n, v) ELSE seen[r][m]]

(* acquire scores one node after the other, while other calls go on. *)
score(r) ==
    /\ stage[r] = "scoring"
    /\ \E n \in nodes : \E v \in Decayed(recent_failures[n]) :
          /\ NextNode(r, n) /\ DOMAIN seen[r] \cup {n} # nodes
          /\ recent_failures' = [recent_failures EXCEPT ![n] = v]
          /\ seen' = Set(seen, r, SeenWith(r, n, v))
    /\ UNCHANGED <<nodes, qos, limitVars, semVars, in_flight, stage, acq, plan, node>>

(* Sorted by score; sort_by_key is stable. *)
Before(sc, m, n) == sc[m].score < sc[n].score \/ (sc[m].score = sc[n].score /\ m < n)

(* The scores that set give_up_threshold before n is looked at. The nodes  *)
(* come by rising score, so the last one is the largest, and from the      *)
(* first node above the threshold on all are.                              *)
Heavy(sc, n) ==
    {sc[m].score : m \in {k \in DOMAIN sc : Before(sc, k, n)
                            /\ sc[k].in_flight > INFLIGHT_COMPARISON_THRESHOLD}}
AboveThreshold(sc, n) ==
    Heavy(sc, n) # {} /\ sc[n].score > Max(Heavy(sc, n)) * UNHEALTHY_SCORE_MULTIPLIER

(* Mutant: give_up_threshold starts at 0 instead of usize::MAX. *)
Eligible_from_zero(sc) ==
    {n \in DOMAIN sc : sc[n].score <= Max(Heavy(sc, n) \cup {0}) * UNHEALTHY_SCORE_MULTIPLIER}

Eligible(sc) ==
    {n \in DOMAIN sc : \A m \in DOMAIN sc : (m = n \/ Before(sc, m, n)) => ~AboveThreshold(sc, m)}

(* Acquire::poll scores the kept nodes again, one after the other, while   *)
(* other calls change the scores, and breaks ties as acquire shuffled      *)
(* them: any order can come out.                                           *)
Orders(S) ==
    {p \in [1 .. Cardinality(S) -> S] : \A i, j \in DOMAIN p : i # j => p[i] # p[j]}

(* The last score: filter, shuffle and begin to poll. *)
filter(r) ==
    /\ stage[r] = "scoring"
    /\ \E n \in nodes : \E v \in Decayed(recent_failures[n]) :
          /\ NextNode(r, n) /\ DOMAIN seen[r] \cup {n} = nodes
          /\ recent_failures' = [recent_failures EXCEPT ![n] = v]
          /\ LET kept == Eligible(SeenWith(r, n, v)) IN
             /\ acq' = Set(acq, r, [m \in Nodes |-> IF m \in kept THEN "new" ELSE "absent"])
             /\ \E p \in Orders(kept) : plan' = Set(plan, r, p)
    /\ seen' = Set(seen, r, Unread)
    /\ Goto(r, "polling")
    /\ UNCHANGED <<nodes, qos, limitVars, semVars, in_flight, node>>

-----------------------------------------------------------------------------
(* Polling LimitedNode::acquire of the next node *)

Acquired(r, n) ==
    /\ Goto(r, "acquired")
    /\ acq' = [acq EXCEPT ![r][n] = "absent"]
    /\ node' = Set(node, r, n)
    /\ plan' = Set(plan, r, <<>>)
    /\ UNCHANGED <<nodes, qos, limitVars, trackVars, seen>>

Polls(r, n, states) ==
    /\ stage[r] = "polling" /\ plan[r] # <<>> /\ n = Head(plan[r])
    /\ acq[r][n] \in states

poll_unlimited(r) ==
    /\ ~qos
    /\ \E n \in nodes : Polls(r, n, AcquireStates) /\ Acquired(r, n)
    /\ UNCHANGED semVars

(* The endpoint's permit; the poll goes on with the host's. *)
poll_first(r) ==
    /\ qos
    /\ \E n \in nodes :
          /\ Polls(r, n, {"new", "first"})
          /\ MayTake(r, FirstOf(r, n)) /\ Take(r, FirstOf(r, n))
          /\ acq' = [acq EXCEPT ![r][n] = "held"]
    /\ UNCHANGED <<nodes, qos, limitVars, trackVars, stage, seen, plan, node>>

poll_second(r) ==
    /\ qos
    /\ \E n \in nodes :
          /\ Polls(r, n, {"held", "second"})
          /\ MayTake(r, SecondOf(r, n)) /\ Take(r, SecondOf(r, n))
          /\ Acquired(r, n)

(* Pending: the node is left waiting, and the next one polled. *)
poll_pending(r) ==
    /\ qos
    /\ \E n \in nodes :
          /\ Polls(r, n, AcquireStates)
          /\ LET first == acq[r][n] \in {"new", "first"}
                 s == IF first THEN FirstOf(r, n) ELSE SecondOf(r, n)
             IN  /\ ~MayTake(r, s)
                 /\ Enqueue(r, s)
                 /\ acq' = [acq EXCEPT ![r][n] = IF first THEN "first" ELSE "second"]
    /\ plan' = Set(plan, r, Tail(plan[r]))
    /\ Goto(r, IF Len(plan[r]) = 1 THEN "waiting" ELSE "polling")
    /\ UNCHANGED <<nodes, qos, limitVars, trackVars, seen, node>>

(* The executor polls a woken task again. *)
repoll(r) ==
    /\ stage[r] = "waiting" /\ woken[r]
    /\ woken' = Set(woken, r, FALSE)
    /\ \E p \in Orders(Live(r)) : plan' = Set(plan, r, p)
    /\ Goto(r, "polling")
    /\ UNCHANGED <<nodes, qos, limitVars, total, outstanding, queue, trackVars, acq, seen, node>>

(* Mutants of Leave: the dropped future keeps what it held; nobody is      *)
(* woken in its place.                                                     *)
Leave_holding(r, n) ==
    /\ Abandon(r, {}, {s \in {FirstOf(r, n), SecondOf(r, n)} : IsQueued(r, s)})
    /\ UNCHANGED total
    /\ Wake({FirstOf(r, n), SecondOf(r, n)})

Leave_silently(r, n) ==
    /\ Abandon(r, IF acq[r][n] \in {"held", "second"} THEN {FirstOf(r, n)} ELSE {},
               {s \in {FirstOf(r, n), SecondOf(r, n)} : IsQueued(r, s)})
    /\ UNCHANGED <<total, woken>>

(* Drop of the acquire of node n: it leaves the queue it is in, and drops  *)
(* the endpoint's permit if it has it.                                     *)
Leave(r, n) ==
    /\ Abandon(r, IF acq[r][n] \in {"held", "second"} THEN {FirstOf(r, n)} ELSE {},
               {s \in {FirstOf(r, n), SecondOf(r, n)} : IsQueued(r, s)})
    /\ UNCHANGED total
    /\ Wake({FirstOf(r, n), SecondOf(r, n)})

drop_acquire(r) ==
    /\ stage[r] \in {"acquired", "cancelled"}
    /\ \E n \in Live(r) : Leave(r, n) /\ acq' = [acq EXCEPT ![r][n] = "absent"]
    /\ UNCHANGED <<nodes, qos, limitVars, trackVars, stage, seen, plan, node>>

-----------------------------------------------------------------------------
(* The call to the node *)

Counted(r, d) == [in_flight EXCEPT ![node[r]] = IF IsBalanced THEN d ELSE @]

start_call(r) ==
    /\ stage[r] = "acquired" /\ Live(r) = {}
    /\ in_flight' = Counted(r, in_flight[node[r]] + 1)
    /\ Goto(r, "running")
    /\ UNCHANGED <<nodes, qos, limitVars, semVars, recent_failures, acq, seen, plan, node>>

Held(r) ==
    IF ~qos THEN {}
    ELSE {HostOf(node[r])} \cup
         (IF stage[r] = "host_drop" THEN {} ELSE {EndpointAt(r, node[r])})

(* The answer. AcquiredNode::wrap: on_response of both permits, which are  *)
(* then dropped, the endpoint's first.                                     *)
respond(r) ==
    /\ stage[r] = "running"
    /\ \E a \in Answers :
          /\ answer' = Set(answer, r, [a EXCEPT !.endpoint = "Ignore"])
          /\ IF qos
             THEN /\ UpdateLimit(r, EndpointAt(r, node[r]), a.endpoint, MaxEndpointLimit)
                  /\ Goto(r, "endpoint_drop")
             ELSE Goto(r, "host_drop") /\ UNCHANGED <<limit, change>>
    /\ UNCHANGED <<nodes, qos, semVars, trackVars, acq, seen, plan, node>>

(* A panic unwinds the call: its answer is not recorded as a failure. *)
drop_endpoint(r) ==
    /\ stage[r] = "endpoint_drop"
    /\ ReleasePermit(r, EndpointAt(r, node[r]))
    /\ UpdateLimit(r, HostOf(node[r]), answer[r].host, MaxHostLimit)
    /\ answer' = Set(answer, r, [NoAnswer EXCEPT !.blame =
          IF Underflows(r, EndpointAt(r, node[r])) THEN 0 ELSE answer[r].blame])
    /\ Goto(r, "host_drop")
    /\ UNCHANGED <<nodes, qos, trackVars, acq, seen, plan, node>>

(* Balanced records a failure, after a decay, and drops the InFlightGuard. *)
Blame(r) == IF qos /\ Underflows(r, HostOf(node[r])) THEN 0 ELSE answer[r].blame

drop_host(r) ==
    /\ stage[r] = "host_drop"
    /\ IF qos THEN ReleasePermit(r, HostOf(node[r])) ELSE UNCHANGED semVars
    /\ \E v \in IF Blame(r) = 0 THEN {recent_failures[node[r]]}
                                 ELSE Decayed(recent_failures[node[r]]) :
          recent_failures' = [recent_failures EXCEPT ![node[r]] =
              IF IsBalanced THEN Min({MaxFailures, v + Blame(r)}) ELSE @]
    /\ in_flight' = Counted(r, in_flight[node[r]] - 1)
    /\ Goto(r, "done")
    /\ node' = Set(node, r, 0)
    /\ answer' = Set(answer, r, NoAnswer)
    /\ change' = Set(change, r, 0)
    /\ UNCHANGED <<nodes, qos, limit, acq, seen, plan>>

(* The caller drops the future at an await. *)
cancel_waiting(r) ==
    /\ stage[r] = "waiting"
    /\ Goto(r, "cancelled")
    /\ UNCHANGED <<nodes, qos, limitVars, semVars, trackVars, acq, seen, plan, node>>

(* Mutant: the guard is not there, and the counter is not lowered. *)
cancel_running_unguarded(r) ==
    /\ stage[r] = "running"
    /\ Abandon(r, Held(r), {}) /\ UNCHANGED total /\ Wake(Held(r))
    /\ Goto(r, "done")
    /\ node' = Set(node, r, 0)
    /\ UNCHANGED <<nodes, qos, limitVars, trackVars, acq, seen, plan>>

cancel_running(r) ==
    /\ stage[r] = "running"
    /\ Abandon(r, Held(r), {}) /\ UNCHANGED total /\ Wake(Held(r))
    /\ in_flight' = Counted(r, in_flight[node[r]] - 1)
    /\ Goto(r, "done")
    /\ node' = Set(node, r, 0)
    /\ UNCHANGED <<nodes, qos, limitVars, recent_failures, acq, seen, plan>>

unwound(r) ==
    /\ stage[r] = "cancelled" /\ Live(r) = {}
    /\ Goto(r, "done")
    /\ UNCHANGED <<nodes, qos, limitVars, semVars, trackVars, acq, seen, plan, node>>

-----------------------------------------------------------------------------
Proceed(r) ==
    \/ score(r) \/ filter(r)
    \/ poll_unlimited(r) \/ poll_first(r) \/ poll_second(r) \/ poll_pending(r)
    \/ repoll(r) \/ drop_acquire(r)
    \/ start_call(r) \/ respond(r) \/ drop_endpoint(r) \/ drop_host(r) \/ unwound(r)

CallerStep(r) ==
    \/ call_empty(r) \/ call_single(r) \/ call_balanced(r)
    \/ cancel_waiting(r) \/ cancel_running(r)

Next == \E r \in Requests : Proceed(r) \/ CallerStep(r)

Spec == Init /\ [][Next]_vars

(* As long as some task can run, one does: the executor polls what was     *)
(* woken and runs the rest to their next await, but need not be fair to    *)
(* each. A node answers, or the connection to it fails.                    *)
FairSpec == Spec /\ WF_vars(\E r \in Requests : Proceed(r))

-----------------------------------------------------------------------------
(* Properties *)

Holds(r, s) ==
    /\ qos
    /\ \/ \E n \in nodes : acq[r][n] \in {"held", "second"} /\ s = FirstOf(r, n)
       \/ stage[r] \in {"acquired"} \cup Busy /\ s \in Held(r)

(* Permits given out are permits somebody holds: an acquire that loses the *)
(* race between nodes, or is cancelled, in whatever state, leaks none.     *)
PermitsAreOwned ==
    \A s \in Semaphores : outstanding[s] = Cardinality({r \in Requests : Holds(r, s)})

(* "acquire the endpoint permit first to avoid contention issues": a       *)
(* host's permits are only with requests on their way to that host, never  *)
(* with one that still waits on an endpoint or on another node.            *)
NoLockOut ==
    \A n \in nodes : outstanding[HostOf(n)] <=
        Cardinality({r \in Requests : node[r] = n /\ stage[r] \in {"acquired"} \cup Busy})

(* When a permit is free and somebody waits for it, the first in the queue *)
(* was woken, or is about to poll that node: the wakeup meant for a        *)
(* request that took another node, or was cancelled, has been passed on.   *)
NoLostWakeup ==
    \A s \in Semaphores : queue[s] # <<>> /\ outstanding[s] < total[s] =>
        LET r == Head(queue[s]) IN
        \/ woken[r]
        \/ stage[r] = "polling" /\ \E i \in DOMAIN plan[r] : plan[r][i] = s[1]
        \/ stage[r] \in {"acquired", "cancelled"}

(* in_flight, from which the score is made, counts the requests under way  *)
(* to the node, cancelled ones excluded.                                   *)
InFlightIsExact ==
    \A n \in Nodes : in_flight[n] = IF ~IsBalanced THEN 0 ELSE
        Cardinality({r \in Requests : node[r] = n /\ stage[r] \in Busy})

Looking == {"scoring", "polling", "waiting", "acquired"}

(* Every request that looks for a node is sent to one, or given up by its  *)
(* caller, in the end: the filter leaves it a node, no set of requests     *)
(* waits for the permits the others hold, none is woken in vain for ever.  *)
FindsANode == <>[](\A r \in Requests : stage[r] \notin Looking)
=============================================================================
