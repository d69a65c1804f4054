--------------------------- MODULE DeficitSemaphore ---------------------------
(***************************************************************************)
(* service/node/limiter/deficit_semaphore.rs: an async semaphore whose     *)
(* total may be adjusted below the number of permits handed out, with an   *)
(* intrusive doubly linked list of waiters. Every operation runs under one *)
(* mutex, so each is one action; the interleavings are those of polls,     *)
(* drops, cancellations and adjustments by different threads.              *)
(*                                                                         *)
(* A member of Tasks is one place that may hold an Acquire future, then    *)
(* the Permit it resolved to. Its list node lives inside the future, so    *)
(* the node of task t is identified with t.                                *)
(***************************************************************************)
EXTENDS Naturals, FiniteSets

CONSTANTS
    Tasks,           \* the Acquire futures (and later Permits)
    Wakers,          \* identities of the wakers of executors
    None,            \* Option::None
    InitialPermits,  \* argument of DeficitSemaphore::new
    MaxPermits       \* usize::MAX

ASSUME DeficitSemaphoreAssumption ==
    /\ None \notin Tasks
    /\ None \notin Wakers
    /\ MaxPermits \in Nat
    /\ InitialPermits \in 0 .. MaxPermits

VARIABLES
    total_permits, outstanding_permits, head, tail,  \* State
    next, prev, waker,  \* the fields of each Node
    node,               \* tasks whose Acquire.node is Some
    future,             \* what the task owns: nothing, an Acquire, a Permit
    cx,                 \* waker of the context that last polled the task
    woken,              \* that context has been told to poll again
    before              \* history: order in which the queued tasks arrived

vars == <<total_permits, outstanding_permits, head, tail, next, prev, waker,
          node, future, cx, woken, before>>

listVars == <<head, tail, next, prev, node, before>>

TypeOK ==
    /\ total_permits \in 0 .. MaxPermits
    /\ outstanding_permits \in Nat
    /\ node \subseteq Tasks
    /\ head \in node \cup {None}
    /\ tail \in node \cup {None}
    /\ next \in [Tasks -> node \cup {None}]
    /\ prev \in [Tasks -> node \cup {None}]
    /\ waker \in [Tasks -> Wakers \cup {None}]
    /\ future \in [Tasks -> {"none", "acquire", "permit"}]
    /\ cx \in [Tasks -> Wakers \cup {None}]
    /\ woken \in [Tasks -> BOOLEAN]
    /\ before \subseteq (node \X node)

Init ==
    /\ total_permits = InitialPermits
    /\ outstanding_permits = 0
    /\ head = None
    /\ tail = None
    /\ next = [t \in Tasks |-> None]
    /\ prev = [t \in Tasks |-> None]
    /\ waker = [t \in Tasks |-> None]
    /\ node = {}
    /\ future = [t \in Tasks |-> "none"]
    /\ cx = [t \in Tasks |-> None]
    /\ woken = [t \in Tasks |-> FALSE]
    /\ before = {}

-----------------------------------------------------------------------------
has_permits == total_permits > outstanding_permits

(* Mutant: push_back forgets to link the new node to its predecessor. *)
push_back_without_prev(t) ==
    /\ next' = [u \in Tasks |-> IF u = tail THEN t ELSE next[u]]
    /\ prev' = prev
    /\ head' = IF tail = None THEN t ELSE head
    /\ tail' = t
    /\ node' = node \cup {t}
    /\ before' = before \cup (node \X {t})

(* Node::push_back *)
push_back(t) ==
    /\ next' = [u \in Tasks |-> IF u = tail THEN t ELSE next[u]]
    /\ prev' = [prev EXCEPT ![t] = tail]
    /\ head' = IF tail = None THEN t ELSE head
    /\ tail' = t
    /\ node' = node \cup {t}
    /\ before' = before \cup (node \X {t})

(* Mutant: dequeue leaves the predecessor pointing at the removed node. *)
dequeue_without_relink(t) ==
    /\ next' = [next EXCEPT ![t] = None]
    /\ prev' = [u \in Tasks |-> IF u = t THEN None
                                ELSE IF u = next[t] THEN prev[t] ELSE prev[u]]
    /\ head' = IF prev[t] = None THEN next[t] ELSE head
    /\ tail' = IF next[t] = None THEN prev[t] ELSE tail
    /\ node' = node \ {t}
    /\ before' = {p \in before : p[1] # t /\ p[2] # t}

(* Node::dequeue, and the owner letting go of the node. *)
dequeue(t) ==
    /\ next' = [u \in Tasks |-> IF u = t THEN None
                                ELSE IF u = prev[t] THEN next[t] ELSE next[u]]
    /\ prev' = [u \in Tasks |-> IF u = t THEN None
                                ELSE IF u = next[t] THEN prev[t] ELSE prev[u]]
    /\ head' = IF prev[t] = None THEN next[t] ELSE head
    /\ tail' = IF next[t] = None THEN prev[t] ELSE tail
    /\ node' = node \ {t}
    /\ before' = {p \in before : p[1] # t /\ p[2] # t}

(* State::maybe_wake takes the waker of the head; it is run here on the    *)
(* state after the step (its head and has_permits are the primed ones),    *)
(* and `gone` are the tasks whose node went away in the same step. Waking  *)
(* a waker reaches the task only if that waker is the current context's.   *)
Wakes(u) == has_permits' /\ u = head' /\ waker[u] # None

maybe_wake(gone) ==
    /\ waker' = [u \in Tasks |-> IF u \in gone \/ Wakes(u) THEN None ELSE waker[u]]
    /\ woken' = [u \in Tasks |->
                   IF u \in gone THEN FALSE
                   ELSE woken[u] \/ (Wakes(u) /\ waker[u] = cx[u])]
    /\ cx' = [u \in Tasks |-> IF u \in gone THEN None ELSE cx[u]]

(* Neither woken nor registered any more: the future is finished. *)
retire(t) ==
    /\ waker' = [waker EXCEPT ![t] = None]
    /\ woken' = [woken EXCEPT ![t] = FALSE]
    /\ cx' = [cx EXCEPT ![t] = None]

(* Mutant: a waker is registered only if there is none, so that a future   *)
(* that changed executors keeps the old one.                               *)
register_first_only(t, w) ==
    /\ waker' = [waker EXCEPT ![t] = IF @ = None THEN w ELSE @]
    /\ cx' = [cx EXCEPT ![t] = w]
    /\ woken' = [woken EXCEPT ![t] = FALSE]

(* The tail of poll that returns Pending: the node's waker becomes that of *)
(* the polling context unless it already is.                               *)
register(t, w) ==
    /\ waker' = [waker EXCEPT ![t] = w]
    /\ cx' = [cx EXCEPT ![t] = w]
    /\ woken' = [woken EXCEPT ![t] = FALSE]

-----------------------------------------------------------------------------
(* DeficitSemaphore::acquire only builds the future; its owner will poll   *)
(* it without being woken first.                                           *)
acquire(t) ==
    /\ future[t] = "none"
    /\ future' = [future EXCEPT ![t] = "acquire"]
    /\ woken' = [woken EXCEPT ![t] = TRUE]
    /\ UNCHANGED <<total_permits, outstanding_permits, listVars, waker, cx>>

fast_path == head = None /\ has_permits

(* Acquire::poll, by the branch it takes.                                  *)
poll_fast_path(t) ==
    /\ future[t] = "acquire"
    /\ fast_path
    /\ outstanding_permits' = outstanding_permits + 1
    /\ future' = [future EXCEPT ![t] = "permit"]
    /\ retire(t)
    /\ UNCHANGED <<total_permits, listVars>>

(* The first poll that does not succeed. A node just pushed is at the head *)
(* only if the list was empty, and then no permit is free, so the check    *)
(* that follows the push always fails and poll registers its waker.        *)
poll_enqueue(t, w) ==
    /\ future[t] = "acquire" /\ t \notin node
    /\ ~fast_path
    /\ push_back(t)
    /\ register(t, w)
    /\ UNCHANGED <<total_permits, outstanding_permits, future>>

(* Mutant: any queued task that is polled may take a free permit. *)
may_take_from_anywhere(t) == has_permits

may_take(t) == prev[t] = None /\ has_permits

(* Mutant: the slow path does not count the permit it hands out. *)
poll_grant_uncounted(t) ==
    /\ future[t] = "acquire" /\ t \in node
    /\ ~fast_path
    /\ may_take(t)
    /\ dequeue(t)
    /\ future' = [future EXCEPT ![t] = "permit"]
    /\ UNCHANGED <<total_permits, outstanding_permits>>
    /\ maybe_wake({t})

poll_grant(t) ==
    /\ future[t] = "acquire" /\ t \in node
    /\ ~fast_path
    /\ may_take(t)
    /\ dequeue(t)
    /\ outstanding_permits' = outstanding_permits + 1
    /\ future' = [future EXCEPT ![t] = "permit"]
    /\ UNCHANGED total_permits
    /\ maybe_wake({t})

poll_pending(t, w) ==
    /\ future[t] = "acquire" /\ t \in node
    /\ ~fast_path
    /\ ~may_take(t)
    /\ register(t, w)
    /\ UNCHANGED <<total_permits, outstanding_permits, listVars, future>>

poll(t) ==
    \/ poll_fast_path(t)
    \/ poll_grant(t)
    \/ \E w \in Wakers : poll_enqueue(t, w) \/ poll_pending(t, w)

(* Acquire::drop before the future was ever queued. *)
drop_unqueued(t) ==
    /\ future[t] = "acquire" /\ t \notin node
    /\ future' = [future EXCEPT ![t] = "none"]
    /\ retire(t)
    /\ UNCHANGED <<total_permits, outstanding_permits, listVars>>

(* Mutant: a woken head that is cancelled does not pass the wakeup on. *)
drop_queued_without_wake(t) ==
    /\ future[t] = "acquire" /\ t \in node
    /\ dequeue(t)
    /\ future' = [future EXCEPT ![t] = "none"]
    /\ UNCHANGED <<total_permits, outstanding_permits>>
    /\ retire(t)

(* Acquire::drop of a queued future (a cancelled request, or a balanced    *)
(* selector that got its permit from another node).                        *)
drop_queued(t) ==
    /\ future[t] = "acquire" /\ t \in node
    /\ dequeue(t)
    /\ future' = [future EXCEPT ![t] = "none"]
    /\ UNCHANGED <<total_permits, outstanding_permits>>
    /\ IF prev[t] = None THEN maybe_wake({t}) ELSE retire(t)

(* Mutant: dropping a permit wakes nobody. *)
drop_permit_without_wake(t) ==
    /\ future[t] = "permit"
    /\ outstanding_permits' = outstanding_permits - 1
    /\ future' = [future EXCEPT ![t] = "none"]
    /\ UNCHANGED <<total_permits, listVars, waker, woken, cx>>

(* Permit::drop *)
drop_permit(t) ==
    /\ future[t] = "permit"
    /\ outstanding_permits' = outstanding_permits - 1
    /\ future' = [future EXCEPT ![t] = "none"]
    /\ UNCHANGED <<total_permits, listVars>>
    /\ maybe_wake({})

(* add_permits and remove_permits; past the guard the code panics before   *)
(* it has changed anything.                                                *)
add_permits(n) ==
    /\ total_permits + n <= MaxPermits
    /\ total_permits' = total_permits + n
    /\ UNCHANGED <<outstanding_permits, listVars, future>>
    /\ maybe_wake({})

remove_permits(n) ==
    /\ n <= total_permits
    /\ total_permits' = total_permits - n
    /\ UNCHANGED <<outstanding_permits, listVars, future, waker, woken, cx>>

-----------------------------------------------------------------------------
Next ==
    \/ \E t \in Tasks :
          acquire(t) \/ poll(t) \/ drop_unqueued(t) \/ drop_queued(t) \/ drop_permit(t)
    \/ \E n \in 0 .. MaxPermits : add_permits(n) \/ remove_permits(n)

Spec == Init /\ [][Next]_vars

(* An executor polls a task it was woken for; it owes nothing to a task    *)
(* that no waker called for.                                               *)
PollWhenWoken(t) == woken[t] /\ poll(t)

(* Polling is the executor's duty; that a permit is eventually dropped is  *)
(* a fact about the callers, whose requests end or are cancelled.          *)
ExecutorFairness == \A t \in Tasks : WF_vars(PollWhenWoken(t))
CallerFairness   == \A t \in Tasks : WF_vars(drop_permit(t))

PolledSpec == Spec /\ ExecutorFairness
FairSpec   == Spec /\ ExecutorFairness /\ CallerFairness

-----------------------------------------------------------------------------
(* The linked list is exactly the arrival order: its ends are the first    *)
(* and the last of the queued tasks, neighbours are adjacent in arrival    *)
(* order, both directions agree, and every node in the list is inside an   *)
(* Acquire future that still exists. Each debug_assert of dequeue and      *)
(* push_back, and the freedom from dangling pointers, is a consequence.    *)
EndsAgree ==
    /\ (head = None) <=> (node = {})
    /\ (tail = None) <=> (node = {})
    /\ \A t \in node : /\ (prev[t] = None) <=> (head = t)
                       /\ (next[t] = None) <=> (tail = t)

LinksAgree ==
    /\ \A t \in Tasks : t \notin node => next[t] = None /\ prev[t] = None
    /\ \A t \in node : next[t] # None => prev[next[t]] = t
    /\ \A t \in node : prev[t] # None => next[prev[t]] = t

ArrivalOrder ==
    /\ \A t \in node : <<t, t>> \notin before
    /\ \A t, u \in node : t # u => <<t, u>> \in before \/ <<u, t>> \in before
    /\ \A t, u, v \in node :
          <<t, u>> \in before /\ <<u, v>> \in before => <<t, v>> \in before

ListFollowsArrival ==
    /\ \A t \in node : t # head => <<head, t>> \in before
    /\ \A t \in node : t # tail => <<t, tail>> \in before
    /\ \A t \in node :
        next[t] # None =>
            /\ <<t, next[t]>> \in before
            /\ \A u \in node :
                  u # next[t] /\ <<t, u>> \in before => <<next[t], u>> \in before

QueuedFuturesAreAlive == \A t \in node : future[t] = "acquire"

ListInv == /\ EndsAgree /\ LinksAgree /\ ArrivalOrder /\ ListFollowsArrival
           /\ QueuedFuturesAreAlive

Holders == {t \in Tasks : future[t] = "permit"}

(* Permits handed out and not yet dropped are counted exactly, however     *)
(* futures are granted, cancelled and dropped.                             *)
PermitAccounting == outstanding_permits = Cardinality(Holders)

(* No lost wakeup: whenever a permit is free and somebody is queued, the   *)
(* task at the head has been told to poll. Its context may have changed    *)
(* executors, its predecessor may have been cancelled after being woken,   *)
(* and permits may have come and gone meanwhile.                           *)
NoLostWakeup == has_permits /\ head # None => woken[head]

(* What NoLostWakeup rests on: a queued task that has not been woken has   *)
(* the waker of its current context registered.                            *)
Registered == \A t \in node : ~woken[t] => waker[t] = cx[t] /\ cx[t] # None

(* "It is absolutely fair - i.e. tasks will be granted permits in exactly  *)
(* the order they began attempting to acquire them" (line 23): no step     *)
(* gives a permit to a task while one that began to wait earlier is still  *)
(* waiting.                                                                *)
GrantsInOrder ==
    [][\A t \in Tasks :
          future[t] = "acquire" /\ future'[t] = "permit"
             => \A u \in node : u # t => <<t, u>> \in before]_vars

(* A task that waits gets its permit or is cancelled, provided the total   *)
(* does not stay at or return to zero for ever: no task starves behind     *)
(* later ones, and no wakeup is lost along the way.                        *)
WaitersAreServed ==
    <>[](total_permits >= 1) =>
        \A t \in Tasks : (future[t] = "acquire") ~> (future[t] # "acquire")

(* The semaphore implements FairSemaphore, whose fairness is that a permit *)
(* which stays free reaches the first waiting task.                        *)
Fair == INSTANCE FairSemaphore WITH
            total   <- total_permits,
            holders <- Holders,
            waiting <- node,
            before  <- before

ImplementsFairSemaphore == Fair!FairSemSpec
=============================================================================
