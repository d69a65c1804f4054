------------------------ MODULE DeficitSemaphoreProofs ------------------------
(***************************************************************************)
(* Proofs about DeficitSemaphore for any number of tasks, wakers and       *)
(* permits.                                                                *)
(***************************************************************************)
EXTENDS DeficitSemaphore, FiniteSetTheorems, TLAPS

(* The part of the type invariant that speaks of the list. *)
ListType ==
    /\ node \subseteq Tasks
    /\ head \in node \cup {None}
    /\ tail \in node \cup {None}
    /\ next \in [Tasks -> node \cup {None}]
    /\ prev \in [Tasks -> node \cup {None}]
    /\ before \subseteq (node \X node)

ListShape ==
    /\ ListType
    /\ EndsAgree
    /\ LinksAgree
    /\ ArrivalOrder
    /\ ListFollowsArrival

(* Appending a node keeps the list well formed and in arrival order: this  *)
(* is Node::push_back.                                                     *)
LEMMA PushBackKeepsList ==
    ASSUME ListShape, NEW t \in Tasks, t \notin node, push_back(t)
    PROVE  ListShape'
<1> USE DeficitSemaphoreAssumption
<1>1. \A u, v : <<u, v>> \in before' <=> (<<u, v>> \in before \/ (u \in node /\ v = t))
  BY DEF push_back
<1>2. ListType'
  <2>1. before' \subseteq (node' \X node')
    BY DEF push_back, ListShape, ListType
  <2> QED
    BY <2>1 DEF push_back, ListShape, ListType, EndsAgree
<1>3. EndsAgree'
  BY DEF push_back, ListShape, ListType, EndsAgree, LinksAgree
<1>4. LinksAgree'
  BY DEF push_back, ListShape, ListType, EndsAgree, LinksAgree
<1>5. ArrivalOrder'
  BY <1>1 DEF push_back, ListShape, ListType, ArrivalOrder
<1>6. ListFollowsArrival'
  <2>1. \A u \in node' : u # head' => <<head', u>> \in before'
    BY <1>1 DEF push_back, ListShape, ListType, EndsAgree, ListFollowsArrival
  <2>2. \A u \in node' : u # tail' => <<u, tail'>> \in before'
    BY <1>1 DEF push_back
  <2>3. ASSUME NEW u \in node', next'[u] # None
        PROVE  /\ <<u, next'[u]>> \in before'
               /\ \A v \in node' :
                     v # next'[u] /\ <<u, v>> \in before' => <<next'[u], v>> \in before'
    <3>1. u \in node
      BY <2>3 DEF push_back, ListShape, ListType, EndsAgree, LinksAgree
    <3>2. CASE u = tail
      <4>1. next'[u] = t
        BY <3>1, <3>2 DEF push_back, ListShape, ListType
      <4>2. \A v \in node : <<u, v>> \notin before
        BY <3>1, <3>2 DEF ListShape, ListType, ArrivalOrder, ListFollowsArrival
      <4> QED
        BY <1>1, <3>1, <4>1, <4>2 DEF push_back
    <3>3. CASE u # tail
      <4>1. next'[u] = next[u] /\ next[u] \in node
        BY <2>3, <3>1, <3>3 DEF push_back, ListShape, ListType
      <4>2. /\ <<u, next[u]>> \in before
            /\ \A v \in node :
                  v # next[u] /\ <<u, v>> \in before => <<next[u], v>> \in before
        BY <3>1, <4>1 DEF ListShape, ListFollowsArrival, ListType
      <4> QED
        BY <1>1, <3>1, <4>1, <4>2 DEF push_back, ListShape, ListType
    <3> QED
      BY <3>2, <3>3
  <2> QED
    BY <2>1, <2>2, <2>3 DEF ListFollowsArrival
<1> QED
  BY <1>2, <1>3, <1>4, <1>5, <1>6 DEF ListShape

(* Unlinking a node, wherever it is, keeps the list well formed and in     *)
(* arrival order, and leaves no pointer to it: this is Node::dequeue.      *)
LEMMA DequeueKeepsList ==
    ASSUME ListShape, NEW t \in node, dequeue(t)
    PROVE  ListShape'
<1> USE DeficitSemaphoreAssumption
<1>0. prev[t] # t /\ next[t] # t
  <2>1. t # None /\ <<t, t>> \notin before
    BY DEF ListShape, ListType, ArrivalOrder
  <2>2. next[t] # t
    BY <2>1 DEF ListShape, ListFollowsArrival
  <2>3. prev[t] # t
    BY <2>1, <2>2 DEF ListShape, LinksAgree
  <2> QED
    BY <2>2, <2>3
<1>1. \A u, v : <<u, v>> \in before' <=> (<<u, v>> \in before /\ u # t /\ v # t)
  BY DEF dequeue
<1>2. ListType'
  <2>1. before' \subseteq (node' \X node')
    BY DEF dequeue, ListShape, ListType
  <2>2. next' \in [Tasks -> node' \cup {None}] /\ prev' \in [Tasks -> node' \cup {None}]
    BY DEF dequeue, ListShape, ListType, LinksAgree, EndsAgree
  <2> QED
    BY <2>1, <2>2 DEF dequeue, ListShape, ListType, EndsAgree, LinksAgree
<1>3. EndsAgree'
  <2>1. prev[t] = None /\ next[t] = None => node = {t}
    <3>1. SUFFICES ASSUME prev[t] = None, next[t] = None, NEW u \in node, u # t
                   PROVE  FALSE
      OBVIOUS
    <3>2. head = t /\ tail = t
      BY <3>1 DEF ListShape, EndsAgree
    <3>3. <<t, u>> \in before /\ <<u, t>> \in before
      BY <3>1, <3>2 DEF ListShape, ListFollowsArrival
    <3> QED
      BY <3>3 DEF ListShape, ArrivalOrder
  <2>2. prev[t] # t /\ next[t] # t
    BY <1>0
  <2>3. (head' = None) <=> (node' = {})
    BY <2>1, <2>2 DEF dequeue, ListShape, ListType, EndsAgree
  <2>4. (tail' = None) <=> (node' = {})
    BY <2>1, <2>2 DEF dequeue, ListShape, ListType, EndsAgree
  <2>5. ASSUME NEW u \in node'
        PROVE  (prev'[u] = None) <=> (head' = u)
    <3>1. u \in node /\ u \in Tasks /\ u # t /\ u # None
      BY DEF dequeue, ListShape, ListType
    <3>2. prev'[u] = IF u = next[t] THEN prev[t] ELSE prev[u]
      BY <3>1 DEF dequeue
    <3>3. next[t] = u => prev[u] = t
      BY <3>1 DEF ListShape, LinksAgree
    <3>4. ((prev[u] = None) <=> (head = u)) /\ ((prev[t] = None) <=> (head = t))
      BY <3>1 DEF ListShape, EndsAgree
    <3>5. t # None
      BY DEF ListShape, ListType
    <3> QED
      BY <3>1, <3>2, <3>3, <3>4, <3>5 DEF dequeue
  <2>6. ASSUME NEW u \in node'
        PROVE  (next'[u] = None) <=> (tail' = u)
    <3>1. u \in node /\ u \in Tasks /\ u # t /\ u # None
      BY DEF dequeue, ListShape, ListType
    <3>2. next'[u] = IF u = prev[t] THEN next[t] ELSE next[u]
      BY <3>1 DEF dequeue
    <3>3. prev[t] = u => next[u] = t
      BY <3>1 DEF ListShape, LinksAgree
    <3>4. ((next[u] = None) <=> (tail = u)) /\ ((next[t] = None) <=> (tail = t))
      BY <3>1 DEF ListShape, EndsAgree
    <3>5. t # None
      BY DEF ListShape, ListType
    <3> QED
      BY <3>1, <3>2, <3>3, <3>4, <3>5 DEF dequeue
  <2> QED
    BY <2>3, <2>4, <2>5, <2>6 DEF EndsAgree
<1>4. LinksAgree'
  BY DEF dequeue, ListShape, ListType, EndsAgree, LinksAgree
<1>5. ArrivalOrder'
  BY <1>1 DEF dequeue, ListShape, ListType, ArrivalOrder
<1>6. ListFollowsArrival'
  <2>1. \A u \in node' : u # head' => <<head', u>> \in before'
    BY <1>1 DEF dequeue, ListShape, ListType, EndsAgree, ArrivalOrder, ListFollowsArrival
  <2>2. \A u \in node' : u # tail' => <<u, tail'>> \in before'
    <3>1. CASE next[t] # None
      BY <1>1, <3>1 DEF dequeue, ListShape, ListType, EndsAgree, ListFollowsArrival
    <3>2. CASE next[t] = None /\ prev[t] = None
      BY <3>2 DEF dequeue, ListShape, ListType, EndsAgree, ArrivalOrder, ListFollowsArrival
    <3>3. CASE next[t] = None /\ prev[t] # None
      <4>1. tail' = prev[t] /\ prev[t] \in node /\ next[prev[t]] = t /\ tail = t
        BY <3>3 DEF dequeue, ListShape, ListType, LinksAgree, EndsAgree
      <4>2. ASSUME NEW u \in node', u # prev[t]
            PROVE  <<u, prev[t]>> \in before
        <5>1. u \in node /\ u # t
          BY <4>2 DEF dequeue
        <5>2. <<prev[t], u>> \in before => <<t, u>> \in before
          BY <4>1, <5>1 DEF ListShape, ListType, ListFollowsArrival
        <5>3. <<u, t>> \in before
          BY <4>1, <5>1 DEF ListShape, ListFollowsArrival
        <5> QED
          BY <4>1, <4>2, <5>1, <5>2, <5>3 DEF ListShape, ListType, ArrivalOrder
      <4> QED
        BY <1>0, <1>1, <4>1, <4>2 DEF dequeue
    <3> QED
      BY <3>1, <3>2, <3>3
  <2>3. ASSUME NEW u \in node', next'[u] # None
        PROVE  /\ <<u, next'[u]>> \in before'
               /\ \A v \in node' :
                     v # next'[u] /\ <<u, v>> \in before' => <<next'[u], v>> \in before'
    <3>1. u \in node /\ u # t
      BY <2>3 DEF dequeue
    <3>2. CASE u = prev[t]
      <4>1. next'[u] = next[t] /\ next[u] = t /\ next[t] \in node /\ next[t] # t
        BY <2>3, <3>1, <3>2 DEF dequeue, ListShape, ListType, LinksAgree, ArrivalOrder, ListFollowsArrival
      <4>2. <<u, t>> \in before /\ <<t, next[t]>> \in before
        BY <3>1, <4>1 DEF ListShape, ListType, ListFollowsArrival
      <4>3. \A v \in node : v # t /\ <<u, v>> \in before => <<t, v>> \in before
        BY <3>1, <4>1 DEF ListShape, ListType, ListFollowsArrival
      <4>4. \A v \in node : v # next[t] /\ <<t, v>> \in before => <<next[t], v>> \in before
        BY <4>1 DEF ListShape, ListType, ListFollowsArrival
      <4> QED
        BY <1>1, <3>1, <4>1, <4>2, <4>3, <4>4 DEF dequeue, ListShape, ListType, ArrivalOrder
    <3>3. CASE u # prev[t]
      <4>1. next'[u] = next[u] /\ next[u] \in node /\ next[u] # t
        BY <2>3, <3>1, <3>3 DEF dequeue, ListShape, ListType, LinksAgree
      <4>2. /\ <<u, next[u]>> \in before
            /\ \A v \in node :
                  v # next[u] /\ <<u, v>> \in before => <<next[u], v>> \in before
        BY <3>1, <4>1 DEF ListShape, ListType, ListFollowsArrival
      <4> QED
        BY <1>1, <3>1, <4>1, <4>2 DEF dequeue
    <3> QED
      BY <3>2, <3>3
  <2> QED
    BY <2>1, <2>2, <2>3 DEF ListFollowsArrival
<1> QED
  BY <1>2, <1>3, <1>4, <1>5, <1>6 DEF ListShape

-----------------------------------------------------------------------------
(* Counting the permits. The set of holders stays finite, so that its      *)
(* cardinality follows each grant and each drop.                           *)
Counted == IsFiniteSet(Holders) /\ outstanding_permits = Cardinality(Holders)

FutureType == future \in [Tasks -> {"none", "acquire", "permit"}]

(* The count follows a grant. *)
LEMMA GrantIsCounted ==
    ASSUME FutureType, Counted, NEW t \in Tasks, future[t] = "acquire",
           future' = [future EXCEPT ![t] = "permit"],
           outstanding_permits' = outstanding_permits + 1
    PROVE  Counted'
<1>1. Holders' = Holders \cup {t} /\ t \notin Holders
  BY DEF Holders, FutureType
<1> QED
  BY <1>1, FS_AddElement DEF Counted

(* The count follows Permit::drop, and does not go below zero. *)
LEMMA DropIsCounted ==
    ASSUME FutureType, Counted, NEW t \in Tasks, future[t] = "permit",
           future' = [future EXCEPT ![t] = "none"],
           outstanding_permits' = outstanding_permits - 1
    PROVE  Counted' /\ outstanding_permits' \in Nat
<1>1. Holders' = Holders \ {t} /\ t \in Holders
  BY DEF Holders, FutureType
<1>2. IsFiniteSet(Holders') /\ Cardinality(Holders') = Cardinality(Holders) - 1
  BY <1>1, FS_RemoveElement DEF Counted
<1> QED
  BY <1>2, FS_CardinalityType DEF Counted

(* A step that neither grants nor drops a permit leaves the count right. *)
LEMMA OtherStepsAreCounted ==
    ASSUME FutureType, Counted, NEW t \in Tasks, future[t] # "permit",
           NEW x \in {"none", "acquire"},
           future' = [future EXCEPT ![t] = x],
           outstanding_permits' = outstanding_permits
    PROVE  Counted'
<1>1. Holders' = Holders
  BY DEF Holders, FutureType
<1> QED
  BY <1>1 DEF Counted

-----------------------------------------------------------------------------
(* Types, list and count are preserved together: that dequeue leaves no    *)
(* pointer behind needs the list, that the count stays in Nat needs the    *)
(* holders.                                                                *)
ScalarType ==
    /\ total_permits \in 0 .. MaxPermits
    /\ outstanding_permits \in Nat
    /\ waker \in [Tasks -> Wakers \cup {None}]
    /\ cx \in [Tasks -> Wakers \cup {None}]
    /\ woken \in [Tasks -> BOOLEAN]

(* The type invariant is the conjunction of its three parts. *)
LEMMA TypeParts == TypeOK <=> ListType /\ FutureType /\ ScalarType
  BY DEF TypeOK, ListType, FutureType, ScalarType

CoreInv == TypeOK /\ ListInv /\ Counted

(* The core invariant, by the parts the steps below reason about. *)
LEMMA CoreParts ==
    CoreInv <=> ListShape /\ FutureType /\ ScalarType /\ QueuedFuturesAreAlive /\ Counted
  BY TypeParts DEF CoreInv, ListInv, ListShape

(* State::maybe_wake keeps the types of wakers and wakeups. *)
LEMMA MaybeWakeType ==
    ASSUME ScalarType, NEW S, maybe_wake(S)
    PROVE  /\ waker' \in [Tasks -> Wakers \cup {None}]
           /\ cx' \in [Tasks -> Wakers \cup {None}]
           /\ woken' \in [Tasks -> BOOLEAN]
  BY DEF ScalarType, maybe_wake

(* A finished future's waker and wakeup keep their types. *)
LEMMA RetireType ==
    ASSUME ScalarType, NEW t \in Tasks, retire(t)
    PROVE  /\ waker' \in [Tasks -> Wakers \cup {None}]
           /\ cx' \in [Tasks -> Wakers \cup {None}]
           /\ woken' \in [Tasks -> BOOLEAN]
  BY DEF ScalarType, retire

(* Registering the polling context's waker keeps the types. *)
LEMMA RegisterType ==
    ASSUME ScalarType, NEW t \in Tasks, NEW w \in Wakers, register(t, w)
    PROVE  /\ waker' \in [Tasks -> Wakers \cup {None}]
           /\ cx' \in [Tasks -> Wakers \cup {None}]
           /\ woken' \in [Tasks -> BOOLEAN]
  BY DEF ScalarType, register

(* A step that does not touch the list keeps it well formed. *)
LEMMA ListUnchanged ==
    ASSUME ListShape, UNCHANGED listVars
    PROVE  ListShape'
  BY DEF ListShape, ListType, EndsAgree, LinksAgree, ArrivalOrder, ListFollowsArrival, listVars

(* Every step keeps types, list and count. *)
LEMMA CoreStep == CoreInv /\ [Next]_vars => CoreInv'
<1> SUFFICES ASSUME CoreInv, [Next]_vars PROVE CoreInv'
  OBVIOUS
<1> USE DeficitSemaphoreAssumption
<1>a. ListShape /\ FutureType /\ ScalarType /\ QueuedFuturesAreAlive /\ Counted
  BY CoreParts
<1>b. SUFFICES ListShape' /\ FutureType' /\ ScalarType' /\ QueuedFuturesAreAlive' /\ Counted'
  BY CoreParts, PTL
<1>1. ASSUME NEW t \in Tasks, acquire(t)
      PROVE  ListShape' /\ FutureType' /\ ScalarType' /\ QueuedFuturesAreAlive' /\ Counted'
  <2>1. ListShape'
    BY <1>a, <1>1, ListUnchanged DEF acquire
  <2>2. Counted'
    BY <1>a, <1>1, OtherStepsAreCounted DEF acquire
  <2>3. FutureType' /\ ScalarType'
    BY <1>a, <1>1 DEF acquire, FutureType, ScalarType
  <2>4. QueuedFuturesAreAlive'
    BY <1>a, <1>1 DEF acquire, FutureType, QueuedFuturesAreAlive, listVars, ListShape, ListType
  <2> QED
    BY <2>1, <2>2, <2>3, <2>4
<1>2. ASSUME NEW t \in Tasks, poll_fast_path(t)
      PROVE  ListShape' /\ FutureType' /\ ScalarType' /\ QueuedFuturesAreAlive' /\ Counted'
  <2>1. ListShape'
    BY <1>a, <1>2, ListUnchanged DEF poll_fast_path
  <2>2. Counted'
    BY <1>a, <1>2, GrantIsCounted DEF poll_fast_path
  <2>3. FutureType' /\ ScalarType'
    BY <1>a, <1>2, RetireType DEF poll_fast_path, FutureType, ScalarType
  <2>4. QueuedFuturesAreAlive'
    BY <1>a, <1>2 DEF poll_fast_path, fast_path, listVars, QueuedFuturesAreAlive, ListShape, EndsAgree
  <2> QED
    BY <2>1, <2>2, <2>3, <2>4
<1>3. ASSUME NEW t \in Tasks, NEW w \in Wakers, poll_enqueue(t, w)
      PROVE  ListShape' /\ FutureType' /\ ScalarType' /\ QueuedFuturesAreAlive' /\ Counted'
  <2>1. ListShape'
    BY <1>a, <1>3, PushBackKeepsList DEF poll_enqueue
  <2>2. FutureType' /\ ScalarType' /\ Counted'
    BY <1>a, <1>3, RegisterType DEF poll_enqueue, FutureType, ScalarType, Counted, Holders
  <2>3. QueuedFuturesAreAlive'
    BY <1>a, <1>3 DEF poll_enqueue, push_back, QueuedFuturesAreAlive
  <2> QED
    BY <2>1, <2>2, <2>3
<1>4. ASSUME NEW t \in Tasks, poll_grant(t)
      PROVE  ListShape' /\ FutureType' /\ ScalarType' /\ QueuedFuturesAreAlive' /\ Counted'
  <2>1. ListShape'
    BY <1>a, <1>4, DequeueKeepsList DEF poll_grant
  <2>2. Counted'
    BY <1>a, <1>4, GrantIsCounted DEF poll_grant
  <2>3. FutureType' /\ ScalarType'
    BY <1>a, <1>4, MaybeWakeType DEF poll_grant, FutureType, ScalarType
  <2>4. QueuedFuturesAreAlive'
    BY <1>a, <1>4 DEF poll_grant, dequeue, FutureType, QueuedFuturesAreAlive, ListShape, ListType
  <2> QED
    BY <2>1, <2>2, <2>3, <2>4
<1>5. ASSUME NEW t \in Tasks, NEW w \in Wakers, poll_pending(t, w)
      PROVE  ListShape' /\ FutureType' /\ ScalarType' /\ QueuedFuturesAreAlive' /\ Counted'
  <2>1. ListShape'
    BY <1>a, <1>5, ListUnchanged DEF poll_pending
  <2>2. FutureType' /\ ScalarType' /\ Counted'
    BY <1>a, <1>5, RegisterType DEF poll_pending, FutureType, ScalarType, Counted, Holders
  <2>3. QueuedFuturesAreAlive'
    BY <1>a, <1>5 DEF poll_pending, listVars, QueuedFuturesAreAlive
  <2> QED
    BY <2>1, <2>2, <2>3
<1>6. ASSUME NEW t \in Tasks, drop_unqueued(t)
      PROVE  ListShape' /\ FutureType' /\ ScalarType' /\ QueuedFuturesAreAlive' /\ Counted'
  <2>1. ListShape'
    BY <1>a, <1>6, ListUnchanged DEF drop_unqueued
  <2>2. Counted'
    BY <1>a, <1>6, OtherStepsAreCounted DEF drop_unqueued
  <2>3. FutureType' /\ ScalarType'
    BY <1>a, <1>6, RetireType DEF drop_unqueued, FutureType, ScalarType
  <2>4. QueuedFuturesAreAlive'
    BY <1>a, <1>6 DEF drop_unqueued, FutureType, QueuedFuturesAreAlive, listVars, ListShape, ListType
  <2> QED
    BY <2>1, <2>2, <2>3, <2>4
<1>7. ASSUME NEW t \in Tasks, drop_queued(t)
      PROVE  ListShape' /\ FutureType' /\ ScalarType' /\ QueuedFuturesAreAlive' /\ Counted'
  <2>1. ListShape'
    BY <1>a, <1>7, DequeueKeepsList DEF drop_queued
  <2>2. Counted'
    BY <1>a, <1>7, OtherStepsAreCounted DEF drop_queued
  <2>3. FutureType' /\ ScalarType'
    BY <1>a, <1>7, MaybeWakeType, RetireType DEF drop_queued, FutureType, ScalarType
  <2>4. QueuedFuturesAreAlive'
    BY <1>a, <1>7 DEF drop_queued, dequeue, FutureType, QueuedFuturesAreAlive, ListShape, ListType
  <2> QED
    BY <2>1, <2>2, <2>3, <2>4
<1>8. ASSUME NEW t \in Tasks, drop_permit(t)
      PROVE  ListShape' /\ FutureType' /\ ScalarType' /\ QueuedFuturesAreAlive' /\ Counted'
  <2>1. ListShape'
    BY <1>a, <1>8, ListUnchanged DEF drop_permit
  <2>2. Counted' /\ outstanding_permits' \in Nat
    BY <1>a, <1>8, DropIsCounted DEF drop_permit
  <2>3. FutureType' /\ ScalarType'
    BY <1>a, <1>8, <2>2, MaybeWakeType DEF drop_permit, FutureType, ScalarType
  <2>4. QueuedFuturesAreAlive'
    BY <1>a, <1>8 DEF drop_permit, FutureType, QueuedFuturesAreAlive, listVars, ListShape, ListType
  <2> QED
    BY <2>1, <2>2, <2>3, <2>4
<1>9. ASSUME NEW n \in 0 .. MaxPermits, add_permits(n) \/ remove_permits(n)
      PROVE  ListShape' /\ FutureType' /\ ScalarType' /\ QueuedFuturesAreAlive' /\ Counted'
  <2>1. ListShape'
    BY <1>a, <1>9, ListUnchanged DEF add_permits, remove_permits
  <2>2. FutureType' /\ QueuedFuturesAreAlive' /\ Counted'
    BY <1>a, <1>9 DEF add_permits, remove_permits, FutureType, QueuedFuturesAreAlive, Counted, Holders, listVars
  <2>3. ScalarType'
    BY <1>a, <1>9, MaybeWakeType DEF add_permits, remove_permits, ScalarType
  <2> QED
    BY <2>1, <2>2, <2>3
<1>10. CASE UNCHANGED vars
  <2>1. ListShape'
    BY <1>a, <1>10, ListUnchanged DEF vars, listVars
  <2> QED
    BY <1>a, <1>10, <2>1 DEF vars, FutureType, ScalarType, QueuedFuturesAreAlive, Counted, Holders
<1> QED
  BY <1>1, <1>2, <1>3, <1>4, <1>5, <1>6, <1>7, <1>8, <1>9, <1>10 DEF Next, poll

-----------------------------------------------------------------------------
(* Wakeups. NoLostWakeup is not inductive: maybe_wake does nothing when    *)
(* the head has no waker, which is right only because such a head has been *)
(* woken already. Registered says so.                                      *)
WakeInv == Registered /\ NoLostWakeup

(* Running maybe_wake at the end of a step restores both parts, whatever   *)
(* the step did to the counts and to the list, as long as it queued nobody *)
(* new.                                                                    *)
LEMMA MaybeWakeRestores ==
    ASSUME CoreInv, CoreInv', Registered, NEW S, node' = node \ S, maybe_wake(S)
    PROVE  WakeInv'
<1> USE DeficitSemaphoreAssumption
<1>1. ScalarType /\ ListType /\ ListType'
  BY CoreParts, TypeParts, PTL DEF CoreInv
<1>2. Registered'
  BY <1>1 DEF Registered, maybe_wake, ScalarType, ListType, Wakes
<1>3. ASSUME has_permits', head' # None PROVE woken'[head']
  <2>1. head' \in node /\ head' \notin S /\ head' \in Tasks
    BY <1>1, <1>3 DEF ListType
  <2>2. woken'[head'] = (woken[head'] \/ (Wakes(head') /\ waker[head'] = cx[head']))
    BY <1>1, <2>1 DEF maybe_wake, ScalarType
  <2>3. CASE woken[head']
    BY <2>2, <2>3
  <2>4. CASE ~woken[head']
    <3>1. waker[head'] = cx[head'] /\ cx[head'] # None
      BY <2>1, <2>4 DEF Registered
    <3>2. Wakes(head')
      BY <1>3, <3>1 DEF Wakes
    <3> QED
      BY <2>2, <3>1, <3>2
  <2> QED
    BY <2>3, <2>4
<1> QED
  BY <1>2, <1>3 DEF WakeInv, NoLostWakeup

(* Every step keeps the head woken while a permit is free. *)
LEMMA WakeStep == CoreInv /\ CoreInv' /\ WakeInv /\ [Next]_vars => WakeInv'
<1> SUFFICES ASSUME CoreInv, CoreInv', WakeInv, [Next]_vars PROVE WakeInv'
  OBVIOUS
<1> USE DeficitSemaphoreAssumption
<1>a. ListShape /\ FutureType /\ ScalarType /\ QueuedFuturesAreAlive
  BY CoreParts
<1>b. Registered /\ NoLostWakeup
  BY DEF WakeInv
<1>1. ASSUME NEW t \in Tasks, acquire(t) PROVE WakeInv'
  <2>1. t \notin node
    BY <1>a, <1>1 DEF acquire, QueuedFuturesAreAlive
  <2> QED
    BY <1>a, <1>b, <1>1, <2>1
    DEF acquire, listVars, WakeInv, Registered, NoLostWakeup, has_permits, ListShape, ListType, ScalarType
<1>2. ASSUME NEW t \in Tasks, poll_fast_path(t) PROVE WakeInv'
  BY <1>a, <1>2 DEF poll_fast_path, fast_path, listVars, WakeInv, Registered, NoLostWakeup, ListShape, EndsAgree
<1>3. ASSUME NEW t \in Tasks, NEW w \in Wakers, poll_enqueue(t, w) PROVE WakeInv'
  <2>1. Registered'
    BY <1>a, <1>b, <1>3
    DEF poll_enqueue, register, push_back, Registered, ListShape, ListType, ScalarType
  <2>2. CASE node = {}
    <3>1. ~has_permits'
      BY <1>a, <1>3, <2>2 DEF poll_enqueue, fast_path, has_permits, ListShape, EndsAgree
    <3> QED
      BY <2>1, <3>1 DEF WakeInv, NoLostWakeup
  <2>3. CASE node # {}
    <3>1. head' = head /\ head \in node /\ head # t /\ head \in Tasks
      BY <1>a, <1>3, <2>3 DEF poll_enqueue, push_back, ListShape, ListType, EndsAgree
    <3>2. woken'[head] = woken[head] /\ (has_permits' <=> has_permits)
      BY <1>a, <1>3, <3>1 DEF poll_enqueue, register, has_permits, ScalarType
    <3> QED
      BY <1>b, <2>1, <3>1, <3>2 DEF WakeInv, NoLostWakeup
  <2> QED
    BY <2>2, <2>3
<1>4. ASSUME NEW t \in Tasks, poll_grant(t) PROVE WakeInv'
  BY <1>b, <1>4, MaybeWakeRestores DEF poll_grant, dequeue
<1>5. ASSUME NEW t \in Tasks, NEW w \in Wakers, poll_pending(t, w) PROVE WakeInv'
  <2>1. Registered'
    BY <1>a, <1>b, <1>5
    DEF poll_pending, register, listVars, Registered, ListShape, ListType, ScalarType
  <2>2. head' = head /\ (has_permits' <=> has_permits)
    BY <1>5 DEF poll_pending, listVars, has_permits
  <2>3. has_permits => head # t
    BY <1>a, <1>5 DEF poll_pending, may_take, ListShape, EndsAgree
  <2>4. \A u \in Tasks : u # t => woken'[u] = woken[u]
    BY <1>a, <1>5 DEF poll_pending, register, ScalarType
  <2> QED
    BY <1>a, <1>b, <2>1, <2>2, <2>3, <2>4 DEF WakeInv, NoLostWakeup, ListShape, ListType
<1>6. ASSUME NEW t \in Tasks, drop_unqueued(t) PROVE WakeInv'
  BY <1>a, <1>b, <1>6
  DEF drop_unqueued, retire, listVars, WakeInv, Registered, NoLostWakeup, has_permits,
      ListShape, ListType, ScalarType
<1>7. ASSUME NEW t \in Tasks, drop_queued(t) PROVE WakeInv'
  <2>1. node' = node \ {t}
    BY <1>7 DEF drop_queued, dequeue
  <2>2. CASE prev[t] = None
    BY <1>b, <1>7, <2>1, <2>2, MaybeWakeRestores DEF drop_queued
  <2>3. CASE prev[t] # None
    <3>1. retire(t) /\ head' = head /\ (has_permits' <=> has_permits) /\ head # t
      BY <1>a, <1>7, <2>3 DEF drop_queued, dequeue, has_permits, ListShape, EndsAgree
    <3> QED
      BY <1>a, <1>b, <2>1, <3>1
      DEF retire, WakeInv, Registered, NoLostWakeup, ListShape, ListType, ScalarType
  <2> QED
    BY <2>2, <2>3
<1>8. ASSUME NEW t \in Tasks, drop_permit(t) PROVE WakeInv'
  BY <1>b, <1>8, MaybeWakeRestores DEF drop_permit, listVars
<1>9. ASSUME NEW n \in 0 .. MaxPermits, add_permits(n) PROVE WakeInv'
  BY <1>b, <1>9, MaybeWakeRestores DEF add_permits, listVars
<1>10. ASSUME NEW n \in 0 .. MaxPermits, remove_permits(n) PROVE WakeInv'
  BY <1>a, <1>b, <1>10
  DEF remove_permits, listVars, WakeInv, Registered, NoLostWakeup, has_permits, ScalarType
<1>11. CASE UNCHANGED vars
  BY <1>b, <1>11 DEF vars, WakeInv, Registered, NoLostWakeup, has_permits
<1> QED
  BY <1>1, <1>2, <1>3, <1>4, <1>5, <1>6, <1>7, <1>8, <1>9, <1>10, <1>11 DEF Next, poll

-----------------------------------------------------------------------------
(* DeficitSemaphore::new builds a state that satisfies the invariant. *)
LEMMA InitEstablishes == Init => CoreInv /\ WakeInv
<1> SUFFICES ASSUME Init PROVE CoreInv /\ WakeInv
  OBVIOUS
<1> USE DeficitSemaphoreAssumption
<1>1. TypeOK
  BY DEF Init, TypeOK
<1>2. ListInv
  BY DEF Init, ListInv, EndsAgree, LinksAgree, ArrivalOrder, ListFollowsArrival, QueuedFuturesAreAlive
<1>3. Counted
  <2>1. Holders = {}
    BY DEF Init, Holders
  <2> QED
    BY <2>1, FS_EmptySet DEF Init, Counted
<1>4. WakeInv
  BY DEF Init, WakeInv, Registered, NoLostWakeup
<1> QED
  BY <1>1, <1>2, <1>3, <1>4 DEF CoreInv

(* The inductive invariant of the semaphore, for any number of tasks,      *)
(* wakers and permits.                                                     *)
THEOREM Invariance == Spec => [](CoreInv /\ WakeInv)
<1>1. Init => CoreInv /\ WakeInv
  BY InitEstablishes
<1>2. CoreInv /\ WakeInv /\ [Next]_vars => CoreInv' /\ WakeInv'
  BY CoreStep, WakeStep
<1> QED
  BY <1>1, <1>2, PTL DEF Spec

(* Every field of the semaphore keeps its type: in particular no pointer   *)
(* of the list outlives the node it points to.                             *)
THEOREM TypeCorrect == Spec => []TypeOK
<1>1. CoreInv => TypeOK
  BY DEF CoreInv
<1> QED
  BY <1>1, Invariance, PTL

(* The intrusive list is always the queue of the waiting futures in the    *)
(* order of their arrival, through any pushes, grants and cancellations.   *)
THEOREM ListCorrect == Spec => []ListInv
<1>1. CoreInv => ListInv
  BY DEF CoreInv
<1> QED
  BY <1>1, Invariance, PTL

(* outstanding_permits is the number of permits alive, so Permit::drop     *)
(* never underflows it.                                                    *)
THEOREM AccountingCorrect == Spec => []PermitAccounting
<1>1. CoreInv => PermitAccounting
  BY DEF CoreInv, Counted, PermitAccounting
<1> QED
  BY <1>1, Invariance, PTL

(* No wakeup is lost: a free permit and a waiter imply a woken head. *)
THEOREM WakeupsArrive == Spec => []NoLostWakeup
<1>1. WakeInv => NoLostWakeup
  BY DEF WakeInv
<1> QED
  BY <1>1, Invariance, PTL

(* A task that has not been woken can still be: its waker is registered. *)
THEOREM RegistrationKept == Spec => []Registered
<1>1. WakeInv => Registered
  BY DEF WakeInv
<1> QED
  BY <1>1, Invariance, PTL

(* Permits are granted in the order in which tasks began to wait. *)
THEOREM GrantsFollowArrival == Spec => GrantsInOrder
<1> DEFINE InOrder == \A t \in Tasks :
              future[t] = "acquire" /\ future'[t] = "permit"
                 => \A u \in node : u # t => <<t, u>> \in before
<1>1. ASSUME CoreInv, [Next]_vars PROVE [InOrder]_vars
  <2> SUFFICES ASSUME Next, NEW t \in Tasks, future[t] = "acquire", future'[t] = "permit",
                      NEW u \in node, u # t
               PROVE  <<t, u>> \in before
    BY <1>1
  <2> USE DeficitSemaphoreAssumption
  <2>1. ListShape /\ FutureType
    BY <1>1, CoreParts
  <2>2. poll_fast_path(t) \/ poll_grant(t)
    BY <2>1 DEF Next, poll, acquire, poll_fast_path, poll_enqueue, poll_grant, poll_pending,
                drop_unqueued, drop_queued, drop_permit, add_permits, remove_permits, FutureType
  <2>3. ~poll_fast_path(t)
    BY <2>1 DEF poll_fast_path, fast_path, ListShape, EndsAgree
  <2>4. head = t
    BY <2>1, <2>2, <2>3 DEF poll_grant, may_take, ListShape, EndsAgree
  <2> QED
    BY <2>1, <2>4 DEF ListShape, ListFollowsArrival
<1>2. Spec => []CoreInv
  BY Invariance, PTL
<1> QED
  BY <1>1, <1>2, PTL DEF Spec, GrantsInOrder

-----------------------------------------------------------------------------
(* The semaphore implements the safety part of FairSemaphore: every poll,  *)
(* drop and adjustment is one step of the abstract semaphore or none.      *)
THEOREM Implements == Spec => Fair!SemSpec
<1> USE DeficitSemaphoreAssumption
<1>1. Init => Fair!SemInit
  BY DEF Init, Fair!SemInit, Holders
<1>2. ASSUME CoreInv, [Next]_vars PROVE [Fair!SemNext]_(Fair!semaphoreVars)
  <2>a. ListShape /\ FutureType /\ ScalarType /\ QueuedFuturesAreAlive /\ Counted
    BY <1>2, CoreParts
  <2>b. has_permits <=> Fair!HasPermits
    <3>1. Fair!Cardinality(Holders) = Cardinality(Holders)
      BY DEF Fair!Cardinality, Cardinality
    <3> QED
      BY <2>a, <3>1 DEF has_permits, Fair!HasPermits, Counted, ScalarType
  <2>c. (head = None) <=> (node = {})
    BY <2>a DEF ListShape, EndsAgree
  <2>1. ASSUME NEW t \in Tasks, acquire(t) PROVE UNCHANGED Fair!semaphoreVars
    BY <2>a, <2>1 DEF acquire, listVars, Fair!semaphoreVars, Holders, FutureType
  <2>2. ASSUME NEW t \in Tasks, poll_fast_path(t) PROVE Fair!AcquireNow(t)
    <3>1. Holders' = Holders \cup {t} /\ t \notin Holders
      BY <2>a, <2>2 DEF poll_fast_path, Holders, FutureType
    <3> QED
      BY <2>b, <2>c, <2>2, <3>1 DEF poll_fast_path, fast_path, listVars, Fair!AcquireNow, Fair!Uninvolved
  <2>3. ASSUME NEW t \in Tasks, NEW w \in Wakers, poll_enqueue(t, w) PROVE Fair!Join(t)
    <3>1. Holders' = Holders /\ t \notin Holders
      BY <2>a, <2>3 DEF poll_enqueue, Holders, FutureType
    <3> QED
      BY <2>b, <2>c, <2>3, <3>1 DEF poll_enqueue, fast_path, push_back, Fair!Join, Fair!Uninvolved
  <2>4. ASSUME NEW t \in Tasks, poll_grant(t) PROVE Fair!Grant(t)
    <3>1. Holders' = Holders \cup {t}
      BY <2>a, <2>4 DEF poll_grant, Holders, FutureType
    <3>2. head = t
      BY <2>a, <2>4 DEF poll_grant, may_take, ListShape, EndsAgree
    <3>3. \A u \in node : <<u, t>> \notin before
      BY <2>a, <2>4, <3>2 DEF poll_grant, ListShape, ArrivalOrder, ListFollowsArrival
    <3>4. before' = Fair!Without(before, t)
      BY <2>4 DEF poll_grant, dequeue, Fair!Without
    <3> QED
      BY <2>b, <2>4, <3>1, <3>3, <3>4 DEF poll_grant, may_take, dequeue, Fair!Grant
  <2>5. ASSUME NEW t \in Tasks, NEW w \in Wakers, poll_pending(t, w)
        PROVE  UNCHANGED Fair!semaphoreVars
    BY <2>5 DEF poll_pending, listVars, Fair!semaphoreVars, Holders
  <2>6. ASSUME NEW t \in Tasks, drop_unqueued(t) PROVE UNCHANGED Fair!semaphoreVars
    BY <2>a, <2>6 DEF drop_unqueued, listVars, Fair!semaphoreVars, Holders, FutureType
  <2>7. ASSUME NEW t \in Tasks, drop_queued(t) PROVE Fair!Abandon(t)
    <3>1. Holders' = Holders
      BY <2>a, <2>7 DEF drop_queued, Holders, FutureType
    <3>2. before' = Fair!Without(before, t)
      BY <2>7 DEF drop_queued, dequeue, Fair!Without
    <3> QED
      BY <2>7, <3>1, <3>2 DEF drop_queued, dequeue, Fair!Abandon
  <2>8. ASSUME NEW t \in Tasks, drop_permit(t) PROVE Fair!Release(t)
    <3>1. Holders' = Holders \ {t} /\ t \in Holders
      BY <2>a, <2>8 DEF drop_permit, Holders, FutureType
    <3> QED
      BY <2>8, <3>1 DEF drop_permit, listVars, Fair!Release
  <2>9. ASSUME NEW n \in 0 .. MaxPermits, add_permits(n) PROVE Fair!AddPermits(n)
    BY <2>9 DEF add_permits, listVars, Fair!AddPermits, Holders
  <2>10. ASSUME NEW n \in 0 .. MaxPermits, remove_permits(n) PROVE Fair!RemovePermits(n)
    BY <2>10 DEF remove_permits, listVars, Fair!RemovePermits, Holders
  <2>11. CASE UNCHANGED vars
    BY <2>11 DEF vars, Fair!semaphoreVars, Holders
  <2> QED
    BY <1>2, <2>1, <2>2, <2>3, <2>4, <2>5, <2>6, <2>7, <2>8, <2>9, <2>10, <2>11
    DEF Next, poll, Fair!SemNext
<1>3. Spec => []CoreInv
  BY Invariance, PTL
<1> QED
  BY <1>1, <1>2, <1>3, PTL DEF Spec, Fair!SemSpec
=============================================================================
