--------------------------- MODULE SelectorProofs ----------------------------
(***************************************************************************)
(* Proofs about the node selectors: the balanced one with the limiters of  *)
(* its nodes, and after it the one that pins a node.                       *)
(***************************************************************************)
EXTENDS Balanced, PinUntilError, DataLemmas

(* Of the types only what the proofs need: the counters have no bounds     *)
(* here, those follow from what they count.                                *)
Types ==
    /\ nodes \subseteq Nodes /\ (nodes # {} => 1 \in nodes)
    /\ qos \in BOOLEAN
    /\ DOMAIN total = Semaphores /\ outstanding \in [Semaphores -> Nat]
    /\ queue \in [Semaphores -> Seq(Requests)]
    /\ in_flight \in [Nodes -> Nat]
    /\ stage \in [Requests -> Stages]
    /\ acq \in [Requests -> [Nodes -> AcquireStates]]
    /\ plan \in [Requests -> Seq(nodes)]
    /\ woken \in [Requests -> BOOLEAN]
    /\ node \in [Requests -> nodes \cup {0}]

(* Which acquires there are while a call is in a stage. *)
StageOK(r) ==
    /\ stage[r] \in {"acquired"} \cup Busy => node[r] \in nodes
    /\ stage[r] \notin {"acquired"} \cup Busy => node[r] = 0
    /\ stage[r] \in {"idle", "scoring", "done"} \cup Busy => \A n \in Nodes : acq[r][n] = "absent"
    /\ \A n \in Nodes \ nodes : acq[r][n] = "absent"
    /\ stage[r] = "acquired" => acq[r][node[r]] = "absent"
    /\ stage[r] = "polling" => \A i \in DOMAIN plan[r] : acq[r][plan[r][i]] # "absent"
    /\ ~qos => \A n \in Nodes : acq[r][n] \in {"absent", "new"}
    /\ stage[r] = "endpoint_drop" => qos

StageInv == \A r \in Requests : StageOK(r)

(* Call r is in the queue of semaphore s for an acquire that waits there. *)
WaitsAt(r, s) ==
    /\ qos
    /\ \E n \in nodes : \/ s = FirstOf(r, n) /\ acq[r][n] = "first"
                        \/ s = SecondOf(r, n) /\ acq[r][n] = "second"

(* Who is in a queue waits there, once. *)
QueueOK(s) ==
    /\ \A i \in DOMAIN queue[s], r \in Requests : queue[s][i] = r => WaitsAt(r, s)
    /\ \A i, j \in DOMAIN queue[s] : queue[s][i] = queue[s][j] => i = j

QueueInv == \A s \in Semaphores : QueueOK(s)

(* NoLostWakeup, with the first in the queue named. *)
Attended(r, s) ==
    \/ woken[r]
    \/ stage[r] = "polling" /\ \E i \in DOMAIN plan[r] : plan[r][i] = s[1]
    \/ stage[r] \in {"acquired", "cancelled"}

Due(r, s) == queue[s] # <<>> /\ outstanding[s] < total[s] /\ Head(queue[s]) = r

WakeInv == \A s \in Semaphores, r \in Requests : Due(r, s) => Attended(r, s)

BalancedInv ==
    Types /\ StageInv /\ QueueInv /\ PermitsAreOwned /\ InFlightIsExact /\ WakeInv

-----------------------------------------------------------------------------
(* Semaphores *)

(* A limiter's semaphores name their node, and endpoints' and hosts' are   *)
(* never the same.                                                         *)
LEMMA SemaphoreFacts ==
    ASSUME NEW r \in Requests, NEW n \in Nodes
    PROVE  /\ FirstOf(r, n) \in Semaphores /\ SecondOf(r, n) \in Semaphores
           /\ FirstOf(r, n)[1] = n /\ SecondOf(r, n)[1] = n
           /\ \A u \in Requests, m \in Nodes :
                 /\ FirstOf(r, n) # SecondOf(u, m) /\ SecondOf(r, n) # FirstOf(u, m)
                 /\ FirstOf(r, n) = FirstOf(u, m) => n = m
                 /\ SecondOf(r, n) = SecondOf(u, m) => n = m
<1>1. EndpointOf[r] \in Endpoints
  BY BalancedAssumption
<1>2. FirstOf(r, n) \in Semaphores /\ SecondOf(r, n) \in Semaphores
  BY <1>1 DEF FirstOf, SecondOf, AcquireOrder, EndpointAt, Semaphores
<1>3. \A a, b, c : <<a, b>> # <<c>>
  <2> TAKE a, b, c
  <2>1. Len(<<a, b>>) = 2 /\ Len(<<c>>) = 1
    OBVIOUS
  <2> QED
    BY <2>1
<1>4. FirstOf(r, n)[1] = n /\ SecondOf(r, n)[1] = n
  BY DEF FirstOf, SecondOf, AcquireOrder, EndpointAt, HostOf
<1>5. ASSUME NEW u \in Requests, NEW m \in Nodes
      PROVE  /\ FirstOf(r, n) # SecondOf(u, m) /\ SecondOf(r, n) # FirstOf(u, m)
             /\ FirstOf(r, n) = FirstOf(u, m) => n = m
             /\ SecondOf(r, n) = SecondOf(u, m) => n = m
  BY <1>3 DEF FirstOf, SecondOf, AcquireOrder, EndpointAt, HostOf
<1> QED
  BY <1>2, <1>4, <1>5

(* A set of calls that gains or loses one. *)
LEMMA CountChange ==
    ASSUME NEW A \in SUBSET Requests, NEW B \in SUBSET Requests, NEW r \in Requests,
           \A u \in Requests : u # r => (u \in A <=> u \in B)
    PROVE  /\ Cardinality(A) \in Nat /\ Cardinality(B) \in Nat
           /\ (r \in A <=> r \in B) => Cardinality(B) = Cardinality(A)
           /\ r \in B /\ r \notin A => Cardinality(B) = Cardinality(A) + 1
           /\ r \in A /\ r \notin B => Cardinality(B) = Cardinality(A) - 1 /\ Cardinality(A) > 0
<1>1. IsFiniteSet(A) /\ IsFiniteSet(B)
  BY FS_Subset, BalancedAssumption
<1>2. Cardinality(A) \in Nat /\ Cardinality(B) \in Nat
  BY <1>1, FS_CardinalityType
<1>3. ASSUME r \in A <=> r \in B PROVE Cardinality(B) = Cardinality(A)
  <2>1. A = B
    BY <1>3
  <2> QED
    BY <2>1
<1>4. ASSUME r \in B, r \notin A PROVE Cardinality(B) = Cardinality(A) + 1
  <2>1. B = A \cup {r}
    BY <1>4
  <2> QED
    BY <1>1, <1>4, <2>1, FS_AddElement
<1>5. ASSUME r \in A, r \notin B PROVE Cardinality(A) = Cardinality(B) + 1
  <2>1. A = B \cup {r}
    BY <1>5
  <2> QED
    BY <1>1, <1>5, <2>1, FS_AddElement
<1>6. r \in A /\ r \notin B => Cardinality(B) = Cardinality(A) - 1 /\ Cardinality(A) > 0
  BY <1>2, <1>5
<1> QED
  BY <1>2, <1>3, <1>4, <1>6

-----------------------------------------------------------------------------
(* A step of call r, and what it cannot change for the others *)

Solo(r) ==
    /\ UNCHANGED <<nodes, qos>>
    /\ \A u \in Requests : u # r =>
          acq'[u] = acq[u] /\ stage'[u] = stage[u] /\ node'[u] = node[u] /\ plan'[u] = plan[u]

(* StageInv is a matter of each call by itself. *)
LEMMA StageStep ==
    ASSUME StageInv, NEW r \in Requests, Solo(r), StageOK(r)'
    PROVE  StageInv'
<1>1. ASSUME NEW u \in Requests, u # r PROVE StageOK(u)'
  <2>1. /\ StageOK(u) /\ nodes' = nodes /\ qos' = qos
        /\ acq'[u] = acq[u] /\ stage'[u] = stage[u] /\ node'[u] = node[u] /\ plan'[u] = plan[u]
    BY <1>1 DEF StageInv, Solo
  <2> QED
    BY <2>1 DEF StageOK, Busy
<1> QED
  BY <1>1 DEF StageInv

Holders(s) == {r \in Requests : Holds(r, s)}

(* PermitsAreOwned is kept if r pays for what it takes and gives back what *)
(* it drops.                                                               *)
LEMMA OwnedStep ==
    ASSUME Types, PermitsAreOwned, NEW r \in Requests, Solo(r),
           \A s \in Semaphores :
              /\ (Holds(r, s) <=> Holds(r, s)') => outstanding'[s] = outstanding[s]
              /\ Holds(r, s)' /\ ~Holds(r, s) => outstanding'[s] = outstanding[s] + 1
              /\ Holds(r, s) /\ ~Holds(r, s)' => outstanding'[s] = outstanding[s] - 1
    PROVE  PermitsAreOwned' /\ \A s \in Semaphores : outstanding'[s] \in Nat
<1>1. ASSUME NEW s \in Semaphores
      PROVE  outstanding'[s] = Cardinality(Holders(s)') /\ outstanding'[s] \in Nat
  <2> DEFINE A == Holders(s)
             B == Holders(s)'
  <2>1. A \in SUBSET Requests /\ B \in SUBSET Requests
    BY DEF Holders
  <2>2. outstanding[s] = Cardinality(A)
    BY DEF PermitsAreOwned, Holders
  <2>3. ASSUME NEW u \in Requests, u # r PROVE u \in A <=> u \in B
    <3>1. /\ nodes' = nodes /\ qos' = qos
          /\ acq'[u] = acq[u] /\ stage'[u] = stage[u] /\ node'[u] = node[u]
      BY <2>3 DEF Solo
    <3>2. Holds(u, s) <=> Holds(u, s)'
      BY <3>1 DEF Holds, Held, FirstOf, SecondOf, AcquireOrder, EndpointAt, HostOf, Busy
    <3> QED
      BY <3>2 DEF Holders
  <2>4. (r \in A <=> Holds(r, s)) /\ (r \in B <=> Holds(r, s)')
    BY DEF Holders
  <2> HIDE DEF A, B
  <2>5. /\ Cardinality(A) \in Nat /\ Cardinality(B) \in Nat
        /\ (r \in A <=> r \in B) => Cardinality(B) = Cardinality(A)
        /\ r \in B /\ r \notin A => Cardinality(B) = Cardinality(A) + 1
        /\ r \in A /\ r \notin B => Cardinality(B) = Cardinality(A) - 1
    BY <2>1, <2>3, CountChange
  <2>6. outstanding'[s] = Cardinality(B)
    BY <2>2, <2>4, <2>5
  <2> QED
    BY <2>5, <2>6 DEF B
<1> QED
  BY <1>1 DEF PermitsAreOwned, Holders

(* A semaphore that the step leaves alone, or whose first waiter is seen   *)
(* to.                                                                     *)
LEMMA WakeStep ==
    ASSUME WakeInv, NEW r \in Requests, Solo(r),
           \A u \in Requests : u # r /\ woken[u] => woken'[u],
           \A s \in Semaphores, u \in Requests : Due(u, s)' =>
              \/ Attended(u, s)'
              \/ Due(u, s) /\ (u = r => Attended(r, s)')
    PROVE  WakeInv'
<1> SUFFICES ASSUME NEW s \in Semaphores, NEW u \in Requests, Due(u, s)', Due(u, s), u # r
             PROVE  Attended(u, s)'
  BY DEF WakeInv
<1>1. Attended(u, s)
  BY DEF WakeInv
<1>2. stage'[u] = stage[u] /\ plan'[u] = plan[u]
  BY DEF Solo
<1>3. woken[u] => woken'[u]
  OBVIOUS
<1> QED
  BY <1>1, <1>2, <1>3, Zenon DEF Attended

(* State::maybe_wake takes no wakeup back, and wakes the first in the      *)
(* queue of a semaphore with a free permit.                                *)
LEMMA WakeFacts ==
    ASSUME Types, NEW S, Wake(S)
    PROVE  /\ woken' \in [Requests -> BOOLEAN]
           /\ \A u \in Requests : woken[u] => woken'[u]
           /\ \A s \in S, u \in Requests : Due(u, s)' => woken'[u]
<1> DEFINE W(u) == \E s \in S : queue'[s] # <<>> /\ Head(queue'[s]) = u /\ outstanding'[s] < total'[s]
<1>1. woken' = [u \in Requests |-> woken[u] \/ W(u)]
  BY DEF Wake
<1>2. \A s \in S, u \in Requests : Due(u, s)' => W(u)
  BY Zenon DEF Due
<1> HIDE DEF W
<1>3. ASSUME NEW u \in Requests PROVE woken'[u] = (woken[u] \/ W(u))
  BY <1>1, Zenon
<1>4. woken' \in [Requests -> BOOLEAN]
  <2>1. \A u \in Requests : (woken[u] \/ W(u)) \in BOOLEAN
    BY Zenon
  <2> QED
    BY <1>1, <2>1, Zenon
<1>5. \A u \in Requests : woken[u] => woken'[u]
  BY <1>3, Zenon
<1>6. \A s \in S, u \in Requests : Due(u, s)' => woken'[u]
  BY <1>2, <1>3, Zenon
<1> QED
  BY <1>4, <1>5, <1>6, Zenon

Runs(r, n) == node[r] = n /\ stage[r] \in Busy

(* InFlightIsExact is kept if r raises its node's count when it starts to  *)
(* run and lowers it when it stops.                                        *)
LEMMA InFlightStep ==
    ASSUME Types, InFlightIsExact, NEW r \in Requests, Solo(r),
           \A n \in Nodes :
              /\ (Runs(r, n) <=> Runs(r, n)') \/ ~IsBalanced => in_flight'[n] = in_flight[n]
              /\ IsBalanced /\ Runs(r, n)' /\ ~Runs(r, n) => in_flight'[n] = in_flight[n] + 1
              /\ IsBalanced /\ Runs(r, n) /\ ~Runs(r, n)' => in_flight'[n] = in_flight[n] - 1
    PROVE  InFlightIsExact' /\ \A n \in Nodes : in_flight'[n] \in Nat
<1>0. IsBalanced' <=> IsBalanced
  BY DEF IsBalanced, Solo
<1>1. ASSUME NEW n \in Nodes
      PROVE  /\ in_flight'[n] = IF ~IsBalanced' THEN 0 ELSE Cardinality({u \in Requests : Runs(u, n)'})
             /\ in_flight'[n] \in Nat
  <2> DEFINE A == {u \in Requests : Runs(u, n)}
             B == {u \in Requests : Runs(u, n)'}
  <2>1. in_flight[n] = IF ~IsBalanced THEN 0 ELSE Cardinality(A)
    BY DEF InFlightIsExact, Runs, Busy
  <2>2. ASSUME NEW u \in Requests, u # r PROVE u \in A <=> u \in B
    BY <2>2 DEF Solo, Runs, Busy
  <2>3. (r \in A <=> Runs(r, n)) /\ (r \in B <=> Runs(r, n)') /\ A \in SUBSET Requests /\ B \in SUBSET Requests
    OBVIOUS
  <2> HIDE DEF A, B
  <2>4. /\ Cardinality(A) \in Nat /\ Cardinality(B) \in Nat
        /\ (r \in A <=> r \in B) => Cardinality(B) = Cardinality(A)
        /\ r \in B /\ r \notin A => Cardinality(B) = Cardinality(A) + 1
        /\ r \in A /\ r \notin B => Cardinality(B) = Cardinality(A) - 1
    BY <2>2, <2>3, CountChange
  <2>5. CASE ~IsBalanced
    BY <1>0, <2>1, <2>5
  <2>6. CASE IsBalanced
    <3>1. in_flight'[n] = Cardinality(B)
      BY <2>1, <2>3, <2>4, <2>6
    <3> QED
      BY <1>0, <2>4, <2>6, <3>1 DEF B
  <2> QED
    BY <2>5, <2>6
<1> QED
  BY <1>1 DEF InFlightIsExact, Runs, Busy

(* Where in_flight, and who runs, stays as it is. *)
LEMMA InFlightKept ==
    ASSUME Types, InFlightIsExact, NEW r \in Requests, Solo(r), in_flight' = in_flight,
           node'[r] = node[r], stage[r] \in Busy, stage'[r] \in Busy
    PROVE  InFlightIsExact'
<1>1. \A n \in Nodes : Runs(r, n) <=> Runs(r, n)'
  BY DEF Runs
<1> QED
  BY <1>1, InFlightStep

LEMMA InFlightSame ==
    ASSUME Types, InFlightIsExact, NEW r \in Requests, Solo(r), in_flight' = in_flight,
           stage[r] \notin Busy, stage'[r] \notin Busy
    PROVE  InFlightIsExact'
<1>1. \A n \in Nodes : ~Runs(r, n) /\ ~Runs(r, n)'
  BY DEF Runs, Busy
<1> QED
  BY <1>1, InFlightStep

-----------------------------------------------------------------------------
(* Queues *)

(* A queue without r: the others, each once. *)
LEMMA DequeuedFacts ==
    ASSUME Types, NEW r \in Requests, NEW s \in Semaphores, QueueOK(s)
    PROVE  /\ Dequeued(r, s) \in Seq(Requests)
           /\ \A i \in DOMAIN Dequeued(r, s) :
                 \E k \in DOMAIN queue[s] : Dequeued(r, s)[i] = queue[s][k] /\ queue[s][k] # r
           /\ \A i, j \in DOMAIN Dequeued(r, s) : Dequeued(r, s)[i] = Dequeued(r, s)[j] => i = j
<1> DEFINE q == queue[s]
<1>0. q \in Seq(Requests)
  BY DEF Types
<1>u. \A i, j \in DOMAIN q : q[i] = q[j] => i = j
  BY DEF QueueOK
<1>1. CASE ~IsQueued(r, s)
  <2>1. Dequeued(r, s) = q /\ \A k \in DOMAIN q : q[k] # r
    BY <1>1 DEF Dequeued, IsQueued
  <2> QED
    BY <1>0, <1>u, <2>1, Zenon
<1>2. CASE IsQueued(r, s)
  <2> DEFINE x == CHOOSE i \in DOMAIN q : q[i] = r
             d == RemoveAt(q, x)
  <2>1. x \in DOMAIN q /\ q[x] = r
    BY <1>2 DEF IsQueued
  <2>2. Dequeued(r, s) = d
    BY <1>2 DEF Dequeued
  <2> HIDE DEF q, x
  <2>3. /\ d \in Seq(Requests) /\ Len(d) = Len(q) - 1
        /\ \A j \in 1 .. Len(q) - 1 : d[j] = q[IF j < x THEN j ELSE j + 1]
    BY <1>0, <2>1, Removed
  <2>4. DOMAIN q = 1 .. Len(q) /\ Len(q) \in Nat
    BY <1>0, LenProperties
  <2> HIDE DEF d
  <2>5. DOMAIN d = 1 .. Len(q) - 1
    BY <2>3, LenProperties
  <2> DEFINE at(i) == IF i < x THEN i ELSE i + 1
  <2>6. ASSUME NEW i \in DOMAIN d
        PROVE  d[i] = q[at(i)] /\ at(i) \in DOMAIN q /\ at(i) # x
    BY <2>1, <2>3, <2>4, <2>5
  <2>7. ASSUME NEW i \in DOMAIN d, NEW j \in DOMAIN d, at(i) = at(j) PROVE i = j
    BY <2>1, <2>4, <2>5, <2>7
  <2> HIDE DEF at
  <2>8. ASSUME NEW i \in DOMAIN d PROVE \E k \in DOMAIN q : d[i] = q[k] /\ q[k] # r
    BY <1>u, <2>1, <2>6
  <2>9. ASSUME NEW i \in DOMAIN d, NEW j \in DOMAIN d, d[i] = d[j] PROVE i = j
    BY <1>u, <2>6, <2>7, <2>9
  <2> QED
    BY <2>2, <2>3, <2>8, <2>9, Zenon DEF q
<1> QED
  BY <1>1, <1>2

(* The ways in which a step of r changes a queue. *)
LEMMA QueueStep ==
    ASSUME Types, QueueInv, NEW r \in Requests, Solo(r),
           \A s \in Semaphores :
              \/ queue'[s] = queue[s] /\ (IsQueued(r, s) => WaitsAt(r, s)')
              \/ queue'[s] = Dequeued(r, s)
              \/ queue'[s] = Append(queue[s], r) /\ ~IsQueued(r, s) /\ WaitsAt(r, s)'
    PROVE  QueueInv' /\ \A s \in Semaphores : queue'[s] \in Seq(Requests)
<1>1. ASSUME NEW s \in Semaphores PROVE QueueOK(s)' /\ queue'[s] \in Seq(Requests)
  <2>0. QueueOK(s) /\ queue[s] \in Seq(Requests)
    BY DEF QueueInv, Types
  <2>1. ASSUME NEW u \in Requests, u # r, WaitsAt(u, s) PROVE WaitsAt(u, s)'
    <3>1. nodes' = nodes /\ qos' = qos /\ acq'[u] = acq[u]
      BY <2>1 DEF Solo
    <3> QED
      BY <2>1, <3>1 DEF WaitsAt, FirstOf, SecondOf, AcquireOrder, EndpointAt, HostOf
  <2>2. \A k \in DOMAIN queue[s], u \in Requests : queue[s][k] = u /\ u # r => WaitsAt(u, s)'
    BY <2>0, <2>1 DEF QueueOK
  <2>3. \A i, j \in DOMAIN queue[s] : queue[s][i] = queue[s][j] => i = j
    BY <2>0 DEF QueueOK
  <2>4. CASE queue'[s] = queue[s] /\ (IsQueued(r, s) => WaitsAt(r, s)')
    BY <2>0, <2>2, <2>3, <2>4 DEF QueueOK, IsQueued
  <2>5. CASE queue'[s] = Dequeued(r, s)
    <3>1. /\ Dequeued(r, s) \in Seq(Requests)
          /\ \A i \in DOMAIN Dequeued(r, s) :
                \E k \in DOMAIN queue[s] : Dequeued(r, s)[i] = queue[s][k] /\ queue[s][k] # r
          /\ \A i, j \in DOMAIN Dequeued(r, s) : Dequeued(r, s)[i] = Dequeued(r, s)[j] => i = j
      BY <2>0, DequeuedFacts
    <3>2. /\ queue'[s] \in Seq(Requests)
          /\ \A i \in DOMAIN queue'[s] : \E k \in DOMAIN queue[s] : queue'[s][i] = queue[s][k] /\ queue[s][k] # r
          /\ \A i, j \in DOMAIN queue'[s] : queue'[s][i] = queue'[s][j] => i = j
      BY <2>5, <3>1, Zenon
    <3> QED
      BY <2>2, <3>2, Zenon DEF QueueOK
  <2>6. CASE queue'[s] = Append(queue[s], r) /\ ~IsQueued(r, s) /\ WaitsAt(r, s)'
    <3>1. /\ Append(queue[s], r) \in Seq(Requests)
          /\ Len(Append(queue[s], r)) = Len(queue[s]) + 1
          /\ \A i \in DOMAIN Append(queue[s], r) :
                 \/ i \in DOMAIN queue[s] /\ Append(queue[s], r)[i] = queue[s][i]
                 \/ i = Len(queue[s]) + 1 /\ Append(queue[s], r)[i] = r
      BY <2>0, SentPart
    <3>2. /\ queue'[s] \in Seq(Requests)
          /\ \A i \in DOMAIN queue'[s] :
                 \/ i \in DOMAIN queue[s] /\ queue'[s][i] = queue[s][i]
                 \/ i = Len(queue[s]) + 1 /\ queue'[s][i] = r
      BY <2>6, <3>1, Zenon
    <3>3. \A i \in DOMAIN queue[s] : queue[s][i] # r
      BY <2>6 DEF IsQueued
    <3>4. \A i \in DOMAIN queue'[s], u \in Requests : queue'[s][i] = u => WaitsAt(u, s)'
      BY <2>2, <2>6, <3>2, <3>3, Zenon
    <3>5. \A i, j \in DOMAIN queue'[s] : queue'[s][i] = queue'[s][j] => i = j
      BY <2>3, <3>2, <3>3, Zenon
    <3> QED
      BY <3>2, <3>4, <3>5, Zenon DEF QueueOK
  <2> QED
    BY <2>4, <2>5, <2>6
<1> QED
  BY <1>1 DEF QueueInv

(* Who is due a permit is in the queue. *)
LEMMA DueIsQueued ==
    ASSUME Types, NEW r \in Requests, NEW s \in Semaphores, Due(r, s)
    PROVE  IsQueued(r, s)
<1>1. queue[s] \in Seq(Requests) /\ queue[s] # <<>> /\ Head(queue[s]) = r
  BY DEF Types, Due
<1>2. 1 \in DOMAIN queue[s] /\ queue[s][1] = r
  BY <1>1
<1> QED
  BY <1>2 DEF IsQueued

(* A call none of whose acquires is pending is in no queue. *)
LEMMA NotQueued ==
    ASSUME BalancedInv, NEW r \in Requests,
           ~qos \/ \A n \in nodes : acq[r][n] \notin {"first", "second"}
    PROVE  \A s \in Semaphores : ~IsQueued(r, s)
<1> SUFFICES ASSUME NEW s \in Semaphores, IsQueued(r, s) PROVE FALSE
  OBVIOUS
<1>1. WaitsAt(r, s)
  BY DEF BalancedInv, QueueInv, QueueOK, IsQueued
<1> QED
  BY <1>1 DEF WaitsAt

-----------------------------------------------------------------------------
(* Steps that leave the semaphores alone *)

(* A step of r that touches no semaphore, and may use up r's wakeup, if r  *)
(* still waits where it is queued and is about to poll there.              *)
LEMMA CalmStep ==
    ASSUME BalancedInv, NEW r \in Requests, Solo(r), UNCHANGED <<total, outstanding, queue>>,
           woken' \in [Requests -> BOOLEAN], \A u \in Requests : u # r /\ woken[u] => woken'[u],
           stage' \in [Requests -> Stages], acq' \in [Requests -> [Nodes -> AcquireStates]],
           plan' \in [Requests -> Seq(nodes)], node' \in [Requests -> nodes \cup {0}],
           in_flight' \in [Nodes -> Nat], InFlightIsExact',
           StageOK(r)',
           \A s \in Semaphores : IsQueued(r, s) => WaitsAt(r, s)' /\ Attended(r, s)',
           \A s \in Semaphores : Holds(r, s) <=> Holds(r, s)'
    PROVE  BalancedInv'
<1>0. Types /\ StageInv /\ QueueInv /\ PermitsAreOwned /\ WakeInv
  BY DEF BalancedInv
<1>1. UNCHANGED <<total, outstanding, queue, nodes, qos>>
  BY DEF Solo
<1>2. StageInv'
  BY <1>0, StageStep
<1>3. QueueInv'
  BY <1>0, <1>1, QueueStep
<1>4. PermitsAreOwned'
  BY <1>0, <1>1, OwnedStep
<1>5. WakeInv'
  <2>1. ASSUME NEW s \in Semaphores, NEW u \in Requests, Due(u, s)'
        PROVE  Due(u, s) /\ (u = r => Attended(r, s)')
    <3>1. Due(u, s)
      BY <1>1, <2>1 DEF Due
    <3> QED
      BY <1>0, <3>1, DueIsQueued
  <2> QED
    BY <1>0, <2>1, WakeStep
<1>6. Types'
  BY <1>0, <1>1 DEF Types
<1> QED
  BY <1>2, <1>3, <1>4, <1>5, <1>6 DEF BalancedInv

(* The same, where the wakeups too are left alone. *)
LEMMA QuietStep ==
    ASSUME BalancedInv, NEW r \in Requests, Solo(r), UNCHANGED semVars,
           stage' \in [Requests -> Stages], acq' \in [Requests -> [Nodes -> AcquireStates]],
           plan' \in [Requests -> Seq(nodes)], node' \in [Requests -> nodes \cup {0}],
           in_flight' \in [Nodes -> Nat], InFlightIsExact',
           StageOK(r)',
           \A s \in Semaphores : IsQueued(r, s) => WaitsAt(r, s)' /\ Attended(r, s)',
           \A s \in Semaphores : Holds(r, s) <=> Holds(r, s)'
    PROVE  BalancedInv'
<1>1. UNCHANGED <<total, outstanding, queue>> /\ UNCHANGED woken
  BY DEF semVars
<1>2. woken' \in [Requests -> BOOLEAN] /\ \A u \in Requests : u # r /\ woken[u] => woken'[u]
  BY <1>1, Zenon DEF BalancedInv, Types
<1> QED
  BY <1>1, <1>2, CalmStep

(* A call without acquires, before it polls or after it is over. *)
LEMMA IdleStep ==
    ASSUME BalancedInv, NEW r \in Requests, Solo(r), UNCHANGED <<semVars, in_flight>>,
           \A n \in nodes : acq[r][n] = "absent",
           stage[r] \in {"idle", "scoring", "cancelled"},
           stage' \in [Requests -> Stages], acq' \in [Requests -> [Nodes -> AcquireStates]],
           plan' \in [Requests -> Seq(nodes)], node' = node,
           stage'[r] \in {"scoring", "polling", "done"},
           \A n \in nodes : acq'[r][n] \notin {"held", "second"},
           StageOK(r)'
    PROVE  BalancedInv'
<1>0. Types /\ InFlightIsExact
  BY DEF BalancedInv
<1>1. \A s \in Semaphores : ~IsQueued(r, s)
  BY NotQueued
<1>2. InFlightIsExact'
  BY <1>0, InFlightSame DEF Busy
<1>3. \A s \in Semaphores : Holds(r, s) <=> Holds(r, s)'
  BY DEF Holds, Solo, Busy
<1>4. in_flight' \in [Nodes -> Nat] /\ node' \in [Requests -> nodes \cup {0}]
  BY <1>0 DEF Types
<1> QED
  BY <1>1, <1>2, <1>3, <1>4, QuietStep

(* NodeSelectorService::call without nodes, and with several. *)
LEMMA CallKeeps ==
    ASSUME NEW r \in Requests
    PROVE  BalancedInv /\ (call_empty(r) \/ call_balanced(r)) => BalancedInv'
<1>h. SUFFICES ASSUME BalancedInv, call_empty(r) \/ call_balanced(r) PROVE BalancedInv'
  OBVIOUS
<1>0. Types /\ StageOK(r)
  BY <1>h DEF BalancedInv, StageInv
<1>1. PICK to \in {"done", "scoring"} : stage' = [stage EXCEPT ![r] = to]
  BY <1>h DEF call_empty, call_balanced, Goto
<1>2. stage[r] = "idle" /\ UNCHANGED <<nodes, qos, semVars, in_flight, acq, plan, node>>
  BY <1>h DEF call_empty, call_balanced, trackVars
<1>3. /\ stage'[r] = to /\ stage' \in [Requests -> Stages]
      /\ \A u \in Requests : u # r => stage'[u] = stage[u]
  BY <1>0, <1>1 DEF Types, Stages, Busy
<1>4. Solo(r)
  BY <1>2, <1>3 DEF Solo
<1>5. StageOK(r)'
  BY <1>0, <1>2, <1>3 DEF StageOK, Busy
<1>6. \A n \in nodes : acq[r][n] = "absent" /\ acq'[r][n] = "absent"
  BY <1>0, <1>2 DEF StageOK, Types, Busy
<1> QED
  BY <1>h, <1>0, <1>2, <1>3, <1>4, <1>5, <1>6, IdleStep DEF Types

(* NodeSelectorService::call with one node, which is polled. *)
LEMMA CallSingleKeeps ==
    ASSUME NEW r \in Requests
    PROVE  BalancedInv /\ call_single(r) => BalancedInv'
<1>h. SUFFICES ASSUME BalancedInv, call_single(r) PROVE BalancedInv'
  OBVIOUS
<1>0. Types /\ StageOK(r)
  BY <1>h DEF BalancedInv, StageInv
<1>1. /\ stage[r] = "idle" /\ Cardinality(nodes) = 1 /\ stage' = [stage EXCEPT ![r] = "polling"]
      /\ acq' = [acq EXCEPT ![r] = [NoAcquire EXCEPT ![1] = "new"]]
      /\ plan' = [plan EXCEPT ![r] = <<1>>]
      /\ UNCHANGED <<nodes, qos, semVars, in_flight, node>>
  BY <1>h DEF call_single, Goto, Set, trackVars
<1>2. 1 \in nodes /\ 1 \in Nodes
  <2>1. Cardinality({}) = 0
    BY FS_EmptySet
  <2>2. nodes # {}
    BY <1>1, <2>1
  <2> QED
    BY <1>0, <2>2 DEF Types
<1>3. NoAcquire \in [Nodes -> AcquireStates]
  BY DEF NoAcquire, AcquireStates
<1> DEFINE f == [NoAcquire EXCEPT ![1] = "new"]
<1>4. /\ f \in [Nodes -> AcquireStates] /\ f[1] = "new"
      /\ \A n \in Nodes : n # 1 => f[n] = "absent"
  BY <1>2, <1>3 DEF NoAcquire, AcquireStates
<1> HIDE DEF f
<1>5. /\ acq' \in [Requests -> [Nodes -> AcquireStates]] /\ acq'[r] = f
      /\ \A u \in Requests : u # r => acq'[u] = acq[u]
  BY <1>0, <1>1, <1>4 DEF Types, f
<1>6. /\ stage' \in [Requests -> Stages] /\ stage'[r] = "polling"
      /\ \A u \in Requests : u # r => stage'[u] = stage[u]
  BY <1>0, <1>1 DEF Types, Stages, Busy
<1>7. /\ plan' \in [Requests -> Seq(nodes)] /\ plan'[r] = <<1>>
      /\ \A u \in Requests : u # r => plan'[u] = plan[u]
  <2>1. <<1>> \in Seq(nodes)
    BY <1>2
  <2> QED
    BY <1>0, <1>1, <2>1 DEF Types
<1>8. Solo(r)
  BY <1>1, <1>5, <1>6, <1>7 DEF Solo
<1>9. StageOK(r)'
  <2>1. \A i \in DOMAIN plan'[r] : plan'[r][i] = 1
    BY <1>7
  <2> QED
    BY <1>0, <1>1, <1>2, <1>4, <1>5, <1>6, <2>1 DEF StageOK, Busy
<1>10. \A n \in nodes : acq[r][n] = "absent" /\ acq'[r][n] \notin {"held", "second"}
  BY <1>0, <1>1, <1>4, <1>5 DEF StageOK, Types, Busy
<1> QED
  BY <1>h, <1>1, <1>5, <1>6, <1>7, <1>8, <1>9, <1>10, IdleStep

(* An order of polling reaches every node of the set. *)
LEMMA OrdersFacts ==
    ASSUME NEW S, IsFiniteSet(S), NEW p \in Orders(S)
    PROVE  p \in Seq(S) /\ \A x \in S : \E i \in DOMAIN p : p[i] = x
<1> DEFINE k == Cardinality(S)
<1>0. k \in Nat /\ IsFiniteSet(1 .. k) /\ Cardinality(1 .. k) = k
  <2>1. k \in Nat
    BY FS_CardinalityType
  <2> QED
    BY <2>1, FS_Interval
<1>1. p \in [1 .. k -> S] /\ \A i, j \in 1 .. k : i # j => p[i] # p[j]
  BY DEF Orders
<1>2. ASSUME NEW x \in S, \A i \in 1 .. k : p[i] # x PROVE FALSE
  <2> DEFINE T == S \ {x}
  <2>1. IsFiniteSet(T) /\ Cardinality(T) = k - 1
    BY FS_RemoveElement
  <2>2. p \in [1 .. k -> T]
    BY <1>1, <1>2
  <2> HIDE DEF k, T
  <2>3. \E i, j \in 1 .. k : i # j /\ p[i] = p[j]
    BY <1>0, <2>1, <2>2, FS_PigeonHole
  <2> QED
    BY <1>1, <2>3
<1>3. p \in Seq(S) /\ DOMAIN p = 1 .. k
  <2> HIDE DEF k
  <2> QED
    BY <1>0, <1>1, SeqDef
<1> QED
  BY <1>2, <1>3

(* Nothing that BalancedInv speaks of changes: a score is read, or nothing *)
(* happens.                                                                *)
LEMMA SameKeeps ==
    ASSUME BalancedInv, UNCHANGED <<nodes, qos, semVars, in_flight, stage, acq, plan, node>>
    PROVE  BalancedInv'
<1>1. UNCHANGED <<nodes, qos, total, outstanding, queue, woken, in_flight, stage, acq, plan, node>>
  BY DEF semVars
<1>2. Types'
  BY <1>1 DEF BalancedInv, Types
<1>3. StageInv'
  BY <1>1 DEF BalancedInv, StageInv, StageOK, Busy
<1>4. QueueInv'
  BY <1>1 DEF BalancedInv, QueueInv, QueueOK, WaitsAt, FirstOf, SecondOf, AcquireOrder, EndpointAt, HostOf
<1>5. PermitsAreOwned'
  BY <1>1 DEF BalancedInv, PermitsAreOwned, Holds, Held, FirstOf, SecondOf, AcquireOrder, EndpointAt, HostOf, Busy
<1>6. InFlightIsExact'
  BY <1>1 DEF BalancedInv, InFlightIsExact, IsBalanced
<1>7. WakeInv'
  BY <1>1 DEF BalancedInv, WakeInv, Due, Attended
<1> QED
  BY <1>2, <1>3, <1>4, <1>5, <1>6, <1>7 DEF BalancedInv

(* The scores are in, and the nodes to wait for are known. *)
LEMMA FilterKeeps ==
    ASSUME NEW r \in Requests
    PROVE  BalancedInv /\ filter(r) => BalancedInv'
<1>h. SUFFICES ASSUME BalancedInv, filter(r) PROVE BalancedInv'
  OBVIOUS
<1>0. Types /\ StageOK(r)
  BY <1>h DEF BalancedInv, StageInv
<1>1. /\ stage[r] = "scoring" /\ stage' = [stage EXCEPT ![r] = "polling"]
      /\ UNCHANGED <<nodes, qos, semVars, in_flight, node>>
  BY <1>h DEF filter, Goto
<1>2. PICK kept \in SUBSET nodes :
        /\ acq' = [acq EXCEPT ![r] = [m \in Nodes |-> IF m \in kept THEN "new" ELSE "absent"]]
        /\ \E p \in Orders(kept) : plan' = [plan EXCEPT ![r] = p]
  <2>0. PICK n \in nodes : \E v \in Decayed(recent_failures[n]) :
          /\ DOMAIN seen[r] \cup {n} = nodes
          /\ acq' = [acq EXCEPT ![r] = [m \in Nodes |-> IF m \in Eligible(SeenWith(r, n, v)) THEN "new" ELSE "absent"]]
          /\ \E p \in Orders(Eligible(SeenWith(r, n, v))) : plan' = [plan EXCEPT ![r] = p]
    BY <1>h, Zenon DEF filter, Set
  <2>1. PICK v \in Decayed(recent_failures[n]) :
          /\ DOMAIN seen[r] \cup {n} = nodes
          /\ acq' = [acq EXCEPT ![r] = [m \in Nodes |-> IF m \in Eligible(SeenWith(r, n, v)) THEN "new" ELSE "absent"]]
          /\ \E p \in Orders(Eligible(SeenWith(r, n, v))) : plan' = [plan EXCEPT ![r] = p]
    BY <2>0, Zenon
  <2>2. DOMAIN SeenWith(r, n, v) = nodes
    BY <2>1 DEF SeenWith
  <2>3. Eligible(SeenWith(r, n, v)) \in SUBSET nodes
    BY <2>2 DEF Eligible
  <2> QED
    BY <2>1, <2>3
<1>3. PICK p \in Orders(kept) : plan' = [plan EXCEPT ![r] = p]
  BY <1>2
<1>4. p \in Seq(nodes) /\ \A i \in DOMAIN p : p[i] \in kept
  <2>1. IsFiniteSet(Nodes)
    BY BalancedAssumption, FS_Interval DEF Nodes
  <2>2. IsFiniteSet(kept)
    BY <1>0, <2>1, FS_Subset DEF Types
  <2>3. p \in Seq(kept)
    BY <2>2, OrdersFacts
  <2> QED
    BY <2>3, ElementOfSeq, LenProperties
<1> DEFINE f == [m \in Nodes |-> IF m \in kept THEN "new" ELSE "absent"]
<1>5. /\ f \in [Nodes -> AcquireStates]
      /\ \A n \in Nodes : f[n] \in {"new", "absent"} /\ (n \in kept <=> f[n] = "new")
  BY DEF AcquireStates
<1>6. /\ acq' \in [Requests -> [Nodes -> AcquireStates]] /\ acq'[r] = f
      /\ \A u \in Requests : u # r => acq'[u] = acq[u]
  <2>1. acq' = [acq EXCEPT ![r] = f]
    BY <1>2
  <2> HIDE DEF f
  <2> QED
    BY <1>0, <1>5, <2>1 DEF Types
<1> HIDE DEF f
<1>7. /\ stage' \in [Requests -> Stages] /\ stage'[r] = "polling"
      /\ \A u \in Requests : u # r => stage'[u] = stage[u]
  BY <1>0, <1>1 DEF Types, Stages, Busy
<1>8. /\ plan' \in [Requests -> Seq(nodes)] /\ plan'[r] = p
      /\ \A u \in Requests : u # r => plan'[u] = plan[u]
  BY <1>0, <1>3, <1>4 DEF Types
<1>9. Solo(r)
  BY <1>1, <1>6, <1>7, <1>8 DEF Solo
<1>10. StageOK(r)'
  <2>1. \A i \in DOMAIN plan'[r] : acq'[r][plan'[r][i]] # "absent"
    <3>1. kept \subseteq Nodes
      BY <1>0 DEF Types
    <3> QED
      BY <1>4, <1>5, <1>6, <1>8, <3>1
  <2>2. \A n \in Nodes : acq'[r][n] \in {"absent", "new"} /\ (n \notin nodes => acq'[r][n] = "absent")
    BY <1>5, <1>6
  <2>3. node'[r] = 0 /\ nodes' = nodes
    BY <1>0, <1>1 DEF StageOK, Busy
  <2> QED
    BY <1>7, <2>1, <2>2, <2>3 DEF StageOK, Busy
<1>11. \A n \in nodes : acq[r][n] = "absent" /\ acq'[r][n] \notin {"held", "second"}
  <2>1. nodes \subseteq Nodes
    BY <1>0 DEF Types
  <2> QED
    BY <1>0, <1>1, <1>5, <1>6, <2>1 DEF StageOK, Busy
<1> QED
  BY <1>h, <1>1, <1>6, <1>7, <1>8, <1>9, <1>10, <1>11, IdleStep

(* Without limiters the first node polled is acquired. *)
LEMMA UnlimitedKeeps ==
    ASSUME NEW r \in Requests
    PROVE  BalancedInv /\ poll_unlimited(r) => BalancedInv'
<1>h. SUFFICES ASSUME BalancedInv, poll_unlimited(r) PROVE BalancedInv'
  OBVIOUS
<1>0. Types /\ StageOK(r) /\ InFlightIsExact
  BY <1>h DEF BalancedInv, StageInv
<1>1. PICK n \in nodes : Polls(r, n, AcquireStates) /\ Acquired(r, n)
  BY <1>h DEF poll_unlimited
<1>2. /\ ~qos /\ stage[r] = "polling" /\ stage' = [stage EXCEPT ![r] = "acquired"]
      /\ acq' = [acq EXCEPT ![r][n] = "absent"]
      /\ node' = [node EXCEPT ![r] = n] /\ plan' = [plan EXCEPT ![r] = <<>>]
      /\ UNCHANGED <<nodes, qos, semVars, in_flight>>
  BY <1>h, <1>1 DEF poll_unlimited, Polls, Acquired, Goto, Set, trackVars
<1>3. n \in Nodes
  BY <1>0 DEF Types
<1>4. /\ acq' \in [Requests -> [Nodes -> AcquireStates]]
      /\ acq'[r] = [acq[r] EXCEPT ![n] = "absent"]
      /\ \A u \in Requests : u # r => acq'[u] = acq[u]
  BY <1>0, <1>2 DEF Types, AcquireStates
<1>5. /\ stage' \in [Requests -> Stages] /\ stage'[r] = "acquired"
      /\ \A u \in Requests : u # r => stage'[u] = stage[u]
  BY <1>0, <1>2 DEF Types, Stages, Busy
<1>6. /\ plan' \in [Requests -> Seq(nodes)] /\ \A u \in Requests : u # r => plan'[u] = plan[u]
  <2>1. <<>> \in Seq(nodes)
    BY EmptySeq
  <2> QED
    BY <1>0, <1>2, <2>1 DEF Types
<1>7. /\ node' \in [Requests -> nodes \cup {0}] /\ node'[r] = n
      /\ \A u \in Requests : u # r => node'[u] = node[u]
  BY <1>0, <1>2 DEF Types
<1>8. Solo(r)
  BY <1>2, <1>4, <1>5, <1>6, <1>7 DEF Solo
<1>9. StageOK(r)'
  <2>1. /\ acq'[r][n] = "absent" /\ \A m \in Nodes : acq'[r][m] \in {acq[r][m], "absent"}
        /\ acq[r] \in [Nodes -> AcquireStates]
    BY <1>0, <1>3, <1>4 DEF Types
  <2>2. nodes' = nodes /\ qos' = qos
    BY <1>2
  <2>3. /\ \A m \in Nodes \ nodes : acq'[r][m] = "absent"
        /\ \A m \in Nodes : acq'[r][m] \in {"absent", "new"}
    BY <1>0, <1>2, <2>1 DEF StageOK, Busy
  <2> QED
    BY <1>5, <1>7, <2>1, <2>2, <2>3 DEF StageOK, Busy
<1>10. InFlightIsExact' /\ in_flight' \in [Nodes -> Nat]
  BY <1>0, <1>2, <1>5, <1>8, InFlightSame DEF Types, Busy
<1>11. \A s \in Semaphores : ~IsQueued(r, s)
  BY <1>h, <1>2, NotQueued
<1>12. \A s \in Semaphores : Holds(r, s) <=> Holds(r, s)'
  BY <1>2 DEF Holds, Busy
<1> QED
  BY <1>h, <1>2, <1>4, <1>5, <1>6, <1>7, <1>8, <1>9, <1>10, <1>11, <1>12, QuietStep

(* A call that goes on without changing its acquires: the caller cancels   *)
(* it, or it is over.                                                      *)
LEMMA CancelKeeps ==
    ASSUME NEW r \in Requests
    PROVE  BalancedInv /\ (cancel_waiting(r) \/ unwound(r)) => BalancedInv'
<1>h. SUFFICES ASSUME BalancedInv, cancel_waiting(r) \/ unwound(r) PROVE BalancedInv'
  OBVIOUS
<1>0. Types /\ StageOK(r) /\ InFlightIsExact /\ QueueInv
  BY <1>h DEF BalancedInv, StageInv
<1>1. UNCHANGED <<nodes, qos, semVars, in_flight, acq, plan, node>>
  BY <1>h DEF cancel_waiting, unwound, trackVars
<1>2. PICK to \in {"cancelled", "done"} : stage' = [stage EXCEPT ![r] = to]
  BY <1>h DEF cancel_waiting, unwound, Goto
<1>3. /\ stage' \in [Requests -> Stages] /\ stage'[r] = to
      /\ \A u \in Requests : u # r => stage'[u] = stage[u]
  BY <1>0, <1>2 DEF Types, Stages, Busy
<1>4. Solo(r)
  BY <1>1, <1>3 DEF Solo
<1>5. /\ stage[r] \in {"waiting", "cancelled"}
      /\ to = "done" => \A n \in nodes : acq[r][n] = "absent"
  <2>1. CASE cancel_waiting(r)
    <3>1. stage'[r] = "cancelled" /\ stage[r] = "waiting"
      BY <1>0, <2>1 DEF cancel_waiting, Goto, Types
    <3> QED
      BY <1>3, <3>1
  <2>2. CASE unwound(r)
    BY <2>2 DEF unwound, Live
  <2> QED
    BY <1>h, <2>1, <2>2
<1>6. StageOK(r)'
  BY <1>0, <1>1, <1>3, <1>5 DEF StageOK, Busy
<1>7. ASSUME NEW s \in Semaphores, IsQueued(r, s) PROVE WaitsAt(r, s)' /\ Attended(r, s)'
  <2>1. WaitsAt(r, s)
    BY <1>0, <1>7 DEF QueueInv, QueueOK, IsQueued
  <2>2. to # "done"
    BY <1>5, <2>1 DEF WaitsAt
  <2>3. WaitsAt(r, s)'
    BY <1>1, <2>1 DEF WaitsAt, FirstOf, SecondOf, AcquireOrder, EndpointAt, HostOf
  <2>4. stage'[r] = "cancelled"
    BY <1>3, <2>2
  <2> QED
    BY <2>3, <2>4, Zenon DEF Attended
<1>8. \A s \in Semaphores : Holds(r, s) <=> Holds(r, s)'
  BY <1>1, <1>3, <1>5 DEF Holds, FirstOf, AcquireOrder, EndpointAt, Busy
<1>9. InFlightIsExact' /\ in_flight' \in [Nodes -> Nat]
  BY <1>0, <1>1, <1>3, <1>4, <1>5, InFlightSame DEF Types, Busy
<1>10. /\ acq' \in [Requests -> [Nodes -> AcquireStates]] /\ plan' \in [Requests -> Seq(nodes)]
       /\ node' \in [Requests -> nodes \cup {0}]
  BY <1>0, <1>1 DEF Types
<1> QED
  BY <1>h, <1>1, <1>3, <1>4, <1>6, <1>7, <1>8, <1>9, <1>10, QuietStep

(* The call to the acquired node starts once the other acquires are gone. *)
LEMMA StartKeeps ==
    ASSUME NEW r \in Requests
    PROVE  BalancedInv /\ start_call(r) => BalancedInv'
<1>h. SUFFICES ASSUME BalancedInv, start_call(r) PROVE BalancedInv'
  OBVIOUS
<1>0. Types /\ StageOK(r) /\ InFlightIsExact
  BY <1>h DEF BalancedInv, StageInv
<1>1. /\ stage[r] = "acquired" /\ stage' = [stage EXCEPT ![r] = "running"]
      /\ \A n \in nodes : acq[r][n] = "absent"
      /\ in_flight' = [in_flight EXCEPT ![node[r]] = IF IsBalanced THEN in_flight[node[r]] + 1 ELSE @]
      /\ UNCHANGED <<nodes, qos, semVars, acq, plan, node>>
  BY <1>h DEF start_call, Goto, Live, Counted
<1>2. node[r] \in nodes /\ node[r] \in Nodes /\ node'[r] = node[r]
  BY <1>0, <1>1 DEF StageOK, Types, Busy
<1>3. /\ stage' \in [Requests -> Stages] /\ stage'[r] = "running"
      /\ \A u \in Requests : u # r => stage'[u] = stage[u]
  BY <1>0, <1>1 DEF Types, Stages, Busy
<1>4. Solo(r)
  BY <1>1, <1>3 DEF Solo
<1>5. StageOK(r)'
  BY <1>0, <1>1, <1>2, <1>3 DEF StageOK, Busy
<1>6. \A s \in Semaphores : ~IsQueued(r, s)
  BY <1>h, <1>1, NotQueued
<1>7. \A s \in Semaphores : Holds(r, s) <=> Holds(r, s)'
  BY <1>1, <1>3 DEF Holds, Held, FirstOf, SecondOf, AcquireOrder, EndpointAt, HostOf, Busy
<1>8. InFlightIsExact' /\ in_flight' \in [Nodes -> Nat]
  <2>1. ASSUME NEW n \in Nodes
        PROVE  in_flight'[n] = IF IsBalanced /\ n = node[r] THEN in_flight[n] + 1 ELSE in_flight[n]
    BY <1>0, <1>1, <1>2 DEF Types
  <2>2. \A n \in Nodes : ~Runs(r, n) /\ (Runs(r, n)' <=> n = node[r])
    BY <1>1, <1>2, <1>3 DEF Runs, Busy
  <2>3. InFlightIsExact' /\ \A n \in Nodes : in_flight'[n] \in Nat
    BY <1>0, <1>4, <2>1, <2>2, InFlightStep
  <2>4. in_flight' = [n \in Nodes |-> in_flight'[n]]
    BY <1>0, <1>1 DEF Types
  <2> QED
    BY <2>3, <2>4
<1>9. /\ acq' \in [Requests -> [Nodes -> AcquireStates]] /\ plan' \in [Requests -> Seq(nodes)]
      /\ node' \in [Requests -> nodes \cup {0}]
  BY <1>0, <1>1 DEF Types
<1> QED
  BY <1>h, <1>1, <1>3, <1>4, <1>5, <1>6, <1>7, <1>8, <1>9, QuietStep

(* A woken task polls all its acquires again: it sees to every semaphore   *)
(* it waits at.                                                            *)
LEMMA RepollKeeps ==
    ASSUME NEW r \in Requests
    PROVE  BalancedInv /\ repoll(r) => BalancedInv'
<1>h. SUFFICES ASSUME BalancedInv, repoll(r) PROVE BalancedInv'
  OBVIOUS
<1>0. Types /\ StageOK(r) /\ InFlightIsExact /\ QueueInv
  BY <1>h DEF BalancedInv, StageInv
<1>1. /\ stage[r] = "waiting" /\ stage' = [stage EXCEPT ![r] = "polling"]
      /\ UNCHANGED <<nodes, qos, total, outstanding, queue, in_flight, acq, node>>
  BY <1>h DEF repoll, Goto, trackVars
<1>2. woken' = [woken EXCEPT ![r] = FALSE]
  BY <1>h DEF repoll, Set
<1>3. PICK p \in Orders(Live(r)) : plan' = [plan EXCEPT ![r] = p]
  BY <1>h DEF repoll, Set
<1>4. /\ p \in Seq(nodes) /\ \A i \in DOMAIN p : p[i] \in Live(r)
      /\ \A n \in Live(r) : \E i \in DOMAIN p : p[i] = n
  <2>1. IsFiniteSet(Nodes)
    BY BalancedAssumption, FS_Interval DEF Nodes
  <2>2. Live(r) \in SUBSET Nodes /\ Live(r) \subseteq nodes
    BY <1>0 DEF Types, Live
  <2>3. IsFiniteSet(Live(r))
    BY <2>1, <2>2, FS_Subset
  <2>4. p \in Seq(Live(r)) /\ \A n \in Live(r) : \E i \in DOMAIN p : p[i] = n
    BY <2>3, OrdersFacts
  <2>5. \A i \in DOMAIN p : p[i] \in Live(r)
    BY <2>4, ElementOfSeq, LenProperties
  <2>6. p \in Seq(nodes)
    <3>1. DOMAIN p = 1 .. Len(p) /\ Len(p) \in Nat /\ p \in [1 .. Len(p) -> Live(r)]
      BY <2>4, LenProperties
    <3>2. p \in [1 .. Len(p) -> nodes]
      BY <2>2, <3>1
    <3> QED
      BY <3>1, <3>2, SeqDef
  <2> QED
    BY <2>4, <2>5, <2>6
<1>5. /\ stage' \in [Requests -> Stages] /\ stage'[r] = "polling"
      /\ \A u \in Requests : u # r => stage'[u] = stage[u]
  BY <1>0, <1>1 DEF Types, Stages, Busy
<1>6. /\ plan' \in [Requests -> Seq(nodes)] /\ plan'[r] = p
      /\ \A u \in Requests : u # r => plan'[u] = plan[u]
  BY <1>0, <1>3, <1>4 DEF Types
<1>7. woken' \in [Requests -> BOOLEAN] /\ \A u \in Requests : u # r /\ woken[u] => woken'[u]
  BY <1>0, <1>2, Zenon DEF Types
<1>8. Solo(r)
  BY <1>1, <1>5, <1>6 DEF Solo
<1>9. StageOK(r)'
  <2>1. \A i \in DOMAIN plan'[r] : acq'[r][plan'[r][i]] # "absent"
    BY <1>1, <1>4, <1>6 DEF Live
  <2> QED
    BY <1>0, <1>1, <1>5, <2>1 DEF StageOK, Busy
<1>10. ASSUME NEW s \in Semaphores, IsQueued(r, s) PROVE WaitsAt(r, s)' /\ Attended(r, s)'
  <2>1. WaitsAt(r, s)
    BY <1>0, <1>10 DEF QueueInv, QueueOK, IsQueued
  <2>2. WaitsAt(r, s)'
    BY <1>1, <2>1 DEF WaitsAt, FirstOf, SecondOf, AcquireOrder, EndpointAt, HostOf
  <2>3. PICK n \in nodes : (s = FirstOf(r, n) \/ s = SecondOf(r, n)) /\ acq[r][n] # "absent"
    BY <2>1 DEF WaitsAt
  <2>4. s[1] = n
    BY <1>0, <2>3, SemaphoreFacts DEF Types
  <2>5. PICK i \in DOMAIN p : p[i] = n
    BY <1>4, <2>3 DEF Live
  <2>6. \E k \in DOMAIN plan'[r] : plan'[r][k] = s[1]
    BY <1>6, <2>4, <2>5
  <2> QED
    BY <1>5, <2>2, <2>6, Zenon DEF Attended
<1>11. \A s \in Semaphores : Holds(r, s) <=> Holds(r, s)'
  BY <1>1, <1>5 DEF Holds, FirstOf, AcquireOrder, EndpointAt, Busy
<1>12. InFlightIsExact' /\ in_flight' \in [Nodes -> Nat]
  BY <1>0, <1>1, <1>5, <1>8, InFlightSame DEF Types, Busy
<1>13. acq' \in [Requests -> [Nodes -> AcquireStates]] /\ node' \in [Requests -> nodes \cup {0}]
  BY <1>0, <1>1 DEF Types
<1> QED
  BY <1>h, <1>1, <1>5, <1>6, <1>7, <1>8, <1>9, <1>10, <1>11, <1>12, <1>13, CalmStep

-----------------------------------------------------------------------------
(* Steps that take or give back permits *)

(* A step of r that pays for the permits it takes, gives back those it     *)
(* drops, and wakes the first in the queue of every semaphore it touches   *)
(* (W).                                                                    *)
LEMMA PermitStep ==
    ASSUME BalancedInv, NEW r \in Requests, NEW W \in SUBSET Semaphores, Solo(r), Wake(W),
           outstanding' = [s \in Semaphores |-> outstanding'[s]],
           queue' = [s \in Semaphores |-> queue'[s]], DOMAIN total' = Semaphores,
           stage' \in [Requests -> Stages], acq' \in [Requests -> [Nodes -> AcquireStates]],
           plan' \in [Requests -> Seq(nodes)], node' \in [Requests -> nodes \cup {0}],
           in_flight' \in [Nodes -> Nat], InFlightIsExact',
           StageOK(r)',
           \A s \in Semaphores :
              \/ queue'[s] = queue[s] /\ (IsQueued(r, s) => WaitsAt(r, s)')
              \/ queue'[s] = Dequeued(r, s),
           \A s \in Semaphores :
              /\ (Holds(r, s) <=> Holds(r, s)') => outstanding'[s] = outstanding[s]
              /\ Holds(r, s)' /\ ~Holds(r, s) => outstanding'[s] = outstanding[s] + 1
              /\ Holds(r, s) /\ ~Holds(r, s)' => outstanding'[s] = outstanding[s] - 1,
           \A s \in Semaphores \ W :
              /\ queue'[s] = queue[s] /\ outstanding'[s] = outstanding[s] /\ total'[s] = total[s]
              /\ Due(r, s) /\ Attended(r, s) => Attended(r, s)'
    PROVE  BalancedInv'
<1>0. Types /\ StageInv /\ QueueInv /\ PermitsAreOwned /\ WakeInv
  BY DEF BalancedInv
<1>1. UNCHANGED <<nodes, qos>>
  BY DEF Solo
<1>2. StageInv'
  BY <1>0, StageStep
<1>3. QueueInv' /\ \A s \in Semaphores : queue'[s] \in Seq(Requests)
  BY <1>0, QueueStep
<1>4. PermitsAreOwned' /\ \A s \in Semaphores : outstanding'[s] \in Nat
  BY <1>0, OwnedStep
<1>5. /\ woken' \in [Requests -> BOOLEAN]
      /\ \A u \in Requests : woken[u] => woken'[u]
      /\ \A s \in W, u \in Requests : Due(u, s)' => woken'[u]
  BY <1>0, WakeFacts
<1>6. WakeInv'
  <2>1. ASSUME NEW s \in Semaphores, NEW u \in Requests, Due(u, s)'
        PROVE  Attended(u, s)' \/ (Due(u, s) /\ (u = r => Attended(r, s)'))
    <3>1. CASE s \in W
      <4>1. woken'[u]
        BY <1>5, <2>1, <3>1
      <4> QED
        BY <4>1, Zenon DEF Attended
    <3>2. CASE s \notin W
      <4>1. queue'[s] = queue[s] /\ outstanding'[s] = outstanding[s] /\ total'[s] = total[s]
        BY <3>2
      <4>2. Due(u, s)
        BY <2>1, <4>1 DEF Due
      <4>3. Attended(u, s)
        BY <1>0, <4>2 DEF WakeInv
      <4>4. u = r => Attended(r, s)'
        BY <3>2, <4>2, <4>3
      <4> QED
        BY <4>2, <4>4
    <3> QED
      BY <3>1, <3>2
  <2> QED
    BY <1>0, <1>5, <2>1, WakeStep
<1>7. Types'
  <2>1. outstanding' \in [Semaphores -> Nat]
    BY <1>4
  <2>2. queue' \in [Semaphores -> Seq(Requests)]
    BY <1>3
  <2>3. qos' \in BOOLEAN /\ nodes' \subseteq Nodes /\ (nodes' # {} => 1 \in nodes')
    BY <1>0, <1>1, Zenon DEF Types
  <2>4. plan' \in [Requests -> Seq(nodes')] /\ node' \in [Requests -> nodes' \cup {0}]
    BY <1>1
  <2> QED
    BY <1>5, <2>1, <2>2, <2>3, <2>4, Zenon DEF Types
<1> QED
  BY <1>2, <1>3, <1>4, <1>6, <1>7 DEF BalancedInv

(* What Take does, one semaphore at a time. *)
LEMMA TakeFacts ==
    ASSUME Types, NEW r \in Requests, NEW t \in Semaphores, Take(r, t)
    PROVE  /\ outstanding' = [s \in Semaphores |-> outstanding'[s]]
           /\ queue' = [s \in Semaphores |-> queue'[s]] /\ DOMAIN total' = Semaphores
           /\ outstanding'[t] = outstanding[t] + 1 /\ queue'[t] = Dequeued(r, t)
           /\ \A s \in Semaphores \ {t} :
                 queue'[s] = queue[s] /\ outstanding'[s] = outstanding[s] /\ total'[s] = total[s]
           /\ Wake({t})
<1>1. /\ outstanding' = [outstanding EXCEPT ![t] = @ + 1]
      /\ queue' = [queue EXCEPT ![t] = Dequeued(r, t)]
      /\ UNCHANGED total /\ Wake({t})
  BY DEF Take
<1>2. /\ outstanding \in [Semaphores -> Nat] /\ queue \in [Semaphores -> Seq(Requests)]
      /\ DOMAIN total = Semaphores
  BY DEF Types
<1> QED
  BY <1>1, <1>2

(* Polling does not touch the wakeups of other nodes. *)
LEMMA StillAttended ==
    ASSUME NEW r \in Requests, NEW s \in Semaphores, Attended(r, s), woken[r] => woken'[r],
           \/ stage'[r] = stage[r] /\ plan'[r] = plan[r]
           \/ stage'[r] \in {"acquired", "cancelled"}
    PROVE  Attended(r, s)'
  BY Zenon DEF Attended

(* The endpoint's permit. *)
LEMMA PollFirstKeeps ==
    ASSUME NEW r \in Requests
    PROVE  BalancedInv /\ poll_first(r) => BalancedInv'
<1>h. SUFFICES ASSUME BalancedInv, poll_first(r) PROVE BalancedInv'
  OBVIOUS
<1>0. Types /\ StageOK(r) /\ InFlightIsExact /\ QueueInv
  BY <1>h DEF BalancedInv, StageInv
<1>1. PICK n \in nodes : /\ Polls(r, n, {"new", "first"}) /\ Take(r, FirstOf(r, n))
                         /\ acq' = [acq EXCEPT ![r][n] = "held"]
  BY <1>h DEF poll_first
<1> DEFINE t == FirstOf(r, n)
<1>2. /\ qos /\ stage[r] = "polling" /\ acq[r][n] \in {"new", "first"} /\ n \in Nodes
      /\ UNCHANGED <<nodes, qos, in_flight, stage, plan, node>>
  BY <1>h, <1>0, <1>1 DEF poll_first, Polls, trackVars, Types
<1>3. t \in Semaphores
  BY <1>2, SemaphoreFacts
<1>4. /\ acq' \in [Requests -> [Nodes -> AcquireStates]]
      /\ acq'[r][n] = "held" /\ \A m \in Nodes : m # n => acq'[r][m] = acq[r][m]
      /\ \A u \in Requests : u # r => acq'[u] = acq[u]
  BY <1>0, <1>1, <1>2 DEF Types, AcquireStates
<1>5. Solo(r)
  BY <1>2, <1>4 DEF Solo
<1>6. StageOK(r)'
  <2>1. nodes \subseteq Nodes /\ plan[r] \in Seq(nodes)
    BY <1>0 DEF Types
  <2>2. \A i \in DOMAIN plan[r] : acq'[r][plan[r][i]] # "absent"
    <3>1. \A i \in DOMAIN plan[r] : plan[r][i] \in Nodes
      BY <2>1, ElementOfSeq, LenProperties
    <3>2. \A i \in DOMAIN plan[r] : acq[r][plan[r][i]] # "absent"
      BY <1>0, <1>2 DEF StageOK, Busy
    <3> QED
      BY <1>4, <3>1, <3>2
  <2> QED
    BY <1>0, <1>2, <1>4, <2>2 DEF StageOK, Busy
<1>7. InFlightIsExact' /\ in_flight' \in [Nodes -> Nat]
  BY <1>0, <1>2, <1>5, InFlightSame DEF Types, Busy
<1>8. /\ outstanding' = [s \in Semaphores |-> outstanding'[s]]
      /\ queue' = [s \in Semaphores |-> queue'[s]] /\ DOMAIN total' = Semaphores
      /\ outstanding'[t] = outstanding[t] + 1 /\ queue'[t] = Dequeued(r, t)
      /\ \A s \in Semaphores \ {t} :
            queue'[s] = queue[s] /\ outstanding'[s] = outstanding[s] /\ total'[s] = total[s]
      /\ Wake({t})
  <2> HIDE DEF t
  <2>1. Take(r, t)
    BY <1>1 DEF t
  <2> QED
    BY <1>0, <1>3, <2>1, TakeFacts
<1>9. ASSUME NEW s \in Semaphores, s # t, IsQueued(r, s) PROVE WaitsAt(r, s)'
  <2>1. WaitsAt(r, s)
    BY <1>0, <1>9 DEF QueueInv, QueueOK, IsQueued
  <2>2. PICK m \in nodes : \/ s = FirstOf(r, m) /\ acq[r][m] = "first"
                           \/ s = SecondOf(r, m) /\ acq[r][m] = "second"
    BY <2>1 DEF WaitsAt
  <2>3. m # n /\ m \in Nodes
    BY <1>0, <1>2, <1>9, <2>2 DEF Types
  <2> QED
    BY <1>2, <1>4, <2>2, <2>3 DEF WaitsAt, FirstOf, SecondOf, AcquireOrder, EndpointAt, HostOf
<1>10. ASSUME NEW s \in Semaphores
       PROVE  /\ s = t => ~Holds(r, s) /\ Holds(r, s)'
              /\ s # t => (Holds(r, s) <=> Holds(r, s)')
  <2>1. Holds(r, s) <=> \E m \in nodes : acq[r][m] \in {"held", "second"} /\ s = FirstOf(r, m)
    BY <1>2 DEF Holds, Busy
  <2>2. Holds(r, s)' <=> \E m \in nodes : acq'[r][m] \in {"held", "second"} /\ s = FirstOf(r, m)
    BY <1>2 DEF Holds, FirstOf, AcquireOrder, EndpointAt, Busy
  <2>3. \A m \in nodes : m \in Nodes /\ (FirstOf(r, m) = t => m = n)
    BY <1>0, <1>2, SemaphoreFacts DEF Types
  <2>4. s = t => ~Holds(r, s) /\ Holds(r, s)'
    BY <1>2, <1>4, <2>1, <2>2, <2>3
  <2>5. s # t => (Holds(r, s) <=> Holds(r, s)')
    BY <1>2, <1>4, <2>1, <2>2, <2>3
  <2> QED
    BY <2>4, <2>5
<1>11. \A s \in Semaphores \ {t} : Due(r, s) /\ Attended(r, s) => Attended(r, s)'
  <2>1. woken[r] => woken'[r]
    BY <1>0, <1>8, WakeFacts
  <2>2. stage'[r] = stage[r] /\ plan'[r] = plan[r]
    BY <1>2
  <2> QED
    BY <2>1, <2>2, StillAttended
<1>12. /\ stage' \in [Requests -> Stages] /\ plan' \in [Requests -> Seq(nodes)]
       /\ node' \in [Requests -> nodes \cup {0}] /\ {t} \in SUBSET Semaphores
  BY <1>0, <1>2, <1>3 DEF Types
<1> HIDE DEF t
<1>13. \A s \in Semaphores :
          /\ (Holds(r, s) <=> Holds(r, s)') => outstanding'[s] = outstanding[s]
          /\ Holds(r, s)' /\ ~Holds(r, s) => outstanding'[s] = outstanding[s] + 1
          /\ Holds(r, s) /\ ~Holds(r, s)' => outstanding'[s] = outstanding[s] - 1
  BY <1>8, <1>10
<1>14. \A s \in Semaphores :
          \/ queue'[s] = queue[s] /\ (IsQueued(r, s) => WaitsAt(r, s)')
          \/ queue'[s] = Dequeued(r, s)
  BY <1>8, <1>9
<1> QED
  BY <1>h, <1>4, <1>5, <1>6, <1>7, <1>8, <1>11, <1>12, <1>13, <1>14, PermitStep

(* The host's permit: the node is acquired. *)
LEMMA PollSecondKeeps ==
    ASSUME NEW r \in Requests
    PROVE  BalancedInv /\ poll_second(r) => BalancedInv'
<1>h. SUFFICES ASSUME BalancedInv, poll_second(r) PROVE BalancedInv'
  OBVIOUS
<1>0. Types /\ StageOK(r) /\ InFlightIsExact /\ QueueInv
  BY <1>h DEF BalancedInv, StageInv
<1>1. PICK n \in nodes : /\ Polls(r, n, {"held", "second"}) /\ Take(r, SecondOf(r, n))
                         /\ Acquired(r, n)
  BY <1>h DEF poll_second
<1> DEFINE t == SecondOf(r, n)
<1>2. /\ qos /\ stage[r] = "polling" /\ acq[r][n] \in {"held", "second"} /\ n \in Nodes
      /\ stage' = [stage EXCEPT ![r] = "acquired"] /\ acq' = [acq EXCEPT ![r][n] = "absent"]
      /\ node' = [node EXCEPT ![r] = n] /\ plan' = [plan EXCEPT ![r] = <<>>]
      /\ UNCHANGED <<nodes, qos, in_flight>>
  BY <1>h, <1>0, <1>1 DEF poll_second, Polls, Acquired, Goto, Set, trackVars, Types
<1>3. t \in Semaphores /\ {t} \in SUBSET Semaphores
  BY <1>2, SemaphoreFacts
<1>4. /\ acq' \in [Requests -> [Nodes -> AcquireStates]]
      /\ acq'[r][n] = "absent" /\ \A m \in Nodes : m # n => acq'[r][m] = acq[r][m]
      /\ \A u \in Requests : u # r => acq'[u] = acq[u]
  BY <1>0, <1>2 DEF Types, AcquireStates
<1>5. /\ stage' \in [Requests -> Stages] /\ stage'[r] = "acquired"
      /\ \A u \in Requests : u # r => stage'[u] = stage[u]
  BY <1>0, <1>2 DEF Types, Stages, Busy
<1>6. plan' \in [Requests -> Seq(nodes)] /\ \A u \in Requests : u # r => plan'[u] = plan[u]
  <2>1. <<>> \in Seq(nodes)
    BY EmptySeq
  <2> QED
    BY <1>0, <1>2, <2>1 DEF Types
<1>7. /\ node' \in [Requests -> nodes \cup {0}] /\ node'[r] = n
      /\ \A u \in Requests : u # r => node'[u] = node[u]
  BY <1>0, <1>2 DEF Types
<1>8. Solo(r)
  BY <1>2, <1>4, <1>5, <1>6, <1>7 DEF Solo
<1>9. StageOK(r)'
  <2>1. nodes' = nodes /\ qos' = qos
    BY <1>2
  <2>2. \A m \in Nodes \ nodes : acq'[r][m] = "absent"
    BY <1>0, <1>4 DEF StageOK, Busy
  <2> QED
    BY <1>2, <1>4, <1>5, <1>7, <2>1, <2>2 DEF StageOK, Busy
<1>10. InFlightIsExact' /\ in_flight' \in [Nodes -> Nat]
  BY <1>0, <1>2, <1>5, <1>8, InFlightSame DEF Types, Busy
<1>11. /\ outstanding' = [s \in Semaphores |-> outstanding'[s]]
       /\ queue' = [s \in Semaphores |-> queue'[s]] /\ DOMAIN total' = Semaphores
       /\ outstanding'[t] = outstanding[t] + 1 /\ queue'[t] = Dequeued(r, t)
       /\ \A s \in Semaphores \ {t} :
             queue'[s] = queue[s] /\ outstanding'[s] = outstanding[s] /\ total'[s] = total[s]
       /\ Wake({t})
  <2> HIDE DEF t
  <2>1. Take(r, t)
    BY <1>1 DEF t
  <2> QED
    BY <1>0, <1>3, <2>1, TakeFacts
<1>12. ASSUME NEW s \in Semaphores, s # t, IsQueued(r, s) PROVE WaitsAt(r, s)'
  <2>1. WaitsAt(r, s)
    BY <1>0, <1>12 DEF QueueInv, QueueOK, IsQueued
  <2>2. PICK m \in nodes : \/ s = FirstOf(r, m) /\ acq[r][m] = "first"
                           \/ s = SecondOf(r, m) /\ acq[r][m] = "second"
    BY <2>1 DEF WaitsAt
  <2>3. m # n /\ m \in Nodes
    BY <1>0, <1>2, <1>12, <2>2 DEF Types
  <2> QED
    BY <1>2, <1>4, <2>2, <2>3 DEF WaitsAt, FirstOf, SecondOf, AcquireOrder, EndpointAt, HostOf
<1>13. ASSUME NEW s \in Semaphores
       PROVE  /\ s = t => ~Holds(r, s) /\ Holds(r, s)'
              /\ s # t => (Holds(r, s) <=> Holds(r, s)')
  <2>1. Holds(r, s) <=> \E m \in nodes : acq[r][m] \in {"held", "second"} /\ s = FirstOf(r, m)
    BY <1>2 DEF Holds, Busy
  <2>2. Holds(r, s)' <=> \/ \E m \in nodes : acq'[r][m] \in {"held", "second"} /\ s = FirstOf(r, m)
                         \/ s = FirstOf(r, n) \/ s = t
    <3>1. Held(r)' = {FirstOf(r, n), t}
      BY <1>2, <1>7 DEF Held, FirstOf, SecondOf, AcquireOrder, EndpointAt, HostOf, Busy
    <3> QED
      BY <1>2, <1>5, <3>1 DEF Holds, FirstOf, AcquireOrder, EndpointAt, Busy
  <2>3. \A m \in nodes : m \in Nodes /\ FirstOf(r, m) # t
    BY <1>0, <1>2, SemaphoreFacts DEF Types
  <2>4. s = t => ~Holds(r, s) /\ Holds(r, s)'
    BY <2>1, <2>2, <2>3
  <2>5. s # t => (Holds(r, s) <=> Holds(r, s)')
    BY <1>2, <1>4, <2>1, <2>2, <2>3
  <2> QED
    BY <2>4, <2>5
<1>14. \A s \in Semaphores \ {t} : Due(r, s) /\ Attended(r, s) => Attended(r, s)'
  <2>1. woken[r] => woken'[r]
    BY <1>0, <1>11, WakeFacts
  <2>2. stage'[r] \in {"acquired", "cancelled"}
    BY <1>5
  <2> QED
    BY <2>1, <2>2, StillAttended
<1> HIDE DEF t
<1>15. \A s \in Semaphores :
          /\ (Holds(r, s) <=> Holds(r, s)') => outstanding'[s] = outstanding[s]
          /\ Holds(r, s)' /\ ~Holds(r, s) => outstanding'[s] = outstanding[s] + 1
          /\ Holds(r, s) /\ ~Holds(r, s)' => outstanding'[s] = outstanding[s] - 1
  BY <1>11, <1>13
<1>16. \A s \in Semaphores :
          \/ queue'[s] = queue[s] /\ (IsQueued(r, s) => WaitsAt(r, s)')
          \/ queue'[s] = Dequeued(r, s)
  BY <1>11, <1>12
<1>17. \A s \in Semaphores \ {t} :
          /\ queue'[s] = queue[s] /\ outstanding'[s] = outstanding[s] /\ total'[s] = total[s]
          /\ Due(r, s) /\ Attended(r, s) => Attended(r, s)'
  BY <1>11, <1>14
<1>18. /\ outstanding' = [s \in Semaphores |-> outstanding'[s]]
       /\ queue' = [s \in Semaphores |-> queue'[s]] /\ DOMAIN total' = Semaphores /\ Wake({t})
  BY <1>11
<1> QED
  BY <1>h, <1>3, <1>4, <1>5, <1>6, <1>7, <1>8, <1>9, <1>10, <1>15, <1>16, <1>17, <1>18, PermitStep

(* Of the calls that acquired a node, or were cancelled, the remaining     *)
(* acquires are dropped: each leaves its queue, gives back the endpoint's  *)
(* permit if it has one, and passes its wakeup on.                         *)
LEMMA DropKeeps ==
    ASSUME NEW r \in Requests
    PROVE  BalancedInv /\ drop_acquire(r) => BalancedInv'
<1>h. SUFFICES ASSUME BalancedInv, drop_acquire(r) PROVE BalancedInv'
  OBVIOUS
<1>0. Types /\ StageOK(r) /\ InFlightIsExact /\ QueueInv
  BY <1>h DEF BalancedInv, StageInv
<1>1. PICK n \in Live(r) : Leave(r, n) /\ acq' = [acq EXCEPT ![r][n] = "absent"]
  BY <1>h DEF drop_acquire
<1> DEFINE f == FirstOf(r, n)
           g == SecondOf(r, n)
           W == {f, g}
           S == IF acq[r][n] \in {"held", "second"} THEN {f} ELSE {}
<1>2. /\ stage[r] \in {"acquired", "cancelled"} /\ n \in nodes /\ n \in Nodes
      /\ acq[r][n] # "absent"
      /\ UNCHANGED <<nodes, qos, in_flight, stage, plan, node>>
  BY <1>h, <1>0, <1>1 DEF drop_acquire, Live, trackVars, Types
<1>3. /\ outstanding' = [s \in Semaphores |-> IF s \in S THEN outstanding[s] - 1 ELSE outstanding[s]]
      /\ queue' = [s \in Semaphores |-> IF s \in {q \in W : IsQueued(r, q)} THEN Dequeued(r, s) ELSE queue[s]]
      /\ total' = total /\ Wake(W)
  BY <1>1 DEF Leave, Abandon
<1>4. f \in Semaphores /\ W \in SUBSET Semaphores
  BY <1>2, SemaphoreFacts
<1>5. /\ acq' \in [Requests -> [Nodes -> AcquireStates]]
      /\ acq'[r][n] = "absent" /\ \A m \in Nodes : m # n => acq'[r][m] = acq[r][m]
      /\ \A u \in Requests : u # r => acq'[u] = acq[u]
  BY <1>0, <1>1, <1>2 DEF Types, AcquireStates
<1>6. Solo(r)
  BY <1>2, <1>5 DEF Solo
<1>7. StageOK(r)'
  <2>1. \A m \in Nodes : acq[r][m] = "absent" => acq'[r][m] = "absent"
    BY <1>5
  <2>2. stage[r] = "acquired" => node[r] \in Nodes
    BY <1>0 DEF StageOK, Types, Busy
  <2>3. ~qos => \A m \in Nodes : acq'[r][m] \in {"absent", "new"}
    BY <1>0, <1>5 DEF StageOK, Busy
  <2> QED
    BY <1>0, <1>2, <2>1, <2>2, <2>3 DEF StageOK, Busy
<1>8. InFlightIsExact' /\ in_flight' \in [Nodes -> Nat]
  BY <1>0, <1>2, <1>6, InFlightSame DEF Types, Busy
<1>9. ASSUME NEW s \in Semaphores, s \notin W, IsQueued(r, s) PROVE WaitsAt(r, s)'
  <2>1. WaitsAt(r, s)
    BY <1>0, <1>9 DEF QueueInv, QueueOK, IsQueued
  <2>2. PICK m \in nodes : \/ s = FirstOf(r, m) /\ acq[r][m] = "first"
                           \/ s = SecondOf(r, m) /\ acq[r][m] = "second"
    BY <2>1 DEF WaitsAt
  <2>3. m # n /\ m \in Nodes /\ qos
    BY <1>0, <1>9, <2>1, <2>2 DEF Types, WaitsAt
  <2> QED
    BY <1>2, <1>5, <2>2, <2>3 DEF WaitsAt, FirstOf, SecondOf, AcquireOrder, EndpointAt, HostOf
<1>10. ASSUME NEW s \in Semaphores
       PROVE  /\ s \in S => Holds(r, s) /\ ~Holds(r, s)'
              /\ s \notin S => (Holds(r, s) <=> Holds(r, s)')
  <2> DEFINE before == \E m \in nodes : acq[r][m] \in {"held", "second"} /\ s = FirstOf(r, m)
             after == \E m \in nodes : acq'[r][m] \in {"held", "second"} /\ s = FirstOf(r, m)
             own == stage[r] = "acquired" /\ s \in Held(r)
  <2>1. CASE ~qos
    <3>1. S = {}
      BY <1>0, <1>2, <2>1 DEF StageOK, Busy
    <3> QED
      BY <1>2, <2>1, <3>1 DEF Holds, Busy
  <2>2. CASE qos
    <3>1. Holds(r, s) <=> before \/ own
      BY <1>2, <2>2 DEF Holds, Busy
    <3>2. Holds(r, s)' <=> after \/ own
      BY <1>2, <2>2 DEF Holds, Held, FirstOf, SecondOf, AcquireOrder, EndpointAt, HostOf, Busy
    <3>3. \A m \in nodes : m \in Nodes /\ (FirstOf(r, m) = f => m = n)
      BY <1>0, <1>2, SemaphoreFacts DEF Types
    <3>4. s = f => ~own
      <4>1. ASSUME own PROVE s # f
        <5>1. node[r] \in nodes /\ acq[r][node[r]] = "absent"
          BY <1>0, <4>1 DEF StageOK, Busy
        <5>2. node[r] \in Nodes /\ node[r] # n
          BY <1>2, <3>3, <5>1
        <5>3. s = FirstOf(r, node[r]) \/ s = SecondOf(r, node[r])
          BY <2>2, <4>1 DEF Held, Busy, FirstOf, SecondOf, AcquireOrder
        <5> QED
          BY <1>2, <5>2, <5>3, SemaphoreFacts
      <4> QED
        BY <4>1
    <3>5. s \in S => before /\ ~after /\ s = f
      BY <1>2, <1>5, <3>3
    <3>6. s \notin S => (before <=> after)
      BY <1>2, <1>5, <3>3
    <3> HIDE DEF before, after, own, S
    <3> QED
      BY <3>1, <3>2, <3>4, <3>5, <3>6
  <2> QED
    BY <2>1, <2>2
<1>11. \A s \in Semaphores \ W : Due(r, s) /\ Attended(r, s) => Attended(r, s)'
  <2>1. woken[r] => woken'[r]
    BY <1>0, <1>3, WakeFacts
  <2>2. stage'[r] \in {"acquired", "cancelled"}
    BY <1>2
  <2> QED
    BY <2>1, <2>2, StillAttended
<1>12. /\ stage' \in [Requests -> Stages] /\ plan' \in [Requests -> Seq(nodes)]
       /\ node' \in [Requests -> nodes \cup {0}]
  BY <1>0, <1>2 DEF Types
<1>13. S \subseteq W
  OBVIOUS
<1> HIDE DEF f, g, W, S
<1>14. \A s \in Semaphores :
          /\ s \in S => outstanding'[s] = outstanding[s] - 1
          /\ s \notin S => outstanding'[s] = outstanding[s]
          /\ s \in W /\ IsQueued(r, s) => queue'[s] = Dequeued(r, s)
          /\ ~(s \in W /\ IsQueued(r, s)) => queue'[s] = queue[s]
  BY <1>3
<1>15. \A s \in Semaphores :
          /\ (Holds(r, s) <=> Holds(r, s)') => outstanding'[s] = outstanding[s]
          /\ Holds(r, s)' /\ ~Holds(r, s) => outstanding'[s] = outstanding[s] + 1
          /\ Holds(r, s) /\ ~Holds(r, s)' => outstanding'[s] = outstanding[s] - 1
  BY <1>10, <1>14
<1>16. \A s \in Semaphores :
          \/ queue'[s] = queue[s] /\ (IsQueued(r, s) => WaitsAt(r, s)')
          \/ queue'[s] = Dequeued(r, s)
  BY <1>9, <1>14
<1>17. \A s \in Semaphores \ W :
          queue'[s] = queue[s] /\ outstanding'[s] = outstanding[s] /\ total'[s] = total[s]
  BY <1>3, <1>13, <1>14
<1>18. /\ outstanding' = [s \in Semaphores |-> outstanding'[s]]
       /\ queue' = [s \in Semaphores |-> queue'[s]] /\ DOMAIN total' = Semaphores
  BY <1>0, <1>3 DEF Types
<1>19. Wake(W)
  BY <1>3
<1> QED
  BY <1>h, <1>4, <1>5, <1>6, <1>7, <1>8, <1>11, <1>12, <1>15, <1>16, <1>17, <1>18, <1>19, PermitStep

(* The answer is there: the limits move, the permits are still held. *)
LEMMA RespondKeeps ==
    ASSUME NEW r \in Requests
    PROVE  BalancedInv /\ respond(r) => BalancedInv'
<1>h. SUFFICES ASSUME BalancedInv, respond(r) PROVE BalancedInv'
  OBVIOUS
<1>0. Types /\ StageOK(r) /\ InFlightIsExact
  BY <1>h DEF BalancedInv, StageInv
<1>1. stage[r] = "running" /\ UNCHANGED <<nodes, qos, semVars, in_flight, acq, plan, node>>
  BY <1>h DEF respond, trackVars
<1>2. PICK to \in {"endpoint_drop", "host_drop"} :
        stage' = [stage EXCEPT ![r] = to] /\ (qos <=> to = "endpoint_drop")
  BY <1>h DEF respond, Goto
<1>3. /\ stage' \in [Requests -> Stages] /\ stage'[r] = to
      /\ \A u \in Requests : u # r => stage'[u] = stage[u]
  BY <1>0, <1>2 DEF Types, Stages, Busy
<1>4. Solo(r)
  BY <1>1, <1>3 DEF Solo
<1>5. StageOK(r)'
  BY <1>0, <1>1, <1>2, <1>3 DEF StageOK, Busy
<1>6. \A n \in nodes : acq[r][n] = "absent"
  BY <1>0, <1>1 DEF StageOK, Types, Busy
<1>7. \A s \in Semaphores : ~IsQueued(r, s)
  BY <1>h, <1>6, NotQueued
<1>8. \A s \in Semaphores : Holds(r, s) <=> Holds(r, s)'
  <2>1. Held(r)' = Held(r)
    BY <1>1, <1>2, <1>3 DEF Held, EndpointAt, HostOf
  <2> QED
    BY <1>1, <1>2, <1>3, <1>6, <2>1 DEF Holds, Busy
<1>9. InFlightIsExact' /\ in_flight' \in [Nodes -> Nat]
  BY <1>0, <1>1, <1>3, <1>4, InFlightKept DEF Types, Busy
<1>10. /\ acq' \in [Requests -> [Nodes -> AcquireStates]] /\ plan' \in [Requests -> Seq(nodes)]
       /\ node' \in [Requests -> nodes \cup {0}]
  BY <1>0, <1>1 DEF Types
<1> QED
  BY <1>h, <1>1, <1>3, <1>4, <1>5, <1>7, <1>8, <1>9, <1>10, QuietStep

(* What giving back a permit of s does, one semaphore at a time. *)
LEMMA ReleaseFacts ==
    ASSUME Types, NEW r \in Requests, NEW s \in Semaphores, ReleasePermit(r, s)
    PROVE  /\ Abandon(r, {s}, {}) /\ Wake({s})
           /\ DOMAIN total' = Semaphores
           /\ \A t \in Semaphores \ {s} : total'[t] = total[t]
<1>1. \E v : total' = [total EXCEPT ![s] = v]
  BY DEF ReleasePermit
<1>2. DOMAIN total = Semaphores
  BY DEF Types
<1> QED
  BY <1>1, <1>2 DEF ReleasePermit

(* The semaphores in W get back a permit each from a call that is not in   *)
(* a queue, and wake whoever is first in theirs.                           *)
LEMMA GivenBack ==
    ASSUME BalancedInv, NEW r \in Requests, NEW W \in SUBSET Semaphores, Solo(r),
           Abandon(r, W, {}), Wake(W), UNCHANGED <<acq, plan>>,
           DOMAIN total' = Semaphores, \A s \in Semaphores \ W : total'[s] = total[s],
           stage[r] \in Busy, stage' \in [Requests -> Stages], node' \in [Requests -> nodes \cup {0}],
           in_flight' \in [Nodes -> Nat], InFlightIsExact', StageOK(r)',
           \A s \in Semaphores : IF s \in W THEN Holds(r, s) /\ ~Holds(r, s)'
                                             ELSE Holds(r, s) <=> Holds(r, s)'
    PROVE  BalancedInv'
<1>0. Types /\ StageOK(r)
  BY DEF BalancedInv, StageInv
<1>1. /\ outstanding' = [s \in Semaphores |-> IF s \in W THEN outstanding[s] - 1 ELSE outstanding[s]]
      /\ queue' = [s \in Semaphores |-> queue[s]]
  BY DEF Abandon
<1>2. \A n \in nodes : acq[r][n] = "absent"
  BY <1>0 DEF StageOK, Types
<1>3. \A s \in Semaphores : ~IsQueued(r, s)
  BY <1>2, NotQueued
<1>4. /\ acq' \in [Requests -> [Nodes -> AcquireStates]] /\ plan' \in [Requests -> Seq(nodes)]
  BY <1>0 DEF Types
<1>5. \A s \in Semaphores :
          /\ queue'[s] = queue[s]
          /\ s \in W => outstanding'[s] = outstanding[s] - 1
          /\ s \notin W => outstanding'[s] = outstanding[s]
  BY <1>1
<1>6. \A s \in Semaphores :
          /\ (Holds(r, s) <=> Holds(r, s)') => outstanding'[s] = outstanding[s]
          /\ Holds(r, s)' /\ ~Holds(r, s) => outstanding'[s] = outstanding[s] + 1
          /\ Holds(r, s) /\ ~Holds(r, s)' => outstanding'[s] = outstanding[s] - 1
  BY <1>5
<1>7. \A s \in Semaphores : queue'[s] = queue[s] /\ (IsQueued(r, s) => WaitsAt(r, s)')
  BY <1>3, <1>5
<1>8. \A s \in Semaphores \ W :
          /\ queue'[s] = queue[s] /\ outstanding'[s] = outstanding[s] /\ total'[s] = total[s]
          /\ Due(r, s) /\ Attended(r, s) => Attended(r, s)'
  BY <1>0, <1>3, <1>5, DueIsQueued
<1>9. /\ outstanding' = [s \in Semaphores |-> outstanding'[s]]
      /\ queue' = [s \in Semaphores |-> queue'[s]]
  BY <1>1
<1> QED
  BY <1>4, <1>6, <1>7, <1>8, <1>9, PermitStep

(* The endpoint's permit is dropped; the host's is still held. *)
LEMMA DropEndpointKeeps ==
    ASSUME NEW r \in Requests
    PROVE  BalancedInv /\ drop_endpoint(r) => BalancedInv'
<1>h. SUFFICES ASSUME BalancedInv, drop_endpoint(r) PROVE BalancedInv'
  OBVIOUS
<1>0. Types /\ StageOK(r) /\ InFlightIsExact
  BY <1>h DEF BalancedInv, StageInv
<1> DEFINE s == EndpointAt(r, node[r])
<1>1. /\ stage[r] = "endpoint_drop" /\ stage' = [stage EXCEPT ![r] = "host_drop"]
      /\ ReleasePermit(r, s) /\ UNCHANGED <<nodes, qos, in_flight, acq, plan, node>>
  BY <1>h DEF drop_endpoint, Goto, trackVars
<1>2. node[r] \in nodes /\ node[r] \in Nodes /\ qos
  BY <1>0, <1>1 DEF StageOK, Types, Busy
<1>3. s \in Semaphores /\ s # HostOf(node[r])
  BY <1>2, SemaphoreFacts DEF FirstOf, SecondOf, AcquireOrder
<1>4. /\ stage' \in [Requests -> Stages] /\ stage'[r] = "host_drop"
      /\ \A u \in Requests : u # r => stage'[u] = stage[u]
  BY <1>0, <1>1 DEF Types, Stages, Busy
<1>5. Solo(r)
  BY <1>1, <1>4 DEF Solo
<1>6. StageOK(r)'
  BY <1>0, <1>1, <1>2, <1>4 DEF StageOK, Busy
<1>7. InFlightIsExact' /\ in_flight' \in [Nodes -> Nat]
  BY <1>0, <1>1, <1>4, <1>5, InFlightKept DEF Types, Busy
<1>8. Held(r) = {s, HostOf(node[r])} /\ Held(r)' = {HostOf(node[r])}
  BY <1>1, <1>2, <1>4 DEF Held, EndpointAt, HostOf
<1>9. \A n \in nodes : acq[r][n] = "absent"
  BY <1>0, <1>1 DEF StageOK, Types, Busy
<1> HIDE DEF s
<1>10. \A t \in Semaphores : (Holds(r, t) <=> t \in Held(r)) /\ (Holds(r, t)' <=> t \in Held(r)')
  BY <1>1, <1>2, <1>4, <1>9 DEF Holds, Busy
<1>11. \A t \in Semaphores : IF t \in {s} THEN Holds(r, t) /\ ~Holds(r, t)'
                                            ELSE Holds(r, t) <=> Holds(r, t)'
  BY <1>3, <1>8, <1>10
<1>12. /\ Abandon(r, {s}, {}) /\ Wake({s})
       /\ DOMAIN total' = Semaphores
       /\ \A t \in Semaphores \ {s} : total'[t] = total[t]
  BY <1>0, <1>1, <1>3, ReleaseFacts
<1>13. node' \in [Requests -> nodes \cup {0}] /\ stage[r] \in Busy /\ {s} \in SUBSET Semaphores
  BY <1>0, <1>1, <1>3 DEF Types, Busy
<1> QED
  BY <1>h, <1>1, <1>4, <1>5, <1>6, <1>7, <1>11, <1>12, <1>13, GivenBack

(* Without limiters no semaphore has anything to give back. *)
LEMMA NothingHeld ==
    ASSUME Types, NEW r \in Requests, UNCHANGED semVars
    PROVE  /\ Abandon(r, {}, {}) /\ Wake({})
           /\ DOMAIN total' = Semaphores /\ total' = total
<1>1. total' = total /\ outstanding' = outstanding /\ queue' = queue /\ woken' = woken
  BY DEF semVars
<1>2. Abandon(r, {}, {})
  <2>1. /\ outstanding = [s \in Semaphores |-> outstanding[s]]
        /\ queue = [s \in Semaphores |-> queue[s]]
    BY DEF Types
  <2> QED
    BY <1>1, <2>1 DEF Abandon
<1>3. Wake({})
  <2> DEFINE W(u) == \E s \in {} : queue'[s] # <<>> /\ Head(queue'[s]) = u /\ outstanding'[s] < total'[s]
  <2>1. \A u \in Requests : ~W(u)
    OBVIOUS
  <2>2. woken \in [Requests -> BOOLEAN]
    BY DEF Types
  <2> HIDE DEF W
  <2>3. woken' = [u \in Requests |-> woken[u] \/ W(u)]
    <3>1. \A u \in Requests : woken[u] = (woken[u] \/ W(u))
      BY <2>1, <2>2, Zenon
    <3>2. woken = [u \in Requests |-> woken[u]]
      BY <2>2, Zenon
    <3> QED
      BY <1>1, <3>1, <3>2, Zenon
  <2> QED
    BY <2>3, Zenon DEF Wake, W
<1> QED
  BY <1>1, <1>2, <1>3 DEF Types

(* The host's permit is dropped, or the caller stops waiting for the       *)
(* answer: all that is left is given back, and whoever it is for is woken. *)
LEMMA FinishKeeps ==
    ASSUME NEW r \in Requests
    PROVE  BalancedInv /\ (drop_host(r) \/ cancel_running(r)) => BalancedInv'
<1>h. SUFFICES ASSUME BalancedInv, drop_host(r) \/ cancel_running(r) PROVE BalancedInv'
  OBVIOUS
<1>0. Types /\ StageOK(r) /\ InFlightIsExact
  BY <1>h DEF BalancedInv, StageInv
<1> DEFINE W == Held(r)
<1>1. /\ stage[r] \in {"running", "host_drop"} /\ stage' = [stage EXCEPT ![r] = "done"]
      /\ node' = [node EXCEPT ![r] = 0]
      /\ in_flight' = [in_flight EXCEPT ![node[r]] = IF IsBalanced THEN in_flight[node[r]] - 1 ELSE @]
      /\ UNCHANGED <<nodes, qos, acq, plan>>
  BY <1>h DEF drop_host, cancel_running, Goto, Set, Counted
<1>2. stage[r] \in Busy
  BY <1>1 DEF Busy
<1>3. node[r] \in nodes /\ node[r] \in Nodes
  BY <1>0, <1>2 DEF StageOK, Types
<1>4. W \in SUBSET Semaphores
  BY <1>3, SemaphoreFacts DEF Held, FirstOf, SecondOf, AcquireOrder
<1>5. /\ Abandon(r, W, {}) /\ Wake(W)
      /\ DOMAIN total' = Semaphores
      /\ \A s \in Semaphores \ W : total'[s] = total[s]
  <2>1. CASE cancel_running(r)
    BY <1>0, <2>1 DEF cancel_running, Types
  <2>2. CASE drop_host(r) /\ qos
    <3>1. W = {HostOf(node[r])} /\ HostOf(node[r]) \in Semaphores
      BY <1>3, <2>2 DEF drop_host, Held, Semaphores
    <3>2. ReleasePermit(r, HostOf(node[r]))
      BY <2>2 DEF drop_host
    <3> HIDE DEF W
    <3> QED
      BY <1>0, <3>1, <3>2, ReleaseFacts
  <2>3. CASE drop_host(r) /\ ~qos
    <3>1. W = {} /\ UNCHANGED semVars
      BY <2>3 DEF drop_host, Held
    <3> HIDE DEF W
    <3> QED
      BY <1>0, <3>1, NothingHeld
  <2> QED
    BY <1>h, <2>1, <2>2, <2>3
<1>6. /\ stage' \in [Requests -> Stages] /\ stage'[r] = "done"
      /\ \A u \in Requests : u # r => stage'[u] = stage[u]
  BY <1>0, <1>1 DEF Types, Stages, Busy
<1>7. /\ node' \in [Requests -> nodes \cup {0}] /\ node'[r] = 0
      /\ \A u \in Requests : u # r => node'[u] = node[u]
  BY <1>0, <1>1 DEF Types
<1>8. Solo(r)
  BY <1>1, <1>6, <1>7 DEF Solo
<1>9. StageOK(r)'
  BY <1>0, <1>1, <1>6, <1>7 DEF StageOK, Busy
<1>10. \A n \in nodes : acq[r][n] = "absent" /\ acq'[r][n] = "absent"
  BY <1>0, <1>1 DEF StageOK, Types, Busy
<1>11. InFlightIsExact' /\ in_flight' \in [Nodes -> Nat]
  <2>1. ASSUME NEW n \in Nodes
        PROVE  in_flight'[n] = IF IsBalanced /\ n = node[r] THEN in_flight[n] - 1 ELSE in_flight[n]
    BY <1>0, <1>1, <1>3 DEF Types
  <2>2. \A n \in Nodes : ~Runs(r, n)' /\ (Runs(r, n) <=> n = node[r])
    BY <1>1, <1>3, <1>6 DEF Runs, Busy
  <2>3. InFlightIsExact' /\ \A n \in Nodes : in_flight'[n] \in Nat
    BY <1>0, <1>8, <2>1, <2>2, InFlightStep
  <2>4. in_flight' = [n \in Nodes |-> in_flight'[n]]
    BY <1>0, <1>1 DEF Types
  <2> QED
    BY <2>3, <2>4
<1>12. \A s \in Semaphores : ~Holds(r, s)' /\ (Holds(r, s) <=> s \in W)
  <2>1. \A s \in Semaphores : ~Holds(r, s)'
    BY <1>1, <1>6, <1>10 DEF Holds, Busy
  <2>2. \A s \in Semaphores : Holds(r, s) <=> s \in W
    BY <1>1, <1>10 DEF Holds, Held, Busy
  <2> QED
    BY <2>1, <2>2
<1> HIDE DEF W
<1>13. \A s \in Semaphores : IF s \in W THEN Holds(r, s) /\ ~Holds(r, s)'
                                         ELSE Holds(r, s) <=> Holds(r, s)'
  BY <1>12
<1> QED
  BY <1>h, <1>1, <1>2, <1>4, <1>5, <1>6, <1>7, <1>8, <1>9, <1>11, <1>13, GivenBack

(* Who joins a queue does not come before those in it. *)
LEMMA AppendedHead ==
    ASSUME NEW q \in Seq(Requests), NEW r \in Requests
    PROVE  /\ Append(q, r) # <<>>
           /\ q # <<>> => Head(Append(q, r)) = Head(q)
           /\ q = <<>> => Head(Append(q, r)) = r
  OBVIOUS

(* The rest of the nodes to poll. *)
LEMMA PlanRest ==
    ASSUME NEW p \in Seq(nodes), p # <<>>
    PROVE  /\ Tail(p) \in Seq(nodes) /\ 1 \in DOMAIN p /\ Head(p) = p[1]
           /\ \A i \in DOMAIN Tail(p) : i + 1 \in DOMAIN p /\ Tail(p)[i] = p[i + 1]
           /\ \A m \in nodes, i \in DOMAIN p : p[i] = m /\ m # Head(p) =>
                 Len(p) # 1 /\ \E j \in DOMAIN Tail(p) : Tail(p)[j] = m
<1>1. /\ Tail(p) \in Seq(nodes) /\ 1 \in DOMAIN p /\ Head(p) = p[1] /\ Len(p) \in Nat
      /\ DOMAIN p = 1 .. Len(p) /\ DOMAIN Tail(p) = 1 .. Len(p) - 1
      /\ \A i \in 1 .. Len(p) - 1 : Tail(p)[i] = p[i + 1]
  OBVIOUS
<1>2. ASSUME NEW m \in nodes, NEW i \in DOMAIN p, p[i] = m, m # Head(p)
      PROVE  Len(p) # 1 /\ \E j \in DOMAIN Tail(p) : Tail(p)[j] = m
  <2>1. i # 1 /\ i \in 1 .. Len(p)
    BY <1>1, <1>2
  <2> DEFINE j == i - 1
  <2>2. j \in 1 .. Len(p) - 1 /\ j + 1 = i /\ Len(p) # 1
    <3>1. i \in Nat /\ i > 1 /\ i <= Len(p) /\ Len(p) \in Nat
      BY <1>1, <2>1
    <3> QED
      BY <3>1
  <2> HIDE DEF j
  <2>3. Tail(p)[j] = m
    BY <1>1, <1>2, <2>2
  <2> QED
    BY <1>1, <2>2, <2>3
<1>3. \A i \in DOMAIN Tail(p) : i + 1 \in DOMAIN p
  BY <1>1
<1> QED
  BY <1>1, <1>2, <1>3

(* A node that is pending: the call joins the queue, or stays in it, and   *)
(* polls the next node. A permit is free only for others who come first.   *)
LEMMA PollPendingKeeps ==
    ASSUME NEW r \in Requests
    PROVE  BalancedInv /\ poll_pending(r) => BalancedInv'
<1>h. SUFFICES ASSUME BalancedInv, poll_pending(r) PROVE BalancedInv'
  OBVIOUS
<1>0. Types /\ StageInv /\ QueueInv /\ PermitsAreOwned /\ InFlightIsExact /\ WakeInv /\ StageOK(r)
  BY <1>h DEF BalancedInv, StageInv
<1>1. PICK n \in nodes :
        /\ Polls(r, n, AcquireStates)
        /\ LET first == acq[r][n] \in {"new", "first"}
               s == IF first THEN FirstOf(r, n) ELSE SecondOf(r, n)
           IN  /\ ~MayTake(r, s)
               /\ Enqueue(r, s)
               /\ acq' = [acq EXCEPT ![r][n] = IF first THEN "first" ELSE "second"]
  BY <1>h, Zenon DEF poll_pending
<1> DEFINE first == acq[r][n] \in {"new", "first"}
           t == IF first THEN FirstOf(r, n) ELSE SecondOf(r, n)
           state == IF first THEN "first" ELSE "second"
           to == IF Len(plan[r]) = 1 THEN "waiting" ELSE "polling"
<1>2. /\ ~MayTake(r, t)
      /\ queue' = [queue EXCEPT ![t] = IF IsQueued(r, t) THEN queue[t] ELSE Append(queue[t], r)]
      /\ acq' = [acq EXCEPT ![r][n] = state]
      /\ UNCHANGED <<total, outstanding, woken>>
  BY <1>1 DEF Enqueue
<1>3. /\ qos /\ stage[r] = "polling" /\ plan[r] # <<>> /\ n = Head(plan[r]) /\ n \in Nodes
      /\ stage' = [stage EXCEPT ![r] = to] /\ plan' = [plan EXCEPT ![r] = Tail(plan[r])]
      /\ UNCHANGED <<nodes, qos, in_flight, node>>
  BY <1>h, <1>0, <1>1 DEF poll_pending, Polls, Goto, Set, trackVars, Types
<1>4. t \in Semaphores
  BY <1>3, SemaphoreFacts
<1>5. /\ plan[r] \in Seq(nodes)
      /\ Tail(plan[r]) \in Seq(nodes) /\ 1 \in DOMAIN plan[r] /\ Head(plan[r]) = plan[r][1]
      /\ \A i \in DOMAIN Tail(plan[r]) : i + 1 \in DOMAIN plan[r] /\ Tail(plan[r])[i] = plan[r][i + 1]
      /\ \A m \in nodes, i \in DOMAIN plan[r] : plan[r][i] = m /\ m # Head(plan[r]) =>
            Len(plan[r]) # 1 /\ \E j \in DOMAIN Tail(plan[r]) : Tail(plan[r])[j] = m
  <2>1. plan[r] \in Seq(nodes)
    BY <1>0 DEF Types
  <2> QED
    BY <1>3, <2>1, PlanRest
<1>6. acq[r][n] \in AcquireStates /\ acq[r][n] # "absent"
  BY <1>0, <1>3, <1>5 DEF StageOK, Types, Busy
<1>7. /\ acq' \in [Requests -> [Nodes -> AcquireStates]]
      /\ acq'[r][n] = state /\ \A m \in Nodes : m # n => acq'[r][m] = acq[r][m]
      /\ \A u \in Requests : u # r => acq'[u] = acq[u]
  BY <1>0, <1>2, <1>3 DEF Types, AcquireStates
<1>8. /\ stage' \in [Requests -> Stages] /\ stage'[r] = to
      /\ \A u \in Requests : u # r => stage'[u] = stage[u]
  BY <1>0, <1>3 DEF Types, Stages, Busy
<1>9. /\ plan' \in [Requests -> Seq(nodes)] /\ plan'[r] = Tail(plan[r])
      /\ \A u \in Requests : u # r => plan'[u] = plan[u]
  BY <1>0, <1>3, <1>5 DEF Types
<1>10. Solo(r)
  BY <1>3, <1>7, <1>8, <1>9 DEF Solo
<1>11. StageOK(r)'
  <2>1. \A i \in DOMAIN plan'[r] : acq'[r][plan'[r][i]] # "absent"
    <3>1. \A i \in DOMAIN plan[r] : plan[r][i] \in nodes /\ plan[r][i] \in Nodes
      BY <1>0, <1>5, ElementOfSeq, LenProperties DEF Types
    <3>2. \A i \in DOMAIN plan[r] : acq[r][plan[r][i]] # "absent"
      BY <1>0, <1>3 DEF StageOK, Busy
    <3>3. \A i \in DOMAIN plan[r] : acq'[r][plan[r][i]] # "absent"
      BY <1>7, <3>1, <3>2
    <3> QED
      BY <1>5, <1>9, <3>3
  <2>2. node'[r] = 0 /\ nodes' = nodes /\ qos'
    BY <1>0, <1>3 DEF StageOK, Busy
  <2>3. \A m \in Nodes \ nodes : acq'[r][m] = "absent"
    BY <1>0, <1>7 DEF StageOK, Busy
  <2>4. stage'[r] \in {"waiting", "polling"}
    BY <1>8
  <2> QED
    BY <2>1, <2>2, <2>3, <2>4 DEF StageOK, Busy
<1>12. InFlightIsExact'
  BY <1>0, <1>3, <1>8, <1>10, InFlightSame DEF Busy
<1>13. \A s \in Semaphores : Holds(r, s) <=> Holds(r, s)'
  <2>1. nodes \subseteq Nodes
    BY <1>0 DEF Types
  <2>2. acq[r][n] \in {"held", "second"} <=> acq'[r][n] \in {"held", "second"}
    BY <1>6, <1>7 DEF AcquireStates
  <2> QED
    BY <1>3, <1>7, <1>8, <2>1, <2>2 DEF Holds, FirstOf, AcquireOrder, EndpointAt, Busy
<1>14. ASSUME NEW s \in Semaphores, s # t, IsQueued(r, s)
       PROVE  WaitsAt(r, s)' /\ s[1] # n /\ s[1] \in nodes
  <2>1. WaitsAt(r, s)
    BY <1>0, <1>14 DEF QueueInv, QueueOK, IsQueued
  <2>2. PICK m \in nodes : \/ s = FirstOf(r, m) /\ acq[r][m] = "first"
                           \/ s = SecondOf(r, m) /\ acq[r][m] = "second"
    BY <2>1 DEF WaitsAt
  <2>3. m # n /\ m \in Nodes
    BY <1>0, <1>14, <2>2 DEF Types
  <2>4. s[1] = m
    BY <2>2, <2>3, SemaphoreFacts
  <2> QED
    BY <1>3, <1>7, <2>2, <2>3, <2>4 DEF WaitsAt, FirstOf, SecondOf, AcquireOrder, EndpointAt, HostOf
<1>15. ASSUME NEW s \in Semaphores, s = t PROVE WaitsAt(r, s)'
  <2>1. qos' /\ n \in nodes'
    BY <1>3
  <2> QED
    BY <1>7, <1>15, <2>1 DEF WaitsAt, FirstOf, SecondOf, AcquireOrder, EndpointAt, HostOf
<1>16. ASSUME NEW s \in Semaphores, Attended(r, s), s[1] # n, s[1] \in nodes PROVE Attended(r, s)'
  <2>1. ASSUME NEW i \in DOMAIN plan[r], plan[r][i] = s[1]
        PROVE  stage'[r] = "polling" /\ \E j \in DOMAIN plan'[r] : plan'[r][j] = s[1]
    BY <1>3, <1>5, <1>8, <1>9, <1>16, <2>1
  <2>2. woken' = woken
    BY <1>2
  <2> QED
    BY <1>3, <1>16, <2>1, <2>2, Zenon DEF Attended
<1> HIDE DEF t, state, to, first
<1>17. \A s \in Semaphores :
          /\ s # t => queue'[s] = queue[s]
          /\ s = t /\ IsQueued(r, s) => queue'[s] = queue[s]
          /\ s = t /\ ~IsQueued(r, s) => queue'[s] = Append(queue[s], r)
  BY <1>0, <1>2, <1>4 DEF Types
<1>18. StageInv'
  BY <1>0, <1>10, <1>11, StageStep
<1>19. QueueInv' /\ \A s \in Semaphores : queue'[s] \in Seq(Requests)
  <2>1. ASSUME NEW s \in Semaphores
        PROVE  \/ queue'[s] = queue[s] /\ (IsQueued(r, s) => WaitsAt(r, s)')
               \/ queue'[s] = Append(queue[s], r) /\ ~IsQueued(r, s) /\ WaitsAt(r, s)'
    BY <1>14, <1>15, <1>17
  <2> QED
    BY <1>0, <1>10, <2>1, QueueStep
<1>20. PermitsAreOwned'
  BY <1>0, <1>2, <1>10, <1>13, OwnedStep
<1>21. WakeInv'
  <2>1. ASSUME NEW s \in Semaphores, NEW u \in Requests, Due(u, s)', ~Due(u, s) PROVE FALSE
    <3>0. queue[s] \in Seq(Requests)
      BY <1>0 DEF Types
    <3>1. outstanding[s] < total[s] /\ queue'[s] # <<>> /\ Head(queue'[s]) = u
      BY <1>2, <2>1 DEF Due
    <3>2. s = t /\ ~IsQueued(r, s) /\ queue'[s] = Append(queue[s], r)
      BY <1>17, <2>1, <3>1 DEF Due
    <3>3. queue[s] # <<>>
      BY <1>2, <3>1, <3>2 DEF MayTake
    <3>4. Head(queue[s]) = u
      BY <3>0, <3>1, <3>2, <3>3, AppendedHead
    <3> QED
      BY <2>1, <3>1, <3>3, <3>4 DEF Due
  <2>2. ASSUME NEW s \in Semaphores, Due(r, s) PROVE Attended(r, s)'
    <3>1. IsQueued(r, s)
      BY <1>0, <2>2, DueIsQueued
    <3>2. s # t
      BY <1>2, <2>2 DEF Due, MayTake
    <3>3. Attended(r, s)
      BY <1>0, <2>2 DEF WakeInv
    <3> QED
      BY <1>14, <1>16, <3>1, <3>2, <3>3
  <2>3. \A s \in Semaphores, u \in Requests : Due(u, s)' => Due(u, s) /\ (u = r => Attended(r, s)')
    BY <2>1, <2>2
  <2>4. \A u \in Requests : u # r /\ woken[u] => woken'[u]
    BY <1>2
  <2> QED
    BY <1>0, <1>10, <2>3, <2>4, WakeStep
<1>22. Types'
  <2>1. queue' \in [Semaphores -> Seq(Requests)]
    <3>1. queue' = [s \in Semaphores |-> queue'[s]]
      BY <1>0, <1>2 DEF Types
    <3> QED
      BY <1>19, <3>1
  <2> QED
    BY <1>0, <1>2, <1>3, <1>7, <1>8, <1>9, <2>1 DEF Types
<1> QED
  BY <1>12, <1>18, <1>19, <1>20, <1>21, <1>22 DEF BalancedInv

-----------------------------------------------------------------------------
(* The invariant *)

(* A new selector: nobody holds, waits or runs. *)
LEMMA InitBalanced ==
    Init => BalancedInv
<1>h. SUFFICES ASSUME Init PROVE BalancedInv
  OBVIOUS
<1>1. PICK c \in Configs : nodes = 1 .. c.nodes /\ qos = c.qos
  BY <1>h DEF Init
<1>2. c.nodes \in 0 .. MaxNodes /\ c.qos \in BOOLEAN /\ MaxNodes \in Nat
  BY BalancedAssumption
<1>3. nodes \subseteq Nodes /\ (nodes # {} => 1 \in nodes)
  BY <1>1, <1>2 DEF Nodes
<1>4. \A r \in Requests : /\ stage[r] = "idle" /\ node[r] = 0
                          /\ \A n \in Nodes : acq[r][n] = "absent"
  BY <1>h DEF Init, NoAcquire
<1>5. \A s \in Semaphores : outstanding[s] = 0 /\ queue[s] = <<>>
  BY <1>h DEF Init
<1>6. Types
  <2>1. stage \in [Requests -> Stages] /\ node \in [Requests -> nodes \cup {0}]
    BY <1>h DEF Init, Stages, Busy
  <2>2. acq \in [Requests -> [Nodes -> AcquireStates]]
    BY <1>h DEF Init, NoAcquire, AcquireStates
  <2>3. plan \in [Requests -> Seq(nodes)] /\ queue \in [Semaphores -> Seq(Requests)]
    BY <1>h, EmptySeq DEF Init
  <2>4. woken \in [Requests -> BOOLEAN] /\ qos \in BOOLEAN
    BY <1>h, <1>1, <1>2, Zenon DEF Init
  <2>5. /\ DOMAIN total = Semaphores /\ outstanding \in [Semaphores -> Nat]
        /\ in_flight \in [Nodes -> Nat]
    BY <1>h DEF Init
  <2> QED
    BY <1>3, <2>1, <2>2, <2>3, <2>4, <2>5, Zenon DEF Types
<1>7. StageInv
  BY <1>4 DEF StageInv, StageOK, Busy
<1>8. QueueInv
  BY <1>5 DEF QueueInv, QueueOK
<1>9. PermitsAreOwned
  <2>1. \A s \in Semaphores : {r \in Requests : Holds(r, s)} = {}
    BY <1>3, <1>4 DEF Holds, Busy
  <2> QED
    BY <1>5, <2>1, FS_EmptySet DEF PermitsAreOwned
<1>10. InFlightIsExact
  <2>1. \A n \in Nodes : {r \in Requests : node[r] = n /\ stage[r] \in Busy} = {}
    BY <1>4 DEF Busy
  <2>2. \A n \in Nodes : in_flight[n] = 0
    BY <1>h DEF Init
  <2> QED
    BY <2>1, <2>2, FS_EmptySet DEF InFlightIsExact
<1>11. WakeInv
  BY <1>5 DEF WakeInv, Due
<1> QED
  BY <1>6, <1>7, <1>8, <1>9, <1>10, <1>11 DEF BalancedInv

(* Every step of every call keeps the invariant. *)
LEMMA StepBalanced ==
    BalancedInv /\ [Next]_vars => BalancedInv'
<1>1. CASE UNCHANGED vars
  <2>1. UNCHANGED <<nodes, qos, semVars, in_flight, stage, acq, plan, node>>
    BY <1>1 DEF vars, trackVars, callVars
  <2> QED
    BY <2>1, SameKeeps
<1>2. ASSUME BalancedInv, NEW r \in Requests, Proceed(r) PROVE BalancedInv'
  <2>1. CASE score(r)
    <3>1. UNCHANGED <<nodes, qos, semVars, in_flight, stage, acq, plan, node>>
      BY <2>1 DEF score
    <3> QED
      BY <1>2, <3>1, SameKeeps
  <2>2. CASE filter(r)
    BY <1>2, <2>2, FilterKeeps
  <2>3. CASE poll_unlimited(r)
    BY <1>2, <2>3, UnlimitedKeeps
  <2>4. CASE poll_first(r)
    BY <1>2, <2>4, PollFirstKeeps
  <2>5. CASE poll_second(r)
    BY <1>2, <2>5, PollSecondKeeps
  <2>6. CASE poll_pending(r)
    BY <1>2, <2>6, PollPendingKeeps
  <2>7. CASE repoll(r)
    BY <1>2, <2>7, RepollKeeps
  <2>8. CASE drop_acquire(r)
    BY <1>2, <2>8, DropKeeps
  <2>9. CASE start_call(r)
    BY <1>2, <2>9, StartKeeps
  <2>10. CASE respond(r)
    BY <1>2, <2>10, RespondKeeps
  <2>11. CASE drop_endpoint(r)
    BY <1>2, <2>11, DropEndpointKeeps
  <2>12. CASE drop_host(r)
    BY <1>2, <2>12, FinishKeeps
  <2>13. CASE unwound(r)
    BY <1>2, <2>13, CancelKeeps
  <2> QED
    BY <1>2, <2>1, <2>2, <2>3, <2>4, <2>5, <2>6, <2>7, <2>8, <2>9, <2>10, <2>11, <2>12, <2>13
       DEF Proceed
<1>3. ASSUME BalancedInv, NEW r \in Requests, CallerStep(r) PROVE BalancedInv'
  <2>1. CASE call_empty(r) \/ call_balanced(r)
    BY <1>3, <2>1, CallKeeps
  <2>2. CASE call_single(r)
    BY <1>3, <2>2, CallSingleKeeps
  <2>3. CASE cancel_waiting(r)
    BY <1>3, <2>3, CancelKeeps
  <2>4. CASE cancel_running(r)
    BY <1>3, <2>4, FinishKeeps
  <2> QED
    BY <1>3, <2>1, <2>2, <2>3, <2>4 DEF CallerStep
<1> QED
  BY <1>1, <1>2, <1>3 DEF Next

(* In every reachable state of any number of calls on any number of nodes: *)
(* which acquires a call has follows its stage, queues hold exactly calls  *)
(* that wait there, and once, every permit given out has a holder, the     *)
(* counters are exact, and a permit that is free has somebody to take it.  *)
THEOREM BalancedInvariance == Spec => []BalancedInv
<1> QED
  BY InitBalanced, StepBalanced, PTL DEF Spec

(* No permit leaks, whichever of the waits on several nodes wins, loses or *)
(* is cancelled.                                                           *)
THEOREM PermitsHaveOwners == Spec => []PermitsAreOwned
<1>1. BalancedInv => PermitsAreOwned
  BY DEF BalancedInv
<1> QED
  BY <1>1, BalancedInvariance, PTL

(* The score's count of requests under way to a node is exact.             *)
THEOREM CountsAreExact == Spec => []InFlightIsExact
<1>1. BalancedInv => InFlightIsExact
  BY DEF BalancedInv
<1> QED
  BY <1>1, BalancedInvariance, PTL

(* Acquiring the endpoint's permit first keeps a host's permits with calls *)
(* on their way to that host.                                              *)
THEOREM HostsNotLockedOut == Spec => []NoLockOut
<1>1. BalancedInv => NoLockOut
  <2> SUFFICES ASSUME BalancedInv, NEW n \in nodes
               PROVE  outstanding[HostOf(n)] <= Cardinality({r \in Requests :
                         node[r] = n /\ stage[r] \in {"acquired"} \cup Busy})
    BY DEF NoLockOut
  <2> DEFINE A == {r \in Requests : Holds(r, HostOf(n))}
             B == {r \in Requests : node[r] = n /\ stage[r] \in {"acquired"} \cup Busy}
  <2>0. nodes \subseteq Nodes /\ StageInv /\ PermitsAreOwned
    BY DEF BalancedInv, Types
  <2>1. HostOf(n) \in Semaphores
    BY <2>0 DEF Semaphores
  <2>2. outstanding[HostOf(n)] = Cardinality(A)
    BY <2>0, <2>1 DEF PermitsAreOwned
  <2>3. ASSUME NEW r \in Requests, Holds(r, HostOf(n))
        PROVE  node[r] = n /\ stage[r] \in {"acquired"} \cup Busy
    <3>1. n \in Nodes /\ HostOf(n) = SecondOf(r, n)
      BY <2>0 DEF SecondOf, AcquireOrder
    <3>2. \A m \in nodes : HostOf(n) # FirstOf(r, m)
      BY <2>0, <3>1, SemaphoreFacts
    <3>3. stage[r] \in {"acquired"} \cup Busy /\ HostOf(n) \in Held(r) /\ qos
      BY <2>3, <3>2 DEF Holds, Busy
    <3>4. node[r] \in nodes
      BY <2>0, <3>3 DEF StageInv, StageOK, Busy
    <3>5. HostOf(n) = SecondOf(r, node[r])
      BY <3>2, <3>3, <3>4 DEF Held, FirstOf, SecondOf, AcquireOrder
    <3>6. node[r] \in Nodes /\ SecondOf(r, n) = SecondOf(r, node[r])
      BY <2>0, <3>1, <3>4, <3>5
    <3>7. n = node[r]
      BY <3>1, <3>6, SemaphoreFacts
    <3> QED
      BY <3>3, <3>7
  <2>4. A \subseteq B
    BY <2>3
  <2>5. IsFiniteSet(B)
    BY FS_Subset, BalancedAssumption
  <2> HIDE DEF A, B
  <2>6. Cardinality(A) <= Cardinality(B)
    BY <2>4, <2>5, FS_Subset
  <2> QED
    BY <2>2, <2>6 DEF B
<1> QED
  BY <1>1, BalancedInvariance, PTL

(* A wakeup is not lost with the call it went to: a free permit that       *)
(* somebody waits for has been announced to the first in the queue.        *)
THEOREM WakeupsArePassedOn == Spec => []NoLostWakeup
<1>1. BalancedInv => NoLostWakeup
  <2>h. SUFFICES ASSUME BalancedInv, NEW s \in Semaphores,
                        queue[s] # <<>>, outstanding[s] < total[s]
                 PROVE  Attended(Head(queue[s]), s)
    BY Zenon DEF NoLostWakeup, Attended
  <2>1. queue[s] \in Seq(Requests) /\ WakeInv
    BY <2>h DEF BalancedInv, Types
  <2>2. Head(queue[s]) \in Requests
    BY <2>h, <2>1
  <2> QED
    BY <2>h, <2>1, <2>2 DEF WakeInv, Due
<1> QED
  BY <1>1, BalancedInvariance, PTL

-----------------------------------------------------------------------------
(* Bounds of the limits and of the counters *)

(* Each limit keeps the bounds of its kind. *)
LimitBounds ==
    /\ limit \in [Semaphores -> Nat]
    /\ \A n \in Nodes : limit[HostOf(n)] \in 1 .. MaxHostLimit
    /\ \A n \in Nodes, e \in Endpoints : limit[<<n, e>>] \in 1 .. MaxEndpointLimit

FailureBounds == recent_failures \in [Nodes -> 0 .. MaxFailures]

(* Scores are read of the configured nodes. *)
ScoresRead == DOMAIN seen = Requests /\ \A r \in Requests : DOMAIN seen[r] \subseteq nodes

(* The permits of a semaphore, and what calls on their way out have still  *)
(* to do: a removal that would leave less than none does not happen.       *)
PermitBounds ==
    /\ total \in [Semaphores -> Nat] /\ change \in [Requests -> Int]
    /\ answer \in [Requests -> [endpoint : Modes, host : Modes, blame : Nat]]

BoundsInv == LimitBounds /\ PermitBounds /\ FailureBounds /\ ScoresRead

(* The larger and the smaller of two numbers. *)
LEMMA MaxMin ==
    ASSUME NEW a \in Nat, NEW b \in Nat
    PROVE  /\ Max({a, b}) \in {a, b} /\ a <= Max({a, b}) /\ b <= Max({a, b})
           /\ Min({a, b}) \in {a, b} /\ Min({a, b}) <= a /\ Min({a, b}) <= b
<1>1. \E x \in {a, b} : \A y \in {a, b} : x >= y
  OBVIOUS
<1>2. \E x \in {a, b} : \A y \in {a, b} : x <= y
  OBVIOUS
<1> QED
  BY <1>1, <1>2 DEF Max, Min

(* An adjustment of a limit stays within 1 and the maximum. *)
LEMMA AdjustedBounds ==
    ASSUME NEW max \in Nat \ {0}, NEW l \in 1 .. max, NEW mode \in Modes,
           NEW new \in Adjusted(l, mode, max)
    PROVE  new \in 1 .. max
<1>1. CASE mode = "Success"
  BY <1>1, MaxMin DEF Adjusted
<1>2. CASE mode = "Dropped"
  <2>1. PICK k \in (9 * l) \div 10 .. (9 * l + 8) \div 10 : new = Max({1, k})
    BY <1>2 DEF Adjusted
  <2>2. (9 * l) \div 10 \in Nat /\ (9 * l + 8) \div 10 \in Nat /\ (9 * l + 8) \div 10 <= l
    OBVIOUS
  <2>3. k \in Nat /\ k <= max
    BY <2>1, <2>2
  <2>4. Max({1, k}) \in {1, k} /\ 1 <= Max({1, k})
    BY <2>3, MaxMin
  <2> QED
    BY <2>1, <2>3, <2>4
<1>3. CASE mode = "Ignore"
  BY <1>3 DEF Adjusted
<1> QED
  BY <1>1, <1>2, <1>3 DEF Modes

(* A new selector has the initial limits and no failures. *)
LEMMA InitBounds == Init => BoundsInv
<1> SUFFICES ASSUME Init PROVE BoundsInv
  OBVIOUS
<1>1. LimitBounds
  BY BalancedAssumption DEF Init, LimitBounds, Semaphores
<1>4. PermitBounds
  <2>1. NoAnswer \in [endpoint : Modes, host : Modes, blame : Nat]
    BY DEF NoAnswer, Modes
  <2> QED
    BY <2>1, BalancedAssumption DEF Init, PermitBounds
<1>2. FailureBounds
  BY BalancedAssumption DEF Init, FailureBounds
<1>3. ScoresRead
  BY DEF Init, ScoresRead, Unread
<1> QED
  BY <1>1, <1>2, <1>3, <1>4 DEF BoundsInv

(* A failure remembered, or forgotten, keeps the bound. *)
LEMMA FailuresSet ==
    ASSUME FailureBounds, NEW n \in Nodes, NEW v \in 0 .. MaxFailures,
           recent_failures' = [recent_failures EXCEPT ![n] = v]
    PROVE  FailureBounds'
  BY DEF FailureBounds

(* The limit of an endpoint or a host that an answer moves. *)
LEMMA UpdateBounds ==
    ASSUME BoundsInv, NEW r \in Requests, NEW n \in Nodes, NEW mode \in Modes,
           \/ UpdateLimit(r, EndpointAt(r, n), mode, MaxEndpointLimit)
           \/ UpdateLimit(r, HostOf(n), mode, MaxHostLimit)
    PROVE  LimitBounds' /\ change' \in [Requests -> Int]
<1>0. /\ LimitBounds /\ limit \in [Semaphores -> Nat] /\ change \in [Requests -> Int]
      /\ EndpointOf[r] \in Endpoints
      /\ MaxEndpointLimit \in Nat \ {0} /\ MaxHostLimit \in Nat \ {0}
  BY BalancedAssumption DEF BoundsInv, LimitBounds, PermitBounds
<1>1. EndpointAt(r, n) \in Semaphores /\ HostOf(n) \in Semaphores
  BY SemaphoreFacts DEF FirstOf, SecondOf, AcquireOrder
<1>2. \A m \in Nodes, e \in Endpoints : <<m, e>> \in Semaphores /\ HostOf(m) \in Semaphores
  BY DEF Semaphores
<1>3. \A m, k, e : <<m, e>> # HostOf(k)
  <2> TAKE m, k, e
  <2>1. Len(<<m, e>>) = 2 /\ Len(HostOf(k)) = 1
    BY DEF HostOf
  <2> QED
    BY <2>1
<1>4. CASE UpdateLimit(r, EndpointAt(r, n), mode, MaxEndpointLimit)
  <2> DEFINE s == EndpointAt(r, n)
  <2>1. PICK l \in Adjusted(limit[s], mode, MaxEndpointLimit) :
          limit' = [limit EXCEPT ![s] = l] /\ change' = [change EXCEPT ![r] = l - limit[s]]
    BY <1>4 DEF UpdateLimit
  <2>2. limit[s] \in 1 .. MaxEndpointLimit
    BY <1>0 DEF LimitBounds, EndpointAt
  <2>3. l \in 1 .. MaxEndpointLimit
    BY <1>0, <2>1, <2>2, AdjustedBounds
  <2>4. \A m \in Nodes : s # HostOf(m)
    BY <1>3 DEF EndpointAt
  <2> HIDE DEF s
  <2>5. limit' \in [Semaphores -> Nat] /\ change' \in [Requests -> Int]
    <3>1. l \in Nat /\ l - limit[s] \in Int
      BY <1>0, <2>2, <2>3
    <3> QED
      BY <1>0, <2>1, <3>1
  <2>6. \A m \in Nodes : limit'[HostOf(m)] = limit[HostOf(m)]
    BY <1>0, <1>2, <2>1, <2>4
  <2>7. \A m \in Nodes, e \in Endpoints : limit'[<<m, e>>] \in {limit[<<m, e>>], l}
    BY <1>0, <1>2, <2>1
  <2> QED
    BY <1>0, <2>3, <2>5, <2>6, <2>7 DEF LimitBounds
<1>5. CASE UpdateLimit(r, HostOf(n), mode, MaxHostLimit)
  <2> DEFINE s == HostOf(n)
  <2>1. PICK l \in Adjusted(limit[s], mode, MaxHostLimit) :
          limit' = [limit EXCEPT ![s] = l] /\ change' = [change EXCEPT ![r] = l - limit[s]]
    BY <1>5 DEF UpdateLimit
  <2>2. limit[s] \in 1 .. MaxHostLimit
    BY <1>0 DEF LimitBounds
  <2>3. l \in 1 .. MaxHostLimit
    BY <1>0, <2>1, <2>2, AdjustedBounds
  <2>4. \A m \in Nodes, e \in Endpoints : s # <<m, e>>
    BY <1>3
  <2> HIDE DEF s
  <2>5. limit' \in [Semaphores -> Nat] /\ change' \in [Requests -> Int]
    <3>1. l \in Nat /\ l - limit[s] \in Int
      BY <1>0, <2>2, <2>3
    <3> QED
      BY <1>0, <2>1, <3>1
  <2>6. \A m \in Nodes : limit'[HostOf(m)] \in {limit[HostOf(m)], l}
    BY <1>0, <1>2, <2>1 DEF Semaphores
  <2>7. \A m \in Nodes, e \in Endpoints : limit'[<<m, e>>] = limit[<<m, e>>]
    BY <1>0, <1>2, <2>1, <2>4
  <2> QED
    BY <1>0, <2>3, <2>5, <2>6, <2>7 DEF LimitBounds
<1> QED
  BY <1>4, <1>5

(* A permit given back keeps the total a number: what cannot be removed is *)
(* not.                                                                    *)
LEMMA ReleaseBounds ==
    ASSUME PermitBounds, NEW r \in Requests, NEW s \in Semaphores, ReleasePermit(r, s)
    PROVE  total' \in [Semaphores -> Nat]
<1>1. total[s] \in Nat /\ change[r] \in Int /\ total \in [Semaphores -> Nat]
  BY DEF PermitBounds
<1>2. CASE Underflows(r, s)
  BY <1>1, <1>2 DEF ReleasePermit
<1>3. CASE ~Underflows(r, s)
  <2>1. total' = [total EXCEPT ![s] = total[s] + change[r]]
    BY <1>3 DEF ReleasePermit
  <2>2. total[s] + change[r] \in Nat
    BY <1>1, <1>3 DEF Underflows
  <2> QED
    BY <1>1, <2>1, <2>2
<1> QED
  BY <1>2, <1>3

(* The answer moves the endpoint's limit. *)
LEMMA RespondBounds ==
    ASSUME BalancedInv, BoundsInv, NEW r \in Requests, respond(r)
    PROVE  BoundsInv'
<1>1. /\ node[r] \in Nodes
      /\ nodes' = nodes /\ seen' = seen /\ total' = total /\ recent_failures' = recent_failures
  BY DEF respond, BalancedInv, Types, StageInv, StageOK, Busy, semVars, trackVars
<1>2. PICK a \in Answers :
        /\ answer' = Set(answer, r, [a EXCEPT !.endpoint = "Ignore"])
        /\ \/ UpdateLimit(r, EndpointAt(r, node[r]), a.endpoint, MaxEndpointLimit)
           \/ UNCHANGED <<limit, change>>
  BY DEF respond
<1>3. a \in [endpoint : Modes, host : Modes, blame : Nat]
  <2>1. FAILURE_WEIGHT \in Nat /\ FAILURE_WEIGHT \div 100 \in Nat
    BY BalancedAssumption
  <2> QED
    BY <1>2, <2>1 DEF Answers, Modes
<1>4. LimitBounds' /\ change' \in [Requests -> Int]
  <2>1. CASE UpdateLimit(r, EndpointAt(r, node[r]), a.endpoint, MaxEndpointLimit)
    BY <1>1, <1>3, <2>1, UpdateBounds
  <2>2. CASE UNCHANGED <<limit, change>>
    BY <2>2 DEF BoundsInv, LimitBounds, PermitBounds
  <2> QED
    BY <1>2, <2>1, <2>2
<1>5. answer' \in [Requests -> [endpoint : Modes, host : Modes, blame : Nat]]
  <2>1. [a EXCEPT !.endpoint = "Ignore"] \in [endpoint : Modes, host : Modes, blame : Nat]
    BY <1>3 DEF Modes
  <2> QED
    BY <1>2, <2>1 DEF Set, BoundsInv, PermitBounds
<1> QED
  BY <1>1, <1>4, <1>5 DEF BoundsInv, PermitBounds, FailureBounds, ScoresRead

(* The endpoint's permit goes back, and the host's limit moves. *)
LEMMA DropEndpointBounds ==
    ASSUME BalancedInv, BoundsInv, NEW r \in Requests, drop_endpoint(r)
    PROVE  BoundsInv'
<1>1. node[r] \in Nodes /\ nodes' = nodes /\ seen' = seen /\ recent_failures' = recent_failures
  BY DEF drop_endpoint, BalancedInv, Types, StageInv, StageOK, Busy, trackVars
<1>2. EndpointAt(r, node[r]) \in Semaphores
  BY <1>1, SemaphoreFacts DEF FirstOf, AcquireOrder
<1>3. total' \in [Semaphores -> Nat]
  BY <1>2, ReleaseBounds DEF drop_endpoint, BoundsInv
<1>4. answer[r] \in [endpoint : Modes, host : Modes, blame : Nat]
  BY DEF BoundsInv, PermitBounds
<1>5. LimitBounds' /\ change' \in [Requests -> Int]
  BY <1>1, <1>4, UpdateBounds DEF drop_endpoint
<1>6. answer' \in [Requests -> [endpoint : Modes, host : Modes, blame : Nat]]
  <2>1. PICK b : answer' = Set(answer, r, [NoAnswer EXCEPT !.blame = b]) /\ b \in {0, answer[r].blame}
    BY DEF drop_endpoint
  <2>2. [NoAnswer EXCEPT !.blame = b] \in [endpoint : Modes, host : Modes, blame : Nat]
    BY <1>4, <2>1 DEF NoAnswer, Modes
  <2> QED
    BY <2>1, <2>2 DEF Set, BoundsInv, PermitBounds
<1> QED
  BY <1>1, <1>3, <1>5, <1>6 DEF BoundsInv, PermitBounds, FailureBounds, ScoresRead

(* The host's permit goes back, and a failure is recorded. *)
LEMMA DropHostBounds ==
    ASSUME BalancedInv, BoundsInv, NEW r \in Requests, drop_host(r)
    PROVE  BoundsInv'
<1>1. node[r] \in Nodes /\ nodes' = nodes /\ seen' = seen /\ limit' = limit
  BY DEF drop_host, BalancedInv, Types, StageInv, StageOK, Busy
<1>2. HostOf(node[r]) \in Semaphores
  BY <1>1 DEF Semaphores
<1>3. total' \in [Semaphores -> Nat]
  <2>1. CASE qos
    BY <1>2, <2>1, ReleaseBounds DEF drop_host, BoundsInv
  <2>2. CASE ~qos
    BY <2>2 DEF drop_host, semVars, BoundsInv, PermitBounds
  <2> QED
    BY <2>1, <2>2
<1>4. /\ change' \in [Requests -> Int]
      /\ answer' \in [Requests -> [endpoint : Modes, host : Modes, blame : Nat]]
  <2>1. NoAnswer \in [endpoint : Modes, host : Modes, blame : Nat]
    BY DEF NoAnswer, Modes
  <2> QED
    BY <2>1 DEF drop_host, Set, BoundsInv, PermitBounds
<1>5. FailureBounds'
  <2>1. PICK v \in {recent_failures[node[r]], 0} :
          recent_failures' = [recent_failures EXCEPT ![node[r]] =
              IF IsBalanced THEN Min({MaxFailures, v + Blame(r)}) ELSE recent_failures[node[r]]]
    BY DEF drop_host, Decayed
  <2>2. recent_failures[node[r]] \in 0 .. MaxFailures /\ MaxFailures \in Nat
    BY <1>1, BalancedAssumption DEF BoundsInv, FailureBounds
  <2>3. Blame(r) \in Nat
    BY DEF Blame, BoundsInv, PermitBounds
  <2>4. v + Blame(r) \in Nat
    BY <2>1, <2>2, <2>3
  <2>5. Min({MaxFailures, v + Blame(r)}) \in 0 .. MaxFailures
    BY <2>2, <2>4, MaxMin
  <2> QED
    BY <1>1, <2>1, <2>2, <2>5, FailuresSet DEF BoundsInv
<1> QED
  BY <1>1, <1>3, <1>4, <1>5 DEF BoundsInv, LimitBounds, PermitBounds, ScoresRead

(* A score that is read decays the failures of its node, which keeps the   *)
(* bound.                                                                  *)
LEMMA ScoreBounds ==
    ASSUME BalancedInv, BoundsInv, NEW r \in Requests, score(r) \/ filter(r)
    PROVE  BoundsInv'
<1>1. nodes' = nodes /\ UNCHANGED limitVars /\ total' = total
  BY DEF score, filter, semVars
<1>a. PICK n \in nodes : \E v \in Decayed(recent_failures[n]) :
        /\ recent_failures' = [recent_failures EXCEPT ![n] = v]
        /\ seen' = Set(seen, r, SeenWith(r, n, v)) \/ seen' = Set(seen, r, Unread)
  BY DEF score, filter
<1>2. PICK v \in Decayed(recent_failures[n]) :
        /\ recent_failures' = [recent_failures EXCEPT ![n] = v]
        /\ seen' = Set(seen, r, SeenWith(r, n, v)) \/ seen' = Set(seen, r, Unread)
  BY <1>a
<1>3. n \in Nodes /\ MaxFailures \in Nat
  BY BalancedAssumption DEF BalancedInv, Types
<1>4. v \in 0 .. MaxFailures
  BY <1>2, <1>3 DEF Decayed, BoundsInv, FailureBounds
<1>5. FailureBounds'
  BY <1>2, <1>3, <1>4, FailuresSet DEF BoundsInv
<1>6. DOMAIN SeenWith(r, n, v) = DOMAIN seen[r] \cup {n} /\ DOMAIN Unread = {}
  BY DEF SeenWith, Unread
<1>7. ScoresRead'
  BY <1>1, <1>2, <1>6 DEF Set, BoundsInv, ScoresRead
<1>8. LimitBounds' /\ PermitBounds'
  BY <1>1 DEF BoundsInv, LimitBounds, PermitBounds, limitVars
<1> QED
  BY <1>5, <1>7, <1>8 DEF BoundsInv

(* Only answers move limits and totals, and only scores and answers        *)
(* failures.                                                               *)
LEMMA StepBounds == BalancedInv /\ BoundsInv /\ [Next]_vars => BoundsInv'
<1> SUFFICES ASSUME BalancedInv, BoundsInv, [Next]_vars PROVE BoundsInv'
  OBVIOUS
<1>1. CASE UNCHANGED <<nodes, limitVars, total, recent_failures, seen>>
  BY <1>1 DEF BoundsInv, LimitBounds, PermitBounds, FailureBounds, ScoresRead, limitVars
<1>2. CASE UNCHANGED vars
  BY <1>1, <1>2 DEF vars, semVars, trackVars, callVars
<1>3. ASSUME NEW r \in Requests, Proceed(r) \/ CallerStep(r) PROVE BoundsInv'
  <2>1. CASE respond(r)
    BY <2>1, RespondBounds
  <2>2. CASE score(r) \/ filter(r)
    BY <2>2, ScoreBounds
  <2>3. CASE poll_unlimited(r) \/ poll_second(r)
    BY <1>1, <2>3 DEF poll_unlimited, poll_second, Acquired, Take, semVars, trackVars
  <2>4. CASE poll_first(r) \/ poll_pending(r) \/ repoll(r)
    BY <1>1, <2>4 DEF poll_first, poll_pending, repoll, Take, Enqueue, semVars, trackVars
  <2>5. CASE drop_acquire(r)
    BY <1>1, <2>5 DEF drop_acquire, Leave, semVars, trackVars
  <2>6. CASE start_call(r) \/ unwound(r) \/ cancel_waiting(r) \/ cancel_running(r)
    BY <1>1, <2>6 DEF start_call, unwound, cancel_waiting, cancel_running, semVars, trackVars
  <2>7. CASE call_empty(r) \/ call_single(r) \/ call_balanced(r)
    BY <1>1, <2>7 DEF call_empty, call_single, call_balanced, semVars, trackVars
  <2>8. CASE drop_endpoint(r)
    BY <2>8, DropEndpointBounds
  <2>9. CASE drop_host(r)
    BY <2>9, DropHostBounds
  <2> QED
    BY <1>3, <2>1, <2>2, <2>3, <2>4, <2>5, <2>6, <2>7, <2>8, <2>9 DEF Proceed, CallerStep
<1> QED
  BY <1>2, <1>3 DEF Next

(* TypeOK: in particular no more permits are out, and no more calls in     *)
(* flight, than there are calls.                                           *)
THEOREM BalancedTypes == Spec => []TypeOK
<1>1. ASSUME BalancedInv, BoundsInv PROVE TypeOK
  <2>1. Cardinality(Requests) \in Nat
    BY BalancedAssumption, FS_CardinalityType
  <2>2. \A S \in SUBSET Requests : Cardinality(S) \in 0 .. Cardinality(Requests)
    <3> TAKE S \in SUBSET Requests
    <3>1. IsFiniteSet(S) /\ Cardinality(S) <= Cardinality(Requests)
      BY BalancedAssumption, FS_Subset
    <3>2. Cardinality(S) \in Nat
      BY <3>1, FS_CardinalityType
    <3> QED
      BY <2>1, <3>1, <3>2
  <2>3. outstanding \in [Semaphores -> 0 .. Cardinality(Requests)]
    <3>1. \A s \in Semaphores : outstanding[s] \in 0 .. Cardinality(Requests)
      <4> TAKE s \in Semaphores
      <4> DEFINE S == {r \in Requests : Holds(r, s)}
      <4>1. S \in SUBSET Requests /\ outstanding[s] = Cardinality(S)
        BY <1>1 DEF BalancedInv, PermitsAreOwned
      <4> QED
        BY <2>2, <4>1
    <3> QED
      BY <1>1, <3>1 DEF BalancedInv, Types
  <2>4. in_flight \in [Nodes -> 0 .. Cardinality(Requests)]
    <3>1. \A n \in Nodes : in_flight[n] \in 0 .. Cardinality(Requests)
      <4> TAKE n \in Nodes
      <4> DEFINE S == {r \in Requests : node[r] = n /\ stage[r] \in Busy}
      <4>1. S \in SUBSET Requests /\ in_flight[n] \in {0, Cardinality(S)}
        BY <1>1 DEF BalancedInv, InFlightIsExact
      <4> QED
        BY <2>1, <2>2, <4>1
    <3> QED
      BY <1>1, <3>1 DEF BalancedInv, Types
  <2>5. limit \in [Semaphores -> 1 .. Max({MaxHostLimit, MaxEndpointLimit})]
    <3>1. /\ MaxHostLimit \in Nat /\ MaxEndpointLimit \in Nat
          /\ Max({MaxHostLimit, MaxEndpointLimit}) \in Nat
          /\ MaxHostLimit <= Max({MaxHostLimit, MaxEndpointLimit})
          /\ MaxEndpointLimit <= Max({MaxHostLimit, MaxEndpointLimit})
      BY BalancedAssumption, MaxMin
    <3>2. \A s \in Semaphores : limit[s] \in 1 .. Max({MaxHostLimit, MaxEndpointLimit})
      BY <1>1, <3>1 DEF BoundsInv, LimitBounds, Semaphores
    <3>3. limit \in [Semaphores -> Nat]
      BY <1>1 DEF BoundsInv, LimitBounds
    <3> QED
      BY <1>1, <3>2, <3>3
  <2>6. \A r \in Requests : /\ \A i \in DOMAIN plan[r] : plan[r][i] \in nodes
                            /\ DOMAIN seen[r] \subseteq nodes
    BY <1>1 DEF BalancedInv, Types, BoundsInv, ScoresRead
  <2> QED
    BY <1>1, <2>3, <2>4, <2>5, <2>6
       DEF TypeOK, BalancedInv, Types, BoundsInv, PermitBounds, FailureBounds
<1>2. BalancedInv /\ BoundsInv => TypeOK
  BY <1>1
<1> QED
  BY <1>2, InitBounds, StepBounds, BalancedInvariance, PTL DEF Spec

-----------------------------------------------------------------------------
(* The selector that pins a node, for any number of requests and nodes,    *)
(* any interval and a clock of any range.                                  *)

(* The times a request has read are in the past, and it goes on to the     *)
(* exchange only if the reshuffle was due at the time it read.             *)
TimesInv ==
    \A r \in Calls :
        /\ times[r].now <= clock
        /\ pc[r] = "exchange" => times[r].next <= times[r].now

(* The next reshuffle is due a whole interval after the last, counted from *)
(* the first.                                                              *)
IntervalInv == (reshuffles + 1) * Interval <= next_reshuffle_nanos

(* A request under way was sent to the node its pin is the index of,       *)
(* unless the nodes have been reshuffled since.                            *)
NodeInv == \A r \in Calls : pc[r] = "sent" /\ r \notin stale => target[r] = shuffle[pin[r]]

PinInv == PinTypeOK /\ TimesInv /\ IntervalInv /\ OneReshufflePerInterval /\ NodeInv

(* A new selector is pinned to the first node. *)
LEMMA InitPin == PinInit => PinInv
<1> SUFFICES ASSUME PinInit PROVE PinInv
  OBVIOUS
<1> USE PinAssumption
<1>1. PinTypeOK
  BY DEF PinInit, PinTypeOK, Indices, NoTimes, Results
<1>2. TimesInv /\ NodeInv
  BY DEF PinInit, TimesInv, NodeInv, NoTimes
<1>3. IntervalInv /\ OneReshufflePerInterval
  BY DEF PinInit, IntervalInv, OneReshufflePerInterval
<1> QED
  BY <1>1, <1>2, <1>3 DEF PinInv

(* The pin stays an index of a node. *)
LEMMA ExchangedIsIndex ==
    ASSUME current_pin \in Indices, NEW r \in Calls, pin[r] \in Indices, NEW result \in Results
    PROVE  Exchanged(r, result) \in Indices
<1>1. pin[r] \in Nat
  BY PinAssumption DEF Indices
<1>2. (pin[r] + 1) % NumNodes \in 0 .. NumNodes - 1
  BY <1>1, PinAssumption
<1> QED
  BY <1>2 DEF Exchanged, Indices

(* Every step keeps the pin an index, and the order a permutation. *)
LEMMA StepType == PinTypeOK /\ [PinNext]_pinVars => PinTypeOK'
<1> SUFFICES ASSUME PinTypeOK, [PinNext]_pinVars PROVE PinTypeOK'
  OBVIOUS
<1> USE PinAssumption DEF PinTypeOK, shared, history
<1>1. CASE tick
  BY <1>1 DEF tick
<1> SUFFICES ASSUME NEW r \in Calls,
                    \/ call(r) \/ read_clock(r) \/ check_early(r) \/ check_due(r)
                    \/ exchange_won(r) \/ exchange_lost(r) \/ store(r) \/ get(r)
                    \/ \E result \in Results : conclude(r, result)
             PROVE  PinTypeOK'
  BY <1>1 DEF PinNext, pinVars
<1>2. CASE call(r)
  BY <1>2 DEF call, Move
<1>3. CASE read_clock(r)
  BY <1>3 DEF read_clock, Move
<1>4. CASE check_early(r)
  BY <1>4 DEF check_early, Move, NoTimes
<1>5. CASE check_due(r)
  BY <1>5 DEF check_due, Move
<1>6. CASE exchange_won(r)
  BY <1>6 DEF exchange_won, Move, NoTimes
<1>7. CASE exchange_lost(r)
  BY <1>7 DEF exchange_lost, Move, NoTimes
<1>8. CASE store(r)
  BY <1>8 DEF store, Move
<1>9. CASE get(r)
  <2>1. shuffle \in [Indices -> Indices]
    BY DEF Bijection, Injection
  <2> QED
    BY <2>1, <1>9 DEF get, Move
<1>10. ASSUME NEW result \in Results, conclude(r, result) PROVE PinTypeOK'
  BY <1>10, ExchangedIsIndex DEF conclude, Move, Indices
<1> QED
  BY <1>2, <1>3, <1>4, <1>5, <1>6, <1>7, <1>8, <1>9, <1>10

(* The times read stay in the past. *)
LEMMA StepTimes == PinTypeOK /\ TimesInv /\ [PinNext]_pinVars => TimesInv'
<1> SUFFICES ASSUME PinTypeOK, TimesInv, [PinNext]_pinVars PROVE TimesInv'
  OBVIOUS
<1> USE DEF PinTypeOK, TimesInv, NoTimes, Move, shared, history
<1>1. clock' \in Nat /\ clock <= clock'
  BY PinAssumption DEF PinNext, tick, call, read_clock, check_early, check_due, exchange_won,
     exchange_lost, store, get, conclude, pinVars
<1>2. CASE tick \/ UNCHANGED pinVars
  BY <1>1, <1>2 DEF tick, pinVars
<1>3. ASSUME NEW r \in Calls,
             \/ call(r) \/ read_clock(r) \/ check_early(r) \/ check_due(r)
             \/ exchange_won(r) \/ exchange_lost(r) \/ store(r) \/ get(r)
             \/ \E result \in Results : conclude(r, result)
      PROVE  TimesInv'
  <2>1. \A q \in Calls \ {r} : pc'[q] = pc[q] /\ times'[q] = times[q]
    BY <1>3 DEF call, read_clock, check_early, check_due, exchange_won, exchange_lost, store,
       get, conclude
  <2>2. times'[r].now <= clock'
    BY <1>1, <1>3 DEF call, read_clock, check_early, check_due, exchange_won, exchange_lost,
       store, get, conclude
  <2>3. pc'[r] = "exchange" => times'[r].next <= times'[r].now
    BY <1>3 DEF call, read_clock, check_early, check_due, exchange_won, exchange_lost, store,
       get, conclude
  <2> QED
    BY <1>1, <2>1, <2>2, <2>3
<1> QED
  BY <1>2, <1>3 DEF PinNext

(* Only the exchange moves the count and the time of the next reshuffle,   *)
(* and it finds the time that was due when the clock was read.             *)
LEMMA StepInterval ==
    PinTypeOK /\ TimesInv /\ IntervalInv /\ OneReshufflePerInterval /\ [PinNext]_pinVars
        => IntervalInv' /\ OneReshufflePerInterval'
<1> SUFFICES ASSUME PinTypeOK, TimesInv, IntervalInv, OneReshufflePerInterval, [PinNext]_pinVars
             PROVE  IntervalInv' /\ OneReshufflePerInterval'
  OBVIOUS
<1> USE PinAssumption DEF PinTypeOK, shared, history
<1>1. ASSUME NEW r \in Calls, exchange_won(r)
      PROVE  IntervalInv' /\ OneReshufflePerInterval'
  <2> DEFINE due == (reshuffles + 1) * Interval
  <2>1. due \in Nat /\ (reshuffles' + 1) * Interval = due + Interval
    BY <1>1 DEF exchange_won
  <2>2. due <= times[r].now /\ times[r].now <= clock
    BY <1>1 DEF exchange_won, TimesInv, IntervalInv
  <2>3. next_reshuffle_nanos' = times[r].now + Interval /\ clock' = clock /\ reshuffles' = reshuffles + 1
    BY <1>1 DEF exchange_won
  <2>4. times[r].now \in Nat
    OBVIOUS
  <2> QED
    BY <2>1, <2>2, <2>3, <2>4 DEF IntervalInv, OneReshufflePerInterval
<1>2. CASE /\ UNCHANGED <<reshuffles, next_reshuffle_nanos>>
           /\ clock' \in {clock, clock + 1}
  BY <1>2 DEF IntervalInv, OneReshufflePerInterval
<1> QED
  BY <1>1, <1>2 DEF PinNext, tick, call, read_clock, check_early, check_due, exchange_lost, store,
     get, conclude, pinVars

(* A request goes to the node its pin points at, until a reshuffle. *)
LEMMA StepNode == PinTypeOK /\ NodeInv /\ [PinNext]_pinVars => NodeInv'
<1> SUFFICES ASSUME PinTypeOK, NodeInv, [PinNext]_pinVars, NEW q \in Calls,
                    pc'[q] = "sent", q \notin stale'
             PROVE  target'[q] = shuffle'[pin'[q]]
  BY DEF NodeInv
<1> USE DEF PinTypeOK, NodeInv, Move, shared, history
<1>1. CASE tick \/ UNCHANGED pinVars
  BY <1>1 DEF tick, pinVars
<1>2. ASSUME NEW r \in Calls,
             \/ call(r) \/ read_clock(r) \/ check_early(r) \/ check_due(r)
             \/ exchange_won(r) \/ exchange_lost(r)
      PROVE  target'[q] = shuffle'[pin'[q]]
  BY <1>2 DEF call, read_clock, check_early, check_due, exchange_won, exchange_lost
<1>3. ASSUME NEW r \in Calls, store(r) PROVE target'[q] = shuffle'[pin'[q]]
  BY <1>3 DEF store
<1>4. ASSUME NEW r \in Calls, get(r) PROVE target'[q] = shuffle'[pin'[q]]
  BY <1>4 DEF get
<1>5. ASSUME NEW r \in Calls, NEW result \in Results, conclude(r, result)
      PROVE  target'[q] = shuffle'[pin'[q]]
  BY <1>5 DEF conclude
<1> QED
  BY <1>1, <1>2, <1>3, <1>4, <1>5 DEF PinNext

-----------------------------------------------------------------------------
(* The inductive invariant of the selector. *)
THEOREM PinInvariance == PinSpec => []PinInv
<1>1. PinInv /\ [PinNext]_pinVars => PinInv'
  BY StepType, StepTimes, StepInterval, StepNode DEF PinInv
<1> QED
  BY InitPin, <1>1, PTL DEF PinSpec

(* OneReshufflePerInterval: of any number of requests that find the        *)
(* reshuffle due at once, one reshuffles.                                  *)
THEOREM ReshufflesAreRare == PinSpec => []OneReshufflePerInterval
<1>1. PinInv => OneReshufflePerInterval
  BY DEF PinInv
<1> QED
  BY <1>1, PinInvariance, PTL

(* PinLeavesFailedHost: a request that comes back to find the pin where it *)
(* loaded it had been sent to the pinned node, or before a reshuffle.      *)
THEOREM PinFollowsFailures == PinSpec => PinLeavesFailedHost
<1> DEFINE Leaves == current_pin' # current_pin =>
              /\ current_pin' = (current_pin + 1) % NumNodes
              /\ increment_host(last_result')
              /\ \E r \in Calls : /\ pc[r] = "sent" /\ pc'[r] = "idle"
                                  /\ target[r] = PinnedNode \/ r \in stale
<1>1. ASSUME PinInv, [PinNext]_pinVars PROVE [Leaves]_pinVars
  <2> SUFFICES ASSUME current_pin' # current_pin PROVE Leaves
    OBVIOUS
  <2>1. PICK r \in Calls, result \in Results : conclude(r, result)
    BY <1>1 DEF PinNext, tick, call, read_clock, check_early, check_due, exchange_won,
       exchange_lost, store, get, pinVars, shared
  <2>2. increment_host(result) /\ current_pin = pin[r] /\ current_pin' = (pin[r] + 1) % NumNodes
    BY <2>1 DEF conclude, Exchanged
  <2>3. pc[r] = "sent" /\ pc'[r] = "idle"
    BY <1>1, <2>1 DEF conclude, Move, PinInv, PinTypeOK
  <2>4. target[r] = PinnedNode \/ r \in stale
    BY <1>1, <2>2, <2>3 DEF PinInv, NodeInv, PinnedNode
  <2> QED
    BY <2>1, <2>2, <2>3, <2>4 DEF conclude
<1> QED
  BY <1>1, PinInvariance, PTL DEF PinSpec, PinLeavesFailedHost
=============================================================================
