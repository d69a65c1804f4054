-------------------------- MODULE CiadLimiterProofs --------------------------
(***************************************************************************)
(* Proofs about the concurrency limiter.                                   *)
(***************************************************************************)
EXTENDS CiadLimiter, DataLemmas

-----------------------------------------------------------------------------
(* Arithmetic *)

(* Division rounds down. *)
LEMMA DivBounds ==
    ASSUME NEW a \in Nat, NEW b \in Nat \ {0}
    PROVE  a \div b \in Nat /\ b * (a \div b) <= a /\ a < b * (a \div b) + b
  OBVIOUS

(* A quotient is bounded as its numerator is. *)
LEMMA DivAtMost ==
    ASSUME NEW a \in Nat, NEW b \in Nat \ {0}, NEW c \in Nat, a <= b * c
    PROVE  a \div b \in Nat /\ a \div b <= c
<1> DEFINE q == a \div b
<1>1. q \in Nat /\ b * q <= a
  BY DivBounds
<1> HIDE DEF q
<1>2. SUFFICES ASSUME q >= c + 1 PROVE FALSE
  BY <1>1 DEF q
<1>3. b * q >= b * (c + 1)
  BY <1>1, <1>2
<1> QED
  BY <1>1, <1>3

(* f64::min. *)
LEMMA MinOfTwo ==
    ASSUME NEW a \in Int, NEW b \in Int
    PROVE  Min({a, b}) = IF a <= b THEN a ELSE b
  BY DEF Min

(* f64::max. *)
LEMMA MaxOfTwo ==
    ASSUME NEW a \in Int, NEW b \in Int
    PROVE  Max({a, b}) = IF a >= b THEN a ELSE b
  BY DEF Max

Limits == MinLimit * Scale .. MaxLimit * Scale

(* The limits that CiadAssumption allows are positive. *)
LEMMA LimitFacts ==
    /\ MinLimit * Scale \in Nat \ {0} /\ MaxLimit * Scale \in Nat /\ Scale \in Nat \ {0}
    /\ \A l \in Limits : l \in Nat \ {0}
<1>1. Scale \in Nat \ {0} /\ MinLimit \in Nat \ {0} /\ MaxLimit \in Nat
  BY CiadAssumption, FairSemaphoreAssumption DEF InitialLimit
<1>2. MinLimit * Scale \in Nat \ {0} /\ MaxLimit * Scale \in Nat
  BY <1>1
<1> QED
  BY <1>1, <1>2 DEF Limits

(* The whole part of a limit is at most MAX_LIMIT. *)
LEMMA WholeBounds ==
    ASSUME NEW l \in Limits
    PROVE  Whole(l) \in 0 .. MaxLimit
<1>1. l \in Nat /\ l <= Scale * MaxLimit
  BY LimitFacts, CiadAssumption DEF Limits
<1> QED
  BY <1>1, DivAtMost, LimitFacts, CiadAssumption DEF Whole

(* A limit after the backoff, likewise. *)
LEMMA BackedOffBounds ==
    ASSUME NEW l \in Limits
    PROVE  BackedOff(l) \in 0 .. MaxLimit
<1> DEFINE b == BackoffDen * Scale
<1>1. l \in Nat /\ l <= MaxLimit * Scale
  BY LimitFacts DEF Limits
<1>2. b \in Nat \ {0}
  BY LimitFacts, CiadAssumption
<1>3. l * BackoffNum <= (MaxLimit * Scale) * BackoffDen
  <2>1. l * BackoffNum <= (MaxLimit * Scale) * BackoffNum
    BY <1>1, LimitFacts, CiadAssumption
  <2>2. (MaxLimit * Scale) * BackoffNum <= (MaxLimit * Scale) * BackoffDen
    BY LimitFacts, CiadAssumption
  <2> QED
    BY <2>1, <2>2, <1>1, LimitFacts, CiadAssumption
<1>4. l * BackoffNum \in Nat /\ l * BackoffNum <= b * MaxLimit
  BY <1>1, <1>3, LimitFacts, CiadAssumption
<1> QED
  <2> HIDE DEF b
  <2>1. (l * BackoffNum) \div b \in 0 .. MaxLimit
    BY <1>2, <1>4, DivAtMost, CiadAssumption
  <2> QED
    BY <2>1 DEF BackedOff, b
(* update_limit stays within MIN_LIMIT and MAX_LIMIT. *)
LEMMA NewLimitBounds ==
    ASSUME NEW t \in Tasks, NEW l \in Limits
    PROVE  NewLimit(t, l) \in Limits
<1> DEFINE raised == l + (Scale * Scale) \div l
           lowered == BackedOff(l) * Scale
<1>1. raised \in Nat /\ raised >= MinLimit * Scale
  <2>1. Scale * Scale \in Nat /\ l \in Nat \ {0} /\ l >= MinLimit * Scale
    BY LimitFacts DEF Limits
  <2>2. (Scale * Scale) \div l \in Nat
    BY <2>1, DivBounds
  <2> QED
    BY <2>1, <2>2, LimitFacts
<1>2. lowered \in Nat /\ lowered <= MaxLimit * Scale
  BY BackedOffBounds, LimitFacts, CiadAssumption
<1>3. MinLimit * Scale <= MaxLimit * Scale
  <2>1. MinLimit <= MaxLimit /\ MinLimit \in Nat /\ MaxLimit \in Nat /\ Scale \in Nat
    BY CiadAssumption, FairSemaphoreAssumption DEF InitialLimit
  <2> QED
    BY <2>1
<1>4. Min({MaxLimit * Scale, raised}) \in Limits
  <2> HIDE DEF raised
  <2> QED
    BY <1>1, <1>3, LimitFacts, MinOfTwo DEF Limits
<1>5. Max({MinLimit * Scale, lowered}) \in Limits
  <2> HIDE DEF lowered
  <2> QED
    BY <1>2, <1>3, LimitFacts, MaxOfTwo DEF Limits
<1> QED
  BY <1>4, <1>5 DEF NewLimit

-----------------------------------------------------------------------------
(* The inductive invariant *)

Granted == {"granted", "holding", "loading", "exchanging", "adjusting", "releasing"}

(* The semaphore's view of a task agrees with the task's own. *)
HoldersAgree ==
    /\ holders = {t \in Tasks : pc[t] \in Granted}
    /\ waiting = {t \in Tasks : pc[t] = "queued"}

(* update_limit's locals are live in their stages only. *)
LocalsInv ==
    \A t \in Tasks : /\ pc[t] = "exchanging" => old_limit[t] # 0
                     /\ pc[t] # "adjusting" => delta[t] = 0

PermitsAlive == {t \in Tasks : pc[t] = "holding"}
InFlightCounts == in_flight = Cardinality(PermitsAlive)

(* TotalFollowsLimit, with its sum as DataLemmas names it. *)
Balance == total = Whole(limit) - SumOver(delta, Tasks) + lost

LimiterInv ==
    TypeOK /\ HoldersAgree /\ LocalsInv /\ InFlightCounts /\ Balance

(* A new limiter: the semaphore has the initial limit's permits. *)
LEMMA InitLimiter == Init => LimiterInv
<1> SUFFICES ASSUME Init PROVE LimiterInv
  OBVIOUS
<1>1. TypeOK
  <2>1. InitialLimit * Scale \in Limits
    <3>1. /\ MinLimit \in Nat /\ MaxLimit \in Nat /\ InitialLimit \in Nat /\ Scale \in Nat
          /\ MinLimit <= InitialLimit /\ InitialLimit <= MaxLimit
      BY CiadAssumption, FairSemaphoreAssumption DEF InitialLimit
    <3>2. MinLimit * Scale <= InitialLimit * Scale /\ InitialLimit * Scale <= MaxLimit * Scale
      BY <3>1
    <3> QED
      BY <3>1, <3>2, LimitFacts DEF Limits
  <2>2. SemTypeOK
    BY FairSemaphoreAssumption DEF Init, SemInit, SemTypeOK
  <2>3. 0 \in -MaxLimit .. MaxLimit
    BY CiadAssumption
  <2> QED
    BY <2>1, <2>2, <2>3 DEF Init, TypeOK, Limits, Stages, Modes
<1>2. HoldersAgree
  BY DEF Init, SemInit, HoldersAgree, Granted
<1>3. LocalsInv
  BY DEF Init, LocalsInv
<1>4. InFlightCounts
  <2>1. PermitsAlive = {}
    BY DEF Init, PermitsAlive
  <2> QED
    BY <2>1, FS_EmptySet DEF Init, InFlightCounts
<1>5. Balance
  <2>1. SumOver(delta, Tasks) = 0
    BY SumOfZeros, CiadAssumption DEF Init
  <2>2. Whole(limit) = InitialLimit
    <3>1. InitialLimit \in Nat
      BY FairSemaphoreAssumption DEF InitialLimit
    <3>2. (InitialLimit * Scale) \div Scale = InitialLimit
      BY <3>1, LimitFacts
    <3> QED
      BY <3>2 DEF Init, Whole
  <2> QED
    BY <2>1, <2>2, FairSemaphoreAssumption
    DEF Balance, Init, SemInit, InitialLimit
<1> QED
  BY <1>1, <1>2, <1>3, <1>4, <1>5 DEF LimiterInv

(* enter and drop_permit count; no other step moves a Permit. *)
LEMMA EnterCounts ==
    ASSUME TypeOK, InFlightCounts, NEW t \in Tasks, pc[t] # "holding",
           Goto(t, "holding"), in_flight' = in_flight + 1
    PROVE  InFlightCounts'
<1>1. PermitsAlive' = PermitsAlive \cup {t} /\ t \notin PermitsAlive
  BY DEF PermitsAlive, Goto, TypeOK
<1>2. IsFiniteSet(PermitsAlive)
  BY FS_Subset, CiadAssumption DEF PermitsAlive
<1> QED
  BY <1>1, <1>2, FS_AddElement DEF InFlightCounts

(* Permit::drop lowers in_flight as the permit goes. *)
LEMMA DropCounts ==
    ASSUME TypeOK, InFlightCounts, NEW t \in Tasks, pc[t] = "holding",
           NEW s \in Stages \ {"holding"}, Goto(t, s), in_flight' = in_flight - 1
    PROVE  InFlightCounts' /\ in_flight' \in Nat
<1>1. PermitsAlive' = PermitsAlive \ {t} /\ t \in PermitsAlive
  BY DEF PermitsAlive, Goto, TypeOK
<1>2. IsFiniteSet(PermitsAlive)
  BY FS_Subset, CiadAssumption DEF PermitsAlive
<1>3. Cardinality(PermitsAlive') = Cardinality(PermitsAlive) - 1
  BY <1>1, <1>2, FS_RemoveElement
<1>4. IsFiniteSet(PermitsAlive') /\ Cardinality(PermitsAlive') \in Nat
  BY <1>1, <1>2, FS_Subset, FS_CardinalityType
<1> QED
  BY <1>3, <1>4 DEF InFlightCounts

(* No other step of a task changes which permits are alive. *)
LEMMA OthersDoNotCount ==
    ASSUME TypeOK, InFlightCounts, NEW t \in Tasks, pc[t] # "holding",
           NEW s \in Stages \ {"holding"}, Goto(t, s), in_flight' = in_flight
    PROVE  InFlightCounts'
<1>1. PermitsAlive' = PermitsAlive
  BY DEF PermitsAlive, Goto, TypeOK
<1> QED
  BY <1>1 DEF InFlightCounts

(* How the balance of Balance moves with one task's delta. *)
LEMMA DeltaMoves ==
    ASSUME TypeOK, NEW t \in Tasks, NEW d \in Int, delta' = [delta EXCEPT ![t] = d]
    PROVE  /\ SumOver(delta, Tasks) \in Int
           /\ SumOver(delta', Tasks) = SumOver(delta, Tasks) - delta[t] + d
<1>1. delta \in [Tasks -> Int] /\ delta' \in [Tasks -> Int] /\ delta'[t] = d
  BY CiadAssumption DEF TypeOK
<1>2. \A u \in Tasks \ {t} : delta'[u] = delta[u]
  BY <1>1
<1>3. ASSUME NEW e, e \in [Tasks -> Int], NEW f, f \in [Tasks -> Int], \A u \in Tasks \ {t} : f[u] = e[u]
      PROVE  SumOver(e, Tasks) \in Int /\ SumOver(f, Tasks) = SumOver(e, Tasks) - e[t] + f[t]
  BY <1>3, SumMoves, CiadAssumption
<1> QED
  BY <1>1, <1>2, <1>3

(* Every step of every task keeps the invariant. *)
LEMMA StepLimiter == LimiterInv /\ [Next]_vars => LimiterInv'
<1> SUFFICES ASSUME LimiterInv, [Next]_vars PROVE LimiterInv'
  OBVIOUS
<1>a. TypeOK /\ HoldersAgree /\ LocalsInv /\ InFlightCounts /\ Balance
  BY DEF LimiterInv
<1>b. SUFFICES TypeOK' /\ HoldersAgree' /\ LocalsInv' /\ InFlightCounts' /\ Balance'
  BY DEF LimiterInv
<1>1. ASSUME NEW t \in Tasks, acquire_now(t)
      PROVE  TypeOK' /\ HoldersAgree' /\ LocalsInv' /\ InFlightCounts' /\ Balance'
  <2>1. TypeOK'
    BY <1>a, <1>1 DEF TypeOK, SemTypeOK, acquire_now, AcquireNow, Goto, Stages
  <2>2. HoldersAgree' /\ LocalsInv'
    BY <1>a, <1>1 DEF TypeOK, HoldersAgree, LocalsInv, Granted, acquire_now, AcquireNow, Goto
  <2>3. InFlightCounts'
    BY <1>a, <1>1, OthersDoNotCount DEF acquire_now, Stages
  <2>4. Balance'
    BY <1>a, <1>1 DEF Balance, acquire_now, AcquireNow
  <2> QED
    BY <2>1, <2>2, <2>3, <2>4
<1>2. ASSUME NEW t \in Tasks, acquire_wait(t)
      PROVE  TypeOK' /\ HoldersAgree' /\ LocalsInv' /\ InFlightCounts' /\ Balance'
  <2>1. TypeOK'
    BY <1>a, <1>2 DEF TypeOK, SemTypeOK, acquire_wait, Join, Goto, Stages
  <2>2. HoldersAgree' /\ LocalsInv'
    BY <1>a, <1>2 DEF TypeOK, HoldersAgree, LocalsInv, Granted, acquire_wait, Join, Goto
  <2>3. InFlightCounts'
    BY <1>a, <1>2, OthersDoNotCount DEF acquire_wait, Stages
  <2>4. Balance'
    BY <1>a, <1>2 DEF Balance, acquire_wait, Join
  <2> QED
    BY <2>1, <2>2, <2>3, <2>4
<1>3. ASSUME NEW t \in Tasks, acquire_granted(t)
      PROVE  TypeOK' /\ HoldersAgree' /\ LocalsInv' /\ InFlightCounts' /\ Balance'
  <2>1. TypeOK'
    BY <1>a, <1>3 DEF TypeOK, SemTypeOK, acquire_granted, Grant, Without, Goto, Stages
  <2>2. HoldersAgree' /\ LocalsInv'
    BY <1>a, <1>3 DEF TypeOK, HoldersAgree, LocalsInv, Granted, acquire_granted, Grant, Goto
  <2>3. InFlightCounts'
    BY <1>a, <1>3, OthersDoNotCount DEF acquire_granted, Stages
  <2>4. Balance'
    BY <1>a, <1>3 DEF Balance, acquire_granted, Grant
  <2> QED
    BY <2>1, <2>2, <2>3, <2>4
<1>4. ASSUME NEW t \in Tasks, acquire_cancelled(t)
      PROVE  TypeOK' /\ HoldersAgree' /\ LocalsInv' /\ InFlightCounts' /\ Balance'
  <2>1. TypeOK'
    BY <1>a, <1>4 DEF TypeOK, SemTypeOK, acquire_cancelled, Abandon, Without, Goto, Stages
  <2>2. HoldersAgree' /\ LocalsInv'
    BY <1>a, <1>4 DEF TypeOK, HoldersAgree, LocalsInv, Granted, acquire_cancelled, Abandon, Goto
  <2>3. InFlightCounts'
    BY <1>a, <1>4, OthersDoNotCount DEF acquire_cancelled, Stages
  <2>4. Balance'
    BY <1>a, <1>4 DEF Balance, acquire_cancelled, Abandon
  <2> QED
    BY <2>1, <2>2, <2>3, <2>4
<1>5. ASSUME NEW t \in Tasks, enter(t)
      PROVE  TypeOK' /\ HoldersAgree' /\ LocalsInv' /\ InFlightCounts' /\ Balance'
  <2>1. TypeOK'
    BY <1>a, <1>5 DEF TypeOK, SemTypeOK, semaphoreVars, enter, Goto, Stages
  <2>2. HoldersAgree' /\ LocalsInv'
    BY <1>a, <1>5 DEF TypeOK, HoldersAgree, LocalsInv, Granted, enter, Goto, semaphoreVars
  <2>3. InFlightCounts'
    BY <1>a, <1>5, EnterCounts DEF enter
  <2>4. Balance'
    BY <1>a, <1>5 DEF Balance, enter, semaphoreVars
  <2> QED
    BY <2>1, <2>2, <2>3, <2>4
<1>6. ASSUME NEW t \in Tasks, NEW outcome \in Outcomes, on_response(t, outcome)
      PROVE  TypeOK' /\ HoldersAgree' /\ LocalsInv' /\ InFlightCounts' /\ Balance'
  <2>0. ModeOf(outcome) \in Modes
    BY DEF ModeOf, Outcomes, Modes
  <2>1. TypeOK'
    BY <1>a, <1>6, <2>0 DEF TypeOK, SemTypeOK, semaphoreVars, on_response
  <2>2. HoldersAgree' /\ LocalsInv' /\ InFlightCounts'
    BY <1>a, <1>6 DEF HoldersAgree, LocalsInv, InFlightCounts, PermitsAlive, on_response, semaphoreVars
  <2>4. Balance'
    BY <1>a, <1>6 DEF Balance, on_response, semaphoreVars
  <2> QED
    BY <2>1, <2>2, <2>4
<1>7. ASSUME NEW t \in Tasks, drop_permit(t)
      PROVE  TypeOK' /\ HoldersAgree' /\ LocalsInv' /\ InFlightCounts' /\ Balance'
  <2>1. PICK s \in {"releasing", "loading"} : Goto(t, s)
    BY <1>7 DEF drop_permit
  <2>2. InFlightCounts' /\ in_flight' \in Nat
    <3>1. s \in Stages \ {"holding"}
      BY DEF Stages
    <3> QED
      BY <1>a, <1>7, <2>1, <3>1, DropCounts DEF drop_permit
  <2>3. TypeOK'
    BY <1>a, <1>7, <2>1, <2>2 DEF TypeOK, SemTypeOK, semaphoreVars, drop_permit, Goto, Forget, Stages, Modes
  <2>4. HoldersAgree' /\ LocalsInv'
    BY <1>a, <1>7, <2>1 DEF TypeOK, HoldersAgree, LocalsInv, Granted, drop_permit, Goto, semaphoreVars
  <2>5. Balance'
    BY <1>a, <1>7 DEF Balance, drop_permit, semaphoreVars
  <2> QED
    BY <2>2, <2>3, <2>4, <2>5
<1>8. ASSUME NEW t \in Tasks, load_limit(t)
      PROVE  TypeOK' /\ HoldersAgree' /\ LocalsInv' /\ InFlightCounts' /\ Balance'
  <2>1. TypeOK'
    BY <1>a, <1>8 DEF TypeOK, SemTypeOK, semaphoreVars, load_limit, Goto, Stages
  <2>2. limit # 0
    BY <1>a, LimitFacts DEF TypeOK, Limits
  <2>3. HoldersAgree' /\ LocalsInv'
    BY <1>a, <1>8, <2>2 DEF TypeOK, HoldersAgree, LocalsInv, Granted, load_limit, Goto, semaphoreVars
  <2>4. InFlightCounts'
    BY <1>a, <1>8, OthersDoNotCount DEF load_limit, Stages
  <2>5. Balance'
    BY <1>a, <1>8 DEF Balance, load_limit, semaphoreVars
  <2> QED
    BY <2>1, <2>3, <2>4, <2>5
<1>9. ASSUME NEW t \in Tasks, keep_limit(t)
      PROVE  TypeOK' /\ HoldersAgree' /\ LocalsInv' /\ InFlightCounts' /\ Balance'
  <2>1. TypeOK'
    BY <1>a, <1>9 DEF TypeOK, SemTypeOK, semaphoreVars, keep_limit, Goto, Forget, Stages, Modes
  <2>2. HoldersAgree' /\ LocalsInv'
    BY <1>a, <1>9 DEF TypeOK, HoldersAgree, LocalsInv, Granted, keep_limit, Goto, semaphoreVars
  <2>3. InFlightCounts'
    BY <1>a, <1>9, OthersDoNotCount DEF keep_limit, Stages
  <2>4. Balance'
    BY <1>a, <1>9 DEF Balance, keep_limit, semaphoreVars
  <2> QED
    BY <2>1, <2>2, <2>3, <2>4
<1>10. ASSUME NEW t \in Tasks, exchange_limit(t)
       PROVE  TypeOK' /\ HoldersAgree' /\ LocalsInv' /\ InFlightCounts' /\ Balance'
  <2> DEFINE d == Whole(limit') - Whole(limit)
  <2>1. limit \in Limits /\ limit' \in Limits
    BY <1>a, <1>10, NewLimitBounds DEF TypeOK, Limits, exchange_limit
  <2>2. /\ Whole(limit) \in 0 .. MaxLimit /\ Whole(limit') \in 0 .. MaxLimit
        /\ d \in -MaxLimit .. MaxLimit /\ d \in Int
    BY <2>1, WholeBounds, CiadAssumption
  <2>3. delta' = [delta EXCEPT ![t] = d] /\ delta[t] = 0 /\ delta'[t] = d
    BY <1>a, <1>10 DEF exchange_limit, LocalsInv, TypeOK
  <2> HIDE DEF d
  <2>4. PICK s \in {"releasing", "adjusting"} : Goto(t, s) /\ (s # "adjusting" => d = 0)
    BY <1>10, <2>3 DEF exchange_limit
  <2>5. TypeOK'
    BY <1>a, <1>10, <2>1, <2>2, <2>3, <2>4
    DEF TypeOK, SemTypeOK, semaphoreVars, exchange_limit, Goto, Forget, Stages, Modes, Limits
  <2>6. HoldersAgree' /\ LocalsInv'
    BY <1>a, <1>10, <2>3, <2>4
    DEF TypeOK, HoldersAgree, LocalsInv, Granted, exchange_limit, Goto, semaphoreVars
  <2>7. InFlightCounts'
    <3>1. s \in Stages \ {"holding"}
      BY DEF Stages
    <3> QED
      BY <1>a, <1>10, <2>4, <3>1, OthersDoNotCount DEF exchange_limit
  <2>8. Balance'
    <3>0. TypeOK /\ d \in Int /\ delta' = [delta EXCEPT ![t] = d]
      BY <1>a, <2>2, <2>3
    <3>1. /\ SumOver(delta, Tasks) \in Int
          /\ SumOver(delta', Tasks) = SumOver(delta, Tasks) - delta[t] + d
      BY <3>0, DeltaMoves, Zenon
    <3>2. total = Whole(limit) - SumOver(delta, Tasks) + lost
      BY <1>a DEF Balance
    <3>3. total' = total /\ lost' = lost /\ lost \in Nat
      BY <1>a, <1>10 DEF exchange_limit, semaphoreVars, TypeOK
    <3>4. total' = Whole(limit') - SumOver(delta', Tasks) + lost'
      BY <3>1, <3>2, <3>3, <2>2, <2>3 DEF d
    <3> QED
      BY <3>4 DEF Balance
  <2> QED
    BY <2>5, <2>6, <2>7, <2>8
<1>11. ASSUME NEW t \in Tasks, exchange_failed(t)
       PROVE  TypeOK' /\ HoldersAgree' /\ LocalsInv' /\ InFlightCounts' /\ Balance'
  <2>1. TypeOK'
    BY <1>a, <1>11 DEF TypeOK, SemTypeOK, semaphoreVars, exchange_failed
  <2>2. limit # 0
    BY <1>a, LimitFacts DEF TypeOK, Limits
  <2>3. HoldersAgree' /\ LocalsInv' /\ InFlightCounts'
    BY <1>a, <1>11, <2>2
    DEF TypeOK, HoldersAgree, LocalsInv, InFlightCounts, PermitsAlive, exchange_failed, semaphoreVars
  <2>4. Balance'
    BY <1>a, <1>11 DEF Balance, exchange_failed, semaphoreVars
  <2> QED
    BY <2>1, <2>3, <2>4
<1>12. ASSUME NEW t \in Tasks, raise_total(t)
       PROVE  TypeOK' /\ HoldersAgree' /\ LocalsInv' /\ InFlightCounts' /\ Balance'
  <2>1. TypeOK'
    BY <1>a, <1>12, FairSemaphoreAssumption, CiadAssumption
    DEF TypeOK, SemTypeOK, raise_total, AddPermits, Goto, Stages
  <2>2. HoldersAgree' /\ LocalsInv'
    BY <1>a, <1>12 DEF TypeOK, HoldersAgree, LocalsInv, Granted, raise_total, AddPermits, Goto
  <2>3. InFlightCounts'
    BY <1>a, <1>12, OthersDoNotCount DEF raise_total, Stages
  <2>4. Balance'
    <3>0. TypeOK /\ 0 \in Int /\ delta' = [delta EXCEPT ![t] = 0]
      BY <1>a, <1>12 DEF raise_total
    <3>1. /\ SumOver(delta, Tasks) \in Int
          /\ SumOver(delta', Tasks) = SumOver(delta, Tasks) - delta[t] + 0
      BY <3>0, DeltaMoves, Zenon
    <3>2. total = Whole(limit) - SumOver(delta, Tasks) + lost
      BY <1>a DEF Balance
    <3>3. total' = total + delta[t] /\ lost' = lost /\ limit' = limit
      BY <1>12 DEF raise_total, AddPermits
    <3>4. lost \in Nat /\ delta[t] \in Int /\ Whole(limit) \in Int /\ total \in Int
      BY <1>a, WholeBounds, CiadAssumption DEF TypeOK, SemTypeOK, Limits
    <3>5. total' = Whole(limit) - SumOver(delta', Tasks) + lost
      BY <3>1, <3>2, <3>3, <3>4
    <3> QED
      BY <3>3, <3>5 DEF Balance
  <2> QED
    BY <2>1, <2>2, <2>3, <2>4
<1>13. ASSUME NEW t \in Tasks, lower_total(t)
       PROVE  TypeOK' /\ HoldersAgree' /\ LocalsInv' /\ InFlightCounts' /\ Balance'
  <2>0. /\ UNCHANGED <<holders, waiting, before>>
        /\ \/ total' = total + delta[t] /\ lost' = lost /\ total' >= 0
           \/ total' = total /\ lost' = lost - delta[t]
        /\ delta[t] \in Int /\ delta[t] < 0
    BY <1>a, <1>13, CiadAssumption DEF TypeOK, SemTypeOK, lower_total, RemovePermits, semaphoreVars
  <2>1. TypeOK'
    <3>1. total' \in 0 .. MaxPermits /\ lost' \in Nat
      BY <1>a, <2>0, FairSemaphoreAssumption DEF TypeOK, SemTypeOK
    <3> QED
      BY <1>a, <1>13, <2>0, <3>1, CiadAssumption DEF TypeOK, SemTypeOK, lower_total, Goto, Stages
  <2>2. HoldersAgree' /\ LocalsInv'
    BY <1>a, <1>13, <2>0 DEF TypeOK, HoldersAgree, LocalsInv, Granted, lower_total, Goto
  <2>3. InFlightCounts'
    BY <1>a, <1>13, OthersDoNotCount DEF lower_total, Stages
  <2>4. Balance'
    <3>0. TypeOK /\ 0 \in Int /\ delta' = [delta EXCEPT ![t] = 0]
      BY <1>a, <1>13 DEF lower_total
    <3>1. /\ SumOver(delta, Tasks) \in Int
          /\ SumOver(delta', Tasks) = SumOver(delta, Tasks) - delta[t] + 0
      BY <3>0, DeltaMoves, Zenon
    <3>2. total = Whole(limit) - SumOver(delta, Tasks) + lost
      BY <1>a DEF Balance
    <3>3. limit' = limit
      BY <1>13 DEF lower_total
    <3>4. lost \in Nat /\ Whole(limit) \in Int /\ total \in Int
      BY <1>a, WholeBounds, CiadAssumption DEF TypeOK, SemTypeOK, Limits
    <3>5. total' = Whole(limit) - SumOver(delta', Tasks) + lost'
      BY <2>0, <3>1, <3>2, <3>4
    <3> QED
      BY <3>3, <3>5 DEF Balance
  <2> QED
    BY <2>1, <2>2, <2>3, <2>4
<1>14. ASSUME NEW t \in Tasks, release(t)
       PROVE  TypeOK' /\ HoldersAgree' /\ LocalsInv' /\ InFlightCounts' /\ Balance'
  <2>1. TypeOK'
    BY <1>a, <1>14 DEF TypeOK, SemTypeOK, release, Release, Goto, Stages
  <2>2. HoldersAgree' /\ LocalsInv'
    BY <1>a, <1>14 DEF TypeOK, HoldersAgree, LocalsInv, Granted, release, Release, Goto
  <2>3. InFlightCounts'
    BY <1>a, <1>14, OthersDoNotCount DEF release, Stages
  <2>4. Balance'
    BY <1>a, <1>14 DEF Balance, release, Release
  <2> QED
    BY <2>1, <2>2, <2>3, <2>4
<1>15. CASE UNCHANGED vars
  BY <1>a, <1>15
  DEF TypeOK, SemTypeOK, HoldersAgree, LocalsInv, InFlightCounts, PermitsAlive, Balance,
      vars, taskVars, semaphoreVars
<1> QED
  BY <1>1, <1>2, <1>3, <1>4, <1>5, <1>6, <1>7, <1>8, <1>9, <1>10, <1>11, <1>12, <1>13, <1>14, <1>15
  DEF Next, Acquiring, Running

(* The invariant holds in every reachable state. *)
THEOREM LimiterInvariance == Spec => []LimiterInv
<1>1. Init => LimiterInv
  BY InitLimiter
<1>2. LimiterInv /\ [Next]_vars => LimiterInv'
  BY StepLimiter
<1> QED
  BY <1>1, <1>2, PTL DEF Spec

(* The limit is always between MIN_LIMIT and MAX_LIMIT, whatever threads   *)
(* raise and lower it at the same time, and no count leaves its type: in   *)
(* particular in_flight and the semaphore's total never wrap.              *)
THEOREM LimiterTypes == Spec => []TypeOK
<1>1. LimiterInv => TypeOK
  BY DEF LimiterInv
<1> QED
  BY <1>1, LimiterInvariance, PTL

(* The permits of the semaphore follow the limit, up to the adjustments    *)
(* that are under way and those lost to a panic.                           *)
THEOREM PermitsFollowLimit == Spec => []TotalFollowsLimit
<1>1. LimiterInv => TotalFollowsLimit
  BY DEF LimiterInv, Balance, SumOver, TotalFollowsLimit
<1> QED
  BY <1>1, LimiterInvariance, PTL

(* in_flight is the number of Permits alive, and at most the number of     *)
(* tasks the semaphore let in.                                             *)
THEOREM InFlightCorrect == Spec => []InFlightIsExact
<1>1. ASSUME LimiterInv PROVE InFlightIsExact
  <2>1. PermitsAlive \subseteq holders /\ IsFiniteSet(holders)
    BY <1>1, FS_Subset, CiadAssumption DEF LimiterInv, HoldersAgree, PermitsAlive, Granted
  <2>2. Cardinality(PermitsAlive) <= Cardinality(holders)
    BY <2>1, FS_Subset
  <2> QED
    BY <1>1, <2>2 DEF LimiterInv, InFlightCounts, PermitsAlive, InFlightIsExact
<1> QED
  BY <1>1, LimiterInvariance, PTL

(* The limiter keeps to the contract of the semaphore it stands on: all it *)
(* does with it are steps of FairSemaphore, the ones that raise and lower  *)
(* the total by what the limit moved included.                             *)
THEOREM LimiterUsesSemaphore == Spec => SemSpec
<1>1. Init => SemInit
  BY DEF Init
<1>2. ASSUME LimiterInv, [Next]_vars PROVE [SemNext]_semaphoreVars
  <2>1. ASSUME NEW t \in Tasks, raise_total(t) PROVE SemNext
    <3>1. delta[t] \in 0 .. MaxPermits
      BY <1>2, <2>1, CiadAssumption, FairSemaphoreAssumption DEF LimiterInv, TypeOK, raise_total
    <3> QED
      BY <2>1, <3>1 DEF raise_total, SemNext
  <2>2. ASSUME NEW t \in Tasks, lower_total(t) PROVE [SemNext]_semaphoreVars
    <3>1. -delta[t] \in 0 .. MaxPermits
      BY <1>2, <2>2, CiadAssumption, FairSemaphoreAssumption DEF LimiterInv, TypeOK, lower_total
    <3> QED
      BY <2>2, <3>1 DEF lower_total, SemNext
  <2>3. ASSUME NEW t \in Tasks, Acquiring(t) \/ release(t) PROVE SemNext
    BY <2>3 DEF Acquiring, acquire_now, acquire_wait, acquire_granted, acquire_cancelled,
                release, SemNext
  <2>4. ASSUME NEW t \in Tasks,
               \/ enter(t) \/ drop_permit(t) \/ load_limit(t) \/ keep_limit(t)
               \/ exchange_limit(t) \/ exchange_failed(t)
               \/ \E outcome \in Outcomes : on_response(t, outcome)
        PROVE  UNCHANGED semaphoreVars
    BY <2>4 DEF enter, drop_permit, load_limit, keep_limit, exchange_limit, exchange_failed, on_response
  <2>5. CASE UNCHANGED vars
    BY <2>5 DEF vars
  <2> QED
    BY <1>2, <2>1, <2>2, <2>3, <2>4, <2>5 DEF Next, Running
<1> QED
  BY <1>1, <1>2, LimiterInvariance, PTL DEF Spec, SemSpec
=============================================================================
