---------------------------- MODULE FairSemaphore ----------------------------
(***************************************************************************)
(* What an adjustable, absolutely fair semaphore promises, without queues, *)
(* pointers or wakers: a total number of permits that may be raised and    *)
(* lowered at will, the tasks that hold a permit, the tasks that wait for  *)
(* one, and the order in which the waiting tasks began to wait.            *)
(*                                                                         *)
(* DeficitSemaphore is shown to implement this module, and CiadLimiter is  *)
(* built on it.                                                            *)
(***************************************************************************)
EXTENDS Naturals, FiniteSets

CONSTANTS
    Tasks,           \* the futures that compete for permits
    InitialPermits,  \* permits at creation
    MaxPermits       \* usize::MAX: the largest total that can be represented

ASSUME FairSemaphoreAssumption ==
    /\ MaxPermits \in Nat
    /\ InitialPermits \in 0 .. MaxPermits

VARIABLES
    total,    \* permits in the system, held ones included
    holders,  \* tasks that hold a permit
    waiting,  \* tasks that have been told to wait
    before    \* <<t, u>>: both wait, and t began to wait before u

semaphoreVars == <<total, holders, waiting, before>>

SemTypeOK ==
    /\ total \in 0 .. MaxPermits
    /\ holders \subseteq Tasks
    /\ waiting \subseteq Tasks
    /\ before \subseteq (waiting \X waiting)

SemInit ==
    /\ total = InitialPermits
    /\ holders = {}
    /\ waiting = {}
    /\ before = {}

-----------------------------------------------------------------------------
(* A permit is free. The count may be in deficit: lowering the total takes *)
(* no permit away from a task that holds one.                              *)
HasPermits == Cardinality(holders) < total

Uninvolved(t) == t \notin holders /\ t \notin waiting

(* Pairs of `before` that do not speak of t. *)
Without(order, t) == {p \in order : p[1] # t /\ p[2] # t}

(* The first attempt succeeds at once: nobody waits and a permit is free. *)
AcquireNow(t) ==
    /\ Uninvolved(t)
    /\ waiting = {} /\ HasPermits
    /\ holders' = holders \cup {t}
    /\ UNCHANGED <<total, waiting, before>>

(* The first attempt fails: t waits behind everyone who already waits. *)
Join(t) ==
    /\ Uninvolved(t)
    /\ ~(waiting = {} /\ HasPermits)
    /\ waiting' = waiting \cup {t}
    /\ before' = before \cup (waiting \X {t})
    /\ UNCHANGED <<total, holders>>

(* A waiting task gets a permit: it is the one that has waited longest. *)
Grant(t) ==
    /\ t \in waiting
    /\ \A u \in waiting : <<u, t>> \notin before
    /\ HasPermits
    /\ waiting' = waiting \ {t}
    /\ before' = Without(before, t)
    /\ holders' = holders \cup {t}
    /\ UNCHANGED total

(* A waiting task gives up. *)
Abandon(t) ==
    /\ t \in waiting
    /\ waiting' = waiting \ {t}
    /\ before' = Without(before, t)
    /\ UNCHANGED <<total, holders>>

Release(t) ==
    /\ t \in holders
    /\ holders' = holders \ {t}
    /\ UNCHANGED <<total, waiting, before>>

AddPermits(n) ==
    /\ total + n <= MaxPermits
    /\ total' = total + n
    /\ UNCHANGED <<holders, waiting, before>>

RemovePermits(n) ==
    /\ n <= total
    /\ total' = total - n
    /\ UNCHANGED <<holders, waiting, before>>

-----------------------------------------------------------------------------
SemNext ==
    \/ \E t \in Tasks :
          AcquireNow(t) \/ Join(t) \/ Grant(t) \/ Abandon(t) \/ Release(t)
    \/ \E n \in 0 .. MaxPermits : AddPermits(n) \/ RemovePermits(n)

SemSpec == SemInit /\ [][SemNext]_semaphoreVars

(* A permit that stays free is eventually given to the task that has      *)
(* waited longest.                                                        *)
FairSemSpec == SemSpec /\ \A t \in Tasks : WF_semaphoreVars(Grant(t))
=============================================================================
