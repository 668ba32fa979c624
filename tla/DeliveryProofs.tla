--------------------------- MODULE DeliveryProofs ---------------------------
(***************************************************************************)
(* Proofs about Delivery for every set of events, endpoints and workers    *)
(* and every lease, back-off and retry limit.                              *)
(***************************************************************************)
EXTENDS Delivery, TLAPS

-----------------------------------------------------------------------------
(* The inductive invariant                                                 *)

\* Rows appear with their event, with the counters at zero, and a claimed
\* row has used a try of its cycle.
RowsOfEvents ==
  \A d \in Deliveries :
    /\ status[d] # "NONE" => d[1] \in events
    /\ status[d] = "NONE" => attempts[d] = 0 /\ cycleStart[d] = 0
    /\ cycleStart[d] <= attempts[d]
    /\ status[d] = "IN_FLIGHT" => cycleStart[d] < attempts[d]

\* What a worker holds while it is inside DispatchOne.
JobsReal ==
  \A w \in Workers : pc[w] \in Busy =>
    /\ job[w] \in Deliveries
    /\ status[job[w]] # "NONE"
    /\ 1 <= tryNumber[w] /\ tryNumber[w] <= attempts[job[w]]

\* A worker that holds the claim works on current copies of the row, and its
\* lease is as old as its dispatch.
ClaimsCurrent ==
  \A w \in Workers : pc[w] \in Busy /\ HoldsClaim(w) =>
    /\ tryNumber[w] = attempts[job[w]]
    /\ tryBase[w] = cycleStart[job[w]]
    /\ age[w] <= Lease => leaseLeft[job[w]] = Lease - age[w]

\* Until the second its lease ends in a worker holds its claim.
ClaimsKept ==
  \A w \in Workers : pc[w] \in Busy /\ age[w] < Lease => HoldsClaim(w)

\* Attempt numbers are given out once.
NumbersUsed ==
  \A d \in Deliveries : \A n \in logged[d] : n <= attempts[d]

NumbersDistinct ==
  \A v, w \in Workers :
    pc[v] \in Busy /\ pc[w] \in Busy /\ job[v] = job[w] /\ v # w
      => tryNumber[v] # tryNumber[w]

NumbersUnlogged ==
  \A w \in Workers :
    pc[w] \in {"claimed", "sending", "answered"} => tryNumber[w] \notin logged[job[w]]

\* A success in a worker's hands, and a delivered row, were accepted.
SuccessReached ==
  /\ \A w \in Workers : pc[w] \in {"answered", "recorded"} /\ outcome[w] = "SUCCESS"
                          => reached[job[w]]
  /\ \A d \in Deliveries : status[d] = "DELIVERED" => reached[d]

IInv ==
  /\ TypeOK
  /\ RowsOfEvents
  /\ JobsReal
  /\ ClaimsCurrent
  /\ ClaimsKept
  /\ OneLeasePerEndpoint
  /\ PendingHasTriesLeft
  /\ NumbersUsed
  /\ NumbersDistinct
  /\ NumbersUnlogged
  /\ SuccessReached

-----------------------------------------------------------------------------

\* A busy worker has a delivery: TypeOK alone is not inductive, since an
\* update of the row of no delivery would be a type error.
BusyHasJob == \A w \in Workers : pc[w] \in Busy => job[w] \in Deliveries

LEMMA BackoffType ==
  ASSUME TypeOK, NEW w \in Workers
  PROVE  /\ EffectiveAttempts(w) \in Nat \ {0}
         /\ RetryIn(w) \in Int
<1>1. EffectiveAttempts(w) \in Nat \ {0}
  <2>1. tryNumber[w] \in Nat /\ tryBase[w] \in Nat
    BY DEF TypeOK
  <2>2. QED
    BY <2>1 DEF EffectiveAttempts
<1>2. RetryIn(w) \in Int
  <2> DEFINE last == Len(Backoffs)
             step == IF EffectiveAttempts(w) > last THEN last ELSE EffectiveAttempts(w)
  <2>1. step \in 1..Len(Backoffs)
    BY <1>1, DeliveryAssumption
  <2>2. Backoffs[step] \in Nat
    BY <2>1, DeliveryAssumption
  <2>3. age[w] \in Nat
    BY DEF TypeOK
  <2>4. RetryIn(w) = Backoffs[step] - age[w]
    BY DEF RetryIn
  <2>5. QED
    BY <2>2, <2>3, <2>4
<1>3. QED
  BY <1>1, <1>2

TableType ==
  /\ status \in [Deliveries -> RowStatus]
  /\ attempts \in [Deliveries -> Nat]
  /\ cycleStart \in [Deliveries -> Nat]
  /\ claimedBy \in [Deliveries -> Workers \cup {NoWorker}]
  /\ leaseLeft \in [Deliveries -> Int]

WorkerType ==
  /\ pc \in [Workers -> Places]
  /\ job \in [Workers -> Deliveries \cup {NoDelivery}]
  /\ tryNumber \in [Workers -> Nat]
  /\ tryBase \in [Workers -> Nat]
  /\ age \in [Workers -> Nat]
  /\ outcome \in [Workers -> Outcomes]

LEMMA SettleType ==
  ASSUME TypeOK, NEW w \in Workers, job[w] \in Deliveries, NEW new \in RowStatus,
         Settle(w, new) \/ SettleNothing(w)
  PROVE  TableType'
<1>1. CASE Settle(w, new)
  BY <1>1 DEF Settle, TypeOK, TableType
<1>2. CASE SettleNothing(w)
  BY <1>2 DEF SettleNothing, TypeOK, TableType, tableVars
<1>3. QED
  BY <1>1, <1>2

LEMMA LeaveType ==
  ASSUME TypeOK, BusyHasJob, NEW w \in Workers, NEW place \in {"waiting", "draining"},
         Leave(w, place)
  PROVE  WorkerType' /\ BusyHasJob'
BY DEF Leave, TypeOK, BusyHasJob, WorkerType, Outcomes, Places, Busy

LEMMA MoveType ==
  ASSUME TypeOK, BusyHasJob, NEW w \in Workers, NEW place \in Places,
         place \in Busy => pc[w] \in Busy, MoveTo(w, place), UNCHANGED outcome
  PROVE  WorkerType' /\ BusyHasJob'
BY DEF MoveTo, TypeOK, BusyHasJob, WorkerType, Places

LEMMA TypeStep == TypeOK /\ BusyHasJob /\ [Next]_vars => TypeOK' /\ BusyHasJob'
<1> SUFFICES ASSUME TypeOK, BusyHasJob, [Next]_vars PROVE TypeOK' /\ BusyHasJob'
  OBVIOUS
<1> USE DeliveryAssumption
<1> USE DEF TypeOK, BusyHasJob, RowStatus, Outcomes, Places, Busy, tableVars, workerVars
<1>1. ASSUME NEW ep \in Endpoints, NEW new \in {"ACTIVE", "DISABLED"},
             SetEndpointStatus(ep, new)
      PROVE  TypeOK' /\ BusyHasJob'
  BY <1>1 DEF SetEndpointStatus
<1>2. ASSUME NEW e \in Events, CommitEvent(e) PROVE TypeOK' /\ BusyHasJob'
  BY <1>2 DEF CommitEvent
<1>3. ASSUME NEW d \in Deliveries, ReplayDelivery(d) PROVE TypeOK' /\ BusyHasJob'
  BY <1>3 DEF ReplayDelivery
<1>4. ASSUME NEW w \in Workers, StartDrain(w) \/ ClaimNothing(w) \/ TargetFound(w)
      PROVE  TypeOK' /\ BusyHasJob'
  <2>1. UNCHANGED <<endpointStatus, events, tableVars, logged, outcome, reached, faults, replays>>
    BY <1>4 DEF StartDrain, ClaimNothing, TargetFound
  <2>2. PICK place \in {"waiting", "draining", "sending"} :
          MoveTo(w, place) /\ (place = "sending" => pc[w] = "claimed")
    BY <1>4 DEF StartDrain, ClaimNothing, TargetFound
  <2>3. WorkerType' /\ BusyHasJob'
    BY <2>1, <2>2, MoveType
  <2>4. QED
    BY <2>1, <2>3 DEF WorkerType
<1>5. ASSUME NEW w \in Workers, NEW d \in Deliveries, ClaimDelivery(w, d)
      PROVE  TypeOK' /\ BusyHasJob'
  <2>1. status' \in [Deliveries -> RowStatus] /\ attempts' \in [Deliveries -> Nat]
    BY <1>5 DEF ClaimDelivery
  <2>2. /\ claimedBy' \in [Deliveries -> Workers \cup {NoWorker}]
        /\ leaseLeft' \in [Deliveries -> Int]
    BY <1>5 DEF ClaimDelivery
  <2>3. /\ pc' \in [Workers -> Places] /\ job' \in [Workers -> Deliveries \cup {NoDelivery}]
        /\ age' \in [Workers -> Nat]
    BY <1>5 DEF ClaimDelivery
  <2>4. tryNumber' \in [Workers -> Nat] /\ tryBase' \in [Workers -> Nat]
    BY <1>5 DEF ClaimDelivery
  <2>5. BusyHasJob'
    BY <1>5 DEF ClaimDelivery
  <2>6. UNCHANGED <<endpointStatus, events, cycleStart, dueIn, logged, outcome, reached,
                    faults, replays>>
    BY <1>5 DEF ClaimDelivery
  <2>7. QED
    BY <2>1, <2>2, <2>3, <2>4, <2>5, <2>6
<1>6. ASSUME NEW w \in Workers, TargetMissing(w)
      PROVE  TypeOK' /\ BusyHasJob'
  <2>1. job[w] \in Deliveries
    BY <1>6 DEF TargetMissing
  <2>2. TableType' /\ dueIn' \in [Deliveries -> Int]
    BY <1>6, <2>1, SettleType DEF TargetMissing, SettleNothing
  <2>3. WorkerType' /\ BusyHasJob'
    BY <1>6, LeaveType DEF TargetMissing
  <2>4. QED
    BY <1>6, <2>2, <2>3 DEF TargetMissing, TableType, WorkerType
<1>7. ASSUME NEW w \in Workers, NEW result \in Outcomes \ {"NONE"},
             NEW accepted \in BOOLEAN, Send(w, result, accepted)
      PROVE  TypeOK' /\ BusyHasJob'
  BY <1>7 DEF Send, MoveTo
<1>8. ASSUME NEW w \in Workers, RecordAttempt(w) PROVE TypeOK' /\ BusyHasJob'
  <2>1. job[w] \in Deliveries /\ tryNumber[w] \in Nat
    BY <1>8 DEF RecordAttempt
  <2>2. logged' \in [Deliveries -> SUBSET Nat]
    <3>1. logged \in [Deliveries -> SUBSET Nat]
      OBVIOUS
    <3>2. CASE logged' = [logged EXCEPT ![job[w]] = @ \cup {tryNumber[w]}]
      <4>1. logged[job[w]] \cup {tryNumber[w]} \in SUBSET Nat
        BY <2>1, <3>1
      <4>2. QED
        BY <3>1, <3>2, <4>1
    <3>3. QED
      BY <1>8, <3>1, <3>2 DEF RecordAttempt
  <2>3. faults' \in Nat
    BY <1>8 DEF RecordAttempt
  <2>4. pc' \in [Workers -> Places] /\ BusyHasJob'
    BY <1>8, <2>1 DEF RecordAttempt, MoveTo
  <2>5. QED
    BY <1>8, <2>2, <2>3, <2>4 DEF RecordAttempt, MoveTo
<1>9. ASSUME NEW w \in Workers, CompleteDelivered(w)
      PROVE  TypeOK' /\ BusyHasJob'
  <2>1. job[w] \in Deliveries
    BY <1>9 DEF CompleteDelivered
  <2>2. TableType' /\ dueIn' \in [Deliveries -> Int]
    <3>1. CASE Settle(w, "DELIVERED") /\ dueIn' = [dueIn EXCEPT ![job[w]] = -MaxLag]
      <4>1. TableType'
        BY <2>1, <3>1, SettleType
      <4>2. dueIn' \in [Deliveries -> Int]
        <5>1. dueIn \in [Deliveries -> Int] /\ -MaxLag \in Int
          OBVIOUS
        <5> HIDE DEF TypeOK
        <5>2. QED
          BY <3>1, <5>1
      <4>3. QED
        BY <4>1, <4>2
    <3>2. CASE SettleNothing(w)
      <4>1. TableType'
        BY <2>1, <3>2, SettleType
      <4>2. QED
        BY <3>2, <4>1 DEF SettleNothing
    <3>3. QED
      BY <1>9, <3>1, <3>2 DEF CompleteDelivered
  <2>3. WorkerType' /\ BusyHasJob'
    BY <1>9, LeaveType DEF CompleteDelivered, EndDispatch
  <2>4. QED
    BY <1>9, <2>2, <2>3 DEF CompleteDelivered, EndDispatch, TableType, WorkerType
<1>10. ASSUME NEW w \in Workers, GiveUp(w)
      PROVE  TypeOK' /\ BusyHasJob'
  <2>1. job[w] \in Deliveries
    BY <1>10 DEF GiveUp
  <2>2. TableType' /\ dueIn' \in [Deliveries -> Int]
    BY <1>10, <2>1, SettleType DEF GiveUp, SettleNothing
  <2>3. WorkerType' /\ BusyHasJob'
    BY <1>10, LeaveType DEF GiveUp, EndDispatch
  <2>4. QED
    BY <1>10, <2>2, <2>3 DEF GiveUp, EndDispatch, TableType, WorkerType
<1>11. ASSUME NEW w \in Workers, ScheduleRetry(w)
      PROVE  TypeOK' /\ BusyHasJob'
  <2>1. job[w] \in Deliveries
    BY <1>11 DEF ScheduleRetry
  <2>2. TableType' /\ dueIn' \in [Deliveries -> Int]
    BY <1>11, <2>1, SettleType, BackoffType DEF ScheduleRetry, SettleNothing
  <2>3. WorkerType' /\ BusyHasJob'
    BY <1>11, LeaveType DEF ScheduleRetry, EndDispatch
  <2>4. QED
    BY <1>11, <2>2, <2>3 DEF ScheduleRetry, EndDispatch, TableType, WorkerType
<1>12. ASSUME NEW w \in Workers, StoreError(w) PROVE TypeOK' /\ BusyHasJob'
  BY <1>12 DEF StoreError, Leave
<1>13. CASE Restart
  BY <1>13 DEF Restart
<1>14. CASE Tick
  BY <1>14 DEF Tick
<1>15. CASE UNCHANGED vars
  BY <1>15 DEF vars
<1> HIDE DEF TypeOK, BusyHasJob, RowStatus, Outcomes, Places, Busy
<1>16. QED
  BY <1>1, <1>2, <1>3, <1>4, <1>5, <1>6, <1>7, <1>8, <1>9, <1>10, <1>11, <1>12, <1>13,
     <1>14, <1>15 DEF Next, Dispatch

\* Type correctness of the outbox and the dispatcher: every action leaves
\* each column and each local variable in its domain.
THEOREM TypeCorrect == Spec => []TypeOK
<1>1. Init => TypeOK /\ BusyHasJob
  BY DeliveryAssumption DEF Init, TypeOK, BusyHasJob, RowStatus, Outcomes, Places, Busy
<1>2. QED
  BY <1>1, TypeStep, PTL DEF Spec

-----------------------------------------------------------------------------
(* Every step preserves the inductive invariant.  The four ways a dispatch  *)
(* ends share one lemma: the row is settled by the holder of its claim, or  *)
(* not touched, and the worker forgets its job.                             *)

LEMMA SettleStep ==
  ASSUME IInv, TypeOK', NEW w \in Workers, pc[w] \in Busy,
         NEW new \in {"PENDING", "DELIVERED", "DEAD_LETTER"},
         Settle(w, new) \/ SettleNothing(w),
         NEW place \in {"waiting", "draining"}, Leave(w, place),
         UNCHANGED <<events, logged, reached>>,
         new = "DELIVERED" => reached[job[w]],
         new = "PENDING" => tryNumber[w] - tryBase[w] < MaxRetries
  PROVE  IInv'
<1> USE DeliveryAssumption DEF IInv, Busy
<1>1. job[w] \in Deliveries
  BY DEF JobsReal
<1>a. /\ pc'[w] \notin Busy
      /\ \A v \in Workers \ {w} :
           /\ pc'[v] = pc[v] /\ job'[v] = job[v] /\ outcome'[v] = outcome[v]
           /\ tryNumber'[v] = tryNumber[v] /\ tryBase'[v] = tryBase[v] /\ age'[v] = age[v]
  BY DEF TypeOK, Leave
<1>2. CASE Settle(w, new)
  <2>0. \A d \in Deliveries :
          /\ status'[d] = IF d = job[w] THEN new ELSE status[d]
          /\ claimedBy'[d] = IF d = job[w] THEN NoWorker ELSE claimedBy[d]
          /\ attempts'[d] = attempts[d] /\ cycleStart'[d] = cycleStart[d]
    BY <1>1, <1>2 DEF TypeOK, Settle
  <2>1. RowsOfEvents'
    BY <1>1, <1>2 DEF TypeOK, Settle, Leave, RowsOfEvents, HoldsClaim, JobsReal
  <2>2. JobsReal'
    BY <1>a, <2>0 DEF JobsReal
  <2>3. ClaimsCurrent'
    <3> SUFFICES ASSUME NEW v \in Workers, pc'[v] \in Busy, HoldsClaim(v)'
                 PROVE  /\ tryNumber'[v] = attempts'[job'[v]]
                        /\ tryBase'[v] = cycleStart'[job'[v]]
                        /\ age'[v] <= Lease => leaseLeft'[job'[v]] = Lease - age'[v]
      BY DEF ClaimsCurrent
    <3>1. v # w /\ pc[v] \in Busy
      BY DEF TypeOK, Leave
    <3>2. /\ job'[v] = job[v] /\ tryNumber'[v] = tryNumber[v]
          /\ tryBase'[v] = tryBase[v] /\ age'[v] = age[v]
      BY <3>1 DEF TypeOK, Leave
    <3>3. job[v] \in Deliveries
      BY <3>1 DEF JobsReal
    <3>4. job[v] # job[w]
      BY <1>1, <1>2, <3>2 DEF TypeOK, Settle, HoldsClaim
    <3>5. HoldsClaim(v)
      BY <1>2, <3>2, <3>3, <3>4 DEF TypeOK, Settle, HoldsClaim
    <3>6. QED
      BY <1>1, <1>2, <3>1, <3>2, <3>3, <3>4, <3>5 DEF TypeOK, Settle, ClaimsCurrent
  <2>4. ClaimsKept'
    <3>1. \A v \in Workers \ {w} : HoldsClaim(v) => job[v] # job[w]
      BY <1>2 DEF Settle, HoldsClaim
    <3>2. \A v \in Workers \ {w} : pc[v] \in Busy => job[v] \in Deliveries
      BY DEF JobsReal
    <3>3. QED
      BY <1>a, <2>0, <3>1, <3>2 DEF ClaimsKept, HoldsClaim
  <2>5. OneLeasePerEndpoint'
    BY <1>1, <1>2 DEF TypeOK, Settle, Leave, OneLeasePerEndpoint, InFavour, LeaseRuns, EndpointOf
  <2>6. PendingHasTriesLeft'
    BY <1>1, <1>2 DEF TypeOK, Settle, Leave, PendingHasTriesLeft, HoldsClaim, ClaimsCurrent, RowsOfEvents
  <2>7. NumbersUsed'
    BY <1>1, <1>2 DEF TypeOK, Settle, Leave, NumbersUsed
  <2>8. NumbersDistinct'
    BY <1>a DEF NumbersDistinct
  <2>9. NumbersUnlogged'
    BY <1>1, <1>2 DEF TypeOK, Settle, Leave, NumbersUnlogged
  <2>10. SuccessReached'
    <3>1. \A v \in Workers : pc'[v] \in {"answered", "recorded"} => v # w
      BY <1>a
    <3>2. QED
      BY <1>1, <1>a, <2>0, <3>1 DEF SuccessReached
  <2>11. QED
    BY <2>1, <2>2, <2>3, <2>4, <2>5, <2>6, <2>7, <2>8, <2>9, <2>10
<1>3. CASE SettleNothing(w)
  <2>1. RowsOfEvents'
    BY <1>3 DEF TypeOK, SettleNothing, tableVars, Leave, RowsOfEvents
  <2>2. JobsReal'
    BY <1>3 DEF TypeOK, SettleNothing, tableVars, Leave, JobsReal
  <2>3. ClaimsCurrent'
    <3>1. UNCHANGED tableVars
      BY <1>3 DEF SettleNothing
    <3>2. QED
      BY <1>a, <3>1 DEF tableVars, ClaimsCurrent, HoldsClaim
  <2>4. ClaimsKept'
    BY <1>3 DEF TypeOK, SettleNothing, tableVars, Leave, ClaimsKept, HoldsClaim
  <2>5. OneLeasePerEndpoint'
    BY <1>3 DEF TypeOK, SettleNothing, tableVars, Leave, OneLeasePerEndpoint, InFavour, LeaseRuns, EndpointOf
  <2>6. PendingHasTriesLeft'
    BY <1>3 DEF TypeOK, SettleNothing, tableVars, Leave, PendingHasTriesLeft
  <2>7. NumbersUsed'
    BY <1>3 DEF TypeOK, SettleNothing, tableVars, Leave, NumbersUsed
  <2>8. NumbersDistinct'
    BY <1>3 DEF TypeOK, SettleNothing, tableVars, Leave, NumbersDistinct
  <2>9. NumbersUnlogged'
    BY <1>3 DEF TypeOK, SettleNothing, tableVars, Leave, NumbersUnlogged
  <2>10. SuccessReached'
    BY <1>3 DEF TypeOK, SettleNothing, tableVars, Leave, SuccessReached
  <2>11. QED
    BY <2>1, <2>2, <2>3, <2>4, <2>5, <2>6, <2>7, <2>8, <2>9, <2>10
<1>4. QED
  BY <1>2, <1>3

LEMMA StatusStep ==
  ASSUME IInv, TypeOK', NEW ep \in Endpoints, NEW new \in {"ACTIVE", "DISABLED"},
         SetEndpointStatus(ep, new)
  PROVE  IInv'
<1> USE DeliveryAssumption DEF IInv, TypeOK, Busy, SetEndpointStatus, tableVars, workerVars
<1>1. RowsOfEvents'
  BY DEF RowsOfEvents
<1>2. JobsReal'
  BY DEF JobsReal
<1>3. ClaimsCurrent'
  BY DEF ClaimsCurrent, HoldsClaim
<1>4. ClaimsKept'
  BY DEF ClaimsKept, HoldsClaim
<1>5. OneLeasePerEndpoint'
  BY DEF OneLeasePerEndpoint, InFavour, LeaseRuns, EndpointOf
<1>6. PendingHasTriesLeft'
  BY DEF PendingHasTriesLeft
<1>7. NumbersUsed'
  BY DEF NumbersUsed
<1>8. NumbersDistinct'
  BY DEF NumbersDistinct
<1>9. NumbersUnlogged'
  BY DEF NumbersUnlogged
<1>10. SuccessReached'
  BY DEF SuccessReached
<1>11. QED
  BY <1>1, <1>2, <1>3, <1>4, <1>5, <1>6, <1>7, <1>8, <1>9, <1>10

LEMMA CommitStep ==
  ASSUME IInv, TypeOK', NEW e \in Events, CommitEvent(e)
  PROVE  IInv'
<1> USE DeliveryAssumption DEF IInv, TypeOK, Busy, CommitEvent, workerVars
<1>1. RowsOfEvents'
  BY DEF RowsOfEvents
<1>2. JobsReal'
  BY DEF JobsReal
<1>3. ClaimsCurrent'
  BY DEF ClaimsCurrent, HoldsClaim, JobsReal, RowsOfEvents
<1>4. ClaimsKept'
  BY DEF ClaimsKept, HoldsClaim, JobsReal, RowsOfEvents
<1>5. OneLeasePerEndpoint'
  BY DEF OneLeasePerEndpoint, InFavour, LeaseRuns, EndpointOf, RowsOfEvents
<1>6. PendingHasTriesLeft'
  BY DEF PendingHasTriesLeft, RowsOfEvents
<1>7. NumbersUsed'
  BY DEF NumbersUsed
<1>8. NumbersDistinct'
  BY DEF NumbersDistinct
<1>9. NumbersUnlogged'
  BY DEF NumbersUnlogged
<1>10. SuccessReached'
  BY DEF SuccessReached, RowsOfEvents
<1>11. QED
  BY <1>1, <1>2, <1>3, <1>4, <1>5, <1>6, <1>7, <1>8, <1>9, <1>10

LEMMA ReplayStep ==
  ASSUME IInv, TypeOK', NEW d \in Deliveries, ReplayDelivery(d)
  PROVE  IInv'
<1> USE DeliveryAssumption DEF IInv, TypeOK, Busy, ReplayDelivery, workerVars
<1>1. RowsOfEvents'
  BY DEF RowsOfEvents
<1>2. JobsReal'
  BY DEF JobsReal
<1>3. ClaimsCurrent'
  BY DEF ClaimsCurrent, HoldsClaim, JobsReal
<1>4. ClaimsKept'
  BY DEF ClaimsKept, HoldsClaim, JobsReal
<1>5. OneLeasePerEndpoint'
  BY DEF OneLeasePerEndpoint, InFavour, LeaseRuns, EndpointOf
<1>6. PendingHasTriesLeft'
  BY DEF PendingHasTriesLeft, RowsOfEvents
<1>7. NumbersUsed'
  BY DEF NumbersUsed
<1>8. NumbersDistinct'
  BY DEF NumbersDistinct
<1>9. NumbersUnlogged'
  BY DEF NumbersUnlogged
<1>10. SuccessReached'
  BY DEF SuccessReached
<1>11. QED
  BY <1>1, <1>2, <1>3, <1>4, <1>5, <1>6, <1>7, <1>8, <1>9, <1>10

LEMMA MoveStep ==
  ASSUME IInv, TypeOK', NEW w \in Workers, NEW place \in {"waiting", "draining", "sending"},
         MoveTo(w, place), place = "sending" => pc[w] = "claimed",
         UNCHANGED <<events, tableVars, logged, outcome, reached>>
  PROVE  IInv'
<1> USE DeliveryAssumption DEF IInv, TypeOK, Busy, MoveTo, tableVars
<1>1. RowsOfEvents'
  BY DEF RowsOfEvents
<1>2. JobsReal'
  BY DEF JobsReal
<1>3. ClaimsCurrent'
  BY DEF ClaimsCurrent, HoldsClaim
<1>4. ClaimsKept'
  BY DEF ClaimsKept, HoldsClaim
<1>5. OneLeasePerEndpoint'
  BY DEF OneLeasePerEndpoint, InFavour, LeaseRuns, EndpointOf
<1>6. PendingHasTriesLeft'
  BY DEF PendingHasTriesLeft
<1>7. NumbersUsed'
  BY DEF NumbersUsed
<1>8. NumbersDistinct'
  BY DEF NumbersDistinct
<1>9. NumbersUnlogged'
  BY DEF NumbersUnlogged
<1>10. SuccessReached'
  BY DEF SuccessReached
<1>11. QED
  BY <1>1, <1>2, <1>3, <1>4, <1>5, <1>6, <1>7, <1>8, <1>9, <1>10

LEMMA ClaimStep ==
  ASSUME IInv, TypeOK', NEW w \in Workers, NEW d \in Deliveries, ClaimDelivery(w, d)
  PROVE  IInv'
<1> USE DeliveryAssumption DEF IInv, TypeOK, Busy, ClaimDelivery
<1>a. /\ pc'[w] = "claimed" /\ job'[w] = d /\ age'[w] = 0 /\ outcome'[w] = outcome[w]
      /\ tryNumber'[w] = attempts[d] + 1 /\ tryBase'[w] = cycleStart[d]
  OBVIOUS
<1>b. \A v \in Workers \ {w} :
        /\ pc'[v] = pc[v] /\ job'[v] = job[v] /\ age'[v] = age[v] /\ outcome'[v] = outcome[v]
        /\ tryNumber'[v] = tryNumber[v] /\ tryBase'[v] = tryBase[v]
  OBVIOUS
<1>c. /\ status'[d] = "IN_FLIGHT" /\ claimedBy'[d] = w /\ leaseLeft'[d] = Lease
      /\ attempts'[d] = attempts[d] + 1 /\ attempts[d] \in Nat
  OBVIOUS
<1>d. \A c \in Deliveries \ {d} :
        /\ status'[c] = status[c] /\ claimedBy'[c] = claimedBy[c]
        /\ leaseLeft'[c] = leaseLeft[c] /\ attempts'[c] = attempts[c]
  OBVIOUS
<1>e. UNCHANGED <<events, cycleStart, logged, reached>>
  OBVIOUS
<1>f. /\ \A c \in Deliveries : attempts[c] \in Nat /\ cycleStart[c] \in Nat
      /\ \A c \in Deliveries : logged[c] \in SUBSET Nat
      /\ \A v \in Workers : tryNumber[v] \in Nat
  OBVIOUS
<1>g. status[d] \in {"PENDING", "IN_FLIGHT"}
  BY DEF Claimable, Due
<1> HIDE DEF TypeOK, ClaimDelivery
<1>1. RowsOfEvents'
  <2>1. /\ d[1] \in events /\ cycleStart[d] <= attempts[d]
        /\ cycleStart[d] \in Nat /\ attempts[d] \in Nat
    BY <1>f, <1>g DEF RowsOfEvents
  <2>2. cycleStart'[d] < attempts'[d]
    BY <1>c, <1>e, <2>1
  <2>3. ASSUME NEW c \in Deliveries \ {d}
        PROVE  /\ status'[c] = status[c] /\ attempts'[c] = attempts[c]
               /\ cycleStart'[c] = cycleStart[c] /\ events' = events
    BY <1>d, <1>e
  <2>4. ASSUME NEW c \in Deliveries
        PROVE  /\ status'[c] # "NONE" => c[1] \in events'
               /\ status'[c] = "NONE" => attempts'[c] = 0 /\ cycleStart'[c] = 0
               /\ cycleStart'[c] <= attempts'[c]
               /\ status'[c] = "IN_FLIGHT" => cycleStart'[c] < attempts'[c]
    <3>1. CASE c = d
      BY <1>c, <1>e, <2>1, <2>2, <3>1
    <3>2. CASE c # d
      BY <2>3, <3>2 DEF RowsOfEvents
    <3>3. QED
      BY <3>1, <3>2
  <2>5. QED
    BY <2>4 DEF RowsOfEvents
<1>2. JobsReal'
  <2> SUFFICES ASSUME NEW v \in Workers, pc'[v] \in Busy
               PROVE  /\ job'[v] \in Deliveries
                      /\ status'[job'[v]] # "NONE"
                      /\ 1 <= tryNumber'[v] /\ tryNumber'[v] <= attempts'[job'[v]]
    BY DEF JobsReal
  <2>1. CASE v = w
    BY <1>a, <1>c, <2>1
  <2>2. CASE v # w
    <3>1. /\ job[v] \in Deliveries /\ status[job[v]] # "NONE"
          /\ 1 <= tryNumber[v] /\ tryNumber[v] <= attempts[job[v]]
      BY <1>b, <2>2 DEF JobsReal
    <3>2. attempts[job[v]] <= attempts'[job[v]] /\ status'[job[v]] # "NONE"
      BY <1>c, <1>d, <1>f, <3>1
    <3>3. attempts'[job[v]] \in Nat
      BY <1>c, <1>d, <1>f, <3>1
    <3>4. QED
      BY <1>b, <1>f, <2>2, <3>1, <3>2, <3>3
  <2>3. QED
    BY <2>1, <2>2
<1>3. ClaimsCurrent'
  <2> SUFFICES ASSUME NEW v \in Workers, pc'[v] \in Busy, HoldsClaim(v)'
               PROVE  /\ tryNumber'[v] = attempts'[job'[v]]
                      /\ tryBase'[v] = cycleStart'[job'[v]]
                      /\ age'[v] <= Lease => leaseLeft'[job'[v]] = Lease - age'[v]
    BY DEF ClaimsCurrent
  <2>1. CASE v = w
    BY <1>a, <1>c, <1>e, <2>1
  <2>2. CASE v # w
    <3>1. pc[v] \in Busy /\ job[v] \in Deliveries
      BY <1>b, <2>2 DEF JobsReal
    <3>2. job[v] # d
      BY <1>b, <1>c, <2>2 DEF HoldsClaim
    <3>3. HoldsClaim(v)
      BY <1>b, <1>d, <2>2, <3>1, <3>2 DEF HoldsClaim
    <3>4. QED
      BY <1>b, <1>d, <1>e, <2>2, <3>1, <3>2, <3>3 DEF ClaimsCurrent
  <2>3. QED
    BY <2>1, <2>2
<1>4. ClaimsKept'
  <2> SUFFICES ASSUME NEW v \in Workers, pc'[v] \in Busy, age'[v] < Lease
               PROVE  HoldsClaim(v)'
    BY DEF ClaimsKept
  <2>1. CASE v = w
    BY <1>a, <1>c, <2>1 DEF HoldsClaim
  <2>2. CASE v # w
    <3>1. pc[v] \in Busy /\ job[v] \in Deliveries /\ age[v] < Lease /\ age[v] \in Nat
      BY <1>b, <2>2 DEF JobsReal, TypeOK
    <3>2. HoldsClaim(v) /\ leaseLeft[job[v]] = Lease - age[v]
      BY <3>1 DEF ClaimsKept, ClaimsCurrent
    <3>3. status[job[v]] = "IN_FLIGHT" /\ leaseLeft[job[v]] > 0
      BY <3>1, <3>2 DEF HoldsClaim
    <3>4. job[v] # d
      BY <3>3 DEF ClaimDelivery, Claimable, Due, InFavour, TypeOK
    <3>5. QED
      BY <1>b, <1>d, <2>2, <3>1, <3>2, <3>4 DEF HoldsClaim
  <2>3. QED
    BY <2>1, <2>2
<1>5. OneLeasePerEndpoint'
  <2>1. \A c \in Deliveries \ {d} : LeaseRuns(c, InFavour)' => LeaseRuns(c, InFavour)
    BY <1>d DEF InFavour, LeaseRuns
  <2>2. \A c \in Deliveries \ {d} : EndpointOf(c) = EndpointOf(d) => ~LeaseRuns(c, InFavour)
    BY DEF ClaimDelivery, Claimable
  <2>3. QED
    BY <2>1, <2>2 DEF OneLeasePerEndpoint, EndpointOf
<1>6. PendingHasTriesLeft'
  BY <1>c, <1>d, <1>e DEF PendingHasTriesLeft
<1>7. NumbersUsed'
  <2>1. \A c \in Deliveries : attempts[c] <= attempts'[c] /\ attempts[c] \in Nat /\ attempts'[c] \in Nat
    BY <1>c, <1>d, <1>f
  <2>2. QED
    BY <1>e, <1>f, <2>1 DEF NumbersUsed
<1>8. NumbersDistinct'
  <2>1. \A v \in Workers : pc[v] \in Busy /\ job[v] = d => tryNumber[v] # attempts[d] + 1
    BY <1>f DEF JobsReal
  <2>2. QED
    BY <1>a, <1>b, <2>1 DEF NumbersDistinct
<1>9. NumbersUnlogged'
  <2>1. attempts[d] + 1 \notin logged[d]
    BY <1>c DEF NumbersUsed
  <2>2. QED
    BY <1>a, <1>b, <1>e, <2>1 DEF NumbersUnlogged
<1>10. SuccessReached'
  <2>1. \A c \in Deliveries : status'[c] = "DELIVERED" => status[c] = "DELIVERED"
    BY <1>c, <1>d
  <2>2. \A v \in Workers : pc'[v] \in {"answered", "recorded"} =>
          pc'[v] = pc[v] /\ job'[v] = job[v] /\ outcome'[v] = outcome[v]
    BY <1>a, <1>b
  <2>3. QED
    BY <1>e, <2>1, <2>2 DEF SuccessReached
<1>11. QED
  BY <1>1, <1>2, <1>3, <1>4, <1>5, <1>6, <1>7, <1>8, <1>9, <1>10

LEMMA SendStep ==
  ASSUME IInv, TypeOK', NEW w \in Workers, NEW result \in Outcomes \ {"NONE"},
         NEW accepted \in BOOLEAN, Send(w, result, accepted)
  PROVE  IInv'
<1> USE DeliveryAssumption DEF IInv, TypeOK, Busy, Send, MoveTo, tableVars
<1>1. RowsOfEvents'
  BY DEF RowsOfEvents
<1>2. JobsReal'
  BY DEF JobsReal
<1>3. ClaimsCurrent'
  BY DEF ClaimsCurrent, HoldsClaim
<1>4. ClaimsKept'
  <2>1. UNCHANGED <<status, claimedBy, job, age>>
    OBVIOUS
  <2>2. \A v \in Workers : pc'[v] \in Busy => pc[v] \in Busy
    OBVIOUS
  <2>3. ClaimsKept
    OBVIOUS
  <2> HIDE DEF IInv, TypeOK, Busy, Send, MoveTo, tableVars
  <2>4. QED
    BY <2>1, <2>2, <2>3 DEF ClaimsKept, HoldsClaim
<1>5. OneLeasePerEndpoint'
  BY DEF OneLeasePerEndpoint, InFavour, LeaseRuns, EndpointOf
<1>6. PendingHasTriesLeft'
  BY DEF PendingHasTriesLeft
<1>7. NumbersUsed'
  BY DEF NumbersUsed
<1>8. NumbersDistinct'
  BY DEF NumbersDistinct
<1>9. NumbersUnlogged'
  BY DEF NumbersUnlogged
<1>10. SuccessReached'
  BY DEF SuccessReached, JobsReal
<1>11. QED
  BY <1>1, <1>2, <1>3, <1>4, <1>5, <1>6, <1>7, <1>8, <1>9, <1>10

LEMMA RecordStep ==
  ASSUME IInv, TypeOK', NEW w \in Workers, RecordAttempt(w)
  PROVE  IInv'
<1> USE DeliveryAssumption DEF IInv, TypeOK, Busy, RecordAttempt, MoveTo, tableVars
<1>1. RowsOfEvents'
  BY DEF RowsOfEvents
<1>2. JobsReal'
  BY DEF JobsReal
<1>3. ClaimsCurrent'
  BY DEF ClaimsCurrent, HoldsClaim
<1>4. ClaimsKept'
  BY DEF ClaimsKept, HoldsClaim
<1>5. OneLeasePerEndpoint'
  BY DEF OneLeasePerEndpoint, InFavour, LeaseRuns, EndpointOf
<1>6. PendingHasTriesLeft'
  BY DEF PendingHasTriesLeft
<1>7. NumbersUsed'
  <2>1. CASE UNCHANGED logged
    BY <2>1 DEF NumbersUsed
  <2>2. CASE logged' = [logged EXCEPT ![job[w]] = @ \cup {tryNumber[w]}]
    BY <2>2 DEF NumbersUsed, JobsReal
  <2>3. QED
    BY <2>1, <2>2
<1>8. NumbersDistinct'
  BY DEF NumbersDistinct
<1>9. NumbersUnlogged'
  <2>1. CASE UNCHANGED logged
    BY <2>1 DEF NumbersUnlogged
  <2>2. CASE logged' = [logged EXCEPT ![job[w]] = @ \cup {tryNumber[w]}]
    BY <2>2 DEF NumbersUnlogged, NumbersDistinct, JobsReal
  <2>3. QED
    BY <2>1, <2>2
<1>10. SuccessReached'
  BY DEF SuccessReached
<1>11. QED
  BY <1>1, <1>2, <1>3, <1>4, <1>5, <1>6, <1>7, <1>8, <1>9, <1>10

LEMMA ErrorStep ==
  ASSUME IInv, TypeOK', NEW w \in Workers, StoreError(w)
  PROVE  IInv'
<1> USE DeliveryAssumption DEF IInv, TypeOK, Busy, StoreError, Leave, tableVars
<1>1. RowsOfEvents'
  BY DEF RowsOfEvents
<1>2. JobsReal'
  BY DEF JobsReal
<1>3. ClaimsCurrent'
  BY DEF ClaimsCurrent, HoldsClaim
<1>4. ClaimsKept'
  BY DEF ClaimsKept, HoldsClaim
<1>5. OneLeasePerEndpoint'
  BY DEF OneLeasePerEndpoint, InFavour, LeaseRuns, EndpointOf
<1>6. PendingHasTriesLeft'
  BY DEF PendingHasTriesLeft
<1>7. NumbersUsed'
  BY DEF NumbersUsed
<1>8. NumbersDistinct'
  BY DEF NumbersDistinct
<1>9. NumbersUnlogged'
  BY DEF NumbersUnlogged
<1>10. SuccessReached'
  BY DEF SuccessReached
<1>11. QED
  BY <1>1, <1>2, <1>3, <1>4, <1>5, <1>6, <1>7, <1>8, <1>9, <1>10

LEMMA RestartStep ==
  ASSUME IInv, TypeOK', Restart
  PROVE  IInv'
<1> USE DeliveryAssumption DEF IInv, TypeOK, Busy, Restart, tableVars
<1>1. RowsOfEvents'
  BY DEF RowsOfEvents
<1>2. JobsReal'
  BY DEF JobsReal
<1>3. ClaimsCurrent'
  BY DEF ClaimsCurrent, HoldsClaim
<1>4. ClaimsKept'
  BY DEF ClaimsKept, HoldsClaim
<1>5. OneLeasePerEndpoint'
  BY DEF OneLeasePerEndpoint, InFavour, LeaseRuns, EndpointOf
<1>6. PendingHasTriesLeft'
  BY DEF PendingHasTriesLeft
<1>7. NumbersUsed'
  BY DEF NumbersUsed
<1>8. NumbersDistinct'
  BY DEF NumbersDistinct
<1>9. NumbersUnlogged'
  BY DEF NumbersUnlogged
<1>10. SuccessReached'
  BY DEF SuccessReached
<1>11. QED
  BY <1>1, <1>2, <1>3, <1>4, <1>5, <1>6, <1>7, <1>8, <1>9, <1>10

LEMMA TickStep ==
  ASSUME IInv, TypeOK', Tick
  PROVE  IInv'
<1> USE DeliveryAssumption DEF IInv, TypeOK, Busy, Tick
<1>1. RowsOfEvents'
  BY DEF RowsOfEvents
<1>2. JobsReal'
  BY DEF JobsReal
<1>3. ClaimsCurrent'
  <2> SUFFICES ASSUME NEW v \in Workers, pc[v] \in Busy, HoldsClaim(v)
               PROVE  /\ tryNumber[v] = attempts[job[v]]
                      /\ tryBase[v] = cycleStart[job[v]]
                      /\ age'[v] <= Lease => leaseLeft'[job[v]] = Lease - age'[v]
    BY DEF ClaimsCurrent, HoldsClaim
  <2>1. job[v] \in Deliveries
    BY DEF JobsReal
  <2>2. /\ tryNumber[v] = attempts[job[v]] /\ tryBase[v] = cycleStart[job[v]]
        /\ age[v] <= Lease => leaseLeft[job[v]] = Lease - age[v]
    BY DEF ClaimsCurrent
  <2>3. age'[v] = age[v] + 1
    OBVIOUS
  <2>4. leaseLeft'[job[v]] = IF leaseLeft[job[v]] < 0 THEN -1 ELSE leaseLeft[job[v]] - 1
    BY <2>1
  <2>5. age[v] \in Nat /\ leaseLeft[job[v]] \in Int
    BY <2>1
  <2>6. age'[v] <= Lease => leaseLeft'[job[v]] = Lease - age'[v]
    <3> HIDE DEF TypeOK, Tick
    <3>1. QED
      BY <2>2, <2>3, <2>4, <2>5
  <2>7. QED
    BY <2>2, <2>6
<1>4. ClaimsKept'
  BY DEF ClaimsKept, HoldsClaim, JobsReal
<1>5. OneLeasePerEndpoint'
  <2>1. \A d \in Deliveries : leaseLeft'[d] > 0 => leaseLeft[d] > 0
    OBVIOUS
  <2>2. \A d \in Deliveries : LeaseRuns(d, InFavour)' => LeaseRuns(d, InFavour)
    BY <2>1 DEF InFavour, LeaseRuns
  <2>3. QED
    BY <2>2 DEF OneLeasePerEndpoint, EndpointOf
<1>6. PendingHasTriesLeft'
  BY DEF PendingHasTriesLeft
<1>7. NumbersUsed'
  BY DEF NumbersUsed
<1>8. NumbersDistinct'
  BY DEF NumbersDistinct
<1>9. NumbersUnlogged'
  BY DEF NumbersUnlogged
<1>10. SuccessReached'
  BY DEF SuccessReached
<1>11. QED
  BY <1>1, <1>2, <1>3, <1>4, <1>5, <1>6, <1>7, <1>8, <1>9, <1>10

LEMMA IdleStep ==
  ASSUME IInv, TypeOK', UNCHANGED vars
  PROVE  IInv'
<1> USE DeliveryAssumption DEF IInv, TypeOK, Busy, vars, tableVars, workerVars
<1>1. RowsOfEvents'
  BY DEF RowsOfEvents
<1>2. JobsReal'
  BY DEF JobsReal
<1>3. ClaimsCurrent'
  BY DEF ClaimsCurrent, HoldsClaim
<1>4. ClaimsKept'
  BY DEF ClaimsKept, HoldsClaim
<1>5. OneLeasePerEndpoint'
  BY DEF OneLeasePerEndpoint, InFavour, LeaseRuns, EndpointOf
<1>6. PendingHasTriesLeft'
  BY DEF PendingHasTriesLeft
<1>7. NumbersUsed'
  BY DEF NumbersUsed
<1>8. NumbersDistinct'
  BY DEF NumbersDistinct
<1>9. NumbersUnlogged'
  BY DEF NumbersUnlogged
<1>10. SuccessReached'
  BY DEF SuccessReached
<1>11. QED
  BY <1>1, <1>2, <1>3, <1>4, <1>5, <1>6, <1>7, <1>8, <1>9, <1>10

LEMMA InvStep == IInv /\ [Next]_vars => IInv'
<1> SUFFICES ASSUME IInv, [Next]_vars PROVE IInv'
  OBVIOUS
<1>0. TypeOK'
  <2>1. BusyHasJob
    BY DEF IInv, JobsReal, BusyHasJob
  <2>2. QED
    BY <2>1, TypeStep DEF IInv
<1>1. ASSUME NEW ep \in Endpoints, NEW new \in {"ACTIVE", "DISABLED"},
             SetEndpointStatus(ep, new)
      PROVE  IInv'
  BY <1>0, <1>1, StatusStep
<1>2. ASSUME NEW e \in Events, CommitEvent(e) PROVE IInv'
  BY <1>0, <1>2, CommitStep
<1>3. ASSUME NEW d \in Deliveries, ReplayDelivery(d) PROVE IInv'
  BY <1>0, <1>3, ReplayStep
<1>4. ASSUME NEW w \in Workers, StartDrain(w) \/ ClaimNothing(w) \/ TargetFound(w)
      PROVE  IInv'
  <2>1. UNCHANGED <<events, tableVars, logged, outcome, reached>>
    BY <1>4 DEF StartDrain, ClaimNothing, TargetFound
  <2>2. PICK place \in {"waiting", "draining", "sending"} :
          MoveTo(w, place) /\ (place = "sending" => pc[w] = "claimed")
    BY <1>4 DEF StartDrain, ClaimNothing, TargetFound
  <2>3. QED
    BY <1>0, <2>1, <2>2, MoveStep
<1>5. ASSUME NEW w \in Workers, NEW d \in Deliveries, ClaimDelivery(w, d) PROVE IInv'
  BY <1>0, <1>5, ClaimStep
<1>6. ASSUME NEW w \in Workers, TargetMissing(w) PROVE IInv'
  BY <1>0, <1>6, SettleStep DEF TargetMissing, Busy
<1>7. ASSUME NEW w \in Workers, NEW result \in Outcomes \ {"NONE"},
             NEW accepted \in BOOLEAN, Send(w, result, accepted)
      PROVE  IInv'
  BY <1>0, <1>7, SendStep
<1>8. ASSUME NEW w \in Workers, RecordAttempt(w) PROVE IInv'
  BY <1>0, <1>8, RecordStep
<1>9. ASSUME NEW w \in Workers, CompleteDelivered(w) PROVE IInv'
  <2>1. reached[job[w]]
    BY <1>9 DEF CompleteDelivered, IInv, SuccessReached
  <2>2. QED
    BY <1>0, <1>9, <2>1, SettleStep DEF CompleteDelivered, EndDispatch, Busy
<1>10. ASSUME NEW w \in Workers, GiveUp(w) PROVE IInv'
  BY <1>0, <1>10, SettleStep DEF GiveUp, EndDispatch, Busy
<1>11. ASSUME NEW w \in Workers, ScheduleRetry(w) PROVE IInv'
  <2>1. tryNumber[w] - tryBase[w] < MaxRetries
    BY <1>11, DeliveryAssumption
    DEF ScheduleRetry, Exhausted, EffectiveAttempts, IInv, TypeOK
  <2>2. QED
    BY <1>0, <1>11, <2>1, SettleStep DEF ScheduleRetry, EndDispatch, Busy
<1>12. ASSUME NEW w \in Workers, StoreError(w) PROVE IInv'
  BY <1>0, <1>12, ErrorStep
<1>13. CASE Restart
  BY <1>0, <1>13, RestartStep
<1>14. CASE Tick
  BY <1>0, <1>14, TickStep
<1>15. CASE UNCHANGED vars
  BY <1>0, <1>15, IdleStep
<1>16. QED
  BY <1>1, <1>2, <1>3, <1>4, <1>5, <1>6, <1>7, <1>8, <1>9, <1>10, <1>11, <1>12, <1>13,
     <1>14, <1>15 DEF Next, Dispatch

LEMMA InitInv == Init => IInv
<1> SUFFICES ASSUME Init PROVE IInv
  OBVIOUS
<1> USE DeliveryAssumption DEF Init, Busy
<1>1. TypeOK
  BY DEF TypeOK, RowStatus, Outcomes, Places
<1>2. RowsOfEvents /\ NumbersUsed /\ OneLeasePerEndpoint /\ PendingHasTriesLeft
  BY DEF RowsOfEvents, NumbersUsed, OneLeasePerEndpoint, InFavour, LeaseRuns, PendingHasTriesLeft
<1>3. JobsReal /\ ClaimsCurrent /\ ClaimsKept /\ NumbersDistinct /\ NumbersUnlogged
  BY DEF JobsReal, ClaimsCurrent, ClaimsKept, NumbersDistinct, NumbersUnlogged
<1>4. SuccessReached
  BY DEF SuccessReached
<1>5. QED
  BY <1>1, <1>2, <1>3, <1>4 DEF IInv

THEOREM Invariant == Spec => []IInv
BY InitInv, InvStep, PTL DEF Spec

-----------------------------------------------------------------------------
(* What follows from the invariant                                         *)

\* Until the second its lease ends in, a worker's claim, attempt number and
\* retry cycle are those of the row: nothing took the delivery over, however
\* the texts of times within one second sort.
THEOREM LeaseSafety == Spec => []LeaseProtects
<1>1. IInv => LeaseProtects
  BY DEF IInv, ClaimsKept, ClaimsCurrent, LeaseProtects
<1>2. QED
  BY <1>1, Invariant, PTL

\* No endpoint ever has two deliveries under a running lease, for any number
\* of workers.
THEOREM FairLeasing == Spec => []OneLeasePerEndpoint
<1>1. IInv => OneLeasePerEndpoint
  BY DEF IInv
<1>2. QED
  BY <1>1, Invariant, PTL

\* Two goroutines that are inside their leases never work for one endpoint,
\* for any number of goroutines: the lease gives them the same delivery, and
\* the claim token the same goroutine.
THEOREM OneSender == Spec => []OneSenderPerEndpoint
<1>1. ASSUME IInv PROVE OneSenderPerEndpoint
  <2> SUFFICES ASSUME NEW v \in Workers, NEW w \in Workers,
                      pc[v] \in Busy, age[v] < Lease, pc[w] \in Busy, age[w] < Lease,
                      EndpointOf(job[v]) = EndpointOf(job[w])
               PROVE  v = w
    BY DEF OneSenderPerEndpoint
  <2>1. job[v] \in Deliveries /\ job[w] \in Deliveries
    BY <1>1 DEF IInv, JobsReal
  <2>2. HoldsClaim(v) /\ HoldsClaim(w)
    BY <1>1 DEF IInv, ClaimsKept
  <2>3. age[v] \in Nat /\ age[w] \in Nat /\ Lease \in Nat
    BY <1>1, DeliveryAssumption DEF IInv, TypeOK
  <2>4. leaseLeft[job[v]] = Lease - age[v] /\ leaseLeft[job[w]] = Lease - age[w]
    BY <1>1, <2>2, <2>3 DEF IInv, ClaimsCurrent
  <2>5. LeaseRuns(job[v], InFavour) /\ LeaseRuns(job[w], InFavour)
    BY <2>2, <2>3, <2>4 DEF LeaseRuns, InFavour, HoldsClaim
  <2>6. job[v] = job[w]
    BY <1>1, <2>1, <2>5 DEF IInv, OneLeasePerEndpoint
  <2>7. QED
    BY <2>2, <2>6 DEF HoldsClaim
<1>2. QED
  BY <1>1, Invariant, PTL

\* Both: rows and goroutines serve an endpoint one delivery at a time.
THEOREM ServedOneAtATime == Spec => []OneAtATime
<1>1. OneLeasePerEndpoint /\ OneSenderPerEndpoint => OneAtATime
  BY DEF OneAtATime
<1>2. QED
  BY FairLeasing, OneSender, <1>1, PTL

\* A delivery that waits has a try left, after any crashes and replays.
THEOREM TriesLeft == Spec => []PendingHasTriesLeft
<1>1. IInv => PendingHasTriesLeft
  BY DEF IInv
<1>2. QED
  BY <1>1, Invariant, PTL

\* RecordAttempt never meets its own attempt number in the history, even in
\* a worker that has lost its claim.
THEOREM FreshAttempts == Spec => []AttemptNumberFresh
<1>1. IInv => AttemptNumberFresh
  BY DEF IInv, NumbersUnlogged, AttemptNumberFresh
<1>2. QED
  BY <1>1, Invariant, PTL

LEMMA DeadLetterStep ==
  ASSUME IInv, [Next]_vars, NEW d \in Deliveries,
         status[d] # "DEAD_LETTER", status'[d] = "DEAD_LETTER"
  PROVE  \E w \in Workers :
           /\ claimedBy[d] = w /\ job[w] = d
           /\ \/ pc[w] = "claimed"
              \/ outcome[w] = "TERMINAL_FAILURE"
              \/ attempts[d] - cycleStart[d] >= MaxRetries
<1>1. TypeOK
  BY DEF IInv
<1>2. \E w \in Workers :
        /\ pc[w] \in Busy /\ Settle(w, "DEAD_LETTER")
        /\ pc[w] = "claimed" \/ outcome[w] = "TERMINAL_FAILURE" \/ Exhausted(w)
  <2>1. \A w \in Workers : TargetMissing(w) \/ GiveUp(w) =>
          pc[w] \in Busy /\ (Settle(w, "DEAD_LETTER") \/ UNCHANGED status)
    BY DEF TargetMissing, GiveUp, SettleNothing, tableVars, Busy
  <2>2. CASE \E w \in Workers : TargetMissing(w) \/ GiveUp(w)
    BY <2>1, <2>2 DEF TargetMissing, GiveUp
  <2>3. CASE \E w \in Workers : CompleteDelivered(w) \/ ScheduleRetry(w)
    BY <1>1, <2>3
    DEF CompleteDelivered, ScheduleRetry, Settle, SettleNothing, tableVars, TypeOK
  <2>4. CASE \E w \in Workers : ClaimDelivery(w, d) \/ \E x \in Deliveries : ClaimDelivery(w, x)
    BY <1>1, <2>4 DEF ClaimDelivery, TypeOK
  <2>5. CASE \/ \E e \in Events : CommitEvent(e)
             \/ \E x \in Deliveries : ReplayDelivery(x)
    BY <1>1, <2>5 DEF CommitEvent, ReplayDelivery, TypeOK
  <2>6. CASE UNCHANGED status
    BY <2>6
  <2>7. QED
    BY <2>2, <2>3, <2>4, <2>5, <2>6
    DEF Next, Dispatch, SetEndpointStatus, StartDrain, ClaimNothing, TargetFound, Send,
        RecordAttempt, StoreError, Restart, Tick, vars, tableVars
<1>3. PICK w \in Workers :
        /\ pc[w] \in Busy /\ Settle(w, "DEAD_LETTER")
        /\ pc[w] = "claimed" \/ outcome[w] = "TERMINAL_FAILURE" \/ Exhausted(w)
  BY <1>2
<1>4. job[w] = d /\ claimedBy[d] = w /\ status[d] = "IN_FLIGHT"
  BY <1>1, <1>3 DEF Settle, HoldsClaim, TypeOK
<1>5. ASSUME Exhausted(w) PROVE attempts[d] - cycleStart[d] >= MaxRetries
  <2>1. tryNumber[w] = attempts[d] /\ tryBase[w] = cycleStart[d]
    BY <1>3, <1>4 DEF IInv, ClaimsCurrent, HoldsClaim
  <2>2. cycleStart[d] < attempts[d]
    BY <1>4 DEF IInv, RowsOfEvents
  <2>3. QED
    BY <1>1, <1>5, <2>1, <2>2, DeliveryAssumption DEF Exhausted, EffectiveAttempts, TypeOK
<1>6. QED
  BY <1>3, <1>4, <1>5

\* Only the holder of a claim dead-letters a delivery, and only for one of
\* the reasons DispatchOne has.
THEOREM DeadLetterCause == Spec => DeadLetterHasCause
<1>1. IInv /\ [Next]_vars =>
        [\A d \in Deliveries :
           status[d] # "DEAD_LETTER" /\ status'[d] = "DEAD_LETTER" =>
             \E w \in Workers :
               /\ claimedBy[d] = w /\ job[w] = d
               /\ \/ pc[w] = "claimed"
                  \/ outcome[w] = "TERMINAL_FAILURE"
                  \/ attempts[d] - cycleStart[d] >= MaxRetries]_vars
  BY DeadLetterStep
<1>2. QED
  BY <1>1, Invariant, PTL DEF Spec, DeadLetterHasCause

-----------------------------------------------------------------------------
(* How often an endpoint is tried, with one dispatcher that ends its work   *)
(* within the lease, as the program is configured.                          *)

OneDispatcher ==
  /\ \A v, w \in Workers : v = w
  /\ MaxBusy < Lease

Abandoned(d) == \A w \in Workers : ~(pc[w] \in Busy /\ job[w] = d)

InTime == \A w \in Workers : pc[w] \in Busy => age[w] <= MaxBusy

\* A row left under a claim nobody works on has cost a fault that its tries do
\* not yet show.
TriesSpent ==
  \A d \in Deliveries :
    /\ attempts[d] - cycleStart[d] <= MaxRetries + faults
    /\ status[d] = "IN_FLIGHT" /\ Abandoned(d)
         => attempts[d] - cycleStart[d] < MaxRetries + faults

LEMMA TriesStep ==
  ASSUME OneDispatcher, IInv, InTime, TriesSpent, [Next]_vars
  PROVE  InTime' /\ TriesSpent'
<1>. USE DeliveryAssumption DEF Busy
<1>0. TypeOK /\ TypeOK'
  BY InvStep DEF IInv
<1>1. ASSUME NEW ep \in Endpoints, NEW new \in {"ACTIVE", "DISABLED"}, SetEndpointStatus(ep, new)
      PROVE  InTime' /\ TriesSpent'
  BY <1>1 DEF SetEndpointStatus, tableVars, workerVars, InTime, TriesSpent, Abandoned
<1>2. ASSUME NEW e \in Events, CommitEvent(e) PROVE InTime' /\ TriesSpent'
  BY <1>0, <1>2 DEF CommitEvent, workerVars, InTime, TriesSpent, Abandoned, TypeOK
<1>3. ASSUME NEW d \in Deliveries, ReplayDelivery(d) PROVE InTime' /\ TriesSpent'
  BY <1>0, <1>3 DEF ReplayDelivery, workerVars, InTime, TriesSpent, Abandoned, TypeOK
<1>4. ASSUME NEW w \in Workers, StartDrain(w) \/ ClaimNothing(w) \/ TargetFound(w)
      PROVE  InTime' /\ TriesSpent'
  <2>1. UNCHANGED <<tableVars, job, age, faults>>
    BY <1>4 DEF StartDrain, ClaimNothing, TargetFound, MoveTo
  <2>2. \A v \in Workers : pc'[v] \in Busy <=> pc[v] \in Busy
    BY <1>0, <1>4 DEF StartDrain, ClaimNothing, TargetFound, MoveTo, TypeOK
  <2>. QED BY <2>1, <2>2 DEF tableVars, InTime, TriesSpent, Abandoned
<1>5. ASSUME NEW w \in Workers, NEW d \in Deliveries, ClaimDelivery(w, d)
      PROVE  InTime' /\ TriesSpent'
  <2>1. InTime'
    BY <1>0, <1>5 DEF ClaimDelivery, InTime, TypeOK
  <2>2. \A any \in Deliveries : Abandoned(any)
    BY <1>5 DEF ClaimDelivery, Abandoned, OneDispatcher
  <2>3. ~Abandoned(d)'
    BY <1>0, <1>5 DEF ClaimDelivery, Abandoned, TypeOK
  <2>4. attempts[d] - cycleStart[d] < MaxRetries + faults
    BY <1>0, <1>5, <2>2 DEF ClaimDelivery, Claimable, Due, TriesSpent, IInv, PendingHasTriesLeft, TypeOK
  <2>5. /\ attempts'[d] = attempts[d] + 1 /\ cycleStart' = cycleStart /\ faults' = faults
        /\ \A other \in Deliveries \ {d} :
             status'[other] = status[other] /\ attempts'[other] = attempts[other]
    BY <1>0, <1>5 DEF ClaimDelivery, TypeOK
  <2>6. ASSUME NEW any \in Deliveries
        PROVE  /\ attempts[any] \in Nat /\ cycleStart[any] \in Nat
               /\ faults \in Nat /\ MaxRetries \in Nat
    BY <1>0 DEF TypeOK
  <2>7. TriesSpent'
    <3>1. attempts'[d] - cycleStart'[d] <= MaxRetries + faults'
      BY <2>4, <2>5, <2>6
    <3>2. ASSUME NEW other \in Deliveries \ {d}
          PROVE  /\ attempts'[other] - cycleStart'[other] <= MaxRetries + faults'
                 /\ status'[other] = "IN_FLIGHT"
                      => attempts'[other] - cycleStart'[other] < MaxRetries + faults'
      BY <2>2, <2>5, <3>2 DEF TriesSpent
    <3>. QED BY <2>3, <3>1, <3>2 DEF TriesSpent
  <2>. QED BY <2>1, <2>7
<1>6. ASSUME NEW w \in Workers, pc[w] \in Busy,
             NEW new \in {"PENDING", "DELIVERED", "DEAD_LETTER"}, Settle(w, new) \/ SettleNothing(w),
             NEW place \in {"waiting", "draining"}, Leave(w, place), UNCHANGED faults
      PROVE  InTime' /\ TriesSpent'
  <2>1. job[w] \in Deliveries /\ HoldsClaim(w)
    BY <1>0, <1>6 DEF IInv, JobsReal, ClaimsKept, InTime, OneDispatcher, TypeOK
  <2>2. Settle(w, new)
    BY <1>6, <2>1 DEF SettleNothing
  <2>3. InTime'
    BY <1>0, <1>6 DEF Leave, InTime, TypeOK
  <2>4. ASSUME NEW d \in Deliveries, status'[d] = "IN_FLIGHT"
        PROVE  d # job[w] /\ status[d] = "IN_FLIGHT" /\ Abandoned(d)
    BY <1>0, <1>6, <2>1, <2>2, <2>4 DEF Settle, Abandoned, OneDispatcher, TypeOK
  <2>5. TriesSpent'
    BY <1>0, <1>6, <2>2, <2>4 DEF Settle, TriesSpent, TypeOK
  <2>. QED BY <2>3, <2>5
<1>7. ASSUME NEW w \in Workers, TargetMissing(w) PROVE InTime' /\ TriesSpent'
  BY <1>6, <1>7 DEF TargetMissing
<1>8. ASSUME NEW w \in Workers, CompleteDelivered(w) \/ GiveUp(w) \/ ScheduleRetry(w)
      PROVE  InTime' /\ TriesSpent'
  <2>1. /\ pc[w] \in Busy /\ UNCHANGED faults
        /\ \E new \in {"PENDING", "DELIVERED", "DEAD_LETTER"} : Settle(w, new) \/ SettleNothing(w)
        /\ \E place \in {"waiting", "draining"} : Leave(w, place)
    BY <1>8 DEF CompleteDelivered, GiveUp, ScheduleRetry, EndDispatch
  <2>. QED BY <1>6, <2>1
<1>9. ASSUME NEW w \in Workers, NEW result \in Outcomes \ {"NONE"}, NEW accepted \in BOOLEAN,
             Send(w, result, accepted)
      PROVE  InTime' /\ TriesSpent'
  BY <1>0, <1>9 DEF Send, MoveTo, tableVars, InTime, TriesSpent, Abandoned, TypeOK
<1>10. ASSUME NEW w \in Workers, RecordAttempt(w) PROVE InTime' /\ TriesSpent'
  <2>1. /\ UNCHANGED <<status, attempts, cycleStart, job, age>>
        /\ faults' \in {faults, faults + 1}
        /\ \A v \in Workers : pc'[v] \in Busy <=> pc[v] \in Busy
    BY <1>0, <1>10 DEF RecordAttempt, MoveTo, tableVars, TypeOK
  <2>2. InTime' /\ \A d \in Deliveries : Abandoned(d)' => Abandoned(d)
    BY <2>1 DEF InTime, Abandoned
  <2>3. ASSUME NEW any \in Deliveries
        PROVE  /\ attempts[any] \in Nat /\ cycleStart[any] \in Nat
               /\ faults \in Nat /\ MaxRetries \in Nat
    BY <1>0 DEF TypeOK
  <2>. QED BY <2>1, <2>2, <2>3 DEF TriesSpent
<1>11. ASSUME NEW w \in Workers, StoreError(w) PROVE InTime' /\ TriesSpent'
  <2>1. UNCHANGED <<status, attempts, cycleStart>> /\ faults' = faults + 1 /\ faults \in Nat
    BY <1>0, <1>11 DEF StoreError, tableVars, TypeOK
  <2>2. InTime'
    BY <1>0, <1>11 DEF StoreError, Leave, InTime, TypeOK
  <2>3. ASSUME NEW any \in Deliveries
        PROVE  /\ attempts'[any] - cycleStart'[any] <= MaxRetries + faults
               /\ attempts'[any] - cycleStart'[any] \in Int /\ MaxRetries \in Nat
    BY <1>0, <2>1 DEF TriesSpent, TypeOK
  <2>. QED BY <2>1, <2>2, <2>3 DEF TriesSpent
<1>12. CASE Restart
  BY <1>0, <1>12 DEF Restart, tableVars, InTime, TriesSpent, TypeOK
<1>13. CASE Tick
  BY <1>0, <1>13 DEF Tick, InTime, TriesSpent, Abandoned, TypeOK
<1>14. CASE UNCHANGED vars
  BY <1>14 DEF vars, tableVars, workerVars, InTime, TriesSpent, Abandoned
<1>. QED
  BY <1>1, <1>2, <1>3, <1>4, <1>5, <1>7, <1>8, <1>9, <1>10, <1>11, <1>12, <1>13, <1>14
  DEF Next, Dispatch

\* One dispatcher that ends its work before the second its lease ends in makes at most MaxRetries
\* tries in a retry cycle and one more for each crash or failed store call, for
\* any events, endpoints and replays (DispatchOne and ClaimDelivery).
THEOREM TriesAreBounded ==
  ASSUME OneDispatcher
  PROVE  Spec => []TriesBounded
<1>1. Init => InTime /\ TriesSpent
  BY DeliveryAssumption DEF Init, InTime, TriesSpent, Busy
<1>2. IInv /\ InTime /\ TriesSpent /\ [Next]_vars => InTime' /\ TriesSpent'
  BY TriesStep
<1>3. TriesSpent => TriesBounded
  BY DEF TriesSpent, TriesBounded
<1>. QED
  BY <1>1, <1>2, <1>3, Invariant, PTL DEF Spec

-----------------------------------------------------------------------------
(* The outbox refinement                                                   *)

LEMMA PromiseCases ==
  /\ PromiseOf("NONE") = "none"
  /\ PromiseOf("PENDING") = "owed"
  /\ PromiseOf("IN_FLIGHT") = "owed"
  /\ PromiseOf("DELIVERED") = "kept"
  /\ PromiseOf("DEAD_LETTER") = "broken"
BY DEF PromiseOf

\* A step that leaves every promise and every copy alone is a stutter.
LEMMA SameView ==
  ASSUME UNCHANGED reached,
         \A d \in Deliveries : PromiseOf(status'[d]) = PromiseOf(status[d])
  PROVE  UNCHANGED Abstract!vars
BY DEF Abstract!vars, OutboxView

\* A step that changes one row shows as a change of one promise.
LEMMA OneRow ==
  ASSUME TypeOK, NEW d \in Deliveries, NEW new \in RowStatus,
         status' = [status EXCEPT ![d] = new]
  PROVE  OutboxView' = [OutboxView EXCEPT ![d] = PromiseOf(new)]
BY DEF OutboxView, TypeOK

\* How a dispatch ends shows as a promise kept, broken, or still owed.
LEMMA SettleMaps ==
  ASSUME IInv, NEW w \in Workers, pc[w] \in Busy,
         NEW new \in {"PENDING", "DELIVERED", "DEAD_LETTER"},
         Settle(w, new) \/ SettleNothing(w),
         UNCHANGED reached, new = "DELIVERED" => reached[job[w]]
  PROVE  [Abstract!Next]_Abstract!vars
<1>1. job[w] \in Deliveries
  BY DEF IInv, JobsReal
<1>2. CASE SettleNothing(w)
  BY <1>2, SameView DEF SettleNothing, tableVars
<1>3. CASE Settle(w, new)
  <2>1. status[job[w]] = "IN_FLIGHT" /\ status' = [status EXCEPT ![job[w]] = new]
    BY <1>3 DEF Settle, HoldsClaim
  <2>2. OutboxView[job[w]] = "owed"
    BY <1>1, <2>1, PromiseCases DEF OutboxView
  <2>3. OutboxView' = [OutboxView EXCEPT ![job[w]] = PromiseOf(new)]
    <3>1. TypeOK /\ new \in RowStatus
      BY DEF IInv, RowStatus
    <3>2. QED
      BY <1>1, <2>1, <3>1, OneRow
  <2>4. CASE new = "PENDING"
    BY <1>1, <2>1, <2>4, SameView, PromiseCases DEF IInv, TypeOK
  <2>5. CASE new = "DELIVERED"
    <3>1. Abstract!Keep(job[w])
      BY <2>2, <2>3, <2>5, PromiseCases DEF Abstract!Keep
    <3>2. QED
      BY <1>1, <3>1 DEF Abstract!Next
  <2>6. CASE new = "DEAD_LETTER"
    <3>1. Abstract!Break(job[w])
      BY <2>2, <2>3, <2>6, PromiseCases DEF Abstract!Break
    <3>2. QED
      BY <1>1, <3>1 DEF Abstract!Next
  <2>7. QED
    BY <2>4, <2>5, <2>6
<1>4. QED
  BY <1>2, <1>3

LEMMA StepMaps == IInv /\ [Next]_vars => [Abstract!Next]_Abstract!vars
<1> SUFFICES ASSUME IInv, [Next]_vars PROVE [Abstract!Next]_Abstract!vars
  OBVIOUS
<1> USE DEF tableVars
<1>1. ASSUME NEW ep \in Endpoints, NEW new \in {"ACTIVE", "DISABLED"},
             SetEndpointStatus(ep, new)
      PROVE  [Abstract!Next]_Abstract!vars
  BY <1>1, SameView DEF SetEndpointStatus
<1>2. ASSUME NEW e \in Events, CommitEvent(e) PROVE [Abstract!Next]_Abstract!vars
  <2> DEFINE owed == {d \in Deliveries : d[1] = e /\ endpointStatus[EndpointOf(d)] = "ACTIVE"}
  <2>1. \A d \in owed : status[d] = "NONE"
    BY <1>2 DEF CommitEvent, IInv, RowsOfEvents
  <2>2. \A d \in owed : OutboxView[d] = "none"
    BY <2>1, PromiseCases DEF OutboxView
  <2>3. OutboxView' = [d \in Deliveries |-> IF d \in owed THEN "owed" ELSE OutboxView[d]]
    <3>1. \A d \in Deliveries : status'[d] = IF d \in owed THEN "PENDING" ELSE status[d]
      BY <1>2 DEF CommitEvent
    <3>2. QED
      BY <3>1, PromiseCases DEF OutboxView
  <2>4. Abstract!Owe(owed)
    BY <1>2, <2>2, <2>3 DEF Abstract!Owe, CommitEvent
  <2>5. owed \in SUBSET Deliveries
    OBVIOUS
  <2>6. QED
    BY <2>4, <2>5 DEF Abstract!Next
<1>3. ASSUME NEW d \in Deliveries, ReplayDelivery(d) PROVE [Abstract!Next]_Abstract!vars
  <2>1. status[d] = "DEAD_LETTER" /\ status' = [status EXCEPT ![d] = "PENDING"]
    BY <1>3 DEF ReplayDelivery
  <2>2. OutboxView[d] = "broken"
    BY <2>1, PromiseCases DEF OutboxView
  <2>3. OutboxView' = [OutboxView EXCEPT ![d] = "owed"]
    BY <2>1, OneRow, PromiseCases DEF IInv, RowStatus
  <2>4. Abstract!Reopen(d)
    BY <1>3, <2>2, <2>3 DEF Abstract!Reopen, ReplayDelivery
  <2>5. QED
    BY <2>4 DEF Abstract!Next
<1>4. ASSUME NEW w \in Workers, StartDrain(w) \/ ClaimNothing(w) \/ TargetFound(w)
      PROVE  [Abstract!Next]_Abstract!vars
  BY <1>4, SameView DEF StartDrain, ClaimNothing, TargetFound
<1>5. ASSUME NEW w \in Workers, NEW d \in Deliveries, ClaimDelivery(w, d)
      PROVE  [Abstract!Next]_Abstract!vars
  <2>1. status[d] \in {"PENDING", "IN_FLIGHT"} /\ status' = [status EXCEPT ![d] = "IN_FLIGHT"]
    BY <1>5 DEF ClaimDelivery, Claimable, Due
  <2>2. QED
    BY <1>5, <2>1, SameView, PromiseCases DEF ClaimDelivery, IInv, TypeOK
<1>6. ASSUME NEW w \in Workers, TargetMissing(w) PROVE [Abstract!Next]_Abstract!vars
  BY <1>6, SettleMaps DEF TargetMissing, Busy
<1>7. ASSUME NEW w \in Workers, NEW result \in Outcomes \ {"NONE"},
             NEW accepted \in BOOLEAN, Send(w, result, accepted)
      PROVE  [Abstract!Next]_Abstract!vars
  <2>1. job[w] \in Deliveries /\ status[job[w]] \in RowStatus \ {"NONE"}
    BY <1>7 DEF Send, IInv, JobsReal, TypeOK, Busy
  <2>2. OutboxView[job[w]] # "none" /\ UNCHANGED OutboxView
    BY <1>7, <2>1, PromiseCases DEF Send, OutboxView, RowStatus
  <2>3. CASE accepted
    <3>1. Abstract!Reach(job[w])
      BY <1>7, <2>1, <2>2, <2>3 DEF Abstract!Reach, Send, IInv, TypeOK
    <3>2. QED
      BY <2>1, <3>1 DEF Abstract!Next
  <2>4. CASE ~accepted
    BY <1>7, <2>1, <2>4, SameView DEF Send, IInv, TypeOK
  <2>5. QED
    BY <2>3, <2>4
<1>8. ASSUME NEW w \in Workers, RecordAttempt(w) PROVE [Abstract!Next]_Abstract!vars
  BY <1>8, SameView DEF RecordAttempt
<1>9. ASSUME NEW w \in Workers, CompleteDelivered(w) PROVE [Abstract!Next]_Abstract!vars
  <2>1. reached[job[w]]
    BY <1>9 DEF CompleteDelivered, IInv, SuccessReached
  <2>2. QED
    BY <1>9, <2>1, SettleMaps DEF CompleteDelivered, EndDispatch, Busy
<1>10. ASSUME NEW w \in Workers, GiveUp(w) PROVE [Abstract!Next]_Abstract!vars
  BY <1>10, SettleMaps DEF GiveUp, EndDispatch, Busy
<1>11. ASSUME NEW w \in Workers, ScheduleRetry(w) PROVE [Abstract!Next]_Abstract!vars
  BY <1>11, SettleMaps DEF ScheduleRetry, EndDispatch, Busy
<1>12. ASSUME NEW w \in Workers, StoreError(w) PROVE [Abstract!Next]_Abstract!vars
  BY <1>12, SameView DEF StoreError
<1>13. CASE Restart
  BY <1>13, SameView DEF Restart
<1>14. CASE Tick
  BY <1>14, SameView DEF Tick
<1>15. CASE UNCHANGED vars
  BY <1>15, SameView DEF vars
<1>16. QED
  BY <1>1, <1>2, <1>3, <1>4, <1>5, <1>6, <1>7, <1>8, <1>9, <1>10, <1>11, <1>12, <1>13,
     <1>14, <1>15 DEF Next, Dispatch

\* The store and the dispatcher implement the outbox promise: no delivery
\* is called delivered that its endpoint did not accept, a settled delivery
\* stays settled, and only a replay reopens a dead letter.
THEOREM OutboxRefinement == Spec => ImplementsOutbox
<1>1. Init => Abstract!Init
  BY PromiseCases DEF Init, Abstract!Init, OutboxView
<1>2. QED
  BY <1>1, StepMaps, Invariant, PTL DEF Spec, ImplementsOutbox, Abstract!Spec

=============================================================================
