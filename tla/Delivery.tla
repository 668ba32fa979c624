------------------------------ MODULE Delivery ------------------------------
(***************************************************************************)
(* The notification outbox: the deliveries table of internal/storage and   *)
(* the dispatcher of internal/notification that empties it.                *)
(*                                                                         *)
(* A delivery is one event owed to one endpoint (UNIQUE(event_id,          *)
(* endpoint_id)).  A worker is a goroutine inside Dispatcher.drain: it     *)
(* claims the oldest due delivery under a lease, looks the target up,      *)
(* sends, records the attempt and settles the row, each of these a         *)
(* database transaction of its own.  The gateway runs one worker; the      *)
(* claim protocol of the store is written for any number.                  *)
(*                                                                         *)
(* Time is relative and in whole seconds: next_attempt_at is dueIn, the    *)
(* ticks left until the second the delivery is due in (negative: overdue   *)
(* by that much), lease_until is leaseLeft, the ticks left until the       *)
(* second the lease ends in, and the instant DispatchOne read from the     *)
(* clock is age, the ticks since.  The store compares times as             *)
(* RFC3339Nano texts, which drop trailing zeros: 10:00:00Z sorts after     *)
(* 10:00:00.5Z.  So texts of one second sort either way, and those of      *)
(* different seconds as their times do.                                    *)
(***************************************************************************)
EXTENDS Integers, Sequences

CONSTANTS
  Events,       \* credit events the ingest transaction may commit
  Endpoints,    \* rows of webhook_endpoints, webhook and Bark alike
  Workers,      \* dispatcher goroutines
  NoWorker,     \* claim_token IS NULL
  NoDelivery,   \* a worker that holds no delivery
  Lease,        \* ticks of the 30 s lease
  Backoffs,     \* ticks of backoffs[0..]
  MaxRetries,   \* Dispatcher.maxRetries
  MaxBusy,      \* bound: ticks one DispatchOne can take (15 s HTTP timeout)
  MaxLag,       \* bound: how far dueIn counts overdue ticks
  MaxFaults,    \* bound: crashes and failed store calls
  MaxReplays,   \* bound: operator replays
  MaxAttempts   \* bound: claims of one delivery

Deliveries == Events \X Endpoints

EndpointOf(d) == d[2]

ASSUME DeliveryAssumption ==
  /\ NoWorker \notin Workers
  /\ NoDelivery \notin Deliveries
  /\ Lease \in Nat \ {0}
  /\ Backoffs \in Seq(Nat) /\ Backoffs # << >>
  /\ MaxRetries \in Nat \ {0}
  /\ MaxBusy \in Nat
  /\ MaxLag \in Nat \ {0} /\ MaxFaults \in Nat /\ MaxReplays \in Nat /\ MaxAttempts \in Nat

VARIABLES
  endpointStatus,  \* webhook_endpoints.status
  events,          \* events committed by an ingest transaction
  status,          \* deliveries.status, "NONE" before the row exists
  attempts,        \* deliveries.attempts
  cycleStart,      \* deliveries.retry_cycle_start_attempt
  claimedBy,       \* deliveries.claim_token: a random token names one claim of one
                   \* worker, and a worker has one claim at a time
  leaseLeft,       \* deliveries.lease_until; -1: passed, or NULL
  dueIn,           \* deliveries.next_attempt_at
  logged,          \* attempt numbers in delivery_attempts
  pc,              \* where each worker is
  job,             \* the Delivery value DispatchOne works on
  tryNumber,       \* its copy of attempts
  tryBase,         \* its copy of retry_cycle_start_attempt
  age,             \* ticks since its now := time.Now()
  outcome,         \* SendResult.Outcome
  reached,         \* the endpoint accepted a copy of the delivery
  faults, replays  \* counters behind MaxFaults and MaxReplays

tableVars  == <<status, attempts, cycleStart, claimedBy, leaseLeft, dueIn>>
workerVars == <<pc, job, tryNumber, tryBase, age, outcome>>
vars == <<endpointStatus, events, tableVars, logged, workerVars, reached, faults, replays>>

RowStatus == {"NONE", "PENDING", "IN_FLIGHT", "DELIVERED", "DEAD_LETTER"}
Outcomes  == {"NONE", "SUCCESS", "RETRY", "TERMINAL_FAILURE"}
Places    == {"waiting", "draining", "claimed", "sending", "answered", "recorded"}
Busy      == {"claimed", "sending", "answered", "recorded"}

TypeOK ==
  /\ endpointStatus \in [Endpoints -> {"ACTIVE", "DISABLED"}]
  /\ events \in SUBSET Events
  /\ status \in [Deliveries -> RowStatus]
  /\ attempts \in [Deliveries -> Nat]
  /\ cycleStart \in [Deliveries -> Nat]
  /\ claimedBy \in [Deliveries -> Workers \cup {NoWorker}]
  /\ leaseLeft \in [Deliveries -> Int]
  /\ dueIn \in [Deliveries -> Int]
  /\ logged \in [Deliveries -> SUBSET Nat]
  /\ pc \in [Workers -> Places]
  /\ job \in [Workers -> Deliveries \cup {NoDelivery}]
  /\ tryNumber \in [Workers -> Nat]
  /\ tryBase \in [Workers -> Nat]
  /\ age \in [Workers -> Nat]
  /\ outcome \in [Workers -> Outcomes]
  /\ reached \in [Deliveries -> BOOLEAN]
  /\ faults \in Nat
  /\ replays \in Nat

Init ==
  /\ endpointStatus = [ep \in Endpoints |-> "DISABLED"]
  /\ events = {}
  /\ status = [d \in Deliveries |-> "NONE"]
  /\ attempts = [d \in Deliveries |-> 0]
  /\ cycleStart = [d \in Deliveries |-> 0]
  /\ claimedBy = [d \in Deliveries |-> NoWorker]
  /\ leaseLeft = [d \in Deliveries |-> -1]
  /\ dueIn = [d \in Deliveries |-> 0]
  /\ logged = [d \in Deliveries |-> {}]
  /\ pc = [w \in Workers |-> "waiting"]
  /\ job = [w \in Workers |-> NoDelivery]
  /\ tryNumber = [w \in Workers |-> 0]
  /\ tryBase = [w \in Workers |-> 0]
  /\ age = [w \in Workers |-> 0]
  /\ outcome = [w \in Workers |-> "NONE"]
  /\ reached = [d \in Deliveries |-> FALSE]
  /\ faults = 0
  /\ replays = 0

-----------------------------------------------------------------------------
(* The store                                                               *)

\* SetEndpointStatus, the administrator's enable and disable.
SetEndpointStatus(ep, new) ==
  /\ endpointStatus' = [endpointStatus EXCEPT ![ep] = new]
  /\ UNCHANGED <<events, tableVars, logged, workerVars, reached, faults, replays>>

\* The ingest transaction writes a credit event and, with it, one PENDING
\* delivery due now for every endpoint that is active at that moment.
CommitEvent(e) ==
  /\ e \notin events
  /\ events' = events \cup {e}
  /\ status' = [d \in Deliveries |->
                  IF d[1] = e /\ endpointStatus[EndpointOf(d)] = "ACTIVE"
                  THEN "PENDING" ELSE status[d]]
  /\ dueIn' = [d \in Deliveries |-> IF d[1] = e THEN 0 ELSE dueIn[d]]
  /\ UNCHANGED <<endpointStatus, attempts, cycleStart, claimedBy, leaseLeft,
                 logged, workerVars, reached, faults, replays>>

\* How the texts of one second sort: in favour of the claim, or against it.
InFavour == 0
Against  == -1

\* The lease is not seen to be over: lease_until >= now.
LeaseRuns(d, tie) == status[d] = "IN_FLIGHT" /\ leaseLeft[d] > tie

\* next_attempt_at <= now, or lease_until < now.
Due(d, tie) ==
  \/ status[d] = "PENDING" /\ dueIn[d] <= tie
  \/ status[d] = "IN_FLIGHT" /\ leaseLeft[d] <= tie

(* The operators named Faulty... are slips the runs are known to notice;   *)
(* no specification uses them.                                             *)

\* Claims a delivery whose lease still runs.
FaultyClaimable_IgnoresLease(d, tie) ==
  /\ endpointStatus[EndpointOf(d)] = "ACTIVE"
  /\ Due(d, tie) \/ status[d] = "IN_FLIGHT"
  /\ \A other \in Deliveries \ {d} :
       EndpointOf(other) = EndpointOf(d) => ~LeaseRuns(other, tie)

\* No NOT EXISTS clause.
FaultyClaimable_NoFairness(d, tie) ==
  /\ endpointStatus[EndpointOf(d)] = "ACTIVE"
  /\ Due(d, tie)

\* Never takes an abandoned claim over.
FaultyClaimable_NoTakeover(d, tie) ==
  /\ endpointStatus[EndpointOf(d)] = "ACTIVE"
  /\ Due(d, tie) /\ status[d] = "PENDING"
  /\ \A other \in Deliveries \ {d} :
       EndpointOf(other) = EndpointOf(d) => ~LeaseRuns(other, tie)

\* The WHERE clause of ClaimDelivery.
Claimable(d, tie) ==
  /\ endpointStatus[EndpointOf(d)] = "ACTIVE"
  /\ Due(d, tie)
  /\ \A other \in Deliveries \ {d} :
       EndpointOf(other) = EndpointOf(d) => ~LeaseRuns(other, tie)

\* ORDER BY next_attempt_at, id LIMIT 1 among the rows that are claimable
\* however their texts sort; ids are random, so ties are free.
Oldest(d) == \A other \in Deliveries : Claimable(other, Against) => dueIn[d] <= dueIn[other]

\* Settles by id, without the claim token.
FaultyHoldsClaim(w) == job[w] \in Deliveries

\* The claim token still names the claim of worker w.
HoldsClaim(w) ==
  /\ status[job[w]] = "IN_FLIGHT"
  /\ claimedBy[job[w]] = w

\* A settling UPDATE ... WHERE status='IN_FLIGHT' AND claim_token=?.
Settle(w, new) ==
  /\ HoldsClaim(w)
  /\ status' = [status EXCEPT ![job[w]] = new]
  /\ claimedBy' = [claimedBy EXCEPT ![job[w]] = NoWorker]
  /\ leaseLeft' = [leaseLeft EXCEPT ![job[w]] = -1]
  /\ UNCHANGED <<attempts, cycleStart>>

\* The UPDATE matched no row: another claim took the delivery over.
SettleNothing(w) ==
  /\ ~HoldsClaim(w)
  /\ UNCHANGED tableVars

\* Starts the attempt numbers over.
FaultyReplay_Renumbers(d) ==
  /\ replays < MaxReplays
  /\ status[d] = "DEAD_LETTER"
  /\ endpointStatus[EndpointOf(d)] = "ACTIVE"
  /\ status' = [status EXCEPT ![d] = "PENDING"]
  /\ dueIn' = [dueIn EXCEPT ![d] = 0]
  /\ attempts' = [attempts EXCEPT ![d] = 0]
  /\ cycleStart' = [cycleStart EXCEPT ![d] = 0]
  /\ replays' = replays + 1
  /\ UNCHANGED <<endpointStatus, events, claimedBy, leaseLeft,
                 logged, workerVars, reached, faults>>

\* Moves the start of the cycle back instead of forward.
FaultyReplay_MovesBack(d) ==
  /\ replays < MaxReplays
  /\ status[d] = "DEAD_LETTER"
  /\ endpointStatus[EndpointOf(d)] = "ACTIVE"
  /\ status' = [status EXCEPT ![d] = "PENDING"]
  /\ dueIn' = [dueIn EXCEPT ![d] = 0]
  /\ cycleStart' = [cycleStart EXCEPT ![d] = attempts[d] - MaxRetries]
  /\ replays' = replays + 1
  /\ UNCHANGED <<endpointStatus, events, attempts, claimedBy, leaseLeft,
                 logged, workerVars, reached, faults>>

\* ReplayDelivery: a dead letter of an active endpoint starts a new cycle.
ReplayDelivery(d) ==
  /\ replays < MaxReplays
  /\ status[d] = "DEAD_LETTER"
  /\ endpointStatus[EndpointOf(d)] = "ACTIVE"
  /\ status' = [status EXCEPT ![d] = "PENDING"]
  /\ dueIn' = [dueIn EXCEPT ![d] = 0]
  /\ cycleStart' = [cycleStart EXCEPT ![d] = attempts[d]]
  /\ replays' = replays + 1
  /\ UNCHANGED <<endpointStatus, events, attempts, claimedBy, leaseLeft,
                 logged, workerVars, reached, faults>>

-----------------------------------------------------------------------------
(* The dispatcher                                                          *)

\* DispatchOne returns: nil goes round drain's loop again, an error or an
\* empty queue goes back to Start's select.
Leave(w, place) ==
  /\ pc' = [pc EXCEPT ![w] = place]
  /\ job' = [job EXCEPT ![w] = NoDelivery]
  /\ tryNumber' = [tryNumber EXCEPT ![w] = 0]
  /\ tryBase' = [tryBase EXCEPT ![w] = 0]
  /\ age' = [age EXCEPT ![w] = 0]
  /\ outcome' = [outcome EXCEPT ![w] = "NONE"]

MoveTo(w, place) ==
  /\ pc' = [pc EXCEPT ![w] = place]
  /\ UNCHANGED <<job, tryNumber, tryBase, age>>

\* The two-second ticker, or a wake-up, starts a drain.
StartDrain(w) ==
  /\ pc[w] = "waiting"
  /\ MoveTo(w, "draining")
  /\ UNCHANGED <<endpointStatus, events, tableVars, logged, outcome, reached, faults, replays>>

\* ClaimDelivery found nothing due.
ClaimNothing(w) ==
  /\ pc[w] = "draining"
  /\ \A d \in Deliveries : ~Claimable(d, Against)
  /\ MoveTo(w, "waiting")
  /\ UNCHANGED <<endpointStatus, events, tableVars, logged, outcome, reached, faults, replays>>

\* ClaimDelivery: a new token, a new lease, one more attempt.
ClaimDelivery(w, d) ==
  /\ pc[w] = "draining"
  /\ Claimable(d, InFavour) /\ Oldest(d)
  /\ attempts[d] < MaxAttempts
  /\ status' = [status EXCEPT ![d] = "IN_FLIGHT"]
  /\ attempts' = [attempts EXCEPT ![d] = @ + 1]
  /\ claimedBy' = [claimedBy EXCEPT ![d] = w]
  /\ leaseLeft' = [leaseLeft EXCEPT ![d] = Lease]
  /\ pc' = [pc EXCEPT ![w] = "claimed"]
  /\ job' = [job EXCEPT ![w] = d]
  /\ tryNumber' = [tryNumber EXCEPT ![w] = attempts[d] + 1]
  /\ tryBase' = [tryBase EXCEPT ![w] = cycleStart[d]]
  /\ age' = [age EXCEPT ![w] = 0]
  /\ UNCHANGED <<endpointStatus, events, cycleStart, dueIn, logged, outcome, reached,
                 faults, replays>>

\* DeliveryTargetForDelivery, Registry.Get and EventPayload all answered.
TargetFound(w) ==
  /\ pc[w] = "claimed"
  /\ MoveTo(w, "sending")
  /\ UNCHANGED <<endpointStatus, events, tableVars, logged, outcome, reached, faults, replays>>

\* One of them failed: the row is failed (the error of FailDelivery is
\* ignored) and DispatchOne returns an error.
TargetMissing(w) ==
  /\ pc[w] = "claimed"
  /\ \/ Settle(w, "DEAD_LETTER") /\ UNCHANGED dueIn
     \/ SettleNothing(w)
  /\ Leave(w, "waiting")
  /\ UNCHANGED <<endpointStatus, events, logged, reached, faults, replays>>

\* Sender.Send.  SUCCESS is a 2xx of the endpoint.  RETRY (network error,
\* time-out, 5xx, 408, 429) may hide a copy that did arrive.
Send(w, result, accepted) ==
  /\ pc[w] = "sending"
  /\ result = "SUCCESS" => accepted
  /\ result = "TERMINAL_FAILURE" => ~accepted
  /\ outcome' = [outcome EXCEPT ![w] = result]
  /\ reached' = [reached EXCEPT ![job[w]] = @ \/ accepted]
  /\ MoveTo(w, "answered")
  /\ UNCHANGED <<endpointStatus, events, tableVars, logged, faults, replays>>

\* RecordAttempt; its failure, a UNIQUE(delivery_id, attempt_number) clash
\* included, is only logged and the dispatch goes on.
RecordAttempt(w) ==
  /\ pc[w] = "answered"
  /\ \/ /\ logged' = [logged EXCEPT ![job[w]] = @ \cup {tryNumber[w]}]
        /\ UNCHANGED faults
     \/ /\ faults < MaxFaults
        /\ faults' = faults + 1
        /\ UNCHANGED logged
  /\ MoveTo(w, "recorded")
  /\ UNCHANGED <<endpointStatus, events, tableVars, outcome, reached, replays>>

\* Forgets the retry cycle.
FaultyEffectiveAttempts(w) == tryNumber[w]

EffectiveAttempts(w) ==
  IF tryNumber[w] - tryBase[w] < 1 THEN 1 ELSE tryNumber[w] - tryBase[w]

\* One try too many.
FaultyExhausted(w) == EffectiveAttempts(w) > MaxRetries

Exhausted(w) == EffectiveAttempts(w) >= MaxRetries

\* backoffs[min(effectiveAttempts, len) - 1], counted from the start of
\* DispatchOne and not from the answer.
RetryIn(w) ==
  LET last == Len(Backoffs)
      step == IF EffectiveAttempts(w) > last THEN last ELSE EffectiveAttempts(w)
  IN  Backoffs[step] - age[w]

\* A settled row lets drain go on; a lost claim is sql.ErrNoRows.
EndDispatch(w) ==
  /\ Leave(w, IF HoldsClaim(w) THEN "draining" ELSE "waiting")
  /\ UNCHANGED <<endpointStatus, events, logged, reached, faults, replays>>

CompleteDelivered(w) ==
  /\ pc[w] = "recorded"
  /\ outcome[w] = "SUCCESS"
  /\ \/ /\ Settle(w, "DELIVERED")
        /\ dueIn' = [dueIn EXCEPT ![job[w]] = -MaxLag]  \* retryAt is the zero time
     \/ SettleNothing(w)
  /\ EndDispatch(w)

GiveUp(w) ==
  /\ pc[w] = "recorded"
  /\ \/ outcome[w] = "TERMINAL_FAILURE"
     \/ outcome[w] = "RETRY" /\ Exhausted(w)
  /\ \/ Settle(w, "DEAD_LETTER") /\ UNCHANGED dueIn
     \/ SettleNothing(w)
  /\ EndDispatch(w)

ScheduleRetry(w) ==
  /\ pc[w] = "recorded"
  /\ outcome[w] = "RETRY" /\ ~Exhausted(w)
  /\ \/ Settle(w, "PENDING") /\ dueIn' = [dueIn EXCEPT ![job[w]] = RetryIn(w)]
     \/ SettleNothing(w)
  /\ EndDispatch(w)

\* The store call a worker is about to make fails, or its context is
\* cancelled: DispatchOne returns an error and the row keeps its lease.
StoreError(w) ==
  /\ faults < MaxFaults
  /\ pc[w] \in Busy
  /\ Leave(w, "waiting")
  /\ faults' = faults + 1
  /\ UNCHANGED <<endpointStatus, events, tableVars, logged, reached, replays>>

\* The process stops and starts again: only the tables survive.
Restart ==
  /\ faults < MaxFaults
  /\ pc' = [w \in Workers |-> "waiting"]
  /\ job' = [w \in Workers |-> NoDelivery]
  /\ tryNumber' = [w \in Workers |-> 0]
  /\ tryBase' = [w \in Workers |-> 0]
  /\ age' = [w \in Workers |-> 0]
  /\ outcome' = [w \in Workers |-> "NONE"]
  /\ faults' = faults + 1
  /\ UNCHANGED <<endpointStatus, events, tableVars, logged, reached, replays>>

\* Time passes, never beyond what one DispatchOne can take.
Tick ==
  /\ \A w \in Workers : pc[w] \in Busy => age[w] < MaxBusy
  /\ age' = [w \in Workers |-> IF pc[w] \in Busy THEN age[w] + 1 ELSE age[w]]
  /\ leaseLeft' = [d \in Deliveries |-> IF leaseLeft[d] < 0 THEN -1 ELSE leaseLeft[d] - 1]
  /\ dueIn' = [d \in Deliveries |->
                 IF status[d] = "NONE" \/ dueIn[d] <= -MaxLag THEN dueIn[d] ELSE dueIn[d] - 1]
  /\ UNCHANGED <<endpointStatus, events, status, attempts, cycleStart, claimedBy, logged,
                 pc, job, tryNumber, tryBase, outcome, reached, faults, replays>>

-----------------------------------------------------------------------------

Dispatch(w) ==
  \/ StartDrain(w) \/ ClaimNothing(w)
  \/ \E d \in Deliveries : ClaimDelivery(w, d)
  \/ TargetFound(w) \/ TargetMissing(w)
  \/ \E result \in Outcomes \ {"NONE"}, accepted \in BOOLEAN : Send(w, result, accepted)
  \/ RecordAttempt(w)
  \/ CompleteDelivered(w) \/ GiveUp(w) \/ ScheduleRetry(w)

Next ==
  \/ \E ep \in Endpoints, new \in {"ACTIVE", "DISABLED"} : SetEndpointStatus(ep, new)
  \/ \E e \in Events : CommitEvent(e)
  \/ \E d \in Deliveries : ReplayDelivery(d)
  \/ \E w \in Workers : Dispatch(w) \/ StoreError(w)
  \/ Restart
  \/ Tick

Spec == Init /\ [][Next]_vars

\* The dispatcher goroutine is scheduled and every store call and HTTP
\* request returns (the client has a time-out), and the clock advances.
\* Operators, ingest and faults are under no obligation.
FairSpec == Spec /\ WF_vars(Tick) /\ \A w \in Workers : WF_vars(Dispatch(w))

-----------------------------------------------------------------------------
(* Properties                                                              *)

\* Until the second its lease ends in, nobody takes a delivery away from the
\* worker that claimed it: the row still carries its token, its attempt number
\* and its cycle, however the texts of the times sort (ClaimDelivery, and the
\* token checks of the settling UPDATEs).
LeaseProtects ==
  \A w \in Workers :
    pc[w] \in Busy /\ age[w] < Lease =>
      /\ HoldsClaim(w)
      /\ attempts[job[w]] = tryNumber[w]
      /\ cycleStart[job[w]] = tryBase[w]

\* Fair leasing: an endpoint never has two deliveries under a running lease
\* (the NOT EXISTS clause of ClaimDelivery).
OneLeasePerEndpoint ==
  \A d1, d2 \in Deliveries :
    LeaseRuns(d1, InFavour) /\ LeaseRuns(d2, InFavour) /\ EndpointOf(d1) = EndpointOf(d2)
      => d1 = d2

\* Two goroutines never send to the same endpoint at once, unless one of them
\* has overrun its lease: neither the same delivery nor two of its deliveries
\* (what the lease, the token and the NOT EXISTS clause are for together).
OneSenderPerEndpoint ==
  \A v, w \in Workers :
    /\ pc[v] \in Busy /\ age[v] < Lease
    /\ pc[w] \in Busy /\ age[w] < Lease
    /\ EndpointOf(job[v]) = EndpointOf(job[w])
    => v = w

\* An endpoint is served one delivery at a time, by its rows and by those who
\* work on them (ClaimDelivery).
OneAtATime == OneLeasePerEndpoint /\ OneSenderPerEndpoint

\* A delivery that waits for another try has tries left in its current
\* cycle, whatever crashes, lost claims and replays came before
\* (effectiveAttempts in DispatchOne and ReplayDelivery).
PendingHasTriesLeft ==
  \A d \in Deliveries :
    status[d] = "PENDING" =>
      /\ cycleStart[d] <= attempts[d]
      /\ attempts[d] - cycleStart[d] < MaxRetries

\* With one worker whose dispatch ends within its lease, an endpoint that
\* keeps failing sees MaxRetries tries in a cycle and one more for each crash
\* or failed store call: ClaimDelivery counts the tries a crash swallowed.
TriesBounded ==
  \A d \in Deliveries : attempts[d] - cycleStart[d] <= MaxRetries + faults

\* Every claim gets an attempt number of its own, so the history insert of
\* RecordAttempt never hits UNIQUE(delivery_id, attempt_number), even for a
\* worker whose lease ran out and after a replay.
AttemptNumberFresh ==
  \A w \in Workers : pc[w] = "answered" => tryNumber[w] \notin logged[job[w]]

\* A delivery is dead-lettered only by the worker that holds its claim and
\* only for a reason DispatchOne has: no target, a terminal answer, or
\* MaxRetries tries in this cycle.
DeadLetterHasCause ==
  [][\A d \in Deliveries :
       status[d] # "DEAD_LETTER" /\ status'[d] = "DEAD_LETTER" =>
         \E w \in Workers :
           /\ claimedBy[d] = w /\ job[w] = d
           /\ \/ pc[w] = "claimed"
              \/ outcome[w] = "TERMINAL_FAILURE"
              \/ attempts[d] - cycleStart[d] >= MaxRetries]_vars

\* The table and the dispatcher together keep the promise of Outbox: what
\* is called delivered was accepted, and stays delivered.
PromiseOf(rowStatus) ==
  CASE rowStatus = "NONE" -> "none"
    [] rowStatus \in {"PENDING", "IN_FLIGHT"} -> "owed"
    [] rowStatus = "DELIVERED" -> "kept"
    [] rowStatus = "DEAD_LETTER" -> "broken"

OutboxView == [d \in Deliveries |-> PromiseOf(status[d])]

Abstract == INSTANCE Outbox WITH promise <- OutboxView

ImplementsOutbox == Abstract!Spec

Settled(d) == status[d] \in {"DELIVERED", "DEAD_LETTER"}

\* Nothing that was committed is left behind: if its endpoint stays enabled,
\* a delivery is settled in the end, through crashes, leases and back-off.
EventuallySettled ==
  \A d \in Deliveries :
    <>[](endpointStatus[EndpointOf(d)] = "ACTIVE") =>
      (status[d] \in {"PENDING", "IN_FLIGHT"} ~> Settled(d))

=============================================================================
