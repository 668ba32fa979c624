----------------------------- MODULE Connection -----------------------------
(***************************************************************************)
(* The bank connection: its state and generation, the login attempts that  *)
(* renew it (internal/storage/auth_attempts.go, internal/httpapi), the     *)
(* stored session, and the poll that uses it and may find it dead          *)
(* (internal/monitor).                                                     *)
(*                                                                         *)
(* Every store call is one step: Store.withTx serialises transactions, a   *)
(* single statement is atomic, and nothing is held between two calls of a  *)
(* handler.  So requests of the two administrators' tabs, the pause and    *)
(* resume buttons, the expiry ticker and the monitor interleave freely.    *)
(* The generation column is the fence between them; the monitor's mutex    *)
(* (UpstreamGate) is held through a whole poll and through VerifySession.  *)
(*                                                                         *)
(* The answers of the auth-browser service are any it can give.            *)
(***************************************************************************)
EXTENDS Integers

CONSTANTS
  Handlers,     \* HTTP requests being served at once
  Attempts,     \* ids of rows of auth_attempts (bounds the logins started)
  Monitor,      \* the monitor as holder of the upstream gate
  Nobody,       \* the upstream gate is free
  NoAttempt,
  MaxActions,   \* bound: pauses and resumes
  MaxRestarts   \* bound: crashes of the gateway

ASSUME ConnectionAssumption ==
  /\ NoAttempt \notin Attempts
  /\ Monitor \notin Handlers /\ Nobody \notin Handlers /\ Monitor # Nobody
  /\ MaxActions \in Nat /\ MaxRestarts \in Nat

VARIABLES
  state,           \* connections.state
  generation,      \* connections.generation
  sessionGen,      \* sessions.generation, 0: no row yet
  sessionCookies,  \* the attempt generation whose login made sessions.envelope
  attemptStatus,   \* auth_attempts.status, "NONE" before the row exists
  attemptGen,      \* auth_attempts.generation
  lapsed,          \* attempts whose expires_at has passed
  hpc,             \* where each request is
  hAttempt,        \* the attempt it works on
  hGen, hState,    \* the connection it read in StartAuthAttempt
  hFinal,          \* the status it will finish the attempt with
  hNext,           \* where it goes on after FinishAuthAttempt
  gate,            \* Monitor.mu
  mpc,             \* where the poll is
  mKind,           \* pollOnce or pollKeepalive
  mGen,            \* conn.Generation it read first
  mPoll,           \* poll.Generation, which StartPoll read again
  loaded,          \* SessionLoader.loadedGeneration, 0: nothing loaded
  cookies,         \* the login whose cookies the bank client holds
  actions, restarts

connVars    == <<state, generation>>
sessionVars == <<sessionGen, sessionCookies>>
attemptVars == <<attemptStatus, attemptGen>>
handlerVars == <<hpc, hAttempt, hGen, hState, hFinal, hNext>>
monitorVars == <<mpc, mKind, mGen, mPoll, loaded, cookies>>
counters    == <<actions, restarts>>
vars == <<connVars, sessionVars, attemptVars, lapsed, handlerVars, gate, monitorVars, counters>>

States     == {"AUTH_REQUIRED", "AUTH_STARTING", "MONITORING", "PAUSED"}
Closing    == {"CANCELLED", "EXPIRED", "FAILED"}
Open       == {"STARTING", "IN_PROGRESS"}
AttemptStatuses == {"NONE", "VERIFIED"} \cup Open \cup Closing
BrowserStatuses == {"WAITING", "VERIFIED"} \cup Closing
Stages == {"idle", "find", "expire", "read", "check", "insert", "launch", "mark",
           "compare", "recheck", "verify", "verifying", "complete", "finish"}
PollStages == {"idle", "read", "skip", "restore", "start", "bank", "lost", "ok", "persist"}

TypeOK ==
  /\ state \in States
  /\ generation \in Nat
  /\ sessionGen \in Nat /\ sessionCookies \in Nat
  /\ attemptStatus \in [Attempts -> AttemptStatuses]
  /\ attemptGen \in [Attempts -> Nat]
  /\ lapsed \in SUBSET Attempts
  /\ hpc \in [Handlers -> Stages]
  /\ hAttempt \in [Handlers -> Attempts \cup {NoAttempt}]
  /\ hGen \in [Handlers -> Nat]
  /\ hState \in [Handlers -> States]
  /\ hFinal \in [Handlers -> {"WAITING", "VERIFIED"} \cup Closing]
  /\ hNext \in [Handlers -> {"idle", "expire"}]
  /\ gate \in Handlers \cup {Monitor, Nobody}
  /\ mpc \in PollStages
  /\ mKind \in {"poll", "keepalive"}
  /\ mGen \in Nat /\ mPoll \in Nat /\ loaded \in Nat /\ cookies \in Nat
  /\ actions \in Nat /\ restarts \in Nat

\* ConfigureConnection has just created the row.
Init ==
  /\ state = "AUTH_REQUIRED"
  /\ generation = 0
  /\ sessionGen = 0 /\ sessionCookies = 0
  /\ attemptStatus = [a \in Attempts |-> "NONE"]
  /\ attemptGen = [a \in Attempts |-> 0]
  /\ lapsed = {}
  /\ hpc = [h \in Handlers |-> "idle"]
  /\ hAttempt = [h \in Handlers |-> NoAttempt]
  /\ hGen = [h \in Handlers |-> 0]
  /\ hState = [h \in Handlers |-> "AUTH_REQUIRED"]
  /\ hFinal = [h \in Handlers |-> "WAITING"]
  /\ hNext = [h \in Handlers |-> "idle"]
  /\ gate = Nobody
  /\ mpc = "idle" /\ mKind = "poll" /\ mGen = 0 /\ mPoll = 0 /\ loaded = 0 /\ cookies = 0
  /\ actions = 0 /\ restarts = 0

-----------------------------------------------------------------------------
(* The store                                                               *)

IsOpen(a) == attemptStatus[a] \in Open
Current(a) == attemptGen[a] = generation

\* HasActiveAuthAttempt.
HasActive == \E a \in Attempts : IsOpen(a) /\ a \notin lapsed

(* The operators named Faulty... are slips the runs are known to notice;   *)
(* no specification uses them.                                             *)

\* Expires the attempt and leaves the connection starting.
FaultyExpireStaleAuthAttempts ==
  /\ attemptStatus' = [a \in Attempts |->
                         IF IsOpen(a) /\ a \in lapsed THEN "EXPIRED" ELSE attemptStatus[a]]
  /\ UNCHANGED <<connVars, attemptGen>>

\* One transaction; the UPDATE of connections hits if an expired attempt is
\* the one the connection is starting with.
ExpireStaleAuthAttempts ==
  LET stale == {a \in Attempts : IsOpen(a) /\ a \in lapsed}
      reset == state = "AUTH_STARTING" /\ \E a \in stale : Current(a)
  IN  /\ attemptStatus' = [a \in Attempts |-> IF a \in stale THEN "EXPIRED" ELSE attemptStatus[a]]
      /\ state' = IF reset THEN "AUTH_REQUIRED" ELSE state
      /\ generation' = IF reset THEN generation + 1 ELSE generation
      /\ UNCHANGED attemptGen

\* Closes the attempt and leaves the connection starting.
FaultyFinishAuthAttempt(a, final) ==
  /\ attemptStatus' = [attemptStatus EXCEPT
                         ![a] = IF IsOpen(a) /\ final \in Closing THEN final ELSE @]
  /\ UNCHANGED <<connVars, attemptGen>>

\* One transaction.  It returns an error and changes nothing when the attempt
\* is no longer open or the status is not a closing one.  The UPDATE of
\* connections looks at the generation only.
FinishAuthAttempt(a, final) ==
  IF IsOpen(a) /\ final \in Closing
  THEN /\ attemptStatus' = [attemptStatus EXCEPT ![a] = final]
       /\ state' = IF Current(a) THEN "AUTH_REQUIRED" ELSE state
       /\ generation' = IF Current(a) THEN generation + 1 ELSE generation
       /\ UNCHANGED attemptGen
  ELSE UNCHANGED <<connVars, attemptVars>>

-----------------------------------------------------------------------------
(* Requests                                                                *)

Go(h, stage) == hpc' = [hpc EXCEPT ![h] = stage]

\* What the request read so far is not used after this stage.
Forget(h, stage) ==
  /\ Go(h, stage)
  /\ hAttempt' = [hAttempt EXCEPT ![h] = NoAttempt]
  /\ hGen' = [hGen EXCEPT ![h] = 0]
  /\ hState' = [hState EXCEPT ![h] = "AUTH_REQUIRED"]
  /\ hFinal' = [hFinal EXCEPT ![h] = "WAITING"]
  /\ hNext' = [hNext EXCEPT ![h] = "idle"]

\* The handler returns.
Done(h) == Forget(h, "idle")

\* The request will finish an attempt and go on at hNext.
CloseAttempt(h, a, final) ==
  /\ Go(h, "finish")
  /\ hAttempt' = [hAttempt EXCEPT ![h] = a]
  /\ hFinal' = [hFinal EXCEPT ![h] = final]
  /\ UNCHANGED <<hGen, hState, hNext>>

Close(h, final) == CloseAttempt(h, hAttempt[h], final)

Step(h, stage) == Go(h, stage) /\ UNCHANGED <<hAttempt, hGen, hState, hFinal, hNext>>

tables == <<connVars, sessionVars, attemptVars, lapsed>>
others == <<sessionVars, lapsed, gate, monitorVars, counters>>

\* startAuth and currentAuth sweep first.  What startAuth does once the
\* attempt it found is finished is kept in hNext.
BeginStartOrCurrent(h, next) ==
  /\ hpc[h] = "idle"
  /\ ExpireStaleAuthAttempts
  /\ Go(h, "find")
  /\ hNext' = [hNext EXCEPT ![h] = next]
  /\ UNCHANGED <<others, hAttempt, hGen, hState, hFinal>>

\* ActiveAuthAttemptForOwner, then browser.Status.  An open attempt may be
\* another owner's.  A browser that lives or cannot be asked answers the
\* request; a terminal status or a 404 finishes the attempt, VERIFIED being no
\* closing status.
FindActive(h) ==
  /\ hpc[h] = "find"
  /\ \/ \E a \in Attempts, final \in Closing \cup {"VERIFIED"} :
          /\ IsOpen(a) /\ a \notin lapsed
          /\ CloseAttempt(h, a, final)
     \/ (\E a \in Attempts : IsOpen(a) /\ a \notin lapsed) /\ Done(h)
     \/ Forget(h, hNext[h])
  /\ UNCHANGED <<tables, gate, monitorVars, counters>>

Finish(h) ==
  /\ hpc[h] = "finish"
  /\ FinishAuthAttempt(hAttempt[h], hFinal[h])
  /\ Forget(h, hNext[h])
  /\ UNCHANGED others

\* StartAuthAttempt, four calls: sweep, read, check, insert.
ExpireFirst(h) ==
  /\ hpc[h] = "expire"
  /\ ExpireStaleAuthAttempts
  /\ Step(h, "read")
  /\ UNCHANGED others

ReadConnection(h) ==
  /\ hpc[h] = "read"
  /\ Go(h, "check")
  /\ hGen' = [hGen EXCEPT ![h] = generation]
  /\ hState' = [hState EXCEPT ![h] = state]
  /\ UNCHANGED <<tables, gate, monitorVars, counters, hAttempt, hFinal, hNext>>

CheckActive(h) ==
  /\ hpc[h] = "check"
  /\ IF HasActive THEN Done(h) ELSE Step(h, "insert")
  /\ UNCHANGED <<tables, gate, monitorVars, counters>>

\* No generation fence.
FaultyInsertAttempt(h, a) ==
  /\ hpc[h] = "insert"
  /\ attemptStatus[a] = "NONE" /\ \A b \in Attempts : ~IsOpen(b)
  /\ state' = "AUTH_STARTING"
  /\ generation' = generation + 1
  /\ attemptStatus' = [attemptStatus EXCEPT ![a] = "STARTING"]
  /\ attemptGen' = [attemptGen EXCEPT ![a] = generation + 1]
  /\ Forget(h, "idle")
  /\ UNCHANGED others

\* The transaction is rolled back when the generation has moved or another
\* open row exists (index one_active_auth_attempt, expired or not).
InsertAttempt(h, a) ==
  /\ hpc[h] = "insert"
  /\ attemptStatus[a] = "NONE"
  /\ IF generation = hGen[h] /\ \A b \in Attempts : ~IsOpen(b)
     THEN /\ state' = "AUTH_STARTING"
          /\ generation' = hGen[h] + 1
          /\ attemptStatus' = [attemptStatus EXCEPT ![a] = "STARTING"]
          /\ attemptGen' = [attemptGen EXCEPT ![a] = hGen[h] + 1]
          /\ Go(h, "launch")
          /\ hAttempt' = [hAttempt EXCEPT ![h] = a]
          /\ hGen' = [hGen EXCEPT ![h] = 0]
          /\ hState' = [hState EXCEPT ![h] = "AUTH_REQUIRED"]
          /\ UNCHANGED <<hFinal, hNext>>
     ELSE Done(h) /\ UNCHANGED <<connVars, attemptVars>>
  /\ UNCHANGED others

\* browser.Start.
Launch(h) ==
  /\ hpc[h] = "launch"
  /\ Step(h, "mark") \/ Close(h, "FAILED")
  /\ UNCHANGED <<tables, gate, monitorVars, counters>>

\* Writes a status that nothing but the SQL lists knows.
FaultyMarkInProgress(h) ==
  /\ hpc[h] = "mark"
  /\ attemptStatus' = [attemptStatus EXCEPT ![hAttempt[h]] = "VERIFYING"]
  /\ Done(h)
  /\ UNCHANGED <<connVars, attemptGen, others>>

MarkInProgress(h) ==
  /\ hpc[h] = "mark"
  /\ IF /\ attemptStatus[hAttempt[h]] = "STARTING"
        /\ state = "AUTH_STARTING" /\ Current(hAttempt[h])
     THEN attemptStatus' = [attemptStatus EXCEPT ![hAttempt[h]] = "IN_PROGRESS"] /\ Done(h)
     ELSE Close(h, "FAILED") /\ UNCHANGED attemptStatus
  /\ UNCHANGED <<connVars, attemptGen, others>>

\* cancelAuth reads the attempt, stops the browser, finishes the attempt;
\* a browser service that does not answer ends the request.
BeginCancel(h, a) ==
  /\ hpc[h] = "idle"
  /\ IsOpen(a)
  /\ CloseAttempt(h, a, "CANCELLED")
  /\ UNCHANGED <<tables, gate, monitorVars, counters>>

\* authStatus of an attempt that is still open when it is read.
BeginStatus(h, a) ==
  /\ hpc[h] = "idle"
  /\ IsOpen(a)
  /\ \/ a \in lapsed /\ CloseAttempt(h, a, "EXPIRED")
     \/ /\ a \notin lapsed
        /\ Go(h, "compare")
        /\ hAttempt' = [hAttempt EXCEPT ![h] = a]
        /\ UNCHANGED <<hGen, hState, hFinal, hNext>>
  /\ UNCHANGED <<tables, gate, monitorVars, counters>>

\* An attempt of an older generation fails.  Otherwise browser.Status answers:
\* a 404 fails the attempt, another error ends the request.
CompareGeneration(h) ==
  /\ hpc[h] = "compare"
  /\ \/ Close(h, "FAILED")
     \/ Current(hAttempt[h]) /\ Done(h)
     \/ /\ Current(hAttempt[h])
        /\ \E answer \in BrowserStatuses :
             /\ Go(h, "recheck")
             /\ hFinal' = [hFinal EXCEPT ![h] = answer]
             /\ UNCHANGED <<hAttempt, hGen, hState, hNext>>
  /\ UNCHANGED <<tables, gate, monitorVars, counters>>

\* browser.Handoff returned the cookies.
Handoff(h) ==
  /\ Go(h, "verify")
  /\ hFinal' = [hFinal EXCEPT ![h] = "WAITING"]
  /\ UNCHANGED <<hAttempt, hGen, hState, hNext>>

\* The generation is compared a second time; a verified login is handed off.
Recheck(h) ==
  /\ hpc[h] = "recheck"
  /\ \/ ~Current(hAttempt[h]) /\ Close(h, "FAILED")
     \/ /\ Current(hAttempt[h])
        /\ \/ hFinal[h] \in Closing /\ Close(h, hFinal[h])
           \/ hFinal[h] = "VERIFIED" /\ (Handoff(h) \/ Done(h))
           \/ hFinal[h] = "WAITING" /\ Done(h)
  /\ UNCHANGED <<tables, gate, monitorVars, counters>>

\* A verifier without the monitor's mutex.
FaultyLockVerifier(h) ==
  /\ hpc[h] = "verify"
  /\ Step(h, "complete")
  /\ UNCHANGED <<tables, gate, monitorVars, counters>>

\* VerifySession waits for the upstream gate and tries the cookies in a bank
\* client of its own.
LockVerifier(h) ==
  /\ hpc[h] = "verify"
  /\ gate = Nobody
  /\ gate' = h
  /\ Step(h, "verifying")
  /\ UNCHANGED <<tables, monitorVars, counters>>

VerifySession(h) ==
  /\ hpc[h] = "verifying"
  /\ gate' = Nobody
  /\ Step(h, "complete") \/ Done(h)
  /\ UNCHANGED <<tables, monitorVars, counters>>

\* Activates whatever generation the connection has.
FaultyCompleteAuthSession(h) ==
  /\ hpc[h] = "complete"
  /\ IsOpen(hAttempt[h])
  /\ attemptStatus' = [attemptStatus EXCEPT ![hAttempt[h]] = "VERIFIED"]
  /\ sessionGen' = attemptGen[hAttempt[h]]
  /\ sessionCookies' = attemptGen[hAttempt[h]]
  /\ state' = "MONITORING"
  /\ Done(h)
  /\ UNCHANGED <<generation, attemptGen, lapsed, gate, monitorVars, counters>>

\* One transaction: the attempt, the session row and the connection together,
\* or none of them and the attempt is failed.
CompleteAuthSession(h) ==
  LET a == hAttempt[h] IN
  /\ hpc[h] = "complete"
  /\ IF IsOpen(a) /\ Current(a) /\ state = "AUTH_STARTING"
     THEN /\ attemptStatus' = [attemptStatus EXCEPT ![a] = "VERIFIED"]
          /\ sessionGen' = attemptGen[a]
          /\ sessionCookies' = attemptGen[a]
          /\ state' = "MONITORING"
          /\ Done(h)
     ELSE /\ Close(h, "FAILED")
          /\ UNCHANGED <<attemptStatus, sessionVars, state>>
  /\ UNCHANGED <<generation, attemptGen, lapsed, gate, monitorVars, counters>>

\* The client goes away or a store call fails: the handler returns and its
\* deferred unlock frees the gate.
Abandon(h) ==
  /\ hpc[h] # "idle"
  /\ Done(h)
  /\ gate' = IF gate = h THEN Nobody ELSE gate
  /\ UNCHANGED <<tables, monitorVars, counters>>

Request(h) ==
  \/ \E next \in {"idle", "expire"} : BeginStartOrCurrent(h, next)
  \/ FindActive(h) \/ Finish(h)
  \/ ExpireFirst(h) \/ ReadConnection(h) \/ CheckActive(h)
  \/ \E a \in Attempts : InsertAttempt(h, a) \/ BeginCancel(h, a) \/ BeginStatus(h, a)
  \/ Launch(h) \/ MarkInProgress(h) \/ CompareGeneration(h) \/ Recheck(h)
  \/ LockVerifier(h) \/ VerifySession(h) \/ CompleteAuthSession(h)
  \/ Abandon(h)

-----------------------------------------------------------------------------
(* The monitor                                                             *)

Poll(from, to) == mpc = from /\ mpc' = to

\* Any return of pollOnce or pollKeepalive; the deferred unlock comes with it.
EndPoll ==
  /\ mpc' = "idle"
  /\ gate' = Nobody
  /\ mKind' = "poll" /\ mGen' = 0 /\ mPoll' = 0

tablesAndRequests == <<tables, handlerVars, counters>>

LockMonitor(kind) ==
  /\ gate = Nobody
  /\ gate' = Monitor
  /\ Poll("idle", "read")
  /\ mKind' = kind
  /\ UNCHANGED <<tablesAndRequests, mGen, mPoll, loaded, cookies>>

\* Only a monitored connection is polled; only pollOnce asks for open logins.
PollRead ==
  /\ mpc = "read"
  /\ IF state = "MONITORING"
     THEN /\ mpc' = IF mKind = "poll" THEN "skip" ELSE "restore"
          /\ mGen' = generation
          /\ UNCHANGED <<gate, mKind, mPoll>>
     ELSE EndPoll
  /\ UNCHANGED <<tablesAndRequests, loaded, cookies>>

PollSkip ==
  /\ mpc = "skip"
  /\ IF HasActive
     THEN EndPoll
     ELSE mpc' = "restore" /\ UNCHANGED <<gate, mKind, mGen, mPoll>>
  /\ UNCHANGED <<tablesAndRequests, loaded, cookies>>

\* SessionLoader.Restore: the session row of exactly this generation, unless
\* it is loaded already; a row that cannot be read ends the poll.
PollRestore ==
  /\ mpc = "restore"
  /\ \/ /\ loaded = mGen
        /\ mpc' = "start"
        /\ UNCHANGED <<gate, mKind, mGen, mPoll, loaded, cookies>>
     \/ /\ loaded # mGen /\ sessionGen = mGen
        /\ mpc' = "start"
        /\ loaded' = mGen /\ cookies' = sessionCookies
        /\ UNCHANGED <<gate, mKind, mGen, mPoll>>
     \/ loaded # mGen /\ EndPoll /\ UNCHANGED <<loaded, cookies>>
  /\ UNCHANGED tablesAndRequests

\* StartPoll reads the connection again.
StartPoll ==
  /\ mpc = "start"
  /\ IF state = "MONITORING"
     THEN mpc' = "bank" /\ mPoll' = generation /\ UNCHANGED <<gate, mKind, mGen>>
     ELSE EndPoll
  /\ UNCHANGED <<tablesAndRequests, loaded, cookies>>

\* The bank answers, and pollOnce ingests.  FAILED and PARTIAL only finish the
\* poll row; after PARTIAL pollOnce goes on to persist the session.
BankAnswers ==
  /\ mpc = "bank"
  /\ \/ mpc' \in {"lost", "ok"} /\ UNCHANGED <<gate, mKind, mGen, mPoll>>
     \/ mKind = "poll" /\ mpc' = "persist" /\ UNCHANGED <<gate, mKind, mGen, mPoll>>
     \/ EndPoll
  /\ UNCHANGED <<tablesAndRequests, loaded, cookies>>

\* FinishPoll with AUTH_REQUIRED; rolled back if the generation has moved.
FinishPollLost ==
  /\ mpc = "lost"
  /\ IF mPoll = generation
     THEN state' = "AUTH_REQUIRED" /\ generation' = generation + 1
     ELSE UNCHANGED connVars
  /\ EndPoll
  /\ UNCHANGED <<sessionVars, attemptVars, lapsed, handlerVars, counters, loaded, cookies>>

\* FinishPoll with SUCCEEDED; pollOnce persists the session only after it
\* succeeded, pollKeepalive has persisted it before.
FinishPollSucceeded ==
  /\ mpc = "ok" /\ mKind = "poll"
  /\ IF state = "MONITORING" /\ mPoll = generation
     THEN mpc' = "persist" /\ UNCHANGED <<gate, mKind, mGen, mPoll>>
     ELSE EndPoll
  /\ UNCHANGED <<tablesAndRequests, loaded, cookies>>

\* SessionLoader.Persist: RefreshSession writes the client's cookies back.
PersistSession ==
  /\ \/ mpc = "persist"
     \/ mpc = "ok" /\ mKind = "keepalive"
  /\ sessionCookies' = IF sessionGen = mGen /\ generation = mGen /\ state = "MONITORING"
                       THEN cookies ELSE sessionCookies
  /\ EndPoll
  /\ UNCHANGED <<connVars, sessionGen, attemptVars, lapsed, handlerVars, counters, loaded, cookies>>

MonitorStep ==
  \/ \E kind \in {"poll", "keepalive"} : LockMonitor(kind)
  \/ PollRead \/ PollSkip \/ PollRestore \/ StartPoll
  \/ BankAnswers \/ FinishPollLost \/ FinishPollSucceeded \/ PersistSession

-----------------------------------------------------------------------------

\* TransitionConnection: pause and resume, whatever the state.
TransitionConnection(next) ==
  /\ actions < MaxActions
  /\ state' = next
  /\ generation' = generation + 1
  /\ actions' = actions + 1
  /\ UNCHANGED <<sessionVars, attemptVars, lapsed, handlerVars, gate, monitorVars, restarts>>

\* The clock passes expires_at, which only matters for an open attempt.
Lapse(a) ==
  /\ IsOpen(a) /\ a \notin lapsed
  /\ lapsed' = lapsed \cup {a}
  /\ UNCHANGED <<connVars, sessionVars, attemptVars, handlerVars, gate, monitorVars, counters>>

\* The 30-second ticker of cmd/gateway.
Sweep ==
  /\ ExpireStaleAuthAttempts
  /\ UNCHANGED <<sessionVars, lapsed, handlerVars, gate, monitorVars, counters>>

\* The process stops; on its next start it sweeps before it serves.
Restart ==
  /\ restarts < MaxRestarts
  /\ restarts' = restarts + 1
  /\ ExpireStaleAuthAttempts
  /\ hpc' = [h \in Handlers |-> "idle"]
  /\ hAttempt' = [h \in Handlers |-> NoAttempt]
  /\ hGen' = [h \in Handlers |-> 0]
  /\ hState' = [h \in Handlers |-> "AUTH_REQUIRED"]
  /\ hFinal' = [h \in Handlers |-> "WAITING"]
  /\ hNext' = [h \in Handlers |-> "idle"]
  /\ EndPoll
  /\ loaded' = 0 /\ cookies' = 0
  /\ UNCHANGED <<sessionVars, lapsed, actions>>

Next ==
  \/ \E h \in Handlers : Request(h)
  \/ MonitorStep
  \/ \E next \in {"PAUSED", "AUTH_REQUIRED"} : TransitionConnection(next)
  \/ \E a \in Attempts : Lapse(a)
  \/ Sweep
  \/ Restart

Spec == Init /\ [][Next]_vars

\* The clock runs and the ticker fires.  Requests and polls are under no
\* obligation: a client may stall, and the monitor may wait ten minutes.
FairSpec == Spec /\ WF_vars(Sweep) /\ \A a \in Attempts : WF_vars(Lapse(a))

-----------------------------------------------------------------------------
(* Properties                                                              *)

\* A connection is starting exactly when the one open attempt of its
\* generation exists: nothing strands it in AUTH_STARTING, and an attempt that
\* still owns the generation never belongs to a paused or monitored connection
\* (FinishAuthAttempt resets the connection without looking at its state).
StartingHasAttempt ==
  /\ state = "AUTH_STARTING" <=> \E a \in Attempts : IsOpen(a) /\ Current(a)
  /\ \A a, b \in Attempts : IsOpen(a) /\ IsOpen(b) => a = b

\* A monitored connection has a session of its generation, made by the login
\* of that generation, and no login is open beside it (CompleteAuthSession,
\* RefreshSession; the check for open logins in pollOnce).
MonitoringHasSession ==
  state = "MONITORING" =>
    /\ sessionGen = generation
    /\ sessionCookies = generation
    /\ \A a \in Attempts : ~IsOpen(a)

\* A poll row carries the generation of the cookies it polls with, although
\* StartPoll reads the connection a second time: the gate keeps a new login
\* from being verified, hence completed, between the two reads.  Otherwise the
\* verdict on the old cookies would end the new session.
PollOwnsSession ==
  mpc \in {"bank", "lost", "ok", "persist"} => mPoll = cookies /\ loaded = cookies

\* Nobody but the poll that lost it, and nobody but an administrator, ends a
\* monitored session; and a paused connection stays paused until a resume, or
\* until a login whose request saw the pause (TransitionConnection and the
\* generation fence of StartAuthAttempt).
PauseHolds ==
  [][/\ state = "PAUSED" /\ state' # "PAUSED" =>
          \/ actions' > actions
          \/ \E h \in Handlers : hpc[h] = "insert" /\ hState[h] = "PAUSED"
     /\ state = "MONITORING" /\ state' = "AUTH_REQUIRED" =>
          \/ actions' > actions
          \/ mpc = "lost" /\ cookies = generation]_vars

\* The connection keeps the promise of Session to the monitor: from the moment
\* a poll has read the connection until it ends, no login is completed, and
\* each login begins a session of its own.  So what the poll finds out is about
\* the session it read (VerifySession and pollOnce share Monitor.mu, and the
\* generation fences the attempt that was verified before).
PolledSessions == IF mpc \in {"idle", "read"} THEN {} ELSE {mGen}

Abstract == INSTANCE Session
  WITH monitored <- state = "MONITORING", era <- sessionGen, polled <- PolledSessions

ImplementsSession == Abstract!Spec

\* A login that stalls blocks nobody for ever: whatever its tab, its browser
\* and the gateway do, the connection leaves AUTH_STARTING.
StartingEnds == state = "AUTH_STARTING" ~> state # "AUTH_STARTING"

=============================================================================
