-------------------------- MODULE ConnectionProofs --------------------------
(***************************************************************************)
(* Proofs about Connection for any number of requests and login attempts,  *)
(* and without the bounds on pauses and restarts.                          *)
(***************************************************************************)
EXTENDS Connection, TLAPS

-----------------------------------------------------------------------------
(* The inductive invariant                                                 *)

\* Requests that work on an attempt, and polls that have read the connection.
Working == {"launch", "mark", "compare", "recheck", "verify", "verifying", "complete", "finish"}
PastRead == PollStages \ {"idle", "read"}

\* No attempt is ahead of the connection, and no session row is.
Behind ==
  /\ \A a \in Attempts : attemptStatus[a] # "NONE" => attemptGen[a] <= generation
  /\ sessionCookies = sessionGen /\ sessionGen <= generation

\* A request works on an attempt that exists; one about to insert knows the
\* connection of its generation, as far as pauses go.
RequestsKnow ==
  \A h \in Handlers :
    /\ hpc[h] \in Working => hAttempt[h] \in Attempts /\ attemptStatus[hAttempt[h]] # "NONE"
    /\ hpc[h] \in {"check", "insert"} =>
         /\ hGen[h] <= generation
         /\ hGen[h] = generation /\ state = "PAUSED" => hState[h] = "PAUSED"

\* The upstream gate is held by exactly those that are behind it.
GateHeld ==
  /\ mpc # "idle" => gate = Monitor
  /\ \A h \in Handlers : hpc[h] = "verifying" => gate = h

\* While a poll runs no login is verified, so the connection is either still
\* the one it read or no longer monitored.
PollFence ==
  mpc \in PastRead =>
    /\ mGen <= generation
    /\ state = "MONITORING" <=> generation = mGen
    /\ \A h \in Handlers : hpc[h] = "complete" => attemptGen[hAttempt[h]] <= mGen

\* The bank client holds the cookies of the generation that was loaded.
PollLoaded ==
  /\ cookies = loaded
  /\ mpc \in {"start", "bank", "lost", "ok", "persist"} => loaded = mGen
  /\ mpc \in {"bank", "lost", "ok", "persist"} => mPoll = mGen

IInv ==
  /\ TypeOK
  /\ Behind
  /\ StartingHasAttempt
  /\ MonitoringHasSession
  /\ RequestsKnow
  /\ GateHeld
  /\ PollFence
  /\ PollLoaded

-----------------------------------------------------------------------------
LEMMA BeginStep ==
  ASSUME IInv, NEW h \in Handlers, NEW next \in {"idle", "expire"},
         BeginStartOrCurrent(h, next)
  PROVE  IInv'
<1> USE ConnectionAssumption DEF IInv, Working, IsOpen, Current, Open, Closing,
      BeginStartOrCurrent, ExpireStaleAuthAttempts, Go, others, sessionVars, monitorVars, counters
<1>1. TypeOK'
  BY DEF TypeOK, States, AttemptStatuses, Stages
<1>2. Behind'
  BY DEF Behind, TypeOK
<1>3. StartingHasAttempt'
  BY DEF StartingHasAttempt
<1>4. MonitoringHasSession'
  BY DEF MonitoringHasSession
<1>5. RequestsKnow'
  BY DEF RequestsKnow, TypeOK
<1>6. GateHeld'
  BY DEF GateHeld
<1>7. PollFence'
  BY DEF PollFence, TypeOK
<1>8. PollLoaded'
  BY DEF PollLoaded
<1>9. QED
  BY <1>1, <1>2, <1>3, <1>4, <1>5, <1>6, <1>7, <1>8

LEMMA FindStep ==
  ASSUME IInv, NEW h \in Handlers, FindActive(h)
  PROVE  IInv'
<1> USE ConnectionAssumption DEF IInv, Working, IsOpen, Current, Open, FindActive, Go, Forget,
      Done, CloseAttempt, tables, connVars, sessionVars, attemptVars, monitorVars, counters
<1>1. TypeOK'
  BY DEF TypeOK, States, Stages
<1>2. Behind'
  BY DEF Behind
<1>3. StartingHasAttempt'
  BY DEF StartingHasAttempt
<1>4. MonitoringHasSession'
  BY DEF MonitoringHasSession
<1>5. RequestsKnow'
  BY DEF RequestsKnow, TypeOK
<1>6. GateHeld'
  BY DEF GateHeld, TypeOK
<1>7. PollFence'
  BY DEF PollFence, TypeOK
<1>8. PollLoaded'
  BY DEF PollLoaded
<1>9. QED
  BY <1>1, <1>2, <1>3, <1>4, <1>5, <1>6, <1>7, <1>8

LEMMA FinishStep ==
  ASSUME IInv, NEW h \in Handlers, Finish(h)
  PROVE  IInv'
<1> USE ConnectionAssumption DEF IInv, Working, PastRead, IsOpen, Current, Open, Closing, Finish,
      FinishAuthAttempt, Go, Forget, Done, Close, CloseAttempt, Step, tables, others, connVars,
      sessionVars, attemptVars, handlerVars, monitorVars, counters
<1>1. TypeOK'
  BY DEF TypeOK, States, AttemptStatuses, Stages
<1>2. Behind'
  BY DEF Behind, TypeOK
<1>3. StartingHasAttempt'
  BY DEF StartingHasAttempt, TypeOK, RequestsKnow
<1>4. MonitoringHasSession'
  BY DEF MonitoringHasSession, RequestsKnow
<1>5. RequestsKnow'
  BY DEF RequestsKnow, TypeOK
<1>6. GateHeld'
  BY DEF GateHeld, TypeOK
<1>7. PollFence'
  BY DEF PollFence, TypeOK
<1>8. PollLoaded'
  BY DEF PollLoaded
<1>9. QED
  BY <1>1, <1>2, <1>3, <1>4, <1>5, <1>6, <1>7, <1>8

LEMMA ExpireStep ==
  ASSUME IInv, NEW h \in Handlers, ExpireFirst(h)
  PROVE  IInv'
<1> USE ConnectionAssumption DEF IInv, Working, IsOpen, Current, Open, Closing, ExpireFirst,
      ExpireStaleAuthAttempts, Go, Step, others, sessionVars, monitorVars, counters
<1>1. TypeOK'
  BY DEF TypeOK, States, AttemptStatuses, Stages
<1>2. Behind'
  BY DEF Behind, TypeOK
<1>3. StartingHasAttempt'
  BY DEF StartingHasAttempt
<1>4. MonitoringHasSession'
  BY DEF MonitoringHasSession
<1>5. RequestsKnow'
  BY DEF RequestsKnow, TypeOK
<1>6. GateHeld'
  BY DEF GateHeld
<1>7. PollFence'
  BY DEF PollFence, TypeOK
<1>8. PollLoaded'
  BY DEF PollLoaded
<1>9. QED
  BY <1>1, <1>2, <1>3, <1>4, <1>5, <1>6, <1>7, <1>8

LEMMA ReadStep ==
  ASSUME IInv, NEW h \in Handlers, ReadConnection(h)
  PROVE  IInv'
<1> USE ConnectionAssumption DEF IInv, Working, IsOpen, Current, ReadConnection, Go, tables,
      connVars, sessionVars, attemptVars, monitorVars, counters
<1>1. TypeOK'
  BY DEF TypeOK, Stages
<1>2. Behind'
  BY DEF Behind
<1>3. StartingHasAttempt'
  BY DEF StartingHasAttempt
<1>4. MonitoringHasSession'
  BY DEF MonitoringHasSession
<1>5. RequestsKnow'
  BY DEF RequestsKnow, TypeOK
<1>6. GateHeld'
  BY DEF GateHeld
<1>7. PollFence'
  BY DEF PollFence
<1>8. PollLoaded'
  BY DEF PollLoaded
<1>9. QED
  BY <1>1, <1>2, <1>3, <1>4, <1>5, <1>6, <1>7, <1>8

LEMMA CheckStep ==
  ASSUME IInv, NEW h \in Handlers, CheckActive(h)
  PROVE  IInv'
<1> USE ConnectionAssumption DEF IInv, Working, IsOpen, Current, CheckActive, Go, Forget, Done,
      Step, tables, connVars, sessionVars, attemptVars, monitorVars, counters
<1>1. TypeOK'
  BY DEF TypeOK, States, Stages
<1>2. Behind'
  BY DEF Behind
<1>3. StartingHasAttempt'
  BY DEF StartingHasAttempt
<1>4. MonitoringHasSession'
  BY DEF MonitoringHasSession
<1>5. RequestsKnow'
  BY DEF RequestsKnow, TypeOK
<1>6. GateHeld'
  BY DEF GateHeld, TypeOK
<1>7. PollFence'
  BY DEF PollFence, TypeOK
<1>8. PollLoaded'
  BY DEF PollLoaded
<1>9. QED
  BY <1>1, <1>2, <1>3, <1>4, <1>5, <1>6, <1>7, <1>8

LEMMA InsertStep ==
  ASSUME IInv, NEW h \in Handlers, NEW a \in Attempts, InsertAttempt(h, a)
  PROVE  IInv'
<1> USE ConnectionAssumption DEF IInv, Working, IsOpen, Current, Open, InsertAttempt, Go, Forget,
      Done, others, connVars, sessionVars, attemptVars, monitorVars, counters
<1>1. TypeOK'
  BY DEF TypeOK, States, AttemptStatuses, Stages
<1>2. Behind'
  BY DEF Behind, TypeOK
<1>3. StartingHasAttempt'
  BY DEF StartingHasAttempt, TypeOK
<1>4. MonitoringHasSession'
  BY DEF MonitoringHasSession
<1>5. RequestsKnow'
  BY DEF RequestsKnow, TypeOK
<1>6. GateHeld'
  BY DEF GateHeld, TypeOK
<1>7. PollFence'
  BY DEF PollFence, TypeOK, RequestsKnow
<1>8. PollLoaded'
  BY DEF PollLoaded
<1>9. QED
  BY <1>1, <1>2, <1>3, <1>4, <1>5, <1>6, <1>7, <1>8

LEMMA CancelStep ==
  ASSUME IInv, NEW h \in Handlers, NEW a \in Attempts, BeginCancel(h, a)
  PROVE  IInv'
<1> USE ConnectionAssumption DEF IInv, IsOpen, Current, Open, Closing, BeginCancel, Go,
      CloseAttempt, tables, connVars, sessionVars, attemptVars, monitorVars, counters
<1>1. TypeOK'
  BY DEF TypeOK, Stages
<1>2. Behind'
  BY DEF Behind
<1>3. StartingHasAttempt'
  BY DEF StartingHasAttempt
<1>4. MonitoringHasSession'
  BY DEF MonitoringHasSession
<1>5. RequestsKnow'
  BY DEF RequestsKnow, TypeOK
<1>6. GateHeld'
  BY DEF GateHeld
<1>7. PollFence'
  BY DEF PollFence
<1>8. PollLoaded'
  BY DEF PollLoaded
<1>9. QED
  BY <1>1, <1>2, <1>3, <1>4, <1>5, <1>6, <1>7, <1>8

LEMMA StatusStep ==
  ASSUME IInv, NEW h \in Handlers, NEW a \in Attempts, BeginStatus(h, a)
  PROVE  IInv'
<1> USE ConnectionAssumption DEF IInv, Working, PastRead, IsOpen, Current, Open, Closing,
      BeginStatus, Go, Forget, Done, Close, CloseAttempt, Step, tables, others, connVars,
      sessionVars, attemptVars, handlerVars, monitorVars, counters
<1>1. TypeOK'
  BY DEF TypeOK, Stages
<1>2. Behind'
  BY DEF Behind
<1>3. StartingHasAttempt'
  BY DEF StartingHasAttempt
<1>4. MonitoringHasSession'
  BY DEF MonitoringHasSession
<1>5. RequestsKnow'
  BY DEF RequestsKnow, TypeOK, Behind
<1>6. GateHeld'
  BY DEF GateHeld, TypeOK
<1>7. PollFence'
  BY DEF PollFence, TypeOK
<1>8. PollLoaded'
  BY DEF PollLoaded
<1>9. QED
  BY <1>1, <1>2, <1>3, <1>4, <1>5, <1>6, <1>7, <1>8

LEMMA LaunchStep ==
  ASSUME IInv, NEW h \in Handlers, Launch(h)
  PROVE  IInv'
<1> USE ConnectionAssumption DEF IInv, Working, IsOpen, Current, Closing, Launch, Go, Close,
      CloseAttempt, Step, tables, connVars, sessionVars, attemptVars, monitorVars, counters
<1>1. TypeOK'
  BY DEF TypeOK, Stages
<1>2. Behind'
  BY DEF Behind
<1>3. StartingHasAttempt'
  BY DEF StartingHasAttempt
<1>4. MonitoringHasSession'
  BY DEF MonitoringHasSession
<1>5. RequestsKnow'
  BY DEF RequestsKnow, TypeOK
<1>6. GateHeld'
  BY DEF GateHeld, TypeOK
<1>7. PollFence'
  BY DEF PollFence, TypeOK
<1>8. PollLoaded'
  BY DEF PollLoaded
<1>9. QED
  BY <1>1, <1>2, <1>3, <1>4, <1>5, <1>6, <1>7, <1>8

LEMMA MarkStep ==
  ASSUME IInv, NEW h \in Handlers, MarkInProgress(h)
  PROVE  IInv'
<1> USE ConnectionAssumption DEF IInv, Working, IsOpen, Current, Open, Closing, MarkInProgress,
      Go, Forget, Done, Close, CloseAttempt, others, connVars, sessionVars, monitorVars, counters
<1>1. TypeOK'
  BY DEF TypeOK, States, AttemptStatuses, Stages
<1>2. Behind'
  BY DEF Behind, TypeOK
<1>3. StartingHasAttempt'
  BY DEF StartingHasAttempt, TypeOK
<1>4. MonitoringHasSession'
  BY DEF MonitoringHasSession
<1>5. RequestsKnow'
  BY DEF RequestsKnow, TypeOK
<1>6. GateHeld'
  BY DEF GateHeld, TypeOK
<1>7. PollFence'
  BY DEF PollFence, TypeOK
<1>8. PollLoaded'
  BY DEF PollLoaded
<1>9. QED
  BY <1>1, <1>2, <1>3, <1>4, <1>5, <1>6, <1>7, <1>8

LEMMA CompareStep ==
  ASSUME IInv, NEW h \in Handlers, CompareGeneration(h)
  PROVE  IInv'
<1> USE ConnectionAssumption DEF IInv, Working, PastRead, IsOpen, Current, Open, Closing,
      CompareGeneration, BrowserStatuses, Go, Forget, Done, Close, CloseAttempt, Step, tables,
      others, connVars, sessionVars, attemptVars, handlerVars, monitorVars, counters
<1>1. TypeOK'
  BY DEF TypeOK, States, Stages
<1>2. Behind'
  BY DEF Behind
<1>3. StartingHasAttempt'
  BY DEF StartingHasAttempt
<1>4. MonitoringHasSession'
  BY DEF MonitoringHasSession
<1>5. RequestsKnow'
  BY DEF RequestsKnow, TypeOK
<1>6. GateHeld'
  BY DEF GateHeld, TypeOK
<1>7. PollFence'
  BY DEF PollFence, TypeOK
<1>8. PollLoaded'
  BY DEF PollLoaded
<1>9. QED
  BY <1>1, <1>2, <1>3, <1>4, <1>5, <1>6, <1>7, <1>8

LEMMA RecheckStep ==
  ASSUME IInv, NEW h \in Handlers, Recheck(h)
  PROVE  IInv'
<1> USE ConnectionAssumption DEF IInv, Working, PastRead, IsOpen, Current, Open, Closing,
      Recheck, Handoff, Go, Forget, Done, Close, CloseAttempt, Step, tables, others, connVars,
      sessionVars, attemptVars, handlerVars, monitorVars, counters
<1>1. TypeOK'
  BY DEF TypeOK, States, Stages
<1>2. Behind'
  BY DEF Behind
<1>3. StartingHasAttempt'
  BY DEF StartingHasAttempt
<1>4. MonitoringHasSession'
  BY DEF MonitoringHasSession
<1>5. RequestsKnow'
  BY DEF RequestsKnow, TypeOK, Behind
<1>6. GateHeld'
  BY DEF GateHeld, TypeOK
<1>7. PollFence'
  BY DEF PollFence, TypeOK
<1>8. PollLoaded'
  BY DEF PollLoaded
<1>9. QED
  BY <1>1, <1>2, <1>3, <1>4, <1>5, <1>6, <1>7, <1>8

LEMMA LockStep ==
  ASSUME IInv, NEW h \in Handlers, LockVerifier(h)
  PROVE  IInv'
<1> USE ConnectionAssumption DEF IInv, Working, IsOpen, Current, LockVerifier, Go, Step, tables,
      connVars, sessionVars, attemptVars, monitorVars, counters
<1>1. TypeOK'
  BY DEF TypeOK, Stages
<1>2. Behind'
  BY DEF Behind
<1>3. StartingHasAttempt'
  BY DEF StartingHasAttempt
<1>4. MonitoringHasSession'
  BY DEF MonitoringHasSession
<1>5. RequestsKnow'
  BY DEF RequestsKnow
<1>6. GateHeld'
  BY DEF GateHeld
<1>7. PollFence'
  BY DEF PollFence
<1>8. PollLoaded'
  BY DEF PollLoaded
<1>9. QED
  BY <1>1, <1>2, <1>3, <1>4, <1>5, <1>6, <1>7, <1>8

LEMMA VerifyStep ==
  ASSUME IInv, NEW h \in Handlers, VerifySession(h)
  PROVE  IInv'
<1> USE ConnectionAssumption DEF IInv, Working, PastRead, IsOpen, Current, VerifySession, Go,
      Forget, Done, Step, tables, connVars, sessionVars, attemptVars, monitorVars, counters
<1>1. TypeOK'
  BY DEF TypeOK, States, Stages
<1>2. Behind'
  BY DEF Behind
<1>3. StartingHasAttempt'
  BY DEF StartingHasAttempt
<1>4. MonitoringHasSession'
  BY DEF MonitoringHasSession
<1>5. RequestsKnow'
  BY DEF RequestsKnow, TypeOK
<1>6. GateHeld'
  BY DEF GateHeld, TypeOK
<1>7. PollFence'
  BY DEF PollFence, GateHeld
<1>8. PollLoaded'
  BY DEF PollLoaded
<1>9. QED
  BY <1>1, <1>2, <1>3, <1>4, <1>5, <1>6, <1>7, <1>8

LEMMA CompleteStep ==
  ASSUME IInv, NEW h \in Handlers, CompleteAuthSession(h)
  PROVE  IInv'
<1> USE ConnectionAssumption DEF IInv, Working, IsOpen, Current, Open, Closing,
      CompleteAuthSession, Go, Forget, Done, Close, CloseAttempt, sessionVars, monitorVars, counters
<1>1. TypeOK'
  BY DEF TypeOK, States, AttemptStatuses, Stages
<1>2. Behind'
  BY DEF Behind, TypeOK
<1>3. StartingHasAttempt'
  BY DEF StartingHasAttempt, TypeOK, RequestsKnow
<1>4. MonitoringHasSession'
  BY DEF MonitoringHasSession, TypeOK, StartingHasAttempt, RequestsKnow
<1>5. RequestsKnow'
  BY DEF RequestsKnow, TypeOK
<1>6. GateHeld'
  BY DEF GateHeld, TypeOK
<1>7. PollFence'
  BY DEF PollFence, TypeOK
<1>8. PollLoaded'
  BY DEF PollLoaded
<1>9. QED
  BY <1>1, <1>2, <1>3, <1>4, <1>5, <1>6, <1>7, <1>8

LEMMA AbandonStep ==
  ASSUME IInv, NEW h \in Handlers, Abandon(h)
  PROVE  IInv'
<1> USE ConnectionAssumption DEF IInv, Working, IsOpen, Current, Abandon, Go, Forget, Done,
      tables, connVars, sessionVars, attemptVars, monitorVars, counters
<1>1. TypeOK'
  BY DEF TypeOK, States, Stages
<1>2. Behind'
  BY DEF Behind
<1>3. StartingHasAttempt'
  BY DEF StartingHasAttempt
<1>4. MonitoringHasSession'
  BY DEF MonitoringHasSession
<1>5. RequestsKnow'
  BY DEF RequestsKnow, TypeOK
<1>6. GateHeld'
  BY DEF GateHeld, TypeOK
<1>7. PollFence'
  BY DEF PollFence, TypeOK
<1>8. PollLoaded'
  BY DEF PollLoaded
<1>9. QED
  BY <1>1, <1>2, <1>3, <1>4, <1>5, <1>6, <1>7, <1>8

LEMMA LockMonitorStep ==
  ASSUME IInv, NEW kind \in {"poll", "keepalive"}, LockMonitor(kind)
  PROVE  IInv'
<1> USE ConnectionAssumption DEF IInv, PastRead, IsOpen, Current, LockMonitor, tables, connVars,
      sessionVars, attemptVars, handlerVars, counters, tablesAndRequests, Poll
<1>1. TypeOK'
  BY DEF TypeOK, PollStages
<1>2. Behind'
  BY DEF Behind
<1>3. StartingHasAttempt'
  BY DEF StartingHasAttempt
<1>4. MonitoringHasSession'
  BY DEF MonitoringHasSession
<1>5. RequestsKnow'
  BY DEF RequestsKnow
<1>6. GateHeld'
  BY DEF GateHeld
<1>7. PollFence'
  BY DEF PollFence
<1>8. PollLoaded'
  BY DEF PollLoaded
<1>9. QED
  BY <1>1, <1>2, <1>3, <1>4, <1>5, <1>6, <1>7, <1>8

LEMMA PollReadStep ==
  ASSUME IInv, PollRead
  PROVE  IInv'
<1> USE ConnectionAssumption DEF IInv, Working, PastRead, IsOpen, Current, PollRead, tables,
      connVars, sessionVars, attemptVars, handlerVars, counters, tablesAndRequests, EndPoll
<1>1. TypeOK'
  BY DEF TypeOK, PollStages
<1>2. Behind'
  BY DEF Behind
<1>3. StartingHasAttempt'
  BY DEF StartingHasAttempt
<1>4. MonitoringHasSession'
  BY DEF MonitoringHasSession
<1>5. RequestsKnow'
  BY DEF RequestsKnow
<1>6. GateHeld'
  BY DEF GateHeld
<1>7. PollFence'
  BY DEF PollFence, RequestsKnow, Behind, MonitoringHasSession
<1>8. PollLoaded'
  BY DEF PollLoaded
<1>9. QED
  BY <1>1, <1>2, <1>3, <1>4, <1>5, <1>6, <1>7, <1>8

LEMMA PollSkipStep ==
  ASSUME IInv, PollSkip
  PROVE  IInv'
<1> USE ConnectionAssumption DEF IInv, PastRead, IsOpen, Current, PollSkip, tables, connVars,
      sessionVars, attemptVars, handlerVars, counters, tablesAndRequests, EndPoll
<1>1. TypeOK'
  BY DEF TypeOK, PollStages
<1>2. Behind'
  BY DEF Behind
<1>3. StartingHasAttempt'
  BY DEF StartingHasAttempt
<1>4. MonitoringHasSession'
  BY DEF MonitoringHasSession
<1>5. RequestsKnow'
  BY DEF RequestsKnow
<1>6. GateHeld'
  BY DEF GateHeld
<1>7. PollFence'
  BY DEF PollFence, PollStages
<1>8. PollLoaded'
  BY DEF PollLoaded
<1>9. QED
  BY <1>1, <1>2, <1>3, <1>4, <1>5, <1>6, <1>7, <1>8

LEMMA PollRestoreStep ==
  ASSUME IInv, PollRestore
  PROVE  IInv'
<1> USE ConnectionAssumption DEF IInv, PastRead, IsOpen, Current, PollRestore, tables, connVars,
      sessionVars, attemptVars, handlerVars, counters, tablesAndRequests, EndPoll
<1>1. TypeOK'
  BY DEF TypeOK, PollStages
<1>2. Behind'
  BY DEF Behind
<1>3. StartingHasAttempt'
  BY DEF StartingHasAttempt
<1>4. MonitoringHasSession'
  BY DEF MonitoringHasSession
<1>5. RequestsKnow'
  BY DEF RequestsKnow
<1>6. GateHeld'
  BY DEF GateHeld
<1>7. PollFence'
  BY DEF PollFence, PollStages
<1>8. PollLoaded'
  BY DEF PollLoaded, Behind
<1>9. QED
  BY <1>1, <1>2, <1>3, <1>4, <1>5, <1>6, <1>7, <1>8

LEMMA StartPollStep ==
  ASSUME IInv, StartPoll
  PROVE  IInv'
<1> USE ConnectionAssumption DEF IInv, PastRead, IsOpen, Current, StartPoll, tables, connVars,
      sessionVars, attemptVars, handlerVars, counters, tablesAndRequests, EndPoll
<1>1. TypeOK'
  BY DEF TypeOK, PollStages
<1>2. Behind'
  BY DEF Behind
<1>3. StartingHasAttempt'
  BY DEF StartingHasAttempt
<1>4. MonitoringHasSession'
  BY DEF MonitoringHasSession
<1>5. RequestsKnow'
  BY DEF RequestsKnow
<1>6. GateHeld'
  BY DEF GateHeld
<1>7. PollFence'
  BY DEF PollFence, PollStages
<1>8. PollLoaded'
  BY DEF PollLoaded, PollStages, PollFence
<1>9. QED
  BY <1>1, <1>2, <1>3, <1>4, <1>5, <1>6, <1>7, <1>8

LEMMA BankAnswersStep ==
  ASSUME IInv, BankAnswers
  PROVE  IInv'
<1> USE ConnectionAssumption DEF IInv, PastRead, IsOpen, Current, BankAnswers, tables, connVars,
      sessionVars, attemptVars, handlerVars, counters, tablesAndRequests, EndPoll
<1>1. TypeOK'
  BY DEF TypeOK, PollStages
<1>2. Behind'
  BY DEF Behind
<1>3. StartingHasAttempt'
  BY DEF StartingHasAttempt
<1>4. MonitoringHasSession'
  BY DEF MonitoringHasSession
<1>5. RequestsKnow'
  BY DEF RequestsKnow
<1>6. GateHeld'
  BY DEF GateHeld
<1>7. PollFence'
  BY DEF PollFence, PollStages
<1>8. PollLoaded'
  BY DEF PollLoaded
<1>9. QED
  BY <1>1, <1>2, <1>3, <1>4, <1>5, <1>6, <1>7, <1>8

LEMMA FinishPollLostStep ==
  ASSUME IInv, FinishPollLost
  PROVE  IInv'
<1> USE ConnectionAssumption DEF IInv, PastRead, IsOpen, Current, Open, FinishPollLost, connVars,
      sessionVars, attemptVars, handlerVars, counters, EndPoll
<1>1. TypeOK'
  BY DEF TypeOK, States, PollStages
<1>2. Behind'
  BY DEF Behind, TypeOK
<1>3. StartingHasAttempt'
  BY DEF StartingHasAttempt, TypeOK, Behind
<1>4. MonitoringHasSession'
  BY DEF MonitoringHasSession
<1>5. RequestsKnow'
  BY DEF RequestsKnow, TypeOK
<1>6. GateHeld'
  BY DEF GateHeld
<1>7. PollFence'
  BY DEF PollFence
<1>8. PollLoaded'
  BY DEF PollLoaded
<1>9. QED
  BY <1>1, <1>2, <1>3, <1>4, <1>5, <1>6, <1>7, <1>8

LEMMA FinishPollSucceededStep ==
  ASSUME IInv, FinishPollSucceeded
  PROVE  IInv'
<1> USE ConnectionAssumption DEF IInv, PastRead, IsOpen, Current, FinishPollSucceeded, tables,
      connVars, sessionVars, attemptVars, handlerVars, counters, tablesAndRequests, EndPoll
<1>1. TypeOK'
  BY DEF TypeOK, PollStages
<1>2. Behind'
  BY DEF Behind
<1>3. StartingHasAttempt'
  BY DEF StartingHasAttempt
<1>4. MonitoringHasSession'
  BY DEF MonitoringHasSession
<1>5. RequestsKnow'
  BY DEF RequestsKnow
<1>6. GateHeld'
  BY DEF GateHeld
<1>7. PollFence'
  BY DEF PollFence, PollStages
<1>8. PollLoaded'
  BY DEF PollLoaded
<1>9. QED
  BY <1>1, <1>2, <1>3, <1>4, <1>5, <1>6, <1>7, <1>8

LEMMA PersistSessionStep ==
  ASSUME IInv, PersistSession
  PROVE  IInv'
<1> USE ConnectionAssumption DEF IInv, PastRead, IsOpen, Current, PersistSession, connVars,
      attemptVars, handlerVars, counters, EndPoll
<1>1. TypeOK'
  BY DEF TypeOK, PollStages
<1>2. Behind'
  BY DEF Behind, PollLoaded
<1>3. StartingHasAttempt'
  BY DEF StartingHasAttempt
<1>4. MonitoringHasSession'
  BY DEF MonitoringHasSession, PollLoaded
<1>5. RequestsKnow'
  BY DEF RequestsKnow
<1>6. GateHeld'
  BY DEF GateHeld
<1>7. PollFence'
  BY DEF PollFence
<1>8. PollLoaded'
  BY DEF PollLoaded
<1>9. QED
  BY <1>1, <1>2, <1>3, <1>4, <1>5, <1>6, <1>7, <1>8

LEMMA TransitionStep ==
  ASSUME IInv, NEW next \in {"PAUSED", "AUTH_REQUIRED"}, TransitionConnection(next)
  PROVE  IInv'
<1> USE ConnectionAssumption DEF IInv, IsOpen, Current, Open, TransitionConnection, sessionVars,
      attemptVars, handlerVars, monitorVars
<1>1. TypeOK'
  BY DEF TypeOK, States
<1>2. Behind'
  BY DEF Behind, TypeOK
<1>3. StartingHasAttempt'
  BY DEF StartingHasAttempt, TypeOK, Behind
<1>4. MonitoringHasSession'
  BY DEF MonitoringHasSession
<1>5. RequestsKnow'
  BY DEF RequestsKnow, TypeOK
<1>6. GateHeld'
  BY DEF GateHeld
<1>7. PollFence'
  BY DEF PollFence, TypeOK
<1>8. PollLoaded'
  BY DEF PollLoaded
<1>9. QED
  BY <1>1, <1>2, <1>3, <1>4, <1>5, <1>6, <1>7, <1>8

LEMMA LapseStep ==
  ASSUME IInv, NEW a \in Attempts, Lapse(a)
  PROVE  IInv'
<1> USE ConnectionAssumption DEF IInv, IsOpen, Current, Lapse, connVars, sessionVars,
      attemptVars, handlerVars, monitorVars, counters
<1>1. TypeOK'
  BY DEF TypeOK
<1>2. Behind'
  BY DEF Behind
<1>3. StartingHasAttempt'
  BY DEF StartingHasAttempt
<1>4. MonitoringHasSession'
  BY DEF MonitoringHasSession
<1>5. RequestsKnow'
  BY DEF RequestsKnow
<1>6. GateHeld'
  BY DEF GateHeld
<1>7. PollFence'
  BY DEF PollFence
<1>8. PollLoaded'
  BY DEF PollLoaded
<1>9. QED
  BY <1>1, <1>2, <1>3, <1>4, <1>5, <1>6, <1>7, <1>8

LEMMA SweepStep ==
  ASSUME IInv, Sweep
  PROVE  IInv'
<1> USE ConnectionAssumption DEF IInv, IsOpen, Current, Open, Closing, Sweep,
      ExpireStaleAuthAttempts, sessionVars, handlerVars, monitorVars, counters
<1>1. TypeOK'
  BY DEF TypeOK, States, AttemptStatuses
<1>2. Behind'
  BY DEF Behind, TypeOK
<1>3. StartingHasAttempt'
  BY DEF StartingHasAttempt
<1>4. MonitoringHasSession'
  BY DEF MonitoringHasSession
<1>5. RequestsKnow'
  BY DEF RequestsKnow, TypeOK
<1>6. GateHeld'
  BY DEF GateHeld
<1>7. PollFence'
  BY DEF PollFence, TypeOK
<1>8. PollLoaded'
  BY DEF PollLoaded
<1>9. QED
  BY <1>1, <1>2, <1>3, <1>4, <1>5, <1>6, <1>7, <1>8

LEMMA RestartStep ==
  ASSUME IInv, Restart
  PROVE  IInv'
<1> USE ConnectionAssumption DEF IInv, Working, PastRead, IsOpen, Current, Open, Closing,
      Restart, ExpireStaleAuthAttempts, EndPoll, sessionVars
<1>1. TypeOK'
  BY DEF TypeOK, States, AttemptStatuses, Stages, PollStages
<1>2. Behind'
  BY DEF Behind, TypeOK
<1>3. StartingHasAttempt'
  BY DEF StartingHasAttempt
<1>4. MonitoringHasSession'
  BY DEF MonitoringHasSession
<1>5. RequestsKnow'
  BY DEF RequestsKnow
<1>6. GateHeld'
  BY DEF GateHeld
<1>7. PollFence'
  BY DEF PollFence
<1>8. PollLoaded'
  BY DEF PollLoaded
<1>9. QED
  BY <1>1, <1>2, <1>3, <1>4, <1>5, <1>6, <1>7, <1>8

LEMMA IdleStep ==
  ASSUME IInv, UNCHANGED vars
  PROVE  IInv'
<1> USE ConnectionAssumption DEF IInv, IsOpen, Current, vars, connVars, sessionVars, attemptVars,
      handlerVars, monitorVars, counters
<1>1. TypeOK'
  BY DEF TypeOK
<1>2. Behind'
  BY DEF Behind
<1>3. StartingHasAttempt'
  BY DEF StartingHasAttempt
<1>4. MonitoringHasSession'
  BY DEF MonitoringHasSession
<1>5. RequestsKnow'
  BY DEF RequestsKnow
<1>6. GateHeld'
  BY DEF GateHeld
<1>7. PollFence'
  BY DEF PollFence
<1>8. PollLoaded'
  BY DEF PollLoaded
<1>9. QED
  BY <1>1, <1>2, <1>3, <1>4, <1>5, <1>6, <1>7, <1>8

LEMMA InvStep == IInv /\ [Next]_vars => IInv'
<1> SUFFICES ASSUME IInv, [Next]_vars PROVE IInv'
  OBVIOUS
<1>1. ASSUME NEW h \in Handlers, Request(h) PROVE IInv'
  BY <1>1, BeginStep, FindStep, FinishStep, ExpireStep, ReadStep, CheckStep, InsertStep,
     CancelStep, StatusStep, LaunchStep, MarkStep, CompareStep, RecheckStep, LockStep,
     VerifyStep, CompleteStep, AbandonStep DEF Request
<1>2. CASE MonitorStep
  BY <1>2, LockMonitorStep, PollReadStep, PollSkipStep, PollRestoreStep, StartPollStep,
     BankAnswersStep, FinishPollLostStep, FinishPollSucceededStep, PersistSessionStep
  DEF MonitorStep
<1>3. ASSUME NEW next \in {"PAUSED", "AUTH_REQUIRED"}, TransitionConnection(next)
      PROVE  IInv'
  BY <1>3, TransitionStep
<1>4. ASSUME NEW a \in Attempts, Lapse(a) PROVE IInv'
  BY <1>4, LapseStep
<1>5. CASE Sweep
  BY <1>5, SweepStep
<1>6. CASE Restart
  BY <1>6, RestartStep
<1>7. CASE UNCHANGED vars
  BY <1>7, IdleStep
<1>8. QED
  BY <1>1, <1>2, <1>3, <1>4, <1>5, <1>6, <1>7 DEF Next

LEMMA InitInv == Init => IInv
<1> SUFFICES ASSUME Init PROVE IInv
  OBVIOUS
<1> USE ConnectionAssumption DEF Init
<1>1. TypeOK
  BY DEF TypeOK, States, AttemptStatuses, Stages, PollStages
<1>2. Behind /\ StartingHasAttempt /\ MonitoringHasSession
  BY DEF Behind, StartingHasAttempt, MonitoringHasSession, IsOpen, Open
<1>3. RequestsKnow /\ GateHeld /\ PollFence /\ PollLoaded
  BY DEF RequestsKnow, GateHeld, PollFence, PollLoaded, Working, PastRead
<1>4. QED
  BY <1>1, <1>2, <1>3 DEF IInv

THEOREM Invariant == Spec => []IInv
BY InitInv, InvStep, PTL DEF Spec

-----------------------------------------------------------------------------
(* What follows from the invariant                                         *)

\* Type correctness of the tables, the requests and the poll.
THEOREM TypeCorrect == Spec => []TypeOK
<1>1. IInv => TypeOK
  BY DEF IInv
<1>2. QED
  BY <1>1, Invariant, PTL

\* AUTH_STARTING and the one open attempt of the generation come and go
\* together, in every interleaving of requests, ticker and crashes.
THEOREM NoStrandedLogin == Spec => []StartingHasAttempt
<1>1. IInv => StartingHasAttempt
  BY DEF IInv
<1>2. QED
  BY <1>1, Invariant, PTL

\* A monitored connection has the session its own login made.
THEOREM SessionOfGeneration == Spec => []MonitoringHasSession
<1>1. IInv => MonitoringHasSession
  BY DEF IInv
<1>2. QED
  BY <1>1, Invariant, PTL

\* The upstream gate keeps the generation of a poll row and the cookies of
\* the poll together.
THEOREM PollFenced == Spec => []PollOwnsSession
<1>1. IInv => PollOwnsSession
  BY DEF IInv, PollLoaded, PollOwnsSession
<1>2. QED
  BY <1>1, Invariant, PTL

LEMMA PauseStep ==
  ASSUME IInv, [Next]_vars
  PROVE  /\ state = "PAUSED" /\ state' # "PAUSED" =>
              \/ actions' > actions
              \/ \E h \in Handlers : hpc[h] = "insert" /\ hState[h] = "PAUSED"
         /\ state = "MONITORING" /\ state' = "AUTH_REQUIRED" =>
              \/ actions' > actions
              \/ mpc = "lost" /\ cookies = generation
<1> DEFINE Kept == state' = state \/ state = "AUTH_STARTING"
           Inserts == \E h \in Handlers : /\ hpc[h] = "insert" /\ hGen[h] = generation
                                          /\ state' = "AUTH_STARTING"
           Loses == mpc = "lost" /\ mPoll = generation
<1> USE DEF tables, others, connVars, tablesAndRequests
<1>1. ASSUME NEW h \in Handlers, Request(h) PROVE Kept \/ Inserts
  <2>1. CASE Finish(h)
    <3>1. hAttempt[h] \in Attempts
      BY <2>1 DEF Finish, IInv, RequestsKnow, Working
    <3>2. QED
      BY <2>1, <3>1 DEF Finish, FinishAuthAttempt, IInv, StartingHasAttempt
  <2>2. CASE \/ ExpireFirst(h)
             \/ \E next \in {"idle", "expire"} : BeginStartOrCurrent(h, next)
    BY <2>2 DEF ExpireFirst, BeginStartOrCurrent, ExpireStaleAuthAttempts
  <2>3. CASE \E a \in Attempts : InsertAttempt(h, a)
    BY <2>3 DEF InsertAttempt
  <2>4. CASE CompleteAuthSession(h)
    BY <2>4 DEF CompleteAuthSession
  <2>5. CASE \/ FindActive(h) \/ ReadConnection(h) \/ CheckActive(h)
             \/ \E a \in Attempts : BeginCancel(h, a) \/ BeginStatus(h, a)
             \/ Launch(h) \/ MarkInProgress(h) \/ CompareGeneration(h) \/ Recheck(h)
             \/ LockVerifier(h) \/ VerifySession(h) \/ Abandon(h)
    BY <2>5 DEF FindActive, ReadConnection, CheckActive, BeginCancel, BeginStatus, Launch,
                MarkInProgress, CompareGeneration, Recheck, LockVerifier, VerifySession, Abandon
  <2>6. QED
    BY <1>1, <2>1, <2>2, <2>3, <2>4, <2>5 DEF Request
<1>2. ASSUME MonitorStep PROVE Kept \/ Loses
  <2>1. CASE FinishPollLost
    BY <2>1 DEF FinishPollLost
  <2>2. CASE \E kind \in {"poll", "keepalive"} : LockMonitor(kind)
    BY <2>2 DEF LockMonitor
  <2>3. CASE PollRead \/ PollSkip \/ PollRestore \/ StartPoll
    BY <2>3 DEF PollRead, PollSkip, PollRestore, StartPoll
  <2>4. CASE BankAnswers \/ FinishPollSucceeded \/ PersistSession
    BY <2>4 DEF BankAnswers, FinishPollSucceeded, PersistSession
  <2>5. QED
    BY <1>2, <2>1, <2>2, <2>3, <2>4 DEF MonitorStep
<1>3. ASSUME NEW next \in {"PAUSED", "AUTH_REQUIRED"}, TransitionConnection(next)
      PROVE  actions' > actions
  BY <1>3 DEF TransitionConnection, IInv, TypeOK
<1>4. ASSUME Sweep \/ Restart PROVE Kept
  BY <1>4 DEF Sweep, Restart, ExpireStaleAuthAttempts
<1>5. ASSUME UNCHANGED vars \/ \E a \in Attempts : Lapse(a) PROVE Kept
  BY <1>5 DEF Lapse, vars
<1>6. Kept \/ Inserts \/ Loses \/ actions' > actions
  BY <1>1, <1>2, <1>3, <1>4, <1>5 DEF Next
<1>7. CASE Kept
  BY <1>7
<1>8. CASE Inserts
  BY <1>8 DEF IInv, RequestsKnow
<1>9. CASE Loses
  BY <1>9 DEF IInv, PollLoaded, PollFence, PastRead, PollStages
<1>10. QED
  BY <1>6, <1>7, <1>8, <1>9

\* A pause holds until an administrator, or a login whose request saw the
\* pause, ends it; a monitored session is ended by an administrator or by the
\* poll that found its own cookies dead.
THEOREM PauseRespected == Spec => PauseHolds
<1>1. IInv /\ [Next]_vars =>
        [/\ state = "PAUSED" /\ state' # "PAUSED" =>
              \/ actions' > actions
              \/ \E h \in Handlers : hpc[h] = "insert" /\ hState[h] = "PAUSED"
         /\ state = "MONITORING" /\ state' = "AUTH_REQUIRED" =>
              \/ actions' > actions
              \/ mpc = "lost" /\ cookies = generation]_vars
  BY PauseStep
<1>2. QED
  BY <1>1, Invariant, PTL DEF Spec, PauseHolds

-----------------------------------------------------------------------------
(* The session refinement                                                  *)

\* A login that is under way will begin a session newer than the stored one.
SessionIsOlder == state = "AUTH_STARTING" => sessionGen < generation

LEMMA OlderStep == IInv /\ SessionIsOlder /\ [Next]_vars => SessionIsOlder'
<1> SUFFICES ASSUME IInv, SessionIsOlder, [Next]_vars, state' = "AUTH_STARTING"
             PROVE  sessionGen' < generation'
  BY DEF SessionIsOlder
<1> DEFINE Same == UNCHANGED <<state, generation, sessionGen>>
           Inserts == generation' = generation + 1 /\ sessionGen' = sessionGen
<1> USE DEF tables, others, connVars, sessionVars, tablesAndRequests
<1>1. ASSUME NEW h \in Handlers, Request(h) PROVE Same \/ Inserts
  <2>1. CASE Finish(h)
    BY <2>1 DEF Finish, FinishAuthAttempt
  <2>2. CASE \/ ExpireFirst(h)
             \/ \E next \in {"idle", "expire"} : BeginStartOrCurrent(h, next)
    BY <2>2 DEF ExpireFirst, BeginStartOrCurrent, ExpireStaleAuthAttempts
  <2>3. CASE \E a \in Attempts : InsertAttempt(h, a)
    BY <2>3 DEF InsertAttempt
  <2>4. CASE CompleteAuthSession(h)
    BY <2>4 DEF CompleteAuthSession
  <2>5. CASE \/ FindActive(h) \/ ReadConnection(h) \/ CheckActive(h)
             \/ \E a \in Attempts : BeginCancel(h, a) \/ BeginStatus(h, a)
             \/ Launch(h) \/ MarkInProgress(h) \/ CompareGeneration(h) \/ Recheck(h)
             \/ LockVerifier(h) \/ VerifySession(h) \/ Abandon(h)
    BY <2>5 DEF FindActive, ReadConnection, CheckActive, BeginCancel, BeginStatus, Launch,
                MarkInProgress, CompareGeneration, Recheck, LockVerifier, VerifySession, Abandon
  <2>6. QED
    BY <1>1, <2>1, <2>2, <2>3, <2>4, <2>5 DEF Request
<1>2. ASSUME MonitorStep PROVE Same
  <2>1. CASE FinishPollLost
    BY <2>1 DEF FinishPollLost
  <2>2. CASE \E kind \in {"poll", "keepalive"} : LockMonitor(kind)
    BY <2>2 DEF LockMonitor
  <2>3. CASE PollRead \/ PollSkip \/ PollRestore \/ StartPoll
    BY <2>3 DEF PollRead, PollSkip, PollRestore, StartPoll
  <2>4. CASE BankAnswers \/ FinishPollSucceeded \/ PersistSession
    BY <2>4 DEF BankAnswers, FinishPollSucceeded, PersistSession
  <2>5. QED
    BY <1>2, <2>1, <2>2, <2>3, <2>4 DEF MonitorStep
<1>3. ~ \E next \in {"PAUSED", "AUTH_REQUIRED"} : TransitionConnection(next)
  BY DEF TransitionConnection
<1>4. ASSUME Sweep \/ Restart PROVE Same
  BY <1>4 DEF Sweep, Restart, ExpireStaleAuthAttempts
<1>5. ASSUME UNCHANGED vars \/ \E a \in Attempts : Lapse(a) PROVE Same
  BY <1>5 DEF Lapse, vars
<1>6. Same \/ Inserts
  BY <1>1, <1>2, <1>3, <1>4, <1>5 DEF Next
<1>7. sessionGen \in Nat /\ generation \in Nat /\ sessionGen <= generation
  BY DEF IInv, TypeOK, Behind
<1>8. QED
  BY <1>6, <1>7 DEF SessionIsOlder

\* What a poll that has read the connection works with is the last session.
PollsLastSession == mpc \in PastRead => mGen = sessionGen

\* How a step can look from the session's side: nothing of the poll moves; a
\* login is completed; a poll reads the connection, goes on, or ends.
Quiet ==
  /\ UNCHANGED <<sessionGen, mpc, mGen>>
  /\ state' = state \/ state' # "MONITORING"

LoginCompleted ==
  /\ state # "MONITORING" /\ state' = "MONITORING"
  /\ mpc \notin PastRead
  /\ sessionGen < generation /\ sessionGen' = generation
  /\ UNCHANGED <<generation, mpc, mGen>>

ReadByPoll ==
  /\ mpc = "read" /\ mpc' \in PastRead
  /\ state = "MONITORING" /\ mGen' = generation
  /\ UNCHANGED <<state, generation, sessionGen>>

PollGoesOn ==
  /\ mpc' \in PollStages
  /\ mpc \in PastRead <=> mpc' \in PastRead
  /\ UNCHANGED <<state, sessionGen, mGen>>

PollEnds ==
  /\ mpc' = "idle"
  /\ UNCHANGED sessionGen
  /\ state' = state \/ state' # "MONITORING"

SessionStep == Quiet \/ LoginCompleted \/ ReadByPoll \/ PollGoesOn \/ PollEnds

\* A login that is completed meets no poll that has read the connection: its
\* attempt is older than that poll, or was fenced off by the generation.
LEMMA CompleteIsLogin ==
  ASSUME IInv, SessionIsOlder, NEW h \in Handlers, CompleteAuthSession(h)
  PROVE  SessionStep
<1> DEFINE a == hAttempt[h]
           completes == IsOpen(a) /\ Current(a) /\ state = "AUTH_STARTING"
<1>0. a \in Attempts /\ hpc[h] = "complete"
  BY DEF CompleteAuthSession, IInv, RequestsKnow, Working
<1>1. CASE completes
  <2>1. /\ state' = "MONITORING" /\ sessionGen' = generation
        /\ UNCHANGED <<generation, mpc, mGen>>
    BY <1>1 DEF CompleteAuthSession, monitorVars, Current
  <2>2. mpc \notin PastRead
    <3>1. SUFFICES ASSUME mpc \in PastRead PROVE FALSE
      OBVIOUS
    <3>2. generation <= mGen /\ mGen <= generation /\ generation \in Nat /\ mGen \in Nat
      BY <1>0, <1>1, <3>1 DEF IInv, PollFence, Current, TypeOK
    <3>3. generation # mGen
      BY <1>1, <3>1 DEF IInv, PollFence
    <3>4. QED
      BY <3>2, <3>3
  <2>3. LoginCompleted
    BY <1>1, <2>1, <2>2 DEF SessionIsOlder, LoginCompleted
  <2>4. QED
    BY <2>3 DEF SessionStep
<1>2. CASE ~completes
  <2>1. Quiet
    BY <1>2 DEF CompleteAuthSession, sessionVars, monitorVars, Quiet
  <2>2. QED
    BY <2>1 DEF SessionStep
<1>3. QED
  BY <1>1, <1>2

LEMMA RequestIsSessionStep ==
  ASSUME IInv, SessionIsOlder, NEW h \in Handlers, Request(h)
  PROVE  SessionStep
<1> USE DEF tables, others, connVars, sessionVars, monitorVars, SessionStep, Quiet
<1>1. CASE Finish(h)
  BY <1>1 DEF Finish, FinishAuthAttempt
<1>2. CASE \/ ExpireFirst(h)
           \/ \E next \in {"idle", "expire"} : BeginStartOrCurrent(h, next)
  BY <1>2 DEF ExpireFirst, BeginStartOrCurrent, ExpireStaleAuthAttempts
<1>3. CASE \E a \in Attempts : InsertAttempt(h, a)
  BY <1>3 DEF InsertAttempt
<1>4. CASE CompleteAuthSession(h)
  BY <1>4, CompleteIsLogin
<1>5. CASE \/ FindActive(h) \/ ReadConnection(h) \/ CheckActive(h)
           \/ \E a \in Attempts : BeginCancel(h, a) \/ BeginStatus(h, a)
           \/ Launch(h) \/ MarkInProgress(h) \/ CompareGeneration(h) \/ Recheck(h)
           \/ LockVerifier(h) \/ VerifySession(h) \/ Abandon(h)
  BY <1>5 DEF FindActive, ReadConnection, CheckActive, BeginCancel, BeginStatus, Launch,
              MarkInProgress, CompareGeneration, Recheck, LockVerifier, VerifySession, Abandon
<1>6. QED
  BY <1>1, <1>2, <1>3, <1>4, <1>5 DEF Request

LEMMA MonitorIsSessionStep ==
  ASSUME IInv, MonitorStep
  PROVE  SessionStep
<1> USE DEF tables, tablesAndRequests, connVars, sessionVars, SessionStep, PastRead, PollStages, Poll,
            EndPoll
<1>1. CASE \E kind \in {"poll", "keepalive"} : LockMonitor(kind)
  BY <1>1 DEF LockMonitor, PollGoesOn
<1>2. CASE PollRead
  BY <1>2 DEF PollRead, ReadByPoll, PollEnds
<1>3. CASE PollSkip
  BY <1>3 DEF PollSkip, PollGoesOn, PollEnds
<1>4. CASE PollRestore
  BY <1>4 DEF PollRestore, PollGoesOn, PollEnds
<1>5. CASE StartPoll
  BY <1>5 DEF StartPoll, PollGoesOn, PollEnds
<1>6. CASE BankAnswers
  BY <1>6 DEF BankAnswers, PollGoesOn, PollEnds
<1>7. CASE FinishPollLost
  BY <1>7 DEF FinishPollLost, PollEnds
<1>8. CASE FinishPollSucceeded
  BY <1>8 DEF FinishPollSucceeded, PollGoesOn, PollEnds
<1>9. CASE PersistSession
  BY <1>9 DEF PersistSession, PollEnds
<1>10. QED
  BY <1>1, <1>2, <1>3, <1>4, <1>5, <1>6, <1>7, <1>8, <1>9 DEF MonitorStep

LEMMA NextIsSessionStep ==
  ASSUME IInv, SessionIsOlder, [Next]_vars
  PROVE  SessionStep
<1>1. ASSUME NEW next \in {"PAUSED", "AUTH_REQUIRED"}, TransitionConnection(next)
      PROVE  SessionStep
  BY <1>1 DEF TransitionConnection, sessionVars, monitorVars, SessionStep, Quiet
<1>2. ASSUME NEW a \in Attempts, Lapse(a) PROVE SessionStep
  BY <1>2 DEF Lapse, connVars, sessionVars, monitorVars, SessionStep, Quiet
<1>3. CASE Sweep
  BY <1>3 DEF Sweep, ExpireStaleAuthAttempts, sessionVars, monitorVars, SessionStep, Quiet
<1>4. CASE Restart
  BY <1>4 DEF Restart, ExpireStaleAuthAttempts, EndPoll, sessionVars, SessionStep, PollEnds
<1>5. CASE UNCHANGED vars
  BY <1>5 DEF vars, connVars, sessionVars, monitorVars, SessionStep, Quiet
<1>6. QED
  BY <1>1, <1>2, <1>3, <1>4, <1>5, RequestIsSessionStep, MonitorIsSessionStep DEF Next

LEMMA LastSessionStep ==
  ASSUME IInv, PollsLastSession, SessionStep
  PROVE  PollsLastSession'
<1>1. CASE Quiet \/ LoginCompleted
  BY <1>1 DEF Quiet, LoginCompleted, PollsLastSession
<1>2. CASE ReadByPoll
  BY <1>2 DEF ReadByPoll, PollsLastSession, IInv, MonitoringHasSession
<1>3. CASE PollGoesOn \/ PollEnds
  BY <1>3 DEF PollGoesOn, PollEnds, PollsLastSession, PastRead
<1>4. QED
  BY <1>1, <1>2, <1>3 DEF SessionStep

LEMMA SessionStepMaps ==
  ASSUME IInv, PollsLastSession, SessionStep
  PROVE  [Abstract!Next]_Abstract!vars
<1>0. /\ mpc \in PastRead => PolledSessions = {sessionGen}
      /\ mpc \notin PastRead => PolledSessions = {}
      /\ mpc' \in PastRead => PolledSessions' = {mGen'}
      /\ mpc' \in {"idle", "read"} => PolledSessions' = {}
  BY DEF PolledSessions, PastRead, PollsLastSession, IInv, TypeOK
<1>1. ASSUME UNCHANGED <<sessionGen, PolledSessions>>, state' = state \/ state' # "MONITORING"
      PROVE  [Abstract!Next]_Abstract!vars
  <2>1. CASE state = "MONITORING" /\ state' # "MONITORING"
    BY <1>1, <2>1 DEF Abstract!Next, Abstract!Leave
  <2>2. CASE ~(state = "MONITORING" /\ state' # "MONITORING")
    BY <1>1, <2>2 DEF Abstract!vars
  <2>3. QED
    BY <2>1, <2>2
<1>2. CASE Quiet
  BY <1>1, <1>2 DEF Quiet, PolledSessions
<1>3. CASE LoginCompleted
  <2>1. PolledSessions = {} /\ PolledSessions' = {}
    BY <1>0, <1>3 DEF LoginCompleted, PolledSessions
  <2>2. sessionGen' \in Int /\ sessionGen' > sessionGen
    BY <1>3 DEF LoginCompleted, IInv, TypeOK
  <2>3. QED
    BY <1>3, <2>1, <2>2 DEF LoginCompleted, Abstract!Next, Abstract!Login
<1>4. CASE ReadByPoll
  <2>1. PolledSessions = {} /\ PolledSessions' = {sessionGen}
    BY <1>0, <1>4 DEF ReadByPoll, PastRead, IInv, MonitoringHasSession
  <2>2. QED
    BY <1>4, <2>1 DEF ReadByPoll, Abstract!Next, Abstract!Begin
<1>5. CASE PollGoesOn
  <2>1. UNCHANGED PolledSessions
    BY <1>0, <1>5 DEF PollGoesOn, PolledSessions, PastRead, IInv, TypeOK
  <2>2. QED
    BY <1>1, <1>5, <2>1 DEF PollGoesOn
<1>6. CASE PollEnds
  <2>1. PolledSessions' = {}
    BY <1>0, <1>6 DEF PollEnds
  <2>2. CASE mpc \in PastRead
    <3>1. PolledSessions = {sessionGen}
      BY <1>0, <2>2
    <3>2. (state' = "MONITORING") \in {state = "MONITORING", FALSE}
      BY <1>6 DEF PollEnds
    <3>3. QED
      BY <1>6, <2>1, <3>1, <3>2 DEF PollEnds, Abstract!Next, Abstract!End
  <2>3. CASE mpc \notin PastRead
    BY <1>0, <1>1, <1>6, <2>1, <2>3 DEF PollEnds
  <2>4. QED
    BY <2>2, <2>3
<1>7. QED
  BY <1>2, <1>3, <1>4, <1>5, <1>6 DEF SessionStep

\* The requests, the gate and the generation together keep the promise of
\* Session: while a poll works with a session no other begins, and each login
\* that is completed begins a newer one.
THEOREM SessionRefinement == Spec => ImplementsSession
<1>1. Init => Abstract!Init /\ SessionIsOlder /\ PollsLastSession
  BY DEF Init, Abstract!Init, PolledSessions, SessionIsOlder, PollsLastSession, PastRead
<1>2. IInv /\ SessionIsOlder /\ PollsLastSession /\ [Next]_vars
        => SessionIsOlder' /\ PollsLastSession'
  BY OlderStep, NextIsSessionStep, LastSessionStep
<1>3. IInv /\ SessionIsOlder /\ PollsLastSession /\ [Next]_vars
        => [Abstract!Next]_Abstract!vars
  BY NextIsSessionStep, SessionStepMaps
<1>4. QED
  BY <1>1, <1>2, <1>3, Invariant, PTL DEF Spec, ImplementsSession, Abstract!Spec

=============================================================================
