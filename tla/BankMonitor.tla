---------------------------- MODULE BankMonitor ----------------------------
(***************************************************************************)
(* How credits get from the bank into the transactions table: the loop of  *)
(* internal/monitor (catch-up, realtime poll, keepalive, manual sync), the *)
(* history a viewer asks for (EnsureHistory), and the two tables that let  *)
(* them skip work: history_coverage and checkpoints.                       *)
(*                                                                         *)
(* Time is a clock of ticks and a day is DayLength of them, so that the    *)
(* coverage lifetimes (30 s for today, 2 h for yesterday, 24 h for older   *)
(* days) keep their order.  The connection is reduced to what Connection   *)
(* shows of it: whether it is MONITORING, and the generation, which is     *)
(* also the generation of the cookies a poll uses.                         *)
(*                                                                         *)
(* The bank is any bank that books a credit under the day it arrives on    *)
(* and answers only live cookies; each request may fail, or return only    *)
(* some of the rows and say so.                                            *)
(***************************************************************************)
EXTENDS Integers, FiniteSets, FiniteSetsExt

CONSTANTS
  Credits,       \* transactions the bank books
  Viewers,       \* EnsureHistory calls in flight (one per range: historyGroup)
  Runner,        \* the goroutine of Run, as holder of Monitor.mu
  Free,          \* Monitor.mu is free
  DayLength,     \* ticks of a day
  TodayTTL, YesterdayTTL, OlderTTL,  \* ticks coverage of a day stays fresh
  Window,        \* days automatic catch-up looks back
  MaxScan,       \* bound: ticks one scan takes from its answer to its record
  MinClock, MaxClock,  \* bound: first and last tick
  MaxLogins, MaxRestarts, MaxSyncs   \* bounds

ASSUME BankMonitorAssumption ==
  /\ Runner \notin Viewers /\ Free \notin Viewers /\ Runner # Free
  /\ DayLength \in Nat \ {0}
  /\ TodayTTL \in Nat /\ YesterdayTTL \in Nat /\ OlderTTL \in Nat
  /\ YesterdayTTL < DayLength /\ OlderTTL <= DayLength
  /\ Window \in Nat \ {0}
  /\ MaxScan \in Nat /\ MinClock \in Nat /\ MaxClock \in Nat
  /\ DayLength <= MinClock /\ MinClock <= MaxClock
  /\ MaxLogins \in Nat /\ MaxRestarts \in Nat /\ MaxSyncs \in Nat

Never == -1   \* no row, no request, not yet

VARIABLES
  clock,
  bookedAt,      \* tick at which the bank booked each credit
  alive,         \* the bank still accepts the cookies of this generation
  monitoring,    \* connections.state = "MONITORING"
  generation,    \* connections.generation
  source,        \* transactions.ingest_source, "NONE": no row
  syncedAt,      \* history_coverage.last_sync_at of each day
  checkpoint,    \* checkpoints.coverage_to
  sched,         \* schedule.Mode of this round of Run, lastMode of the next
  pending,       \* Monitor.catchUpPending
  backoff,       \* time.Now() is before Monitor.backoffUntil
  gate,          \* Monitor.mu
  rpc,           \* where Run is
  rGen,          \* conn.Generation its catch-up or poll read
  expected,      \* generation of the manual sync it serves
  catchFrom, upTo, day,  \* fromDate, today and curDay of catchUp
  rows, whole,   \* fetchHistoryResult: Transactions, Complete
  syncReq,       \* generation in Monitor.syncReq
  token,         \* Monitor.syncCh holds its one token
  asked,         \* generation a RequestSync has read and not yet queued
  vpc, vGen, vFrom, vTo, vRows, vWhole,  \* the same of each EnsureHistory
  fetchedAt,     \* tick of the last answer of the history page, per gate holder
  scannedAt,     \* tick of the last whole answer that was stored, per day
  origin,        \* first day the checkpoint accounts for
  logins, restarts, syncs

bankVars    == <<clock, bookedAt, alive>>
connVars    == <<monitoring, generation>>
tableVars   == <<source, syncedAt, checkpoint>>
runVars     == <<sched, pending, rpc, rGen, expected, catchFrom, upTo, day, rows, whole>>
syncVars    == <<syncReq, token, asked>>
viewerVars  == <<vpc, vGen, vFrom, vTo, vRows, vWhole>>
ghostVars   == <<fetchedAt, scannedAt, origin>>
counters    == <<logins, restarts, syncs>>
vars == <<bankVars, connVars, tableVars, backoff, gate, runVars, syncVars, viewerVars,
          ghostVars, counters>>

Modes   == {"REALTIME", "KEEPALIVE_ONLY", "PAUSED"}
Sources == {"NONE", "REALTIME", "CATCH_UP", "FILTER_SYNC"}
Places  == {"top", "select", "taking", "lockCatch", "connect", "day", "ingest", "cover", "mark",
            "lockPoll", "poll", "pollIngest", "lockKeepalive"}
DayOf(tick) == tick \div DayLength
Today == DayOf(clock)
Days  == 0..DayOf(MaxClock)
LastTickOf(d) == d * DayLength + DayLength - 1

TypeOK ==
  /\ clock \in Nat
  /\ bookedAt \in [Credits -> Nat \cup {Never}]
  /\ alive \in BOOLEAN /\ monitoring \in BOOLEAN /\ generation \in Nat
  /\ source \in [Credits -> Sources]
  /\ syncedAt \in [Days -> Nat \cup {Never}]
  /\ checkpoint \in Days \cup {Never}
  /\ sched \in Modes \cup {"NONE"}
  /\ pending \in BOOLEAN /\ backoff \in BOOLEAN
  /\ gate \in Viewers \cup {Runner, Free}
  /\ rpc \in Places
  /\ rGen \in Nat /\ expected \in Nat \cup {Never}
  /\ catchFrom \in Days /\ upTo \in Days /\ day \in Nat
  /\ rows \in SUBSET Credits /\ whole \in BOOLEAN
  /\ syncReq \in Nat \cup {Never} /\ token \in BOOLEAN /\ asked \in Nat \cup {Never}
  /\ vpc \in [Viewers -> {"idle", "wait", "fetch", "ingest", "cover"}]
  /\ vGen \in [Viewers -> Nat]
  /\ vFrom \in [Viewers -> Days] /\ vTo \in [Viewers -> Days]
  /\ vRows \in [Viewers -> SUBSET Credits] /\ vWhole \in [Viewers -> BOOLEAN]
  /\ fetchedAt \in Nat
  /\ scannedAt \in [Days -> Nat \cup {Never}]
  /\ origin \in Days
  /\ logins \in Nat /\ restarts \in Nat /\ syncs \in Nat

\* A connection has been configured; nobody has logged in.
Init ==
  /\ clock = MinClock /\ bookedAt = [c \in Credits |-> Never] /\ alive = FALSE
  /\ monitoring = FALSE /\ generation = 0
  /\ source = [c \in Credits |-> "NONE"]
  /\ syncedAt = [d \in Days |-> Never] /\ checkpoint = Never
  /\ sched = "NONE" /\ pending = FALSE /\ backoff = FALSE
  /\ gate = Free /\ rpc = "top" /\ rGen = 0 /\ expected = Never
  /\ catchFrom = 0 /\ upTo = 0 /\ day = 0 /\ rows = {} /\ whole = FALSE
  /\ syncReq = Never /\ token = FALSE /\ asked = Never
  /\ vpc = [v \in Viewers |-> "idle"] /\ vGen = [v \in Viewers |-> 0]
  /\ vFrom = [v \in Viewers |-> 0] /\ vTo = [v \in Viewers |-> 0]
  /\ vRows = [v \in Viewers |-> {}] /\ vWhole = [v \in Viewers |-> FALSE]
  /\ fetchedAt = 0 /\ scannedAt = [d \in Days |-> Never] /\ origin = 0
  /\ logins = 0 /\ restarts = 0 /\ syncs = 0

-----------------------------------------------------------------------------
(* The store and the bank                                                  *)

\* Looks at the clock without asking which day it is.
FaultyFresh(d) == clock - syncedAt[d] <= OlderTTL

\* The lifetime CheckRangeCoverage gives a day's coverage.
Fresh(d) ==
  clock - syncedAt[d] <= IF d = Today THEN TodayTTL
                         ELSE IF d = Today - 1 THEN YesterdayTTL ELSE OlderTTL

\* CheckRangeCoverage.
Covered(from, to) == \A d \in from..to : syncedAt[d] # Never /\ Fresh(d)

\* The generation fence of IngestTransactionsBatchWithSource.
FencePasses(g) == monitoring /\ generation = g

\* What it inserts; a credit that is stored keeps its source.
Ingest(batch, from) ==
  source' = [c \in Credits |-> IF c \in batch /\ source[c] = "NONE" THEN from ELSE source[c]]

\* RecordCoveragePerDay; some callers ignore its error.
RecordCoveragePerDay(days) ==
  syncedAt' = [d \in Days |-> IF d \in days THEN clock ELSE syncedAt[d]]

BookedIn(from, to) == {c \in Credits : bookedAt[c] # Never /\ DayOf(bookedAt[c]) \in from..to}

\* The bank answers live cookies; those of an older generation may live on.
MayAnswer(g) == g = generation => alive
MayRefuse(g) == g = generation => ~alive

\* fetchHistoryRange: all the rows, or some of them and Complete is false.
HistoryAnswers(from, to, batch, complete) ==
  /\ batch \subseteq BookedIn(from, to)
  /\ complete => batch = BookedIn(from, to)
  /\ fetchedAt' = clock

\* A whole answer has been stored.
Scanned(days) == scannedAt' = [d \in Days |-> IF d \in days THEN fetchedAt ELSE scannedAt[d]]

-----------------------------------------------------------------------------
(* Run                                                                     *)

others == <<bankVars, viewerVars, counters>>

\* A return of catchUp, pollOnce or pollKeepalive, with its deferred unlock.
Return(place) ==
  /\ rpc' = place
  /\ gate' = IF gate = Runner THEN Free ELSE gate
  /\ rGen' = 0 /\ expected' = Never
  /\ catchFrom' = 0 /\ upTo' = 0 /\ day' = 0
  /\ rows' = {} /\ whole' = FALSE /\ fetchedAt' = IF gate = Runner THEN 0 ELSE fetchedAt

At(from, to) == rpc = from /\ rpc' = to

\* The top of the loop.  Windows of the schedule begin and end, and are edited,
\* between any two rounds.  Entering REALTIME, also at start, owes a catch-up.
RunTop(mode) ==
  /\ At("top", "select")
  /\ sched' = mode
  /\ pending' = (pending \/ (mode = "REALTIME" /\ sched # "REALTIME"))
  /\ UNCHANGED <<others, connVars, tableVars, backoff, gate, rGen, expected, catchFrom, upTo, day,
                 rows, whole, syncVars, ghostVars>>

\* A signal on settingsCh.
Reload ==
  /\ At("select", "top")
  /\ UNCHANGED <<others, connVars, tableVars, backoff, gate, sched, pending, rGen, expected,
                 catchFrom, upTo, day, rows, whole, syncVars, ghostVars>>

ReceiveSync ==
  /\ At("select", "taking")
  /\ token
  /\ token' = FALSE
  /\ UNCHANGED <<others, connVars, tableVars, backoff, gate, sched, pending, rGen, expected,
                 catchFrom, upTo, day, rows, whole, syncReq, asked, ghostVars>>

\* Leaves the request in place: the next one like it is taken for queued.
FaultyTakeSync ==
  /\ rpc = "taking"
  /\ rpc' = IF syncReq = Never THEN "top" ELSE "lockPoll"
  /\ expected' = syncReq
  /\ UNCHANGED <<others, connVars, tableVars, backoff, gate, sched, pending, rGen,
                 catchFrom, upTo, day, rows, whole, syncReq, token, asked, ghostVars>>

\* Under syncMu.
TakeSync ==
  /\ rpc = "taking"
  /\ rpc' = IF syncReq = Never THEN "top" ELSE "lockPoll"
  /\ expected' = syncReq /\ syncReq' = Never
  /\ UNCHANGED <<others, connVars, tableVars, backoff, gate, sched, pending, rGen,
                 catchFrom, upTo, day, rows, whole, token, asked, ghostVars>>

\* The timer fires, and this round's schedule decides, even if it is over.
TimerFires ==
  /\ rpc = "select"
  /\ rpc' = CASE sched = "REALTIME" /\ pending  -> "lockCatch"
              [] sched = "REALTIME" /\ ~pending -> "lockPoll"
              [] sched = "KEEPALIVE_ONLY"       -> "lockKeepalive"
              [] sched = "PAUSED"               -> "top"
  /\ UNCHANGED <<others, connVars, tableVars, backoff, gate, sched, pending, rGen, expected,
                 catchFrom, upTo, day, rows, whole, syncVars, ghostVars>>

-----------------------------------------------------------------------------
(* catchUp                                                                 *)

\* Starts on the day after the one the checkpoint has reached.
FaultyCatchFrom(known) ==
  Min({Today, Max({Today - Window, IF known = Never THEN Today - 1 ELSE known + 1})})

\* The day the checkpoint has reached is scanned again: it may have been the
\* current day then.
CatchFrom(known) ==
  Min({Today, Max({Today - Window, IF known = Never THEN Today - 1 ELSE known})})

\* The day from which the checkpoint's account is unbroken.
NewOrigin(known) ==
  IF known = Never THEN Today - 1
  ELSE IF known < Today - Window THEN Today - Window ELSE origin

\* An unreadable checkpoint counts as none.  Returns nil when nothing is
\* monitored; Run takes nil for a completed catch-up and goes on to poll.
LockCatch ==
  /\ rpc = "lockCatch" /\ gate = Free
  /\ IF monitoring
     THEN /\ rpc' = "connect" /\ gate' = Runner /\ rGen' = generation
          /\ upTo' = Today
          /\ \E known \in {checkpoint, Never} :
               catchFrom' = CatchFrom(known) /\ origin' = NewOrigin(known)
          /\ UNCHANGED <<pending, expected, day, rows, whole, fetchedAt>>
     ELSE pending' = FALSE /\ Return("lockPoll") /\ UNCHANGED origin
  /\ UNCHANGED <<others, connVars, tableVars, backoff, sched, syncVars, scannedAt>>

\* Restore and Bootstrap; a maintenance page gets past them too.
CatchConnect ==
  /\ rpc = "connect"
  /\ rpc' = "day" /\ day' = catchFrom
  /\ UNCHANGED <<others, connVars, tableVars, backoff, gate, sched, pending, rGen, expected,
                 catchFrom, upTo, rows, whole, syncVars, ghostVars>>

\* A day before today that coverage vouches for is not scanned again.  The
\* error of SaveCheckpoint is ignored.
CatchSkip ==
  /\ rpc = "day" /\ day < upTo /\ Covered(day, day)
  /\ checkpoint' \in {day, checkpoint}
  /\ day' = day + 1
  /\ UNCHANGED <<others, connVars, source, syncedAt, backoff, gate, sched, pending, rpc, rGen,
                 expected, catchFrom, upTo, rows, whole, syncVars, ghostVars>>

ScansDay == rpc = "day" /\ day <= upTo /\ ~(day < upTo /\ Covered(day, day))

CatchFetch(complete) ==
  /\ ScansDay /\ MayAnswer(rGen)
  /\ \E batch \in SUBSET Credits : HistoryAnswers(day, day, batch, complete) /\ rows' = batch
  /\ whole' = complete
  /\ rpc' = "ingest"
  /\ UNCHANGED <<others, connVars, tableVars, backoff, gate, sched, pending, rGen, expected,
                 catchFrom, upTo, day, syncVars, scannedAt, origin>>

\* Any error, a dead session too, ends the catch-up, which stays pending;
\* maintenance starts the back-off.
CatchFails ==
  /\ rpc = "connect" \/ ScansDay
  /\ backoff' \in IF rpc = "day" THEN {backoff, TRUE} ELSE {backoff}
  /\ Return("top")
  /\ UNCHANGED <<others, connVars, tableVars, sched, pending, syncVars, scannedAt, origin>>

\* Advances although rows are missing.
FaultyCatchIngest ==
  /\ rpc = "ingest"
  /\ IF FencePasses(rGen)
     THEN /\ Ingest(rows, "CATCH_UP")
          /\ rpc' = "cover" /\ Scanned({day})
          /\ UNCHANGED <<gate, rGen, expected, catchFrom, upTo, day, rows, whole, fetchedAt>>
     ELSE Return("top") /\ UNCHANGED <<source, scannedAt>>
  /\ UNCHANGED <<others, connVars, syncedAt, checkpoint, backoff, sched, pending, syncVars, origin>>

\* Rows of an incomplete answer are stored and the day is retried.
CatchIngest ==
  /\ rpc = "ingest"
  /\ IF FencePasses(rGen)
     THEN /\ Ingest(rows, "CATCH_UP")
          /\ IF whole
             THEN /\ rpc' = "cover" /\ Scanned({day})
                  /\ UNCHANGED <<gate, rGen, expected, catchFrom, upTo, day, rows, whole, fetchedAt>>
             ELSE Return("top") /\ UNCHANGED scannedAt
     ELSE Return("top") /\ UNCHANGED <<source, scannedAt>>
  /\ UNCHANGED <<others, connVars, syncedAt, checkpoint, backoff, sched, pending, syncVars, origin>>

CatchCover ==
  /\ At("cover", "mark")
  /\ RecordCoveragePerDay({day}) \/ UNCHANGED syncedAt
  /\ UNCHANGED <<others, connVars, source, checkpoint, backoff, gate, sched, pending, rGen,
                 expected, catchFrom, upTo, day, rows, whole, syncVars, ghostVars>>

\* Saves the day it will scan next.
FaultyCatchMark ==
  /\ At("mark", "day")
  /\ checkpoint' \in {day + 1, checkpoint}
  /\ day' = day + 1 /\ rows' = {} /\ whole' = FALSE /\ fetchedAt' = 0
  /\ UNCHANGED <<others, connVars, source, syncedAt, backoff, gate, sched, pending, rGen, expected,
                 catchFrom, upTo, syncVars, scannedAt, origin>>

\* The error of SaveCheckpoint is only logged.
CatchMark ==
  /\ At("mark", "day")
  /\ checkpoint' \in {day, checkpoint}
  /\ day' = day + 1 /\ rows' = {} /\ whole' = FALSE /\ fetchedAt' = 0
  /\ UNCHANGED <<others, connVars, source, syncedAt, backoff, gate, sched, pending, rGen, expected,
                 catchFrom, upTo, syncVars, scannedAt, origin>>

CatchDone ==
  /\ rpc = "day" /\ day > upTo
  /\ pending' = FALSE
  /\ Return("lockPoll")
  /\ UNCHANGED <<others, connVars, tableVars, backoff, sched, syncVars, scannedAt, origin>>

-----------------------------------------------------------------------------
(* pollOnce and pollKeepalive                                              *)

\* Compares the generation although nobody asked for one.
FaultyLockPoll ==
  /\ rpc = "lockPoll" /\ gate = Free
  /\ IF monitoring /\ ~backoff /\ expected = generation
     THEN /\ rpc' = "poll" /\ gate' = Runner /\ rGen' = generation
          /\ UNCHANGED <<expected, catchFrom, upTo, day, rows, whole, fetchedAt>>
     ELSE Return("top")
  /\ UNCHANGED <<others, connVars, tableVars, backoff, sched, pending, syncVars, scannedAt, origin>>

\* A manual sync asked of an older generation is dropped.
LockPoll ==
  /\ rpc = "lockPoll" /\ gate = Free
  /\ IF monitoring /\ ~backoff /\ expected \in {Never, generation}
     THEN /\ rpc' = "poll" /\ gate' = Runner /\ rGen' = generation
          /\ UNCHANGED <<expected, catchFrom, upTo, day, rows, whole, fetchedAt>>
     ELSE Return("top")
  /\ UNCHANGED <<others, connVars, tableVars, backoff, sched, pending, syncVars, scannedAt, origin>>

\* The fence looks for the generation the transition will make.
FaultyLoseSession(g) ==
  IF generation = g + 1 THEN monitoring' = FALSE /\ generation' = g + 1 ELSE UNCHANGED connVars

\* FinishPoll with AUTH_REQUIRED, rolled back if the generation has moved.
LoseSession(g) ==
  IF generation = g THEN monitoring' = FALSE /\ generation' = g + 1 ELSE UNCHANGED connVars

\* The bank shows the login page.
PollRefused ==
  /\ rpc = "poll" /\ MayRefuse(rGen)
  /\ LoseSession(rGen)
  /\ Return("top")
  /\ UNCHANGED <<others, tableVars, backoff, sched, pending, syncVars, scannedAt, origin>>

\* A failure, or a login attempt is open; 429 and maintenance start the back-off.
PollFails ==
  /\ rpc = "poll"
  /\ backoff' \in {backoff, TRUE}
  /\ Return("top")
  /\ UNCHANGED <<others, connVars, tableVars, sched, pending, syncVars, scannedAt, origin>>

\* Does not notice that rows are missing.
FaultyPollAnswered(complete) ==
  /\ At("poll", "pollIngest") /\ MayAnswer(rGen)
  /\ \E batch \in SUBSET Credits :
       HistoryAnswers(Today, Today, batch, complete) /\ rows' = batch
  /\ whole' = TRUE
  /\ UNCHANGED <<others, connVars, tableVars, backoff, gate, sched, pending, rGen, expected,
                 catchFrom, upTo, day, syncVars, scannedAt, origin>>

\* PrepareHistoryFields asks for today only.
PollAnswered(complete) ==
  /\ At("poll", "pollIngest") /\ MayAnswer(rGen)
  /\ \E batch \in SUBSET Credits :
       HistoryAnswers(Today, Today, batch, complete) /\ rows' = batch
  /\ whole' = complete
  /\ UNCHANGED <<others, connVars, tableVars, backoff, gate, sched, pending, rGen, expected,
                 catchFrom, upTo, day, syncVars, scannedAt, origin>>

\* SUCCEEDED, or PARTIAL when rows are missing; both end the back-off.
PollIngest ==
  /\ rpc = "pollIngest"
  /\ IF FencePasses(rGen)
     THEN Ingest(rows, "REALTIME") /\ backoff' = FALSE
     ELSE UNCHANGED <<source, backoff>>
  /\ Return("top")
  /\ UNCHANGED <<others, connVars, syncedAt, checkpoint, sched, pending, syncVars, scannedAt, origin>>

\* The whole of pollKeepalive; Connection has its steps.
KeepaliveRefused ==
  /\ rpc = "lockKeepalive" /\ gate = Free
  /\ monitoring /\ ~backoff /\ MayRefuse(generation)
  /\ LoseSession(generation)
  /\ Return("top")
  /\ UNCHANGED <<others, tableVars, backoff, sched, pending, syncVars, scannedAt, origin>>

Keepalive ==
  /\ rpc = "lockKeepalive" /\ gate = Free
  /\ backoff' \in IF monitoring THEN {backoff, TRUE} ELSE {backoff}
  /\ Return("top")
  /\ UNCHANGED <<others, connVars, tableVars, sched, pending, syncVars, scannedAt, origin>>

RunStep ==
  \/ \E mode \in Modes : RunTop(mode)
  \/ Reload \/ ReceiveSync \/ TakeSync \/ TimerFires
  \/ LockCatch \/ CatchConnect \/ CatchSkip \/ CatchFails \/ CatchIngest
  \/ CatchCover \/ CatchMark \/ CatchDone
  \/ LockPoll \/ PollRefused \/ PollFails \/ PollIngest
  \/ \E complete \in BOOLEAN : CatchFetch(complete) \/ PollAnswered(complete)
  \/ KeepaliveRefused \/ Keepalive

-----------------------------------------------------------------------------
(* EnsureHistory                                                           *)

runAndEnv == <<bankVars, connVars, runVars, syncVars, counters, checkpoint, origin>>

GoTo(v, place) ==
  /\ vpc' = [vpc EXCEPT ![v] = place]
  /\ UNCHANGED <<vGen, vFrom, vTo, vRows, vWhole>>

\* A return, with the deferred unlock.
Leave(v) ==
  /\ vpc' = [vpc EXCEPT ![v] = "idle"]
  /\ vGen' = [vGen EXCEPT ![v] = 0]
  /\ vFrom' = [vFrom EXCEPT ![v] = 0] /\ vTo' = [vTo EXCEPT ![v] = 0]
  /\ vRows' = [vRows EXCEPT ![v] = {}] /\ vWhole' = [vWhole EXCEPT ![v] = FALSE]
  /\ gate' = IF gate = v THEN Free ELSE gate
  /\ fetchedAt' = IF gate = v THEN 0 ELSE fetchedAt

\* The connection and the coverage are read before the gate is taken.
EnsureHistory(v, from, to) ==
  /\ vpc[v] = "idle"
  /\ monitoring
  /\ from <= to /\ ~Covered(from, to)
  /\ vpc' = [vpc EXCEPT ![v] = "wait"]
  /\ vGen' = [vGen EXCEPT ![v] = generation]
  /\ vFrom' = [vFrom EXCEPT ![v] = from] /\ vTo' = [vTo EXCEPT ![v] = to]
  /\ UNCHANGED <<runAndEnv, source, syncedAt, backoff, gate, vRows, vWhole, fetchedAt, scannedAt>>

LockHistory(v) ==
  /\ vpc[v] = "wait" /\ gate = Free
  /\ IF backoff THEN Leave(v)
     ELSE gate' = v /\ GoTo(v, "fetch") /\ UNCHANGED fetchedAt
  /\ UNCHANGED <<runAndEnv, source, syncedAt, backoff, scannedAt>>

FetchHistory(v) ==
  /\ vpc[v] = "fetch"
  /\ \/ /\ MayAnswer(vGen[v])
        /\ \E batch \in SUBSET Credits, complete \in BOOLEAN :
             /\ HistoryAnswers(vFrom[v], vTo[v], batch, complete)
             /\ vRows' = [vRows EXCEPT ![v] = batch]
             /\ vWhole' = [vWhole EXCEPT ![v] = complete]
        /\ vpc' = [vpc EXCEPT ![v] = "ingest"]
        /\ UNCHANGED <<vGen, vFrom, vTo, gate, backoff>>
     \/ backoff' \in {backoff, TRUE} /\ Leave(v)
  /\ UNCHANGED <<runAndEnv, source, syncedAt, scannedAt>>

\* Without the generation fence.
FaultyIngestHistory(v) ==
  /\ vpc[v] = "ingest"
  /\ IF monitoring THEN Ingest(vRows[v], "FILTER_SYNC") ELSE UNCHANGED source
  /\ IF vWhole[v] THEN GoTo(v, "cover") /\ Scanned(vFrom[v]..vTo[v]) /\ UNCHANGED <<gate, fetchedAt>>
     ELSE Leave(v) /\ UNCHANGED scannedAt
  /\ UNCHANGED <<runAndEnv, syncedAt, backoff>>

\* FILTER_SYNC: the credits get no event and no delivery.
IngestHistory(v) ==
  /\ vpc[v] = "ingest"
  /\ IF FencePasses(vGen[v])
     THEN /\ Ingest(vRows[v], "FILTER_SYNC")
          /\ IF vWhole[v]
             THEN GoTo(v, "cover") /\ Scanned(vFrom[v]..vTo[v]) /\ UNCHANGED <<gate, fetchedAt>>
             ELSE Leave(v) /\ UNCHANGED scannedAt
     ELSE Leave(v) /\ UNCHANGED <<source, scannedAt>>
  /\ UNCHANGED <<runAndEnv, syncedAt, backoff>>

CoverHistory(v) ==
  /\ vpc[v] = "cover"
  /\ RecordCoveragePerDay(vFrom[v]..vTo[v]) \/ UNCHANGED syncedAt
  /\ Leave(v)
  /\ UNCHANGED <<runAndEnv, source, backoff, scannedAt>>

HistoryStep(v) == LockHistory(v) \/ FetchHistory(v) \/ IngestHistory(v) \/ CoverHistory(v)

-----------------------------------------------------------------------------
(* RequestSync, the bank, the connection, the clock                        *)

allButClock == <<connVars, tableVars, backoff, gate, runVars, syncVars, viewerVars,
                 ghostVars, counters>>

\* RequestSync reads the connection first ...
AskSync ==
  /\ syncs < MaxSyncs /\ asked = Never /\ monitoring
  /\ asked' = generation /\ syncs' = syncs + 1
  /\ UNCHANGED <<bankVars, connVars, tableVars, backoff, gate, runVars, syncReq, token,
                 viewerVars, ghostVars, logins, restarts>>

\* ... and queues its request under syncMu, if the same is not queued yet.
QueueSync ==
  /\ asked # Never
  /\ IF syncReq = asked THEN UNCHANGED <<syncReq, token>> ELSE syncReq' = asked /\ token' = TRUE
  /\ asked' = Never
  /\ UNCHANGED <<bankVars, connVars, tableVars, backoff, gate, runVars, viewerVars,
                 ghostVars, counters>>

Book(c) ==
  /\ bookedAt[c] = Never
  /\ bookedAt' = [bookedAt EXCEPT ![c] = clock]
  /\ UNCHANGED <<clock, alive, allButClock>>

Scanning ==
  \/ rpc \in {"ingest", "cover", "pollIngest"}
  \/ \E v \in Viewers : vpc[v] \in {"ingest", "cover"}

\* Time passes, at most MaxScan of it between an answer and its record.
Tick ==
  /\ clock < MaxClock
  /\ Scanning => clock - fetchedAt < MaxScan
  /\ clock' = clock + 1
  /\ UNCHANGED <<bookedAt, alive, allButClock>>

\* The bank ends the session.
KillSession ==
  /\ alive /\ alive' = FALSE
  /\ UNCHANGED <<clock, bookedAt, allButClock>>

\* A pause, a resume or a new login attempt.
LeaveMonitoring ==
  /\ monitoring
  /\ monitoring' = FALSE /\ generation' = generation + 1
  /\ UNCHANGED <<bankVars, tableVars, backoff, gate, runVars, syncVars, viewerVars,
                 ghostVars, counters>>

\* A login is completed.  It was verified under the gate after the connection
\* left MONITORING, so no poll that read MONITORING holds the gate.
Login ==
  /\ logins < MaxLogins
  /\ ~monitoring /\ gate # Runner
  /\ monitoring' = TRUE /\ generation' = generation + 1 /\ alive' = TRUE
  /\ logins' = logins + 1
  /\ UNCHANGED <<clock, bookedAt, tableVars, backoff, gate, runVars, syncVars, viewerVars,
                 ghostVars, restarts, syncs>>

BackoffEnds ==
  /\ backoff /\ backoff' = FALSE
  /\ UNCHANGED <<bankVars, connVars, tableVars, gate, runVars, syncVars, viewerVars,
                 ghostVars, counters>>

\* The process stops and starts again: only the tables survive.
Restart ==
  /\ restarts < MaxRestarts
  /\ restarts' = restarts + 1
  /\ rpc' = "top" /\ sched' = "NONE" /\ pending' = FALSE /\ backoff' = FALSE /\ gate' = Free
  /\ rGen' = 0 /\ expected' = Never /\ catchFrom' = 0 /\ upTo' = 0 /\ day' = 0
  /\ rows' = {} /\ whole' = FALSE /\ fetchedAt' = 0
  /\ syncReq' = Never /\ token' = FALSE /\ asked' = Never
  /\ vpc' = [v \in Viewers |-> "idle"] /\ vGen' = [v \in Viewers |-> 0]
  /\ vFrom' = [v \in Viewers |-> 0] /\ vTo' = [v \in Viewers |-> 0]
  /\ vRows' = [v \in Viewers |-> {}] /\ vWhole' = [v \in Viewers |-> FALSE]
  /\ UNCHANGED <<bankVars, connVars, tableVars, scannedAt, origin, logins, syncs>>

Next ==
  \/ RunStep
  \/ \E v \in Viewers : HistoryStep(v) \/ \E from, to \in Days : EnsureHistory(v, from, to)
  \/ AskSync \/ QueueSync
  \/ \E c \in Credits : Book(c)
  \/ Tick \/ KillSession \/ LeaveMonitoring \/ Login \/ BackoffEnds \/ Restart

Spec == Init /\ [][Next]_vars

\* Run never stops, and its timer fires in the end: signals of the settings and
\* of manual syncs do not precede it for ever.  The bank answers a request that
\* is repeated for ever: it lets a catch-up connect, it gives each day whole,
\* and it shows the login page to a keepalive of a dead session ...
FairSpec ==
  /\ Spec
  /\ WF_vars(RunStep)
  /\ WF_vars(BackoffEnds)
  /\ SF_vars(TimerFires)
  /\ SF_vars(MayAnswer(rGen) /\ CatchConnect)
  /\ \A d \in Days : SF_vars(day = d /\ CatchFetch(TRUE))
  /\ SF_vars(PollAnswered(TRUE)) /\ SF_vars(KeepaliveRefused)

\* ... and to a poll of one.
FairPollSpec == FairSpec /\ SF_vars(PollRefused)

-----------------------------------------------------------------------------
(* Properties                                                              *)

Stored(c) == source[c] # "NONE"

\* Coverage does not lie: whatever the bank had booked on a day before the
\* answer its coverage record rests on is stored, although the connection may
\* lose its session or change generation between the answer, the ingest and
\* the record (EnsureHistory, catchUp, the fence of the ingest).
CoverageHonest ==
  /\ \A d \in Days : syncedAt[d] # Never => scannedAt[d] # Never
  /\ \A c \in Credits :
       bookedAt[c] # Never /\ bookedAt[c] < scannedAt[DayOf(bookedAt[c])] => Stored(c)

\* The checkpoint passes a day only after a whole scan of it, made at the
\* earliest YesterdayTTL (and the length of a scan) before the day ended: the
\* most a catch-up overlooks is what was booked after that scan.
CheckpointAccounts ==
  \A d \in origin..checkpoint :
    /\ scannedAt[d] # Never
    /\ d < checkpoint => scannedAt[d] >= LastTickOf(d) + 1 - YesterdayTTL - MaxScan

\* A manual sync that was accepted is never forgotten: its token is in the
\* channel or in the hands of Run (RequestSync and the syncCh branch of Run).
SyncNotLost == syncReq # Never => token \/ rpc = "taking"

Realtime == sched = "REALTIME" /\ monitoring /\ alive
OnToday(c) == bookedAt[c] # Never /\ DayOf(bookedAt[c]) = Today

\* Once realtime monitoring is undisturbed, what is booked today gets stored,
\* unless the day ends first, whatever failed before: a catch-up that is owed,
\* incomplete or in back-off does not block the polls for ever.
TodayStored ==
  \A c \in Credits : <>[]Realtime => [](OnToday(c) => <>(Stored(c) \/ ~OnToday(c)))

\* In KEEPALIVE_ONLY a session the bank has ended is noticed: the connection
\* does not go on claiming to be monitored (pollKeepalive).
LossNoticed ==
  <>[](sched = "KEEPALIVE_ONLY") => [](monitoring /\ ~alive => <>(~monitoring \/ alive))

\* Run uses a session as Session, the promise of Connection, lets it: a
\* catch-up or poll is at work with the session it read, from the read to the
\* return, and gives up no other (the generation in catchUp and pollOnce).
LastSession == IF monitoring THEN generation ELSE generation - 1
PolledSessions == IF gate = Runner THEN {rGen} ELSE {}

Abstract == INSTANCE Session
  WITH monitored <- monitoring, era <- LastSession, polled <- PolledSessions

ImplementsSession == Abstract!Spec

\* The poll ends SUCCEEDED.
PollSucceeds == PollIngest /\ whole /\ FencePasses(rGen)
BookedOn(c, d) == bookedAt[c] # Never /\ bookedAt[c] < fetchedAt /\ DayOf(bookedAt[c]) = d

\* A poll that ends SUCCEEDED has everything the bank had booked on the day
\* it answered, whatever was booked, stored or lost between the answer and
\* the ingest (isPartial and the fence in pollOnce).
PollCoversToday ==
  [][PollSucceeds => \A c \in Credits : BookedOn(c, DayOf(fetchedAt)) => Stored(c)']_vars

(* What the plans and comments of the repository say, and the code does not *)

\* It has everything the bank booked yesterday and today before it answered
\* (the comment of PrepareHistoryFields).
PollCoversYesterday ==
  [][PollSucceeds =>
       \A c \in Credits : \A d \in {DayOf(fetchedAt), DayOf(fetchedAt) - 1} :
         BookedOn(c, d) => Stored(c)']_vars

\* Realtime polling starts after a catch-up has scanned what was missed.
RealtimeAfterCatchUp ==
  rpc = "poll" /\ expected = Never => \E d \in Days : scannedAt[d] # Never

\* While the schedule is REALTIME, a session the bank has ended takes the
\* connection out of MONITORING.
LossNoticedInRealtime ==
  <>[](sched = "REALTIME") => [](monitoring /\ ~alive => <>(~monitoring \/ alive))

=============================================================================
