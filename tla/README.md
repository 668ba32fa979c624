# Verification of the ACB transaction gateway

The gateway logs in to one ACB bank account, polls its history page, stores new
credits in SQLite, and tells webhook and Bark endpoints and open browser tabs
about them, which may speak them. This directory holds TLA+ models of its parts,
the TLC runs that check them and TLAPS proofs of every safety property they find
to hold. `PROJECT.json` maps each definition to the lines it stands for, and
lists hazards, runs, mutants and theorems.

## 1. The system

One process (`cmd/gateway`) with one SQLite database; a transaction
(`Store.withTx`) or a single statement is atomic, and nothing is held between
two store calls. A second container, the auth-browser, runs the browser in which
an administrator logs in. The state that matters is in the tables; goroutines
keep little of their own, and the sidecar and the pages keep theirs in memory.

| Component | State | Operations | What makes it correct |
|---|---|---|---|
| Notification outbox (`storage/deliveries.go`, `events.go`, `notifications.go`; `notification/dispatcher.go`; senders) | `deliveries`, `delivery_attempts`, `webhook_endpoints` | commit with the event, claim under a lease, look up, send, record, settle or retry, replay, restart | at least once, nothing called delivered that was not, a live lease is exclusive, retries are bounded, everything is settled |
| Connection and login (`storage/repository.go`, `auth_attempts.go`, `sessions.go`, `queries.go`; `httpapi/server.go`; `monitor/session.go`, `verifier.go`) | `connections.state, generation`; `auth_attempts`; `sessions`; the client's cookies; the upstream gate (`Monitor.mu`) | start, query, cancel and finish a login; pause and resume; expiry sweep; restore, poll, persist | a starting connection has an open attempt, a monitored one a session of its generation, a poll judges only its own session, a pause lasts |
| Auth-browser (`cmd/auth-browser`) | the session pointer under `server.mu`, its status, handoff and contexts; one Chromium and three goroutines per session | start, status, stop, complete, launch, observe, expire, reap | an attempt hands over its own browser's cookies, a login is recognised by evidence, a finished session's browser is stopped |
| Bank monitor (`monitor/monitor.go`, `singleflight.go`; `storage/coverage.go`, `checkpoints.go`, `transactions.go`) | `transactions`, `history_coverage`, `checkpoints`; `catchUpPending`, `backoffUntil`, `syncReq`, `syncCh` | Run, catch-up, realtime poll, keepalive, manual sync, `EnsureHistory` | coverage and checkpoint do not claim what is not stored, today's credits are stored, a dead session is noticed, a sync is not forgotten |
| ACB client and parser (`acb/parser.go`, `classify.go`; `fetchHistoryRange`, `pollOnce`) | one scan: pages, rows, stated totals | request pages, read tables and rows, decide that the scan is complete | what calls itself complete has what the bank showed |
| Schedule and settings (`storage/schedule.go`, `monitor_settings.go`; Run's timer) | `monitor_settings` with its revision; `cachedSettings`, the timer, `settingsCh` | save, signal, reload, resolve, sleep | the loop goes by the window of the present moment, a saved setting reaches it |
| Realtime stream (`eventhub`, `httpapi/sse.go`, `storage/journal.go`, `web/src/realtime`) | `event_journal`, a subscriber's channel and watermark, the page's last event id | append, publish a hint, greet, resume or refuse, replay, retain, reconnect | a page hears every entry in order, or is told to start over |
| Voice (`web/src/features/voice-announcements`) | the lead among tabs; burst buffer, queue, reserved and processed credits of a tab | claim, heartbeat, collect, speak, cancel, switch off | a credit is announced once, and none stays reserved once there is sound |
| HTTP API, roles and security; speech service; web pages | see `PROJECT.json` | | not modelled, see section 7 |

They interact as follows. The HTTP handlers and the monitor share the connection
row and the gate. The gateway asks the auth-browser to start and stop a browser,
polls its status and fetches the cookies. The monitor's ingest writes
transaction, event, deliveries and journal entry in one transaction, then calls
back: `hub.Publish` wakes the handlers of open pages, `dispatcher.Wake` wakes the
dispatcher. Both are hints; both consumers read the tables. A change of settings
signals `settingsCh`. A page passes the credits it hears to its tab's voice.

Hard behaviours: handlers of several tabs interleave with polls between any two
store calls; leases run out while a sender is still out; a process dies between
a send and its record; the bank ends sessions, answers late, in part or not at
all; the day changes between two polls; five goroutines end a browser session;
hints are dropped and overtake each other; connections break; what was
cancelled settles afterwards.

## 2. Modules

| Module | Models |
|---|---|
| `Outbox` | what the outbox promises: a delivery is owed until it is kept or broken |
| `Delivery` | deliveries table and dispatcher; implements `Outbox` |
| `Session` | what may be relied on about the bank session while work is done with it |
| `Connection` | connection, attempts, session, polls and gate, one action per store call; implements `Session` |
| `LoginPage` | what the controller takes for a login: operators over tabs, forms and cookies |
| `AuthBrowser` | the controller's sessions; uses `LoginPage` |
| `BankMonitor` | Run, catch-up, poll, keepalive, EnsureHistory, coverage, checkpoint; keeps to `Session` |
| `HistoryPages`, `HistoryScan` | budget and signals of pages; one scan over them |
| `Schedule`, `MonitorClock` | the schedule as operators; settings and clock of the loop |
| `Feed` | what an open page is promised of the journal |
| `Stream` | journal, hub, SSE handler and page; implements `Feed` |
| `Leader` | which tab announces, with Web Locks, a BroadcastChannel or neither |
| `Voice` | burst buffer, queue and deduplication of one tab |
| `MCParts` | `Stream`, `Leader`, `Voice`, `MonitorClock`, `HistoryScan` in one run |
| `MCDelivery`, `MCDeliveryLive`, `MCConnection`, `MCAuthBrowser` | values for TLC |
| `DeliveryProofs`, `ConnectionProofs`, `AuthBrowserProofs`, `BankMonitorProofs`, `ClockAndScanProofs`, `StreamProofs`, `VoiceProofs`, `PartsProofs` | theorems; `ClockAndScanProofs` is about `Schedule`, `MonitorClock` and `HistoryScan`, `VoiceProofs` about `Leader` and `Voice`, `PartsProofs` about `MCParts` |

**Delivery.** `pc[w]` says where goroutine `w` is in `DispatchOne`; `job`,
`tryNumber`, `tryBase` are the `Delivery` value it holds, `claimedBy` is the
claim token. Time is relative: `dueIn` and `leaseLeft` are ticks until
`next_attempt_at` and `lease_until`, `age` the ticks since the worker read the
clock. The clock read of `DispatchOne` and its claim are one instant. A tick is
a second; times are compared as texts that drop trailing zeros, so that two
times of one second may sort either way: a claim may take what is due or over in
its second (`InFavour`), and is sure to see only what was so in an earlier one
(`Against`). The abstract promise is computed from `status` (`Abstract ==
INSTANCE Outbox WITH ...`) and may be kept only where `reached` says an endpoint
accepted a copy.

**Connection.** `hpc[h]` is the store or browser call a request makes next and
`mpc` the same for the poll, so any two requests and the poll interleave at
every call. `gate` is `Monitor.mu`. `sessionCookies` and `cookies` remember
which login made the stored cookies and those in the client, which the program
cannot see and the properties are about. `Restart` forgets requests and the
client.

**AuthBrowser.** `session` is the pointer `server.mu` protects; status,
contexts, Chromium, launch, observer and the start request that waits for a
former browser (`old`) are kept per session, also for sessions the pointer has
left, since their goroutines go on. `start` is three steps, because it lets go
of the lock while it reaps and does not look at `s.session` again. The observer
looks (unlocked) and writes (locked) in two steps. A look is any browser of the
constant `Browsers`, judged by `LoginPage`: displayed prompts, evidence of an
account, cookies of the bank's domain, the best of the forms. `DomSignals`,
`Score` and the reasons for waiting keep the code's conditions and drop its
selectors.

**BankMonitor.** Time is a clock, a day is `DayLength` ticks, and coverage
lifetimes are ticks too. `rpc` is where `Run` is, `vpc[v]` where a viewer's
`EnsureHistory` is; both work behind `gate`. A bank answer is a set of rows and
whether it is whole. Every ignored error (saving coverage or checkpoint, reading
the checkpoint) is a choice. The connection is reduced to whether it is
MONITORING and its generation, and `pollKeepalive` is one step; `Connection` has
its steps. That a login is not completed during a poll that read MONITORING is
what `Session` says and `Connection` implements; `BankMonitor` implements
`Session` too, so that both sides of the reduction keep to one specification.
The schedule is any sequence of modes. Three ghosts serve the properties:
`fetchedAt`, `scannedAt`, and `origin`, from which day on the checkpoint's
account is unbroken.

**HistoryScan.** The bank shows any pages; `step` is where the scan is between
requesting a page and its rows. Cells are abstracted to what the parser's row
loop distinguishes: a transaction with or without a description, a row that
becomes the description of the one before, an empty-history marker, a row that
spoils the page. `shown` and `taken` are ghosts: what was on the rows read, and
what of it was swallowed as a description. `BankMonitor` takes the outcome of a
scan, whole or not, as given.

**Schedule, MonitorClock.** `ResolveSchedule`, `Validate` and `NextTransition`
are operators over a weekday and a second, for days of any length. The clock's
loop resolves, sets its timer to the earlier of its wait and the transition, and
is woken by the timer, a sync or `settingsCh`, which holds one token for any
number of saves (`unsignalled` counts committed saves whose signal is not sent
yet).

**Stream.** The page, its connection's handler and the wire between them. A hint
is a sequence number in the subscriber's channel; `watermark` is the handler's
local. `greeting` and `flight` are lost with the connection, and the page
connects again with `lastEventId`. One page is enough, as pages share nothing
but journal and hub, whose publishers never wait.

**Leader, Voice.** `inbox[t]` are the tabs a message of which is on its way to
`t`; a tab that can open no channel is `alone` and leads. A message to be spoken
is the set of its credits. `abandoned` are messages whose loop has been cancelled
and whose promise has not settled: their release comes later, when the queue may
be full again. `audio` is whether the browser lets the AudioContext run: it may
refuse from the start (autoplay), a user's gesture unlocks it, and it may be
interrupted. Without it the promise of `speak` may settle or wait.

## 3. Runs

| Run | Bounds | Shows |
|---|---|---|
| `delivery` | 2 events, 1 endpoint, 2 goroutines, lease 2, sends up to 2 ticks (as long as the lease), 2 retries, 1 replay | exclusive leases, one sender, tries, attempt numbers, causes of dead letters, refinement of `Outbox` |
| `delivery_live` | 1 goroutine whose send ends within its lease, 1 fault, 1 replay | tries are bounded, every delivery is settled |
| `connection` | 2 requests, 2 attempts, 1 operator action | the state agrees with attempts and session, polls own their session, pauses hold; refinement of `Session` |
| `connection_live` | 1 request, 2 attempts, 2 actions, 1 restart | a stalled login ends |
| `browser` | 2 sessions at once, 2 browsers: a login form alone, and beside the account's tab | cookies belong to their attempt, finished sessions are reaped and stay finished, everything ends |
| `monitor` | 1 credit, 1 viewer, 2 logins; a day of 2 ticks and the day before it | coverage is honest, a poll that succeeds has today |
| `monitor_days` | days of 3 ticks: the day before, a whole day and the first tick of the next; no viewer, 1 login, 1 restart, 2 syncs | the checkpoint's account, manual syncs that coalesce |
| `monitor_live` | 1 credit, no viewer, 1 login; a day of 2 ticks and the day before it | today is stored, a loss is noticed |
| `parts` | see below | the stream implements `Feed` and catches up; one leader, one announcement; the loop goes by its schedule; complete scans are complete |
| `midnight`, `catchup_dropped`, `loss_unnoticed` | as `monitor_live`, `midnight` and `catchup_dropped` from the last tick of a day to the first of the next | section 6 |

`parts` checks five small components at once. They share no state that a
property is about, so a behaviour belongs to one (`part`) while the others stand
still. Bounds: 3 journal entries, batches of 2, a channel of 1, 2 breaks or
restarts; 3 tabs and 1 event; 3 credits, each of whose events may come any
number of times; a week of days of 6 seconds, settings with windows within a
day, over midnight, on single days, overlapping and paused, two that are not
valid, 1 revision; 2 transaction numbers, pages that state a total of 1, 2, 4 or
none, 2 rows expected on a page, budgets of 2 pages raised to 3 at most.

Why the bounds are enough. A lease conflict needs two claims of one endpoint and
time for one to run out: two goroutines and sends that last until the second
the lease ends in, when the texts of the times may or may not let another
claim. Two attempts let an old login, or an old browser, meet a new one, and two requests
make every pair of handlers concurrent. With three ticks a day has an early
scan, from which yesterday's coverage may not be trusted, and a late one, from
which it may; the tick after midnight is where the checkpoint passes that day.
Credits do not interact in the monitor, so one is enough, and the checkpoint's
account needs none. `delivery` has no fault: the refinement of `Outbox` over
crashes and failed store calls is proved, and what follows them is run by
`delivery_live`. Three entries fill a batch and leave a rest, and a channel
of one drops hints; two breaks let a connection resumed after one be lost again.
Three tabs have two claims cross while a third hears both in either order. Three
credits are spoken one by one, or as a summary while more wait. What the bounds leave out: a
viewer's scan that lasts over midnight, more than seven days away (`Window` is 1
day), and daylight saving. The theorems of section 5 have no such bounds.

Deadlock is checked in all runs but `parts`, in which the system may really
stop: a page that is refused, a scan that is over, tabs that are all closed.

### Fairness

* `delivery_live`: the clock advances (WF) and the goroutine takes its next step
  (WF; the ticker of `Start` wakes a drain every two seconds, as long as rows
  are due).
* `connection_live`: only the expiry ticker fires and `expires_at` passes. No
  request is obliged to continue, since a tab may be closed at any point.
* `browser`: WF of a request in the middle of start, of launch, of the
  observer's writes and end (a goroutine that is runnable runs), of the deadline
  (a context with a deadline ends), and of the exit of a process whose context
  is done (`exec.CommandContext` kills it). Nothing is asked of administrator or
  gateway.
* `monitor_live`: Run goes on (WF); the timer branch of its select is taken in
  the end (SF: select chooses at random, and signals of the settings are finite
  in any interval); the back-off ends (WF); the bank answers a request that is
  repeated for ever (SF on a whole answer for each day, on a whole poll, on the
  login page for a dead session). Without the last, nothing could be promised.
* `parts`, stream: WF of the handler, of the delivery of what is on the wire, of
  the EventSource's next attempt (which may be refused for good), and of each
  publish that follows a commit. Voice: WF of the burst timer and of the pause;
  of the engine's promise, for the message spoken and for each that was cut off,
  only while there is sound. `playAudioBuffer` awaits `resume()` without a limit
  and `cancel` does not settle it (`transaction-audio-engine.ts:168-176`,
  `208-220`), so without sound nothing obliges the promise to settle, and
  nobody is obliged to unlock it. With it, the request ends (the server gives up
  after 30 s, `main.go:269`) and what was decoded is played to its end or
  stopped; that the browser calls back then is assumed.

## 4. What the properties say

The exact statement and the code it is about stand beside each definition.

* `LeaseProtects`, `OneAtATime`, `AttemptNumberFresh`,
  `PendingHasTriesLeft`, `TriesBounded`, `DeadLetterHasCause`,
  `EventuallySettled`, `ImplementsOutbox`: section 1. `OneAtATime` is said of rows
  (`OneLeasePerEndpoint`) and of goroutines (`OneSenderPerEndpoint`): the second is
  what lease, token and NOT EXISTS are for together; like `LeaseProtects` it ends
  with the second the lease ends in, in which the texts may deceive a claim.
* `StartingHasAttempt` is the argument for `FinishAuthAttempt`, which resets the
  connection by generation without looking at its state.
* `PollOwnsSession` is why the gate must be held from the restore of a session
  to `FinishPoll`, although `StartPoll` reads the connection again.
* `ImplementsSession`: work with a session begins while it is monitored, no login
  comes before it ends, and no session but the last is found dead. In
  `Connection` this needs the verifier to take the gate and the fences of
  `FinishPoll`; of Run, whose catch-ups and polls stay at work with the generation
  they read, it is proved and not run.
* `PauseHolds` has one exception the code makes: a login whose request read the
  pause may end it.
* `HandoffKept` (`HandoffOwn` and `CompletedForgotten`): the observer reads the
  browser unlocked and may write after its session was completed, stopped or
  replaced. It looks again under the lock; without that, cookies come back or go
  to another login.
* `FinishedIsReaped`, `NoZombie`, `FinishedStays`, `EverythingEnds`: five
  goroutines may end a session. A session displaced by a second start (see
  section 7) is out of every request's reach; its deadline still ends it.
* `CoverageHonest`: what was booked on a day before the answer its coverage
  rests on is stored, although generation and session may change between answer,
  ingest and record.
* `PollCoversToday` is what the code keeps of the comment `midnight` refutes: a
  poll that ends SUCCEEDED has the day of its answer, not the one before.
* `CheckpointAccounts` bounds what a catch-up may overlook: what was booked
  after a scan made in the last two hours of a day. It is a bound, not zero,
  because a covered yesterday is skipped (`monitor.go:797`).
* `TodayStored` and `LossNoticed` are the two promises of an undisturbed monitor.
* `ScanHonest`: `CompleteMeansAll` has an exception the parser makes: a
  transaction whose amount cannot be read, on the row after one without a
  description, passes for its description; only a stated total reveals it.
  `EmptyIsSaid`: a page that could not be read never passes for an empty
  history.
* `ModeIsScheduled` has one too: `NextTransition` does not look at a window that
  stands earlier in the list and begins while another is active, so the loop
  goes on by the later one until its next request. `SettingsReach`: no save is
  lost between commit, signal and reload, but for a reload that fails.
* `NothingSkipped` (`Stream` implements `Feed`) and `EverythingHeard`: dropped
  and overtaking hints, retention during a replay and lost connections neither
  skip, repeat nor reorder an entry; the latest is heard in the end.
* `LeadersMeet`: of two tabs on the channel that both lead, one is about to hear
  of the other. `AnnouncedOnce` holds with Web Locks only; with the channel two
  tabs may announce a credit while claims cross, and tabs without either
  announce every credit, each on its own.
* `ReservedIsPending`, `InOnePlace`: a credit is reserved exactly while something
  is left that may speak or release it. One more and it is silent for ever, one
  less and it is spoken twice. `Settles`: once there is sound for good, that
  something comes. Without sound it need not, see section 6.

Each property has a mutant in `PROJECT.json`: a small fault (`Faulty...`) put in
place of a definition, with which the property fails.

## 5. Proofs

Everything below is proved for all values of the constants that satisfy the one
named assumption of the module (`DeliveryAssumption`, `ConnectionAssumption`,
`AuthBrowserAssumption`, `BankMonitorAssumption`, `ScheduleAssumption`,
`HistoryScanAssumption`, `StreamAssumption`; `Leader` and `Voice` have none).
They say little more than the types of the constants, such as a batch and a
channel of at least one. Each module proves type correctness and what follows.

* `DeliveryProofs`: `LeaseProtects`, `OneLeasePerEndpoint`,
  `OneSenderPerEndpoint`, `PendingHasTriesLeft`, `AttemptNumberFresh`,
  `DeadLetterHasCause`, the refinement of `Outbox`, and `TriesBounded` under
  `OneDispatcher` (one goroutine, a dispatch that ends before that second: with
  two, a lost claim costs a try too). A worker's copies agree with the row only
  while it holds the claim (`ClaimsCurrent`), which it does until the second its
  lease ends in (`ClaimsKept`); attempt numbers in use, in the history and on
  the row are ordered and distinct (`NumbersUsed`, `NumbersDistinct`,
  `NumbersUnlogged`); a success in a worker's hands was an acceptance
  (`SuccessReached`). Settling a row with a stale token is then a stutter of
  `Outbox`. A row left in flight by nobody has cost a fault its tries do not
  show yet (`TriesSpent`).
* `ConnectionProofs`: `StartingHasAttempt`, `MonitoringHasSession`,
  `PollOwnsSession`, `PauseHolds`. No attempt or session is ahead of the
  connection (`Behind`); what a request in the middle of its calls still knows
  (`RequestsKnow`); who holds the gate (`GateHeld`); during a poll the connection
  is the one it read or no longer monitored (`PollFence`), with the loaded
  cookies its own (`PollLoaded`). Of the refinement of `Session`: while a login is
  under way the stored session is older than it (`SessionIsOlder`), and who polls
  has the last one (`PollsLastSession`); the calls of all requests are stutters,
  but those that complete a login or leave MONITORING.
* `AuthBrowserProofs`: `HandoffOwn`, `CompletedForgotten`, `FinishedIsReaped`,
  `NoZombie`, `FinishedStays`. A start holds a former session exactly while it
  reaps it (`OldWhileReaping`), is not the session's while it has let go of the
  lock (`StartingAbsent`), and a finished session is reaped also before its
  process was started (`ReapedBeforehand`). And about `LoginPage`:
  the tab that is handed over shows no login prompt, is logged in and has a form
  that can be replayed (`LoginTabIsLoggedIn`); two of the reasons for waiting are
  never given (`ReasonIsNeverVague`).
* `BankMonitorProofs`: `CoverageHonest`, `PollCoversToday`,
  `CheckpointAccounts`, `SyncNotLost`, the refinement of `Session` (from
  `WorksWithLast`: while Run holds the gate it works with the last session), for
  any credits, viewers, lengths of day and lifetimes. `CoverageInv`: who works
  holds the gate (`GateHeld`), nothing is booked or scanned in the future
  (`Past`), a whole answer has what was booked before it (`Answered`), coverage
  is recorded of an answer that has been stored (`Recorded`). `AccountInv` adds
  that a scan is recorded within its longest duration (`OnTime`, `Synced`), that
  a catch-up has left behind it days that are done (`CatchingUp`), and so has
  the checkpoint (`Account`): their last scan was close enough to the day's end.
  The arithmetic is in `DayIsOver` and `CoveredIsDone` (coverage that has not
  run out after midnight was made at the day's end); `ScansGrow` and `DoneStays`
  keep a day done.
* `ClockAndScanProofs`, scans: `CompleteMeansAll`, `EmptyIsSaid`. Rows are kept,
  apart from what was taken for a description (`RowsKept`), and a scan that
  holds as many numbers as a total that counts all it was shown holds them all
  (`EnoughIsAll`).
* `ClockAndScanProofs`, clock: `ModeIsScheduled`, `SettingsReach`. While the
  loop is asleep the window it goes by matches, and its timer expires no later
  than the transition (`Asleep`); until the transition an active window stays
  so, and none begins when none was active (`NothingChangesBeforeTransition`,
  over midnights and weekdays, for any list of windows).
* `StreamProofs`: the refinement of `Feed`. On the wire are entries between the
  page's place and the handler's watermark, and all the journal still has of
  these (`Between`), from a place the page was greeted with or resumed at
  (`Greeted`, `InPlace`); without a connection nothing is (`Unconnected`).
  Lemmas say that a batch is a prefix of what is left, and all of it when it is
  not full.
* `VoiceProofs`: `LeadersMeet`, `AnnouncedOnce`, `ReservedIsPending`, `InOnePlace`.
  Without locks leaders are open tabs, and two of them on the channel have a
  claim on the way between them;
  with them a credit of an open tab belongs to the leader that stays one until
  it is closed (`LockInv`). A message exists only in a loop that speaks
  (`LoopShape`), credits are in one of buffer, queue, message and abandoned ones
  (`Apart`), and those together are the reserved (`Kept`); sequences enter by
  lemmas on what `Append`, concatenation and `Tail` do to their items.

* `PartsProofs`: a behaviour of the run `parts` is one of each component
  (`PartsAreComponents`), so `PartsTypeOK` and what is proved above hold of it.

Only model-checked: every liveness property (`EventuallySettled`, `StartingEnds`,
`TodayStored`, `LossNoticed`, `EverythingEnds`, `EverythingHeard`, `Settles`), for
liveness under fairness and ENABLED are out of this prover's reach, as is
induction over data: what a recursive definition computes for every input.

## 6. Where code and documents disagree

Shown by runs:

* `midnight`: the realtime query is for today only, the comment of
  `PrepareHistoryFields` says yesterday through today. A credit booked after the
  last poll of the evening is missed by every later poll; while REALTIME lasts
  over midnight no catch-up is due either.
* `catchup_dropped`: a catch-up that comes due while nobody is logged in counts
  as done. After the login only today is polled.
* `loss_unnoticed`: a session that is dead when REALTIME begins makes every
  catch-up fail, and the poll that would report it is never reached. It stays so
  until the schedule leaves REALTIME or somebody asks for a manual sync.

Noticed while modelling, and part of the models where they touch a property:

* `Validate` lets windows overlap (a plan lists "Overlap validation",
  `PLAN_V3_...:1717`); an earlier one that begins while a later one is active
  waits for the next request, up to ten minutes when the loop is paused. At a
  transition the timer fires one last request in the old mode. The shown
  `nextMode` ignores overlaps. `7:00` and `07:00` pass for different times.
* A reload of the settings that fails spends the signal; the next save repairs it.
* `start` lets go of `server.mu` while it reaps and does not look at `s.session`
  again (`main.go:233-268`): two starts may make two Chromiums, of which the
  displaced one ends only at its deadline. A session stays VERIFIED after its
  Chromium died.
* Of the observer's conditions, "multiple positive signals" follows from the
  others, and two reasons for waiting are never given.
* A page whose connection is lost before its first entry is greeted anew without
  fetching again what it may have missed; `Feed` promises nothing before it. An
  EventSource is closed for good by an answer other than 200.
* Without Web Locks two tabs that hear of each other's claim both yield, and
  nobody leads for four seconds or more. Without a BroadcastChannel too, or when
  it cannot be opened, every such tab leads (`multi-tab-leader.ts:96-102`).
* While the browser blocks sound, as after a reload with voice enabled and
  without a gesture, a credit can stay reserved and the queue "speaking" for
  ever: `speak` waits for `resume()`, and a cancel neither settles that nor
  releases the credit, whose later events are taken for duplicates in this tab.
  The `AUDIO_LOCKED` error of `transaction-audio-engine.ts:172` is thrown only if
  `resume()` is rejected. A plan has the state AUDIO_LOCKED for this, asks that it
  not fail silently (`PLAN_V5_...:938-954`), and has a failure release the
  reservation (`:1045-1049`). What was cancelled meanwhile is spoken after
  the unlock.
* Any error of the target lookup, also a transient one, dead-letters the
  delivery (`dispatcher.go:109`).
* The realtime poll does not look at stated totals and checks the kind of the
  first page only. Tables after the first with a transaction are not read. A
  description with the word "maintenance" makes a history page a maintenance
  page (`classify.go:31`).
* A credit whose row was first stored by a viewer's request gets no event, as a
  comment at `transactions.go:208` intends.

## 7. Not modelled, and why

* HTTP API, roles and security: stateless checks of requests, encryption,
  configuration. The handlers that change state are in `Connection`,
  `AuthBrowser` and `MonitorClock`.
* Speech service: a cache of texts and a circuit breaker in another process;
  nothing the gateway's state depends on. Web pages: rendering.
* Cells, amounts, dates and forms of the bank's pages: pure conversions. HTTP of
  the senders: only its three outcomes matter.
* The rest of the ingest: semantic keys, quarantine of conflicting rows, events
  by source. It is one transaction; what it commits is `CommitEvent` of
  `Delivery`, `AppendEntry` of `Stream` and the rows of `BankMonitor`. A row whose
  hash differs is quarantined anew at every poll.
* `AuthBrowser`: requests that change nothing (a refused or repeated start, the
  fetch of the handoff), and `stopCurrent` at shutdown, with which the container
  ends. `item.cmd` is read by `reapSession` without the lock while launch writes
  it; the models kill by context, which does not depend on it.
* `Stream`: epochs (the code never changes it), heartbeats, a read of the journal
  that ends early without an error (`journal.go:61` does not ask `rows.Err`).
* Contexts: a cancelled request is one that stops at any step. SQLite errors are
  choices where the code goes on after them. Days that are not 24 hours long.

`PROJECT.json` lists each part, and each hazard without a property with a reason.

## 8. Plan

Done: the modules and theorems above. Left: the ingest as a module of its own,
composed with `BankMonitor` (which rows) and `Delivery` (which events), for
quarantine and semantic keys; one theorem that puts `Connection` and `BankMonitor`
together over `Session`, where each is now proved on its own; the liveness of the
channel's leader under a timing assumption the code does not state; contexts in
the single flight of `EnsureHistory`, whose followers share the leader's
cancellation.
