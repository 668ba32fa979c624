-------------------------- MODULE BankMonitorProofs --------------------------
(***************************************************************************)
(* Proofs about BankMonitor for any credits and viewers, any length of the *)
(* day and any lifetimes of coverage.                                      *)
(***************************************************************************)
EXTENDS BankMonitor, TLAPS

-----------------------------------------------------------------------------
(* Days                                                                    *)

LEMMA DayType == ASSUME NEW tick \in Nat PROVE DayOf(tick) \in Nat
  BY BankMonitorAssumption DEF DayOf

LEMMA DaysGrow ==
  ASSUME NEW a \in Nat, NEW b \in Nat, a <= b PROVE DayOf(a) <= DayOf(b)
  BY BankMonitorAssumption DEF DayOf

\* When a day is over, and when the day after it is.
LEMMA DayIsOver ==
  ASSUME NEW tick \in Nat, NEW d \in Nat
  PROVE  /\ d < DayOf(tick) => LastTickOf(d) + 1 <= tick
         /\ d < DayOf(tick) - 1 => LastTickOf(d) + 1 + DayLength <= tick
<1>1. DayOf(tick) \in Nat /\ DayOf(tick) * DayLength <= tick
  BY BankMonitorAssumption DEF DayOf
<1>2. ASSUME d < DayOf(tick) PROVE d * DayLength + DayLength <= DayOf(tick) * DayLength
  BY <1>1, <1>2, BankMonitorAssumption
<1>3. ASSUME d < DayOf(tick) - 1
      PROVE  d * DayLength + DayLength + DayLength <= DayOf(tick) * DayLength
  BY <1>1, <1>3, BankMonitorAssumption
<1>4. d * DayLength \in Nat /\ DayOf(tick) * DayLength \in Nat /\ DayLength \in Nat
  BY <1>1, BankMonitorAssumption
<1>. QED BY <1>1, <1>2, <1>3, <1>4 DEF LastTickOf

LEMMA ClockDays ==
  ASSUME clock \in MinClock .. MaxClock
  PROVE  /\ clock \in Nat /\ Today \in Days /\ Today \in Nat \ {0}
         /\ DayOf(MaxClock) \in Nat
         /\ Days = 0 .. DayOf(MaxClock)
<1>1. clock \in Nat /\ MaxClock \in Nat /\ clock <= MaxClock /\ DayLength <= clock
  BY BankMonitorAssumption
<1>2. DayOf(clock) \in Nat /\ DayOf(MaxClock) \in Nat /\ DayOf(clock) <= DayOf(MaxClock)
  BY <1>1, DayType, DaysGrow
<1>3. DayOf(clock) >= 1
  BY <1>1, BankMonitorAssumption DEF DayOf
<1>. QED BY <1>1, <1>2, <1>3 DEF Today, Days

LEMMA TodayGrows ==
  ASSUME clock \in Nat, clock' \in Nat, clock <= clock'
  PROVE  Today <= Today' /\ Today' \in Nat
<1>1. DayOf(clock) \in Nat /\ DayOf(clock') \in Nat /\ DayOf(clock) <= DayOf(clock')
  BY DayType, DaysGrow
<1>2. Today = DayOf(clock) /\ Today' = DayOf(clock')
  BY DEF Today, DayOf
<1>. QED BY <1>1, <1>2

LEMMA MaxOfTwo ==
  ASSUME NEW a \in Int, NEW b \in Int
  PROVE  /\ a <= b => Max({a, b}) = b
         /\ b <= a => Max({a, b}) = a
<1>1. ASSUME a <= b PROVE \A x \in {a, b} : (\A y \in {a, b} : x >= y) <=> x = b
  BY <1>1
<1>2. ASSUME b <= a PROVE \A x \in {a, b} : (\A y \in {a, b} : x >= y) <=> x = a
  BY <1>2
<1>3. ASSUME a <= b PROVE Max({a, b}) = b
  BY <1>1, <1>3 DEF Max
<1>4. ASSUME b <= a PROVE Max({a, b}) = a
  BY <1>2, <1>4 DEF Max
<1>. QED BY <1>3, <1>4

LEMMA MinOfTwo ==
  ASSUME NEW a \in Int, NEW b \in Int
  PROVE  /\ a <= b => Min({a, b}) = a
         /\ b <= a => Min({a, b}) = b
<1>1. ASSUME a <= b PROVE \A x \in {a, b} : (\A y \in {a, b} : x <= y) <=> x = a
  BY <1>1
<1>2. ASSUME b <= a PROVE \A x \in {a, b} : (\A y \in {a, b} : x <= y) <=> x = b
  BY <1>2
<1>3. ASSUME a <= b PROVE Min({a, b}) = a
  BY <1>1, <1>3 DEF Min
<1>4. ASSUME b <= a PROVE Min({a, b}) = b
  BY <1>2, <1>4 DEF Min
<1>. QED BY <1>3, <1>4

\* Where a catch-up begins.
LEMMA CatchFromIs ==
  ASSUME Today \in Nat \ {0}, NEW known \in Nat \cup {Never}
  PROVE  /\ known = Never => CatchFrom(known) = Today - 1
         /\ known # Never /\ known < Today - Window => CatchFrom(known) = Today - Window
         /\ known # Never /\ known >= Today - Window =>
              CatchFrom(known) = IF known < Today THEN known ELSE Today
<1>. USE BankMonitorAssumption
<1>1. CASE known = Never
  <2>1. Max({Today - Window, Today - 1}) = Today - 1
    BY MaxOfTwo
  <2>2. Min({Today, Today - 1}) = Today - 1
    BY MinOfTwo
  <2>. QED BY <1>1, <2>1, <2>2 DEF CatchFrom
<1>2. CASE known # Never
  <2>1. known \in Nat /\ CatchFrom(known) = Min({Today, Max({Today - Window, known})})
    BY <1>2 DEF CatchFrom
  <2>2. CASE known < Today - Window
    <3>1. Max({Today - Window, known}) = Today - Window
      BY <2>1, <2>2, MaxOfTwo
    <3>2. Min({Today, Today - Window}) = Today - Window
      BY MinOfTwo
    <3>. QED BY <1>2, <2>1, <2>2, <3>1, <3>2
  <2>3. CASE known >= Today - Window
    <3>1. Max({Today - Window, known}) = known
      BY <2>1, <2>3, MaxOfTwo
    <3>2. Min({Today, known}) = IF known < Today THEN known ELSE Today
      BY <2>1, MinOfTwo
    <3>. QED BY <1>2, <2>1, <2>3, <3>1, <3>2
  <2>. QED BY <2>1, <2>2, <2>3
<1>. QED BY <1>1, <1>2

\* A catch-up that begins after the origin resumes where the checkpoint was.
LEMMA CatchUpResumes ==
  ASSUME Today \in Nat \ {0}, NEW known \in Nat \cup {Never}, origin \in Nat,
         NEW d \in Nat, NewOrigin(known) <= d, d < CatchFrom(known)
  PROVE  known # Never /\ d < known /\ NewOrigin(known) = origin
<1>. USE BankMonitorAssumption
<1>1. known # Never
  BY CatchFromIs DEF NewOrigin
<1>2. known >= Today - Window
  BY <1>1, CatchFromIs DEF NewOrigin
<1>. QED BY <1>1, <1>2, CatchFromIs DEF NewOrigin, Never

-----------------------------------------------------------------------------
(* Types                                                                   *)

\* What is true or false, and the rest.
Switches ==
  /\ alive \in BOOLEAN /\ monitoring \in BOOLEAN
  /\ pending \in BOOLEAN /\ backoff \in BOOLEAN
  /\ whole \in BOOLEAN /\ token \in BOOLEAN
  /\ vWhole \in [Viewers -> BOOLEAN]

\* The clock keeps to its bounds, a round that waits has its mode, and what is
\* being scanned is a day up to the one the catch-up found.
Shapes ==
  /\ clock \in MinClock .. MaxClock
  /\ bookedAt \in [Credits -> Nat \cup {Never}]
  /\ generation \in Nat
  /\ source \in [Credits -> Sources]
  /\ syncedAt \in [Days -> Nat \cup {Never}]
  /\ checkpoint \in Days \cup {Never}
  /\ sched \in Modes \cup {"NONE"}
  /\ gate \in Viewers \cup {Runner, Free}
  /\ rpc \in Places
  /\ rGen \in Nat /\ expected \in Nat \cup {Never}
  /\ catchFrom \in Days /\ upTo \in Days /\ day \in Nat
  /\ rows \in SUBSET Credits
  /\ syncReq \in Nat \cup {Never} /\ asked \in Nat \cup {Never}
  /\ vpc \in [Viewers -> {"idle", "wait", "fetch", "ingest", "cover"}]
  /\ vGen \in [Viewers -> Nat]
  /\ vFrom \in [Viewers -> Days] /\ vTo \in [Viewers -> Days]
  /\ vRows \in [Viewers -> SUBSET Credits]
  /\ fetchedAt \in Nat
  /\ scannedAt \in [Days -> Nat \cup {Never}]
  /\ origin \in Days
  /\ logins \in Nat /\ restarts \in Nat /\ syncs \in Nat
  /\ rpc = "select" => sched \in Modes
  /\ rpc \in {"ingest", "cover", "mark"} => day <= upTo

Typed == Switches /\ Shapes

LEMMA TypedIsTypeOK == Typed => TypeOK
  BY BankMonitorAssumption, clock \in MinClock .. MaxClock => clock \in Nat
  DEF Typed, Switches, Shapes, TypeOK

LEMMA InitTyped == Init => Typed
<1>. SUFFICES ASSUME Init PROVE Typed
  OBVIOUS
<1>1. clock \in MinClock .. MaxClock
  BY BankMonitorAssumption DEF Init
<1>2. Switches
  BY Zenon DEF Init, Switches
<1>3. 0 \in Days
  BY <1>1, ClockDays
<1>. QED BY <1>1, <1>2, <1>3, BankMonitorAssumption DEF Init, Typed, Shapes, Modes, Sources, Places, Never

LEMMA StepSwitches == Typed /\ [Next]_vars => Switches'
<1>. SUFFICES ASSUME Switches, [Next]_vars PROVE Switches'
  BY DEF Typed
<1>. USE DEF Switches, bankVars, connVars, tableVars, runVars, syncVars, viewerVars, ghostVars,
         counters, others, runAndEnv, allButClock
<1>1. ASSUME NEW mode \in Modes, RunTop(mode) PROVE Switches'
  BY <1>1, Zenon DEF RunTop, At
<1>2. CASE Reload
  BY <1>2, Zenon DEF Reload, At
<1>3. CASE ReceiveSync
  BY <1>3, Zenon DEF ReceiveSync, At
<1>4. CASE TakeSync
  BY <1>4, Zenon DEF TakeSync
<1>5. CASE TimerFires
  BY <1>5, Zenon DEF TimerFires
<1>6. CASE LockCatch
  BY <1>6, Zenon DEF LockCatch, Return
<1>7. CASE CatchConnect
  BY <1>7, Zenon DEF CatchConnect
<1>8. CASE CatchSkip
  BY <1>8, Zenon DEF CatchSkip
<1>9. CASE CatchFails
  BY <1>9, Zenon DEF CatchFails, Return, ScansDay
<1>10. ASSUME NEW complete \in BOOLEAN, CatchFetch(complete) PROVE Switches'
  BY <1>10, Zenon DEF CatchFetch, ScansDay, HistoryAnswers
<1>11. CASE CatchIngest
  BY <1>11, Zenon DEF CatchIngest, Return, Ingest, Scanned
<1>12. CASE CatchCover
  BY <1>12, Zenon DEF CatchCover, At, RecordCoveragePerDay
<1>13. CASE CatchMark
  BY <1>13, Zenon DEF CatchMark, At
<1>14. CASE CatchDone
  BY <1>14, Zenon DEF CatchDone, Return
<1>15. CASE LockPoll
  BY <1>15, Zenon DEF LockPoll, Return
<1>16. CASE PollRefused
  BY <1>16, Zenon DEF PollRefused, Return, LoseSession
<1>17. CASE PollFails
  BY <1>17, Zenon DEF PollFails, Return
<1>18. ASSUME NEW complete \in BOOLEAN, PollAnswered(complete) PROVE Switches'
  BY <1>18, Zenon DEF PollAnswered, At, HistoryAnswers
<1>19. CASE PollIngest
  BY <1>19, Zenon DEF PollIngest, Return, Ingest
<1>20. CASE KeepaliveRefused
  BY <1>20, Zenon DEF KeepaliveRefused, Return, LoseSession
<1>21. CASE Keepalive
  BY <1>21, Zenon DEF Keepalive, Return
<1>22. ASSUME NEW v \in Viewers, LockHistory(v) PROVE Switches'
  BY <1>22, Zenon DEF LockHistory, Leave, GoTo
<1>23. ASSUME NEW v \in Viewers, FetchHistory(v) PROVE Switches'
  BY <1>23, Zenon DEF FetchHistory, Leave, HistoryAnswers
<1>24. ASSUME NEW v \in Viewers, IngestHistory(v) PROVE Switches'
  BY <1>24, Zenon DEF IngestHistory, Leave, GoTo, Ingest, Scanned
<1>25. ASSUME NEW v \in Viewers, CoverHistory(v) PROVE Switches'
  BY <1>25, Zenon DEF CoverHistory, Leave, RecordCoveragePerDay
<1>26. ASSUME NEW v \in Viewers, NEW from \in Days, NEW to \in Days, EnsureHistory(v, from, to) PROVE Switches'
  BY <1>26, Zenon DEF EnsureHistory
<1>27. CASE AskSync
  BY <1>27, Zenon DEF AskSync
<1>28. CASE QueueSync
  BY <1>28, Zenon DEF QueueSync
<1>29. ASSUME NEW c \in Credits, Book(c) PROVE Switches'
  BY <1>29, Zenon DEF Book
<1>30. CASE Tick
  BY <1>30, Zenon DEF Tick
<1>31. CASE KillSession
  BY <1>31, Zenon DEF KillSession
<1>32. CASE LeaveMonitoring
  BY <1>32, Zenon DEF LeaveMonitoring
<1>33. CASE Login
  BY <1>33, Zenon DEF Login
<1>34. CASE BackoffEnds
  BY <1>34, Zenon DEF BackoffEnds
<1>35. CASE Restart
  BY <1>35, Zenon DEF Restart
<1>36. CASE UNCHANGED vars
  BY <1>36, Zenon DEF vars
<1>. QED
  BY <1>1, <1>2, <1>3, <1>4, <1>5, <1>6, <1>7, <1>8, <1>9, <1>10, <1>11, <1>12, <1>13, <1>14, <1>15, <1>16,
     <1>17, <1>18, <1>19, <1>20, <1>21, <1>22, <1>23, <1>24, <1>25, <1>26, <1>27, <1>28, <1>29, <1>30, <1>31, <1>32,
     <1>33, <1>34, <1>35, <1>36 DEF Next, RunStep, HistoryStep

\* A viewer goes on, or returns.
ViewerShapes ==
  /\ vpc \in [Viewers -> {"idle", "wait", "fetch", "ingest", "cover"}]
  /\ vGen \in [Viewers -> Nat]
  /\ vFrom \in [Viewers -> Days] /\ vTo \in [Viewers -> Days]
  /\ vRows \in [Viewers -> SUBSET Credits]
  /\ gate \in Viewers \cup {Runner, Free}
  /\ fetchedAt \in Nat

LEMMA GoToShapes ==
  ASSUME ViewerShapes, NEW v \in Viewers,
         NEW place \in {"idle", "wait", "fetch", "ingest", "cover"}, GoTo(v, place),
         gate' \in {gate, v}, UNCHANGED fetchedAt
  PROVE  ViewerShapes'
  BY DEF ViewerShapes, GoTo

LEMMA LeaveShapes ==
  ASSUME ViewerShapes, NEW v \in Viewers, 0 \in Days, Leave(v)
  PROVE  ViewerShapes'
<1>. USE DEF ViewerShapes, Leave
<1>1. (vpc \in [Viewers -> {"idle", "wait", "fetch", "ingest", "cover"}])'
  OBVIOUS
<1>2. (vGen \in [Viewers -> Nat])'
  OBVIOUS
<1>3. (vFrom \in [Viewers -> Days])' /\ (vTo \in [Viewers -> Days])'
  OBVIOUS
<1>4. (vRows \in [Viewers -> SUBSET Credits])'
  OBVIOUS
<1>5. gate' \in Viewers \cup {Runner, Free} /\ fetchedAt' \in Nat
  OBVIOUS
<1>. QED BY <1>1, <1>2, <1>3, <1>4, <1>5

\* A step of a viewer leaves the rest alone, but for what it stores.
LEMMA ViewerStepShapes ==
  ASSUME Shapes, ViewerShapes', UNCHANGED runAndEnv, (source \in [Credits -> Sources])',
         (syncedAt \in [Days -> Nat \cup {Never}])', (scannedAt \in [Days -> Nat \cup {Never}])'
  PROVE  Shapes'
<1>1. UNCHANGED <<clock, bookedAt, generation, checkpoint, origin, logins, restarts, syncs,
                  syncReq, asked>>
  BY DEF runAndEnv, bankVars, connVars, syncVars, counters
<1>2. UNCHANGED <<sched, rpc, rGen, expected, catchFrom, upTo, day, rows>>
  BY DEF runAndEnv, runVars
<1>3. /\ vpc' \in [Viewers -> {"idle", "wait", "fetch", "ingest", "cover"}]
      /\ vGen' \in [Viewers -> Nat]
      /\ vFrom' \in [Viewers -> Days] /\ vTo' \in [Viewers -> Days]
      /\ vRows' \in [Viewers -> SUBSET Credits]
      /\ gate' \in Viewers \cup {Runner, Free} /\ fetchedAt' \in Nat
  BY DEF ViewerShapes
<1>4. /\ clock' \in MinClock .. MaxClock /\ bookedAt' \in [Credits -> Nat \cup {Never}]
      /\ generation' \in Nat /\ checkpoint' \in Days \cup {Never} /\ origin' \in Days
      /\ logins' \in Nat /\ restarts' \in Nat /\ syncs' \in Nat
      /\ syncReq' \in Nat \cup {Never} /\ asked' \in Nat \cup {Never}
  BY <1>1 DEF Shapes
<1>5. /\ sched' \in Modes \cup {"NONE"} /\ rpc' \in Places
      /\ rGen' \in Nat /\ expected' \in Nat \cup {Never}
      /\ catchFrom' \in Days /\ upTo' \in Days /\ day' \in Nat /\ rows' \in SUBSET Credits
      /\ rpc' = "select" => sched' \in Modes
      /\ rpc' \in {"ingest", "cover", "mark"} => day' <= upTo'
  BY <1>2 DEF Shapes
<1>. QED BY <1>3, <1>4, <1>5, Zenon DEF Shapes

\* A return forgets the scan.
LEMMA ReturnShapes ==
  ASSUME Shapes, 0 \in Days, NEW place \in {"top", "lockPoll"}, Return(place),
         UNCHANGED <<others, connVars, checkpoint, sched, syncVars, origin>>,
         (source \in [Credits -> Sources])',
         (syncedAt \in [Days -> Nat \cup {Never}])', (scannedAt \in [Days -> Nat \cup {Never}])'
  PROVE  Shapes'
<1>1. /\ rpc' \in {"top", "lockPoll"} /\ rGen' = 0 /\ expected' = Never
      /\ catchFrom' = 0 /\ upTo' = 0 /\ day' = 0 /\ rows' = {}
  BY DEF Return
<1>2. gate' \in Viewers \cup {Runner, Free} /\ fetchedAt' \in Nat
  BY DEF Return, Shapes
<1>3. UNCHANGED <<clock, bookedAt, generation, checkpoint, origin, logins, restarts, syncs,
                  syncReq, asked, sched, vpc, vGen, vFrom, vTo, vRows>>
  BY DEF others, bankVars, viewerVars, connVars, syncVars, counters
<1>4. /\ clock' \in MinClock .. MaxClock /\ bookedAt' \in [Credits -> Nat \cup {Never}]
      /\ generation' \in Nat /\ checkpoint' \in Days \cup {Never} /\ origin' \in Days
      /\ logins' \in Nat /\ restarts' \in Nat /\ syncs' \in Nat
      /\ syncReq' \in Nat \cup {Never} /\ asked' \in Nat \cup {Never}
      /\ sched' \in Modes \cup {"NONE"}
  BY <1>3 DEF Shapes
<1>5. /\ vpc' \in [Viewers -> {"idle", "wait", "fetch", "ingest", "cover"}]
      /\ vGen' \in [Viewers -> Nat]
      /\ vFrom' \in [Viewers -> Days] /\ vTo' \in [Viewers -> Days]
      /\ vRows' \in [Viewers -> SUBSET Credits]
  BY <1>3 DEF Shapes
<1>6. /\ rpc' \in Places /\ rGen' \in Nat /\ expected' \in Nat \cup {Never}
      /\ catchFrom' \in Days /\ upTo' \in Days /\ day' \in Nat /\ rows' \in SUBSET Credits
      /\ rpc' # "select" /\ rpc' \notin {"ingest", "cover", "mark"}
  BY <1>1 DEF Places
<1>. QED BY <1>2, <1>4, <1>5, <1>6, Zenon DEF Shapes

LEMMA StepTyped == Typed /\ [Next]_vars => Typed'
<1>. SUFFICES ASSUME Shapes, [Next]_vars PROVE Shapes'
  BY StepSwitches DEF Typed
<1>a. /\ clock \in Nat /\ Today \in Days /\ Today \in Nat \ {0}
      /\ DayOf(MaxClock) \in Nat /\ Days = 0 .. DayOf(MaxClock)
  BY ClockDays DEF Shapes
<1>b. ViewerShapes
  BY DEF Shapes, ViewerShapes
<1>c. /\ source \in [Credits -> Sources] /\ syncedAt \in [Days -> Nat \cup {Never}]
      /\ scannedAt \in [Days -> Nat \cup {Never}] /\ Days' = Days
  BY DEF Shapes, Days, DayOf
<1>. USE <1>a, BankMonitorAssumption
     DEF Shapes, Modes, Sources, Places, Never, bankVars, connVars, tableVars, runVars,
         syncVars, viewerVars, ghostVars, counters, others, runAndEnv, allButClock
<1>1. ASSUME NEW mode \in Modes, RunTop(mode) PROVE Shapes'
  BY <1>1 DEF RunTop, At
<1>2. CASE Reload
  BY <1>2 DEF Reload, At
<1>3. CASE ReceiveSync
  BY <1>3 DEF ReceiveSync, At
<1>4. CASE TakeSync
  BY <1>4 DEF TakeSync
<1>5. CASE TimerFires
  BY <1>5 DEF TimerFires
<1>6. CASE LockCatch
  <2>1. CASE monitoring
    <3>1. PICK known \in {checkpoint, Never} :
            catchFrom' = CatchFrom(known) /\ origin' = NewOrigin(known)
      BY <1>6, <2>1 DEF LockCatch
    <3>2. catchFrom' \in Days
      BY <3>1, CatchFromIs
    <3>3. origin' \in Days
      BY <3>1 DEF NewOrigin
    <3>4. /\ rpc' = "connect" /\ gate' = Runner /\ rGen' = generation /\ upTo' = Today
          /\ UNCHANGED <<others, connVars, tableVars, backoff, sched, syncVars, scannedAt,
                         pending, expected, day, rows, whole, fetchedAt>>
      BY <1>6, <2>1 DEF LockCatch
    <3>. QED BY <3>2, <3>3, <3>4
  <2>2. CASE ~monitoring
    BY <1>6, <2>2 DEF LockCatch, Return
  <2>. QED BY <2>1, <2>2
<1>7. CASE CatchConnect
  BY <1>7 DEF CatchConnect
<1>8. CASE CatchSkip
  BY <1>8 DEF CatchSkip
<1>9. CASE CatchFails
  BY <1>9 DEF CatchFails, Return, ScansDay
<1>10. ASSUME NEW complete \in BOOLEAN, CatchFetch(complete) PROVE Shapes'
  BY <1>10 DEF CatchFetch, ScansDay, HistoryAnswers
<1>11. CASE CatchIngest
  <2>1. UNCHANGED <<others, connVars, syncedAt, checkpoint, sched, syncVars, origin>>
    BY <1>11 DEF CatchIngest
  <2>2. (source \in [Credits -> Sources])'
    BY <1>11, <1>c DEF CatchIngest, Ingest
  <2>3. (scannedAt \in [Days -> Nat \cup {Never}])'
    BY <1>11, <1>c DEF CatchIngest, Scanned
  <2>4. CASE Return("top")
    <3>. HIDE DEF Shapes, others, connVars, syncVars
    <3>. QED BY <1>a, <1>c, <2>1, <2>2, <2>3, <2>4, ReturnShapes
  <2>5. CASE ~Return("top")
    <3>1. /\ rpc = "ingest" /\ rpc' = "cover"
          /\ UNCHANGED <<gate, rGen, expected, catchFrom, upTo, day, rows, fetchedAt>>
      BY <1>11, <2>5 DEF CatchIngest
    <3>. QED BY <2>1, <2>2, <2>3, <3>1
  <2>. QED BY <2>4, <2>5
<1>12. CASE CatchCover
  BY <1>12 DEF CatchCover, At, RecordCoveragePerDay
<1>13. CASE CatchMark
  BY <1>13 DEF CatchMark, At
<1>14. CASE CatchDone
  BY <1>14 DEF CatchDone, Return
<1>15. CASE LockPoll
  BY <1>15 DEF LockPoll, Return
<1>16. CASE PollRefused
  BY <1>16 DEF PollRefused, Return, LoseSession
<1>17. CASE PollFails
  BY <1>17 DEF PollFails, Return
<1>18. ASSUME NEW complete \in BOOLEAN, PollAnswered(complete) PROVE Shapes'
  BY <1>18 DEF PollAnswered, At, HistoryAnswers
<1>19. CASE PollIngest
  BY <1>19 DEF PollIngest, Return, Ingest
<1>20. CASE KeepaliveRefused
  BY <1>20 DEF KeepaliveRefused, Return, LoseSession
<1>21. CASE Keepalive
  BY <1>21 DEF Keepalive, Return
<1>22. ASSUME NEW v \in Viewers, LockHistory(v) PROVE Shapes'
  <2>1. ViewerShapes'
    BY <1>22, <1>b, LeaveShapes, GoToShapes DEF LockHistory
  <2>2. UNCHANGED <<runAndEnv, source, syncedAt, backoff, scannedAt>>
    BY <1>22 DEF LockHistory
  <2>. HIDE DEF Shapes, runAndEnv
  <2>. QED BY <2>1, <2>2, <1>c, ViewerStepShapes
<1>23. ASSUME NEW v \in Viewers, FetchHistory(v) PROVE Shapes'
  <2>1. UNCHANGED <<runAndEnv, source, syncedAt, scannedAt>>
    BY <1>23 DEF FetchHistory
  <2>2. CASE Leave(v)
    <3>1. ViewerShapes'
      BY <1>b, <2>2, LeaveShapes
    <3>. HIDE DEF Shapes, runAndEnv
    <3>. QED BY <2>1, <3>1, <1>c, ViewerStepShapes
  <2>3. CASE ~Leave(v)
    <3>1. /\ UNCHANGED <<vGen, vFrom, vTo, gate>> /\ fetchedAt' = clock
          /\ vpc' = [vpc EXCEPT ![v] = "ingest"]
      BY <1>23, <2>3 DEF FetchHistory, HistoryAnswers
    <3>2. \E batch \in SUBSET Credits : vRows' = [vRows EXCEPT ![v] = batch]
      BY <1>23, <2>3 DEF FetchHistory
    <3>3. ViewerShapes'
      BY <1>b, <3>1, <3>2 DEF ViewerShapes
    <3>. HIDE DEF Shapes, runAndEnv
    <3>. QED BY <2>1, <3>3, <1>c, ViewerStepShapes
  <2>. QED BY <2>2, <2>3
<1>24. ASSUME NEW v \in Viewers, IngestHistory(v) PROVE Shapes'
  <2>1. ViewerShapes'
    BY <1>24, <1>b, LeaveShapes, GoToShapes DEF IngestHistory
  <2>2. UNCHANGED <<runAndEnv, syncedAt, backoff>>
    BY <1>24 DEF IngestHistory
  <2>3. (source \in [Credits -> Sources])' /\ (scannedAt \in [Days -> Nat \cup {Never}])'
    BY <1>24 DEF IngestHistory, Ingest, Scanned
  <2>. HIDE DEF Shapes, runAndEnv
  <2>. QED BY <2>1, <2>2, <2>3, <1>c, ViewerStepShapes
<1>25. ASSUME NEW v \in Viewers, CoverHistory(v) PROVE Shapes'
  <2>1. ViewerShapes'
    BY <1>25, <1>b, LeaveShapes DEF CoverHistory
  <2>2. UNCHANGED <<runAndEnv, source, backoff, scannedAt>>
    BY <1>25 DEF CoverHistory
  <2>3. (syncedAt \in [Days -> Nat \cup {Never}])'
    BY <1>25 DEF CoverHistory, RecordCoveragePerDay
  <2>. HIDE DEF Shapes, runAndEnv
  <2>. QED BY <2>1, <2>2, <2>3, <1>c, ViewerStepShapes
<1>26. ASSUME NEW v \in Viewers, NEW from \in Days, NEW to \in Days, EnsureHistory(v, from, to) PROVE Shapes'
  <2>1. UNCHANGED <<vRows, gate, fetchedAt>> /\ vpc' = [vpc EXCEPT ![v] = "wait"]
    BY <1>26 DEF EnsureHistory
  <2>2. /\ vGen' = [vGen EXCEPT ![v] = generation] /\ generation \in Nat
        /\ vFrom' = [vFrom EXCEPT ![v] = from] /\ vTo' = [vTo EXCEPT ![v] = to]
    BY <1>26 DEF EnsureHistory
  <2>3. ViewerShapes'
    BY <1>b, <2>1, <2>2 DEF ViewerShapes
  <2>4. UNCHANGED <<runAndEnv, source, syncedAt, scannedAt>>
    BY <1>26 DEF EnsureHistory
  <2>. HIDE DEF Shapes, runAndEnv
  <2>. QED BY <2>3, <2>4, <1>c, ViewerStepShapes
<1>27. CASE AskSync
  BY <1>27 DEF AskSync
<1>28. CASE QueueSync
  BY <1>28 DEF QueueSync
<1>29. ASSUME NEW c \in Credits, Book(c) PROVE Shapes'
  BY <1>29 DEF Book
<1>30. CASE Tick
  BY <1>30 DEF Tick
<1>31. CASE KillSession
  BY <1>31 DEF KillSession
<1>32. CASE LeaveMonitoring
  BY <1>32 DEF LeaveMonitoring
<1>33. CASE Login
  BY <1>33 DEF Login
<1>34. CASE BackoffEnds
  BY <1>34 DEF BackoffEnds
<1>35. CASE Restart
  BY <1>35 DEF Restart
<1>36. CASE UNCHANGED vars
  BY <1>36 DEF vars
<1>. QED
  BY <1>1, <1>2, <1>3, <1>4, <1>5, <1>6, <1>7, <1>8, <1>9, <1>10, <1>11, <1>12, <1>13, <1>14, <1>15, <1>16,
     <1>17, <1>18, <1>19, <1>20, <1>21, <1>22, <1>23, <1>24, <1>25, <1>26, <1>27, <1>28, <1>29, <1>30, <1>31, <1>32,
     <1>33, <1>34, <1>35, <1>36 DEF Next, RunStep, HistoryStep

\* Every variable keeps to its declaration; no checkpoint is ahead of the days
\* the clock can reach (monitor.go:733).
THEOREM TypesHold == Spec => []TypeOK
  BY InitTyped, StepTyped, TypedIsTypeOK, PTL DEF Spec

-----------------------------------------------------------------------------
(* The gate                                                                *)

Inside == {"connect", "day", "ingest", "cover", "mark", "poll", "pollIngest"}

\* Who holds Monitor.mu is where it may be held.
GateHeld ==
  /\ gate = Runner <=> rpc \in Inside
  /\ \A v \in Viewers : gate = v <=> vpc[v] \in {"fetch", "ingest", "cover"}

LEMMA InitGate == Init => GateHeld
  BY BankMonitorAssumption DEF Init, GateHeld, Inside

LEMMA StepGate == Typed /\ GateHeld /\ [Next]_vars => GateHeld'
<1>. SUFFICES ASSUME Typed, GateHeld, [Next]_vars PROVE GateHeld'
  OBVIOUS
<1>a. /\ rpc \in Places /\ gate \in Viewers \cup {Runner, Free}
      /\ vpc \in [Viewers -> {"idle", "wait", "fetch", "ingest", "cover"}]
  BY DEF Typed, Shapes
<1>. USE <1>a, BankMonitorAssumption
     DEF GateHeld, Inside, Places, bankVars, connVars, tableVars, runVars,
         syncVars, viewerVars, ghostVars, counters, others, runAndEnv, allButClock
<1>1. ASSUME NEW mode \in Modes, RunTop(mode) PROVE GateHeld'
  BY <1>1 DEF RunTop, At
<1>2. CASE Reload
  BY <1>2 DEF Reload, At
<1>3. CASE ReceiveSync
  BY <1>3 DEF ReceiveSync, At
<1>4. CASE TakeSync
  BY <1>4 DEF TakeSync
<1>5. CASE TimerFires
  <2>1. gate' = gate /\ vpc' = vpc /\ rpc = "select"
    BY <1>5 DEF TimerFires
  <2>2. rpc' \in {"lockCatch", "lockPoll", "lockKeepalive", "top"}
    BY <1>5, <2>1 DEF TimerFires, Typed, Shapes, Modes
  <2>. QED BY <2>1, <2>2
<1>6. CASE LockCatch
  BY <1>6 DEF LockCatch, Return
<1>7. CASE CatchConnect
  BY <1>7 DEF CatchConnect
<1>8. CASE CatchSkip
  BY <1>8 DEF CatchSkip
<1>9. CASE CatchFails
  BY <1>9 DEF CatchFails, Return, ScansDay
<1>10. ASSUME NEW complete \in BOOLEAN, CatchFetch(complete) PROVE GateHeld'
  BY <1>10 DEF CatchFetch, ScansDay, HistoryAnswers
<1>11. CASE CatchIngest
  BY <1>11 DEF CatchIngest, Return, Ingest, Scanned
<1>12. CASE CatchCover
  BY <1>12 DEF CatchCover, At, RecordCoveragePerDay
<1>13. CASE CatchMark
  BY <1>13 DEF CatchMark, At
<1>14. CASE CatchDone
  BY <1>14 DEF CatchDone, Return
<1>15. CASE LockPoll
  BY <1>15 DEF LockPoll, Return
<1>16. CASE PollRefused
  BY <1>16 DEF PollRefused, Return, LoseSession
<1>17. CASE PollFails
  BY <1>17 DEF PollFails, Return
<1>18. ASSUME NEW complete \in BOOLEAN, PollAnswered(complete) PROVE GateHeld'
  BY <1>18 DEF PollAnswered, At, HistoryAnswers
<1>19. CASE PollIngest
  BY <1>19 DEF PollIngest, Return, Ingest
<1>20. CASE KeepaliveRefused
  BY <1>20 DEF KeepaliveRefused, Return, LoseSession
<1>21. CASE Keepalive
  BY <1>21 DEF Keepalive, Return
<1>22. ASSUME NEW v \in Viewers, LockHistory(v) PROVE GateHeld'
  BY <1>22 DEF LockHistory, Leave, GoTo
<1>23. ASSUME NEW v \in Viewers, FetchHistory(v) PROVE GateHeld'
  BY <1>23 DEF FetchHistory, Leave, HistoryAnswers
<1>24. ASSUME NEW v \in Viewers, IngestHistory(v) PROVE GateHeld'
  BY <1>24 DEF IngestHistory, Leave, GoTo, Ingest, Scanned
<1>25. ASSUME NEW v \in Viewers, CoverHistory(v) PROVE GateHeld'
  BY <1>25 DEF CoverHistory, Leave, RecordCoveragePerDay
<1>26. ASSUME NEW v \in Viewers, NEW from \in Days, NEW to \in Days, EnsureHistory(v, from, to) PROVE GateHeld'
  BY <1>26 DEF EnsureHistory
<1>27. CASE AskSync
  BY <1>27 DEF AskSync
<1>28. CASE QueueSync
  BY <1>28 DEF QueueSync
<1>29. ASSUME NEW c \in Credits, Book(c) PROVE GateHeld'
  BY <1>29 DEF Book
<1>30. CASE Tick
  BY <1>30 DEF Tick
<1>31. CASE KillSession
  BY <1>31 DEF KillSession
<1>32. CASE LeaveMonitoring
  BY <1>32 DEF LeaveMonitoring
<1>33. CASE Login
  BY <1>33 DEF Login
<1>34. CASE BackoffEnds
  BY <1>34 DEF BackoffEnds
<1>35. CASE Restart
  BY <1>35 DEF Restart
<1>36. CASE UNCHANGED vars
  BY <1>36 DEF vars
<1>. QED
  BY <1>1, <1>2, <1>3, <1>4, <1>5, <1>6, <1>7, <1>8, <1>9, <1>10, <1>11, <1>12, <1>13, <1>14, <1>15, <1>16,
     <1>17, <1>18, <1>19, <1>20, <1>21, <1>22, <1>23, <1>24, <1>25, <1>26, <1>27, <1>28, <1>29, <1>30, <1>31, <1>32,
     <1>33, <1>34, <1>35, <1>36 DEF Next, RunStep, HistoryStep

-----------------------------------------------------------------------------
(* Coverage                                                                *)

\* Nothing is from the future, and an answer that is being stored is later
\* than all that was recorded before.
Past ==
  /\ \A c \in Credits : bookedAt[c] <= clock
  /\ fetchedAt <= clock
  /\ \A d \in Days : scannedAt[d] <= clock
  /\ Scanning => \A d \in Days : scannedAt[d] <= fetchedAt

Whole(batch, from, to) ==
  \A c \in Credits :
    bookedAt[c] # Never /\ bookedAt[c] < fetchedAt /\ DayOf(bookedAt[c]) \in from .. to => c \in batch

\* A whole answer has all that was booked before it.
Answered ==
  /\ rpc = "ingest" /\ whole => Whole(rows, day, day)
  /\ rpc = "pollIngest" /\ whole => Whole(rows, DayOf(fetchedAt), DayOf(fetchedAt))
  /\ \A v \in Viewers : vpc[v] = "ingest" /\ vWhole[v] => Whole(vRows[v], vFrom[v], vTo[v])

\* Coverage is recorded of an answer that has been stored.
Recorded ==
  /\ rpc = "cover" => \A d \in Days : d = day => scannedAt[d] = fetchedAt
  /\ \A v \in Viewers : vpc[v] = "cover" => \A d \in vFrom[v] .. vTo[v] : scannedAt[d] = fetchedAt

CoverageInv == Typed /\ GateHeld /\ Past /\ Answered /\ Recorded /\ CoverageHonest

LEMMA InitCoverage == Init => CoverageInv
<1>. SUFFICES ASSUME Init PROVE CoverageInv
  OBVIOUS
<1>1. Past
  BY BankMonitorAssumption DEF Init, Past, Scanning, Never
<1>2. Answered /\ Recorded
  BY DEF Init, Answered, Recorded
<1>3. CoverageHonest
  BY DEF Init, CoverageHonest
<1>. QED BY <1>1, <1>2, <1>3, InitTyped, InitGate DEF CoverageInv

\* The round that fires its timer has a mode.
LEMMA TimerLeaves ==
  ASSUME Typed, TimerFires
  PROVE  rpc' \in {"lockCatch", "lockPoll", "lockKeepalive", "top"}
  BY DEF TimerFires, Typed, Shapes, Modes

LEMMA StepPast == CoverageInv /\ [Next]_vars => Past'
<1>. SUFFICES ASSUME CoverageInv, [Next]_vars PROVE Past'
  OBVIOUS
<1>a. /\ rpc \in Places /\ gate \in Viewers \cup {Runner, Free} /\ clock \in Nat
      /\ vpc \in [Viewers -> {"idle", "wait", "fetch", "ingest", "cover"}]
      /\ fetchedAt \in Nat /\ scannedAt \in [Days -> Nat \cup {Never}]
      /\ bookedAt \in [Credits -> Nat \cup {Never}]
  BY BankMonitorAssumption DEF CoverageInv, Typed, Shapes
<1>b. GateHeld /\ Past
  BY DEF CoverageInv
<1>. USE <1>a, <1>b, BankMonitorAssumption
     DEF GateHeld, Inside, Places, Past, Scanning, Never, bankVars, connVars, tableVars, runVars,
         syncVars, viewerVars, ghostVars, counters, others, runAndEnv, allButClock
<1>1. ASSUME NEW mode \in Modes, RunTop(mode) PROVE Past'
  BY <1>1 DEF RunTop, At
<1>2. CASE Reload
  BY <1>2 DEF Reload, At
<1>3. CASE ReceiveSync
  BY <1>3 DEF ReceiveSync, At
<1>4. CASE TakeSync
  BY <1>4 DEF TakeSync
<1>5. CASE TimerFires
  <2>1. UNCHANGED <<others, connVars, tableVars, gate, day, rows, whole, ghostVars>>
    BY <1>5 DEF TimerFires
  <2>2. rpc' \in {"lockCatch", "lockPoll", "lockKeepalive", "top"}
    BY <1>5, TimerLeaves DEF CoverageInv
  <2>. QED BY <2>1, <2>2
<1>6. CASE LockCatch
  BY <1>6 DEF LockCatch, Return
<1>7. CASE CatchConnect
  BY <1>7 DEF CatchConnect
<1>8. CASE CatchSkip
  BY <1>8 DEF CatchSkip
<1>9. CASE CatchFails
  BY <1>9 DEF CatchFails, Return, ScansDay
<1>10. ASSUME NEW complete \in BOOLEAN, CatchFetch(complete) PROVE Past'
  BY <1>10 DEF CatchFetch, ScansDay, HistoryAnswers
<1>11. CASE CatchIngest
  BY <1>11 DEF CatchIngest, Return, Ingest, Scanned
<1>12. CASE CatchCover
  BY <1>12 DEF CatchCover, At, RecordCoveragePerDay
<1>13. CASE CatchMark
  BY <1>13 DEF CatchMark, At
<1>14. CASE CatchDone
  BY <1>14 DEF CatchDone, Return
<1>15. CASE LockPoll
  BY <1>15 DEF LockPoll, Return
<1>16. CASE PollRefused
  BY <1>16 DEF PollRefused, Return, LoseSession
<1>17. CASE PollFails
  BY <1>17 DEF PollFails, Return
<1>18. ASSUME NEW complete \in BOOLEAN, PollAnswered(complete) PROVE Past'
  BY <1>18 DEF PollAnswered, At, HistoryAnswers
<1>19. CASE PollIngest
  BY <1>19 DEF PollIngest, Return, Ingest
<1>20. CASE KeepaliveRefused
  BY <1>20 DEF KeepaliveRefused, Return, LoseSession
<1>21. CASE Keepalive
  BY <1>21 DEF Keepalive, Return
<1>22. ASSUME NEW v \in Viewers, LockHistory(v) PROVE Past'
  BY <1>22 DEF LockHistory, Leave, GoTo
<1>23. ASSUME NEW v \in Viewers, FetchHistory(v) PROVE Past'
  <2>1. CASE Leave(v)
    BY <1>23, <2>1 DEF FetchHistory, Leave
  <2>2. CASE ~Leave(v)
    <3>1. /\ vpc' = [vpc EXCEPT ![v] = "ingest"] /\ fetchedAt' = clock
          /\ UNCHANGED <<rpc, clock, bookedAt, scannedAt, rows, whole, day, vFrom, vTo>>
      BY <1>23, <2>2 DEF FetchHistory, HistoryAnswers
    <3>2. gate = v
      BY <1>23 DEF FetchHistory
    <3>. QED BY <3>1, <3>2
  <2>. QED BY <2>1, <2>2
<1>24. ASSUME NEW v \in Viewers, IngestHistory(v) PROVE Past'
  BY <1>24 DEF IngestHistory, Leave, GoTo, Ingest, Scanned
<1>25. ASSUME NEW v \in Viewers, CoverHistory(v) PROVE Past'
  BY <1>25 DEF CoverHistory, Leave, RecordCoveragePerDay
<1>26. ASSUME NEW v \in Viewers, NEW from \in Days, NEW to \in Days, EnsureHistory(v, from, to) PROVE Past'
  BY <1>26 DEF EnsureHistory
<1>27. CASE AskSync
  BY <1>27 DEF AskSync
<1>28. CASE QueueSync
  BY <1>28 DEF QueueSync
<1>29. ASSUME NEW c \in Credits, Book(c) PROVE Past'
  BY <1>29 DEF Book
<1>30. CASE Tick
  BY <1>30 DEF Tick
<1>31. CASE KillSession
  BY <1>31 DEF KillSession
<1>32. CASE LeaveMonitoring
  BY <1>32 DEF LeaveMonitoring
<1>33. CASE Login
  BY <1>33 DEF Login
<1>34. CASE BackoffEnds
  BY <1>34 DEF BackoffEnds
<1>35. CASE Restart
  BY <1>35 DEF Restart
<1>36. CASE UNCHANGED vars
  BY <1>36 DEF vars
<1>. QED
  BY <1>1, <1>2, <1>3, <1>4, <1>5, <1>6, <1>7, <1>8, <1>9, <1>10, <1>11, <1>12, <1>13, <1>14, <1>15, <1>16,
     <1>17, <1>18, <1>19, <1>20, <1>21, <1>22, <1>23, <1>24, <1>25, <1>26, <1>27, <1>28, <1>29, <1>30, <1>31, <1>32,
     <1>33, <1>34, <1>35, <1>36 DEF Next, RunStep, HistoryStep

LEMMA StepAnswered == CoverageInv /\ [Next]_vars => Answered'
<1>. SUFFICES ASSUME CoverageInv, [Next]_vars PROVE Answered'
  OBVIOUS
<1>a. /\ rpc \in Places /\ gate \in Viewers \cup {Runner, Free} /\ clock \in Nat
      /\ vpc \in [Viewers -> {"idle", "wait", "fetch", "ingest", "cover"}]
      /\ fetchedAt \in Nat /\ bookedAt \in [Credits -> Nat \cup {Never}]
      /\ vWhole \in [Viewers -> BOOLEAN] /\ vRows \in [Viewers -> SUBSET Credits]
      /\ vFrom \in [Viewers -> Days] /\ vTo \in [Viewers -> Days]
  BY BankMonitorAssumption DEF CoverageInv, Typed, Shapes, Switches
<1>b. GateHeld /\ Past /\ Answered
  BY DEF CoverageInv
<1>. USE <1>a, <1>b, BankMonitorAssumption
     DEF GateHeld, Inside, Places, Past, Answered, Whole, Never, bankVars, connVars, tableVars, runVars,
         syncVars, viewerVars, ghostVars, counters, others, runAndEnv, allButClock
<1>1. ASSUME NEW mode \in Modes, RunTop(mode) PROVE Answered'
  BY <1>1 DEF RunTop, At
<1>2. CASE Reload
  BY <1>2 DEF Reload, At
<1>3. CASE ReceiveSync
  BY <1>3 DEF ReceiveSync, At
<1>4. CASE TakeSync
  BY <1>4 DEF TakeSync
<1>5. CASE TimerFires
  <2>1. UNCHANGED <<others, connVars, tableVars, gate, day, rows, whole, ghostVars>>
    BY <1>5 DEF TimerFires
  <2>2. rpc' \in {"lockCatch", "lockPoll", "lockKeepalive", "top"}
    BY <1>5, TimerLeaves DEF CoverageInv
  <2>. QED BY <2>1, <2>2
<1>6. CASE LockCatch
  BY <1>6 DEF LockCatch, Return
<1>7. CASE CatchConnect
  BY <1>7 DEF CatchConnect
<1>8. CASE CatchSkip
  BY <1>8 DEF CatchSkip
<1>9. CASE CatchFails
  BY <1>9 DEF CatchFails, Return, ScansDay
<1>10. ASSUME NEW complete \in BOOLEAN, CatchFetch(complete) PROVE Answered'
  BY <1>10 DEF CatchFetch, ScansDay, HistoryAnswers, BookedIn
<1>11. CASE CatchIngest
  BY <1>11 DEF CatchIngest, Return, Ingest, Scanned
<1>12. CASE CatchCover
  BY <1>12 DEF CatchCover, At, RecordCoveragePerDay
<1>13. CASE CatchMark
  BY <1>13 DEF CatchMark, At
<1>14. CASE CatchDone
  BY <1>14 DEF CatchDone, Return
<1>15. CASE LockPoll
  BY <1>15 DEF LockPoll, Return
<1>16. CASE PollRefused
  BY <1>16 DEF PollRefused, Return, LoseSession
<1>17. CASE PollFails
  BY <1>17 DEF PollFails, Return
<1>18. ASSUME NEW complete \in BOOLEAN, PollAnswered(complete) PROVE Answered'
  <2>1. PICK batch \in SUBSET Credits : HistoryAnswers(Today, Today, batch, complete) /\ rows' = batch
    BY <1>18 DEF PollAnswered
  <2>2. rpc' = "pollIngest" /\ whole' = complete /\ UNCHANGED <<clock, bookedAt, viewerVars, gate>>
    BY <1>18 DEF PollAnswered, At
  <2>3. gate = Runner /\ fetchedAt' = clock
    BY <1>18, <2>1 DEF PollAnswered, At, HistoryAnswers
  <2>4. complete => \A c \in Credits : bookedAt[c] # Never /\ DayOf(bookedAt[c]) \in Today .. Today => c \in batch
    BY <2>1 DEF HistoryAnswers, BookedIn
  <2>5. (rpc = "pollIngest" /\ whole => Whole(rows, DayOf(fetchedAt), DayOf(fetchedAt)))'
    BY <2>1, <2>2, <2>3, <2>4 DEF Today
  <2>6. (\A v \in Viewers : vpc[v] = "ingest" /\ vWhole[v] => Whole(vRows[v], vFrom[v], vTo[v]))'
    BY <2>2, <2>3
  <2>. QED BY <2>2, <2>5, <2>6
<1>19. CASE PollIngest
  BY <1>19 DEF PollIngest, Return, Ingest
<1>20. CASE KeepaliveRefused
  BY <1>20 DEF KeepaliveRefused, Return, LoseSession
<1>21. CASE Keepalive
  BY <1>21 DEF Keepalive, Return
<1>22. ASSUME NEW v \in Viewers, LockHistory(v) PROVE Answered'
  BY <1>22 DEF LockHistory, Leave, GoTo
<1>23. ASSUME NEW v \in Viewers, FetchHistory(v) PROVE Answered'
  <2>1. CASE Leave(v)
    BY <1>23, <2>1 DEF FetchHistory, Leave
  <2>2. CASE ~Leave(v)
    <3>1. /\ vpc' = [vpc EXCEPT ![v] = "ingest"] /\ fetchedAt' = clock
          /\ UNCHANGED <<rpc, bookedAt, rows, whole, day, vFrom, vTo>>
      BY <1>23, <2>2 DEF FetchHistory, HistoryAnswers
    <3>2. PICK batch \in SUBSET Credits, complete \in BOOLEAN :
            /\ complete => batch = BookedIn(vFrom[v], vTo[v])
            /\ vRows' = [vRows EXCEPT ![v] = batch]
            /\ vWhole' = [vWhole EXCEPT ![v] = complete]
      BY <1>23, <2>2 DEF FetchHistory, HistoryAnswers
    <3>3. gate = v
      BY <1>23 DEF FetchHistory
    <3>4. (/\ rpc = "ingest" /\ whole => Whole(rows, day, day)
           /\ rpc = "pollIngest" /\ whole => Whole(rows, DayOf(fetchedAt), DayOf(fetchedAt)))'
      BY <3>1, <3>3
    <3>5. ASSUME NEW w \in Viewers PROVE (vpc[w] = "ingest" /\ vWhole[w] => Whole(vRows[w], vFrom[w], vTo[w]))'
      <4>1. CASE w = v
        BY <3>1, <3>2, <4>1 DEF BookedIn
      <4>2. CASE w # v
        BY <3>1, <3>3, <4>2
      <4>. QED BY <4>1, <4>2
    <3>. QED BY <3>4, <3>5
  <2>. QED BY <2>1, <2>2
<1>24. ASSUME NEW v \in Viewers, IngestHistory(v) PROVE Answered'
  BY <1>24 DEF IngestHistory, Leave, GoTo, Ingest, Scanned
<1>25. ASSUME NEW v \in Viewers, CoverHistory(v) PROVE Answered'
  BY <1>25 DEF CoverHistory, Leave, RecordCoveragePerDay
<1>26. ASSUME NEW v \in Viewers, NEW from \in Days, NEW to \in Days, EnsureHistory(v, from, to) PROVE Answered'
  BY <1>26 DEF EnsureHistory
<1>27. CASE AskSync
  BY <1>27 DEF AskSync
<1>28. CASE QueueSync
  BY <1>28 DEF QueueSync
<1>29. ASSUME NEW c \in Credits, Book(c) PROVE Answered'
  BY <1>29 DEF Book
<1>30. CASE Tick
  BY <1>30 DEF Tick
<1>31. CASE KillSession
  BY <1>31 DEF KillSession
<1>32. CASE LeaveMonitoring
  BY <1>32 DEF LeaveMonitoring
<1>33. CASE Login
  BY <1>33 DEF Login
<1>34. CASE BackoffEnds
  BY <1>34 DEF BackoffEnds
<1>35. CASE Restart
  BY <1>35 DEF Restart
<1>36. CASE UNCHANGED vars
  BY <1>36 DEF vars
<1>. QED
  BY <1>1, <1>2, <1>3, <1>4, <1>5, <1>6, <1>7, <1>8, <1>9, <1>10, <1>11, <1>12, <1>13, <1>14, <1>15, <1>16,
     <1>17, <1>18, <1>19, <1>20, <1>21, <1>22, <1>23, <1>24, <1>25, <1>26, <1>27, <1>28, <1>29, <1>30, <1>31, <1>32,
     <1>33, <1>34, <1>35, <1>36 DEF Next, RunStep, HistoryStep

LEMMA StepRecorded == CoverageInv /\ [Next]_vars => Recorded'
<1>. SUFFICES ASSUME CoverageInv, [Next]_vars PROVE Recorded'
  OBVIOUS
<1>a. /\ rpc \in Places /\ gate \in Viewers \cup {Runner, Free}
      /\ vpc \in [Viewers -> {"idle", "wait", "fetch", "ingest", "cover"}]
      /\ fetchedAt \in Nat /\ scannedAt \in [Days -> Nat \cup {Never}]
      /\ vFrom \in [Viewers -> Days] /\ vTo \in [Viewers -> Days]
  BY DEF CoverageInv, Typed, Shapes
<1>c. Days = 0 .. DayOf(MaxClock) /\ DayOf(MaxClock) \in Nat
  BY ClockDays DEF CoverageInv, Typed, Shapes
<1>b. GateHeld /\ Recorded
  BY DEF CoverageInv
<1>. USE <1>a, <1>b, <1>c, BankMonitorAssumption
     DEF GateHeld, Inside, Places, Recorded, bankVars, connVars, tableVars, runVars,
         syncVars, viewerVars, ghostVars, counters, others, runAndEnv, allButClock
<1>1. ASSUME NEW mode \in Modes, RunTop(mode) PROVE Recorded'
  BY <1>1 DEF RunTop, At
<1>2. CASE Reload
  BY <1>2 DEF Reload, At
<1>3. CASE ReceiveSync
  BY <1>3 DEF ReceiveSync, At
<1>4. CASE TakeSync
  BY <1>4 DEF TakeSync
<1>5. CASE TimerFires
  <2>1. UNCHANGED <<others, connVars, tableVars, gate, day, rows, whole, ghostVars>>
    BY <1>5 DEF TimerFires
  <2>2. rpc' \in {"lockCatch", "lockPoll", "lockKeepalive", "top"}
    BY <1>5, TimerLeaves DEF CoverageInv
  <2>. QED BY <2>1, <2>2
<1>6. CASE LockCatch
  BY <1>6 DEF LockCatch, Return
<1>7. CASE CatchConnect
  BY <1>7 DEF CatchConnect
<1>8. CASE CatchSkip
  BY <1>8 DEF CatchSkip
<1>9. CASE CatchFails
  BY <1>9 DEF CatchFails, Return, ScansDay
<1>10. ASSUME NEW complete \in BOOLEAN, CatchFetch(complete) PROVE Recorded'
  BY <1>10 DEF CatchFetch, ScansDay, HistoryAnswers
<1>11. CASE CatchIngest
  BY <1>11 DEF CatchIngest, Return, Ingest, Scanned
<1>12. CASE CatchCover
  BY <1>12 DEF CatchCover, At, RecordCoveragePerDay
<1>13. CASE CatchMark
  BY <1>13 DEF CatchMark, At
<1>14. CASE CatchDone
  BY <1>14 DEF CatchDone, Return
<1>15. CASE LockPoll
  BY <1>15 DEF LockPoll, Return
<1>16. CASE PollRefused
  BY <1>16 DEF PollRefused, Return, LoseSession
<1>17. CASE PollFails
  BY <1>17 DEF PollFails, Return
<1>18. ASSUME NEW complete \in BOOLEAN, PollAnswered(complete) PROVE Recorded'
  BY <1>18 DEF PollAnswered, At, HistoryAnswers
<1>19. CASE PollIngest
  BY <1>19 DEF PollIngest, Return, Ingest
<1>20. CASE KeepaliveRefused
  BY <1>20 DEF KeepaliveRefused, Return, LoseSession
<1>21. CASE Keepalive
  BY <1>21 DEF Keepalive, Return
<1>22. ASSUME NEW v \in Viewers, LockHistory(v) PROVE Recorded'
  BY <1>22 DEF LockHistory, Leave, GoTo
<1>23. ASSUME NEW v \in Viewers, FetchHistory(v) PROVE Recorded'
  BY <1>23 DEF FetchHistory, Leave, HistoryAnswers
<1>24. ASSUME NEW v \in Viewers, IngestHistory(v) PROVE Recorded'
  <2>1. gate = v /\ UNCHANGED <<rpc, day>> /\ vFrom[v] .. vTo[v] \subseteq Days
    BY <1>24 DEF IngestHistory
  <2>2. CASE Leave(v) /\ UNCHANGED scannedAt
    BY <2>1, <2>2 DEF Leave
  <2>3. CASE GoTo(v, "cover") /\ Scanned(vFrom[v] .. vTo[v]) /\ UNCHANGED fetchedAt
    <3>1. \A d \in vFrom[v] .. vTo[v] : scannedAt'[d] = fetchedAt
      BY <2>1, <2>3 DEF Scanned
    <3>2. rpc' # "cover"
      BY <2>1
    <3>3. \A w \in Viewers : vpc'[w] = "cover" => w = v
      BY <2>1, <2>3 DEF GoTo
    <3>. QED BY <2>3, <3>1, <3>2, <3>3 DEF GoTo
  <2>. QED BY <1>24, <2>2, <2>3 DEF IngestHistory
<1>25. ASSUME NEW v \in Viewers, CoverHistory(v) PROVE Recorded'
  BY <1>25 DEF CoverHistory, Leave, RecordCoveragePerDay
<1>26. ASSUME NEW v \in Viewers, NEW from \in Days, NEW to \in Days, EnsureHistory(v, from, to) PROVE Recorded'
  BY <1>26 DEF EnsureHistory
<1>27. CASE AskSync
  BY <1>27 DEF AskSync
<1>28. CASE QueueSync
  BY <1>28 DEF QueueSync
<1>29. ASSUME NEW c \in Credits, Book(c) PROVE Recorded'
  BY <1>29 DEF Book
<1>30. CASE Tick
  BY <1>30 DEF Tick
<1>31. CASE KillSession
  BY <1>31 DEF KillSession
<1>32. CASE LeaveMonitoring
  BY <1>32 DEF LeaveMonitoring
<1>33. CASE Login
  BY <1>33 DEF Login
<1>34. CASE BackoffEnds
  BY <1>34 DEF BackoffEnds
<1>35. CASE Restart
  BY <1>35 DEF Restart
<1>36. CASE UNCHANGED vars
  BY <1>36 DEF vars
<1>. QED
  BY <1>1, <1>2, <1>3, <1>4, <1>5, <1>6, <1>7, <1>8, <1>9, <1>10, <1>11, <1>12, <1>13, <1>14, <1>15, <1>16,
     <1>17, <1>18, <1>19, <1>20, <1>21, <1>22, <1>23, <1>24, <1>25, <1>26, <1>27, <1>28, <1>29, <1>30, <1>31, <1>32,
     <1>33, <1>34, <1>35, <1>36 DEF Next, RunStep, HistoryStep

\* What is stored stays stored, and a scan vouches for what it brought.
LEMMA StepHonest == CoverageInv /\ [Next]_vars => CoverageHonest'
<1>. SUFFICES ASSUME CoverageInv, [Next]_vars PROVE CoverageHonest'
  OBVIOUS
<1>a. /\ rpc \in Places /\ gate \in Viewers \cup {Runner, Free} /\ clock \in Nat
      /\ vpc \in [Viewers -> {"idle", "wait", "fetch", "ingest", "cover"}]
      /\ fetchedAt \in Nat /\ scannedAt \in [Days -> Nat \cup {Never}]
      /\ syncedAt \in [Days -> Nat \cup {Never}] /\ source \in [Credits -> Sources]
      /\ bookedAt \in [Credits -> Nat \cup {Never}]
  BY BankMonitorAssumption DEF CoverageInv, Typed, Shapes
<1>b. Past /\ Answered /\ Recorded /\ CoverageHonest
  BY DEF CoverageInv
<1>c. \A c \in Credits : bookedAt[c] # Never => DayOf(bookedAt[c]) \in Days
  <2>1. clock \in MinClock .. MaxClock
    BY DEF CoverageInv, Typed, Shapes
  <2>2. ASSUME NEW c \in Credits, bookedAt[c] # Never PROVE DayOf(bookedAt[c]) \in Days
    <3>1. bookedAt[c] \in Nat /\ bookedAt[c] <= MaxClock /\ MaxClock \in Nat
      BY <1>a, <1>b, <2>1, <2>2, BankMonitorAssumption DEF Past
    <3>2. DayOf(bookedAt[c]) \in Nat /\ DayOf(bookedAt[c]) <= DayOf(MaxClock)
      BY <3>1, DayType, DaysGrow
    <3>. QED BY <2>1, <3>2, ClockDays
  <2>. QED BY <2>2
<1>d. Today \in Days
  BY ClockDays DEF CoverageInv, Typed, Shapes
<1>. USE <1>a, <1>b, <1>c, <1>d, BankMonitorAssumption
     DEF Places, Sources, Past, CoverageHonest, Stored, Never, bankVars, connVars, tableVars, runVars,
         syncVars, viewerVars, ghostVars, counters, others, runAndEnv, allButClock
<1>1. ASSUME NEW mode \in Modes, RunTop(mode) PROVE CoverageHonest'
  BY <1>1 DEF RunTop, At
<1>2. CASE Reload
  BY <1>2 DEF Reload, At
<1>3. CASE ReceiveSync
  BY <1>3 DEF ReceiveSync, At
<1>4. CASE TakeSync
  BY <1>4 DEF TakeSync
<1>5. CASE TimerFires
  <2>1. UNCHANGED <<others, connVars, tableVars, gate, day, rows, whole, ghostVars>>
    BY <1>5 DEF TimerFires
  <2>2. rpc' \in {"lockCatch", "lockPoll", "lockKeepalive", "top"}
    BY <1>5, TimerLeaves DEF CoverageInv
  <2>. QED BY <2>1, <2>2
<1>6. CASE LockCatch
  BY <1>6 DEF LockCatch, Return
<1>7. CASE CatchConnect
  BY <1>7 DEF CatchConnect
<1>8. CASE CatchSkip
  BY <1>8 DEF CatchSkip
<1>9. CASE CatchFails
  BY <1>9 DEF CatchFails, Return, ScansDay
<1>10. ASSUME NEW complete \in BOOLEAN, CatchFetch(complete) PROVE CoverageHonest'
  BY <1>10 DEF CatchFetch, ScansDay, HistoryAnswers
<1>11. CASE CatchIngest
  BY <1>11 DEF CatchIngest, Return, Ingest, Scanned, Answered, Whole
<1>12. CASE CatchCover
  BY <1>12 DEF CatchCover, At, RecordCoveragePerDay, Recorded
<1>13. CASE CatchMark
  BY <1>13 DEF CatchMark, At
<1>14. CASE CatchDone
  BY <1>14 DEF CatchDone, Return
<1>15. CASE LockPoll
  BY <1>15 DEF LockPoll, Return
<1>16. CASE PollRefused
  BY <1>16 DEF PollRefused, Return, LoseSession
<1>17. CASE PollFails
  BY <1>17 DEF PollFails, Return
<1>18. ASSUME NEW complete \in BOOLEAN, PollAnswered(complete) PROVE CoverageHonest'
  BY <1>18 DEF PollAnswered, At, HistoryAnswers
<1>19. CASE PollIngest
  BY <1>19 DEF PollIngest, Return, Ingest
<1>20. CASE KeepaliveRefused
  BY <1>20 DEF KeepaliveRefused, Return, LoseSession
<1>21. CASE Keepalive
  BY <1>21 DEF Keepalive, Return
<1>22. ASSUME NEW v \in Viewers, LockHistory(v) PROVE CoverageHonest'
  BY <1>22 DEF LockHistory, Leave, GoTo
<1>23. ASSUME NEW v \in Viewers, FetchHistory(v) PROVE CoverageHonest'
  BY <1>23 DEF FetchHistory, Leave, HistoryAnswers
<1>24. ASSUME NEW v \in Viewers, IngestHistory(v) PROVE CoverageHonest'
  BY <1>24 DEF IngestHistory, Leave, GoTo, Ingest, Scanned, Answered, Whole
<1>25. ASSUME NEW v \in Viewers, CoverHistory(v) PROVE CoverageHonest'
  BY <1>25 DEF CoverHistory, Leave, RecordCoveragePerDay, Recorded
<1>26. ASSUME NEW v \in Viewers, NEW from \in Days, NEW to \in Days, EnsureHistory(v, from, to) PROVE CoverageHonest'
  BY <1>26 DEF EnsureHistory
<1>27. CASE AskSync
  BY <1>27 DEF AskSync
<1>28. CASE QueueSync
  BY <1>28 DEF QueueSync
<1>29. ASSUME NEW c \in Credits, Book(c) PROVE CoverageHonest'
  BY <1>29 DEF Book, Today
<1>30. CASE Tick
  BY <1>30 DEF Tick
<1>31. CASE KillSession
  BY <1>31 DEF KillSession
<1>32. CASE LeaveMonitoring
  BY <1>32 DEF LeaveMonitoring
<1>33. CASE Login
  BY <1>33 DEF Login
<1>34. CASE BackoffEnds
  BY <1>34 DEF BackoffEnds
<1>35. CASE Restart
  BY <1>35 DEF Restart
<1>36. CASE UNCHANGED vars
  BY <1>36 DEF vars
<1>. QED
  BY <1>1, <1>2, <1>3, <1>4, <1>5, <1>6, <1>7, <1>8, <1>9, <1>10, <1>11, <1>12, <1>13, <1>14, <1>15, <1>16,
     <1>17, <1>18, <1>19, <1>20, <1>21, <1>22, <1>23, <1>24, <1>25, <1>26, <1>27, <1>28, <1>29, <1>30, <1>31, <1>32,
     <1>33, <1>34, <1>35, <1>36 DEF Next, RunStep, HistoryStep

LEMMA StepCoverage == CoverageInv /\ [Next]_vars => CoverageInv'
  BY StepTyped, StepGate, StepPast, StepAnswered, StepRecorded, StepHonest DEF CoverageInv

\* A coverage record vouches only for what is stored, for any number of viewers
\* and whatever session, generation and clock do between the bank's answer and
\* the record (monitor.go:351, monitor.go:842).
THEOREM CoverageIsHonest == Spec => []CoverageHonest
<1>1. CoverageInv => CoverageHonest
  BY DEF CoverageInv
<1>. QED BY InitCoverage, StepCoverage, <1>1, PTL DEF Spec

\* Between its answer and its ingest a poll that ends SUCCEEDED loses nothing
\* of the day of the answer (isPartial and the fence in pollOnce).
THEOREM PollsCoverToday == Spec => PollCoversToday
<1>1. ASSUME CoverageInv
      PROVE  PollSucceeds => \A c \in Credits : BookedOn(c, DayOf(fetchedAt)) => Stored(c)'
  <2>. SUFFICES ASSUME PollSucceeds, NEW c \in Credits, BookedOn(c, DayOf(fetchedAt))
       PROVE  Stored(c)'
    OBVIOUS
  <2>1. Ingest(rows, "REALTIME")
    BY DEF PollSucceeds, PollIngest
  <2>2. fetchedAt \in Nat
    BY <1>1 DEF CoverageInv, Typed, Shapes
  <2>3. DayOf(fetchedAt) \in DayOf(fetchedAt) .. DayOf(fetchedAt)
    BY <2>2, DayType
  <2>4. Whole(rows, DayOf(fetchedAt), DayOf(fetchedAt))
    BY <1>1 DEF CoverageInv, Answered, PollSucceeds, PollIngest
  <2>5. c \in rows
    BY <2>3, <2>4 DEF Whole, BookedOn
  <2>. QED BY <2>1, <2>5 DEF Ingest, Stored
<1>. QED BY <1>1, InitCoverage, StepCoverage, PTL DEF Spec, PollCoversToday

-----------------------------------------------------------------------------
(* The checkpoint                                                          *)

\* A day whose last scan was late enough to be left at that.
Done(d) ==
  /\ scannedAt[d] # Never
  /\ scannedAt[d] >= LastTickOf(d) + 1 - YesterdayTTL - MaxScan

OnTime == Scanning => clock - fetchedAt <= MaxScan

Synced ==
  \A d \in Days : syncedAt[d] # Never => scannedAt[d] # Never /\ syncedAt[d] <= scannedAt[d] + MaxScan

\* A catch-up has left behind it days that are done, and goes on to at most
\* the day that was today when it began.
CatchingUp ==
  /\ rpc \in {"connect", "day", "ingest", "cover", "mark"} => upTo <= Today
  /\ rpc \in {"ingest", "cover"} => upTo <= DayOf(fetchedAt)
  /\ rpc = "mark" => scannedAt[day] # Never /\ (day < upTo => Done(day))
  /\ rpc = "connect" => \A d \in Days : origin <= d /\ d < catchFrom /\ d < upTo => Done(d)
  /\ rpc \in {"day", "ingest", "cover", "mark"} =>
       \A d \in Days : origin <= d /\ d < day /\ d < upTo => Done(d)

\* The same as CheckpointAccounts, and the account begins before today.
Account ==
  /\ origin < Today
  /\ \A d \in Days : origin <= d /\ d <= checkpoint =>
       scannedAt[d] # Never /\ (d < checkpoint => Done(d))

AccountInv == CoverageInv /\ OnTime /\ Synced /\ CatchingUp /\ Account

LEMMA InitAccount == Init => AccountInv
<1>. SUFFICES ASSUME Init PROVE AccountInv
  OBVIOUS
<1>1. CoverageInv
  BY InitCoverage
<1>2. Today \in Nat \ {0} /\ Days \subseteq Nat
  BY <1>1, ClockDays DEF CoverageInv, Typed, Shapes
<1>. QED BY <1>1, <1>2 DEF Init, AccountInv, OnTime, Scanning, Synced, CatchingUp, Account, Never

\* Days are scanned later and later.
LEMMA ScansGrow ==
  ASSUME CoverageInv, [Next]_vars
  PROVE  \A d \in Days : scannedAt'[d] >= scannedAt[d] /\ scannedAt'[d] \in Nat \cup {Never}
<1>a. /\ rpc \in Places /\ fetchedAt \in Nat /\ scannedAt \in [Days -> Nat \cup {Never}]
      /\ vpc \in [Viewers -> {"idle", "wait", "fetch", "ingest", "cover"}]
  BY DEF CoverageInv, Typed, Shapes
<1>1. Typed'
  BY StepTyped DEF CoverageInv
<1>2. (scannedAt \in [Days -> Nat \cup {Never}])'
  BY <1>1 DEF Typed, Shapes
<1>3. ASSUME NEW days, Scanning, Scanned(days)
      PROVE  \A d \in Days : scannedAt'[d] >= scannedAt[d]
  BY <1>a, <1>3 DEF Scanned, CoverageInv, Past, Never
<1>4. CASE UNCHANGED scannedAt
  BY <1>a, <1>4 DEF Never
<1>5. ASSUME CatchIngest PROVE \A d \in Days : scannedAt'[d] >= scannedAt[d]
  BY <1>3, <1>4, <1>5 DEF CatchIngest, Scanning
<1>6. ASSUME NEW v \in Viewers, IngestHistory(v)
      PROVE  \A d \in Days : scannedAt'[d] >= scannedAt[d]
  BY <1>3, <1>4, <1>6 DEF IngestHistory, Scanning
<1>7. ASSUME RunStep, ~CatchIngest PROVE UNCHANGED scannedAt
  BY <1>7 DEF RunStep, RunTop, Reload, ReceiveSync, TakeSync, TimerFires, LockCatch, CatchConnect,
     CatchSkip, CatchFails, CatchCover, CatchMark, CatchDone, LockPoll, PollRefused, PollFails,
     PollIngest, CatchFetch, PollAnswered, KeepaliveRefused, Keepalive, ghostVars
<1>8. ASSUME NEW v \in Viewers, HistoryStep(v), ~IngestHistory(v) PROVE UNCHANGED scannedAt
  BY <1>8 DEF HistoryStep, LockHistory, FetchHistory, CoverHistory
<1>9. ASSUME NEW v \in Viewers, NEW from \in Days, NEW to \in Days, EnsureHistory(v, from, to)
      PROVE  UNCHANGED scannedAt
  BY <1>9 DEF EnsureHistory
<1>10. ASSUME NEW c \in Credits, Book(c) PROVE UNCHANGED scannedAt
  BY <1>10 DEF Book, allButClock, ghostVars
<1>11. ASSUME \/ AskSync \/ QueueSync \/ Tick \/ KillSession \/ LeaveMonitoring \/ Login
              \/ BackoffEnds \/ Restart \/ UNCHANGED vars
       PROVE  UNCHANGED scannedAt
  BY <1>11 DEF AskSync, QueueSync, Tick, KillSession, LeaveMonitoring, Login, BackoffEnds, Restart,
     vars, allButClock, ghostVars
<1>. QED
  BY <1>2, <1>4, <1>5, <1>6, <1>7, <1>8, <1>9, <1>10, <1>11 DEF Next

\* What is done stays done.
LEMMA DoneStays ==
  ASSUME CoverageInv, [Next]_vars
  PROVE  \A d \in Days : /\ Done(d) => Done(d)'
                         /\ scannedAt[d] # Never => scannedAt'[d] # Never
<1>1. \A d \in Days : /\ scannedAt'[d] >= scannedAt[d]
                      /\ scannedAt[d] \in Nat \cup {Never} /\ scannedAt'[d] \in Nat \cup {Never}
  BY ScansGrow DEF CoverageInv, Typed, Shapes
<1>2. \A d \in Days : LastTickOf(d) \in Int
  BY ClockDays, BankMonitorAssumption DEF LastTickOf, CoverageInv, Typed, Shapes
<1>. QED BY <1>1, <1>2, BankMonitorAssumption DEF Done, Never

LEMMA StepOnTime == AccountInv /\ [Next]_vars => OnTime'
<1>. SUFFICES ASSUME AccountInv, [Next]_vars PROVE OnTime'
  OBVIOUS
<1>a. /\ rpc \in Places /\ gate \in Viewers \cup {Runner, Free} /\ clock \in Nat
      /\ vpc \in [Viewers -> {"idle", "wait", "fetch", "ingest", "cover"}]
      /\ fetchedAt \in Nat
  BY BankMonitorAssumption DEF AccountInv, CoverageInv, Typed, Shapes
<1>b. CoverageInv /\ GateHeld /\ OnTime
  BY DEF AccountInv, CoverageInv
<1>. USE <1>a, <1>b, BankMonitorAssumption
     DEF GateHeld, Inside, Places, OnTime, Scanning, bankVars, connVars, tableVars, runVars,
         syncVars, viewerVars, ghostVars, counters, others, runAndEnv, allButClock
<1>1. ASSUME NEW mode \in Modes, RunTop(mode) PROVE OnTime'
  BY <1>1 DEF RunTop, At
<1>2. CASE Reload
  BY <1>2 DEF Reload, At
<1>3. CASE ReceiveSync
  BY <1>3 DEF ReceiveSync, At
<1>4. CASE TakeSync
  BY <1>4 DEF TakeSync
<1>5. CASE TimerFires
  <2>1. UNCHANGED <<others, connVars, tableVars, gate, day, rows, whole, ghostVars>>
    BY <1>5 DEF TimerFires
  <2>2. rpc' \in {"lockCatch", "lockPoll", "lockKeepalive", "top"}
    BY <1>5, TimerLeaves DEF CoverageInv
  <2>. QED BY <2>1, <2>2
<1>6. CASE LockCatch
  BY <1>6 DEF LockCatch, Return
<1>7. CASE CatchConnect
  BY <1>7 DEF CatchConnect
<1>8. CASE CatchSkip
  BY <1>8 DEF CatchSkip
<1>9. CASE CatchFails
  BY <1>9 DEF CatchFails, Return, ScansDay
<1>10. ASSUME NEW complete \in BOOLEAN, CatchFetch(complete) PROVE OnTime'
  BY <1>10 DEF CatchFetch, ScansDay, HistoryAnswers
<1>11. CASE CatchIngest
  BY <1>11 DEF CatchIngest, Return, Ingest, Scanned
<1>12. CASE CatchCover
  BY <1>12 DEF CatchCover, At, RecordCoveragePerDay
<1>13. CASE CatchMark
  BY <1>13 DEF CatchMark, At
<1>14. CASE CatchDone
  BY <1>14 DEF CatchDone, Return
<1>15. CASE LockPoll
  BY <1>15 DEF LockPoll, Return
<1>16. CASE PollRefused
  BY <1>16 DEF PollRefused, Return, LoseSession
<1>17. CASE PollFails
  BY <1>17 DEF PollFails, Return
<1>18. ASSUME NEW complete \in BOOLEAN, PollAnswered(complete) PROVE OnTime'
  BY <1>18 DEF PollAnswered, At, HistoryAnswers
<1>19. CASE PollIngest
  BY <1>19 DEF PollIngest, Return, Ingest
<1>20. CASE KeepaliveRefused
  BY <1>20 DEF KeepaliveRefused, Return, LoseSession
<1>21. CASE Keepalive
  BY <1>21 DEF Keepalive, Return
<1>22. ASSUME NEW v \in Viewers, LockHistory(v) PROVE OnTime'
  BY <1>22 DEF LockHistory, Leave, GoTo
<1>23. ASSUME NEW v \in Viewers, FetchHistory(v) PROVE OnTime'
  <2>1. CASE Leave(v)
    BY <1>23, <2>1 DEF FetchHistory, Leave
  <2>2. CASE ~Leave(v)
    <3>1. /\ vpc' = [vpc EXCEPT ![v] = "ingest"] /\ fetchedAt' = clock
          /\ UNCHANGED <<rpc, clock, bookedAt, scannedAt, rows, whole, day, vFrom, vTo>>
      BY <1>23, <2>2 DEF FetchHistory, HistoryAnswers
    <3>2. gate = v
      BY <1>23 DEF FetchHistory
    <3>. QED BY <3>1, <3>2
  <2>. QED BY <2>1, <2>2
<1>24. ASSUME NEW v \in Viewers, IngestHistory(v) PROVE OnTime'
  BY <1>24 DEF IngestHistory, Leave, GoTo, Ingest, Scanned
<1>25. ASSUME NEW v \in Viewers, CoverHistory(v) PROVE OnTime'
  BY <1>25 DEF CoverHistory, Leave, RecordCoveragePerDay
<1>26. ASSUME NEW v \in Viewers, NEW from \in Days, NEW to \in Days, EnsureHistory(v, from, to) PROVE OnTime'
  BY <1>26 DEF EnsureHistory
<1>27. CASE AskSync
  BY <1>27 DEF AskSync
<1>28. CASE QueueSync
  BY <1>28 DEF QueueSync
<1>29. ASSUME NEW c \in Credits, Book(c) PROVE OnTime'
  BY <1>29 DEF Book
<1>30. CASE Tick
  BY <1>30 DEF Tick
<1>31. CASE KillSession
  BY <1>31 DEF KillSession
<1>32. CASE LeaveMonitoring
  BY <1>32 DEF LeaveMonitoring
<1>33. CASE Login
  BY <1>33 DEF Login
<1>34. CASE BackoffEnds
  BY <1>34 DEF BackoffEnds
<1>35. CASE Restart
  BY <1>35 DEF Restart
<1>36. CASE UNCHANGED vars
  BY <1>36 DEF vars
<1>. QED
  BY <1>1, <1>2, <1>3, <1>4, <1>5, <1>6, <1>7, <1>8, <1>9, <1>10, <1>11, <1>12, <1>13, <1>14, <1>15, <1>16,
     <1>17, <1>18, <1>19, <1>20, <1>21, <1>22, <1>23, <1>24, <1>25, <1>26, <1>27, <1>28, <1>29, <1>30, <1>31, <1>32,
     <1>33, <1>34, <1>35, <1>36 DEF Next, RunStep, HistoryStep

LEMMA StepSynced == AccountInv /\ [Next]_vars => Synced'
<1>. SUFFICES ASSUME AccountInv, [Next]_vars PROVE Synced'
  OBVIOUS
<1>a. /\ gate \in Viewers \cup {Runner, Free} /\ clock \in Nat
      /\ fetchedAt \in Nat /\ syncedAt \in [Days -> Nat \cup {Never}]
      /\ vpc \in [Viewers -> {"idle", "wait", "fetch", "ingest", "cover"}]
      /\ vFrom \in [Viewers -> Days] /\ vTo \in [Viewers -> Days]
      /\ \A d \in Days : /\ scannedAt'[d] >= scannedAt[d]
                         /\ scannedAt[d] \in Nat \cup {Never} /\ scannedAt'[d] \in Nat \cup {Never}
  BY ScansGrow, BankMonitorAssumption DEF AccountInv, CoverageInv, Typed, Shapes
<1>b. Recorded /\ OnTime /\ Synced
  BY DEF AccountInv, CoverageInv
<1>c. Days = 0 .. DayOf(MaxClock) /\ DayOf(MaxClock) \in Nat
  BY ClockDays DEF AccountInv, CoverageInv, Typed, Shapes
<1>d. \A v \in Viewers : gate = v <=> vpc[v] \in {"fetch", "ingest", "cover"}
  BY DEF AccountInv, CoverageInv, GateHeld
<1>. USE <1>a, <1>b, <1>c, <1>d, BankMonitorAssumption
     DEF Synced, Never, bankVars, connVars, tableVars, runVars,
         syncVars, viewerVars, ghostVars, counters, others, runAndEnv, allButClock
<1>1. ASSUME NEW mode \in Modes, RunTop(mode) PROVE Synced'
  BY <1>1 DEF RunTop, At
<1>2. CASE Reload
  BY <1>2 DEF Reload, At
<1>3. CASE ReceiveSync
  BY <1>3 DEF ReceiveSync, At
<1>4. CASE TakeSync
  BY <1>4 DEF TakeSync
<1>5. CASE TimerFires
  BY <1>5 DEF TimerFires
<1>6. CASE LockCatch
  BY <1>6 DEF LockCatch, Return
<1>7. CASE CatchConnect
  BY <1>7 DEF CatchConnect
<1>8. CASE CatchSkip
  BY <1>8 DEF CatchSkip
<1>9. CASE CatchFails
  BY <1>9 DEF CatchFails, Return, ScansDay
<1>10. ASSUME NEW complete \in BOOLEAN, CatchFetch(complete) PROVE Synced'
  BY <1>10 DEF CatchFetch, ScansDay, HistoryAnswers
<1>11. CASE CatchIngest
  <2>1. UNCHANGED syncedAt
    BY <1>11 DEF CatchIngest
  <2>2. ASSUME NEW d \in Days, syncedAt[d] # Never
        PROVE  scannedAt'[d] # Never /\ syncedAt[d] <= scannedAt'[d] + MaxScan
    <3>1. scannedAt[d] # Never /\ syncedAt[d] <= scannedAt[d] + MaxScan
      BY <2>2
    <3>2. syncedAt[d] \in Nat /\ scannedAt[d] \in Nat /\ scannedAt'[d] >= scannedAt[d] /\ scannedAt'[d] \in Nat \cup {Never}
      BY <2>2, <3>1
    <3>. QED BY <3>1, <3>2
  <2>. QED BY <2>1, <2>2
<1>12. CASE CatchCover
  <2>1. UNCHANGED scannedAt /\ clock <= fetchedAt + MaxScan
    BY <1>12 DEF CatchCover, At, OnTime, Scanning
  <2>2. CASE UNCHANGED syncedAt
    BY <2>1, <2>2
  <2>3. CASE RecordCoveragePerDay({day})
    <3>1. ASSUME NEW d \in Days, d = day PROVE scannedAt[d] # Never /\ syncedAt'[d] <= scannedAt[d] + MaxScan
      BY <1>12, <2>1, <2>3, <3>1 DEF CatchCover, At, Recorded, RecordCoveragePerDay
    <3>2. ASSUME NEW d \in Days, d # day PROVE syncedAt'[d] = syncedAt[d]
      BY <2>3, <3>2 DEF RecordCoveragePerDay
    <3>. QED BY <2>1, <3>1, <3>2
  <2>. QED BY <1>12, <2>2, <2>3 DEF CatchCover
<1>13. CASE CatchMark
  BY <1>13 DEF CatchMark, At
<1>14. CASE CatchDone
  BY <1>14 DEF CatchDone, Return
<1>15. CASE LockPoll
  BY <1>15 DEF LockPoll, Return
<1>16. CASE PollRefused
  BY <1>16 DEF PollRefused, Return, LoseSession
<1>17. CASE PollFails
  BY <1>17 DEF PollFails, Return
<1>18. ASSUME NEW complete \in BOOLEAN, PollAnswered(complete) PROVE Synced'
  BY <1>18 DEF PollAnswered, At, HistoryAnswers
<1>19. CASE PollIngest
  BY <1>19 DEF PollIngest, Return, Ingest
<1>20. CASE KeepaliveRefused
  BY <1>20 DEF KeepaliveRefused, Return, LoseSession
<1>21. CASE Keepalive
  BY <1>21 DEF Keepalive, Return
<1>22. ASSUME NEW v \in Viewers, LockHistory(v) PROVE Synced'
  BY <1>22 DEF LockHistory, Leave, GoTo
<1>23. ASSUME NEW v \in Viewers, FetchHistory(v) PROVE Synced'
  BY <1>23 DEF FetchHistory, Leave, HistoryAnswers
<1>24. ASSUME NEW v \in Viewers, IngestHistory(v) PROVE Synced'
  BY <1>24 DEF IngestHistory, Leave, GoTo, Ingest, Scanned
<1>25. ASSUME NEW v \in Viewers, CoverHistory(v) PROVE Synced'
  <2>1. gate = v /\ vFrom[v] .. vTo[v] \subseteq Days
    BY <1>25 DEF CoverHistory
  <2>2. \A d \in vFrom[v] .. vTo[v] : scannedAt[d] = fetchedAt /\ clock <= scannedAt[d] + MaxScan
    BY <1>25, <2>1 DEF CoverHistory, Recorded, OnTime, Scanning
  <2>3. UNCHANGED scannedAt
    BY <1>25 DEF CoverHistory
  <2>. QED BY <1>25, <2>1, <2>2, <2>3 DEF CoverHistory, RecordCoveragePerDay
<1>26. ASSUME NEW v \in Viewers, NEW from \in Days, NEW to \in Days, EnsureHistory(v, from, to) PROVE Synced'
  BY <1>26 DEF EnsureHistory
<1>27. CASE AskSync
  BY <1>27 DEF AskSync
<1>28. CASE QueueSync
  BY <1>28 DEF QueueSync
<1>29. ASSUME NEW c \in Credits, Book(c) PROVE Synced'
  BY <1>29 DEF Book
<1>30. CASE Tick
  BY <1>30 DEF Tick
<1>31. CASE KillSession
  BY <1>31 DEF KillSession
<1>32. CASE LeaveMonitoring
  BY <1>32 DEF LeaveMonitoring
<1>33. CASE Login
  BY <1>33 DEF Login
<1>34. CASE BackoffEnds
  BY <1>34 DEF BackoffEnds
<1>35. CASE Restart
  BY <1>35 DEF Restart
<1>36. CASE UNCHANGED vars
  BY <1>36 DEF vars
<1>. QED
  BY <1>1, <1>2, <1>3, <1>4, <1>5, <1>6, <1>7, <1>8, <1>9, <1>10, <1>11, <1>12, <1>13, <1>14, <1>15, <1>16,
     <1>17, <1>18, <1>19, <1>20, <1>21, <1>22, <1>23, <1>24, <1>25, <1>26, <1>27, <1>28, <1>29, <1>30, <1>31, <1>32,
     <1>33, <1>34, <1>35, <1>36 DEF Next, RunStep, HistoryStep


\* What coverage lets a catch-up skip is done.
LEMMA CoveredIsDone ==
  ASSUME AccountInv, NEW d \in Days, d < Today, Covered(d, d)
  PROVE  Done(d)
<1>. USE BankMonitorAssumption DEF Never
<1>1. /\ clock \in Nat /\ Today = DayOf(clock) /\ Today \in Nat /\ d \in Nat
      /\ syncedAt[d] \in Nat \cup {Never} /\ scannedAt[d] \in Nat \cup {Never}
  BY ClockDays DEF AccountInv, CoverageInv, Typed, Shapes, Today
<1>2. /\ syncedAt[d] # Never
      /\ clock - syncedAt[d] <= IF d = Today - 1 THEN YesterdayTTL ELSE OlderTTL
  BY <1>1 DEF Covered, Fresh
<1>3. scannedAt[d] # Never /\ syncedAt[d] <= scannedAt[d] + MaxScan
  BY <1>2 DEF AccountInv, Synced
<1>4. /\ LastTickOf(d) + 1 <= clock
      /\ d < Today - 1 => LastTickOf(d) + 1 + DayLength <= clock
  BY <1>1, DayIsOver
<1>5. LastTickOf(d) \in Int
  BY <1>1 DEF LastTickOf
<1>. QED BY <1>1, <1>2, <1>3, <1>4, <1>5 DEF Done

LEMMA StepCatchingUp == AccountInv /\ [Next]_vars => CatchingUp'
<1>. SUFFICES ASSUME AccountInv, [Next]_vars PROVE CatchingUp'
  OBVIOUS
<1>a. /\ rpc \in Places /\ clock \in Nat /\ fetchedAt \in Nat
      /\ upTo \in Days /\ catchFrom \in Days /\ day \in Nat /\ origin \in Days
      /\ checkpoint \in Days \cup {Never}
      /\ scannedAt \in [Days -> Nat \cup {Never}]
      /\ rpc \in {"ingest", "cover", "mark"} => day <= upTo
      /\ Today \in Nat \ {0} /\ Days = 0 .. DayOf(MaxClock) /\ DayOf(MaxClock) \in Nat
  BY ClockDays, BankMonitorAssumption DEF AccountInv, CoverageInv, Typed, Shapes
<1>b. /\ CoverageInv /\ GateHeld /\ Recorded /\ CatchingUp /\ Account
  BY DEF AccountInv, CoverageInv
<1>c. \A d \in Days : /\ Done(d) => Done(d)'
                      /\ scannedAt[d] # Never => scannedAt'[d] # Never
  BY <1>b, DoneStays
<1>d. \A d \in Days : LastTickOf(d) \in Int
  BY <1>a, BankMonitorAssumption DEF LastTickOf
<1>. USE <1>a, <1>b, <1>c, <1>d, BankMonitorAssumption
     DEF CatchingUp, GateHeld, Inside, Places, Never, Today, bankVars, connVars, tableVars, runVars,
         syncVars, viewerVars, ghostVars, counters, others, runAndEnv, allButClock
<1>1. ASSUME NEW mode \in Modes, RunTop(mode) PROVE CatchingUp'
  BY <1>1 DEF RunTop, At
<1>2. CASE Reload
  BY <1>2 DEF Reload, At
<1>3. CASE ReceiveSync
  BY <1>3 DEF ReceiveSync, At
<1>4. CASE TakeSync
  BY <1>4 DEF TakeSync
<1>5. CASE TimerFires
  <2>1. UNCHANGED <<others, connVars, tableVars, gate, day, rows, whole, ghostVars>>
    BY <1>5 DEF TimerFires
  <2>2. rpc' \in {"lockCatch", "lockPoll", "lockKeepalive", "top"}
    BY <1>5, TimerLeaves DEF CoverageInv
  <2>. QED BY <2>1, <2>2
<1>6. CASE LockCatch
  <2>1. CASE monitoring
    <3>1. PICK known \in {checkpoint, Never} :
            catchFrom' = CatchFrom(known) /\ origin' = NewOrigin(known)
      BY <1>6, <2>1 DEF LockCatch
    <3>2. rpc' = "connect" /\ upTo' = Today /\ UNCHANGED <<clock, scannedAt, checkpoint>>
      BY <1>6, <2>1 DEF LockCatch
    <3>3. ASSUME NEW d \in Days, origin' <= d, d < catchFrom', d < upTo' PROVE Done(d)
      <4>1. known \in Nat \cup {Never} /\ origin \in Nat /\ d \in Nat /\ Today \in Nat \ {0}
        OBVIOUS
      <4>2. known # Never /\ d < known /\ NewOrigin(known) = origin
        BY <3>1, <3>3, <4>1, CatchUpResumes
      <4>3. d < known /\ known = checkpoint /\ origin <= d
        BY <3>1, <3>3, <4>2
      <4>. QED BY <4>3 DEF Account
    <3>. QED BY <3>2, <3>3
  <2>2. CASE ~monitoring
    BY <1>6, <2>2 DEF LockCatch, Return
  <2>. QED BY <2>1, <2>2
<1>7. CASE CatchConnect
  BY <1>7 DEF CatchConnect
<1>8. CASE CatchSkip
  <2>1. /\ rpc = "day" /\ day < upTo /\ Covered(day, day)
        /\ day' = day + 1 /\ UNCHANGED <<rpc, upTo, origin, clock, scannedAt>>
    BY <1>8 DEF CatchSkip
  <2>2. day \in Days /\ day < Today
    BY <2>1 DEF CatchingUp
  <2>5. Done(day)
    BY <2>1, <2>2, CoveredIsDone
  <2>. QED BY <2>1, <2>2, <2>5
<1>9. CASE CatchFails
  BY <1>9 DEF CatchFails, Return, ScansDay
<1>10. ASSUME NEW complete \in BOOLEAN, CatchFetch(complete) PROVE CatchingUp'
  BY <1>10 DEF CatchFetch, ScansDay, HistoryAnswers
<1>11. CASE CatchIngest
  BY <1>11 DEF CatchIngest, Return, Ingest, Scanned
<1>12. CASE CatchCover
  <2>1. /\ rpc = "cover" /\ rpc' = "mark"
        /\ UNCHANGED <<day, upTo, origin, clock, scannedAt, fetchedAt>>
    BY <1>12 DEF CatchCover, At
  <2>2. day \in Days /\ scannedAt[day] = fetchedAt
    BY <2>1 DEF Recorded
  <2>3. ASSUME day < upTo PROVE Done(day)
    <3>0. upTo \in Nat /\ upTo <= DayOf(fetchedAt) /\ DayOf(fetchedAt) \in Nat
      BY <2>1, DayType
    <3>1. day \in Nat /\ fetchedAt \in Nat /\ day < DayOf(fetchedAt)
      BY <2>2, <2>3, <3>0
    <3>2. LastTickOf(day) + 1 <= fetchedAt
      BY <3>1, DayIsOver
    <3>. QED BY <2>2, <3>2 DEF Done
  <2>. QED BY <2>1, <2>2, <2>3
<1>13. CASE CatchMark
  <2>1. /\ rpc = "mark" /\ rpc' = "day" /\ day' = day + 1
        /\ UNCHANGED <<upTo, origin, clock, scannedAt>>
    BY <1>13 DEF CatchMark, At
  <2>. QED BY <2>1
<1>14. CASE CatchDone
  BY <1>14 DEF CatchDone, Return
<1>15. CASE LockPoll
  BY <1>15 DEF LockPoll, Return
<1>16. CASE PollRefused
  BY <1>16 DEF PollRefused, Return, LoseSession
<1>17. CASE PollFails
  BY <1>17 DEF PollFails, Return
<1>18. ASSUME NEW complete \in BOOLEAN, PollAnswered(complete) PROVE CatchingUp'
  BY <1>18 DEF PollAnswered, At, HistoryAnswers
<1>19. CASE PollIngest
  BY <1>19 DEF PollIngest, Return, Ingest
<1>20. CASE KeepaliveRefused
  BY <1>20 DEF KeepaliveRefused, Return, LoseSession
<1>21. CASE Keepalive
  BY <1>21 DEF Keepalive, Return
<1>22. ASSUME NEW v \in Viewers, LockHistory(v) PROVE CatchingUp'
  BY <1>22 DEF LockHistory, Leave, GoTo
<1>23. ASSUME NEW v \in Viewers, FetchHistory(v) PROVE CatchingUp'
  BY <1>23 DEF FetchHistory, Leave, HistoryAnswers
<1>24. ASSUME NEW v \in Viewers, IngestHistory(v) PROVE CatchingUp'
  BY <1>24 DEF IngestHistory, Leave, GoTo, Ingest, Scanned
<1>25. ASSUME NEW v \in Viewers, CoverHistory(v) PROVE CatchingUp'
  BY <1>25 DEF CoverHistory, Leave, RecordCoveragePerDay
<1>26. ASSUME NEW v \in Viewers, NEW from \in Days, NEW to \in Days, EnsureHistory(v, from, to) PROVE CatchingUp'
  BY <1>26 DEF EnsureHistory
<1>27. CASE AskSync
  BY <1>27 DEF AskSync
<1>28. CASE QueueSync
  BY <1>28 DEF QueueSync
<1>29. ASSUME NEW c \in Credits, Book(c) PROVE CatchingUp'
  BY <1>29 DEF Book
<1>30. CASE Tick
  <2>1. clock' = clock + 1 /\ clock' \in Nat
        /\ UNCHANGED <<rpc, upTo, fetchedAt, day, catchFrom, origin, checkpoint, scannedAt>>
    BY <1>30 DEF Tick
  <2>2. Today <= Today' /\ Today' \in Nat
    BY <2>1, TodayGrows
  <2>3. DayOf(fetchedAt)' = DayOf(fetchedAt)
    BY <2>1
  <2>4. DayOf(fetchedAt) \in Nat
    BY DayType
  <2>. QED BY <2>1, <2>2, <2>3, <2>4
<1>31. CASE KillSession
  BY <1>31 DEF KillSession
<1>32. CASE LeaveMonitoring
  BY <1>32 DEF LeaveMonitoring
<1>33. CASE Login
  BY <1>33 DEF Login
<1>34. CASE BackoffEnds
  BY <1>34 DEF BackoffEnds
<1>35. CASE Restart
  BY <1>35 DEF Restart
<1>36. CASE UNCHANGED vars
  BY <1>36 DEF vars
<1>. QED
  BY <1>1, <1>2, <1>3, <1>4, <1>5, <1>6, <1>7, <1>8, <1>9, <1>10, <1>11, <1>12, <1>13, <1>14, <1>15, <1>16,
     <1>17, <1>18, <1>19, <1>20, <1>21, <1>22, <1>23, <1>24, <1>25, <1>26, <1>27, <1>28, <1>29, <1>30, <1>31, <1>32,
     <1>33, <1>34, <1>35, <1>36 DEF Next, RunStep, HistoryStep

LEMMA StepAccount == AccountInv /\ [Next]_vars => Account'
<1>. SUFFICES ASSUME AccountInv, [Next]_vars PROVE Account'
  OBVIOUS
<1>a. /\ rpc \in Places /\ clock \in Nat /\ fetchedAt \in Nat
      /\ upTo \in Days /\ catchFrom \in Days /\ day \in Nat /\ origin \in Days
      /\ checkpoint \in Days \cup {Never}
      /\ scannedAt \in [Days -> Nat \cup {Never}]
      /\ rpc \in {"ingest", "cover", "mark"} => day <= upTo
      /\ Today \in Nat \ {0} /\ Days = 0 .. DayOf(MaxClock) /\ DayOf(MaxClock) \in Nat
  BY ClockDays, BankMonitorAssumption DEF AccountInv, CoverageInv, Typed, Shapes
<1>b. /\ CoverageInv /\ GateHeld /\ Recorded /\ CatchingUp /\ Account
  BY DEF AccountInv, CoverageInv
<1>c. \A d \in Days : /\ Done(d) => Done(d)'
                      /\ scannedAt[d] # Never => scannedAt'[d] # Never
  BY <1>b, DoneStays
<1>d. \A d \in Days : LastTickOf(d) \in Int
  BY <1>a, BankMonitorAssumption DEF LastTickOf
<1>. USE <1>a, <1>b, <1>c, <1>d, BankMonitorAssumption
     DEF Account, Never, Today, bankVars, connVars, tableVars, runVars,
         syncVars, viewerVars, ghostVars, counters, others, runAndEnv, allButClock
<1>1. ASSUME NEW mode \in Modes, RunTop(mode) PROVE Account'
  BY <1>1 DEF RunTop, At
<1>2. CASE Reload
  BY <1>2 DEF Reload, At
<1>3. CASE ReceiveSync
  BY <1>3 DEF ReceiveSync, At
<1>4. CASE TakeSync
  BY <1>4 DEF TakeSync
<1>5. CASE TimerFires
  <2>1. UNCHANGED <<others, connVars, tableVars, gate, day, rows, whole, ghostVars>>
    BY <1>5 DEF TimerFires
  <2>2. rpc' \in {"lockCatch", "lockPoll", "lockKeepalive", "top"}
    BY <1>5, TimerLeaves DEF CoverageInv
  <2>. QED BY <2>1, <2>2
<1>6. CASE LockCatch
  <2>1. CASE monitoring
    <3>1. PICK known \in {checkpoint, Never} : origin' = NewOrigin(known)
      BY <1>6, <2>1 DEF LockCatch
    <3>2. UNCHANGED <<clock, scannedAt, checkpoint>>
      BY <1>6, <2>1 DEF LockCatch
    <3>3. /\ origin \in Nat /\ origin < Today
          /\ known \in Nat \cup {Never} /\ known \in {checkpoint, Never}
      OBVIOUS
    <3>4. CASE known = Never
      <4>1. origin' = Today - 1
        BY <3>1, <3>4 DEF NewOrigin
      <4>. QED BY <3>2, <3>3, <4>1
    <3>5. CASE known # Never /\ known < Today - Window
      <4>1. origin' = Today - Window /\ checkpoint < origin' /\ checkpoint \in Nat
        BY <3>1, <3>3, <3>5 DEF NewOrigin
      <4>. QED BY <3>2, <3>3, <4>1
    <3>6. CASE known # Never /\ ~(known < Today - Window)
      <4>1. origin' = origin
        BY <3>1, <3>6 DEF NewOrigin
      <4>. QED BY <3>2, <4>1
    <3>. QED BY <3>4, <3>5, <3>6
  <2>2. CASE ~monitoring
    BY <1>6, <2>2 DEF LockCatch
  <2>. QED BY <2>1, <2>2
<1>7. CASE CatchConnect
  BY <1>7 DEF CatchConnect
<1>8. CASE CatchSkip
  <2>1. /\ rpc = "day" /\ day < upTo /\ Covered(day, day)
        /\ checkpoint' \in {day, checkpoint} /\ UNCHANGED <<upTo, origin, clock, scannedAt>>
    BY <1>8 DEF CatchSkip
  <2>2. day \in Days /\ day < Today
    BY <2>1 DEF CatchingUp
  <2>5. Done(day)
    BY <2>1, <2>2, CoveredIsDone
  <2>3. \A d \in Days : Done(d) => scannedAt[d] # Never
    BY DEF Done
  <2>4. CASE checkpoint' = day
    BY <2>1, <2>2, <2>3, <2>4, <2>5 DEF CatchingUp
  <2>. QED BY <2>1, <2>4
<1>9. CASE CatchFails
  BY <1>9 DEF CatchFails, Return, ScansDay
<1>10. ASSUME NEW complete \in BOOLEAN, CatchFetch(complete) PROVE Account'
  BY <1>10 DEF CatchFetch, ScansDay, HistoryAnswers
<1>11. CASE CatchIngest
  BY <1>11 DEF CatchIngest, Return, Ingest, Scanned
<1>12. CASE CatchCover
  BY <1>12 DEF CatchCover, At, RecordCoveragePerDay
<1>13. CASE CatchMark
  <2>1. /\ rpc = "mark" /\ checkpoint' \in {day, checkpoint}
        /\ UNCHANGED <<upTo, origin, clock, scannedAt>>
    BY <1>13 DEF CatchMark, At
  <2>2. day \in Days /\ scannedAt[day] # Never
    BY <2>1 DEF CatchingUp
  <2>3. \A d \in Days : Done(d) => scannedAt[d] # Never
    BY DEF Done
  <2>4. CASE checkpoint' = day
    BY <2>1, <2>2, <2>3, <2>4 DEF CatchingUp
  <2>. QED BY <2>1, <2>4
<1>14. CASE CatchDone
  BY <1>14 DEF CatchDone, Return
<1>15. CASE LockPoll
  BY <1>15 DEF LockPoll, Return
<1>16. CASE PollRefused
  BY <1>16 DEF PollRefused, Return, LoseSession
<1>17. CASE PollFails
  BY <1>17 DEF PollFails, Return
<1>18. ASSUME NEW complete \in BOOLEAN, PollAnswered(complete) PROVE Account'
  BY <1>18 DEF PollAnswered, At, HistoryAnswers
<1>19. CASE PollIngest
  BY <1>19 DEF PollIngest, Return, Ingest
<1>20. CASE KeepaliveRefused
  BY <1>20 DEF KeepaliveRefused, Return, LoseSession
<1>21. CASE Keepalive
  BY <1>21 DEF Keepalive, Return
<1>22. ASSUME NEW v \in Viewers, LockHistory(v) PROVE Account'
  BY <1>22 DEF LockHistory, Leave, GoTo
<1>23. ASSUME NEW v \in Viewers, FetchHistory(v) PROVE Account'
  BY <1>23 DEF FetchHistory, Leave, HistoryAnswers
<1>24. ASSUME NEW v \in Viewers, IngestHistory(v) PROVE Account'
  BY <1>24 DEF IngestHistory, Leave, GoTo, Ingest, Scanned
<1>25. ASSUME NEW v \in Viewers, CoverHistory(v) PROVE Account'
  BY <1>25 DEF CoverHistory, Leave, RecordCoveragePerDay
<1>26. ASSUME NEW v \in Viewers, NEW from \in Days, NEW to \in Days, EnsureHistory(v, from, to) PROVE Account'
  BY <1>26 DEF EnsureHistory
<1>27. CASE AskSync
  BY <1>27 DEF AskSync
<1>28. CASE QueueSync
  BY <1>28 DEF QueueSync
<1>29. ASSUME NEW c \in Credits, Book(c) PROVE Account'
  BY <1>29 DEF Book
<1>30. CASE Tick
  <2>1. clock' = clock + 1 /\ clock' \in Nat
        /\ UNCHANGED <<rpc, upTo, fetchedAt, day, catchFrom, origin, checkpoint, scannedAt>>
    BY <1>30 DEF Tick
  <2>2. Today <= Today' /\ Today' \in Nat
    BY <2>1, TodayGrows
  <2>3. DayOf(fetchedAt)' = DayOf(fetchedAt)
    BY <2>1
  <2>4. DayOf(fetchedAt) \in Nat
    BY DayType
  <2>. QED BY <2>1, <2>2, <2>3, <2>4
<1>31. CASE KillSession
  BY <1>31 DEF KillSession
<1>32. CASE LeaveMonitoring
  BY <1>32 DEF LeaveMonitoring
<1>33. CASE Login
  BY <1>33 DEF Login
<1>34. CASE BackoffEnds
  BY <1>34 DEF BackoffEnds
<1>35. CASE Restart
  BY <1>35 DEF Restart
<1>36. CASE UNCHANGED vars
  BY <1>36 DEF vars
<1>. QED
  BY <1>1, <1>2, <1>3, <1>4, <1>5, <1>6, <1>7, <1>8, <1>9, <1>10, <1>11, <1>12, <1>13, <1>14, <1>15, <1>16,
     <1>17, <1>18, <1>19, <1>20, <1>21, <1>22, <1>23, <1>24, <1>25, <1>26, <1>27, <1>28, <1>29, <1>30, <1>31, <1>32,
     <1>33, <1>34, <1>35, <1>36 DEF Next, RunStep, HistoryStep

\* Whatever days the gateway is down, whatever checkpoint it cannot read or
\* save and however late answers are stored, the checkpoint passes a day only
\* after a scan close enough to its end (monitor.go:754, monitor.go:797).
THEOREM CheckpointIsAccounted == Spec => []CheckpointAccounts
<1>1. AccountInv /\ [Next]_vars => AccountInv'
  BY StepCoverage, StepOnTime, StepSynced, StepCatchingUp, StepAccount DEF AccountInv
<1>2. ASSUME AccountInv PROVE CheckpointAccounts
  <2>1. \A d \in origin .. checkpoint : d \in Days /\ origin <= d /\ d <= checkpoint
    BY <1>2, ClockDays DEF AccountInv, CoverageInv, Typed, Shapes, Never
  <2>. QED BY <1>2, <2>1 DEF AccountInv, Account, CheckpointAccounts, Done
<1>. QED BY InitAccount, <1>1, <1>2, PTL DEF Spec

-----------------------------------------------------------------------------
(* Manual syncs                                                            *)

LEMMA StepSyncNotLost == Typed /\ SyncNotLost /\ [Next]_vars => SyncNotLost'
<1>. SUFFICES ASSUME Typed, SyncNotLost, [Next]_vars PROVE SyncNotLost'
  OBVIOUS
<1>a. rpc \in Places
  BY DEF Typed, Shapes
<1>. USE <1>a, BankMonitorAssumption
     DEF SyncNotLost, Places, Never, bankVars, connVars, tableVars, runVars,
         syncVars, viewerVars, ghostVars, counters, others, runAndEnv, allButClock
<1>1. ASSUME NEW mode \in Modes, RunTop(mode) PROVE SyncNotLost'
  BY <1>1 DEF RunTop, At
<1>2. CASE Reload
  BY <1>2 DEF Reload, At
<1>3. CASE ReceiveSync
  BY <1>3 DEF ReceiveSync, At
<1>4. CASE TakeSync
  BY <1>4 DEF TakeSync
<1>5. CASE TimerFires
  BY <1>5 DEF TimerFires
<1>6. CASE LockCatch
  BY <1>6 DEF LockCatch, Return
<1>7. CASE CatchConnect
  BY <1>7 DEF CatchConnect
<1>8. CASE CatchSkip
  BY <1>8 DEF CatchSkip
<1>9. CASE CatchFails
  BY <1>9 DEF CatchFails, Return, ScansDay
<1>10. ASSUME NEW complete \in BOOLEAN, CatchFetch(complete) PROVE SyncNotLost'
  BY <1>10 DEF CatchFetch, ScansDay, HistoryAnswers
<1>11. CASE CatchIngest
  BY <1>11 DEF CatchIngest, Return, Ingest, Scanned
<1>12. CASE CatchCover
  BY <1>12 DEF CatchCover, At, RecordCoveragePerDay
<1>13. CASE CatchMark
  BY <1>13 DEF CatchMark, At
<1>14. CASE CatchDone
  BY <1>14 DEF CatchDone, Return
<1>15. CASE LockPoll
  BY <1>15 DEF LockPoll, Return
<1>16. CASE PollRefused
  BY <1>16 DEF PollRefused, Return, LoseSession
<1>17. CASE PollFails
  BY <1>17 DEF PollFails, Return
<1>18. ASSUME NEW complete \in BOOLEAN, PollAnswered(complete) PROVE SyncNotLost'
  BY <1>18 DEF PollAnswered, At, HistoryAnswers
<1>19. CASE PollIngest
  BY <1>19 DEF PollIngest, Return, Ingest
<1>20. CASE KeepaliveRefused
  BY <1>20 DEF KeepaliveRefused, Return, LoseSession
<1>21. CASE Keepalive
  BY <1>21 DEF Keepalive, Return
<1>22. ASSUME NEW v \in Viewers, LockHistory(v) PROVE SyncNotLost'
  BY <1>22 DEF LockHistory, Leave, GoTo
<1>23. ASSUME NEW v \in Viewers, FetchHistory(v) PROVE SyncNotLost'
  BY <1>23 DEF FetchHistory, Leave, HistoryAnswers
<1>24. ASSUME NEW v \in Viewers, IngestHistory(v) PROVE SyncNotLost'
  BY <1>24 DEF IngestHistory, Leave, GoTo, Ingest, Scanned
<1>25. ASSUME NEW v \in Viewers, CoverHistory(v) PROVE SyncNotLost'
  BY <1>25 DEF CoverHistory, Leave, RecordCoveragePerDay
<1>26. ASSUME NEW v \in Viewers, NEW from \in Days, NEW to \in Days, EnsureHistory(v, from, to) PROVE SyncNotLost'
  BY <1>26 DEF EnsureHistory
<1>27. CASE AskSync
  BY <1>27 DEF AskSync
<1>28. CASE QueueSync
  BY <1>28 DEF QueueSync
<1>29. ASSUME NEW c \in Credits, Book(c) PROVE SyncNotLost'
  BY <1>29 DEF Book
<1>30. CASE Tick
  BY <1>30 DEF Tick
<1>31. CASE KillSession
  BY <1>31 DEF KillSession
<1>32. CASE LeaveMonitoring
  BY <1>32 DEF LeaveMonitoring
<1>33. CASE Login
  BY <1>33 DEF Login
<1>34. CASE BackoffEnds
  BY <1>34 DEF BackoffEnds
<1>35. CASE Restart
  BY <1>35 DEF Restart
<1>36. CASE UNCHANGED vars
  BY <1>36 DEF vars
<1>. QED
  BY <1>1, <1>2, <1>3, <1>4, <1>5, <1>6, <1>7, <1>8, <1>9, <1>10, <1>11, <1>12, <1>13, <1>14, <1>15, <1>16,
     <1>17, <1>18, <1>19, <1>20, <1>21, <1>22, <1>23, <1>24, <1>25, <1>26, <1>27, <1>28, <1>29, <1>30, <1>31, <1>32,
     <1>33, <1>34, <1>35, <1>36 DEF Next, RunStep, HistoryStep

\* A manual sync that was accepted has its token in the channel or in the hands
\* of Run, however requests and receives interleave (monitor.go:132).
THEOREM SyncIsNotLost == Spec => []SyncNotLost
<1>1. Init => SyncNotLost
  BY DEF Init, SyncNotLost
<1>. QED BY InitTyped, StepTyped, StepSyncNotLost, <1>1, PTL DEF Spec

-----------------------------------------------------------------------------
(* The session refinement                                                  *)

\* A catch-up or poll works with the last session, also after the connection
\* has left MONITORING under it.
WorksWithLast == gate = Runner => rGen = LastSession

\* How a step can look from the session's side.
Unseen == UNCHANGED <<monitoring, generation, PolledSessions>>

SessionLeft ==
  /\ monitoring /\ monitoring' = FALSE /\ generation' = generation + 1
  /\ UNCHANGED PolledSessions

SessionBegun ==
  /\ ~monitoring /\ monitoring' = TRUE /\ generation' = generation + 1
  /\ gate # Runner /\ gate' # Runner

WorkBegun ==
  /\ monitoring /\ gate # Runner /\ gate' = Runner /\ rGen' = generation
  /\ UNCHANGED connVars

WorkDone == gate = Runner /\ gate' # Runner /\ UNCHANGED connVars

FoundDead ==
  /\ gate = Runner /\ gate' # Runner
  /\ generation = rGen /\ monitoring' = FALSE /\ generation' = generation + 1

SessionStep == Unseen \/ SessionLeft \/ SessionBegun \/ WorkBegun \/ WorkDone \/ FoundDead

\* A return of Run ends its work with the session, if it had any.
LEMMA ReturnIsSessionStep ==
  ASSUME Typed, NEW place, Return(place), UNCHANGED connVars
  PROVE  SessionStep
<1>1. CASE gate = Runner
  <2>1. gate' # Runner
    BY <1>1, BankMonitorAssumption DEF Return
  <2>2. QED
    BY <1>1, <2>1 DEF SessionStep, WorkDone
<1>2. CASE gate # Runner
  BY <1>2 DEF Return, PolledSessions, SessionStep, Unseen, connVars
<1>3. QED
  BY <1>1, <1>2

\* A viewer takes the gate from nobody and gives it back to nobody.
LEMMA ViewerIsSessionStep ==
  ASSUME Typed, GateHeld, NEW v \in Viewers, HistoryStep(v)
  PROVE  SessionStep
<1>1. UNCHANGED <<connVars, rGen>>
  BY DEF HistoryStep, LockHistory, FetchHistory, IngestHistory, CoverHistory, runAndEnv, runVars
<1>2. gate' = gate \/ (gate \in {Free, v} /\ gate' \in {Free, v})
  <2>1. CASE LockHistory(v)
    BY <2>1 DEF LockHistory, Leave, GoTo
  <2>2. CASE FetchHistory(v)
    BY <2>2 DEF FetchHistory, Leave
  <2>3. CASE IngestHistory(v)
    BY <2>3 DEF IngestHistory, Leave
  <2>4. CASE CoverHistory(v)
    BY <2>4 DEF CoverHistory, Leave
  <2>5. QED
    BY <2>1, <2>2, <2>3, <2>4 DEF HistoryStep
<1>3. UNCHANGED PolledSessions
  BY <1>1, <1>2, BankMonitorAssumption DEF PolledSessions
<1>4. QED
  BY <1>1, <1>3 DEF SessionStep, Unseen, connVars

LEMMA NextIsSessionStep ==
  ASSUME Typed, GateHeld, [Next]_vars
  PROVE  SessionStep
<1>. USE DEF SessionStep
<1>0. gate \in Viewers \cup {Runner, Free}
  BY DEF Typed, Shapes
<1>1. ASSUME UNCHANGED <<connVars, gate, rGen>> PROVE SessionStep
  BY <1>1 DEF Unseen, PolledSessions, connVars
<1>2. CASE \/ \E mode \in Modes : RunTop(mode)
           \/ Reload \/ ReceiveSync \/ TakeSync \/ TimerFires
  BY <1>1, <1>2 DEF RunTop, Reload, ReceiveSync, TakeSync, TimerFires, At
<1>3. CASE CatchConnect \/ CatchSkip \/ CatchCover \/ CatchMark
  BY <1>1, <1>3 DEF CatchConnect, CatchSkip, CatchCover, CatchMark, At
<1>4. CASE \E complete \in BOOLEAN : CatchFetch(complete) \/ PollAnswered(complete)
  BY <1>1, <1>4 DEF CatchFetch, PollAnswered, At
<1>5. CASE LockCatch
  <2>1. CASE monitoring
    BY <1>5, <2>1, BankMonitorAssumption DEF LockCatch, WorkBegun
  <2>2. CASE ~monitoring
    BY <1>5, <2>2, ReturnIsSessionStep DEF LockCatch
  <2>. QED BY <2>1, <2>2
<1>6. CASE LockPoll
  <2>1. CASE monitoring /\ ~backoff /\ expected \in {Never, generation}
    BY <1>6, <2>1, BankMonitorAssumption DEF LockPoll, WorkBegun
  <2>2. CASE ~(monitoring /\ ~backoff /\ expected \in {Never, generation})
    BY <1>6, <2>2, ReturnIsSessionStep DEF LockPoll
  <2>. QED BY <2>1, <2>2
<1>7. CASE CatchFails \/ CatchDone \/ PollFails \/ Keepalive \/ PollIngest
  BY <1>7, ReturnIsSessionStep DEF CatchFails, CatchDone, PollFails, Keepalive, PollIngest
<1>8. CASE CatchIngest
  <2>1. UNCHANGED connVars /\ (Return("top") \/ UNCHANGED <<gate, rGen>>)
    BY <1>8 DEF CatchIngest
  <2>. QED BY <1>1, <2>1, ReturnIsSessionStep
<1>9. CASE PollRefused
  <2>1. gate = Runner
    BY <1>9 DEF PollRefused, GateHeld, Inside
  <2>2. gate' # Runner
    BY <1>9, <2>1, BankMonitorAssumption DEF PollRefused, Return
  <2>3. CASE generation = rGen
    BY <1>9, <2>1, <2>2, <2>3 DEF PollRefused, LoseSession, FoundDead
  <2>4. CASE generation # rGen
    BY <1>9, <2>1, <2>2, <2>4 DEF PollRefused, LoseSession, WorkDone
  <2>. QED BY <2>3, <2>4
<1>10. CASE KeepaliveRefused
  <2>1. gate # Runner /\ gate' # Runner
    BY <1>10, BankMonitorAssumption DEF KeepaliveRefused, Return
  <2>2. monitoring /\ monitoring' = FALSE /\ generation' = generation + 1
    BY <1>10 DEF KeepaliveRefused, LoseSession
  <2>. QED BY <2>1, <2>2 DEF SessionLeft, PolledSessions
<1>11. ASSUME NEW v \in Viewers, HistoryStep(v) PROVE SessionStep
  BY <1>11, ViewerIsSessionStep
<1>12. ASSUME NEW v \in Viewers, NEW from \in Days, NEW to \in Days, EnsureHistory(v, from, to)
       PROVE  SessionStep
  BY <1>1, <1>12 DEF EnsureHistory, runAndEnv, runVars
<1>13. CASE AskSync \/ QueueSync \/ BackoffEnds
  BY <1>1, <1>13 DEF AskSync, QueueSync, BackoffEnds, runVars
<1>14. CASE (\E c \in Credits : Book(c)) \/ Tick \/ KillSession
  BY <1>1, <1>14 DEF Book, Tick, KillSession, allButClock, runVars
<1>15. CASE LeaveMonitoring
  BY <1>15 DEF LeaveMonitoring, runVars, SessionLeft, PolledSessions
<1>16. CASE Login
  BY <1>16 DEF Login, SessionBegun
<1>17. CASE Restart
  <2>1. gate' # Runner /\ UNCHANGED connVars
    BY <1>17, BankMonitorAssumption DEF Restart
  <2>2. CASE gate = Runner
    BY <2>1, <2>2 DEF WorkDone
  <2>3. CASE gate # Runner
    BY <2>1, <2>3 DEF Unseen, PolledSessions, connVars
  <2>. QED BY <2>2, <2>3
<1>18. CASE UNCHANGED vars
  BY <1>1, <1>18 DEF vars, runVars
<1>. QED
  BY <1>2, <1>3, <1>4, <1>5, <1>6, <1>7, <1>8, <1>9, <1>10, <1>11, <1>12, <1>13, <1>14,
     <1>15, <1>16, <1>17, <1>18 DEF Next, RunStep

LEMMA WorksWithLastStep ==
  ASSUME Typed, Typed', WorksWithLast, SessionStep
  PROVE  WorksWithLast'
<1>0. generation \in Nat /\ monitoring \in BOOLEAN /\ rGen \in Nat /\ rGen' \in Nat
  BY DEF Typed, Shapes, Switches
<1>1. CASE Unseen
  BY <1>1, BankMonitorAssumption DEF Unseen, PolledSessions, WorksWithLast, LastSession
<1>2. CASE SessionLeft
  <2>1. LastSession' = LastSession
    BY <1>0, <1>2 DEF SessionLeft, LastSession
  <2>. QED BY <1>2, <2>1 DEF SessionLeft, PolledSessions, WorksWithLast
<1>3. CASE WorkBegun
  BY <1>3 DEF WorkBegun, WorksWithLast, LastSession, connVars
<1>4. CASE SessionBegun \/ WorkDone \/ FoundDead
  BY <1>4 DEF SessionBegun, WorkDone, FoundDead, WorksWithLast
<1>. QED BY <1>1, <1>2, <1>3, <1>4 DEF SessionStep

LEMMA SessionStepMaps ==
  ASSUME Typed, WorksWithLast, SessionStep
  PROVE  [Abstract!Next]_Abstract!vars
<1>0. generation \in Nat /\ monitoring \in BOOLEAN /\ LastSession \in Int
  BY DEF Typed, Shapes, Switches, LastSession
<1>1. CASE Unseen
  BY <1>1 DEF Unseen, LastSession, Abstract!vars
<1>2. CASE SessionLeft
  <2>1. LastSession' = LastSession
    BY <1>0, <1>2 DEF SessionLeft, LastSession
  <2>. QED BY <1>2, <2>1 DEF SessionLeft, Abstract!Next, Abstract!Leave
<1>3. CASE SessionBegun
  <2>1. LastSession' \in Int /\ LastSession' > LastSession
    BY <1>0, <1>3 DEF SessionBegun, LastSession
  <2>2. PolledSessions = {} /\ PolledSessions' = {}
    BY <1>3 DEF SessionBegun, PolledSessions
  <2>. QED BY <1>3, <2>1, <2>2 DEF SessionBegun, Abstract!Next, Abstract!Login
<1>4. CASE WorkBegun
  <2>1. LastSession' = LastSession /\ LastSession = generation
    BY <1>4 DEF WorkBegun, LastSession, connVars
  <2>2. PolledSessions = {} /\ PolledSessions' = {LastSession}
    BY <1>4, <2>1 DEF WorkBegun, PolledSessions
  <2>. QED BY <1>4, <2>1, <2>2 DEF WorkBegun, connVars, Abstract!Next, Abstract!Begin
<1>5. ASSUME gate = Runner, gate' # Runner, LastSession' = LastSession,
             monitoring' \in {monitoring, FALSE}
      PROVE  [Abstract!Next]_Abstract!vars
  <2>1. PolledSessions = {LastSession} /\ PolledSessions' = {}
    BY <1>5 DEF PolledSessions, WorksWithLast
  <2>. QED BY <1>5, <2>1 DEF Abstract!Next, Abstract!End
<1>6. CASE WorkDone
  BY <1>5, <1>6 DEF WorkDone, LastSession, connVars
<1>7. CASE FoundDead
  <2>1. monitoring /\ LastSession' = LastSession
    BY <1>0, <1>7 DEF FoundDead, WorksWithLast, LastSession
  <2>. QED BY <1>5, <1>7, <2>1 DEF FoundDead
<1>. QED BY <1>1, <1>2, <1>3, <1>4, <1>6, <1>7 DEF SessionStep

\* Run uses a session only as Session lets it: a catch-up or poll works with
\* the session it read, whatever happens to the connection meanwhile, and its
\* verdict ends no other.
THEOREM RunKeepsToSession == Spec => ImplementsSession
<1>1. Init => Abstract!Init /\ WorksWithLast
  BY BankMonitorAssumption
  DEF Init, Abstract!Init, PolledSessions, LastSession, WorksWithLast
<1>2. Typed /\ GateHeld /\ WorksWithLast /\ [Next]_vars => WorksWithLast'
  BY StepTyped, NextIsSessionStep, WorksWithLastStep
<1>3. Typed /\ GateHeld /\ WorksWithLast /\ [Next]_vars => [Abstract!Next]_Abstract!vars
  BY NextIsSessionStep, SessionStepMaps
<1>4. QED
  BY <1>1, <1>2, <1>3, InitTyped, StepTyped, InitGate, StepGate, PTL
  DEF Spec, ImplementsSession, Abstract!Spec

=============================================================================
