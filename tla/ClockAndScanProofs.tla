------------------------- MODULE ClockAndScanProofs -------------------------
(***************************************************************************)
(* Proofs about two parts of the monitor: Schedule and MonitorClock, for   *)
(* any settings and any length of the day, and HistoryScan, for any pages, *)
(* totals and budgets.                                                     *)
(***************************************************************************)
EXTENDS MonitorClock, HistoryScan, FiniteSetTheorems, TLAPS

-----------------------------------------------------------------------------
(* Least elements                                                          *)


\* A set of naturals that is not empty has a least element: its intervals
\* from 0 have one that holds no other.
LEMMA LeastElement ==
  ASSUME NEW S, S \subseteq Nat, S # {}
  PROVE  \E n \in S : \A m \in S : n <= m
<1>1. PICK k \in S : TRUE
  OBVIOUS
<1>. DEFINE below == {n \in S : n <= k}
            segments == {0 .. n : n \in below}
            R == StrictSubsetOrdering(0 .. k)
<1>2. IsWellFoundedOn(R, SUBSET (0 .. k))
  <2>1. IsWellFoundedOn(R, FiniteSubsetsOf(0 .. k))
    BY FS_StrictSubsetOrderingWellFounded
  <2>2. FiniteSubsetsOf(0 .. k) = SUBSET (0 .. k)
    <3>1. k \in Int
      BY <1>1
    <3>2. IsFiniteSet(0 .. k)
      BY <3>1, FS_Interval, 0 \in Int
    <3>. QED BY <3>2, FS_FiniteSubsetsOfFinite
  <2>. QED BY <2>1, <2>2
<1>3. segments \subseteq SUBSET (0 .. k) /\ segments # {}
  BY <1>1
<1>4. PICK x \in segments : \A y \in segments : ~ (<<y, x>> \in R)
  <2>. HIDE DEF segments, R
  <2>. QED BY <1>2, <1>3, WFMin
<1>5. PICK n \in below : x = 0 .. n
  BY <1>4
<1>6. ASSUME NEW m \in S, m < n PROVE FALSE
  <2>1. m \in below /\ 0 .. m \in segments
    BY <1>1, <1>5, <1>6
  <2>2. 0 .. m \subseteq 0 .. n /\ 0 .. m # 0 .. n
    BY <1>5, <1>6
  <2>3. <<0 .. m, 0 .. n>> \in R
    BY <1>3, <1>5, <2>1, <2>2 DEF StrictSubsetOrdering
  <2>. QED
    BY <1>4, <1>5, <2>1, <2>3
<1>. QED
  BY <1>5, <1>6

-----------------------------------------------------------------------------
(* The schedule                                                            *)

LEMMA DayBeforeDayAfter ==
  \A d \in Days : (d + 1) % 7 \in Days /\ (((d + 1) % 7) + 6) % 7 = d
  BY DEF Days

LEMMA LaterType == \A t \in Moments : Later(t) \in Moments
  BY ScheduleAssumption, DayBeforeDayAfter DEF Moments, Times, Later

\* A second later the clock is a second nearer to a time, unless it shows it.
LEMMA UntilLater ==
  ASSUME NEW time \in Times, NEW t \in Moments
  PROVE  /\ Until(time, t) \in Nat \ {0}
         /\ Until(time, t) > 1 => Until(time, Later(t)) = Until(time, t) - 1
  BY ScheduleAssumption DEF Times, Moments, Until, Later

\* A window that matches goes on doing so until the clock shows its end.
LEMMA MatchesUntilEnd ==
  ASSUME NEW w \in Windows, NEW t \in Moments, Matches(w, t), Until(w.end, t) > 1
  PROVE  Matches(w, Later(t))
<1>1. w.start \in Times /\ w.end \in Times /\ t.day \in Days /\ t.time \in Times
  BY DEF Windows, Moments
<1>2. CASE t.time + 1 < DayLength
  <2>1. Later(t).day = t.day /\ Later(t).time = t.time + 1
    BY <1>2 DEF Later, Moments
  <2>. QED BY <1>1, <1>2, <2>1, ScheduleAssumption DEF Matches, Weekday, WeekdayBefore, Until, Times
<1>3. CASE ~(t.time + 1 < DayLength)
  <2>1. /\ Later(t).day = (t.day + 1) % 7 /\ Later(t).time = 0
        /\ (Later(t).day + 6) % 7 = t.day
    BY <1>1, <1>3, DayBeforeDayAfter DEF Later
  <2>2. t.time = DayLength - 1
    BY <1>1, <1>3, ScheduleAssumption DEF Times
  <2>. QED BY <1>1, <2>1, <2>2, ScheduleAssumption DEF Matches, Weekday, WeekdayBefore, Until, Times
<1>. QED BY <1>2, <1>3

\* A window that does not match only begins when the clock shows its start.
LEMMA NoMatchUntilStart ==
  ASSUME NEW w \in Windows, NEW t \in Moments, ~Matches(w, t), Until(w.start, t) > 1
  PROVE  ~Matches(w, Later(t))
<1>1. w.start \in Times /\ w.end \in Times /\ t.day \in Days /\ t.time \in Times
  BY DEF Windows, Moments
<1>2. CASE t.time + 1 < DayLength
  <2>1. Later(t).day = t.day /\ Later(t).time = t.time + 1
    BY <1>2 DEF Later, Moments
  <2>. QED BY <1>1, <1>2, <2>1, ScheduleAssumption DEF Matches, Weekday, WeekdayBefore, Until, Times
<1>3. CASE ~(t.time + 1 < DayLength)
  <2>1. /\ Later(t).day = (t.day + 1) % 7 /\ Later(t).time = 0
        /\ (Later(t).day + 6) % 7 = t.day
    BY <1>1, <1>3, DayBeforeDayAfter DEF Later
  <2>2. t.time = DayLength - 1
    BY <1>1, <1>3, ScheduleAssumption DEF Times
  <2>. QED BY <1>1, <2>1, <2>2, ScheduleAssumption DEF Matches, Weekday, WeekdayBefore, Until, Times
<1>. QED BY <1>2, <1>3

\* The active window is the first of those that match.
LEMMA ActiveIsFirst ==
  ASSUME NEW s \in MonitorSettings, NEW t
  PROVE  /\ Matching(s, t) = {} => ActiveWindow(s, t) = 0
         /\ Matching(s, t) # {} => /\ ActiveWindow(s, t) \in Matching(s, t)
                                   /\ \A j \in Matching(s, t) : ActiveWindow(s, t) <= j
<1>1. DOMAIN s.windows = 1 .. Len(s.windows) /\ Len(s.windows) \in Nat
  BY DEF MonitorSettings
<1>2. Matching(s, t) \subseteq Nat
  BY <1>1 DEF Matching
<1>3. ASSUME Matching(s, t) # {}
      PROVE  \E i \in Matching(s, t) : \A j \in Matching(s, t) : i <= j
  BY <1>2, <1>3, LeastElement
<1>. QED
  BY <1>3 DEF ActiveWindow

LEMMA WindowType ==
  ASSUME NEW s \in MonitorSettings, NEW i \in DOMAIN s.windows
  PROVE  s.windows[i] \in Windows /\ s.windows[i].start \in Times /\ s.windows[i].end \in Times
<1>1. s.windows \in Seq(Windows)
  BY DEF MonitorSettings
<1>2. s.windows[i] \in Windows
  BY <1>1
<1>. QED BY <1>2 DEF Windows

\* While no window is active, the transition is the next start.
LEMMA TransitionIsStart ==
  ASSUME NEW s \in MonitorSettings, NEW t \in Moments, s.enabled, DOMAIN s.windows # {}
  PROVE  /\ \A i \in DOMAIN s.windows : UntilTransition(s, 0, t) <= Until(s.windows[i].start, t)
         /\ \E i \in DOMAIN s.windows : UntilTransition(s, 0, t) = Until(s.windows[i].start, t)
<1>. DEFINE starts == {Until(s.windows[i].start, t) : i \in DOMAIN s.windows}
<1>1. starts \subseteq Nat /\ starts # {}
  BY WindowType, UntilLater
<1>2. \E d \in starts : \A e \in starts : d <= e
  <2>. HIDE DEF starts
  <2>. QED BY <1>1, LeastElement
<1>3. UntilTransition(s, 0, t) = CHOOSE d \in starts : \A e \in starts : d <= e
  BY <1>1 DEF UntilTransition
<1>4. UntilTransition(s, 0, t) \in starts /\ \A e \in starts : UntilTransition(s, 0, t) <= e
  BY <1>2, <1>3
<1>. QED BY <1>4

\* The window that goes with the settings at t, 0 when none matches.
GoesBy(s, w, t) ==
  IF w = 0 THEN Matching(s, t) = {} ELSE w \in Matching(s, t)

\* UntilTransition is not too long (schedule.go:228): before it has passed,
\* what was active stays active, what was not does not begin, and the
\* transition comes a second nearer each second.
THEOREM NothingChangesBeforeTransition ==
  ASSUME NEW s \in MonitorSettings, NEW t \in Moments, NEW i \in Nat, GoesBy(s, i, t)
  PROVE  /\ UntilTransition(s, i, t) \in Nat \ {0}
         /\ s.enabled /\ UntilTransition(s, i, t) > 1 =>
              /\ GoesBy(s, i, Later(t))
              /\ DOMAIN s.windows # {} =>
                   UntilTransition(s, i, Later(t)) = UntilTransition(s, i, t) - 1
<1>. Later(t) \in Moments
  BY LaterType
<1>1. CASE ~s.enabled
  <2>. UntilTransition(s, i, t) = DayLength
    BY <1>1 DEF UntilTransition
  <2>. QED BY <1>1, ScheduleAssumption
<1>2. CASE s.enabled /\ i # 0
  <2>1. i \in DOMAIN s.windows /\ Matches(s.windows[i], t)
    BY <1>2 DEF GoesBy, Matching
  <2>2. /\ UntilTransition(s, i, t) = Until(s.windows[i].end, t)
        /\ UntilTransition(s, i, Later(t)) = Until(s.windows[i].end, Later(t))
    BY <1>2 DEF UntilTransition
  <2>3. s.windows[i] \in Windows /\ s.windows[i].end \in Times
    BY <2>1, WindowType
  <2>4. Until(s.windows[i].end, t) > 1 => Matches(s.windows[i], Later(t))
    BY <2>1, <2>3, MatchesUntilEnd
  <2>. QED BY <1>2, <2>1, <2>2, <2>3, <2>4, UntilLater DEF GoesBy, Matching
<1>3. CASE s.enabled /\ i = 0 /\ DOMAIN s.windows = {}
  <2>1. UntilTransition(s, i, t) = DayLength
    BY <1>3 DEF UntilTransition
  <2>. QED BY <1>3, <2>1, ScheduleAssumption DEF GoesBy, Matching
<1>4. CASE s.enabled /\ i = 0 /\ DOMAIN s.windows # {}
  <2>1. \A j \in DOMAIN s.windows : ~Matches(s.windows[j], t)
    BY <1>4 DEF GoesBy, Matching
  <2>2. /\ UntilTransition(s, 0, t) \in Nat \ {0}
        /\ \A j \in DOMAIN s.windows : UntilTransition(s, 0, t) <= Until(s.windows[j].start, t)
    BY <1>4, TransitionIsStart, WindowType, UntilLater
  <2>3. ASSUME UntilTransition(s, 0, t) > 1
        PROVE  /\ GoesBy(s, 0, Later(t))
               /\ UntilTransition(s, 0, Later(t)) = UntilTransition(s, 0, t) - 1
    <3>1. \A j \in DOMAIN s.windows :
            /\ Until(s.windows[j].start, t) \in Nat /\ Until(s.windows[j].start, t) > 1
            /\ Until(s.windows[j].start, Later(t)) = Until(s.windows[j].start, t) - 1
      BY <2>2, <2>3, WindowType, UntilLater
    <3>2. \A j \in DOMAIN s.windows : ~Matches(s.windows[j], Later(t))
      BY <2>1, <3>1, WindowType, NoMatchUntilStart
    <3>3. PICK j \in DOMAIN s.windows : UntilTransition(s, 0, t) = Until(s.windows[j].start, t)
      BY <1>4, TransitionIsStart
    <3>4. PICK k \in DOMAIN s.windows :
            UntilTransition(s, 0, Later(t)) = Until(s.windows[k].start, Later(t))
      BY <1>4, TransitionIsStart
    <3>5. /\ UntilTransition(s, 0, t) <= Until(s.windows[k].start, t)
          /\ UntilTransition(s, 0, Later(t)) <= Until(s.windows[j].start, Later(t))
      BY <1>4, TransitionIsStart
    <3>. QED BY <3>1, <3>2, <3>3, <3>4, <3>5 DEF GoesBy, Matching
  <2>. QED BY <1>4, <2>2, <2>3
<1>. QED BY <1>1, <1>2, <1>3, <1>4

-----------------------------------------------------------------------------
(* Types                                                                   *)

Typed == ClockTypeOK /\ Valid(cached) /\ Valid(saved)

LEMMA ProfileInForce ==
  ASSUME NEW s \in MonitorSettings, Valid(s), NEW t
  PROVE  LET p == ActiveProfile(s, ActiveWindow(s, t))
         IN  (p \in Profiles /\ ValidProfile(p)) \/ p = Continuous
<1>1. s.default \in Profiles /\ ValidProfile(s.default)
  BY DEF MonitorSettings, Valid
<1>2. ASSUME s.enabled, ActiveWindow(s, t) # 0
      PROVE  ActiveWindow(s, t) \in DOMAIN s.windows
  BY <1>2, ActiveIsFirst DEF Matching
<1>3. \A i \in DOMAIN s.windows : s.windows[i].profile \in Profiles /\ ValidProfile(s.windows[i].profile)
  BY WindowType DEF Windows, Valid
<1>. QED BY <1>1, <1>2, <1>3 DEF ActiveProfile

LEMMA WaitsType ==
  ASSUME NEW s \in MonitorSettings, Valid(s), NEW t, NEW wait \in Waits(ActiveProfile(s, ActiveWindow(s, t)))
  PROVE  wait \in Nat
<1>. DEFINE p == ActiveProfile(s, ActiveWindow(s, t))
<1>1. p \in Profiles
  BY ProfileInForce, ScheduleAssumption
<1>2. p.min \in Nat /\ p.max \in Nat
  BY <1>1 DEF Profiles
<1>. HIDE DEF p
<1>3. wait \in Waits(p)
  BY DEF p
<1>. QED BY <1>2, <1>3, ScheduleAssumption DEF Waits

LEMMA ActiveWindowType ==
  ASSUME NEW s \in MonitorSettings, NEW t
  PROVE  /\ ActiveWindow(s, t) \in 0 .. Len(s.windows)
         /\ GoesBy(s, ActiveWindow(s, t), t)
<1>1. DOMAIN s.windows = 1 .. Len(s.windows) /\ Len(s.windows) \in Nat
  BY DEF MonitorSettings
<1>2. Matching(s, t) \subseteq 1 .. Len(s.windows)
  BY <1>1 DEF Matching
<1>. QED BY <1>1, <1>2, ActiveIsFirst DEF GoesBy

LEMMA NoWindowType == \A s \in MonitorSettings : 0 \in 0 .. Len(s.windows)
<1>. TAKE s \in MonitorSettings
<1>1. Len(s.windows) \in Nat
  BY DEF MonitorSettings
<1>. QED BY <1>1

LEMMA InitTyped == ClockInit => Typed
<1>. SUFFICES ASSUME ClockInit PROVE Typed
  OBVIOUS
<1>. QED BY NoWindowType, ScheduleAssumption DEF ClockInit, Typed, ClockTypeOK

LEMMA StepTyped == Typed /\ [ClockNext]_clockVars => Typed'
<1>. SUFFICES ASSUME Typed, [ClockNext]_clockVars PROVE Typed'
  OBVIOUS
<1>. USE DEF Typed, ClockTypeOK
<1>1. CASE Resolve
  <2>1. window' \in 0 .. Len(cached.windows) /\ GoesBy(cached, window', at)
    BY <1>1, ActiveWindowType DEF Resolve
  <2>2. PICK wait \in Waits(ActiveProfile(cached, window')) :
          left' = Earlier(wait, UntilTransition(cached, window', at))
    BY <1>1 DEF Resolve
  <2>3. wait \in Nat
    BY <1>1, <2>2, WaitsType DEF Resolve
  <2>4. UntilTransition(cached, window', at) \in Nat
    BY <2>1, NothingChangesBeforeTransition
  <2>5. left' \in Nat
    BY <2>2, <2>3, <2>4 DEF Earlier
  <2>. QED BY <1>1, <2>1, <2>5 DEF Resolve, settingsVars
<1>2. CASE ClockTick
  BY <1>2, LaterType DEF ClockTick, settingsVars
<1>3. CASE TimerFires \/ SyncAsked \/ RequestEnds
  BY <1>3 DEF TimerFires, SyncAsked, RequestEnds, settingsVars
<1>4. CASE Reload
  BY <1>4, NoWindowType DEF Reload
<1>5. ASSUME NEW s \in Submitted, NEW named \in 0 .. Revisions, SaveMonitorSettings(s, named)
      PROVE  Typed'
  BY <1>5, ScheduleAssumption DEF SaveMonitorSettings, loopVars
<1>6. CASE NotifySettingsChanged
  BY <1>6 DEF NotifySettingsChanged, loopVars
<1>7. CASE ClockRestart
  BY <1>7, NoWindowType, ScheduleAssumption DEF ClockRestart
<1>8. CASE UNCHANGED clockVars
  BY <1>8 DEF clockVars, loopVars, settingsVars
<1>. QED
  BY <1>1, <1>2, <1>3, <1>4, <1>5, <1>6, <1>7, <1>8 DEF ClockNext

\* Every variable keeps to its declaration, and the settings in force are
\* valid whatever is submitted (schedule.go:76).
THEOREM MonitorClockTypes == ClockSpec => [](ClockTypeOK /\ Valid(cached) /\ Valid(saved))
<1>1. ClockSpec => []Typed
  BY InitTyped, StepTyped, PTL DEF ClockSpec
<1>. QED BY <1>1, PTL DEF Typed

-----------------------------------------------------------------------------
(* The schedule in force                                                   *)

\* What the loop goes by holds for as long as its timer has to run, and the
\* timer does not run past the transition.
Asleep ==
  (run = "asleep" /\ left > 0) =>
    /\ GoesBy(cached, window, at)
    /\ left <= UntilTransition(cached, window, at)

ClockInv == Typed /\ Asleep

LEMMA StepClock == ClockInv /\ [ClockNext]_clockVars => ClockInv'
<1>. SUFFICES ASSUME ClockInv, [ClockNext]_clockVars PROVE Asleep'
  BY StepTyped DEF ClockInv
<1>. USE DEF ClockInv, Typed, ClockTypeOK, Asleep
<1>1. CASE Resolve
  <2>1. window' \in 0 .. Len(cached.windows) /\ GoesBy(cached, window', at)
    BY <1>1, ActiveWindowType DEF Resolve
  <2>2. PICK wait \in Waits(ActiveProfile(cached, window')) :
          left' = Earlier(wait, UntilTransition(cached, window', at))
    BY <1>1 DEF Resolve
  <2>3. wait \in Nat
    BY <1>1, <2>2, WaitsType DEF Resolve
  <2>4. UntilTransition(cached, window', at) \in Nat
    BY <2>1, NothingChangesBeforeTransition
  <2>5. left' <= UntilTransition(cached, window', at)
    BY <2>2, <2>3, <2>4 DEF Earlier
  <2>. QED BY <1>1, <2>1, <2>5 DEF Resolve, settingsVars
<1>2. CASE ClockTick
  <2>. SUFFICES ASSUME run' = "asleep", left' > 0
                PROVE  /\ GoesBy(cached, window, at')
                       /\ left' <= UntilTransition(cached, window, at')
    BY <1>2 DEF ClockTick, settingsVars
  <2>1. run = "asleep" /\ left > 1 /\ left' = left - 1 /\ at' = Later(at)
    BY <1>2 DEF ClockTick
  <2>2. window \in Nat /\ GoesBy(cached, window, at) /\ left <= UntilTransition(cached, window, at)
    BY <2>1
  <2>3. UntilTransition(cached, window, at) \in Nat /\ UntilTransition(cached, window, at) > 1
    BY <2>1, <2>2, NothingChangesBeforeTransition
  <2>4. CASE cached.enabled /\ DOMAIN cached.windows # {}
    BY <2>1, <2>2, <2>3, <2>4, NothingChangesBeforeTransition
  <2>5. CASE ~cached.enabled \/ DOMAIN cached.windows = {}
    <3>1. Matching(cached, at) = {} /\ Matching(cached, at') = {} /\ window = 0
      BY <2>2, <2>5 DEF GoesBy, Matching
    <3>2. UntilTransition(cached, 0, at) = DayLength /\ UntilTransition(cached, 0, at') = DayLength
      BY <2>5 DEF UntilTransition
    <3>. QED BY <2>1, <2>2, <3>1, <3>2, ScheduleAssumption DEF GoesBy
  <2>. QED BY <2>4, <2>5
<1>3. CASE TimerFires \/ SyncAsked \/ RequestEnds
  BY <1>3 DEF TimerFires, SyncAsked, RequestEnds, settingsVars
<1>4. CASE Reload
  BY <1>4 DEF Reload
<1>5. ASSUME NEW s \in Submitted, NEW named \in 0 .. Revisions, SaveMonitorSettings(s, named)
      PROVE  Asleep'
  BY <1>5 DEF SaveMonitorSettings, loopVars
<1>6. CASE NotifySettingsChanged
  BY <1>6 DEF NotifySettingsChanged, loopVars
<1>7. CASE ClockRestart
  BY <1>7 DEF ClockRestart
<1>8. CASE UNCHANGED clockVars
  BY <1>8 DEF clockVars, loopVars, settingsVars
<1>. QED
  BY <1>1, <1>2, <1>3, <1>4, <1>5, <1>6, <1>7, <1>8 DEF ClockNext

LEMMA ClockIsScheduled == ClockInv => ModeIsScheduled
<1>. SUFFICES ASSUME ClockInv, run = "asleep", left > 0, ActiveWindow(cached, at) # window
              PROVE  /\ 0 < ActiveWindow(cached, at) /\ ActiveWindow(cached, at) < window
                     /\ Matches(cached.windows[window], at)
  BY DEF ModeIsScheduled
<1>. USE DEF ClockInv, Asleep, Typed, ClockTypeOK
<1>1. GoesBy(cached, window, at) /\ window # 0 => window \in Matching(cached, at)
  BY DEF GoesBy
<1>2. window # 0
  BY ActiveIsFirst DEF GoesBy
<1>3. window \in Matching(cached, at) /\ Matches(cached.windows[window], at)
  BY <1>1, <1>2 DEF Matching
<1>4. ActiveWindow(cached, at) \in Matching(cached, at) /\ ActiveWindow(cached, at) <= window
  BY <1>3, ActiveIsFirst
<1>5. ActiveWindow(cached, at) \in 1 .. Len(cached.windows) /\ Len(cached.windows) \in Nat
  BY <1>4 DEF Matching, MonitorSettings
<1>. QED BY <1>3, <1>4, <1>5

\* For any settings, however their windows overlap or wrap over midnight, the
\* loop sleeps by the window that the schedule has for this second, or by one
\* that still matches (monitor.go:891).
THEOREM ModeStaysScheduled == ClockSpec => []ModeIsScheduled
<1>1. ClockInit => ClockInv
  BY InitTyped DEF ClockInv, Asleep, ClockInit
<1>. QED BY <1>1, StepClock, ClockIsScheduled, PTL DEF ClockSpec

-----------------------------------------------------------------------------
(* The settings reach the loop                                             *)

ReachInv == unsignalled \in Nat /\ SettingsReach

LEMMA StepReach == ReachInv /\ [ClockNext]_clockVars => ReachInv'
<1>. SUFFICES ASSUME ReachInv, [ClockNext]_clockVars PROVE ReachInv'
  OBVIOUS
<1>. USE DEF ReachInv, SettingsReach
<1>1. CASE Resolve \/ ClockTick \/ TimerFires \/ SyncAsked \/ RequestEnds
  BY <1>1 DEF Resolve, ClockTick, TimerFires, SyncAsked, RequestEnds, settingsVars
<1>2. CASE Reload
  BY <1>2 DEF Reload
<1>3. ASSUME NEW s \in Submitted, NEW named \in 0 .. Revisions, SaveMonitorSettings(s, named)
      PROVE  ReachInv'
  BY <1>3 DEF SaveMonitorSettings
<1>4. CASE NotifySettingsChanged
  BY <1>4 DEF NotifySettingsChanged
<1>5. CASE ClockRestart
  BY <1>5 DEF ClockRestart
<1>6. CASE UNCHANGED clockVars
  BY <1>6 DEF clockVars, settingsVars
<1>. QED BY <1>1, <1>2, <1>3, <1>4, <1>5, <1>6 DEF ClockNext

\* However saves, notifications, reloads and restarts interleave, settings
\* that are not in force are on their way or could not be read
\* (monitor.go:100).
THEOREM SettingsAlwaysReach == ClockSpec => []SettingsReach
<1>1. ClockInit => ReachInv
  BY DEF ClockInit, ReachInv, SettingsReach
<1>2. ReachInv => SettingsReach
  BY DEF ReachInv
<1>. QED BY <1>1, <1>2, StepReach, PTL DEF ClockSpec

-----------------------------------------------------------------------------
(* A scan of the history                                                   *)

LEMMA BudgetType ==
  ASSUME NEW total \in Nat, NEW budget \in Nat
  PROVE  Budget(total, budget) \in Nat /\ Budget(total, budget) >= budget
<1>. DEFINE needed == total \div RowsPerPage + 2
<1>1. total \div RowsPerPage \in Nat
  BY HistoryScanAssumption
<1>2. needed \in Nat
  BY <1>1
<1>. HIDE DEF needed
<1>3. Budget(total, budget) = IF needed <= MostPages THEN Higher(needed, budget) ELSE budget
  BY DEF Budget, needed
<1>. QED BY <1>2, <1>3 DEF Higher

LEMMA ScanInitType == ScanInit => ScanTypeOK
<1>1. RangePages \in Nat /\ PollPages \in Nat
  BY HistoryScanAssumption
<1>. SUFFICES ASSUME ScanInit PROVE ScanTypeOK
  OBVIOUS
<1>2. maxPages \in Nat
  BY <1>1 DEF ScanInit
<1>3. recognized \in BOOLEAN /\ empty \in BOOLEAN /\ bare \in BOOLEAN
  BY DEF ScanInit
<1>. QED BY <1>2, <1>3 DEF ScanInit, ScanTypeOK

LEMMA ScanStepType == ScanTypeOK /\ [ScanNext]_scanVars => ScanTypeOK'
<1>. SUFFICES ASSUME ScanTypeOK, [ScanNext]_scanVars PROVE ScanTypeOK'
  OBVIOUS
<1>. USE DEF ScanTypeOK
<1>1. CASE History
  <2>1. pages' = pages + 1 /\ pages' \in Nat
    BY <1>1 DEF History
  <2>. QED BY <1>1, <2>1 DEF History, ghostVars
<1>2. CASE HistoryFails
  BY <1>2 DEF HistoryFails, Ends, Broken, tableVars, ghostVars
<1>3. CASE BudgetSpent
  BY <1>3 DEF BudgetSpent, Ends, tableVars, ghostVars
<1>4. CASE HistoryHeader \/ TableEnds \/ EmptyMarker
  BY <1>4 DEF HistoryHeader, TableEnds, EmptyMarker, resultVars, tableVars, ghostVars
<1>5. CASE SpoiltRow \/ Unreadable
  BY <1>5 DEF SpoiltRow, Unreadable, Reject, Ends, Broken, tableVars, ghostVars
<1>6. ASSUME NEW numbers \in SUBSET Numbers, Describe(numbers) PROVE ScanTypeOK'
  BY <1>6 DEF Describe, resultVars
<1>7. ASSUME NEW n \in Numbers, NEW described \in BOOLEAN, ParseRow(n, described) PROVE ScanTypeOK'
  BY <1>7 DEF ParseRow, resultVars
<1>8. ASSUME NEW signals \in Signals, PageEnds(signals) PROVE ScanTypeOK'
  <2>0. signals.total \in Nat
    BY HistoryScanAssumption DEF Signals
  <2>1. maxTotal' \in Nat
    BY <1>8, <2>0 DEF PageEnds, Total, Higher
  <2>2. maxPages' \in Nat
    BY <1>8, <2>1, BudgetType DEF PageEnds
  <2>. QED BY <1>8, <2>1, <2>2 DEF PageEnds, Ends, tableVars, ghostVars
<1>9. CASE UNCHANGED scanVars
  BY <1>9 DEF scanVars, resultVars, tableVars, ghostVars
<1>. QED BY <1>1, <1>2, <1>3, <1>4, <1>5, <1>6, <1>7, <1>8, <1>9 DEF ScanNext

\* Every variable keeps to its declaration (monitor.go:150).
THEOREM HistoryScanTypes == ScanSpec => []ScanTypeOK
  BY ScanInitType, ScanStepType, PTL DEF ScanSpec

-----------------------------------------------------------------------------

\* What was read is in the scan or on its way to it.
RowsKept ==
  /\ items \subseteq shown /\ parsed \subseteq shown /\ taken \subseteq shown
  /\ step # "over" => shown \subseteq items \cup parsed \cup taken /\ outcome = "none"
  /\ step = "request" => parsed \subseteq items
  /\ bare => parsed # {}
  /\ taken # {} => items \cup parsed # {}

ScanInv == ScanTypeOK /\ RowsKept /\ CompleteMeansAll /\ EmptyIsSaid

LEMMA InitScan == ScanInit => ScanInv
  BY ScanInitType DEF ScanInit, ScanInv, RowsKept, CompleteMeansAll, EmptyIsSaid

\* When the scan holds as many as the rows it was shown, it holds them all.
LEMMA EnoughIsAll ==
  ASSUME NEW S \in SUBSET Numbers, NEW T \in SUBSET S, NEW total \in Nat,
         Cardinality(T) >= total, total >= Cardinality(S)
  PROVE  T = S
<1>1. IsFiniteSet(S)
  BY HistoryScanAssumption, FS_Subset
<1>2. /\ Cardinality(T) \in Nat /\ Cardinality(S) \in Nat /\ Cardinality(T) <= Cardinality(S)
      /\ Cardinality(T) = Cardinality(S) => T = S
  BY <1>1, FS_Subset, FS_CardinalityType
<1>. QED BY <1>2

LEMMA StepScan == ScanInv /\ [ScanNext]_scanVars => ScanInv'
<1>. SUFFICES ASSUME ScanInv, [ScanNext]_scanVars PROVE (RowsKept /\ CompleteMeansAll /\ EmptyIsSaid)'
  BY ScanStepType DEF ScanInv
<1>0. ScanTypeOK /\ ScanTypeOK'
  BY ScanStepType DEF ScanInv
<1>. USE DEF ScanInv, RowsKept
<1>1. CASE History
  BY <1>1 DEF History, ghostVars, CompleteMeansAll, EmptyIsSaid
<1>2. CASE HistoryFails
  BY <1>2 DEF HistoryFails, Ends, Broken, tableVars, ghostVars, CompleteMeansAll, EmptyIsSaid
<1>3. CASE BudgetSpent
  BY <1>3 DEF BudgetSpent, Ends, tableVars, ghostVars, CompleteMeansAll, EmptyIsSaid
<1>4. CASE HistoryHeader \/ TableEnds \/ EmptyMarker
  BY <1>4 DEF HistoryHeader, TableEnds, EmptyMarker, resultVars, tableVars, ghostVars,
              CompleteMeansAll, EmptyIsSaid
<1>5. CASE SpoiltRow \/ Unreadable
  BY <1>5 DEF SpoiltRow, Unreadable, Reject, Ends, Broken, tableVars, ghostVars,
              CompleteMeansAll, EmptyIsSaid
<1>6. ASSUME NEW numbers \in SUBSET Numbers, Describe(numbers)
      PROVE  (RowsKept /\ CompleteMeansAll /\ EmptyIsSaid)'
  BY <1>6 DEF Describe, resultVars, CompleteMeansAll, EmptyIsSaid
<1>7. ASSUME NEW n \in Numbers, NEW described \in BOOLEAN, ParseRow(n, described)
      PROVE  (RowsKept /\ CompleteMeansAll /\ EmptyIsSaid)'
  BY <1>7 DEF ParseRow, resultVars, CompleteMeansAll, EmptyIsSaid
<1>8. ASSUME NEW signals \in Signals, PageEnds(signals)
      PROVE  (RowsKept /\ CompleteMeansAll /\ EmptyIsSaid)'
  <2>1. /\ items' = items \cup parsed /\ shown' = shown /\ taken' = taken
        /\ parsed' = parsed /\ bare' = bare /\ empty' = empty /\ kind' = kind
        /\ step = "tables" /\ outcome = "none" /\ Readable
        /\ step' \in {"over", "request"} /\ (step' = "request" => outcome' = "none")
        /\ shown \subseteq items \cup parsed \cup taken
    BY <1>8 DEF PageEnds, Ends, tableVars, ghostVars
  <2>2. RowsKept'
    BY <2>1
  <2>3. ASSUME outcome' = "complete", kind' = "range", maxTotal' >= Cardinality(shown')
        PROVE  items' = shown'
    <3>1. ~FallsShort(maxTotal')
      BY <1>8, <2>1, <2>3 DEF PageEnds, Ends
    <3>2. items' \subseteq shown' /\ shown' \in SUBSET Numbers
      BY <1>0, <2>1, <2>2 DEF ScanTypeOK
    <3>3. maxTotal' \in Nat
      BY <1>0 DEF ScanTypeOK
    <3>4. Cardinality(shown') \in Nat /\ Cardinality(items') \in Nat
      BY <3>2, HistoryScanAssumption, FS_Subset, FS_CardinalityType
    <3>5. Cardinality(items') >= maxTotal'
      BY <2>1, <3>1, <3>3, <3>4 DEF FallsShort
    <3>. QED BY <2>3, <3>2, <3>3, <3>5, EnoughIsAll
  <2>4. CompleteMeansAll'
    BY <2>1, <2>3 DEF CompleteMeansAll
  <2>5. EmptyIsSaid'
    BY <2>1 DEF EmptyIsSaid, Readable
  <2>. QED BY <2>2, <2>4, <2>5
<1>9. CASE UNCHANGED scanVars
  BY <1>9 DEF scanVars, resultVars, tableVars, ghostVars, CompleteMeansAll, EmptyIsSaid
<1>. QED BY <1>1, <1>2, <1>3, <1>4, <1>5, <1>6, <1>7, <1>8, <1>9 DEF ScanNext

\* Whatever the bank shows: a complete scan has every transaction it was shown
\* but those whose row was taken for a description, and those too when the
\* total that the bank stated counts them (monitor.go:243).
THEOREM CompleteHasAll == ScanSpec => []CompleteMeansAll
<1>1. ScanInv => CompleteMeansAll
  BY DEF ScanInv
<1>. QED BY InitScan, StepScan, <1>1, PTL DEF ScanSpec

\* Whatever the bank shows: no page that could not be read passes for an empty
\* history (parser.go:131).
THEOREM EmptyWasSaid == ScanSpec => []EmptyIsSaid
<1>1. ScanInv => EmptyIsSaid
  BY DEF ScanInv
<1>. QED BY InitScan, StepScan, <1>1, PTL DEF ScanSpec

\* Both: what calls itself complete is.
THEOREM ScanIsHonest == ScanSpec => []ScanHonest
<1>1. CompleteMeansAll /\ EmptyIsSaid => ScanHonest
  BY DEF ScanHonest
<1>. QED BY CompleteHasAll, EmptyWasSaid, <1>1, PTL

=============================================================================
