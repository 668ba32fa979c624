------------------------------ MODULE Schedule ------------------------------
(***************************************************************************)
(* The monitor's schedule: what settings are valid, which window is active *)
(* at a moment and how long it is until the next transition                *)
(* (storage/schedule.go).                                                  *)
(*                                                                         *)
(* A moment is a day of the week and a time of that day in the settings'   *)
(* timezone, in seconds; windows start and end on whole minutes, so that   *)
(* comparing minutes, as the code does, compares times.  Left out: days    *)
(* that are not 24 hours long, the spelling of times (two spellings of one *)
(* time, 7:00 and 07:00, pass for different times), names and nextMode,    *)
(* which is only shown.                                                    *)
(***************************************************************************)
EXTENDS Integers, Sequences

CONSTANTS
  DayLength,      \* 24 h, in seconds
  PausedWait,     \* the loop's wait while it is paused, 10 min
  Least, Most,    \* by mode: the bounds of minSeconds and of maxSeconds
  Continuous,     \* the profile while the schedule is disabled
  DefaultMonitorSettings,
  Submitted       \* the settings that operators submit, not all of them valid

Days == 0 .. 6
Times == 0 .. DayLength - 1
Moments == [day : Days, time : Times]
TimedModes == {"REALTIME", "KEEPALIVE_ONLY"}
PollModes == TimedModes \cup {"PAUSED"}
Profiles == [mode : PollModes, min : Nat, max : Nat]
Windows == [days : SUBSET Days, start : Times, end : Times, profile : Profiles]
MonitorSettings == [enabled : BOOLEAN, default : Profiles, windows : Seq(Windows)]

ValidProfile(p) ==
  p.mode \in TimedModes => Least[p.mode] <= p.min /\ p.min <= p.max /\ p.max <= Most[p.mode]

\* Validate.  Windows may overlap.
Valid(s) ==
  /\ ValidProfile(s.default)
  /\ \A i \in DOMAIN s.windows :
       s.windows[i].start # s.windows[i].end /\ ValidProfile(s.windows[i].profile)

ASSUME ScheduleAssumption ==
  /\ DayLength \in Nat \ {0} /\ PausedWait \in Nat \ {0}
  /\ Least \in [TimedModes -> Nat \ {0}] /\ Most \in [TimedModes -> Nat]
  /\ Continuous \in Profiles /\ Continuous.mode = "REALTIME"
  /\ 0 < Continuous.min /\ Continuous.min <= Continuous.max
  /\ DefaultMonitorSettings \in MonitorSettings /\ Valid(DefaultMonitorSettings)
  /\ Submitted \subseteq MonitorSettings

-----------------------------------------------------------------------------

Weekday(t, w) == w.days = {} \/ t.day \in w.days
WeekdayBefore(t, w) == w.days = {} \/ (t.day + 6) % 7 \in w.days

\* Mutant: the morning of an overnight window goes by its own weekday.
FaultyMatches(w, t) ==
  IF w.start < w.end
  THEN Weekday(t, w) /\ w.start <= t.time /\ t.time < w.end
  ELSE Weekday(t, w) /\ (w.start <= t.time \/ t.time < w.end)

\* Within a day, or over midnight: then the morning belongs to the window
\* that started the day before.
Matches(w, t) ==
  IF w.start < w.end
  THEN Weekday(t, w) /\ w.start <= t.time /\ t.time < w.end
  ELSE \/ Weekday(t, w) /\ w.start <= t.time
       \/ WeekdayBefore(t, w) /\ t.time < w.end

Matching(s, t) == {i \in DOMAIN s.windows : s.enabled /\ Matches(s.windows[i], t)}

\* The first window of the list that matches; 0 when there is none.
ActiveWindow(s, t) ==
  IF Matching(s, t) = {} THEN 0
  ELSE CHOOSE i \in Matching(s, t) : \A j \in Matching(s, t) : i <= j

ActiveProfile(s, window) ==
  CASE ~s.enabled -> Continuous
    [] s.enabled /\ window = 0 -> s.default
    [] OTHER -> s.windows[window].profile

\* From t to the next time the clock shows time: a day when it shows it now.
Until(time, t) == IF t.time < time THEN time - t.time ELSE DayLength + time - t.time

\* From t to NextTransition: the end of the active window, else the next
\* start of any window, on whatever weekdays it has.
UntilTransition(s, window, t) ==
  LET starts == {Until(s.windows[i].start, t) : i \in DOMAIN s.windows}
  IN  CASE ~s.enabled \/ (window = 0 /\ starts = {}) -> DayLength
        [] s.enabled /\ window # 0 -> Until(s.windows[window].end, t)
        [] OTHER -> CHOOSE d \in starts : \A e \in starts : d <= e

\* One second later.
Later(t) ==
  IF t.time + 1 < DayLength THEN [t EXCEPT !.time = @ + 1]
  ELSE [day |-> (t.day + 1) % 7, time |-> 0]

=============================================================================
