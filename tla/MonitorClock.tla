---------------------------- MODULE MonitorClock ----------------------------
(***************************************************************************)
(* The settings of the monitor and the clock of its loop: an operator      *)
(* saves settings (httpapi/server.go, storage/monitor_settings.go), the    *)
(* loop is told, reads them again and sleeps until its next request or the *)
(* next transition, whichever is first (Run, monitor/monitor.go).  What a  *)
(* request does is in BankMonitor.                                         *)
(*                                                                         *)
(* The loop takes up a timer that expires in the same second.              *)
(***************************************************************************)
EXTENDS Schedule

CONSTANT Revisions   \* bound: the highest revision submitted

VARIABLES
  at,          \* the wall clock
  left,        \* seconds until the loop's timer expires
  run,         \* the loop: at its "top", "asleep" in its select, "busy"
  window,      \* the window it found active, 0 for none
  cached,      \* Monitor.cachedSettings
  saved,       \* the singleton row of monitor_settings
  revision,    \* its revision, 0 while there is no row
  signal,      \* settingsCh has its token
  unsignalled, \* saves committed whose NotifySettingsChanged has not run
  unread       \* the loop's last read of the settings failed

loopVars == <<left, run, window>>
settingsVars == <<cached, saved, revision, signal, unsignalled, unread>>
clockVars == <<at, loopVars, settingsVars>>

ClockTypeOK ==
  /\ at \in Moments /\ left \in Nat /\ run \in {"top", "asleep", "busy"}
  /\ cached \in MonitorSettings /\ saved \in MonitorSettings
  /\ window \in 0 .. Len(cached.windows)
  /\ revision \in Nat /\ unsignalled \in Nat
  /\ signal \in BOOLEAN /\ unread \in BOOLEAN

ClockInit ==
  /\ at \in Moments /\ left = 0 /\ run = "top" /\ window = 0
  /\ cached = DefaultMonitorSettings /\ saved = DefaultMonitorSettings
  /\ revision = 0 /\ signal = FALSE /\ unsignalled = 0 /\ unread = FALSE

-----------------------------------------------------------------------------
\* The loop.

\* The waits that nextInterval may return; a paused loop waits PausedWait.
Waits(profile) ==
  IF profile.mode = "PAUSED" THEN {PausedWait} ELSE profile.min .. profile.max

Earlier(a, b) == IF a < b THEN a ELSE b

Resolve ==
  /\ run = "top"
  /\ run' = "asleep"
  /\ window' = ActiveWindow(cached, at)
  /\ \E wait \in Waits(ActiveProfile(cached, window')) :
       left' = Earlier(wait, UntilTransition(cached, window', at))
  /\ UNCHANGED <<at, settingsVars>>

\* A second passes, in the select or while a request is under way.
ClockTick ==
  /\ run = "busy" \/ (run = "asleep" /\ left > 0)
  /\ at' = Later(at)
  /\ left' = IF left > 0 THEN left - 1 ELSE 0
  /\ UNCHANGED <<run, window, settingsVars>>

\* The timer, or a sync that a viewer asked for, is taken up.
TimerFires == run = "asleep" /\ left = 0 /\ run' = "busy" /\ UNCHANGED <<at, left, window, settingsVars>>
SyncAsked == run = "asleep" /\ run' = "busy" /\ UNCHANGED <<at, left, window, settingsVars>>

RequestEnds == run = "busy" /\ run' = "top" /\ UNCHANGED <<at, left, window, settingsVars>>

\* settingsCh: the settings are read again.  When that fails the loop keeps
\* those it has, and the token is spent.
Reload ==
  /\ run = "asleep" /\ signal
  /\ run' = "top" /\ signal' = FALSE /\ window' = 0
  /\ \/ cached' = saved /\ unread' = FALSE
     \/ cached' = cached /\ unread' = TRUE
  /\ UNCHANGED <<at, left, saved, revision, unsignalled>>

-----------------------------------------------------------------------------
\* The operators.

\* Settings name the revision they replace; the first to be saved may name any.
MayReplace(named) == revision # 0 => named = revision

\* updateMonitorSettings commits; what is not valid is refused.
SaveMonitorSettings(s, named) ==
  /\ Valid(s) /\ MayReplace(named)
  /\ saved' = s /\ revision' = named + 1
  /\ unsignalled' = unsignalled + 1
  /\ UNCHANGED <<at, loopVars, cached, signal, unread>>

\* Mutant: settingsCh has no buffer, and a loop outside its select is not told.
FaultyNotify ==
  /\ unsignalled > 0
  /\ unsignalled' = unsignalled - 1
  /\ signal' = (signal \/ run = "asleep")
  /\ UNCHANGED <<at, loopVars, cached, saved, revision, unread>>

\* One token stands for every save since the loop last took it.
NotifySettingsChanged ==
  /\ unsignalled > 0
  /\ unsignalled' = unsignalled - 1
  /\ signal' = TRUE
  /\ UNCHANGED <<at, loopVars, cached, saved, revision, unread>>

\* The gateway stops and starts again, with requests under way lost; the
\* settings are read before the loop, and the default kept when that fails.
ClockRestart ==
  /\ left' = 0 /\ run' = "top" /\ window' = 0
  /\ signal' = FALSE /\ unsignalled' = 0
  /\ \/ cached' = saved /\ unread' = FALSE
     \/ cached' = DefaultMonitorSettings /\ unread' = TRUE
  /\ UNCHANGED <<at, saved, revision>>

-----------------------------------------------------------------------------

ClockNext ==
  \/ Resolve \/ ClockTick \/ TimerFires \/ SyncAsked \/ RequestEnds \/ Reload
  \/ \E s \in Submitted, named \in 0 .. Revisions : SaveMonitorSettings(s, named)
  \/ NotifySettingsChanged \/ ClockRestart

ClockSpec == ClockInit /\ [][ClockNext]_clockVars

-----------------------------------------------------------------------------

\* While the loop sleeps and its timer has not expired, the window it goes by
\* is the one the schedule has for this second, or one that still matches
\* while an earlier one of the list has begun: NextTransition does not look
\* at that one (schedule.go:228, monitor.go:891).
ModeIsScheduled ==
  (run = "asleep" /\ left > 0) =>
    LET first == ActiveWindow(cached, at)
    IN  \/ first = window
        \/ /\ 0 < first /\ first < window
           /\ Matches(cached.windows[window], at)

\* Settings that are saved and not in force are on their way to the loop,
\* however many saves one token stands for, unless it could not read them
\* (monitor.go:100, monitor.go:911).
SettingsReach ==
  cached # saved => signal \/ unsignalled > 0 \/ unread

=============================================================================
