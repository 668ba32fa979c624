------------------------------ MODULE MCParts -------------------------------
(* The realtime stream, the tabs' choice of a leader, the announcements of *)
(* one tab, the monitor's clock and a scan of the history, in one run.     *)
(* They share no state that a property is about, so a behaviour is of      *)
(* one of them, and the others stand still.                                *)
EXTENDS Stream, Leader, Voice, MonitorClock, HistoryScan

VARIABLE part

partVars == <<part, streamVars, leaderVars, voiceVars, clockVars, scanVars>>

\* A day of 6 seconds.  Windows within a day, over midnight, on a weekday,
\* paused, overlapping; settings without any, and two that are not valid.
MCLeast == [REALTIME |-> 1, KEEPALIVE_ONLY |-> 2]
MCMost == [REALTIME |-> 2, KEEPALIVE_ONLY |-> 4]
Realtime == [mode |-> "REALTIME", min |-> 1, max |-> 2]
Keepalive == [mode |-> "KEEPALIVE_ONLY", min |-> 2, max |-> 4]
Paused == [mode |-> "PAUSED", min |-> 0, max |-> 0]
Settings(default, windows) == [enabled |-> TRUE, default |-> default, windows |-> windows]
WindowOn(days, start, end, profile) ==
  [days |-> days, start |-> start, end |-> end, profile |-> profile]
MCDefault == Settings(Keepalive, <<WindowOn(Days, 2, 5, Realtime)>>)
MCSubmitted == {
  Settings(Keepalive, <<WindowOn({6, 0}, 4, 2, Paused), WindowOn({}, 1, 5, Realtime)>>),
  Settings(Paused, <<WindowOn({1}, 5, 3, Realtime)>>),
  Settings(Realtime, <<>>),
  Settings(Keepalive, <<WindowOn({}, 3, 3, Realtime)>>),
  Settings([Keepalive EXCEPT !.min = 1], <<>>),
  [MCDefault EXCEPT !.enabled = FALSE]}

MCInit ==
  /\ part \in {"stream", "leader", "voice", "clock", "scan"}
  /\ StreamInit /\ LeaderInit /\ VoiceInit /\ ClockInit /\ ScanInit
  /\ locks => part = "leader"     \* what stands still starts in one way
  /\ stored \/ audio => part = "voice"
  /\ at.day + at.time > 0 => part = "clock"
  /\ kind = "poll" => part = "scan"

InStream(A) == part = "stream" /\ A /\ UNCHANGED <<part, leaderVars, voiceVars, clockVars, scanVars>>
InLeader(A) == part = "leader" /\ A /\ UNCHANGED <<part, streamVars, voiceVars, clockVars, scanVars>>
InVoice(A) == part = "voice" /\ A /\ UNCHANGED <<part, streamVars, leaderVars, clockVars, scanVars>>
InClock(A) == part = "clock" /\ A /\ UNCHANGED <<part, streamVars, leaderVars, voiceVars, scanVars>>
InScan(A) == part = "scan" /\ A /\ UNCHANGED <<part, streamVars, leaderVars, voiceVars, clockVars>>

MCNext ==
  \/ InStream(StreamNext) \/ InLeader(LeaderNext) \/ InVoice(VoiceNext)
  \/ InClock(ClockNext) \/ InScan(ScanNext)

\* The fairness of Stream and of Voice.
MCFairness ==
  /\ WF_partVars(InStream(Handle))
  /\ WF_partVars(InStream(Hear))
  /\ WF_partVars(InStream(Connect \/ ConnectRefused))
  /\ \A n \in 1 .. Entries : WF_partVars(InStream(Publish(n)))
  /\ WF_partVars(InVoice(ProcessBurstBuffer))
  /\ WF_partVars(InVoice(audio /\ SpeakSettles))
  /\ WF_partVars(InVoice(PauseEnds))
  /\ \A m \in SUBSET Credits :
       WF_partVars(InVoice(audio /\ m \in abandoned /\ Release(m) /\ AbandonedSettles))

MCSpec == MCInit /\ [][MCNext]_partVars /\ MCFairness

\* Every variable of the five has the values of its declaration: no cursor runs
\* ahead of the journal (sse.go:35), and no tab or timer is in a state the
\* code has no name for (multi-tab-leader.ts:15, monitor.go:864).
PartsTypeOK == StreamTypeOK /\ LeaderTypeOK /\ VoiceTypeOK /\ ClockTypeOK /\ ScanTypeOK

=============================================================================
