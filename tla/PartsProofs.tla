----------------------------- MODULE PartsProofs ----------------------------
(***************************************************************************)
(* A behaviour of MCParts is one of each of its five components, so that   *)
(* what is proved about them holds of it.                                  *)
(***************************************************************************)
EXTENDS MCParts, StreamProofs, VoiceProofs, ClockAndScanProofs

LEMMA PartsStart ==
  MCInit => StreamInit /\ LeaderInit /\ VoiceInit /\ ClockInit /\ ScanInit
  BY DEF MCInit

\* A step of one component is none of the others.
LEMMA PartsStep ==
  [MCNext]_partVars =>
    /\ [StreamNext]_streamVars /\ [LeaderNext]_leaderVars /\ [VoiceNext]_voiceVars
    /\ [ClockNext]_clockVars /\ [ScanNext]_scanVars
<1>. SUFFICES ASSUME [MCNext]_partVars
     PROVE  /\ [StreamNext]_streamVars /\ [LeaderNext]_leaderVars /\ [VoiceNext]_voiceVars
            /\ [ClockNext]_clockVars /\ [ScanNext]_scanVars
  OBVIOUS
<1>1. CASE InStream(StreamNext)
  BY <1>1 DEF InStream
<1>2. CASE InLeader(LeaderNext)
  BY <1>2 DEF InLeader
<1>3. CASE InVoice(VoiceNext)
  BY <1>3 DEF InVoice
<1>4. CASE InClock(ClockNext)
  BY <1>4 DEF InClock
<1>5. CASE InScan(ScanNext)
  BY <1>5 DEF InScan
<1>6. CASE UNCHANGED partVars
  BY <1>6 DEF partVars
<1>. QED BY <1>1, <1>2, <1>3, <1>4, <1>5, <1>6 DEF MCNext

\* The run's behaviours are the components' own: the stream with its page
\* (sse.go:35), the tabs and the voice (multi-tab-leader.ts:15,
\* voice-queue.ts:47), the loop's clock and a scan (monitor.go:864, 150).
THEOREM PartsAreComponents ==
  MCSpec => StreamSpec /\ LeaderSpec /\ VoiceSpec /\ ClockSpec /\ ScanSpec
  BY PartsStart, PartsStep, PTL
     DEF MCSpec, StreamSpec, LeaderSpec, VoiceSpec, ClockSpec, ScanSpec

\* Every variable of every component keeps to its declaration (sse.go:35,
\* multi-tab-leader.ts:15, monitor.go:864).
THEOREM PartsTypes == MCSpec => []PartsTypeOK
<1>1. ClockTypeOK /\ Valid(cached) /\ Valid(saved) => ClockTypeOK
  OBVIOUS
<1>2. StreamTypeOK /\ LeaderTypeOK /\ VoiceTypeOK /\ ClockTypeOK /\ ScanTypeOK => PartsTypeOK
  BY DEF PartsTypeOK
<1>. QED BY <1>1, <1>2, PartsAreComponents, StreamTypes, LeaderTypes, VoiceTypes,
            MonitorClockTypes, HistoryScanTypes, PTL

=============================================================================
