------------------------------- MODULE Voice --------------------------------
(***************************************************************************)
(* How one tab announces credits (web/src/features/voice-announcements):   *)
(* VoiceAnnouncementProvider.tsx collects the events of 750 ms and hands   *)
(* them to voice-queue.ts, which has the engine speak one message after    *)
(* the other; voice-dedupe.ts knows which credits are being announced or   *)
(* have been.                                                              *)
(*                                                                         *)
(* A message is the set of its credits, empty for a test or replay.  The   *)
(* three keys of a credit are set and looked up together and stand for     *)
(* one; that the oldest of hundreds are forgotten is left out.  A step is  *)
(* a callback of the page; between two of them the engine speaks.          *)
(*                                                                         *)
(* The queue awaits the engine's promise without a limit, and nothing      *)
(* settles it while the browser lets no sound out: resume() of a suspended *)
(* AudioContext is pending until then, and so is the end of what plays.    *)
(* Cancelling aborts the request and stops what plays; it does not settle  *)
(* a promise that waits for resume().                                      *)
(***************************************************************************)
EXTENDS Sequences, FiniteSets, Integers

CONSTANT Credits    \* their events reach the tab, any number of times

VARIABLES
  stored,     \* enabled in localStorage, for all tabs
  enabled,    \* the setting the tab goes by
  audio,      \* whether the browser lets the tab's AudioContext run
  buffer,     \* burstBufferRef; its timer runs while it is not empty
  queue,      \* VoiceQueue.queue
  loop,       \* what the loop of the present operationId does, "idle" without one
  message,    \* the message it speaks
  abandoned,  \* messages of loops of former operationIds, until they settle
  reserved,   \* VoiceDedupe.reservedKeys
  processed,  \* VoiceDedupe.processedKeys
  skipped     \* VoiceDedupe.skippedKeys

queueVars == <<queue, loop, message, abandoned>>
dedupeVars == <<reserved, processed, skipped>>
tabVars == <<stored, enabled, audio>>
voiceVars == <<tabVars, buffer, queueVars, dedupeVars>>

Messages == SUBSET Credits

Items(seq) == {seq[i] : i \in DOMAIN seq}

VoiceTypeOK ==
  /\ stored \in BOOLEAN /\ enabled \in BOOLEAN /\ audio \in BOOLEAN
  /\ buffer \in Seq(Credits)
  /\ queue \in Seq(Messages)
  /\ loop \in {"idle", "speaking", "pausing"}
  /\ message \in Messages
  /\ abandoned \in SUBSET Messages
  /\ reserved \in SUBSET Credits
  /\ processed \in SUBSET Credits
  /\ skipped \in SUBSET Credits

VoiceInit ==
  /\ stored \in BOOLEAN /\ enabled = stored
  /\ audio \in BOOLEAN
  /\ buffer = <<>> /\ queue = <<>>
  /\ loop = "idle" /\ message = {} /\ abandoned = {}
  /\ reserved = {} /\ processed = {} /\ skipped = {}

-----------------------------------------------------------------------------
(* voice-dedupe.ts                                                         *)

Has(c) == c \in processed \cup skipped
IsReserved(c) == c \in reserved

Reserve(c) ==
  /\ ~Has(c) /\ ~IsReserved(c)
  /\ reserved' = reserved \cup {c}
  /\ UNCHANGED <<processed, skipped>>

Commit(credits) ==
  /\ reserved' = reserved \ credits
  /\ processed' = processed \cup credits
  /\ UNCHANGED skipped

Release(credits) ==
  /\ reserved' = reserved \ credits
  /\ UNCHANGED <<processed, skipped>>

MarkSkipped(c) ==
  /\ reserved' = reserved \ {c}
  /\ skipped' = skipped \cup {c}
  /\ UNCHANGED processed

-----------------------------------------------------------------------------
(* voice-queue.ts                                                          *)

(* The operators named Faulty... are slips the runs are known to notice;   *)
(* no specification uses them.                                             *)

\* processNext with these messages to go.
ProcessNext(messages) ==
  IF messages = <<>>
    THEN loop' = "idle" /\ message' = {} /\ queue' = <<>>
    ELSE loop' = "speaking" /\ message' = Head(messages) /\ queue' = Tail(messages)

Enqueue(messages) ==
  IF loop = "idle"
    THEN ProcessNext(queue \o messages)
    ELSE queue' = queue \o messages /\ UNCHANGED <<loop, message>>

Abandon == abandoned' = abandoned \cup IF loop = "speaking" THEN {message} ELSE {}

Waiting == UNION Items(queue)

CancelQueue == queue' = <<>> /\ loop' = "idle" /\ message' = {} /\ Abandon

\* The engine is done with the message, or could not speak it.  Without sound
\* it may fail, as when the request does, or wait for the sound.
SpeakSettles ==
  /\ loop = "speaking"
  /\ Commit(message) \/ Release(message)
  /\ loop' = "pausing" /\ message' = {}
  /\ UNCHANGED <<tabVars, buffer, queue, abandoned>>

\* Waits for the next message to wake it.
FaultyPauseEnds ==
  /\ loop = "pausing"
  /\ loop' = "idle"
  /\ UNCHANGED <<tabVars, buffer, queue, message, abandoned, dedupeVars>>

PauseEnds ==
  /\ loop = "pausing"
  /\ ProcessNext(queue)
  /\ UNCHANGED <<tabVars, buffer, abandoned, dedupeVars>>

\* The loop finds that the operationId has moved on: at once where the request
\* was aborted or what played was stopped, and else once it is spoken.
AbandonedSettles ==
  /\ \E m \in abandoned : Release(m) /\ abandoned' = abandoned \ {m}
  /\ UNCHANGED <<tabVars, buffer, queue, loop, message>>

-----------------------------------------------------------------------------
(* transaction-audio-engine.ts                                             *)

\* A gesture of the user's: unlock resumes the AudioContext, and every promise
\* that waits for it.
UnlockAudio ==
  /\ ~audio /\ audio' = TRUE
  /\ UNCHANGED <<stored, enabled, buffer, queueVars, dedupeVars>>

\* The browser takes the sound away, as when a call comes in.
AudioInterrupted ==
  /\ audio /\ audio' = FALSE
  /\ UNCHANGED <<stored, enabled, buffer, queueVars, dedupeVars>>

-----------------------------------------------------------------------------
(* VoiceAnnouncementProvider.tsx                                           *)

\* Goes on although the credit is being announced.
FaultyHandleCreditEvent(c) ==
  /\ enabled /\ ~Has(c)
  /\ reserved' = reserved \cup {c} /\ UNCHANGED <<processed, skipped>>
  /\ buffer' = Append(buffer, c)
  /\ UNCHANGED <<tabVars, queueVars>>

\* In the leader, visible or announcing when hidden; nothing happens elsewhere.
\* The event may be older than two minutes.
HandleCreditEvent(c) ==
  /\ enabled
  /\ ~Has(c) /\ ~IsReserved(c)
  /\ \/ Reserve(c) /\ buffer' = Append(buffer, c)
     \/ MarkSkipped(c) /\ UNCHANGED buffer
  /\ UNCHANGED <<tabVars, queueVars>>

Individually(credits) == [i \in DOMAIN credits |-> {credits[i]}]
Summary(credits) == <<Items(credits)>>

\* The timer of the last event has run out.
ProcessBurstBuffer ==
  /\ buffer # <<>>
  /\ buffer' = <<>>
  /\ IF ~enabled
       THEN Release(Items(buffer)) /\ UNCHANGED queueVars
       ELSE /\ \/ Len(buffer) <= 3 /\ Enqueue(Individually(buffer))
               \/ Len(buffer) > 1 /\ Enqueue(Summary(buffer))
            /\ UNCHANGED <<abandoned, dedupeVars>>
  /\ UNCHANGED tabVars

\* Empties the buffer and its timer, and forgets that its credits are reserved.
FaultyCancelEverything ==
  /\ CancelQueue /\ buffer' = <<>>
  /\ Release(Waiting)

CancelEverything ==
  /\ CancelQueue /\ buffer' = <<>>
  /\ Release(Waiting \cup Items(buffer))

CancelVoice == CancelEverything /\ UNCHANGED tabVars

UpdateSettings(on) ==
  /\ stored' = on /\ enabled' = on
  /\ IF on THEN UNCHANGED <<buffer, queueVars, dedupeVars>> ELSE CancelEverything
  /\ UNCHANGED audio

\* A change of another setting takes the rest as it is stored.
UpdateOtherSetting ==
  /\ enabled' = stored
  /\ UNCHANGED <<stored, audio, buffer, queueVars, dedupeVars>>

\* Another tab writes the settings; this one hears of it later.
OtherTab ==
  /\ stored' = ~stored
  /\ UNCHANGED <<enabled, audio, buffer, queueVars, dedupeVars>>

HandleStorage ==
  /\ enabled' = stored
  /\ IF stored THEN UNCHANGED <<buffer, queueVars, dedupeVars>> ELSE CancelEverything
  /\ UNCHANGED <<stored, audio>>

\* testVoice and replayVoice cut off what is spoken; the buffer goes on.
TestVoice ==
  /\ queue' = <<>> /\ loop' = "speaking" /\ message' = {}
  /\ Abandon
  /\ Release(Waiting)
  /\ UNCHANGED <<tabVars, buffer>>

-----------------------------------------------------------------------------
VoiceNext ==
  \/ \E c \in Credits : HandleCreditEvent(c)
  \/ ProcessBurstBuffer \/ SpeakSettles \/ PauseEnds \/ AbandonedSettles
  \/ CancelVoice \/ TestVoice \/ UnlockAudio \/ AudioInterrupted
  \/ \E on \in BOOLEAN : UpdateSettings(on)
  \/ UpdateOtherSetting \/ OtherTab \/ HandleStorage

VoiceSpec == VoiceInit /\ [][VoiceNext]_voiceVars

\* Timers run out.  The engine settles its promises while there is sound, for
\* requests end, and so does what is decoded and played.  Without sound nothing
\* makes it, and no user is obliged to unlock it.
VoiceFairness ==
  /\ WF_voiceVars(ProcessBurstBuffer)
  /\ WF_voiceVars(audio /\ SpeakSettles)
  /\ WF_voiceVars(PauseEnds)
  /\ \A m \in SUBSET Credits : WF_voiceVars(audio /\ m \in abandoned /\ Release(m) /\ AbandonedSettles)

VoiceFairSpec == VoiceSpec /\ VoiceFairness

-----------------------------------------------------------------------------
(* Properties                                                              *)

Speaking == IF loop = "speaking" THEN {message} ELSE {}

\* Exactly the credits in the buffer, in a message that waits, is spoken or has
\* been cut off are reserved: none is forgotten, so that its next event would
\* be announced twice, and none left over, so that it never would
\* (VoiceAnnouncementProvider.tsx:172, voice-queue.ts:70).
ReservedIsPending ==
  reserved = Items(buffer) \cup Waiting \cup (UNION Speaking) \cup (UNION abandoned)

\* No credit is in two places, and none announced is announced again
\* (voice-dedupe.ts:66).
InOnePlace ==
  /\ \A i, j \in DOMAIN buffer : buffer[i] = buffer[j] => i = j
  /\ \A i, j \in DOMAIN queue : queue[i] \cap queue[j] # {} => i = j
  /\ LET places == {Items(buffer), Waiting, processed} \cup Speaking \cup abandoned
     IN  \A p, q \in places : p \cap q # {} => p = q
  /\ Items(buffer) # {} => Items(buffer) \notin {Waiting} \cup Speaking \cup abandoned

\* Once the browser lets the tab sound for good, a credit taken up is announced,
\* or free to be taken up again, whatever was cut off before or waited for the
\* sound (voice-queue.ts:43).  Until then it may stay reserved, also after a
\* cancel (transaction-audio-engine.ts:170, 208).
Settles == <>[]audio => \A c \in Credits : c \in reserved ~> c \notin reserved

=============================================================================
