------------------------------- MODULE Stream -------------------------------
(***************************************************************************)
(* The realtime stream: journal (storage/journal.go), hub (eventhub),      *)
(* GET /api/v1/events (httpapi/sse.go) and the page's EventSource          *)
(* (web/src/realtime/realtime.client.ts).                                  *)
(*                                                                         *)
(* An entry is committed first and its hint published after, by several    *)
(* goroutines at once.  The handler subscribes to the hub, then finds out  *)
(* where the page stands, replays the journal in batches and waits for     *)
(* hints, of which a full buffer drops the next.  Entries go out in the    *)
(* connection's order and are lost with it; the EventSource connects again *)
(* by itself, with the id of the last event it heard.                      *)
(*                                                                         *)
(* Pages share nothing but the journal and the hub, whose publishers never *)
(* wait, so there is one.  The epoch never changes.  Heartbeats are left   *)
(* out, and so is a failed read of the journal, which ends the connection  *)
(* like any other failure.                                                 *)
(***************************************************************************)
EXTENDS Integers, FiniteSets

CONSTANTS
  Entries,    \* bound: entries ever appended
  Breaks,     \* bound: connections broken and restarts of the gateway
  Batch,      \* replayBatch, 250 in the code
  Buffer      \* capacity of a subscriber's channel, 128 in the code

ASSUME StreamAssumption ==
  /\ Entries \in Nat /\ Breaks \in Nat
  /\ Batch \in Nat \ {0} /\ Buffer \in Nat \ {0}

VARIABLES
  journal,     \* event_journal, by seq
  last,        \* its AUTOINCREMENT sequence
  unpublished, \* entries committed whose hint is not published
  handler,     \* where the handler of the page's connection is
  hints,       \* the seqs in its channel
  hint,        \* the one it took
  watermark,   \* its watermark
  greeting,    \* initial_state or reset_state on its way to the page
  flight,      \* entries on their way
  page,        \* the EventSource
  lastEventId, \* its last event id
  position,    \* where the page has been told it is
  breaks

Unknown == -1
Reset == -2

journalVars == <<journal, last, unpublished>>
handlerVars == <<handler, hints, hint, watermark>>
wireVars == <<greeting, flight>>
pageVars == <<page, lastEventId, position>>
streamVars == <<journalVars, handlerVars, wireVars, pageVars, breaks>>

StreamTypeOK ==
  /\ last \in 0 .. Entries
  /\ journal \in SUBSET (1 .. last)
  /\ unpublished \in SUBSET (1 .. last)
  /\ handler \in {"none", "subscribed", "replay", "live", "drain", "over"}
  /\ hints \in SUBSET (1 .. last)
  /\ hint \in 0 .. last
  /\ watermark \in 0 .. last
  /\ greeting \in {Unknown, Reset} \cup 0 .. last
  /\ flight \in SUBSET (1 .. last)
  /\ page \in {"connecting", "open", "again", "closed"}
  /\ lastEventId \in {Unknown} \cup 1 .. last
  /\ position \in {Unknown} \cup 0 .. last
  /\ breaks \in 0 .. Breaks

StreamInit ==
  /\ journal = {} /\ last = 0 /\ unpublished = {}
  /\ handler = "none" /\ hints = {} /\ hint = 0 /\ watermark = 0
  /\ greeting = Unknown /\ flight = {}
  /\ page = "connecting" /\ lastEventId = Unknown /\ position = Unknown
  /\ breaks = 0

-----------------------------------------------------------------------------
(* The journal                                                             *)

\* AppendJournalEvent, or the commit that ends with the events of new credits.
AppendEntry ==
  /\ last < Entries
  /\ last' = last + 1
  /\ journal' = journal \cup {last + 1}
  /\ unpublished' = unpublished \cup {last + 1}
  /\ UNCHANGED <<handlerVars, wireVars, pageVars, breaks>>

\* DeleteJournalBefore: times and sequence numbers grow together.
Retain ==
  /\ \E n \in journal : journal' = {m \in journal : m > n}
  /\ UNCHANGED <<last, unpublished, handlerVars, wireVars, pageVars, breaks>>

GetMaxJournalSeq ==
  IF journal = {} THEN 0 ELSE CHOOSE m \in journal : \A n \in journal : n <= m

GetMinJournalSeq ==
  IF journal = {} THEN 0 ELSE CHOOSE m \in journal : \A n \in journal : m <= n

After(seq) == {n \in journal : n > seq}

\* The first of the entries after seq, as many as a batch has.
ReadJournalEvents(seq) ==
  {n \in After(seq) : Cardinality({m \in After(seq) : m < n}) < Batch}

-----------------------------------------------------------------------------
(* The hub                                                                 *)

(* The operators named Faulty... are slips the runs are known to notice;   *)
(* no specification uses them.                                             *)

Subscribed == handler \notin {"none", "over"}

\* A full channel loses the hint.
Publish(n) ==
  /\ n \in unpublished
  /\ unpublished' = unpublished \ {n}
  /\ hints' = IF Subscribed /\ Cardinality(hints) < Buffer THEN hints \cup {n} ELSE hints
  /\ UNCHANGED <<journal, last, handler, hint, watermark, wireVars, pageVars, breaks>>

-----------------------------------------------------------------------------
(* The handler                                                             *)

\* Deregisters and ends the response.
Leave == handler' = "over" /\ hints' = {} /\ hint' = 0 /\ watermark' = 0

\* A page without a cursor is told where the journal ends.
Greet ==
  /\ handler = "subscribed" /\ lastEventId = Unknown
  /\ watermark' = GetMaxJournalSeq
  /\ greeting' = GetMaxJournalSeq
  /\ handler' = "replay"
  /\ UNCHANGED <<journalVars, hints, hint, flight, pageVars, breaks>>

Expired(cursor) == GetMinJournalSeq > 0 /\ cursor < GetMinJournalSeq - 1

Refuse ==
  /\ handler = "subscribed" /\ lastEventId # Unknown
  /\ Expired(lastEventId)
  /\ greeting' = Reset
  /\ Leave
  /\ UNCHANGED <<journalVars, flight, pageVars, breaks>>

\* Does not ask whether the page has a cursor.
FaultyResume ==
  /\ handler = "subscribed" /\ ~Expired(lastEventId)
  /\ watermark' = lastEventId
  /\ handler' = "replay"
  /\ UNCHANGED <<journalVars, hints, hint, wireVars, pageVars, breaks>>

Resume ==
  /\ handler = "subscribed" /\ lastEventId # Unknown
  /\ ~Expired(lastEventId)
  /\ watermark' = lastEventId
  /\ handler' = "replay"
  /\ UNCHANGED <<journalVars, hints, hint, wireVars, pageVars, breaks>>

Highest(set, default) ==
  IF set = {} THEN default ELSE CHOOSE m \in set : \A n \in set : n <= m

\* One round, and no more.
FaultyReplayBatch ==
  /\ handler \in {"replay", "drain"}
  /\ flight' = flight \cup ReadJournalEvents(watermark)
  /\ watermark' = Highest(ReadJournalEvents(watermark), watermark)
  /\ handler' = "live" /\ hint' = 0
  /\ UNCHANGED <<journalVars, hints, greeting, pageVars, breaks>>

\* One round of the loops of eventsStream and drainJournal.
ReplayBatch ==
  /\ handler \in {"replay", "drain"}
  /\ LET batch == ReadJournalEvents(watermark)
         sent == Highest(batch, watermark)
         done == Cardinality(batch) < Batch
         ahead == handler = "drain" /\ done /\ hint > sent
     IN  /\ flight' = flight \cup batch \cup IF ahead THEN {hint} ELSE {}
         /\ watermark' = IF ahead THEN hint ELSE sent
         /\ handler' = IF done THEN "live" ELSE handler
         /\ hint' = IF done THEN 0 ELSE hint
  /\ UNCHANGED <<journalVars, hints, greeting, pageVars, breaks>>

\* Passes the entry of the hint on without looking at the journal.
FaultyTakeHint ==
  /\ handler = "live"
  /\ \E n \in hints :
       /\ hints' = hints \ {n}
       /\ n > watermark
       /\ watermark' = n /\ flight' = flight \cup {n}
  /\ UNCHANGED <<journalVars, handler, hint, greeting, pageVars, breaks>>

TakeHint ==
  /\ handler = "live"
  /\ \E n \in hints : hint' = n /\ hints' = hints \ {n}
  /\ handler' = "drain"
  /\ UNCHANGED <<journalVars, watermark, wireVars, pageVars, breaks>>

-----------------------------------------------------------------------------
(* The page                                                                *)

\* connect, or the EventSource again: the request reaches the handler, which
\* subscribes before it looks at the cursor.
Connect ==
  /\ page \in {"connecting", "again"}
  /\ page' = "open"
  /\ handler' = "subscribed"
  /\ UNCHANGED <<journalVars, hints, hint, watermark, wireVars, lastEventId, position, breaks>>

\* An answer other than 200 (no session, a proxy without its upstream) ends an
\* EventSource for good, and onerror does not make another.
ConnectRefused ==
  /\ page \in {"connecting", "again"}
  /\ page' = "closed"
  /\ UNCHANGED <<journalVars, handlerVars, wireVars, lastEventId, position, breaks>>

HearInitialState ==
  /\ page = "open" /\ greeting >= 0
  /\ position' = greeting
  /\ greeting' = Unknown
  /\ UNCHANGED <<journalVars, handlerVars, flight, page, lastEventId, breaks>>

\* Everything is fetched anew, from a connection without a cursor.
HearResetState ==
  /\ page = "open" /\ greeting = Reset
  /\ greeting' = Unknown
  /\ handler' = "none"
  /\ page' = "connecting" /\ lastEventId' = Unknown /\ position' = Unknown
  /\ UNCHANGED <<journalVars, hints, hint, watermark, flight, breaks>>

HearEntry(n) ==
  /\ page = "open" /\ greeting = Unknown
  /\ n \in flight /\ \A m \in flight : n <= m
  /\ flight' = flight \ {n}
  /\ lastEventId' = n /\ position' = n
  /\ UNCHANGED <<journalVars, handlerVars, greeting, page, breaks>>

-----------------------------------------------------------------------------
(* Failures                                                                *)

\* The connection is lost with what is on its way; ctx.Done ends the handler.
Break ==
  /\ page = "open" /\ breaks < Breaks
  /\ breaks' = breaks + 1
  /\ page' = "again"
  /\ handler' = "none" /\ hints' = {} /\ hint' = 0 /\ watermark' = 0
  /\ greeting' = Unknown /\ flight' = {}
  /\ UNCHANGED <<journalVars, lastEventId, position>>

\* The gateway is started again; hints not yet published are never.
Restart ==
  /\ breaks < Breaks
  /\ breaks' = breaks + 1
  /\ unpublished' = {}
  /\ page' = IF page = "open" THEN "again" ELSE page
  /\ handler' = "none" /\ hints' = {} /\ hint' = 0 /\ watermark' = 0
  /\ greeting' = Unknown /\ flight' = {}
  /\ UNCHANGED <<journal, last, lastEventId, position>>

-----------------------------------------------------------------------------
Hear == HearInitialState \/ HearResetState \/ \E n \in 1 .. last : HearEntry(n)

Handle == Greet \/ Refuse \/ Resume \/ ReplayBatch \/ TakeHint

StreamNext ==
  \/ AppendEntry \/ Retain \/ \E n \in 1 .. last : Publish(n)
  \/ Handle
  \/ Connect \/ ConnectRefused \/ Hear
  \/ Break \/ Restart

StreamSpec == StreamInit /\ [][StreamNext]_streamVars

\* The handler goes on, the network delivers, the EventSource tries again, and
\* whoever has committed an entry publishes it.
StreamFairness ==
  /\ WF_streamVars(Handle)
  /\ WF_streamVars(Hear)
  /\ WF_streamVars(Connect \/ ConnectRefused)
  /\ \A n \in 1 .. Entries : WF_streamVars(Publish(n))

StreamFairSpec == StreamSpec /\ StreamFairness

-----------------------------------------------------------------------------
(* Properties                                                              *)

F == INSTANCE Feed WITH heard <- lastEventId # Unknown

\* From its first entry on, the page hears every entry in order, none twice and
\* none skipped that the journal still has, whatever hints are dropped or
\* overtake each other and wherever the connection breaks, unless it is told
\* that it has lost its place (sse.go:76, hub.go:60).
NothingSkipped == F!Spec

\* An open page hears of an entry, or is told to start over behind it, although
\* its hint may be dropped; unless retention is faster, or the page was refused.
EverythingHeard ==
  \A n \in 1 .. Entries :
    n \in journal ~> n \notin journal \/ position >= n \/ page = "closed"

=============================================================================
