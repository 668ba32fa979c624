---------------------------- MODULE StreamProofs ----------------------------
(***************************************************************************)
(* Proofs about Stream for any number of entries and breaks and any size   *)
(* of the batches and of the subscriber's channel: it implements Feed.     *)
(***************************************************************************)
EXTENDS Stream, FiniteSetTheorems, TLAPS

-----------------------------------------------------------------------------
(* Greatest and least elements                                             *)

\* Of the intervals that end with N, one that starts in S holds no other.
LEMMA GreatestElement ==
  ASSUME NEW N \in Nat, NEW S, S \subseteq 0 .. N, S # {}
  PROVE  \E n \in S : \A m \in S : m <= n
<1>. DEFINE segments == {n .. N : n \in S}
            R == StrictSubsetOrdering(0 .. N)
<1>1. IsWellFoundedOn(R, SUBSET (0 .. N))
  <2>1. IsWellFoundedOn(R, FiniteSubsetsOf(0 .. N))
    BY FS_StrictSubsetOrderingWellFounded
  <2>2. IsFiniteSet(0 .. N)
    BY FS_Interval, 0 \in Int, N \in Int
  <2>3. FiniteSubsetsOf(0 .. N) = SUBSET (0 .. N)
    BY <2>2, FS_FiniteSubsetsOfFinite
  <2>. QED BY <2>1, <2>3
<1>2. segments \subseteq SUBSET (0 .. N) /\ segments # {}
  <2>1. \A n \in S : n \in 0 .. N
    OBVIOUS
  <2>2. \A n \in 0 .. N : n .. N \in SUBSET (0 .. N)
    OBVIOUS
  <2>3. \A n \in S : n .. N \in SUBSET (0 .. N)
    BY <2>1, <2>2
  <2>4. PICK n \in S : TRUE
    OBVIOUS
  <2>. QED BY <2>3, <2>4
<1>3. PICK x \in segments : \A y \in segments : ~ (<<y, x>> \in R)
  <2>. HIDE DEF segments, R
  <2>. QED BY <1>1, <1>2, WFMin
<1>4. PICK n \in S : x = n .. N
  BY <1>3
<1>5. ASSUME NEW m \in S, m > n PROVE FALSE
  <2>1. m .. N \in segments /\ m .. N \subseteq n .. N
    BY <1>5
  <2>2. n \in n .. N /\ n \notin m .. N
    BY <1>5
  <2>3. <<m .. N, n .. N>> \in R
    BY <1>2, <1>4, <2>1, <2>2 DEF StrictSubsetOrdering
  <2>. QED BY <1>3, <1>4, <2>1, <2>3
<1>. QED BY <1>4, <1>5

LEMMA LowestElement ==
  ASSUME NEW N \in Nat, NEW S, S \subseteq 0 .. N, S # {}
  PROVE  \E n \in S : \A m \in S : n <= m
<1>. DEFINE T == {N - n : n \in S}
<1>1. T \subseteq 0 .. N /\ T # {}
  <2>1. \A n \in S : N - n \in 0 .. N
    OBVIOUS
  <2>2. PICK n \in S : TRUE
    OBVIOUS
  <2>. QED BY <2>1, <2>2
<1>2. PICK t \in T : \A u \in T : u <= t
  <2>. HIDE DEF T
  <2>. QED BY <1>1, GreatestElement
<1>3. PICK n \in S : t = N - n
  BY <1>2
<1>4. \A m \in S : N - m <= N - n
  BY <1>2, <1>3
<1>5. \A m \in S : n <= m
  BY <1>4
<1>. QED BY <1>5

-----------------------------------------------------------------------------
(* A batch                                                                 *)

\* The last of the journal, and the highest of a batch.
LEMMA MaxJournalSeq ==
  ASSUME last \in Nat, journal \subseteq 1 .. last
  PROVE  GetMaxJournalSeq \in 0 .. last
<1>1. journal \subseteq 0 .. last
  OBVIOUS
<1>2. ASSUME journal # {} PROVE \E m \in journal : \A n \in journal : n <= m
  BY <1>1, <1>2, GreatestElement
<1>3. journal # {} => GetMaxJournalSeq \in journal
  BY <1>2 DEF GetMaxJournalSeq
<1>4. CASE journal = {}
  BY <1>4 DEF GetMaxJournalSeq
<1>5. CASE journal # {}
  <2>1. GetMaxJournalSeq \in 0 .. last
    BY <1>1, <1>3, <1>5
  <2>. QED BY <2>1
<1>. QED BY <1>4, <1>5

LEMMA HighestOf ==
  ASSUME NEW N \in Nat, NEW S, S \subseteq 1 .. N, NEW default
  PROVE  /\ S = {} => Highest(S, default) = default
         /\ S # {} => Highest(S, default) \in S /\ \A n \in S : n <= Highest(S, default)
<1>1. S \subseteq 0 .. N
  OBVIOUS
<1>2. ASSUME S # {} PROVE \E m \in S : \A n \in S : n <= m
  BY <1>1, <1>2, GreatestElement
<1>. QED BY <1>2 DEF Highest

\* A batch has every entry up to its highest, and all there are when it is not
\* full.
LEMMA BatchIsPrefix ==
  ASSUME last \in Nat, journal \subseteq 1 .. last, NEW seq \in Nat
  PROVE  LET batch == ReadJournalEvents(seq)
         IN  /\ batch \subseteq 1 .. last /\ \A n \in batch : n > seq
             /\ \A n \in batch, m \in journal : seq < m /\ m <= n => m \in batch
             /\ Cardinality(batch) < Batch => \A m \in journal : seq < m => m \in batch
<1>. DEFINE batch == ReadJournalEvents(seq)
            below(n) == {m \in After(seq) : m < n}
<1>1. After(seq) \subseteq 1 .. last /\ batch \subseteq After(seq) /\ \A n \in After(seq) : n > seq
  BY DEF After, ReadJournalEvents
<1>2. IsFiniteSet(1 .. last)
  BY FS_Interval, 1 \in Int, last \in Int
<1>3. IsFiniteSet(After(seq)) /\ IsFiniteSet(batch) /\ \A n : IsFiniteSet(below(n))
  <2>1. batch \in SUBSET (1 .. last) /\ After(seq) \in SUBSET (1 .. last)
    BY <1>1
  <2>2. \A n : below(n) \in SUBSET (1 .. last)
    BY <1>1
  <2>. HIDE DEF batch, below
  <2>. QED BY <1>2, <2>1, <2>2, FS_Subset
<1>4. ASSUME NEW n \in batch, NEW m \in journal, seq < m, m <= n PROVE m \in batch
  <2>1. m \in After(seq) /\ n \in After(seq)
    BY <1>1, <1>4 DEF After
  <2>2. below(m) \subseteq below(n)
    BY <1>1, <1>4, <2>1
  <2>3. Cardinality(below(m)) <= Cardinality(below(n))
    <3>. HIDE DEF below
    <3>. QED BY <1>3, <2>2, FS_Subset
  <2>4. Cardinality(below(n)) < Batch
    BY <1>4 DEF ReadJournalEvents
  <2>5. Cardinality(below(m)) \in Nat /\ Cardinality(below(n)) \in Nat
    <3>. HIDE DEF below
    <3>. QED BY <1>3, FS_CardinalityType
  <2>6. Cardinality(below(m)) < Batch
    BY <2>3, <2>4, <2>5, StreamAssumption
  <2>. QED BY <2>1, <2>6 DEF ReadJournalEvents
<1>5. ASSUME Cardinality(batch) < Batch, NEW k \in journal, seq < k, k \notin batch PROVE FALSE
  <2>. DEFINE rest == After(seq) \ batch
  <2>1. k \in rest /\ rest \subseteq 0 .. last
    BY <1>1, <1>5 DEF After
  <2>2. PICK n \in rest : \A m \in rest : n <= m
    <3>. HIDE DEF rest
    <3>. QED BY <2>1, LowestElement
  <2>3. below(n) \subseteq batch
    BY <1>1, <2>2
  <2>4. Cardinality(below(n)) <= Cardinality(batch)
    <3>. HIDE DEF below, batch
    <3>. QED BY <1>3, <2>3, FS_Subset
  <2>5. Cardinality(below(n)) \in Nat /\ Cardinality(batch) \in Nat
    <3>. HIDE DEF below, batch
    <3>. QED BY <1>3, FS_CardinalityType
  <2>6. Cardinality(below(n)) < Batch
    BY <1>5, <2>4, <2>5, StreamAssumption
  <2>7. n \in batch
    BY <2>2, <2>6 DEF ReadJournalEvents
  <2>. QED BY <2>2, <2>7
<1>. QED BY <1>1, <1>4, <1>5

-----------------------------------------------------------------------------
(* Types                                                                   *)

LEMMA StreamInitType == StreamInit => StreamTypeOK
  BY StreamAssumption DEF StreamInit, StreamTypeOK, Unknown, Reset

\* A round sends entries of the journal and ends at one of them, or at the hint.
LEMMA ReplaySends ==
  ASSUME StreamTypeOK, ReplayBatch
  PROVE  /\ watermark' \in watermark .. last
         /\ flight \subseteq flight' /\ flight' \subseteq 1 .. last
         /\ \A n \in flight' : n \in flight \/ (watermark < n /\ n <= watermark')
         /\ \A m \in journal : watermark < m /\ m <= watermark' => m \in flight'
<1>. DEFINE batch == ReadJournalEvents(watermark)
            sent == Highest(batch, watermark)
            done == Cardinality(batch) < Batch
            ahead == handler = "drain" /\ done /\ hint > sent
<1>1. last \in Nat /\ watermark \in 0 .. last /\ hint \in 0 .. last /\ flight \subseteq 1 .. last
      /\ journal \subseteq 1 .. last
  BY StreamAssumption DEF StreamTypeOK
<1>2. /\ batch \subseteq 1 .. last /\ \A n \in batch : n > watermark
      /\ \A n \in batch, m \in journal : watermark < m /\ m <= n => m \in batch
      /\ done => \A m \in journal : watermark < m => m \in batch
  BY <1>1, BatchIsPrefix, watermark \in Nat
<1>3. /\ batch = {} => sent = watermark
      /\ batch # {} => sent \in batch /\ \A n \in batch : n <= sent
  BY <1>1, <1>2, HighestOf
<1>4. sent \in watermark .. last /\ \A n \in batch : watermark < n /\ n <= sent
  BY <1>1, <1>2, <1>3
<1>5. \A m \in journal : watermark < m /\ m <= sent => m \in batch
  BY <1>1, <1>2, <1>3
<1>6. /\ flight' = flight \cup batch \cup IF ahead THEN {hint} ELSE {}
      /\ watermark' = IF ahead THEN hint ELSE sent
  BY DEF ReplayBatch
<1>7. CASE ahead
  <2>1. flight' = flight \cup batch \cup {hint} /\ watermark' = hint /\ hint > sent
    BY <1>6, <1>7
  <2>2. \A m \in journal : watermark < m => m \in batch
    BY <1>2, <1>7
  <2>. HIDE DEF batch, sent, done, ahead
  <2>. QED BY <1>1, <1>2, <1>4, <2>1, <2>2
<1>8. CASE ~ahead
  <2>1. flight' = flight \cup batch /\ watermark' = sent
    BY <1>6, <1>8
  <2>. HIDE DEF batch, sent, done, ahead
  <2>. QED BY <1>1, <1>2, <1>4, <1>5, <2>1
<1>. QED BY <1>7, <1>8

LEMMA StreamStepType == StreamTypeOK /\ [StreamNext]_streamVars => StreamTypeOK'
<1>. SUFFICES ASSUME StreamTypeOK, [StreamNext]_streamVars PROVE StreamTypeOK'
  OBVIOUS
<1>. USE StreamAssumption DEF StreamTypeOK, Unknown, Reset, journalVars, handlerVars, wireVars, pageVars
<1>1. CASE AppendEntry
  BY <1>1 DEF AppendEntry
<1>2. CASE Retain
  BY <1>2 DEF Retain
<1>3. ASSUME NEW n \in 1 .. last, Publish(n) PROVE StreamTypeOK'
  BY <1>3 DEF Publish
<1>4. CASE Greet
  <2>1. GetMaxJournalSeq \in 0 .. last
    BY MaxJournalSeq
  <2>. QED BY <1>4, <2>1 DEF Greet
<1>5. CASE Refuse
  BY <1>5 DEF Refuse, Leave
<1>6. CASE Resume
  BY <1>6 DEF Resume
<1>7. CASE ReplayBatch
  <2>1. watermark' \in 0 .. last /\ flight' \in SUBSET (1 .. last)
    BY <1>7, ReplaySends
  <2>2. /\ UNCHANGED <<journal, last, unpublished, hints, greeting, page, lastEventId, position, breaks>>
        /\ hint' \in {hint, 0} /\ handler' \in {handler, "live"}
    BY <1>7 DEF ReplayBatch
  <2>. QED BY <2>1, <2>2
<1>8. CASE TakeHint
  BY <1>8 DEF TakeHint
<1>9. CASE Connect
  BY <1>9 DEF Connect
<1>10. CASE ConnectRefused
  BY <1>10 DEF ConnectRefused
<1>11. CASE HearInitialState
  BY <1>11 DEF HearInitialState
<1>12. CASE HearResetState
  BY <1>12 DEF HearResetState
<1>13. ASSUME NEW n \in 1 .. last, HearEntry(n) PROVE StreamTypeOK'
  BY <1>13 DEF HearEntry
<1>14. CASE Break
  BY <1>14 DEF Break
<1>15. CASE Restart
  BY <1>15 DEF Restart
<1>16. CASE UNCHANGED streamVars
  BY <1>16 DEF streamVars
<1>. QED
  BY <1>1, <1>2, <1>3, <1>4, <1>5, <1>6, <1>7, <1>8, <1>9, <1>10, <1>11, <1>12, <1>13, <1>14,
     <1>15, <1>16 DEF StreamNext, Handle, Hear

\* Every variable keeps to its declaration, and nothing is heard of, replayed or
\* hinted at that was never appended (sse.go:35).
THEOREM StreamTypes == StreamSpec => []StreamTypeOK
  BY StreamInitType, StreamStepType, PTL DEF StreamSpec

-----------------------------------------------------------------------------
(* The stream implements the feed                                          *)

Replaying == handler \in {"replay", "live", "drain"}

\* Where the page will be when it has heard the greeting on its way.
From == IF greeting >= 0 THEN greeting ELSE position

\* Without a connection nothing is on its way.
Unconnected == page # "open" => handler = "none" /\ greeting = Unknown

\* A greeting is the first the page hears of a connection.
Greeted ==
  /\ handler \in {"none", "subscribed"} => greeting = Unknown
  /\ greeting = Reset => handler = "over"
  /\ greeting >= 0 => Replaying /\ lastEventId = Unknown

InPlace == lastEventId # Unknown => position = lastEventId

\* On its way is what the journal has between the page's place and the
\* watermark, whatever retention took of it meanwhile.
Between ==
  /\ ~Replaying => flight = {}
  /\ Replaying =>
       /\ From \in 0 .. watermark
       /\ \A n \in flight : From < n /\ n <= watermark
       /\ \A m \in journal : From < m /\ m <= watermark => m \in flight

StreamInv == StreamTypeOK /\ Unconnected /\ Greeted /\ InPlace /\ Between

LEMMA InitStream == StreamInit => StreamInv
  BY StreamInitType DEF StreamInv, StreamInit, Unconnected, Greeted, InPlace, Between, Replaying, Unknown, Reset

LEMMA StepStream == StreamInv /\ [StreamNext]_streamVars => StreamInv'
<1>. DEFINE Inv == Unconnected /\ Greeted /\ InPlace /\ Between
<1>. SUFFICES ASSUME StreamInv, [StreamNext]_streamVars PROVE Inv'
  BY StreamStepType DEF StreamInv
<1>. USE StreamAssumption DEF StreamInv, StreamTypeOK, Unconnected, Greeted, InPlace, Between, Replaying, From,
       Unknown, Reset, journalVars, handlerVars, wireVars, pageVars
<1>1. CASE AppendEntry
  BY <1>1 DEF AppendEntry
<1>2. CASE Retain
  BY <1>2 DEF Retain
<1>3. ASSUME NEW n \in 1 .. last, Publish(n) PROVE Inv'
  BY <1>3 DEF Publish
<1>4. CASE Greet
  <2>1. GetMaxJournalSeq \in 0 .. last
    BY MaxJournalSeq
  <2>. QED BY <1>4, <2>1 DEF Greet
<1>5. CASE Refuse
  BY <1>5 DEF Refuse, Leave
<1>6. CASE Resume
  BY <1>6 DEF Resume
<1>7. CASE ReplayBatch
  <2>1. /\ watermark' \in watermark .. last
        /\ flight \subseteq flight'
        /\ \A n \in flight' : n \in flight \/ (watermark < n /\ n <= watermark')
        /\ \A m \in journal : watermark < m /\ m <= watermark' => m \in flight'
    BY <1>7, ReplaySends
  <2>2. /\ UNCHANGED <<journal, last, greeting, page, lastEventId, position>>
        /\ Replaying /\ Replaying'
    BY <1>7 DEF ReplayBatch
  <2>3. UNCHANGED From
    BY <2>2
  <2>4. Between'
    <3>1. From' \in 0 .. watermark'
      BY <2>1, <2>2, <2>3
    <3>2. \A n \in flight' : From' < n /\ n <= watermark'
      BY <2>1, <2>2, <2>3
    <3>3. ASSUME NEW m \in journal, From < m, m <= watermark' PROVE m \in flight'
      BY <2>1, <2>2, <3>3
    <3>. QED BY <2>2, <2>3, <3>1, <3>2, <3>3
  <2>. QED BY <2>2, <2>4
<1>8. CASE TakeHint
  BY <1>8 DEF TakeHint
<1>9. CASE Connect
  BY <1>9 DEF Connect
<1>10. CASE ConnectRefused
  BY <1>10 DEF ConnectRefused
<1>11. CASE HearInitialState
  BY <1>11 DEF HearInitialState
<1>12. CASE HearResetState
  BY <1>12 DEF HearResetState
<1>13. ASSUME NEW n \in 1 .. last, HearEntry(n) PROVE Inv'
  <2>1. Replaying /\ greeting = Unknown /\ position < n /\ n <= watermark
    BY <1>13 DEF HearEntry
  <2>. QED BY <1>13, <2>1 DEF HearEntry
<1>14. CASE Break
  BY <1>14 DEF Break
<1>15. CASE Restart
  BY <1>15 DEF Restart
<1>16. CASE UNCHANGED streamVars
  BY <1>16 DEF streamVars
<1>. QED
  BY <1>1, <1>2, <1>3, <1>4, <1>5, <1>6, <1>7, <1>8, <1>9, <1>10, <1>11, <1>12, <1>13, <1>14,
     <1>15, <1>16 DEF StreamNext, Handle, Hear

LEMMA InitFeed == StreamInit => F!Init
  BY DEF StreamInit, F!Init, F!Unknown, Unknown

\* What the page hears next is the least on its way, and the journal has nothing
\* between its place and that.
LEMMA StepFeed == StreamInv /\ [StreamNext]_streamVars => [F!Next]_(F!feedVars)
<1>. SUFFICES ASSUME StreamInv, [StreamNext]_streamVars PROVE F!Next \/ UNCHANGED F!feedVars
  OBVIOUS
<1>. USE DEF F!feedVars, journalVars, handlerVars, wireVars, pageVars
<1>1. CASE AppendEntry
  BY <1>1 DEF AppendEntry, F!Next, F!Append
<1>2. CASE Retain
  BY <1>2 DEF Retain, F!Next, F!Expire, StreamInv, StreamTypeOK
<1>3. ASSUME NEW n \in 1 .. last, Publish(n) PROVE UNCHANGED F!feedVars
  BY <1>3 DEF Publish
<1>4. ASSUME Handle PROVE UNCHANGED F!feedVars
  BY <1>4 DEF Handle, Greet, Refuse, Resume, ReplayBatch, TakeHint
<1>5. ASSUME Connect \/ ConnectRefused \/ Break \/ Restart PROVE UNCHANGED F!feedVars
  BY <1>5 DEF Connect, ConnectRefused, Break, Restart
<1>6. ASSUME HearInitialState PROVE F!Next
  <2>1. greeting \in 0 .. last /\ lastEventId = Unknown
    BY <1>6 DEF HearInitialState, StreamInv, StreamTypeOK, Greeted, Unknown, Reset
  <2>. QED BY <1>6, <2>1 DEF HearInitialState, F!Next, F!Place
<1>7. ASSUME HearResetState PROVE F!Next
  BY <1>7 DEF HearResetState, F!Next, F!StartOver, F!Unknown, Unknown
<1>8. ASSUME NEW n \in 1 .. last, HearEntry(n) PROVE F!Next
  <2>. USE DEF Unknown, Reset
  <2>1. Replaying /\ greeting = Unknown
    BY <1>8 DEF HearEntry, StreamInv, Between
  <2>2. /\ position \in 0 .. watermark /\ position < n /\ n <= watermark
        /\ \A m \in journal : position < m /\ m <= watermark => m \in flight
    BY <1>8, <2>1 DEF HearEntry, StreamInv, Between, From
  <2>3. last \in Nat /\ watermark \in 0 .. last /\ journal \subseteq 1 .. last
    BY StreamAssumption DEF StreamInv, StreamTypeOK
  <2>4. ASSUME NEW m \in journal, position < m, m < n PROVE FALSE
    <3>1. m \in flight
      BY <2>2, <2>3, <2>4
    <3>2. n <= m
      BY <1>8, <3>1 DEF HearEntry
    <3>. QED BY <2>3, <2>4, <3>2
  <2>5. position # F!Unknown /\ (lastEventId # Unknown)' /\ position' = n /\ UNCHANGED <<journal, last>>
    BY <1>8, <2>2, <2>3 DEF HearEntry, F!Unknown
  <2>6. F!Hear(n)
    BY <2>2, <2>4, <2>5 DEF F!Hear
  <2>. QED BY <2>6 DEF F!Next
<1>9. CASE UNCHANGED streamVars
  BY <1>9 DEF streamVars
<1>. QED
  BY <1>1, <1>2, <1>3, <1>4, <1>5, <1>6, <1>7, <1>8, <1>9 DEF StreamNext, Hear

\* However many entries, however small the batches and the channel and wherever
\* connections break, the page hears the journal in order, without a gap that
\* retention did not make, or is told to start over (sse.go:76, hub.go:60).
THEOREM StreamImplementsFeed == StreamSpec => NothingSkipped
<1>1. StreamInit => F!Init
  BY InitFeed
<1>2. StreamInv /\ [StreamNext]_streamVars => [F!Next]_(F!feedVars)
  BY StepFeed
<1>. QED BY InitStream, StepStream, <1>1, <1>2, PTL DEF StreamSpec, NothingSkipped, F!Spec

=============================================================================
