---------------------------- MODULE VoiceProofs -----------------------------
(***************************************************************************)
(* Proofs about Leader, for any number of tabs and credits, and about      *)
(* Voice, for any credits and any number of their events.                  *)
(***************************************************************************)
EXTENDS Leader, Voice, SequenceTheorems, TLAPS

-----------------------------------------------------------------------------
(* Leader: types                                                           *)

LEMMA InitLeader == LeaderInit => LeaderTypeOK
  BY DEF LeaderInit, LeaderTypeOK

LEMMA StepLeader == LeaderTypeOK /\ [LeaderNext]_leaderVars => LeaderTypeOK'
<1>. SUFFICES ASSUME LeaderTypeOK, [LeaderNext]_leaderVars PROVE LeaderTypeOK'
  OBVIOUS
<1>. USE DEF LeaderTypeOK
<1>1. ASSUME NEW t \in Tabs, StartWithLocks(t) PROVE LeaderTypeOK'
  BY <1>1 DEF StartWithLocks
<1>2. ASSUME NEW t \in Tabs, Grant(t) PROVE LeaderTypeOK'
  BY <1>2 DEF Grant
<1>3. ASSUME NEW t \in Tabs, StartWithChannel(t) PROVE LeaderTypeOK'
  BY <1>3 DEF StartWithChannel, TryClaim, Post, OnChannel, Open, MayClaim
<1>4. ASSUME NEW t \in Tabs, TabTick(t) PROVE LeaderTypeOK'
  BY <1>4 DEF TabTick, TryClaim, Post, OnChannel, Open, MayClaim
<1>5. ASSUME NEW t \in Tabs, Silence(t) PROVE LeaderTypeOK'
  BY <1>5 DEF Silence
<1>6. ASSUME NEW t \in Tabs, NEW from \in Tabs, Deliver(t, from) PROVE LeaderTypeOK'
  BY <1>6 DEF Deliver
<1>7. ASSUME NEW t \in Tabs, Close(t) PROVE LeaderTypeOK'
  BY <1>7 DEF Close, Open
<1>8. ASSUME NEW t \in Tabs, NEW c \in Events, AnnounceCredit(t, c) PROVE LeaderTypeOK'
  BY <1>8 DEF AnnounceCredit, Open
<1>9. ASSUME NEW t \in Tabs, StartStandalone(t) PROVE LeaderTypeOK'
  BY <1>9 DEF StartStandalone
<1>10. CASE UNCHANGED leaderVars
  BY <1>10 DEF leaderVars
<1>. QED
  BY <1>1, <1>2, <1>3, <1>4, <1>5, <1>6, <1>7, <1>8, <1>9, <1>10 DEF LeaderNext

\* Every variable keeps to its declaration (multi-tab-leader.ts:15).
THEOREM LeaderTypes == LeaderSpec => []LeaderTypeOK
  BY InitLeader, StepLeader, PTL DEF LeaderSpec

-----------------------------------------------------------------------------
(* Leader: the channel                                                     *)

LeadersOpen == leader \subseteq Open

ChannelInv == LeaderTypeOK /\ LeadersOpen /\ LeadersMeet

LEMMA InitChannel == LeaderInit => ChannelInv
  BY InitLeader DEF ChannelInv, LeadersOpen, LeadersMeet, LeaderInit

\* Whoever takes the lead puts its claim on the way to every open tab, and a
\* leader that gets one leads no longer.
LEMMA StepChannel == ChannelInv /\ [LeaderNext]_leaderVars => ChannelInv'
<1>. SUFFICES ASSUME ChannelInv, [LeaderNext]_leaderVars PROVE (LeadersOpen /\ LeadersMeet)'
  BY StepLeader DEF ChannelInv
<1>. USE DEF ChannelInv, LeaderTypeOK, LeadersOpen, LeadersMeet, OnChannel, Open
<1>1. ASSUME NEW t \in Tabs, StartWithLocks(t) PROVE (LeadersOpen /\ LeadersMeet)'
  BY <1>1 DEF StartWithLocks
<1>2. ASSUME NEW t \in Tabs, Grant(t) PROVE (LeadersOpen /\ LeadersMeet)'
  BY <1>2 DEF Grant
<1>3. ASSUME NEW t \in Tabs, StartWithChannel(t) PROVE (LeadersOpen /\ LeadersMeet)'
  BY <1>3 DEF StartWithChannel, TryClaim, Post, OnChannel, Open, MayClaim
<1>4. ASSUME NEW t \in Tabs, TabTick(t) PROVE (LeadersOpen /\ LeadersMeet)'
  BY <1>4 DEF TabTick, TryClaim, Post, OnChannel, Open, MayClaim
<1>5. ASSUME NEW t \in Tabs, Silence(t) PROVE (LeadersOpen /\ LeadersMeet)'
  BY <1>5 DEF Silence
<1>6. ASSUME NEW t \in Tabs, NEW from \in Tabs, Deliver(t, from) PROVE (LeadersOpen /\ LeadersMeet)'
  BY <1>6 DEF Deliver
<1>7. ASSUME NEW t \in Tabs, Close(t) PROVE (LeadersOpen /\ LeadersMeet)'
  BY <1>7 DEF Close, Open
<1>8. ASSUME NEW t \in Tabs, NEW c \in Events, AnnounceCredit(t, c) PROVE (LeadersOpen /\ LeadersMeet)'
  BY <1>8 DEF AnnounceCredit, Open
<1>9. ASSUME NEW t \in Tabs, StartStandalone(t) PROVE (LeadersOpen /\ LeadersMeet)'
  BY <1>9 DEF StartStandalone
<1>10. CASE UNCHANGED leaderVars
  BY <1>10 DEF leaderVars
<1>. QED
  BY <1>1, <1>2, <1>3, <1>4, <1>5, <1>6, <1>7, <1>8, <1>9, <1>10 DEF LeaderNext

\* Two leaders of the channel have yet to hear of each other, however many tabs
\* there are (multi-tab-leader.ts:57).
THEOREM LeadersAlwaysMeet == LeaderSpec => []LeadersMeet
<1>1. ChannelInv => LeadersMeet
  BY DEF ChannelInv
<1>. QED
  BY InitChannel, StepChannel, <1>1, PTL DEF LeaderSpec

-----------------------------------------------------------------------------
(* Leader: Web Locks                                                       *)

\* The lock has one holder, nothing is on the channel to take it away, and a
\* tab lets go of it only by closing: what an open tab has announced, it
\* announced as the present holder.
LockInv ==
  locks => /\ \A t, u \in leader : t = u
           /\ \A t \in Tabs : inbox[t] = {}
           /\ \A t \in Open : announces[t] # {} => t \in leader
           /\ \A t \in Tabs : tab[t] = "new" => announces[t] = {}

LEMMA InitLock == LeaderInit => LockInv
  BY DEF LockInv, LeaderInit, Open

LEMMA StepLock == LeaderTypeOK /\ LockInv /\ [LeaderNext]_leaderVars => LockInv'
<1>. SUFFICES ASSUME LeaderTypeOK, LockInv, [LeaderNext]_leaderVars PROVE LockInv'
  OBVIOUS
<1>. USE DEF LeaderTypeOK, LockInv, Open
<1>1. ASSUME NEW t \in Tabs, StartWithLocks(t) PROVE LockInv'
  BY <1>1 DEF StartWithLocks
<1>2. ASSUME NEW t \in Tabs, Grant(t) PROVE LockInv'
  BY <1>2 DEF Grant
<1>3. ASSUME NEW t \in Tabs, StartWithChannel(t) PROVE LockInv'
  BY <1>3 DEF StartWithChannel, TryClaim, Post, OnChannel, Open, MayClaim
<1>4. ASSUME NEW t \in Tabs, TabTick(t) PROVE LockInv'
  BY <1>4 DEF TabTick, TryClaim, Post, OnChannel, Open, MayClaim
<1>5. ASSUME NEW t \in Tabs, Silence(t) PROVE LockInv'
  BY <1>5 DEF Silence
<1>6. ASSUME NEW t \in Tabs, NEW from \in Tabs, Deliver(t, from) PROVE LockInv'
  BY <1>6 DEF Deliver
<1>7. ASSUME NEW t \in Tabs, Close(t) PROVE LockInv'
  BY <1>7 DEF Close, Open
<1>8. ASSUME NEW t \in Tabs, NEW c \in Events, AnnounceCredit(t, c) PROVE LockInv'
  BY <1>8 DEF AnnounceCredit, Open
<1>9. ASSUME NEW t \in Tabs, StartStandalone(t) PROVE LockInv'
  BY <1>9 DEF StartStandalone
<1>10. CASE UNCHANGED leaderVars
  BY <1>10 DEF leaderVars
<1>. QED
  BY <1>1, <1>2, <1>3, <1>4, <1>5, <1>6, <1>7, <1>8, <1>9, <1>10 DEF LeaderNext

\* With Web Locks a credit is announced in one open tab only
\* (multi-tab-leader.ts:38).
THEOREM AnnouncedInOneTab == LeaderSpec => []AnnouncedOnce
<1>1. LockInv => AnnouncedOnce
  BY DEF LockInv, AnnouncedOnce
<1>. QED
  BY InitLeader, StepLeader, InitLock, StepLock, <1>1, PTL DEF LeaderSpec

-----------------------------------------------------------------------------
(* Voice: sequences                                                        *)

Once(s) == \A i, j \in DOMAIN s : s[i] = s[j] => i = j
Separate(s) == \A i, j \in DOMAIN s : s[i] \cap s[j] # {} => i = j

LEMMA ItemsAppend ==
  ASSUME NEW S, NEW s \in Seq(S), NEW e \in S
  PROVE  /\ Append(s, e) \in Seq(S)
         /\ Items(Append(s, e)) = Items(s) \cup {e}
         /\ Once(s) /\ e \notin Items(s) => Once(Append(s, e))
<1>1. /\ Len(s) \in Nat /\ DOMAIN s = 1 .. Len(s)
      /\ Append(s, e) \in Seq(S) /\ DOMAIN Append(s, e) = 1 .. Len(s) + 1
      /\ \A i \in 1 .. Len(s) : Append(s, e)[i] = s[i]
      /\ Append(s, e)[Len(s) + 1] = e
  BY AppendProperties, LenProperties
<1>. QED BY <1>1 DEF Items, Once

LEMMA ItemsConcat ==
  ASSUME NEW s \in Seq(Messages), NEW t \in Seq(Messages)
  PROVE  /\ s \o t \in Seq(Messages)
         /\ Items(s \o t) = Items(s) \cup Items(t)
         /\ Separate(s) /\ Separate(t) /\ (UNION Items(s)) \cap (UNION Items(t)) = {}
              => Separate(s \o t)
<1>1. /\ Len(s) \in Nat /\ DOMAIN s = 1 .. Len(s)
      /\ Len(t) \in Nat /\ DOMAIN t = 1 .. Len(t)
      /\ s \o t \in Seq(Messages) /\ DOMAIN (s \o t) = 1 .. Len(s) + Len(t)
      /\ \A i \in 1 .. Len(s) + Len(t) :
           (s \o t)[i] = IF i <= Len(s) THEN s[i] ELSE t[i - Len(s)]
  BY ConcatProperties, LenProperties
<1>2. Items(s \o t) = Items(s) \cup Items(t)
  <2>1. ASSUME NEW i \in 1 .. Len(t) PROVE (s \o t)[i + Len(s)] = t[i] /\ i + Len(s) \in 1 .. Len(s) + Len(t)
    BY <1>1
  <2>2. ASSUME NEW i \in 1 .. Len(s) PROVE (s \o t)[i] = s[i] /\ i \in 1 .. Len(s) + Len(t)
    BY <1>1
  <2>3. ASSUME NEW i \in 1 .. Len(s) + Len(t) PROVE (s \o t)[i] \in Items(s) \cup Items(t)
    BY <1>1 DEF Items
  <2>4. ASSUME NEW e \in Items(s) PROVE e \in Items(s \o t)
    <3>1. PICK i \in 1 .. Len(s) : e = s[i]
      BY <1>1 DEF Items
    <3>. QED BY <1>1, <2>2, <3>1 DEF Items
  <2>5. ASSUME NEW e \in Items(t) PROVE e \in Items(s \o t)
    <3>1. PICK i \in 1 .. Len(t) : e = t[i]
      BY <1>1 DEF Items
    <3>. QED BY <1>1, <2>1, <3>1 DEF Items
  <2>6. ASSUME NEW e \in Items(s \o t) PROVE e \in Items(s) \cup Items(t)
    <3>1. PICK i \in 1 .. Len(s) + Len(t) : e = (s \o t)[i]
      BY <1>1 DEF Items
    <3>. QED BY <2>3, <3>1
  <2>. QED BY <2>4, <2>5, <2>6
<1>3. ASSUME Separate(s), Separate(t), (UNION Items(s)) \cap (UNION Items(t)) = {},
             NEW i \in DOMAIN (s \o t), NEW j \in DOMAIN (s \o t),
             (s \o t)[i] \cap (s \o t)[j] # {}
      PROVE  i = j
  <2>1. CASE i <= Len(s) /\ j <= Len(s)
    BY <1>1, <1>3, <2>1 DEF Separate
  <2>2. CASE i > Len(s) /\ j > Len(s)
    <3>1. i - Len(s) \in DOMAIN t /\ j - Len(s) \in DOMAIN t
      BY <1>1, <1>3, <2>2
    <3>2. i - Len(s) = j - Len(s)
      BY <1>1, <1>3, <2>2, <3>1 DEF Separate
    <3>. QED BY <1>1, <1>3, <3>2
  <2>3. ASSUME NEW a \in DOMAIN s, NEW b \in DOMAIN t PROVE s[a] \cap t[b] = {}
    BY <1>3 DEF Items
  <2>4. CASE i <= Len(s) /\ j > Len(s)
    BY <1>1, <1>3, <2>3, <2>4
  <2>5. CASE i > Len(s) /\ j <= Len(s)
    BY <1>1, <1>3, <2>3, <2>5
  <2>. QED BY <1>1, <1>3, <2>1, <2>2, <2>4, <2>5
<1>. QED BY <1>1, <1>2, <1>3 DEF Separate

LEMMA ItemsTail ==
  ASSUME NEW s \in Seq(Messages), s # <<>>
  PROVE  /\ Head(s) \in Messages /\ Tail(s) \in Seq(Messages)
         /\ UNION Items(s) = Head(s) \cup (UNION Items(Tail(s)))
         /\ Separate(s) => Separate(Tail(s)) /\ Head(s) \cap (UNION Items(Tail(s))) = {}
<1>1. /\ Len(s) \in Nat \ {0} /\ DOMAIN s = 1 .. Len(s)
      /\ Head(s) = s[1] /\ Head(s) \in Messages /\ Tail(s) \in Seq(Messages)
      /\ DOMAIN Tail(s) = 1 .. Len(s) - 1
      /\ \A i \in 1 .. Len(s) - 1 : Tail(s)[i] = s[i + 1]
  BY HeadTailProperties, LenProperties, EmptySeq
<1>2. Items(s) = {Head(s)} \cup Items(Tail(s))
  <2>1. ASSUME NEW i \in 1 .. Len(s), i # 1 PROVE i - 1 \in 1 .. Len(s) - 1 /\ Tail(s)[i - 1] = s[i]
    BY <1>1, <2>1
  <2>2. ASSUME NEW i \in 1 .. Len(s) - 1 PROVE i + 1 \in 1 .. Len(s) /\ Tail(s)[i] = s[i + 1]
    BY <1>1
  <2>3. ASSUME NEW e \in Items(s) PROVE e \in {Head(s)} \cup Items(Tail(s))
    <3>1. PICK i \in 1 .. Len(s) : e = s[i]
      BY <1>1 DEF Items
    <3>. QED BY <1>1, <2>1, <3>1 DEF Items
  <2>4. Head(s) \in Items(s)
    BY <1>1 DEF Items
  <2>5. ASSUME NEW e \in Items(Tail(s)) PROVE e \in Items(s)
    <3>1. PICK i \in 1 .. Len(s) - 1 : e = Tail(s)[i]
      BY <1>1 DEF Items
    <3>. QED BY <1>1, <2>2, <3>1 DEF Items
  <2>. QED BY <2>3, <2>4, <2>5
<1>3. ASSUME Separate(s) PROVE Separate(Tail(s)) /\ \A i \in DOMAIN Tail(s) : Head(s) \cap Tail(s)[i] = {}
  <2>1. ASSUME NEW i \in DOMAIN Tail(s) PROVE i + 1 \in DOMAIN s /\ i + 1 # 1 /\ Tail(s)[i] = s[i + 1]
    BY <1>1
  <2>. QED BY <1>1, <1>3, <2>1 DEF Separate
<1>4. UNION Items(s) = Head(s) \cup (UNION Items(Tail(s)))
  BY <1>2
<1>5. ASSUME Separate(s) PROVE Head(s) \cap (UNION Items(Tail(s))) = {}
  <2>1. ASSUME NEW m \in Items(Tail(s)) PROVE Head(s) \cap m = {}
    <3>1. PICK i \in DOMAIN Tail(s) : m = Tail(s)[i]
      BY DEF Items
    <3>. QED BY <1>3, <1>5, <3>1
  <2>. QED BY <2>1
<1>. QED BY <1>1, <1>3, <1>4, <1>5

\* Whatever the burst buffer becomes, its credits are in it once.
LEMMA ItemsOfBurst ==
  ASSUME NEW b \in Seq(Credits), NEW ms \in {Individually(b), Summary(b)}
  PROVE  /\ ms \in Seq(Messages) /\ UNION Items(ms) = Items(b)
         /\ Once(b) => Separate(ms)
<1>1. Len(b) \in Nat /\ DOMAIN b = 1 .. Len(b) /\ b \in [1 .. Len(b) -> Credits]
  BY LenProperties
<1>2. CASE ms = Individually(b)
  <2>1. ms \in [1 .. Len(b) -> Messages] /\ \A i \in 1 .. Len(b) : ms[i] = {b[i]}
    BY <1>1, <1>2 DEF Individually, Messages
  <2>2. ms \in Seq(Messages) /\ DOMAIN ms = 1 .. Len(b)
    BY <1>1, <2>1
  <2>. QED BY <1>1, <2>1, <2>2 DEF Items, Once, Separate
<1>3. CASE ms = Summary(b)
  <2>1. Items(b) \in Messages
    BY <1>1 DEF Items, Messages
  <2>2. ms = <<Items(b)>>
    BY <1>3 DEF Summary
  <2>3. ms \in Seq(Messages) /\ DOMAIN ms = {1} /\ ms[1] = Items(b)
    BY <2>1, <2>2
  <2>4. Items(ms) = {Items(b)}
    <3>1. \A all : DOMAIN ms = {1} /\ ms[1] = all => Items(ms) = {all}
      BY DEF Items
    <3>. QED BY <2>3, <3>1
  <2>. QED BY <2>3, <2>4 DEF Separate
<1>. QED BY <1>2, <1>3

-----------------------------------------------------------------------------
(* Voice: the invariant                                                    *)

\* Nothing is spoken or waits without a loop, or left in one that speaks not.
LoopShape ==
  /\ loop # "speaking" => message = {}
  /\ loop = "idle" => queue = <<>>

\* A credit is in one place of those that keep it reserved.
Apart ==
  /\ Once(buffer) /\ Separate(queue)
  /\ Items(buffer) \cap Waiting = {}
  /\ message \cap (Items(buffer) \cup Waiting) = {}
  /\ \A m \in abandoned : m \cap (Items(buffer) \cup Waiting \cup message) = {}
  /\ \A m, n \in abandoned : m \cap n # {} => m = n

\* Those are all, and what has been announced or skipped is in none of them.
Kept ==
  /\ reserved = Items(buffer) \cup Waiting \cup message \cup (UNION abandoned)
  /\ reserved \cap (processed \cup skipped) = {}

VoiceInv == VoiceTypeOK /\ LoopShape /\ Apart /\ Kept

LEMMA NoItems == Items(<<>>) = {} /\ UNION Items(<<>>) = {} /\ Once(<<>>) /\ Separate(<<>>)
  BY DEF Items, Once, Separate

LEMMA InitVoice == VoiceInit => VoiceInv
  BY NoItems DEF VoiceInit, VoiceInv, VoiceTypeOK, LoopShape, Apart, Kept, Waiting, Messages

LEMMA NextMessage ==
  ASSUME NEW ms \in Seq(Messages), Separate(ms), ProcessNext(ms)
  PROVE  /\ queue' \in Seq(Messages) /\ message' \in Messages
         /\ loop' \in {"idle", "speaking"} /\ LoopShape'
         /\ Separate(queue')
         /\ message' \cup Waiting' = UNION Items(ms)
         /\ message' \cap Waiting' = {}
<1>1. CASE ms = <<>>
  <2>1. queue' = <<>> /\ message' = {} /\ loop' = "idle"
    BY <1>1 DEF ProcessNext
  <2>. QED BY <1>1, <2>1, NoItems DEF LoopShape, Waiting, Messages
<1>2. CASE ms # <<>>
  <2>1. queue' = Tail(ms) /\ message' = Head(ms) /\ loop' = "speaking"
    BY <1>2 DEF ProcessNext
  <2>2. Waiting' = UNION Items(Tail(ms))
    BY <2>1 DEF Waiting
  <2>. QED BY <1>2, <2>1, <2>2, ItemsTail DEF LoopShape
<1>. QED BY <1>1, <1>2

LEMMA Enqueued ==
  ASSUME VoiceInv, NEW ms \in Seq(Messages), Separate(ms), UNION Items(ms) = Items(buffer),
         Enqueue(ms)
  PROVE  /\ queue' \in Seq(Messages) /\ message' \in Messages
         /\ loop' \in {"idle", "speaking", "pausing"} /\ LoopShape'
         /\ Separate(queue')
         /\ message' \cup Waiting' = message \cup Waiting \cup Items(buffer)
         /\ message' \cap Waiting' = {}
<1>1. queue \in Seq(Messages) /\ Separate(queue) /\ (UNION Items(queue)) \cap (UNION Items(ms)) = {}
  BY DEF VoiceInv, VoiceTypeOK, Apart, Waiting
<1>2. /\ queue \o ms \in Seq(Messages) /\ Separate(queue \o ms)
      /\ (UNION Items(queue \o ms)) = Waiting \cup Items(buffer)
  BY <1>1, ItemsConcat DEF Waiting
<1>3. CASE loop = "idle"
  <2>1. ProcessNext(queue \o ms) /\ message = {}
    BY <1>3 DEF Enqueue, VoiceInv, LoopShape
  <2>. QED BY <1>2, <2>1, NextMessage
<1>4. CASE loop # "idle"
  <2>1. queue' = queue \o ms /\ UNCHANGED <<loop, message>>
    BY <1>4 DEF Enqueue
  <2>2. Waiting' = Waiting \cup Items(buffer)
    BY <1>2, <2>1 DEF Waiting
  <2>. QED BY <1>2, <1>4, <2>1, <2>2 DEF VoiceInv, VoiceTypeOK, LoopShape, Apart
<1>. QED BY <1>3, <1>4

\* Emptying the queue and abandoning what is spoken.
LEMMA CutOff ==
  ASSUME VoiceInv, Abandon
  PROVE  /\ abandoned' \in SUBSET Messages
         /\ UNION abandoned' = message \cup (UNION abandoned)
         /\ \A m \in abandoned' : m \cap (Items(buffer) \cup Waiting) = {}
         /\ \A m, n \in abandoned' : m \cap n # {} => m = n
<1>1. CASE loop = "speaking"
  <2>1. abandoned' = abandoned \cup {message}
    BY <1>1 DEF Abandon
  <2>. QED BY <2>1 DEF VoiceInv, VoiceTypeOK, Apart
<1>2. CASE loop # "speaking"
  <2>1. abandoned' = abandoned /\ message = {}
    BY <1>2 DEF Abandon, VoiceInv, LoopShape
  <2>. QED BY <2>1 DEF VoiceInv, VoiceTypeOK, Apart
<1>. QED BY <1>1, <1>2

LEMMA Cancelled ==
  ASSUME VoiceInv, CancelEverything, enabled' \in BOOLEAN, stored' \in BOOLEAN, audio' \in BOOLEAN
  PROVE  VoiceInv'
<1>1. /\ queue' = <<>> /\ loop' = "idle" /\ message' = {} /\ Abandon /\ buffer' = <<>>
      /\ reserved' = reserved \ (Waiting \cup Items(buffer)) /\ UNCHANGED <<processed, skipped>>
  BY DEF CancelEverything, CancelQueue, Release
<1>2. Items(buffer)' = {} /\ Waiting' = {} /\ Once(buffer') /\ Separate(queue')
  BY <1>1, NoItems DEF Waiting
<1>3. VoiceTypeOK' /\ LoopShape'
  BY <1>1, CutOff DEF VoiceInv, VoiceTypeOK, LoopShape, Messages
<1>4. Apart'
  BY <1>1, <1>2, CutOff DEF Apart
<1>5. Kept'
  BY <1>1, <1>2, CutOff DEF Kept, VoiceInv, Apart
<1>. QED BY <1>3, <1>4, <1>5 DEF VoiceInv

LEMMA StepVoice == VoiceInv /\ [VoiceNext]_voiceVars => VoiceInv'
<1>. SUFFICES ASSUME VoiceInv, [VoiceNext]_voiceVars PROVE VoiceInv'
  OBVIOUS
<1>. USE DEF tabVars, queueVars, dedupeVars
<1>1. ASSUME NEW c \in Credits, HandleCreditEvent(c) PROVE VoiceInv'
  <2>1. c \notin reserved /\ c \notin processed \cup skipped
        /\ UNCHANGED <<stored, enabled, audio, queue, loop, message, abandoned>>
    BY <1>1 DEF HandleCreditEvent, Has, IsReserved
  <2>2. Waiting' = Waiting
    BY <2>1 DEF Waiting
  <2>3. CASE reserved' = reserved \cup {c} /\ UNCHANGED <<processed, skipped>> /\ buffer' = Append(buffer, c)
    <3>1. c \notin Items(buffer) \cup Waiting \cup message \cup (UNION abandoned)
      BY <2>1 DEF VoiceInv, Kept
    <3>2. buffer' \in Seq(Credits) /\ Items(buffer)' = Items(buffer) \cup {c} /\ Once(buffer')
      BY <2>3, <3>1, ItemsAppend DEF VoiceInv, VoiceTypeOK, Apart
    <3>3. VoiceTypeOK' /\ LoopShape'
      BY <2>1, <2>3, <3>2 DEF VoiceInv, VoiceTypeOK, LoopShape
    <3>4. Apart'
      BY <2>1, <2>2, <2>3, <3>1, <3>2 DEF VoiceInv, Apart
    <3>5. Kept'
      BY <2>1, <2>2, <2>3, <3>2 DEF VoiceInv, Kept
    <3>. QED BY <3>3, <3>4, <3>5 DEF VoiceInv
  <2>4. CASE reserved' = reserved \ {c} /\ skipped' = skipped \cup {c} /\ UNCHANGED <<processed, buffer>>
    BY <2>1, <2>2, <2>4 DEF VoiceInv, VoiceTypeOK, LoopShape, Apart, Kept
  <2>. QED BY <1>1, <2>3, <2>4 DEF HandleCreditEvent, Reserve, MarkSkipped
<1>2. CASE ProcessBurstBuffer
  <2>1. buffer' = <<>> /\ UNCHANGED <<stored, enabled, audio>> /\ Items(buffer)' = {} /\ Once(buffer')
    BY <1>2, NoItems DEF ProcessBurstBuffer
  <2>2. CASE reserved' = reserved \ Items(buffer) /\ UNCHANGED <<queue, loop, message, abandoned, processed, skipped>>
    <3>1. Waiting' = Waiting
      BY <2>2 DEF Waiting
    <3>. QED BY <2>1, <2>2, <3>1 DEF VoiceInv, VoiceTypeOK, LoopShape, Apart, Kept
  <2>3. ASSUME NEW ms \in {Individually(buffer), Summary(buffer)}, Enqueue(ms),
               UNCHANGED <<abandoned, reserved, processed, skipped>>
        PROVE  VoiceInv'
    <3>1. ms \in Seq(Messages) /\ UNION Items(ms) = Items(buffer) /\ Separate(ms)
      BY ItemsOfBurst DEF VoiceInv, VoiceTypeOK, Apart
    <3>2. /\ queue' \in Seq(Messages) /\ message' \in Messages
          /\ loop' \in {"idle", "speaking", "pausing"} /\ LoopShape' /\ Separate(queue')
          /\ message' \cup Waiting' = message \cup Waiting \cup Items(buffer)
          /\ message' \cap Waiting' = {}
      BY <2>3, <3>1, Enqueued
    <3>3. VoiceTypeOK'
      BY <2>1, <2>3, <3>2 DEF VoiceInv, VoiceTypeOK
    <3>4. Apart'
      BY <2>1, <2>3, <3>2 DEF VoiceInv, Apart
    <3>5. Kept'
      BY <2>1, <2>3, <3>2 DEF VoiceInv, Kept
    <3>. QED BY <3>2, <3>3, <3>4, <3>5 DEF VoiceInv
  <2>. QED BY <1>2, <2>2, <2>3 DEF ProcessBurstBuffer, Release
<1>3. CASE SpeakSettles
  <2>1. /\ loop = "speaking" /\ loop' = "pausing" /\ message' = {} /\ reserved' = reserved \ message
        /\ processed' \in {processed, processed \cup message}
        /\ UNCHANGED <<stored, enabled, audio, buffer, queue, abandoned, skipped>>
    BY <1>3 DEF SpeakSettles, Commit, Release
  <2>2. Waiting' = Waiting
    BY <2>1 DEF Waiting
  <2>3. VoiceTypeOK' /\ LoopShape'
    BY <2>1 DEF VoiceInv, VoiceTypeOK, LoopShape, Messages
  <2>4. Apart'
    BY <2>1, <2>2 DEF VoiceInv, Apart
  <2>5. Kept'
    BY <2>1, <2>2 DEF VoiceInv, Apart, Kept
  <2>. QED BY <2>3, <2>4, <2>5 DEF VoiceInv
<1>4. CASE PauseEnds
  <2>1. loop = "pausing" /\ ProcessNext(queue) /\ UNCHANGED <<stored, enabled, audio, buffer, abandoned, reserved, processed, skipped>>
    BY <1>4 DEF PauseEnds
  <2>2. queue \in Seq(Messages) /\ Separate(queue) /\ message = {}
    BY <2>1 DEF VoiceInv, VoiceTypeOK, Apart, LoopShape
  <2>3. /\ queue' \in Seq(Messages) /\ message' \in Messages
        /\ loop' \in {"idle", "speaking"} /\ LoopShape' /\ Separate(queue')
        /\ message' \cup Waiting' = Waiting /\ message' \cap Waiting' = {}
    BY <2>1, <2>2, NextMessage DEF Waiting
  <2>4. VoiceTypeOK'
    BY <2>1, <2>3 DEF VoiceInv, VoiceTypeOK
  <2>5. Apart'
    BY <2>1, <2>3 DEF VoiceInv, Apart
  <2>6. Kept'
    BY <2>1, <2>2, <2>3 DEF VoiceInv, Kept
  <2>. QED BY <2>3, <2>4, <2>5, <2>6 DEF VoiceInv
<1>5. CASE AbandonedSettles
  <2>1. PICK m \in abandoned :
          /\ reserved' = reserved \ m /\ abandoned' = abandoned \ {m}
          /\ UNCHANGED <<stored, enabled, audio, buffer, queue, loop, message, processed, skipped>>
    BY <1>5 DEF AbandonedSettles, Release
  <2>2. Waiting' = Waiting
    BY <2>1 DEF Waiting
  <2>3. VoiceTypeOK' /\ LoopShape' /\ Apart'
    BY <2>1, <2>2 DEF VoiceInv, VoiceTypeOK, LoopShape, Apart
  <2>4. UNION abandoned' = (UNION abandoned) \ m
    BY <2>1 DEF VoiceInv, Apart
  <2>5. Kept'
    BY <2>1, <2>2, <2>4 DEF VoiceInv, Apart, Kept
  <2>. QED BY <2>3, <2>5 DEF VoiceInv
<1>6. CASE CancelVoice
  BY <1>6, Cancelled DEF CancelVoice, VoiceInv, VoiceTypeOK
<1>7. CASE TestVoice
  <2>1. /\ queue' = <<>> /\ loop' = "speaking" /\ message' = {} /\ Abandon
        /\ reserved' = reserved \ Waiting /\ UNCHANGED <<stored, enabled, audio, buffer, processed, skipped>>
    BY <1>7 DEF TestVoice, Release
  <2>2. Waiting' = {} /\ Separate(queue')
    BY <2>1, NoItems DEF Waiting
  <2>3. VoiceTypeOK' /\ LoopShape'
    BY <2>1, CutOff DEF VoiceInv, VoiceTypeOK, LoopShape, Messages
  <2>4. Apart'
    BY <2>1, <2>2, CutOff DEF VoiceInv, Apart
  <2>5. Kept'
    BY <2>1, <2>2, CutOff DEF VoiceInv, Apart, Kept
  <2>. QED BY <2>3, <2>4, <2>5 DEF VoiceInv
<1>8. ASSUME NEW on \in BOOLEAN, UpdateSettings(on) PROVE VoiceInv'
  <2>1. CASE on
    BY <1>8, <2>1 DEF UpdateSettings, VoiceInv, VoiceTypeOK, LoopShape, Apart, Kept, Waiting
  <2>2. CASE ~on
    BY <1>8, <2>2, Cancelled DEF UpdateSettings, VoiceInv, VoiceTypeOK
  <2>. QED BY <2>1, <2>2
<1>9. CASE UpdateOtherSetting \/ OtherTab
  <2>1. UNCHANGED <<buffer, queue, loop, message, abandoned, reserved, processed, skipped>>
    BY <1>9 DEF UpdateOtherSetting, OtherTab
  <2>2. stored \in BOOLEAN /\ enabled \in BOOLEAN
    BY DEF VoiceInv, VoiceTypeOK
  <2>3. CASE UpdateOtherSetting
    BY <2>1, <2>2, <2>3 DEF UpdateOtherSetting, VoiceInv, VoiceTypeOK, LoopShape, Apart, Kept, Waiting
  <2>4. CASE OtherTab
    <3>1. stored' \in BOOLEAN
      BY <2>2, <2>4, Zenon DEF OtherTab
    <3>2. enabled' = enabled /\ audio' = audio
      BY <2>4, Zenon DEF OtherTab
    <3>. QED BY <2>1, <2>2, <3>1, <3>2 DEF VoiceInv, VoiceTypeOK, LoopShape, Apart, Kept, Waiting
  <2>. QED BY <1>9, <2>3, <2>4
<1>10. CASE HandleStorage
  <2>1. CASE stored
    BY <1>10, <2>1 DEF HandleStorage, VoiceInv, VoiceTypeOK, LoopShape, Apart, Kept, Waiting
  <2>2. CASE ~stored
    BY <1>10, <2>2, Cancelled DEF HandleStorage, VoiceInv, VoiceTypeOK
  <2>. QED BY <2>1, <2>2
<1>11. CASE UnlockAudio \/ AudioInterrupted
  <2>1. audio' \in BOOLEAN /\ UNCHANGED <<stored, enabled, buffer, queueVars, dedupeVars>>
    BY <1>11 DEF UnlockAudio, AudioInterrupted
  <2>. QED BY <2>1 DEF VoiceInv, VoiceTypeOK, LoopShape, Apart, Kept, Waiting
<1>12. CASE UNCHANGED voiceVars
  BY <1>12 DEF voiceVars, VoiceInv, VoiceTypeOK, LoopShape, Apart, Kept, Waiting
<1>. QED
  BY <1>1, <1>2, <1>3, <1>4, <1>5, <1>6, <1>7, <1>8, <1>9, <1>10, <1>11, <1>12 DEF VoiceNext

\* Exactly the credits that still have a way to be spoken or released are
\* reserved, whatever is cancelled and settles later, for any number of credits
\* and events (VoiceAnnouncementProvider.tsx:172, voice-queue.ts:70).
THEOREM ReservedArePending == VoiceSpec => []ReservedIsPending
<1>1. VoiceInv => ReservedIsPending
  BY DEF VoiceInv, Kept, LoopShape, ReservedIsPending, Speaking
<1>. QED BY InitVoice, StepVoice, <1>1, PTL DEF VoiceSpec

\* No credit is in two messages, nor announced again (voice-dedupe.ts:66).
THEOREM EachInOnePlace == VoiceSpec => []InOnePlace
<1>1. ASSUME VoiceInv PROVE InOnePlace
  <2>. DEFINE places == {Items(buffer), Waiting, processed} \cup Speaking \cup abandoned
  <2>1. Speaking \subseteq {message}
    BY DEF Speaking
  <2>2. \A p \in {Items(buffer), Waiting} \cup Speaking \cup abandoned : p \cap processed = {}
    BY <1>1, <2>1 DEF VoiceInv, Kept
  <2>3. \A p, q \in {Items(buffer), Waiting} \cup Speaking \cup abandoned : p \cap q # {} => p = q
    BY <1>1, <2>1 DEF VoiceInv, Apart
  <2>4. \A p, q \in places : p \cap q # {} => p = q
    BY <2>2, <2>3
  <2>5. Items(buffer) # {} => Items(buffer) \notin {Waiting} \cup Speaking \cup abandoned
    BY <1>1, <2>1 DEF VoiceInv, Apart
  <2>6. /\ \A i, j \in DOMAIN buffer : buffer[i] = buffer[j] => i = j
        /\ \A i, j \in DOMAIN queue : queue[i] \cap queue[j] # {} => i = j
    BY <1>1 DEF VoiceInv, Apart, Once, Separate
  <2>. QED BY <2>4, <2>5, <2>6 DEF InOnePlace
<1>. QED BY InitVoice, StepVoice, <1>1, PTL DEF VoiceSpec

\* Every variable of a tab's announcements keeps to its declaration, and the
\* credits of every message are ones whose events came.
THEOREM VoiceTypes == VoiceSpec => []VoiceTypeOK
<1>1. VoiceInv => VoiceTypeOK
  BY DEF VoiceInv
<1>. QED BY InitVoice, StepVoice, <1>1, PTL DEF VoiceSpec

=============================================================================
