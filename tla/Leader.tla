------------------------------- MODULE Leader -------------------------------
(***************************************************************************)
(* Which of the open tabs announces credits                                *)
(* (web/src/features/voice-announcements/multi-tab-leader.ts): the holder  *)
(* of a Web Lock, or, where the browser has none, the tab that claimed the *)
(* lead last on a BroadcastChannel.  A tab that gets neither leads on its  *)
(* own.                                                                    *)
(*                                                                         *)
(* A claim and a heartbeat do the same to a tab that gets one, and a       *)
(* second one on its way nothing more, so the channel is the set of tabs   *)
(* something of which is on its way to a tab.  A tab announces an event    *)
(* that reaches it while it leads, whatever becomes of it then (Voice); it *)
(* has rendered the change of the lead by then.                            *)
(***************************************************************************)
EXTENDS FiniteSets

CONSTANTS
  Tabs,      \* tabs that may be opened; each is opened and closed once
  NoTab,
  Events    \* events of credits, which reach every open tab at some time

VARIABLES
  locks,     \* whether the browser has navigator.locks
  tab,       \* "new", "open", "alone" (open without lock and channel) or "closed"
  leader,    \* the tabs with MultiTabLeader.leader
  known,     \* currentLeaderId of a tab
  silent,    \* tabs whose lastLeaderHeartbeat is more than 4 s ago
  inbox,     \* senders of the messages on their way to a tab
  announces  \* credits a tab has taken upon itself

leaderVars == <<locks, tab, leader, known, silent, inbox, announces>>

LeaderTypeOK ==
  /\ locks \in BOOLEAN
  /\ tab \in [Tabs -> {"new", "open", "alone", "closed"}]
  /\ leader \in SUBSET Tabs
  /\ known \in [Tabs -> Tabs \cup {NoTab}]
  /\ silent \in SUBSET Tabs
  /\ inbox \in [Tabs -> SUBSET Tabs]
  /\ announces \in [Tabs -> SUBSET Events]

LeaderInit ==
  /\ locks \in BOOLEAN
  /\ tab = [t \in Tabs |-> "new"]
  /\ leader = {}
  /\ known = [t \in Tabs |-> NoTab]
  /\ silent = {}
  /\ inbox = [t \in Tabs |-> {}]
  /\ announces = [t \in Tabs |-> {}]

Open == {t \in Tabs : tab[t] \in {"open", "alone"}}

-----------------------------------------------------------------------------
(* Web Locks                                                               *)

\* start asks for the lock, and waits.
StartWithLocks(t) ==
  /\ locks /\ tab[t] = "new"
  /\ tab' = [tab EXCEPT ![t] = "open"]
  /\ UNCHANGED <<locks, leader, known, silent, inbox, announces>>

\* Takes it that nobody else leads.
FaultyGrant(t) ==
  /\ locks /\ tab[t] = "open" /\ t \notin leader
  /\ leader' = leader \cup {t}
  /\ UNCHANGED <<locks, tab, known, silent, inbox, announces>>

Grant(t) ==
  /\ locks /\ tab[t] = "open" /\ leader = {}
  /\ leader' = {t}
  /\ UNCHANGED <<locks, tab, known, silent, inbox, announces>>

-----------------------------------------------------------------------------
(* BroadcastChannel                                                        *)

OnChannel == {t \in Tabs : tab[t] = "open"}

Post(t) == inbox' = [u \in Tabs |-> IF u \in OnChannel \ {t} THEN inbox[u] \cup {t} ELSE inbox[u]]

\* A leader claims again each time, for it never hears itself.
MayClaim(t) == known[t] = NoTab \/ t \in silent

TryClaim(t) ==
  IF MayClaim(t)
    THEN /\ known' = [known EXCEPT ![t] = t]
         /\ leader' = leader \cup {t}
         /\ Post(t)
    ELSE IF t \in leader
    THEN Post(t) /\ UNCHANGED <<known, leader>>
    ELSE UNCHANGED <<known, leader, inbox>>

\* The first claim comes before anything could have been heard.
StartWithChannel(t) ==
  /\ ~locks /\ tab[t] = "new"
  /\ tab' = [tab EXCEPT ![t] = "open"]
  /\ silent' = silent \cup {t}      \* lastLeaderHeartbeat is 0
  /\ TryClaim(t)
  /\ UNCHANGED <<locks, announces>>

\* Every two seconds, or less often when the tab is in the background.
TabTick(t) ==
  /\ ~locks /\ tab[t] = "open"
  /\ TryClaim(t)
  /\ UNCHANGED <<locks, tab, silent, announces>>

\* A leader keeps the lead it has.
FaultyDeliver(t, from) ==
  /\ tab[t] = "open" /\ from \in inbox[t]
  /\ inbox' = [inbox EXCEPT ![t] = @ \ {from}]
  /\ known' = [known EXCEPT ![t] = IF t \in leader THEN t ELSE from]
  /\ silent' = silent \ {t}
  /\ UNCHANGED <<locks, tab, leader, announces>>

\* channel.onmessage: whoever hears of another leader yields.
Deliver(t, from) ==
  /\ tab[t] = "open" /\ from \in inbox[t]
  /\ inbox' = [inbox EXCEPT ![t] = @ \ {from}]
  /\ known' = [known EXCEPT ![t] = from]
  /\ silent' = silent \ {t}
  /\ leader' = leader \ {t}
  /\ UNCHANGED <<locks, tab, announces>>

\* Four seconds without a message, for want of a leader or of its timers.
Silence(t) ==
  /\ ~locks /\ tab[t] = "open" /\ t \notin silent
  /\ silent' = silent \cup {t}
  /\ UNCHANGED <<locks, tab, leader, known, inbox, announces>>

\* There is no BroadcastChannel, or this one cannot be opened.
StartStandalone(t) ==
  /\ ~locks /\ tab[t] = "new"
  /\ tab' = [tab EXCEPT ![t] = "alone"]
  /\ leader' = leader \cup {t}
  /\ UNCHANGED <<locks, known, silent, inbox, announces>>

-----------------------------------------------------------------------------
\* stop; the messages it has sent still arrive.
Close(t) ==
  /\ t \in Open
  /\ tab' = [tab EXCEPT ![t] = "closed"]
  /\ leader' = leader \ {t}
  /\ inbox' = [inbox EXCEPT ![t] = {}]
  /\ UNCHANGED <<locks, known, silent, announces>>

\* An event of a credit reaches the tab.
AnnounceCredit(t, c) ==
  /\ t \in Open /\ t \in leader
  /\ announces' = [announces EXCEPT ![t] = @ \cup {c}]
  /\ UNCHANGED <<locks, tab, leader, known, silent, inbox>>

LeaderNext ==
  \E t \in Tabs :
    \/ StartWithLocks(t) \/ Grant(t)
    \/ StartWithChannel(t) \/ StartStandalone(t) \/ TabTick(t) \/ Silence(t) \/ \E from \in Tabs : Deliver(t, from)
    \/ Close(t)
    \/ \E c \in Events : AnnounceCredit(t, c)

LeaderSpec == LeaderInit /\ [][LeaderNext]_leaderVars

-----------------------------------------------------------------------------
(* Properties                                                              *)

\* Two tabs of the channel both lead only while one has yet to hear of the
\* other's claim, whichever claims, heartbeats and closed tabs came between
\* (multi-tab-leader.ts:57).  A tab without it always leads (line 102).
LeadersMeet ==
  \A t, u \in leader \cap OnChannel : t # u => u \in inbox[t] \/ t \in inbox[u]

\* With Web Locks no credit is announced in two open tabs, although its event
\* reaches them at different times and the lead passes on (multi-tab-leader.ts:38).
AnnouncedOnce ==
  locks => \A t, u \in Open : announces[t] \cap announces[u] # {} => t = u

=============================================================================
