----------------------------- MODULE AuthBrowser ----------------------------
(***************************************************************************)
(* The auth-browser controller (cmd/auth-browser): one Chromium at a time, *)
(* in which an administrator logs in to the bank, and the observer that    *)
(* notices the login and keeps cookies and form for the gateway to fetch.  *)
(*                                                                         *)
(* server.mu protects the session pointer and the fields of the session;   *)
(* a step is what is done under it at once, or one step of a goroutine     *)
(* outside it.  Requests of any attempt interleave with the goroutines of  *)
(* every session started so far: reapSession and the wait for the browser  *)
(* are outside the lock, and start takes it a second time.                 *)
(*                                                                         *)
(* The gateway starts every attempt once, under a fresh id (httpapi        *)
(* startAuth), so a session is named by its attempt.  The ids are few and  *)
(* serve again: one is as good as fresh when neither goroutine, process,   *)
(* request nor the server refers to its former session.  Left out are      *)
(* requests that change nothing (a start that is refused or repeated, the  *)
(* fetch of the handoff) and the end of the controller's process, whose    *)
(* container ends with it.                                                 *)
(***************************************************************************)
EXTENDS LoginPage

CONSTANTS
  Attempts,    \* ids of the gateway; bound: how many sessions go on at once
  NoAttempt,   \* no session, no handoff
  Browsers     \* what the tabs and cookies of a browser may be when looked at

ASSUME AuthBrowserAssumption ==
  /\ NoAttempt \notin Attempts
  /\ Browsers \subseteq BrowserType

VARIABLES
  session,    \* server.session
  status,     \* browserSession.Status, "NONE" before it exists
  verified,   \* the attempts with browserSession.verified
  handoff,    \* browserSession.handoff: the attempt whose browser it was read from
  lapsed,     \* attempts whose ExpiresAt has passed
  cancelled,  \* attempts whose context is done, by cancel or deadline
  browser,    \* the Chromium process; "done" once item.done is closed
  launch,     \* where the goroutine of launch is
  observer,   \* where the goroutine of observeLogin is
  start,      \* where the start request is, "none" without one
  old         \* the session it took away, to be reaped

sessionVars == <<session, status, verified, handoff>>
contextVars == <<lapsed, cancelled>>
requestVars == <<start, old>>
vars == <<sessionVars, contextVars, browser, launch, observer, requestVars>>

Terminal == {"FAILED", "EXPIRED", "CANCELLED", "COMPLETED"}
Observed == {"AWAITING_USER_LOGIN", "VERIFIED"}
Statuses == {"NONE", "STARTING"} \cup Observed \cup Terminal

TypeOK ==
  /\ session \in Attempts \cup {NoAttempt}
  /\ status \in [Attempts -> Statuses]
  /\ verified \in SUBSET Attempts
  /\ handoff \in [Attempts -> Attempts \cup {NoAttempt}]
  /\ lapsed \in SUBSET Attempts
  /\ cancelled \in SUBSET Attempts
  /\ browser \in [Attempts -> {"none", "running", "done"}]
  /\ launch \in [Attempts -> {"none", "profile", "ready", "running", "failed", "ended"}]
  /\ observer \in [Attempts -> {"none", "look", "write", "gone"}]
  /\ start \in [Attempts -> {"none", "reap", "create", "wait"}]
  /\ old \in [Attempts -> Attempts \cup {NoAttempt}]

Init ==
  /\ session = NoAttempt
  /\ status = [a \in Attempts |-> "NONE"]
  /\ verified = {}
  /\ handoff = [a \in Attempts |-> NoAttempt]
  /\ lapsed = {} /\ cancelled = {}
  /\ browser = [a \in Attempts |-> "none"]
  /\ launch = [a \in Attempts |-> "none"]
  /\ observer = [a \in Attempts |-> "none"]
  /\ start = [a \in Attempts |-> "none"]
  /\ old = [a \in Attempts |-> NoAttempt]

-----------------------------------------------------------------------------
(* The session, under server.mu                                            *)

(* The operators named Faulty... are slips the runs are known to notice;   *)
(* no specification uses them.                                             *)

TerminalStatus(a) == status[a] \in Terminal
ContextDone(a) == a \in cancelled

\* setStatus goes by id, and leaves a terminal status alone.
SetStatus(a, s) ==
  status' = IF session = a /\ ~TerminalStatus(a) THEN [status EXCEPT ![a] = s] ELSE status

CancelContext(set) == cancelled' = cancelled \cup set

\* Nothing goes on for the session of a any more.
Ended(a) ==
  /\ launch[a] \in {"none", "failed", "ended"}
  /\ browser[a] \in {"none", "done"}
  /\ observer[a] \in {"none", "gone"}
  /\ start[a] = "none"

Fresh(a) == Ended(a) /\ session # a /\ \A b \in Attempts : old[b] # a

\* A new session, in the critical section of start that found or left none.
Create(a) ==
  /\ session' = a
  /\ status' = [status EXCEPT ![a] = "STARTING"]
  /\ verified' = verified \ {a}
  /\ handoff' = [handoff EXCEPT ![a] = NoAttempt]
  /\ lapsed' = lapsed \ {a} /\ cancelled' = cancelled \ {a}
  /\ browser' = [browser EXCEPT ![a] = "none"]
  /\ launch' = [launch EXCEPT ![a] = "profile"]
  /\ observer' = [observer EXCEPT ![a] = "none"]
  /\ start' = [start EXCEPT ![a] = "wait"]
  /\ UNCHANGED old

\* The profiles directory or a port cannot be had.
CreateFails(a) ==
  /\ start' = [start EXCEPT ![a] = "none"]
  /\ UNCHANGED <<sessionVars, contextVars, browser, launch, observer, old>>

-----------------------------------------------------------------------------
(* POST /sessions                                                          *)

StartFirst(a) ==
  /\ Fresh(a)
  /\ session = NoAttempt
  /\ Create(a) \/ CreateFails(a)

\* The finished session is taken away, then the lock released to reap it.  With
\* one that is not finished the request is refused and changes nothing.
StartOverFinished(a) ==
  /\ Fresh(a)
  /\ session # NoAttempt
  /\ TerminalStatus(session) \/ session \in lapsed
  /\ session' = NoAttempt
  /\ old' = [old EXCEPT ![a] = session]
  /\ start' = [start EXCEPT ![a] = "reap"]
  /\ UNCHANGED <<status, verified, handoff, contextVars, browser, launch, observer>>

\* reapSession; then the old browser is gone, or five seconds are over.
StartReaps(a) ==
  /\ start[a] = "reap"
  /\ CancelContext({old[a]})
  /\ old' = [old EXCEPT ![a] = NoAttempt]
  /\ start' = [start EXCEPT ![a] = "create"]
  /\ UNCHANGED <<sessionVars, lapsed, browser, launch, observer>>

\* The lock is taken again; nobody looks whether there is a session by now.
StartCreates(a) ==
  /\ start[a] = "create"
  /\ Create(a) \/ CreateFails(a)

\* launch has reported on the channel ready.
StartAnswers(a) ==
  /\ start[a] = "wait"
  /\ \/ launch[a] \in {"running", "ended"} /\ UNCHANGED cancelled
     \/ launch[a] = "failed" /\ CancelContext({a})
  /\ start' = [start EXCEPT ![a] = "none"]
  /\ UNCHANGED <<sessionVars, lapsed, browser, launch, observer, old>>

\* Marks the session and leaves its browser to come up.
FaultyStartGivesUp(a) ==
  /\ start[a] = "wait"
  /\ \E s \in {"CANCELLED", "FAILED"} : SetStatus(a, s)
  /\ start' = [start EXCEPT ![a] = "none"]
  /\ UNCHANGED <<session, verified, handoff, contextVars, browser, launch, observer, old>>

\* The gateway hung up, or startupLimit + 1 s are over.
StartGivesUp(a) ==
  /\ start[a] = "wait"
  /\ \E s \in {"CANCELLED", "FAILED"} : SetStatus(a, s)
  /\ CancelContext({a})
  /\ start' = [start EXCEPT ![a] = "none"]
  /\ UNCHANGED <<session, verified, handoff, lapsed, browser, launch, observer, old>>

-----------------------------------------------------------------------------
(* The other requests                                                      *)

\* It and Complete let go of the lock and reap at once.
Cancel(a) ==
  /\ session = a
  /\ SetStatus(a, "CANCELLED")
  /\ CancelContext({a})
  /\ UNCHANGED <<session, verified, handoff, lapsed, browser, launch, observer, requestVars>>

\* The deadline has cancelled the context by itself, too.
Status(a) ==
  /\ session = a /\ a \in lapsed /\ ~TerminalStatus(a)
  /\ SetStatus(a, "EXPIRED")
  /\ CancelContext({a})
  /\ UNCHANGED <<session, verified, handoff, lapsed, browser,
                 launch, observer, requestVars>>

Complete(a) ==
  /\ session = a /\ a \in verified
  /\ handoff' = [handoff EXCEPT ![a] = NoAttempt]
  /\ status' = [status EXCEPT ![a] = "COMPLETED"]
  /\ CancelContext({a})
  /\ UNCHANGED <<session, verified, lapsed, browser, launch, observer, requestVars>>

-----------------------------------------------------------------------------
(* The goroutine of launch, the process and its observer                   *)

\* A status the gateway has no name for.
FaultyLaunchFails(a) ==
  /\ launch[a] = "profile"
  /\ SetStatus(a, "CRASHED")
  /\ launch' = [launch EXCEPT ![a] = "failed"]
  /\ browser' = [browser EXCEPT ![a] = "done"]
  /\ UNCHANGED <<session, verified, handoff, contextVars, observer, requestVars>>

\* The profile cannot be made, or the process not started, as with a context
\* that is done.
LaunchFails(a) ==
  /\ launch[a] = "profile"
  /\ SetStatus(a, "FAILED")
  /\ launch' = [launch EXCEPT ![a] = "failed"]
  /\ browser' = [browser EXCEPT ![a] = "done"]
  /\ UNCHANGED <<session, verified, handoff, contextVars, observer, requestVars>>

LaunchStarts(a) ==
  /\ launch[a] = "profile" /\ ~ContextDone(a)
  /\ launch' = [launch EXCEPT ![a] = "ready"]
  /\ browser' = [browser EXCEPT ![a] = "running"]
  /\ UNCHANGED <<sessionVars, contextVars, observer, requestVars>>

\* waitBrowserReady ends with the process, the context or after startupLimit.
NeverReady(a) ==
  /\ launch[a] = "ready"
  /\ CancelContext({a})
  /\ SetStatus(a, "FAILED")
  /\ launch' = [launch EXCEPT ![a] = "failed"]
  /\ UNCHANGED <<session, verified, handoff, lapsed, browser,
                 observer, requestVars>>

\* Does not look whether the login has been cancelled meanwhile.
FaultyReady(a) ==
  /\ launch[a] = "ready" /\ browser[a] = "running"
  /\ status' = IF session = a THEN [status EXCEPT ![a] = "AWAITING_USER_LOGIN"] ELSE status
  /\ launch' = [launch EXCEPT ![a] = "running"]
  /\ observer' = [observer EXCEPT ![a] = "look"]
  /\ UNCHANGED <<session, verified, handoff, contextVars, browser, requestVars>>

\* The bank's page has been there for two seconds.
Ready(a) ==
  /\ launch[a] = "ready" /\ browser[a] = "running"
  /\ SetStatus(a, "AWAITING_USER_LOGIN")
  /\ launch' = [launch EXCEPT ![a] = "running"]
  /\ observer' = [observer EXCEPT ![a] = "look"]
  /\ UNCHANGED <<session, verified, handoff, contextVars, browser, requestVars>>

\* Leaves a browser that was closed before the login for the gateway to wait for.
FaultyBrowserDone(a) ==
  /\ launch[a] = "running" /\ browser[a] = "done"
  /\ launch' = [launch EXCEPT ![a] = "ended"]
  /\ IF a \in lapsed THEN SetStatus(a, "EXPIRED") ELSE UNCHANGED status
  /\ UNCHANGED <<session, verified, handoff, contextVars, browser,
                 observer, requestVars>>

\* What launch makes of the end of the process.
BrowserDone(a) ==
  /\ launch[a] = "running" /\ browser[a] = "done"
  /\ launch' = [launch EXCEPT ![a] = "ended"]
  /\ IF status[a] = "VERIFIED"
       THEN UNCHANGED status
       ELSE SetStatus(a, IF a \in lapsed THEN "EXPIRED" ELSE "FAILED")
  /\ UNCHANGED <<session, verified, handoff, contextVars, browser,
                 observer, requestVars>>

\* It crashes, its window is closed, or it is killed; cmd.Wait has returned
\* and the profile is removed.
BrowserExits(a) ==
  /\ browser[a] = "running"
  /\ browser' = [browser EXCEPT ![a] = "done"]
  /\ UNCHANGED <<sessionVars, contextVars, launch, observer, requestVars>>

\* The session outlives its deadline.
FaultyLapse(a) ==
  /\ launch[a] # "none" /\ a \notin lapsed
  /\ session = a \/ ~Ended(a)
  /\ lapsed' = lapsed \cup {a}
  /\ UNCHANGED <<sessionVars, cancelled, browser, launch, observer, requestVars>>

\* ExpiresAt is the deadline of the context too.  It passes unnoticed when
\* nothing of the session is left.
Lapse(a) ==
  /\ launch[a] # "none" /\ a \notin lapsed
  /\ session = a \/ ~Ended(a)
  /\ lapsed' = lapsed \cup {a}
  /\ CancelContext({a})
  /\ UNCHANGED <<sessionVars, browser, launch, observer, requestVars>>

MayObserve(a) == session = a /\ status[a] \in Observed

\* One tick of runObserverCycle: the browser is read without the lock.
ObserverLooks(a) ==
  /\ observer[a] = "look" /\ MayObserve(a)
  /\ browser[a] = "running"
  /\ \E seen \in Browsers : \E i \in DOMAIN seen.tabs :
       LoginTab(seen, i) /\ Encodable(seen.tabs[i], seen.cookies)
  /\ observer' = [observer EXCEPT ![a] = "write"]
  /\ UNCHANGED <<sessionVars, contextVars, browser, launch, requestVars>>

\* Stores what it saw in the session there is.
FaultyObserverWrites_AnySession(a) ==
  /\ observer[a] = "write"
  /\ observer' = [observer EXCEPT ![a] = "look"]
  /\ IF session # NoAttempt /\ status[session] \in Observed
       THEN /\ handoff' = [handoff EXCEPT ![session] = a]
            /\ verified' = verified \cup {session}
            /\ status' = [status EXCEPT ![session] = "VERIFIED"]
       ELSE UNCHANGED <<handoff, verified, status>>
  /\ UNCHANGED <<session, contextVars, browser, launch, requestVars>>

\* Trusts the look at the status before the pages were read.
FaultyObserverWrites_NoRecheck(a) ==
  /\ observer[a] = "write"
  /\ observer' = [observer EXCEPT ![a] = "look"]
  /\ IF session = a
       THEN /\ handoff' = [handoff EXCEPT ![a] = a]
            /\ verified' = verified \cup {a}
            /\ UNCHANGED status
       ELSE UNCHANGED <<handoff, verified, status>>
  /\ UNCHANGED <<session, contextVars, browser, launch, requestVars>>

\* The session may be another or finished by now.
ObserverWrites(a) ==
  /\ observer[a] = "write"
  /\ observer' = [observer EXCEPT ![a] = "look"]
  /\ IF MayObserve(a)
       THEN /\ handoff' = [handoff EXCEPT ![a] = a]
            /\ verified' = verified \cup {a}
            /\ status' = [status EXCEPT ![a] = "VERIFIED"]
       ELSE UNCHANGED <<handoff, verified, status>>
  /\ UNCHANGED <<session, contextVars, browser, launch, requestVars>>

ObserverStops(a) ==
  /\ observer[a] = "look"
  /\ ContextDone(a) \/ browser[a] = "done" \/ ~MayObserve(a)
  /\ observer' = [observer EXCEPT ![a] = "gone"]
  /\ UNCHANGED <<sessionVars, contextVars, browser, launch, requestVars>>

-----------------------------------------------------------------------------
Request(a) ==
  \/ StartFirst(a) \/ StartOverFinished(a)
  \/ Cancel(a) \/ Status(a) \/ Complete(a)

Serve(a) ==
  \/ StartReaps(a) \/ StartCreates(a) \/ StartAnswers(a) \/ StartGivesUp(a)

Launch(a) == LaunchFails(a) \/ LaunchStarts(a) \/ NeverReady(a) \/ Ready(a) \/ BrowserDone(a)

Observe(a) == ObserverLooks(a) \/ ObserverWrites(a) \/ ObserverStops(a)

Next ==
  \E a \in Attempts :
    \/ Request(a) \/ Serve(a) \/ Launch(a) \/ Observe(a)
    \/ BrowserExits(a) \/ Lapse(a)

Spec == Init /\ [][Next]_vars

\* Goroutines go on, the deadline passes, and a process whose context is done
\* is killed.  Nothing is asked of the administrator or the gateway.
Fairness ==
  \A a \in Attempts :
    /\ WF_vars(Serve(a))
    /\ WF_vars(Launch(a))
    /\ WF_vars(ObserverWrites(a) \/ ObserverStops(a))
    /\ WF_vars(Lapse(a))
    /\ WF_vars(ContextDone(a) /\ BrowserExits(a))

FairSpec == Spec /\ Fairness

-----------------------------------------------------------------------------
(* Properties                                                              *)

\* The cookies kept for an attempt, which the gateway fetches, are those of its
\* own browser: not of one whose observer or process outlived its
\* session (observeLogin, main.go:472; the check by id in runObserverCycle).
HandoffOwn ==
  \A a \in Attempts : handoff[a] \in {a, NoAttempt}

\* Once a login is completed its cookies are forgotten, and the observer, which
\* may have looked before, does not bring them back (complete, main.go:455).
CompletedForgotten ==
  \A a \in Attempts : status[a] = "COMPLETED" => handoff[a] = NoAttempt

\* Cookies are at their own attempt's disposal, and until it is completed
\* (observeLogin, complete).
HandoffKept == HandoffOwn /\ CompletedForgotten

\* Whoever ends a session also stops its browser, or is about to, whichever of
\* the requests and goroutines is first (reapSession, main.go:190).
FinishedIsReaped ==
  \A a \in Attempts :
    TerminalStatus(a) /\ browser[a] = "running"
      => ContextDone(a) \/ \E b \in Attempts : old[b] = a

\* A session whose goroutine has ended is not shown as still in progress: the
\* gateway, which only polls, would wait for it (launch, main.go:386).
NoZombie ==
  session # NoAttempt /\ launch[session] \in {"failed", "ended"}
    => TerminalStatus(session) \/ status[session] = "VERIFIED"

\* A finished session stays finished, although launch, observer and three
\* requests write its status; only completing a verified one overrides it, and
\* a new session under the same id (setStatus, main.go:207).
FinishedStays ==
  [][\A a \in Attempts :
       TerminalStatus(a) => \/ status'[a] = status[a]
                            \/ a \in verified /\ status'[a] = "COMPLETED"
                            \/ session # a /\ session' = a]_vars

\* Every browser started ends, with its goroutines and the request, also one
\* whose session was replaced while start had let go of the lock, which no
\* request can reach any more (start, main.go:233-268).
EverythingEnds == \A a \in Attempts : ~Ended(a) ~> Ended(a)

=============================================================================
