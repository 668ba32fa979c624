------------------------- MODULE AuthBrowserProofs -------------------------
(***************************************************************************)
(* Proofs about AuthBrowser for any number of sessions at once, and about  *)
(* LoginPage for any tabs, forms and cookies.                              *)
(***************************************************************************)
EXTENDS AuthBrowser, TLAPS

USE DEF sessionVars, contextVars, requestVars

-----------------------------------------------------------------------------
(* What the observer takes for a login                                     *)

\* The tab kept shows no prompt, is logged in, and its form can be replayed:
\* encodeHandoff only refuses it for want of randomness (browserLoginState,
\* main.go:933; encodeHandoff, main.go:1086).
THEOREM LoginTabIsLoggedIn ==
  ASSUME NEW seen, NEW i, LoginTab(seen, i)
  PROVE  /\ DomSignals(seen.tabs[i]) \cap Prompts = {}
         /\ "logout" \in DomSignals(seen.tabs[i])
         /\ ValidHistoryForm(HistoryForm(seen.tabs[i]))
         /\ Encodable(seen.tabs[i], seen.cookies)
  BY DEF LoginTab, Qualifies, AuthenticatedACB, IsAuthenticated, Encodable

\* The count of positive signals decides nothing: a logout element and one of
\* the entries are two (isAuthenticated, main.go:625).
LEMMA CountIsRedundant ==
  ASSUME NEW signals
  PROVE  IsAuthenticated(signals) <=> /\ signals \cap Prompts = {}
                                      /\ "logout" \in signals
                                      /\ signals \cap Entries # {}
  BY DEF IsAuthenticated, SeveralPositive, Positive, Entries

\* So two of the reasons for waiting are never given (classifyWaitingReason,
\* main.go:905, and its caller).
THEOREM ReasonIsNeverVague ==
  ASSUME NEW seen
  PROVE  Reason(seen) \notin {"multiple signals", "user authentication"}
<1>. DEFINE read == {i \in Matching(seen) : seen.tabs[i].readable}
            signals == IF read = {} THEN {} ELSE DomSignals(seen.tabs[Last(read)])
<1>1. CASE signals \cap Prompts = {} /\ "logout" \in signals /\ signals \cap Entries # {}
  BY <1>1, CountIsRedundant DEF Reason
<1>2. CASE signals \cap Prompts # {}
  BY <1>2, Zenon DEF Reason, ClassifyWaitingReason, Prompts, IsAuthenticated
<1>3. CASE "logout" \notin signals
  BY <1>3 DEF Reason, ClassifyWaitingReason, IsAuthenticated
<1>4. CASE signals \cap Entries = {}
  BY <1>4 DEF Reason, ClassifyWaitingReason, IsAuthenticated
<1>. QED
  BY <1>1, <1>2, <1>3, <1>4

-----------------------------------------------------------------------------
(* Types                                                                   *)

\* What a start request takes away it reaps before anything else.
OldWhileReaping ==
  \A a \in Attempts : old[a] = NoAttempt <=> start[a] # "reap"

LEMMA InitType == Init => TypeOK
  BY DEF Init, TypeOK, Statuses

LEMMA StepType == TypeOK /\ OldWhileReaping /\ [Next]_vars => TypeOK'
<1>. SUFFICES ASSUME TypeOK, OldWhileReaping, [Next]_vars PROVE TypeOK'
  OBVIOUS
<1>. USE DEF TypeOK, OldWhileReaping, Statuses, Observed, Terminal
<1>1. ASSUME NEW a \in Attempts, StartFirst(a) PROVE TypeOK'
  BY <1>1 DEF StartFirst, Create, CreateFails
<1>2. ASSUME NEW a \in Attempts, StartOverFinished(a) PROVE TypeOK'
  BY <1>2 DEF StartOverFinished
<1>3. ASSUME NEW a \in Attempts, Cancel(a) PROVE TypeOK'
  BY <1>3 DEF Cancel, CancelContext, SetStatus
<1>4. ASSUME NEW a \in Attempts, Status(a) PROVE TypeOK'
  BY <1>4 DEF Status, CancelContext, SetStatus
<1>5. ASSUME NEW a \in Attempts, Complete(a) PROVE TypeOK'
  BY <1>5 DEF Complete, CancelContext
<1>6. ASSUME NEW a \in Attempts, StartReaps(a) PROVE TypeOK'
  BY <1>6 DEF StartReaps, CancelContext
<1>7. ASSUME NEW a \in Attempts, StartCreates(a) PROVE TypeOK'
  BY <1>7 DEF StartCreates, Create, CreateFails
<1>8. ASSUME NEW a \in Attempts, StartAnswers(a) PROVE TypeOK'
  BY <1>8 DEF StartAnswers, CancelContext
<1>9. ASSUME NEW a \in Attempts, StartGivesUp(a) PROVE TypeOK'
  BY <1>9 DEF StartGivesUp, CancelContext, SetStatus
<1>10. ASSUME NEW a \in Attempts, LaunchFails(a) PROVE TypeOK'
  BY <1>10 DEF LaunchFails, SetStatus
<1>11. ASSUME NEW a \in Attempts, LaunchStarts(a) PROVE TypeOK'
  BY <1>11 DEF LaunchStarts
<1>12. ASSUME NEW a \in Attempts, NeverReady(a) PROVE TypeOK'
  BY <1>12 DEF NeverReady, CancelContext, SetStatus
<1>13. ASSUME NEW a \in Attempts, Ready(a) PROVE TypeOK'
  BY <1>13 DEF Ready, SetStatus
<1>14. ASSUME NEW a \in Attempts, BrowserDone(a) PROVE TypeOK'
  BY <1>14 DEF BrowserDone, SetStatus
<1>15. ASSUME NEW a \in Attempts, ObserverLooks(a) PROVE TypeOK'
  BY <1>15 DEF ObserverLooks, MayObserve
<1>16. ASSUME NEW a \in Attempts, ObserverWrites(a) PROVE TypeOK'
  BY <1>16 DEF ObserverWrites, MayObserve
<1>17. ASSUME NEW a \in Attempts, ObserverStops(a) PROVE TypeOK'
  BY <1>17 DEF ObserverStops, MayObserve
<1>18. ASSUME NEW a \in Attempts, BrowserExits(a) PROVE TypeOK'
  BY <1>18 DEF BrowserExits
<1>19. ASSUME NEW a \in Attempts, Lapse(a) PROVE TypeOK'
  BY <1>19 DEF Lapse, CancelContext
<1>20. CASE UNCHANGED vars
  BY <1>20 DEF vars
<1>21. QED
  BY <1>1, <1>2, <1>3, <1>4, <1>5, <1>6, <1>7, <1>8, <1>9, <1>10, <1>11, <1>12, <1>13, <1>14, <1>15, <1>16, <1>17, <1>18, <1>19, <1>20 DEF Next, Request, Serve, Launch, Observe

-----------------------------------------------------------------------------
(* Sessions                                                                *)

\* A start request that has let go of the lock is not the session's yet.
StartingAbsent ==
  \A a \in Attempts : start[a] \in {"reap", "create"} => session # a

\* FinishedIsReaped also for a process that is about to be started.
ReapedBeforehand ==
  \A a \in Attempts :
    TerminalStatus(a) /\ launch[a] = "profile"
      => ContextDone(a) \/ \E b \in Attempts : old[b] = a

IInv ==
  /\ TypeOK
  /\ OldWhileReaping
  /\ StartingAbsent
  /\ ReapedBeforehand
  /\ HandoffOwn
  /\ CompletedForgotten
  /\ FinishedIsReaped
  /\ NoZombie

LEMMA InitIInv == Init => IInv
  BY InitType, AuthBrowserAssumption
     DEF Init, IInv, OldWhileReaping, StartingAbsent, ReapedBeforehand, HandoffOwn, CompletedForgotten,
         FinishedIsReaped, NoZombie, TerminalStatus, Terminal

LEMMA StepOld == (TypeOK /\ OldWhileReaping) /\ [Next]_vars => OldWhileReaping'
<1>. SUFFICES ASSUME (TypeOK /\ OldWhileReaping), [Next]_vars PROVE OldWhileReaping'
  OBVIOUS
<1>. USE AuthBrowserAssumption DEF TypeOK, OldWhileReaping, Fresh, Ended
<1>1. ASSUME NEW a \in Attempts, StartFirst(a) PROVE OldWhileReaping'
  BY <1>1 DEF StartFirst, Create, CreateFails
<1>2. ASSUME NEW a \in Attempts, StartOverFinished(a) PROVE OldWhileReaping'
  BY <1>2 DEF StartOverFinished
<1>3. ASSUME NEW a \in Attempts, Cancel(a) PROVE OldWhileReaping'
  BY <1>3 DEF Cancel, CancelContext, SetStatus
<1>4. ASSUME NEW a \in Attempts, Status(a) PROVE OldWhileReaping'
  BY <1>4 DEF Status, CancelContext, SetStatus
<1>5. ASSUME NEW a \in Attempts, Complete(a) PROVE OldWhileReaping'
  BY <1>5 DEF Complete, CancelContext
<1>6. ASSUME NEW a \in Attempts, StartReaps(a) PROVE OldWhileReaping'
  BY <1>6 DEF StartReaps, CancelContext
<1>7. ASSUME NEW a \in Attempts, StartCreates(a) PROVE OldWhileReaping'
  BY <1>7 DEF StartCreates, Create, CreateFails
<1>8. ASSUME NEW a \in Attempts, StartAnswers(a) PROVE OldWhileReaping'
  BY <1>8 DEF StartAnswers, CancelContext
<1>9. ASSUME NEW a \in Attempts, StartGivesUp(a) PROVE OldWhileReaping'
  BY <1>9 DEF StartGivesUp, CancelContext, SetStatus
<1>10. ASSUME NEW a \in Attempts, LaunchFails(a) PROVE OldWhileReaping'
  BY <1>10 DEF LaunchFails, SetStatus
<1>11. ASSUME NEW a \in Attempts, LaunchStarts(a) PROVE OldWhileReaping'
  BY <1>11 DEF LaunchStarts
<1>12. ASSUME NEW a \in Attempts, NeverReady(a) PROVE OldWhileReaping'
  BY <1>12 DEF NeverReady, CancelContext, SetStatus
<1>13. ASSUME NEW a \in Attempts, Ready(a) PROVE OldWhileReaping'
  BY <1>13 DEF Ready, SetStatus
<1>14. ASSUME NEW a \in Attempts, BrowserDone(a) PROVE OldWhileReaping'
  BY <1>14 DEF BrowserDone, SetStatus
<1>15. ASSUME NEW a \in Attempts, ObserverLooks(a) PROVE OldWhileReaping'
  BY <1>15 DEF ObserverLooks, MayObserve
<1>16. ASSUME NEW a \in Attempts, ObserverWrites(a) PROVE OldWhileReaping'
  BY <1>16 DEF ObserverWrites, MayObserve
<1>17. ASSUME NEW a \in Attempts, ObserverStops(a) PROVE OldWhileReaping'
  BY <1>17 DEF ObserverStops, MayObserve
<1>18. ASSUME NEW a \in Attempts, BrowserExits(a) PROVE OldWhileReaping'
  BY <1>18 DEF BrowserExits
<1>19. ASSUME NEW a \in Attempts, Lapse(a) PROVE OldWhileReaping'
  BY <1>19 DEF Lapse, CancelContext
<1>20. CASE UNCHANGED vars
  BY <1>20 DEF vars
<1>21. QED
  BY <1>1, <1>2, <1>3, <1>4, <1>5, <1>6, <1>7, <1>8, <1>9, <1>10, <1>11, <1>12, <1>13, <1>14, <1>15, <1>16, <1>17, <1>18, <1>19, <1>20 DEF Next, Request, Serve, Launch, Observe

LEMMA StepStartingAbsent == (TypeOK /\ StartingAbsent) /\ [Next]_vars => StartingAbsent'
<1>. SUFFICES ASSUME (TypeOK /\ StartingAbsent), [Next]_vars PROVE StartingAbsent'
  OBVIOUS
<1>. USE AuthBrowserAssumption DEF TypeOK, StartingAbsent, Fresh
<1>1. ASSUME NEW a \in Attempts, StartFirst(a) PROVE StartingAbsent'
  BY <1>1 DEF StartFirst, Create, CreateFails
<1>2. ASSUME NEW a \in Attempts, StartOverFinished(a) PROVE StartingAbsent'
  BY <1>2 DEF StartOverFinished
<1>3. ASSUME NEW a \in Attempts, Cancel(a) PROVE StartingAbsent'
  BY <1>3 DEF Cancel, CancelContext, SetStatus
<1>4. ASSUME NEW a \in Attempts, Status(a) PROVE StartingAbsent'
  BY <1>4 DEF Status, CancelContext, SetStatus
<1>5. ASSUME NEW a \in Attempts, Complete(a) PROVE StartingAbsent'
  BY <1>5 DEF Complete, CancelContext
<1>6. ASSUME NEW a \in Attempts, StartReaps(a) PROVE StartingAbsent'
  BY <1>6 DEF StartReaps, CancelContext
<1>7. ASSUME NEW a \in Attempts, StartCreates(a) PROVE StartingAbsent'
  BY <1>7 DEF StartCreates, Create, CreateFails
<1>8. ASSUME NEW a \in Attempts, StartAnswers(a) PROVE StartingAbsent'
  BY <1>8 DEF StartAnswers, CancelContext
<1>9. ASSUME NEW a \in Attempts, StartGivesUp(a) PROVE StartingAbsent'
  BY <1>9 DEF StartGivesUp, CancelContext, SetStatus
<1>10. ASSUME NEW a \in Attempts, LaunchFails(a) PROVE StartingAbsent'
  BY <1>10 DEF LaunchFails, SetStatus
<1>11. ASSUME NEW a \in Attempts, LaunchStarts(a) PROVE StartingAbsent'
  BY <1>11 DEF LaunchStarts
<1>12. ASSUME NEW a \in Attempts, NeverReady(a) PROVE StartingAbsent'
  BY <1>12 DEF NeverReady, CancelContext, SetStatus
<1>13. ASSUME NEW a \in Attempts, Ready(a) PROVE StartingAbsent'
  BY <1>13 DEF Ready, SetStatus
<1>14. ASSUME NEW a \in Attempts, BrowserDone(a) PROVE StartingAbsent'
  BY <1>14 DEF BrowserDone, SetStatus
<1>15. ASSUME NEW a \in Attempts, ObserverLooks(a) PROVE StartingAbsent'
  BY <1>15 DEF ObserverLooks, MayObserve
<1>16. ASSUME NEW a \in Attempts, ObserverWrites(a) PROVE StartingAbsent'
  BY <1>16 DEF ObserverWrites, MayObserve
<1>17. ASSUME NEW a \in Attempts, ObserverStops(a) PROVE StartingAbsent'
  BY <1>17 DEF ObserverStops, MayObserve
<1>18. ASSUME NEW a \in Attempts, BrowserExits(a) PROVE StartingAbsent'
  BY <1>18 DEF BrowserExits
<1>19. ASSUME NEW a \in Attempts, Lapse(a) PROVE StartingAbsent'
  BY <1>19 DEF Lapse, CancelContext
<1>20. CASE UNCHANGED vars
  BY <1>20 DEF vars
<1>21. QED
  BY <1>1, <1>2, <1>3, <1>4, <1>5, <1>6, <1>7, <1>8, <1>9, <1>10, <1>11, <1>12, <1>13, <1>14, <1>15, <1>16, <1>17, <1>18, <1>19, <1>20 DEF Next, Request, Serve, Launch, Observe

LEMMA StepHandoff == (TypeOK /\ HandoffOwn) /\ [Next]_vars => HandoffOwn'
<1>. SUFFICES ASSUME (TypeOK /\ HandoffOwn), [Next]_vars PROVE HandoffOwn'
  OBVIOUS
<1>. USE AuthBrowserAssumption DEF TypeOK, HandoffOwn
<1>1. ASSUME NEW a \in Attempts, StartFirst(a) PROVE HandoffOwn'
  BY <1>1 DEF StartFirst, Create, CreateFails
<1>2. ASSUME NEW a \in Attempts, StartOverFinished(a) PROVE HandoffOwn'
  BY <1>2 DEF StartOverFinished
<1>3. ASSUME NEW a \in Attempts, Cancel(a) PROVE HandoffOwn'
  BY <1>3 DEF Cancel, CancelContext, SetStatus
<1>4. ASSUME NEW a \in Attempts, Status(a) PROVE HandoffOwn'
  BY <1>4 DEF Status, CancelContext, SetStatus
<1>5. ASSUME NEW a \in Attempts, Complete(a) PROVE HandoffOwn'
  BY <1>5 DEF Complete, CancelContext
<1>6. ASSUME NEW a \in Attempts, StartReaps(a) PROVE HandoffOwn'
  BY <1>6 DEF StartReaps, CancelContext
<1>7. ASSUME NEW a \in Attempts, StartCreates(a) PROVE HandoffOwn'
  BY <1>7 DEF StartCreates, Create, CreateFails
<1>8. ASSUME NEW a \in Attempts, StartAnswers(a) PROVE HandoffOwn'
  BY <1>8 DEF StartAnswers, CancelContext
<1>9. ASSUME NEW a \in Attempts, StartGivesUp(a) PROVE HandoffOwn'
  BY <1>9 DEF StartGivesUp, CancelContext, SetStatus
<1>10. ASSUME NEW a \in Attempts, LaunchFails(a) PROVE HandoffOwn'
  BY <1>10 DEF LaunchFails, SetStatus
<1>11. ASSUME NEW a \in Attempts, LaunchStarts(a) PROVE HandoffOwn'
  BY <1>11 DEF LaunchStarts
<1>12. ASSUME NEW a \in Attempts, NeverReady(a) PROVE HandoffOwn'
  BY <1>12 DEF NeverReady, CancelContext, SetStatus
<1>13. ASSUME NEW a \in Attempts, Ready(a) PROVE HandoffOwn'
  BY <1>13 DEF Ready, SetStatus
<1>14. ASSUME NEW a \in Attempts, BrowserDone(a) PROVE HandoffOwn'
  BY <1>14 DEF BrowserDone, SetStatus
<1>15. ASSUME NEW a \in Attempts, ObserverLooks(a) PROVE HandoffOwn'
  BY <1>15 DEF ObserverLooks, MayObserve
<1>16. ASSUME NEW a \in Attempts, ObserverWrites(a) PROVE HandoffOwn'
  BY <1>16 DEF ObserverWrites, MayObserve
<1>17. ASSUME NEW a \in Attempts, ObserverStops(a) PROVE HandoffOwn'
  BY <1>17 DEF ObserverStops, MayObserve
<1>18. ASSUME NEW a \in Attempts, BrowserExits(a) PROVE HandoffOwn'
  BY <1>18 DEF BrowserExits
<1>19. ASSUME NEW a \in Attempts, Lapse(a) PROVE HandoffOwn'
  BY <1>19 DEF Lapse, CancelContext
<1>20. CASE UNCHANGED vars
  BY <1>20 DEF vars
<1>21. QED
  BY <1>1, <1>2, <1>3, <1>4, <1>5, <1>6, <1>7, <1>8, <1>9, <1>10, <1>11, <1>12, <1>13, <1>14, <1>15, <1>16, <1>17, <1>18, <1>19, <1>20 DEF Next, Request, Serve, Launch, Observe

LEMMA StepCompleted == (TypeOK /\ CompletedForgotten) /\ [Next]_vars => CompletedForgotten'
<1>. SUFFICES ASSUME (TypeOK /\ CompletedForgotten), [Next]_vars PROVE CompletedForgotten'
  OBVIOUS
<1>. USE AuthBrowserAssumption DEF TypeOK, CompletedForgotten, TerminalStatus, Terminal, Observed
<1>1. ASSUME NEW a \in Attempts, StartFirst(a) PROVE CompletedForgotten'
  BY <1>1 DEF StartFirst, Create, CreateFails
<1>2. ASSUME NEW a \in Attempts, StartOverFinished(a) PROVE CompletedForgotten'
  BY <1>2 DEF StartOverFinished
<1>3. ASSUME NEW a \in Attempts, Cancel(a) PROVE CompletedForgotten'
  BY <1>3 DEF Cancel, CancelContext, SetStatus
<1>4. ASSUME NEW a \in Attempts, Status(a) PROVE CompletedForgotten'
  BY <1>4 DEF Status, CancelContext, SetStatus
<1>5. ASSUME NEW a \in Attempts, Complete(a) PROVE CompletedForgotten'
  BY <1>5 DEF Complete, CancelContext
<1>6. ASSUME NEW a \in Attempts, StartReaps(a) PROVE CompletedForgotten'
  BY <1>6 DEF StartReaps, CancelContext
<1>7. ASSUME NEW a \in Attempts, StartCreates(a) PROVE CompletedForgotten'
  BY <1>7 DEF StartCreates, Create, CreateFails
<1>8. ASSUME NEW a \in Attempts, StartAnswers(a) PROVE CompletedForgotten'
  BY <1>8 DEF StartAnswers, CancelContext
<1>9. ASSUME NEW a \in Attempts, StartGivesUp(a) PROVE CompletedForgotten'
  BY <1>9 DEF StartGivesUp, CancelContext, SetStatus
<1>10. ASSUME NEW a \in Attempts, LaunchFails(a) PROVE CompletedForgotten'
  BY <1>10 DEF LaunchFails, SetStatus
<1>11. ASSUME NEW a \in Attempts, LaunchStarts(a) PROVE CompletedForgotten'
  BY <1>11 DEF LaunchStarts
<1>12. ASSUME NEW a \in Attempts, NeverReady(a) PROVE CompletedForgotten'
  BY <1>12 DEF NeverReady, CancelContext, SetStatus
<1>13. ASSUME NEW a \in Attempts, Ready(a) PROVE CompletedForgotten'
  BY <1>13 DEF Ready, SetStatus
<1>14. ASSUME NEW a \in Attempts, BrowserDone(a) PROVE CompletedForgotten'
  BY <1>14 DEF BrowserDone, SetStatus
<1>15. ASSUME NEW a \in Attempts, ObserverLooks(a) PROVE CompletedForgotten'
  BY <1>15 DEF ObserverLooks, MayObserve
<1>16. ASSUME NEW a \in Attempts, ObserverWrites(a) PROVE CompletedForgotten'
  BY <1>16 DEF ObserverWrites, MayObserve
<1>17. ASSUME NEW a \in Attempts, ObserverStops(a) PROVE CompletedForgotten'
  BY <1>17 DEF ObserverStops, MayObserve
<1>18. ASSUME NEW a \in Attempts, BrowserExits(a) PROVE CompletedForgotten'
  BY <1>18 DEF BrowserExits
<1>19. ASSUME NEW a \in Attempts, Lapse(a) PROVE CompletedForgotten'
  BY <1>19 DEF Lapse, CancelContext
<1>20. CASE UNCHANGED vars
  BY <1>20 DEF vars
<1>21. QED
  BY <1>1, <1>2, <1>3, <1>4, <1>5, <1>6, <1>7, <1>8, <1>9, <1>10, <1>11, <1>12, <1>13, <1>14, <1>15, <1>16, <1>17, <1>18, <1>19, <1>20 DEF Next, Request, Serve, Launch, Observe

LEMMA StepReaped == (TypeOK /\ OldWhileReaping /\ ReapedBeforehand /\ FinishedIsReaped) /\ [Next]_vars => (ReapedBeforehand /\ FinishedIsReaped)'
<1>. SUFFICES ASSUME (TypeOK /\ OldWhileReaping /\ ReapedBeforehand /\ FinishedIsReaped), [Next]_vars PROVE (ReapedBeforehand /\ FinishedIsReaped)'
  OBVIOUS
<1>. USE AuthBrowserAssumption DEF TypeOK, ReapedBeforehand, FinishedIsReaped, TerminalStatus, Terminal, ContextDone, Observed, Fresh, Ended, OldWhileReaping
<1>1. ASSUME NEW a \in Attempts, StartFirst(a) PROVE (ReapedBeforehand /\ FinishedIsReaped)'
  BY <1>1 DEF StartFirst, Create, CreateFails
<1>2. ASSUME NEW a \in Attempts, StartOverFinished(a) PROVE (ReapedBeforehand /\ FinishedIsReaped)'
  BY <1>2 DEF StartOverFinished
<1>3. ASSUME NEW a \in Attempts, Cancel(a) PROVE (ReapedBeforehand /\ FinishedIsReaped)'
  BY <1>3 DEF Cancel, CancelContext, SetStatus
<1>4. ASSUME NEW a \in Attempts, Status(a) PROVE (ReapedBeforehand /\ FinishedIsReaped)'
  BY <1>4 DEF Status, CancelContext, SetStatus
<1>5. ASSUME NEW a \in Attempts, Complete(a) PROVE (ReapedBeforehand /\ FinishedIsReaped)'
  BY <1>5 DEF Complete, CancelContext
<1>6. ASSUME NEW a \in Attempts, StartReaps(a) PROVE (ReapedBeforehand /\ FinishedIsReaped)'
  BY <1>6 DEF StartReaps, CancelContext
<1>7. ASSUME NEW a \in Attempts, StartCreates(a) PROVE (ReapedBeforehand /\ FinishedIsReaped)'
  BY <1>7 DEF StartCreates, Create, CreateFails
<1>8. ASSUME NEW a \in Attempts, StartAnswers(a) PROVE (ReapedBeforehand /\ FinishedIsReaped)'
  BY <1>8 DEF StartAnswers, CancelContext
<1>9. ASSUME NEW a \in Attempts, StartGivesUp(a) PROVE (ReapedBeforehand /\ FinishedIsReaped)'
  BY <1>9 DEF StartGivesUp, CancelContext, SetStatus
<1>10. ASSUME NEW a \in Attempts, LaunchFails(a) PROVE (ReapedBeforehand /\ FinishedIsReaped)'
  BY <1>10 DEF LaunchFails, SetStatus
<1>11. ASSUME NEW a \in Attempts, LaunchStarts(a) PROVE (ReapedBeforehand /\ FinishedIsReaped)'
  BY <1>11 DEF LaunchStarts
<1>12. ASSUME NEW a \in Attempts, NeverReady(a) PROVE (ReapedBeforehand /\ FinishedIsReaped)'
  BY <1>12 DEF NeverReady, CancelContext, SetStatus
<1>13. ASSUME NEW a \in Attempts, Ready(a) PROVE (ReapedBeforehand /\ FinishedIsReaped)'
  BY <1>13 DEF Ready, SetStatus
<1>14. ASSUME NEW a \in Attempts, BrowserDone(a) PROVE (ReapedBeforehand /\ FinishedIsReaped)'
  BY <1>14 DEF BrowserDone, SetStatus
<1>15. ASSUME NEW a \in Attempts, ObserverLooks(a) PROVE (ReapedBeforehand /\ FinishedIsReaped)'
  BY <1>15 DEF ObserverLooks, MayObserve
<1>16. ASSUME NEW a \in Attempts, ObserverWrites(a) PROVE (ReapedBeforehand /\ FinishedIsReaped)'
  BY <1>16 DEF ObserverWrites, MayObserve
<1>17. ASSUME NEW a \in Attempts, ObserverStops(a) PROVE (ReapedBeforehand /\ FinishedIsReaped)'
  BY <1>17 DEF ObserverStops, MayObserve
<1>18. ASSUME NEW a \in Attempts, BrowserExits(a) PROVE (ReapedBeforehand /\ FinishedIsReaped)'
  BY <1>18 DEF BrowserExits
<1>19. ASSUME NEW a \in Attempts, Lapse(a) PROVE (ReapedBeforehand /\ FinishedIsReaped)'
  BY <1>19 DEF Lapse, CancelContext
<1>20. CASE UNCHANGED vars
  BY <1>20 DEF vars
<1>21. QED
  BY <1>1, <1>2, <1>3, <1>4, <1>5, <1>6, <1>7, <1>8, <1>9, <1>10, <1>11, <1>12, <1>13, <1>14, <1>15, <1>16, <1>17, <1>18, <1>19, <1>20 DEF Next, Request, Serve, Launch, Observe

LEMMA StepZombie == (TypeOK /\ NoZombie) /\ [Next]_vars => NoZombie'
<1>. SUFFICES ASSUME (TypeOK /\ NoZombie), [Next]_vars PROVE NoZombie'
  OBVIOUS
<1>. USE AuthBrowserAssumption DEF TypeOK, NoZombie, TerminalStatus, Terminal, Observed, Fresh, Ended
<1>1. ASSUME NEW a \in Attempts, StartFirst(a) PROVE NoZombie'
  BY <1>1 DEF StartFirst, Create, CreateFails
<1>2. ASSUME NEW a \in Attempts, StartOverFinished(a) PROVE NoZombie'
  BY <1>2 DEF StartOverFinished
<1>3. ASSUME NEW a \in Attempts, Cancel(a) PROVE NoZombie'
  BY <1>3 DEF Cancel, CancelContext, SetStatus
<1>4. ASSUME NEW a \in Attempts, Status(a) PROVE NoZombie'
  BY <1>4 DEF Status, CancelContext, SetStatus
<1>5. ASSUME NEW a \in Attempts, Complete(a) PROVE NoZombie'
  BY <1>5 DEF Complete, CancelContext
<1>6. ASSUME NEW a \in Attempts, StartReaps(a) PROVE NoZombie'
  BY <1>6 DEF StartReaps, CancelContext
<1>7. ASSUME NEW a \in Attempts, StartCreates(a) PROVE NoZombie'
  BY <1>7 DEF StartCreates, Create, CreateFails
<1>8. ASSUME NEW a \in Attempts, StartAnswers(a) PROVE NoZombie'
  BY <1>8 DEF StartAnswers, CancelContext
<1>9. ASSUME NEW a \in Attempts, StartGivesUp(a) PROVE NoZombie'
  BY <1>9 DEF StartGivesUp, CancelContext, SetStatus
<1>10. ASSUME NEW a \in Attempts, LaunchFails(a) PROVE NoZombie'
  BY <1>10 DEF LaunchFails, SetStatus
<1>11. ASSUME NEW a \in Attempts, LaunchStarts(a) PROVE NoZombie'
  BY <1>11 DEF LaunchStarts
<1>12. ASSUME NEW a \in Attempts, NeverReady(a) PROVE NoZombie'
  BY <1>12 DEF NeverReady, CancelContext, SetStatus
<1>13. ASSUME NEW a \in Attempts, Ready(a) PROVE NoZombie'
  BY <1>13 DEF Ready, SetStatus
<1>14. ASSUME NEW a \in Attempts, BrowserDone(a) PROVE NoZombie'
  BY <1>14 DEF BrowserDone, SetStatus
<1>15. ASSUME NEW a \in Attempts, ObserverLooks(a) PROVE NoZombie'
  BY <1>15 DEF ObserverLooks, MayObserve
<1>16. ASSUME NEW a \in Attempts, ObserverWrites(a) PROVE NoZombie'
  BY <1>16 DEF ObserverWrites, MayObserve
<1>17. ASSUME NEW a \in Attempts, ObserverStops(a) PROVE NoZombie'
  BY <1>17 DEF ObserverStops, MayObserve
<1>18. ASSUME NEW a \in Attempts, BrowserExits(a) PROVE NoZombie'
  BY <1>18 DEF BrowserExits
<1>19. ASSUME NEW a \in Attempts, Lapse(a) PROVE NoZombie'
  BY <1>19 DEF Lapse, CancelContext
<1>20. CASE UNCHANGED vars
  BY <1>20 DEF vars
<1>21. QED
  BY <1>1, <1>2, <1>3, <1>4, <1>5, <1>6, <1>7, <1>8, <1>9, <1>10, <1>11, <1>12, <1>13, <1>14, <1>15, <1>16, <1>17, <1>18, <1>19, <1>20 DEF Next, Request, Serve, Launch, Observe

LEMMA StepIInv == IInv /\ [Next]_vars => IInv'
  BY StepType, StepOld, StepStartingAbsent, StepHandoff, StepCompleted, StepReaped, StepZombie DEF IInv

LEMMA Inductive == Spec => []IInv
  BY InitIInv, StepIInv, PTL DEF Spec

\* The status names are those the gateway knows, and every goroutine is where
\* the code can be (main.go:190-590).
THEOREM AuthBrowserTypes == Spec => []TypeOK
  BY Inductive, PTL DEF IInv

\* Cookies never change owner (runObserverCycle, main.go:580).
THEOREM HandoffIsOwn == Spec => []HandoffOwn
  BY Inductive, PTL DEF IInv

\* The observer does not bring back the cookies of a completed login
\* (complete, main.go:463).
THEOREM CompletedIsForgotten == Spec => []CompletedForgotten
  BY Inductive, PTL DEF IInv

\* Both: an attempt has its own browser's cookies, until it is completed.
THEOREM HandoffIsKept == Spec => []HandoffKept
<1>1. HandoffOwn /\ CompletedForgotten => HandoffKept
  BY DEF HandoffKept
<1>. QED BY HandoffIsOwn, CompletedIsForgotten, <1>1, PTL

\* No ended session keeps its browser (reapSession, main.go:190).
THEOREM FinishedAreReaped == Spec => []FinishedIsReaped
  BY Inductive, PTL DEF IInv

\* The status the gateway polls does not stay in progress after the goroutine
\* of launch is over (main.go:386).
THEOREM NoZombies == Spec => []NoZombie
  BY Inductive, PTL DEF IInv

LEMMA StepFinished ==
  ASSUME IInv, [Next]_vars, NEW x \in Attempts, TerminalStatus(x)
  PROVE  \/ status'[x] = status[x]
         \/ x \in verified /\ status'[x] = "COMPLETED"
         \/ session # x /\ session' = x
<1>. DEFINE Stays == \/ status'[x] = status[x]
                     \/ x \in verified /\ status'[x] = "COMPLETED"
                     \/ session # x /\ session' = x
<1>. USE DEF IInv, TypeOK, TerminalStatus, Terminal, Observed, StartingAbsent, Fresh
<1>1. ASSUME NEW a \in Attempts, StartFirst(a) PROVE Stays
  BY <1>1 DEF StartFirst, Create, CreateFails
<1>2. ASSUME NEW a \in Attempts, StartOverFinished(a) PROVE Stays
  BY <1>2 DEF StartOverFinished
<1>3. ASSUME NEW a \in Attempts, Cancel(a) PROVE Stays
  BY <1>3 DEF Cancel, CancelContext, SetStatus
<1>4. ASSUME NEW a \in Attempts, Status(a) PROVE Stays
  BY <1>4 DEF Status, CancelContext, SetStatus
<1>5. ASSUME NEW a \in Attempts, Complete(a) PROVE Stays
  BY <1>5 DEF Complete, CancelContext
<1>6. ASSUME NEW a \in Attempts, StartReaps(a) PROVE Stays
  BY <1>6 DEF StartReaps, CancelContext
<1>7. ASSUME NEW a \in Attempts, StartCreates(a) PROVE Stays
  BY <1>7 DEF StartCreates, Create, CreateFails
<1>8. ASSUME NEW a \in Attempts, StartAnswers(a) PROVE Stays
  BY <1>8 DEF StartAnswers, CancelContext
<1>9. ASSUME NEW a \in Attempts, StartGivesUp(a) PROVE Stays
  BY <1>9 DEF StartGivesUp, CancelContext, SetStatus
<1>10. ASSUME NEW a \in Attempts, LaunchFails(a) PROVE Stays
  BY <1>10 DEF LaunchFails, SetStatus
<1>11. ASSUME NEW a \in Attempts, LaunchStarts(a) PROVE Stays
  BY <1>11 DEF LaunchStarts
<1>12. ASSUME NEW a \in Attempts, NeverReady(a) PROVE Stays
  BY <1>12 DEF NeverReady, CancelContext, SetStatus
<1>13. ASSUME NEW a \in Attempts, Ready(a) PROVE Stays
  BY <1>13 DEF Ready, SetStatus
<1>14. ASSUME NEW a \in Attempts, BrowserDone(a) PROVE Stays
  BY <1>14 DEF BrowserDone, SetStatus
<1>15. ASSUME NEW a \in Attempts, ObserverLooks(a) PROVE Stays
  BY <1>15 DEF ObserverLooks, MayObserve
<1>16. ASSUME NEW a \in Attempts, ObserverWrites(a) PROVE Stays
  BY <1>16 DEF ObserverWrites, MayObserve
<1>17. ASSUME NEW a \in Attempts, ObserverStops(a) PROVE Stays
  BY <1>17 DEF ObserverStops, MayObserve
<1>18. ASSUME NEW a \in Attempts, BrowserExits(a) PROVE Stays
  BY <1>18 DEF BrowserExits
<1>19. ASSUME NEW a \in Attempts, Lapse(a) PROVE Stays
  BY <1>19 DEF Lapse, CancelContext
<1>20. CASE UNCHANGED vars
  BY <1>20 DEF vars
<1>21. QED
  BY <1>1, <1>2, <1>3, <1>4, <1>5, <1>6, <1>7, <1>8, <1>9, <1>10, <1>11, <1>12, <1>13, <1>14, <1>15, <1>16, <1>17, <1>18, <1>19, <1>20 DEF Next, Request, Serve, Launch, Observe

\* A finished session stays finished (setStatus, main.go:207).
THEOREM FinishedStaysFinished == Spec => FinishedStays
<1>1. IInv /\ [Next]_vars => [\A a \in Attempts :
       TerminalStatus(a) => \/ status'[a] = status[a]
                            \/ a \in verified /\ status'[a] = "COMPLETED"
                            \/ session # a /\ session' = a]_vars
  BY StepFinished
<1>. QED
  BY <1>1, Inductive, PTL DEF Spec, FinishedStays

=============================================================================
