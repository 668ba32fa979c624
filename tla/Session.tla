------------------------------- MODULE Session -------------------------------
(***************************************************************************)
(* The bank session as those who use it may rely on it, with no logins in  *)
(* progress, no handlers and no gate.  A session is named by its era, the  *)
(* generation of the login that made it.  It lasts from that login until   *)
(* it is given up or found dead; while work is being done with it, no      *)
(* other may begin, so a verdict of that work is on the session it was     *)
(* done with.                                                              *)
(***************************************************************************)
EXTENDS Integers

VARIABLES
  monitored,   \* there is a session that is being monitored
  era,         \* the last session that was begun
  polled       \* sessions that a poll or a catch-up is at work with

vars == <<monitored, era, polled>>

Init ==
  /\ monitored = FALSE
  /\ era \in Int
  /\ polled = {}

Login ==
  /\ ~monitored /\ polled = {}
  /\ monitored' = TRUE
  /\ era' \in Int /\ era' > era
  /\ UNCHANGED polled

\* A pause, a resume, a new login attempt, or a session found dead.
Leave ==
  /\ monitored
  /\ monitored' = FALSE
  /\ UNCHANGED <<era, polled>>

Begin ==
  /\ monitored /\ polled = {}
  /\ polled' = {era}
  /\ UNCHANGED <<monitored, era>>

\* The work ends, perhaps with the verdict that the session is dead.
End ==
  /\ polled = {era}
  /\ polled' = {}
  /\ monitored' \in {monitored, FALSE}
  /\ UNCHANGED era

Next == Login \/ Leave \/ Begin \/ End

Spec == Init /\ [][Next]_vars

=============================================================================
