-------------------------------- MODULE Feed --------------------------------
(***************************************************************************)
(* What an open page is promised of the event journal: once it has heard   *)
(* an entry, it hears those that follow in the journal's order, none twice *)
(* and none skipped that the journal still has, or is told that it has     *)
(* lost its place.  Only before its first entry can it be put elsewhere.   *)
(***************************************************************************)
EXTENDS Integers

VARIABLES
  journal,   \* sequence numbers of the entries kept
  last,      \* the highest ever given
  position,  \* up to where the page has heard, -1 before it is told
  heard      \* whether it has heard an entry since it was put there

feedVars == <<journal, last, position, heard>>

Unknown == -1

Init ==
  /\ journal = {} /\ last = 0
  /\ position = Unknown /\ heard = FALSE

Append ==
  /\ last' = last + 1
  /\ journal' = journal \cup {last + 1}
  /\ UNCHANGED <<position, heard>>

\* The oldest entries go.
Expire ==
  /\ \E n \in 1 .. last : journal' = {m \in journal : m > n}
  /\ UNCHANGED <<last, position, heard>>

\* Told where the journal ends (initial_state).
Place ==
  /\ ~heard /\ UNCHANGED heard
  /\ position' \in 0 .. last
  /\ UNCHANGED <<journal, last>>

Hear(n) ==
  /\ position # Unknown /\ position < n
  /\ \A m \in journal : ~(position < m /\ m < n)
  /\ position' = n /\ heard' = TRUE
  /\ UNCHANGED <<journal, last>>

\* Told that it has lost its place (reset_state); it fetches everything anew.
StartOver ==
  /\ position' = Unknown /\ heard' = FALSE
  /\ UNCHANGED <<journal, last>>

Next == Append \/ Expire \/ Place \/ StartOver \/ \E n \in 1 .. last : Hear(n)

Spec == Init /\ [][Next]_feedVars

=============================================================================
