---------------------------- MODULE MCConnection ----------------------------
(* Values of the constants of Connection for TLC.                          *)
EXTENDS Connection, TLC

CONSTANTS h1, h2, a1, a2

\* Requests are interchangeable, and so are the random ids of attempts.
ConnectionSymmetry == Permutations({h1, h2}) \cup Permutations({a1, a2})

=============================================================================
