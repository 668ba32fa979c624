---------------------------- MODULE HistoryPages ----------------------------
(* The bounds of a scan of the bank's history (monitor/monitor.go).         *)
EXTENDS Integers, FiniteSets

CONSTANTS
  Numbers,     \* transaction numbers
  Totals,      \* totals a page may state; 0 for none
  RowsPerPage, \* rows the scan expects on a page, 10
  RangePages,  \* pages a scan of a range starts with, 10 or 20
  PollPages,   \* pages a poll reads, 5
  MostPages    \* pages a stated total may raise the budget to, 50

ASSUME HistoryScanAssumption ==
  /\ IsFiniteSet(Numbers) /\ Totals \subseteq Nat
  /\ {RowsPerPage, RangePages, PollPages, MostPages} \subseteq Nat \ {0}

\* What a page says of the others: whether one follows, whether there is a way
\* to ask for it, and how many rows there are in all.
Signals == [hasNext : BOOLEAN, navigable : BOOLEAN, total : Totals]

Higher(a, b) == IF a > b THEN a ELSE b

\* The pages to read when the bank states total rows, which only ever raises
\* the budget, and never over MostPages.
Budget(total, budget) ==
  LET needed == total \div RowsPerPage + 2
  IN  IF needed <= MostPages THEN Higher(needed, budget) ELSE budget

=============================================================================
