----------------------------- MODULE HistoryScan ----------------------------
(***************************************************************************)
(* One scan of the bank's history: the pages it asks for, the rows it      *)
(* reads on them (acb/parser.go) and when it calls itself complete, for a  *)
(* range of days (fetchHistoryRange) and for the realtime poll (pollOnce,  *)
(* both in monitor/monitor.go).  BankMonitor takes its outcome as given.   *)
(*                                                                         *)
(* The bank shows any pages: tables with the header of a history or        *)
(* without, rows that are a transaction, a transaction with an amount that *)
(* cannot be read, a text, a footer or the words for an empty history.     *)
(* Transactions are told apart by their number.  Blank rows and tables     *)
(* that are not a history change nothing and are left out, and so is       *)
(* whatever follows the first history table with a transaction, which is   *)
(* not read.                                                               *)
(***************************************************************************)
EXTENDS HistoryPages

VARIABLES
  kind,       \* a scan of a "range" or a "poll"
  step,       \* it is to "request" a page, among its "tables", in "rows" or "over"
  outcome,    \* "complete", "incomplete" (PARTIAL) or "failed"
  pages, maxPages,
  maxTotal,   \* maxTotalRowsSeen
  items,      \* numbers of allBatchItems (seenTxnNumbers) or allTxns
  parsed,     \* numbers read on this page
  recognized, \* the page has a history table
  empty,      \* emptyHistory: the page says there are no transactions
  bare,       \* the last row was a transaction without a description
  shown,      \* transactions on the rows that were read
  taken       \* those of them whose row was taken for a description

resultVars == <<kind, outcome, pages, maxPages, maxTotal, items>>
tableVars == <<parsed, recognized, empty, bare>>
ghostVars == <<shown, taken>>
scanVars == <<step, resultVars, tableVars, ghostVars>>

ScanTypeOK ==
  /\ kind \in {"range", "poll"}
  /\ step \in {"request", "tables", "rows", "over"}
  /\ outcome \in {"none", "complete", "incomplete", "failed"}
  /\ pages \in Nat /\ maxPages \in Nat /\ maxTotal \in Nat
  /\ items \in SUBSET Numbers /\ parsed \in SUBSET Numbers
  /\ recognized \in BOOLEAN /\ empty \in BOOLEAN /\ bare \in BOOLEAN
  /\ shown \in SUBSET Numbers /\ taken \in SUBSET Numbers

ScanInit ==
  /\ kind \in {"range", "poll"} /\ step = "request" /\ outcome = "none"
  /\ pages = 0 /\ maxPages = (IF kind = "poll" THEN PollPages ELSE RangePages)
  /\ maxTotal = 0 /\ items = {} /\ parsed = {}
  /\ recognized = FALSE /\ empty = FALSE /\ bare = FALSE
  /\ shown = {} /\ taken = {}

-----------------------------------------------------------------------------
\* The pages.

Ends(result) == step' = "over" /\ outcome' = result

\* A page answers and is parsed from its first table.
History ==
  /\ step = "request" /\ pages < maxPages
  /\ step' = "tables" /\ pages' = pages + 1
  /\ parsed' = {} /\ recognized' = FALSE /\ empty' = FALSE /\ bare' = FALSE
  /\ UNCHANGED <<kind, outcome, maxPages, maxTotal, items, ghostVars>>

\* A poll keeps the pages it had before; a scan of a range fails as a whole.
Broken(before) == IF kind = "poll" /\ before > 0 THEN "incomplete" ELSE "failed"

\* The request fails, or the page is not one of the history.
HistoryFails ==
  /\ step = "request" /\ pages < maxPages
  /\ Ends(Broken(pages))
  /\ UNCHANGED <<kind, pages, maxPages, maxTotal, items, tableVars, ghostVars>>

BudgetSpent ==
  /\ step = "request" /\ pages >= maxPages
  /\ Ends("incomplete")
  /\ UNCHANGED <<kind, pages, maxPages, maxTotal, items, tableVars, ghostVars>>

\* The page cannot be parsed, and its rows are dropped.
Reject == Ends(Broken(pages - 1)) /\ UNCHANGED <<kind, pages, maxPages, maxTotal, items>>

-----------------------------------------------------------------------------
\* Its rows.

HistoryHeader ==
  /\ step = "tables" /\ parsed = {}
  /\ step' = "rows" /\ recognized' = TRUE /\ bare' = FALSE
  /\ UNCHANGED <<resultVars, parsed, empty, ghostVars>>

ParseRow(n, described) ==
  /\ step = "rows"
  /\ parsed' = parsed \cup {n} /\ bare' = ~described
  /\ shown' = shown \cup {n}
  /\ UNCHANGED <<step, resultVars, recognized, empty, taken>>

\* After a transaction without a description, any row that is no transaction
\* is taken for it, one with an amount that cannot be read too.
Describe(numbers) ==
  /\ step = "rows" /\ bare
  /\ bare' = FALSE
  /\ shown' = shown \cup numbers /\ taken' = taken \cup numbers
  /\ UNCHANGED <<step, resultVars, parsed, recognized, empty>>

\* Elsewhere it is the words for an empty history, a footer, which changes
\* nothing, or spoils the page.
EmptyMarker ==
  /\ step = "rows" /\ ~bare
  /\ empty' = TRUE
  /\ UNCHANGED <<step, resultVars, parsed, recognized, bare, ghostVars>>

SpoiltRow ==
  /\ step = "rows" /\ ~bare
  /\ Reject
  /\ UNCHANGED <<tableVars, ghostVars>>

TableEnds ==
  /\ step = "rows"
  /\ step' = "tables"
  /\ UNCHANGED <<resultVars, tableVars, ghostVars>>

-----------------------------------------------------------------------------
\* The end of a page.

\* Mutant: a history table without a row is an empty history.
FaultyReadable == parsed # {} \/ recognized

\* A page with no transaction has to say so.
Readable == parsed # {} \/ (recognized /\ empty)

Unreadable ==
  /\ step = "tables" /\ ~Readable
  /\ Reject
  /\ UNCHANGED <<tableVars, ghostVars>>

\* Mutant: a row that is shown again on the next page counts twice.
FaultyFallsShort(total) == total > 0 /\ Cardinality(items) + Cardinality(parsed) < total

\* The rows read so far are fewer than the highest total a page stated.  A
\* poll does not look at totals.
FallsShort(total) == total > 0 /\ Cardinality(items \cup parsed) < total

\* maxTotalRowsSeen after this page.
Total(stated) == IF kind = "range" THEN Higher(stated, maxTotal) ELSE 0

PageEnds(signals) ==
  /\ step = "tables" /\ Readable
  /\ items' = items \cup parsed
  /\ maxTotal' = Total(signals.total)
  /\ maxPages' = (IF maxTotal' > maxTotal THEN Budget(maxTotal', maxPages) ELSE maxPages)
  /\ \/ /\ ~signals.hasNext
        /\ Ends(IF FallsShort(maxTotal') THEN "incomplete" ELSE "complete")
     \/ signals.hasNext /\ ~signals.navigable /\ Ends("incomplete")
     \/ signals.hasNext /\ signals.navigable /\ step' = "request" /\ UNCHANGED outcome
  /\ UNCHANGED <<kind, pages, tableVars, ghostVars>>

-----------------------------------------------------------------------------

ScanNext ==
  \/ History \/ HistoryFails \/ BudgetSpent
  \/ HistoryHeader \/ TableEnds \/ EmptyMarker \/ SpoiltRow \/ Unreadable
  \/ \E n \in Numbers : Describe({n}) \/ \E described \in BOOLEAN : ParseRow(n, described)
  \/ Describe({})
  \/ \E signals \in Signals : PageEnds(signals)

ScanSpec == ScanInit /\ [][ScanNext]_scanVars

-----------------------------------------------------------------------------

\* A scan that calls itself complete has every transaction of the rows it
\* read but those whose row was taken for a description; and when the bank
\* stated a total that counts them, it has those too (monitor.go:243).
CompleteMeansAll ==
  outcome = "complete" =>
    /\ shown \subseteq items \cup taken
    /\ kind = "range" /\ maxTotal >= Cardinality(shown) => items = shown

\* A scan that is complete without a transaction was told so, and was shown
\* none: no page that could not be read passes for an empty history
\* (parser.go:131, classify.go:21).
EmptyIsSaid ==
  outcome = "complete" /\ items = {} => empty /\ shown = {}

\* A complete scan tells the truth, also when it has nothing (monitor.go:150).
ScanHonest == CompleteMeansAll /\ EmptyIsSaid

=============================================================================
