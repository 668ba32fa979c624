----------------------------- MODULE LoginPage -----------------------------
(***************************************************************************)
(* How the controller tells from a browser that somebody has logged in to  *)
(* the bank (cmd/auth-browser/main.go): its cookies, the URL of every tab, *)
(* what the two scripts find in the page, and which tab and form are kept. *)
(* Operators only; AuthBrowser's observer uses them.                       *)
(***************************************************************************)
EXTENDS Naturals, Sequences

Prompts == {"password", "captcha", "otp", "login"}
Entries == {"overview", "welcome", "processor"}
Positive == Entries \cup {"logout", "state"}

Operations == {"", "ibkacctSumProc", "ibkacctDetailProc", "other"}

\* What extractFormFields finds of a form: which fields have a value.
FormType == [session : BOOLEAN, state : BOOLEAN, account : BOOLEAN, processor : BOOLEAN,
             operation : Operations]

UrlType == [bank : BOOLEAN,    \* scheme and host of the login URL
            path : {"", "/login", "/acbib", "elsewhere"},
            login : BOOLEAN]   \* the query names the login operation

TabType == [url : UrlType,
            readable : BOOLEAN,         \* the script can be run in it
            has : SUBSET (Positive \cup Prompts),   \* elements in the DOM
            hidden : SUBSET Prompts,    \* of these, those not displayed
            loginOperation : BOOLEAN,   \* a field names the login operation
            accountNearby : BOOLEAN,    \* an account number outside the forms
            forms : Seq(FormType)]

CookieType == [named : BOOLEAN, valued : BOOLEAN, domain : {"", "bank", "other"}]

BrowserType == [tabs : Seq(TabType), cookies : SUBSET CookieType]

-----------------------------------------------------------------------------
(* URLs, cookies, signals                                                  *)

IsMatchingACBPageURL(url) == url.bank /\ url.path = "/acbib" /\ ~url.login

FilterACBCookies(cookies) == {c \in cookies : c.named /\ c.valued /\ c.domain = "bank"}

\* A prompt counts when it is displayed, any other sign when it is there.
DomSignals(tab) ==
  (tab.has \ tab.hidden) \cup IF tab.loginOperation THEN {"login"} ELSE {}

SeveralPositive(signals) ==
  \E s, t \in signals \cap Positive : s # t

IsAuthenticated(signals) ==
  /\ signals \cap Prompts = {}
  /\ "logout" \in signals
  /\ signals \cap Entries # {}
  /\ SeveralPositive(signals)

AuthenticatedACB(tab, cookies) ==
  /\ IsMatchingACBPageURL(tab.url)
  /\ IsAuthenticated(DomSignals(tab))
  /\ FilterACBCookies(cookies) # {}

-----------------------------------------------------------------------------
(* The form                                                                *)

Points(condition, n) == IF condition THEN n ELSE 0

Score(form) ==
  Points(form.operation = "ibkacctDetailProc", 10) + Points(form.account, 5)
    + Points(form.processor, 3) + Points(form.session, 2) + Points(form.state, 1)

Candidates(forms) == {i \in DOMAIN forms : forms[i].session \/ forms[i].state}

\* The first of the forms with the best score.
BestForm(forms) ==
  CHOOSE i \in Candidates(forms) :
    \A j \in Candidates(forms) :
      \/ Score(forms[j]) < Score(forms[i])
      \/ Score(forms[j]) = Score(forms[i]) /\ i <= j

NoForm == [session |-> FALSE, state |-> FALSE, account |-> FALSE, processor |-> FALSE,
           operation |-> ""]

\* The action of a form found is never empty, see form.action || location.href.
HistoryForm(tab) ==
  IF Candidates(tab.forms) = {}
    THEN NoForm
    ELSE LET form == tab.forms[BestForm(tab.forms)]
         IN  [form EXCEPT !.account = @ \/ tab.accountNearby]

\* The script goes on to the account's page when it can.
ClicksAccount(tab) ==
  LET form == HistoryForm(tab)
  IN  form.operation # "ibkacctDetailProc" \/ ~form.account

ValidHistoryForm(form) ==
  /\ form.session /\ form.state
  /\ form.operation \in {"", "ibkacctDetailProc"}
  /\ form.operation = "ibkacctDetailProc" => form.account

-----------------------------------------------------------------------------
(* The browser                                                             *)

Matching(seen) == {i \in DOMAIN seen.tabs : IsMatchingACBPageURL(seen.tabs[i].url)}

Qualifies(tab, cookies) ==
  tab.readable /\ AuthenticatedACB(tab, cookies) /\ ValidHistoryForm(HistoryForm(tab))

\* The tab at i is the one browserLoginState ends with.
LoginTab(seen, i) ==
  /\ i \in DOMAIN seen.tabs
  /\ Qualifies(seen.tabs[i], seen.cookies)
  /\ \A j \in 1 .. i - 1 : ~Qualifies(seen.tabs[j], seen.cookies)

Last(indices) == CHOOSE i \in indices : \A j \in indices : j <= i

ClassifyWaitingReason(signals, cookies) ==
  IF cookies = {} THEN "cookies"
  ELSE IF signals \cap {"password", "login"} # {} THEN "login form"
  ELSE IF "otp" \in signals THEN "OTP"
  ELSE IF "captcha" \in signals THEN "CAPTCHA"
  ELSE IF "logout" \notin signals THEN "logout element"
  ELSE IF signals \cap Entries = {} THEN "account or welcome"
  ELSE IF ~SeveralPositive(signals) THEN "multiple signals"
  ELSE "user authentication"

\* Why no tab qualifies, read off the last one the script could be run in.
Reason(seen) ==
  LET read == {i \in Matching(seen) : seen.tabs[i].readable}
      signals == IF read = {} THEN {} ELSE DomSignals(seen.tabs[Last(read)])
  IN  IF Matching(seen) = {} THEN "no page"
      ELSE IF IsAuthenticated(signals) THEN "form"
      ELSE ClassifyWaitingReason(signals, FilterACBCookies(seen.cookies))

\* What encodeHandoff refuses, besides a random source that fails.
Encodable(tab, cookies) ==
  IsMatchingACBPageURL(tab.url) /\ FilterACBCookies(cookies) # {}

=============================================================================
