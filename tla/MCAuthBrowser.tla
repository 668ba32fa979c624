---------------------------- MODULE MCAuthBrowser ---------------------------
(* Values of the constants of AuthBrowser for TLC.                         *)
EXTENDS AuthBrowser

DetailForm == [session |-> TRUE, state |-> TRUE, account |-> FALSE, processor |-> TRUE,
               operation |-> "ibkacctDetailProc"]

LoginForm == [url |-> [bank |-> TRUE, path |-> "/acbib", login |-> TRUE],
              readable |-> TRUE, has |-> {"password", "captcha", "login"}, hidden |-> {},
              loginOperation |-> TRUE, accountNearby |-> FALSE, forms |-> <<>>]

AccountTab == [url |-> [bank |-> TRUE, path |-> "/acbib", login |-> FALSE],
               readable |-> TRUE, has |-> {"logout", "overview", "state", "otp"},
               hidden |-> {"otp"}, loginOperation |-> FALSE, accountNearby |-> TRUE,
               forms |-> <<[DetailForm EXCEPT !.operation = "other"], DetailForm>>]

BankCookie == [named |-> TRUE, valued |-> TRUE, domain |-> "bank"]

MCBrowsers == {[tabs |-> <<LoginForm>>, cookies |-> {BankCookie}],
               [tabs |-> <<LoginForm, AccountTab>>, cookies |-> {BankCookie}]}

=============================================================================
