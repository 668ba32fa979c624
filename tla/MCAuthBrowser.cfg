CONSTANTS
  Attempts = {a1, a2}
  NoAttempt = NoAttempt
  Browsers <- MCBrowsers
SPECIFICATION FairSpec
INVARIANTS TypeOK HandoffKept FinishedIsReaped NoZombie
PROPERTIES FinishedStays EverythingEnds
