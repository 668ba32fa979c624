CONSTANTS
  Handlers = {h1}
  Attempts = {a1, a2}
  Monitor = Monitor
  Nobody = Nobody
  NoAttempt = NoAttempt
  MaxActions = 2
  MaxRestarts = 1
SPECIFICATION FairSpec
PROPERTIES StartingEnds
