CONSTANTS
  h1 = h1
  h2 = h2
  a1 = a1
  a2 = a2
  Handlers = {h1, h2}
  Attempts = {a1, a2}
  Monitor = Monitor
  Nobody = Nobody
  NoAttempt = NoAttempt
  MaxActions = 1
  MaxRestarts = 0
SPECIFICATION Spec
SYMMETRY ConnectionSymmetry
INVARIANTS TypeOK StartingHasAttempt MonitoringHasSession PollOwnsSession
PROPERTIES PauseHolds ImplementsSession
