CONSTANTS
  Events = {e1, e2}
  Endpoints = {ep1}
  w1 = w1
  w2 = w2
  Workers = {w1, w2}
  NoWorker = NoWorker
  NoDelivery = NoDelivery
  Lease = 2
  Backoffs <- MCBackoffs
  MaxRetries = 2
  MaxBusy = 2
  MaxLag = 1
  MaxFaults = 0
  MaxReplays = 1
  MaxAttempts = 3
SPECIFICATION Spec
SYMMETRY WorkerSymmetry
INVARIANTS TypeOK LeaseProtects OneAtATime PendingHasTriesLeft AttemptNumberFresh
PROPERTIES DeadLetterHasCause ImplementsOutbox
