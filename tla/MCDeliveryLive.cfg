CONSTANTS
  Events = {e1, e2}
  Endpoints = {ep1}
  Workers = {w1}
  NoWorker = NoWorker
  NoDelivery = NoDelivery
  Lease = 2
  Backoffs <- MCBackoffs
  MaxRetries = 2
  MaxBusy = 1
  MaxLag = 1
  MaxFaults = 1
  MaxReplays = 1
  MaxAttempts = 6
SPECIFICATION FairSpec
INVARIANTS TriesBounded
PROPERTIES EventuallySettled
