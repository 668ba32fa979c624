CONSTANTS
  Credits = {}
  Viewers = {}
  Runner = Runner
  Free = Free
  DayLength = 3
  TodayTTL = 0
  YesterdayTTL = 1
  OlderTTL = 3
  Window = 1
  MaxScan = 1
  MinClock = 3
  MaxClock = 6
  MaxLogins = 1
  MaxRestarts = 1
  MaxSyncs = 2
SPECIFICATION Spec
INVARIANTS CheckpointAccounts SyncNotLost
