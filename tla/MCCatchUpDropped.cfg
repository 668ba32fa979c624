CONSTANTS
  Credits = {c1}
  Viewers = {}
  Runner = Runner
  Free = Free
  DayLength = 2
  TodayTTL = 0
  YesterdayTTL = 1
  OlderTTL = 2
  Window = 1
  MaxScan = 0
  MinClock = 3
  MaxClock = 4
  MaxLogins = 1
  MaxRestarts = 0
  MaxSyncs = 0
SPECIFICATION Spec
INVARIANT RealtimeAfterCatchUp
