CONSTANTS
  Credits = {c1}
  Viewers = {v1}
  Runner = Runner
  Free = Free
  DayLength = 2
  TodayTTL = 0
  YesterdayTTL = 1
  OlderTTL = 2
  Window = 1
  MaxScan = 1
  MinClock = 2
  MaxClock = 3
  MaxLogins = 2
  MaxRestarts = 0
  MaxSyncs = 0
SPECIFICATION Spec
INVARIANTS TypeOK CoverageHonest
PROPERTIES PollCoversToday
