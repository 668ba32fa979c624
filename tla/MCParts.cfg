CONSTANTS
  Entries = 3
  Breaks = 2
  Batch = 2
  Buffer = 1
  Tabs = {t1, t2, t3}
  NoTab = NoTab
  Events = {c1}
  Credits = {c1, c2, c3}
  DayLength = 6
  PausedWait = 3
  Revisions = 1
  Least <- MCLeast
  Most <- MCMost
  Continuous <- Realtime
  DefaultMonitorSettings <- MCDefault
  Submitted <- MCSubmitted
  Numbers = {x1, x2}
  Totals = {0, 1, 2, 4}
  RowsPerPage = 2
  RangePages = 2
  PollPages = 2
  MostPages = 3
SPECIFICATION MCSpec
INVARIANTS PartsTypeOK LeadersMeet AnnouncedOnce ReservedIsPending InOnePlace ModeIsScheduled SettingsReach ScanHonest
PROPERTIES NothingSkipped EverythingHeard Settles
CHECK_DEADLOCK FALSE
