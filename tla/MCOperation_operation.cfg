SPECIFICATION Spec
CHECK_DEADLOCK FALSE
CONSTANTS
  Webs = {"web"}
  Children = {"match"}
  MaxFaults = 2
  MaxCrashes = 2
  FirstToday = {1, 6}
  ForwardDays = 8
  KeptDays = 6
  DayBudget = 3
  RecheckDays = 3
  RecentWindow = 2
  LongtailPerRun = 2
  StuckSets = {{}, {2}}
  CycleDays = 4
  Window = 2
  Regions = {1, 2}
  Overlapping = {3}
  Quota = 7
  SyncMax = 5
  FutureMax = 1
  CurrentMax = 1
  HistoryReserve = 1
  HistoryDays = 2
  Batch = 1
  MaxPool = 2
  MaxUpsets = 2
  Parts = {"boot", "forward", "cycle"}
INVARIANT BootLeavesStorageUsable
INVARIANT RereadsAreEarned
INVARIANT RequestsAreCovered
PROPERTY OldStorageUntouched
PROPERTY WebComesUp
PROPERTY CompleteIsCurrent
PROPERTY Progress
PROPERTY CycleIsTrue
