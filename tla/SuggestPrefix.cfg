SPECIFICATION Spec
CONSTANTS
  Databases <- MCDatabases
  DayRows <- MCDayRows
  Dates <- MCDates
  Requests <- MCRequests
  RecentLists <- MCRecentLists
  StatisticsItems <- MCStatisticsItems
  FirstToday = 20250131
  MaxIngests = 0
  MaxMidnights = 0
  MaxFaults = 0
  MaxExports = 1
INVARIANT SuggestsWithPrefix
CHECK_DEADLOCK FALSE
