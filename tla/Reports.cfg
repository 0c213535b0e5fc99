SPECIFICATION Spec
CONSTANTS
  Databases <- MCDatabases
  DayRows <- MCDayRows
  Dates <- MCDates
  Requests <- MCRequests
  RecentLists <- MCRecentLists
  StatisticsItems <- MCStatisticsItems
  FirstToday = 20250131
  MaxIngests = 1
  MaxMidnights = 1
  MaxFaults = 1
  MaxExports = 1
INVARIANT ReportsAgree
INVARIANT QueriesAgree
INVARIANT LayoutsAgree
INVARIANT FilesNameTheirReports
INVARIANT FinishedExportCovers
CHECK_DEADLOCK FALSE
