SPECIFICATION Spec
CONSTANTS
  Reports <- DriveReports
  Operators = {"operator"}
  Matches <- DriveMatches
  Config = {}
  Filters <- DriveFilters
  StaleTicks = 1
  HistoryMax = 3
INVARIANT SuppressedNeverPauses
