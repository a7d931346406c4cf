SPECIFICATION Spec
CONSTANTS
  Dates <- MCDates
  MonthOf <- MCMonthOf
  YearOf <- MCYearOf
  Addresses <- MCAddresses
  GroupOf <- MCGroupOf
  Buckets <- MCBuckets
  Logs <- OrderedLogs
  MaxCrashes = 1
  RollbackTo <- NoRollback
INVARIANT
  MonthsRightAfterCrash
