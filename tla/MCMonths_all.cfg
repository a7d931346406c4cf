SPECIFICATION Spec
CONSTANTS
  Dates <- MCDates
  MonthOf <- MCMonthOf
  YearOf <- MCYearOf
  Addresses <- MCAddresses
  GroupOf <- MCGroupOf
  Buckets <- MCBuckets
  Logs <- AllLogs
  MaxCrashes = 1
  RollbackTo <- AnyRollback
INVARIANTS
  TypeOK
  DaysRight
  MonthsRight
  SnapshotsRight
  YearsRight
  AllTimeRight
  TimesRight
  YearsAgree
  LeftMonthsFinalized
  CalendarInv
