SPECIFICATION Spec
CONSTANTS
  Visitors <- MCVisitors
  Timeout = 2
  Logs <- OrderedLogs
  Ordered = TRUE
  RollbackTo <- AnyRollback
  MaxCrashes = 1
INVARIANTS
  TypeOK
  VisitsRightUntilRollback
  SplitOnlyAtTarget
  NoVisitMissed
  VisitsInv
