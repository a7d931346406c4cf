\* Bounds: three commits and a rollback between generations, one of them
\* interrupted, within three seconds.
SPECIFICATION Spec
CONSTANTS
  Months <- MCMonths
  Years <- MCYears
  YearOf <- MCYearOf
  Buckets <- MCBuckets
  Trouble <- MCTrouble
  MaxCommits = 3
  MaxNow = 3
  MaxInterrupts = 1
  MaxRollbacks = 1
INVARIANTS
  PagesInv
  PagesFresh
  NothingToDo
\* The clock, the commits and the rollbacks are bounded.
CHECK_DEADLOCK FALSE
