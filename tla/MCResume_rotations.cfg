SPECIFICATION Spec
CONSTANTS
  MaxLines = 4
  Inodes = {1, 2, 3, 4}
  HeadSize = 1
  Globs <- AllGlobs
  Trouble = {}
  Targets = {2}
  MaxRollbacks = 1
  MaxCrashes = 1
CHECK_DEADLOCK FALSE
INVARIANTS
  TypeOK
  CountedOnce
  NothingMissed
  RowsFitTogether
PROPERTIES
  ResumedWhereLeftOff
