SPECIFICATION Spec
CONSTANTS
  MaxLines = 4
  Inodes = {1, 2, 3, 4}
  HeadSize = 1
  Globs <- OnlyAll
  Trouble = {"copy again"}
  Targets = {}
  MaxRollbacks = 0
  MaxCrashes = 0
CHECK_DEADLOCK FALSE
INVARIANT
  CountedOnce
