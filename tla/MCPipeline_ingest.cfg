SPECIFICATION RerunSpec
CONSTANTS
  NFiles = 2
  MaxLines = 4
  Stamps <- MCStamps
  MonthOf <- MCMonthOf
  Logs <- AllLogs
  Appendable <- GrowInTurn
  LoaderBatch = 2
  ParserBatch = 2
  ChannelCap = 1
  MaxFaults = 2
INVARIANTS
  TypeOK
  RunsInv
  AtMostOnce
  FaultFreeLosesNothing
  SegmentInMonth
  SkippedAreDone
PROPERTIES
  ClosedMonthsStayClosed
  ImplementsAtMostOnce
  ImplementsExactlyOnce
  RunEnds
  EventuallyCounted
