SPECIFICATION Spec
CONSTANTS
  NFiles = 2
  MaxLines = 4
  Stamps <- MCStamps
  MonthOf <- MCMonthOf
  Logs <- DroppedLogs
  Appendable <- GrowSecond
  LoaderBatch = 2
  ParserBatch = 2
  ChannelCap = 1
  MaxFaults = 1
INVARIANT
  NothingLost
