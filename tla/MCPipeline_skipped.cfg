SPECIFICATION Spec
CONSTANTS
  NFiles = 2
  MaxLines = 4
  Stamps <- MCStamps
  MonthOf <- MCMonthOf
  Logs <- TwoStreams
  Appendable <- GrowBoth
  LoaderBatch = 2
  ParserBatch = 2
  ChannelCap = 1
  MaxFaults = 1
INVARIANT
  SkippedAreDone
