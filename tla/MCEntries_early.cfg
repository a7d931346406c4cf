\* Bound: one line is read.
SPECIFICATION Spec
CONSTANTS
  TimeOf <- MCTimeOf
  StatusOf <- MCStatusOf
  BytesOf <- MCBytesOf
  MillisOf <- MCMillisOf
  NonAscii = {}
  SizeOf <- MCSizeOf
  Lower <- MCLower
  Lines <- MCLines
  Malformed <- EarlyEnds
  Configs <- MCConfigs
  Cuts <- MCCuts
  Copies <- WholeCopies
  Bots <- MCBots
  FamilyOf <- MCFamilyOf
  OctetOf <- MCOctetOf
  AddressesV6 <- MCV6
  CountryOf <- MCCountryOf
  LastMilli = 60000
  Percentile = 95
  MaxReads = 1
  MaxFlushes = 1
INVARIANTS
  MalformedIsSkipped
\* Reads and flushes are bounded, and a refused configuration starts nothing.
CHECK_DEADLOCK FALSE
