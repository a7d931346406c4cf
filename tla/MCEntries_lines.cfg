\* Bounds: three batches of one or nineteen lines (a rank of 95 % is rounded up),
\* one checkpoint; every cut of every line.
SPECIFICATION Spec
CONSTANTS
  TimeOf <- MCTimeOf
  StatusOf <- MCStatusOf
  BytesOf <- MCBytesOf
  MillisOf <- MCMillisOf
  NonAscii = {}
  SizeOf <- MCSizeOf
  Lower <- MCLower
  Lines <- MCLines
  Malformed <- MCMalformed
  Configs <- MCConfigs
  Cuts <- MCCuts
  Copies <- WholeCopies
  Bots <- MCBots
  FamilyOf <- MCFamilyOf
  OctetOf <- MCOctetOf
  AddressesV6 <- MCV6
  CountryOf <- MCCountryOf
  LastMilli = 60000
  Percentile = 95
  MaxReads = 3
  MaxFlushes = 1
INVARIANTS
  
  TornLines
\* Reads and flushes are bounded, and a refused configuration starts nothing.
CHECK_DEADLOCK FALSE
