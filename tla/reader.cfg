SPECIFICATION Spec
CONSTANTS
  SentinelU32 = 160
  SentinelU16 = 3
  MaxBlock = 60
  MAX_EOCD_SCAN = 52
  TailSlack = 100
  LFH_PREFETCH = 10
  STREAM_CHUNK = 20
  Limits <- MCLimits
  Codecs <- MCCodecs
  NameOrder <- MCNameOrder
  ReservedDevices = {"aux"}
  StreamSegments = {"x:y"}
  Files <- MCFiles
INVARIANT TypeOK
INVARIANT SameAsInMemory
INVARIANT PayloadsDisjoint
INVARIANT ExtractionIsSafe
INVARIANT CanonicalIsFixed
PROPERTY OperationsSettle
CHECK_DEADLOCK FALSE
