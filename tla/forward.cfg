SPECIFICATION Spec
CONSTANTS
  SentinelU32 = 180
  SentinelU16 = 5
  MaxBlock = 60
  MAX_EOCD_SCAN = 52
  Limits <- MCLimits
  Codecs <- MCCodecs
  NameOrder <- MCNameOrder
  ReservedDevices = {"aux"}
  StreamSegments = {"x:y"}
  Files <- MCFiles
  Written <- MCWritten
  Pieces = {26, 80}
INVARIANT TypeOK
INVARIANT FindsEveryEntry
INVARIANT ContentIsExact
PROPERTY Settles
CHECK_DEADLOCK FALSE
