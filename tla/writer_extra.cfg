SPECIFICATION Spec
CONSTANTS
  SentinelU32 = 100
  SentinelU16 = 2
  MaxBlock = 24
  MAX_EOCD_SCAN = 40
  Limits <- MCLimits
  Codecs <- MCCodecs
  NameOrder <- MCNameOrder
  ReservedDevices = {"aux"}
  StreamSegments = {"x:y"}
  Calls <- ExtraCalls
  Comments <- MCComments
  Order = "canonical"
  Origin <- MCOrigin
  MaxCalls = 1
  ChunkSize = 64
  HasCompressionStream = TRUE
  SourceContents <- MCSourceContents
INVARIANT OwnReaderAccepts
CHECK_DEADLOCK FALSE
