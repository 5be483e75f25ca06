SPECIFICATION Spec
CONSTANTS
  SentinelU32 = 100
  SentinelU16 = 2
  MaxBlock = 60
  MAX_EOCD_SCAN = 40
  Limits <- MCLimits
  Codecs <- MCCodecs
  NameOrder <- MCNameOrder
  ReservedDevices = {"aux"}
  StreamSegments = {"x:y"}
  Calls <- MCCalls
  Comments <- MCComments
  Order = "canonical"
  Origin <- MCOrigin
  MaxCalls = 2
  ChunkSize = 64
  HasCompressionStream = TRUE
  SourceContents <- MCSourceContents
INVARIANT TypeOK
INVARIANT ReadsBack
INVARIANT Conforms
INVARIANT ProgressIsExact
INVARIANT SourcesReleased
PROPERTY NoChunkAfterAbort
PROPERTY Settles
CHECK_DEADLOCK FALSE
