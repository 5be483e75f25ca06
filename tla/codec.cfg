SPECIFICATION Spec
CONSTANTS
  MaxBits = 4
  ByteBits = 2
  ClMaxBits = 3
  LEN_BASE <- MCLEN_BASE
  LEN_EXTRA <- MCLEN_EXTRA
  DIST_BASE <- MCDIST_BASE
  DIST_EXTRA <- MCDIST_EXTRA
  CL_ORDER <- MCCL_ORDER
  FixedLitLens <- MCFixedLit
  FixedDistLens <- MCFixedDist
  HlitBits = 3
  HdistBits = 2
  HclenBits = 2
  ClBits = 2
  LeastHclen = 5
  RepeatBits <- MCRepeatBits
  WSIZE = 8
  TOO_FAR = 4
  BLOCK_SYMS = 24
  Config <- MCConfig
  Hash <- MCHash
  KEEP = 8
  Corpus <- MCCorpus
  Few <- MCFew
  Damageable <- MCDamageable
  Levels = {0, 1, 2}
  NodeHost = TRUE
  HasRequire = FALSE
  HasDecompressionStream = TRUE
  PieceSizes = {1, 3, 20}
INVARIANT RoundTrip
CHECK_DEADLOCK FALSE
