CONSTANTS
  Orders = {"canonical", "insertion"}
  MaxSpecs = 4
  MaxEntries = 3
  Poisoned = {2}
SPECIFICATION Spec
INVARIANTS TypeOK NothingLeft CanonicalIsSequential
PROPERTIES SilentAfterwards ToBytesReturns
CHECK_DEADLOCK FALSE
