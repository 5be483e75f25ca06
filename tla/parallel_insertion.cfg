CONSTANTS
  Orders = {"insertion"}
  MaxSpecs = 4
  MaxEntries = 3
  Poisoned = {2}
SPECIFICATION Spec
INVARIANT NeverBytes
CHECK_DEADLOCK FALSE
