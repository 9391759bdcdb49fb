SPECIFICATION Spec
CONSTANTS
  None = None
  NumHarts = 2
  NumS = 1
  Words = {0}
  DstOf <- RamsAndNothing
  IdxOf <- OneEntry
  Builds <- OnlyScAndStores
  Bypass = FALSE
  Slow = {}
  AgeLimit = 0
  AgeMax = 0
  MaxWrites = 3
INVARIANT FailedScWritesNothing
