SPECIFICATION UncachedFair
CONSTANTS
  None = None
  NumHarts = 2
  NumS = 2
  Words = {0, 1, 2}
  DstOf <- RamsAndNothing
  IdxOf <- OneEntry
  Builds <- ShippedBuilds
  Bypass = FALSE
  Slow = {}
  AgeLimit = 0
  AgeMax = 0
  MaxWrites = 2
INVARIANT AtomicsHold
INVARIANT AcksAreTimely
INVARIANT ReadsAreFresh
INVARIANT OneOutstanding
PROPERTY UncachedComplete
