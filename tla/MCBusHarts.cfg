SPECIFICATION UncachedFair
CONSTANTS
  None = None
  NumHarts = 2
  NumS = 1
  Words = {0, 1}
  DstOf <- RamAndNothing
  BurstSlaves = {0}
  IdxOf <- OneEntry
  Builds <- UncachedAndCached
  Slow = {}
  MaxWrites = 2
  MaxExt = 1
INVARIANT BusTypeOK
INVARIANT AtomicsHold
INVARIANT FailedScWritesNothing
INVARIANT TransfersHold
INVARIANT CachesAreCurrent
PROPERTY UncachedComplete
