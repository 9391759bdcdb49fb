SPECIFICATION Spec
CONSTANTS
  N0 = 32
  TlbSize = 2
  Programs <- Kernels
INVARIANT EntriesAreOfTables
