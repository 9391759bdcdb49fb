SPECIFICATION MemSpec
CONSTANTS
  Absent = Absent
  LineCount = 8
  RowShift = 5
  SweepRows = 4
  Base = 36864
  LanesAt = 8
  IdleAt = 16
  DqLines <- MCDqLines
  RamBits <- MCRamBits
CHECK_DEADLOCK FALSE
INVARIANT SwapsAreFound
