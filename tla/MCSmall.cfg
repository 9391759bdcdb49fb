SPECIFICATION SmallSpec
CONSTANTS
  Absent = Absent
  AddrBits = 4
  RamBase = 8
  RamSize = 3
  LoadAddr = 9
  SdramBase = 12
  SdramSize = 2
  Preloads <- MCPreloads
  Jobs <- MCJobs
  Cards <- MCCards
  Probes = 1
  CmdTries = 2
  OpTries = 2
  MaxNoise = 1
  MaxResets = 1
  LineCount = 8
  RowShift = 5
  SweepRows = 4
  Base = 36864
  LanesAt = 8
  IdleAt = 16
  DqLines <- MCDqLines
  RamBits <- MCRamBits
  Options <- MCOptions
  Flow <- MCFlow
  Causes <- MCCauses
  MaxCycles = 6
  Drain = 2
  Ring = 2
  MaxTraps = 3
  TxTime = 6
  NpuTime = 7
  Period = 20
  Passes = 3
  Message <- MCMessage
  WorkTime = 60
  Polls = 20
  Main <- ShippedMains
  Handler <- ShippedHandlers
  PassTimes <- MCPassTimes
  MaxStalls = 3
  MinSamples = 1
  LogMax = 12
  None = None
  NumIn = 3
  NumOut = 1
  Depth = 2
  QosEn = TRUE
  AgeLimit = 4
  AgeMax = 12
  MaxStall = 1
  Body <- MCBody
  Arrivals <- MCArrivals
  QosOf <- LastIsBulk
  Holders = {}
CHECK_DEADLOCK FALSE
INVARIANT LoadsAreSound
INVARIANT HostIsToldTheTruth
INVARIANT VerdictIsRight
INVARIANT ReportIsTrue
INVARIANT HandlersServe
INVARIANT WireIsTheText
INVARIANT WaitBounded
PROPERTY BootsEnd
PROPERTY ServedProgramsPass
