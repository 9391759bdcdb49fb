SPECIFICATION FairSpec
CONSTANTS
  N0 = 32
  TlbSize = 2
  Programs <- AllPrograms
INVARIANT TranslationsHold
INVARIANT ChecksStayQuiet
PROPERTY ShippedProgramsPass
