SPECIFICATION Spec
CONSTANTS
  None = None
  NumIn = 2
  NumOut = 2
  Depth = 2
  QosEn = FALSE
  AgeLimit = 0
  AgeMax = 0
  Body <- MCBody
  Arrivals <- MCArrivals
  Holders = {1}
INVARIANT TypeOK
INVARIANT GrantsStand
PROPERTY LockExcludes
PROPERTY OffersStand
PROPERTY ImplementsChannels
