SPECIFICATION DebugSpec
CONSTANTS
  None = None
  Op <- Payloads
  MaxResets = 2
  Calm = TRUE
  DrLen = 3
  Pauses = FALSE
INVARIANT JtagTypeOK
INVARIANT OneToken
INVARIANT HostIsTold
PROPERTY ImplementsPort
PROPERTY HandshakeEnds
