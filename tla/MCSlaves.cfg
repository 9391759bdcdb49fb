SPECIFICATION SlaveSpec
CONSTANTS
  None = None
  NumSources = 2
  NumContexts = 2
  BootPriority <- MCPriority
  BootThreshold <- MCThreshold
  BootEnable <- MCEnable
  Settings <- MCSettings
  Droppers = {2}
  Absent = Absent
  Banks = 2
  Rows = 2
  Cols = 8
  PowerUp = 7
  TRefi = 20
  Clocks = {25, 100}
  Words = {1, 4, 9}
  LineWords = {0, 8}
  Lanes <- MCLanes
  MaxWrites = 1
INVARIANT EncoderIsRight
INVARIANT OneOwner
INVARIANT NoneSwallowed
INVARIANT PartIsObeyed
INVARIANT BusIsAnswered
PROPERTY NoneForgotten
PROPERTY RequestsServed
