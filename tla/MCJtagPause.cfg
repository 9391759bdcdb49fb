SPECIFICATION JtagSpec
CONSTANTS
  None = None
  Op <- Payloads
  MaxResets = 0
  Calm = TRUE
  DrLen = 3
  Pauses = TRUE
INVARIANT RequestInUpdateDr
