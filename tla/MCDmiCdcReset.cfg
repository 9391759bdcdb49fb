SPECIFICATION Spec
CONSTANTS
  None = None
  Op = {a, b, c}
  MaxResets = 1
  Calm = FALSE
INVARIANT SeenOnce
