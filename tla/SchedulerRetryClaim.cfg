SPECIFICATION Spec
CONSTANTS
  Order <- MCOrder
  Inline <- MCInline
  Hanging <- MCHanging
  UnavailableAfter = 2
  MaxExponent = 2
  None = None
INVARIANT KeepsRetrying
CHECK_DEADLOCK FALSE
