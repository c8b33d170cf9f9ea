SPECIFICATION FairSpec
CONSTANTS
  Order <- MCOrder
  Inline <- MCInline
  Hanging <- MCHanging
  UnavailableAfter = 2
  MaxExponent = 2
  None = None
INVARIANTS
  StatusMatchesFailures
  EveryTransitionReported
  StopIsClean
PROPERTIES
  OverdueIsFlagged
  TimedOutHeals
\* After stop() every thread has ended, or hangs.
CHECK_DEADLOCK FALSE
