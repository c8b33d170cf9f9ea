SPECIFICATION FairSpec
CONSTANTS
  Pids <- MCPids
  MaxBirths = 3
  MayHold <- MCMayHold
  Mortal <- MCMortal
  Children <- MCChildren
  Busy <- MCBusy
  Tolerance = 1
  None = None
INVARIANTS
  IndexAgrees
  DisplacedByPredecessor
  OwnerFoundIfHeld
  CreatorFoundIfHeld
PROPERTIES
  RunningIsRecognised
  NothingLeaks
