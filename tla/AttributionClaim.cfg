\* process_network.py: a socket's owner is the most recent holder before it.
SPECIFICATION Spec
CONSTANTS
  Pids <- MCPids
  MaxBirths = 3
  MayHold <- MCMayHold
  Mortal <- MCMortal
  Children <- MCChildren
  Busy <- MCBusy
  Tolerance = 1
  None = None
INVARIANT OwnerIsMostRecent
