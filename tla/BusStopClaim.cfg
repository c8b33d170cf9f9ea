SPECIFICATION FairSpec
CONSTANTS
  Handlers <- MCHandlers
  Types <- MCTypes
  Wants <- MCWants
  Capacity = 2
  MaxEvents = 4
  NoEvent = NoEvent
INVARIANT DrainedMeansDispatched
CHECK_DEADLOCK FALSE
