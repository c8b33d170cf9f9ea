SPECIFICATION ShutdownFairSpec
CONSTANTS
  Handlers <- MCHandlers
  Types <- MCTypes
  Wants <- MCWants
  Capacity = 1
  MaxEvents = 4
  NoEvent = NoEvent
  Storage = "storage"
  QueueCapacity = 2
  BatchSize = 2
INVARIANTS
  DurablePrefix
  EveryEventHasOneFate
  OrderlyShutdownStoresAll
PROPERTIES
  ComesToRest
\* After the process has ended nothing happens.
CHECK_DEADLOCK FALSE
