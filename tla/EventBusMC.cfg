SPECIFICATION FairSpec
CONSTANTS
  Handlers <- MCHandlers
  Types <- MCTypes
  Wants <- MCWants
  Capacity = 2
  MaxEvents = 4
  NoEvent = NoEvent
INVARIANTS
  Accounting
  QueueIsNewestWindow
  Served
  CleanStop
PROPERTIES
  EventuallySettled
  FeedSpec
\* A bus that was stopped and has dispatched everything does nothing more.
CHECK_DEADLOCK FALSE
