CONSTANTS
  Modes = {"sync"}
  Count = 2
  QueueLimit <- Two
  EventsLimit <- Two
  TxnSize = 1
  AbortEvery = 0
  Disruptions = {"signal"}
  MaxDisruptions = 1
SPECIFICATION Spec
CHECK_DEADLOCK FALSE
INVARIANT NeverPanics
