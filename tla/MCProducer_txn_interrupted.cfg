CONSTANTS
  Modes = {"transactional"}
  Count = 2
  QueueLimit <- Two
  EventsLimit <- Two
  TxnSize = 2
  AbortEvery = 0
  Disruptions = {"signal"}
  MaxDisruptions = 1
SPECIFICATION Spec
CHECK_DEADLOCK FALSE
PROPERTY InterruptAborts
