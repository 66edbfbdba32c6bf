CONSTANTS
  Modes = {"async", "sync", "fireforget", "transactional"}
  Count = 5
  QueueLimit <- Two
  EventsLimit <- TwoOrAll
  TxnSize = 2
  AbortEvery = 2
  Disruptions <- Kinds
  MaxDisruptions = 3
SPECIFICATION FairSpec
CHECK_DEADLOCK FALSE
INVARIANTS
  TypeOK
  FlushIsHonest
  FullQueueLosesNothing
  VerdictBeforeNext
  FireForgetKnowsNothing
  TxnAccounting
PROPERTIES
  AcceptedIsSettled
  RefinesBatches
  RunEnds
