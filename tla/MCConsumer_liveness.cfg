CONSTANTS
  Members = {m1, m2}
  Partitions = {0}
  N = 3
  Mode = "manual"
  AutoCommit = TRUE
  AutoStore = FALSE
  Cooperative = TRUE
  DeadLetterOn = TRUE
  Interruptible = TRUE
  MaxMessages = 0
  ExitOnEOF = TRUE
  Poison <- LastIsPoison
  Disruptions = {"signal", "crash", "evict", "rebalance", "dlqRefused", "dlqLost", "flushTimeout"}
  MaxDisruptions = 1
  Nobody = Nobody
  NoMessage = NoMessage
SPECIFICATION FairSpec
PROPERTIES
  EventuallyCommitted
  SignalStops
  SignalLeadsOut
