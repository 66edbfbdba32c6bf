CONSTANTS
  Members = {m1}
  Partitions = {0}
  N = 2
  Mode = "manual"
  AutoCommit = TRUE
  AutoStore = FALSE
  Cooperative = TRUE
  DeadLetterOn = FALSE
  Interruptible = TRUE
  MaxMessages = 0
  ExitOnEOF = FALSE
  Poison <- NoPoison
  Disruptions = {"signal"}
  MaxDisruptions = 1
  Nobody = Nobody
  NoMessage = NoMessage
SPECIFICATION Spec
INVARIANT NothingLost
