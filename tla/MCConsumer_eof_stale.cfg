CONSTANTS
  Members = {m1}
  Partitions = {0, 1}
  N = 2
  Mode = "manual"
  AutoCommit = TRUE
  AutoStore = FALSE
  Cooperative = TRUE
  DeadLetterOn = FALSE
  Interruptible = FALSE
  MaxMessages = 0
  ExitOnEOF = TRUE
  Poison <- NoPoison
  Disruptions = {"evict"}
  MaxDisruptions = 1
  Nobody = Nobody
  NoMessage = NoMessage
SPECIFICATION Spec
PROPERTY EofExitIsComplete
