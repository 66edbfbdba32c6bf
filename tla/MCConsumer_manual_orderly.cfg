CONSTANTS
  Members = {m1, m2}
  Partitions = {0, 1}
  N = 2
  Mode = "manual"
  AutoCommit = TRUE
  AutoStore = FALSE
  Cooperative = FALSE
  DeadLetterOn = TRUE
  Interruptible = TRUE
  MaxMessages = 0
  ExitOnEOF = TRUE
  Poison <- LastIsPoison
  Disruptions = {"signal", "rebalance"}
  MaxDisruptions = 2
  Nobody = Nobody
  NoMessage = NoMessage
SYMMETRY MemberSymmetry
SPECIFICATION Spec
INVARIANTS
  NothingLost
  HandledOnce
PROPERTY EofExitIsComplete
