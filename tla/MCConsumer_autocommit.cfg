CONSTANTS
  Members = {m1, m2}
  Partitions = {0, 1}
  N = 2
  Mode = "autocommit"
  AutoCommit = TRUE
  AutoStore = TRUE
  Cooperative = TRUE
  DeadLetterOn = FALSE
  Interruptible = FALSE
  MaxMessages = 0
  ExitOnEOF = FALSE
  Poison <- NoPoison
  Disruptions = {"signal", "rebalance", "evict", "fatal"}
  MaxDisruptions = 3
  Nobody = Nobody
  NoMessage = NoMessage
SYMMETRY MemberSymmetry
SPECIFICATION Spec
INVARIANT AtRiskIsInHand
PROPERTY RefinesBookmarkOfTouched
