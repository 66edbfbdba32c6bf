CONSTANTS
  Members = {m1, m2}
  Partitions = {0, 1}
  N = 2
  Mode = "manual"
  AutoCommit = TRUE
  AutoStore = FALSE
  Cooperative = TRUE
  DeadLetterOn = FALSE
  Interruptible = FALSE
  MaxMessages = 0
  ExitOnEOF = FALSE
  Poison <- LastIsPoison
  Disruptions = {"crash", "rebalance", "evict", "commitError", "storeError"}
  MaxDisruptions = 3
  Nobody = Nobody
  NoMessage = NoMessage
SYMMETRY MemberSymmetry
SPECIFICATION Spec
INVARIANTS TypeOK CommittedIsHandled HandledBelow OwnerIsAhead
PROPERTY CommitMonotone RefinesBookmark
