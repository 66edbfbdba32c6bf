CONSTANTS
  Members = {m1, m2}
  Partitions = {0, 1}
  N = 2
  Mode = "atmostonce"
  AutoCommit = FALSE
  AutoStore = TRUE
  Cooperative = TRUE
  DeadLetterOn = FALSE
  Interruptible = TRUE
  MaxMessages = 2
  ExitOnEOF = FALSE
  Poison <- NoPoison
  Disruptions = {"signal", "rebalance", "crash", "secondSignal", "fatal"}
  MaxDisruptions = 3
  Nobody = Nobody
  NoMessage = NoMessage
SYMMETRY MemberSymmetry
SPECIFICATION Spec
INVARIANTS HandledOnce LossIsBounded
