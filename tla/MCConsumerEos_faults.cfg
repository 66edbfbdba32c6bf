CONSTANTS
  Members = {m1, m2}
  Partitions = {0, 1}
  N = 2
  TxnEvery = 2
  TxnIds = {id1, id2}
  Cooperative = TRUE
  DeadLetterOn = FALSE
  Interruptible = TRUE
  Poison <- OneIsPoison
  Disruptions = {"signal", "finished", "crash", "rebalance", "evict", "queueFull", "sendError", "lookupError", "commitRejected", "commitTimeout", "beginError", "abortError", "rewindError", "seekError", "txnTimeout", "sharedId"}
  MaxDisruptions = 2
  Nobody = Nobody
  NoMessage = NoMessage
SYMMETRY AllSymmetry
SPECIFICATION Spec
INVARIANTS TypeOK TxnCovers VisibleOnce
PROPERTIES RefinesExactlyOnce SignalLeadsOut
