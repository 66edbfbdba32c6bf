--------------------------- MODULE ProducerProofs ---------------------------
(***************************************************************************)
(* Theorems about Producer, for any number of messages, any limits of the  *)
(* queues, any transaction size and any kinds and number of disruptions.   *)
(***************************************************************************)
EXTENDS Producer, FiniteSetTheorems, TLAPS

USE ProducerAssumption DEF Nothing

(***************************************************************************)
(* Type correctness.                                                       *)
(***************************************************************************)
\* Where the main goroutine can be, by mode and by transaction.
Stages ==
  /\ pc \in {"endTxn", "preAbort", "abort"} => txn = "open"
  /\ txn = "open" \/ pc = "init" => mode = "transactional"
  /\ pc = "await" => mode = "sync"
  /\ pc \in {"flush", "close", "drain", "reported"} => txn = "none"
  /\ pc = "panicked" => mode = "sync"

\* Each message is generated before it is produced and accepted before it is
\* reported, once.
Counts ==
  /\ accepted \subseteq 1 .. seq
  /\ produced <= seq
  /\ pc = "produce" => produced < seq /\ txnStart < seq /\ seq \notin accepted
  /\ inHand # Nothing => Drains /\ inHand \in accepted
  /\ txnStart <= seq

Sound == TypeOK /\ Stages /\ Counts

LEMMA CountInterval == IsFiniteSet(1 .. Count) /\ Cardinality(1 .. Count) = Count
<1>1. Count \in Int /\ 1 \in Int /\ ~(1 > Count) /\ Count - 1 + 1 = Count
  OBVIOUS
<1> QED
  BY <1>1, FS_Interval

LEMMA MessagesFinite ==
  ASSUME NEW S, S \subseteq 1 .. Count
  PROVE  IsFiniteSet(S) /\ Cardinality(S) \in 0 .. Count
<1>2. IsFiniteSet(S) /\ Cardinality(S) <= Count
  BY CountInterval, FS_Subset
<1>3. Cardinality(S) \in Nat
  BY <1>2, FS_CardinalityType
<1> QED
  BY <1>2, <1>3

LEMMA ReportType ==
  ASSUME TypeOK, NEW msgs \in SUBSET local,
         NEW verdict \in {"delivered", "failed", "purged"}, Report(msgs, verdict)
  PROVE  /\ accepted' \subseteq Messages /\ local' \subseteq accepted'
         /\ reports' \subseteq accepted'
         /\ fate' \in [Messages -> {"none", "delivered", "failed", "purged"}]
  BY DEF Report, TypeOK

LEMMA StagesStep ==
  ASSUME TypeOK, Stages, [Next]_vars
  PROVE  Stages'
<1>1. ASSUME Main PROVE Stages'
  <2>1. CASE Generate
    BY <2>1 DEF Generate, LoopGoesOn, BatchEnd, client, score, txnState, rest, TypeOK,
       Stages
  <2>2. CASE LeaveLoop
    BY <2>2 DEF LeaveLoop, LoopGoesOn, client, score, txnState, rest, TypeOK, Stages
  <2>3. CASE Accept
    BY <2>3 DEF Accept, Produced, client, score, txnState, rest, TypeOK, Stages
  <2>4. CASE GiveUp
    BY <2>4 DEF GiveUp, Produced, GivesUp, client, score, txnState, rest, TypeOK, Stages
  <2>5. CASE StuckFull
    BY <2>5 DEF StuckFull, Drains, client, score, txnState, rest, TypeOK, Stages
  <2>6. CASE AwaitReport
    BY <2>6 DEF AwaitReport, ReportIsIn, client, score, txnState, rest, TypeOK, Stages
  <2>7. CASE AwaitInterrupted
    BY <2>7 DEF AwaitInterrupted, client, score, txnState, rest, TypeOK, Stages
  <2>8. CASE InitTransactions
    BY <2>8 DEF InitTransactions, Fails, Disrupt, client, score, txnState, rest, TypeOK,
       Stages
  <2>9. CASE BeginTransaction
    BY <2>9 DEF BeginTransaction, LoopGoesOn, Fails, Disrupt, client, score, txnState,
       rest, TypeOK, Stages
  <2>10. CASE BatchIsFull
    BY <2>10 DEF BatchIsFull, LoopGoesOn, BatchEnd, client, score, txnState, rest,
       TypeOK, Stages
  <2>11. CASE Commit
    BY <2>11 DEF Commit, CanCommit, AllSent, CloseTxn, Batch, client, score, txnState,
       rest, TypeOK, Stages
  <2>12. CASE CommitRejected
    BY <2>12 DEF CommitRejected, AllSent, Disrupt, client, score, txnState, rest,
       TypeOK, Stages
  <2>13. CASE FlushBeforeAbort
    BY <2>13 DEF FlushBeforeAbort, Disrupt, client, score, txnState, rest, TypeOK,
       Stages
  <2>14. CASE Abort
    BY <2>14 DEF Abort, Report, CloseTxn, Batch, Fails, Disrupt, client, score,
       txnState, rest, TypeOK, Stages
  <2>15. CASE Flush
    BY <2>15 DEF Flush, Disrupt, client, score, txnState, rest, TypeOK, Stages
  <2>16. CASE Close
    BY <2>16 DEF Close, client, score, txnState, rest, TypeOK, Stages
  <2>17. CASE ReportScore
    BY <2>17 DEF ReportScore, Drained, client, score, txnState, rest, TypeOK, Stages
  <2> QED
    BY <1>1, <2>1, <2>2, <2>3, <2>4, <2>5, <2>6, <2>7, <2>8, <2>9, <2>10, <2>11, <2>12,
       <2>13, <2>14, <2>15, <2>16, <2>17 DEF Main
<1>2. CASE ProduceFails
  BY <1>2 DEF ProduceFails, Fails, Disrupt, client, score, txnState, rest, TypeOK,
     Stages
<1>3. CASE CommitFails
  BY <1>3 DEF CommitFails, Fails, Disrupt, CloseTxn, CanCommit, AllSent, client, score,
     txnState, rest, TypeOK, Stages
<1>4. CASE Signal
  BY <1>4 DEF Signal, Disrupt, client, score, txnState, rest, TypeOK, Stages
<1>5. CASE DrainTake
  BY <1>5 DEF DrainTake, Drains, client, score, txnState, rest, TypeOK, Stages
<1>6. CASE DrainRecord
  BY <1>6 DEF DrainRecord, client, score, txnState, rest, TypeOK, Stages
<1>7. ASSUME NEW msg \in Messages, Deliver(msg) PROVE Stages'
  BY <1>7 DEF Deliver, Report, Disrupt, client, score, txnState, rest, TypeOK, Stages
<1>8. CASE UNCHANGED vars
  BY <1>8 DEF vars, client, score, txnState, rest, TypeOK, Stages
<1> QED
  BY <1>1, <1>2, <1>3, <1>4, <1>5, <1>6, <1>7, <1>8 DEF Next

LEMMA CountsStep ==
  ASSUME Sound, [Next]_vars
  PROVE  Counts'
<1>1. ASSUME Main PROVE Counts'
  <2>1. CASE Generate
    BY <2>1 DEF Generate, LoopGoesOn, BatchEnd, client, score, txnState, rest, Sound,
       TypeOK, Stages, Counts, Messages, Drains
  <2>2. CASE LeaveLoop
    BY <2>2 DEF LeaveLoop, LoopGoesOn, client, score, txnState, rest, Sound, TypeOK,
       Stages, Counts, Messages, Drains
  <2>3. CASE Accept
    BY <2>3 DEF Accept, Produced, client, score, txnState, rest, Sound, TypeOK, Stages,
       Counts, Messages, Drains
  <2>4. CASE GiveUp
    BY <2>4 DEF GiveUp, Produced, GivesUp, client, score, txnState, rest, Sound, TypeOK,
       Stages, Counts, Messages, Drains
  <2>5. CASE StuckFull
    BY <2>5 DEF StuckFull, Drains, client, score, txnState, rest, Sound, TypeOK, Stages,
       Counts, Messages
  <2>6. CASE AwaitReport
    BY <2>6 DEF AwaitReport, ReportIsIn, client, score, txnState, rest, Sound, TypeOK,
       Stages, Counts, Messages, Drains
  <2>7. CASE AwaitInterrupted
    BY <2>7 DEF AwaitInterrupted, client, score, txnState, rest, Sound, TypeOK, Stages,
       Counts, Messages, Drains
  <2>8. CASE InitTransactions
    BY <2>8 DEF InitTransactions, Fails, Disrupt, client, score, txnState, rest, Sound,
       TypeOK, Stages, Counts, Messages, Drains
  <2>9. CASE BeginTransaction
    BY <2>9 DEF BeginTransaction, LoopGoesOn, Fails, Disrupt, client, score, txnState,
       rest, Sound, TypeOK, Stages, Counts, Messages, Drains
  <2>10. CASE BatchIsFull
    BY <2>10 DEF BatchIsFull, LoopGoesOn, BatchEnd, client, score, txnState, rest,
       Sound, TypeOK, Stages, Counts, Messages, Drains
  <2>11. CASE Commit
    BY <2>11 DEF Commit, CanCommit, AllSent, CloseTxn, Batch, client, score, txnState,
       rest, Sound, TypeOK, Stages, Counts, Messages, Drains
  <2>12. CASE CommitRejected
    BY <2>12 DEF CommitRejected, AllSent, Disrupt, client, score, txnState, rest, Sound,
       TypeOK, Stages, Counts, Messages, Drains
  <2>13. CASE FlushBeforeAbort
    BY <2>13 DEF FlushBeforeAbort, Disrupt, client, score, txnState, rest, Sound,
       TypeOK, Stages, Counts, Messages, Drains
  <2>14. CASE Abort
    BY <2>14 DEF Abort, Report, CloseTxn, Batch, Fails, Disrupt, client, score,
       txnState, rest, Sound, TypeOK, Stages, Counts, Messages, Drains
  <2>15. CASE Flush
    BY <2>15 DEF Flush, Disrupt, client, score, txnState, rest, Sound, TypeOK, Stages,
       Counts, Messages, Drains
  <2>16. CASE Close
    BY <2>16 DEF Close, client, score, txnState, rest, Sound, TypeOK, Stages, Counts,
       Messages, Drains
  <2>17. CASE ReportScore
    BY <2>17 DEF ReportScore, Drained, client, score, txnState, rest, Sound, TypeOK,
       Stages, Counts, Messages, Drains
  <2> QED
    BY <1>1, <2>1, <2>2, <2>3, <2>4, <2>5, <2>6, <2>7, <2>8, <2>9, <2>10, <2>11, <2>12,
       <2>13, <2>14, <2>15, <2>16, <2>17 DEF Main
<1>2. CASE ProduceFails
  BY <1>2 DEF ProduceFails, Fails, Disrupt, client, score, txnState, rest, Sound,
     TypeOK, Stages, Counts, Messages, Drains
<1>3. CASE CommitFails
  BY <1>3 DEF CommitFails, Fails, Disrupt, CloseTxn, CanCommit, AllSent, client, score,
     txnState, rest, Sound, TypeOK, Stages, Counts, Messages, Drains
<1>4. CASE Signal
  BY <1>4 DEF Signal, Disrupt, client, score, txnState, rest, Sound, TypeOK, Stages,
     Counts, Messages, Drains
<1>5. CASE DrainTake
  BY <1>5 DEF DrainTake, Drains, client, score, txnState, rest, Sound, TypeOK, Stages,
     Counts, Messages
<1>6. CASE DrainRecord
  BY <1>6 DEF DrainRecord, client, score, txnState, rest, Sound, TypeOK, Stages, Counts,
     Messages, Drains
<1>7. ASSUME NEW msg \in Messages, Deliver(msg) PROVE Counts'
  BY <1>7 DEF Deliver, Report, Disrupt, client, score, txnState, rest, Sound, TypeOK,
     Stages, Counts, Messages, Drains
<1>8. CASE UNCHANGED vars
  BY <1>8 DEF vars, client, score, txnState, rest, Sound, TypeOK, Stages, Counts,
     Messages, Drains
<1> QED
  BY <1>1, <1>2, <1>3, <1>4, <1>5, <1>6, <1>7, <1>8 DEF Next

LEMMA TypeStep ==
  ASSUME Sound, [Next]_vars
  PROVE  TypeOK'
<1>1. ASSUME Main PROVE TypeOK'
  <2>1. CASE Generate
    BY <2>1 DEF Generate, LoopGoesOn, BatchEnd, client, score, txnState, rest, Sound,
       TypeOK, Stages, Counts, Messages, Locations, Drains
  <2>2. CASE LeaveLoop
    BY <2>2 DEF LeaveLoop, LoopGoesOn, client, score, txnState, rest, Sound, TypeOK,
       Stages, Counts, Messages, Locations, Drains
  <2>3. CASE Accept
    BY <2>3 DEF Accept, Produced, client, score, txnState, rest, Sound, TypeOK, Stages,
       Counts, Messages, Locations, Drains
  <2>4. CASE GiveUp
    BY <2>4 DEF GiveUp, Produced, GivesUp, client, score, txnState, rest, Sound, TypeOK,
       Stages, Counts, Messages, Locations, Drains
  <2>5. CASE StuckFull
    BY <2>5 DEF StuckFull, Drains, client, score, txnState, rest, Sound, TypeOK, Stages,
       Counts, Messages, Locations
  <2>6. CASE AwaitReport
    BY <2>6 DEF AwaitReport, ReportIsIn, client, score, txnState, rest, Sound, TypeOK,
       Stages, Counts, Messages, Locations, Drains
  <2>7. CASE AwaitInterrupted
    BY <2>7 DEF AwaitInterrupted, client, score, txnState, rest, Sound, TypeOK, Stages,
       Counts, Messages, Locations, Drains
  <2>8. CASE InitTransactions
    BY <2>8 DEF InitTransactions, Fails, Disrupt, client, score, txnState, rest, Sound,
       TypeOK, Stages, Counts, Messages, Locations, Drains
  <2>9. CASE BeginTransaction
    <3>1. txnNo' \in 0 .. AbortEvery
      <4>1. CASE AbortEvery > 0 /\ txnNo' = (txnNo + 1) % AbortEvery
        BY <4>1 DEF Sound, TypeOK
      <4> QED
        BY <2>9, <4>1 DEF BeginTransaction, Sound, TypeOK
    <3> QED
      BY <2>9, <3>1 DEF BeginTransaction, Fails, Disrupt, client, score, rest, Sound, TypeOK,
         Locations
  <2>10. CASE BatchIsFull
    BY <2>10 DEF BatchIsFull, LoopGoesOn, BatchEnd, client, score, txnState, rest,
       Sound, TypeOK, Stages, Counts, Messages, Locations, Drains
  <2>11. CASE Commit
    <3>1. seq - txnStart \in Nat
      BY DEF Sound, TypeOK, Counts
    <3>2. committed' \in Nat /\ visible' \subseteq Messages /\ txnMsgs' \subseteq Messages
      BY <2>11, <3>1 DEF Commit, CloseTxn, Batch, Readable, Sound, TypeOK
    <3> QED
      BY <2>11, <3>2 DEF Commit, CloseTxn, client, score, rest, Sound, TypeOK, Locations
  <2>12. CASE CommitRejected
    BY <2>12 DEF CommitRejected, AllSent, Disrupt, client, score, txnState, rest, Sound,
       TypeOK, Stages, Counts, Messages, Locations, Drains
  <2>13. CASE FlushBeforeAbort
    BY <2>13 DEF FlushBeforeAbort, Disrupt, client, score, txnState, rest, Sound,
       TypeOK, Stages, Counts, Messages, Locations, Drains
  <2>14. CASE Abort
    <3>1. seq - txnStart \in Nat
      BY DEF Sound, TypeOK, Counts
    <3>2. aborted' \in Nat /\ txnMsgs' \subseteq Messages
      BY <2>14, <3>1 DEF Abort, CloseTxn, Batch, Sound, TypeOK
    <3>3. /\ accepted' \subseteq Messages /\ local' \subseteq accepted'
          /\ reports' \subseteq accepted'
          /\ fate' \in [Messages -> {"none", "delivered", "failed", "purged"}]
      BY <2>14, ReportType DEF Abort, client, Sound, TypeOK
    <3>4. /\ pc' \in Locations /\ budget' \in 0 .. MaxDisruptions
          /\ txn' \in {"none", "open"} /\ UNCHANGED <<txnNo, txnStart, accepted>>
      BY <2>14 DEF Abort, Report, CloseTxn, Fails, Disrupt, client, Sound, TypeOK, Locations
    <3> QED
      BY <2>14, <3>2, <3>3, <3>4 DEF Abort, score, rest, Sound, TypeOK
  <2>15. CASE Flush
    <3>1. Unflushed \subseteq 1 .. Count
      BY DEF Unflushed, Sound, TypeOK, Messages
    <3>2. remaining' \in 0 .. Count
      BY <2>15, <3>1, MessagesFinite DEF Flush
    <3> QED
      BY <2>15, <3>2 DEF Flush, Disrupt, client, score, txnState, Sound, TypeOK, Locations
  <2>16. CASE Close
    BY <2>16 DEF Close, client, score, txnState, rest, Sound, TypeOK, Stages, Counts,
       Messages, Locations, Drains
  <2>17. CASE ReportScore
    BY <2>17 DEF ReportScore, Drained, client, score, txnState, rest, Sound, TypeOK,
       Stages, Counts, Messages, Locations, Drains
  <2> QED
    BY <1>1, <2>1, <2>2, <2>3, <2>4, <2>5, <2>6, <2>7, <2>8, <2>9, <2>10, <2>11, <2>12,
       <2>13, <2>14, <2>15, <2>16, <2>17 DEF Main
<1>2. CASE ProduceFails
  BY <1>2 DEF ProduceFails, Fails, Disrupt, client, score, txnState, rest, Sound,
     TypeOK, Stages, Counts, Messages, Locations, Drains
<1>3. CASE CommitFails
  <2>1. visible' \subseteq Messages /\ txnMsgs' \subseteq Messages
    BY <1>3 DEF CommitFails, CloseTxn, Readable, txnState, Sound, TypeOK
  <2> QED
    BY <1>3, <2>1 DEF CommitFails, Fails, Disrupt, CloseTxn, client, score, txnState, rest,
       Sound, TypeOK, Locations
<1>4. CASE Signal
  BY <1>4 DEF Signal, Disrupt, client, score, txnState, rest, Sound, TypeOK, Stages,
     Counts, Messages, Locations, Drains
<1>5. CASE DrainTake
  BY <1>5 DEF DrainTake, Drains, client, score, txnState, rest, Sound, TypeOK, Stages,
     Counts, Messages, Locations
<1>6. CASE DrainRecord
  BY <1>6 DEF DrainRecord, client, score, txnState, rest, Sound, TypeOK, Stages, Counts,
     Messages, Locations, Drains
<1>7. ASSUME NEW msg \in Messages, Deliver(msg) PROVE TypeOK'
  <2>1. /\ accepted' \subseteq Messages /\ local' \subseteq accepted'
        /\ reports' \subseteq accepted'
        /\ fate' \in [Messages -> {"none", "delivered", "failed", "purged"}]
    BY <1>7, ReportType DEF Deliver, Sound, TypeOK
  <2>2. pc' \in Locations /\ budget' \in 0 .. MaxDisruptions
    BY <1>7 DEF Deliver, Disrupt, Sound, TypeOK, Locations
  <2>3. accepted' = accepted
    BY <1>7 DEF Deliver, Report
  <2> QED
    BY <1>7, <2>1, <2>2, <2>3 DEF Deliver, score, txnState, rest, Sound, TypeOK
<1>8. CASE UNCHANGED vars
  BY <1>8 DEF vars, client, score, txnState, rest, Sound, TypeOK, Stages, Counts,
     Messages, Locations, Drains
<1> QED
  BY <1>1, <1>2, <1>3, <1>4, <1>5, <1>6, <1>7, <1>8 DEF Next

LEMMA SoundInit == Init => Sound
<1>1. Init => TypeOK
  <2>1. {0} \subseteq 0 .. Count /\ 0 \in 0 .. AbortEvery /\ 0 \in Nat
    OBVIOUS
  <2>2. MaxDisruptions \in 0 .. MaxDisruptions
    OBVIOUS
  <2> QED
    BY <2>1, <2>2 DEF Init, TypeOK, Locations
<1>2. Init => Stages /\ Counts
  BY DEF Init, Stages, Counts
<1> QED
  BY <1>1, <1>2 DEF Sound

LEMMA SoundStep == Sound /\ [Next]_vars => Sound'
  BY TypeStep, StagesStep, CountsStep DEF Sound

\* Every variable keeps its type in every mode.
THEOREM TypeCorrect == Spec => []TypeOK
<1>1. Sound => TypeOK
  BY DEF Sound
<1> QED
  BY <1>1, SoundInit, SoundStep, PTL DEF Spec

(***************************************************************************)
(* produceWithBackpressure, runSync and fireforget.                        *)
(***************************************************************************)
LEMMA FullQueueStep ==
  ASSUME Sound, FullQueueLosesNothing, [Next]_vars
  PROVE  FullQueueLosesNothing'
<1>1. ASSUME Main PROVE FullQueueLosesNothing'
  <2>1. CASE Generate
    BY <2>1 DEF Generate, LoopGoesOn, BatchEnd, client, score, txnState, rest,
       FullQueueLosesNothing
  <2>2. CASE LeaveLoop
    BY <2>2 DEF LeaveLoop, LoopGoesOn, client, score, txnState, rest,
       FullQueueLosesNothing
  <2>3. CASE Accept
    <3>1. seq \notin accepted /\ IsFiniteSet(accepted)
      BY <2>3, MessagesFinite DEF Accept, Sound, TypeOK, Counts, Messages
    <3>2. Cardinality(accepted \union {seq}) = Cardinality(accepted) + 1
      BY <3>1, FS_AddElement
    <3> QED
      BY <2>3, <3>2 DEF Accept, Produced, rest, FullQueueLosesNothing
  <2>4. CASE GiveUp
    BY <2>4 DEF GiveUp, Produced, GivesUp, client, score, txnState, rest,
       FullQueueLosesNothing
  <2>5. CASE StuckFull
    BY <2>5 DEF StuckFull, Drains, client, score, txnState, rest, FullQueueLosesNothing
  <2>6. CASE AwaitReport
    BY <2>6 DEF AwaitReport, ReportIsIn, client, score, txnState, rest,
       FullQueueLosesNothing
  <2>7. CASE AwaitInterrupted
    BY <2>7 DEF AwaitInterrupted, client, score, txnState, rest, FullQueueLosesNothing
  <2>8. CASE InitTransactions
    BY <2>8 DEF InitTransactions, Fails, Disrupt, client, score, txnState, rest,
       FullQueueLosesNothing
  <2>9. CASE BeginTransaction
    BY <2>9 DEF BeginTransaction, LoopGoesOn, Fails, Disrupt, client, score, txnState,
       rest, FullQueueLosesNothing
  <2>10. CASE BatchIsFull
    BY <2>10 DEF BatchIsFull, LoopGoesOn, BatchEnd, client, score, txnState, rest,
       FullQueueLosesNothing
  <2>11. CASE Commit
    BY <2>11 DEF Commit, CanCommit, AllSent, CloseTxn, Batch, client, score, txnState,
       rest, FullQueueLosesNothing
  <2>12. CASE CommitRejected
    BY <2>12 DEF CommitRejected, AllSent, Disrupt, client, score, txnState, rest,
       FullQueueLosesNothing
  <2>13. CASE FlushBeforeAbort
    BY <2>13 DEF FlushBeforeAbort, Disrupt, client, score, txnState, rest,
       FullQueueLosesNothing
  <2>14. CASE Abort
    BY <2>14 DEF Abort, Report, CloseTxn, Batch, Fails, Disrupt, client, score,
       txnState, rest, FullQueueLosesNothing
  <2>15. CASE Flush
    BY <2>15 DEF Flush, client, FullQueueLosesNothing
  <2>16. CASE Close
    BY <2>16 DEF Close, client, score, txnState, rest, FullQueueLosesNothing
  <2>17. CASE ReportScore
    BY <2>17 DEF ReportScore, Drained, client, score, txnState, rest,
       FullQueueLosesNothing
  <2> QED
    BY <1>1, <2>1, <2>2, <2>3, <2>4, <2>5, <2>6, <2>7, <2>8, <2>9, <2>10, <2>11, <2>12,
       <2>13, <2>14, <2>15, <2>16, <2>17 DEF Main
<1>2. CASE ProduceFails
  BY <1>2 DEF ProduceFails, Fails, Disrupt, client, score, txnState, rest,
     FullQueueLosesNothing
<1>3. CASE CommitFails
  BY <1>3 DEF CommitFails, Fails, Disrupt, CloseTxn, CanCommit, AllSent, client, score,
     txnState, rest, FullQueueLosesNothing
<1>4. CASE Signal
  BY <1>4 DEF Signal, Disrupt, client, score, txnState, rest, FullQueueLosesNothing
<1>5. CASE DrainTake
  BY <1>5 DEF DrainTake, Drains, client, score, txnState, rest, FullQueueLosesNothing
<1>6. CASE DrainRecord
  BY <1>6 DEF DrainRecord, client, score, txnState, rest, FullQueueLosesNothing
<1>7. ASSUME NEW msg \in Messages, Deliver(msg) PROVE FullQueueLosesNothing'
  BY <1>7 DEF Deliver, Report, Disrupt, client, score, txnState, rest,
     FullQueueLosesNothing
<1>8. CASE UNCHANGED vars
  BY <1>8 DEF vars, client, score, txnState, rest, FullQueueLosesNothing
<1> QED
  BY <1>1, <1>2, <1>3, <1>4, <1>5, <1>6, <1>7, <1>8 DEF Next

\* As long as nobody interrupts the run every message counted as produced was
\* accepted, however long the local queue stayed full.
THEOREM FullQueueIsWaitedFor == Spec => []FullQueueLosesNothing
<1>1. Init => FullQueueLosesNothing
  BY FS_EmptySet DEF Init, FullQueueLosesNothing
<1>2. Sound /\ FullQueueLosesNothing /\ [Next]_vars => FullQueueLosesNothing'
  BY FullQueueStep
<1> QED
  BY <1>1, <1>2, SoundInit, SoundStep, PTL DEF Spec

\* While runSync waits, the message it waits for is the only one without a verdict, and
\* after it only a message whose wait was interrupted has none.
OneInFlight ==
  mode = "sync" =>
    /\ pc \in {"next", "produce"} => accepted \subseteq counted
    /\ pc = "await" => accepted \ {seq} \subseteq counted
    /\ pc \in {"flush", "close", "drain", "reported"} =>
         accepted \subseteq counted \union (IF ctxDone THEN {seq} ELSE {})

LEMMA OneInFlightStep ==
  ASSUME Sound, OneInFlight, [Next]_vars
  PROVE  OneInFlight'
<1>1. ASSUME Main PROVE OneInFlight'
  <2>1. CASE Generate
    BY <2>1 DEF Generate, LoopGoesOn, BatchEnd, client, score, txnState, rest, Sound,
       TypeOK, Stages, OneInFlight
  <2>2. CASE LeaveLoop
    BY <2>2 DEF LeaveLoop, LoopGoesOn, client, score, txnState, rest, Sound, TypeOK,
       Stages, OneInFlight
  <2>3. CASE Accept
    BY <2>3 DEF Accept, Produced, client, score, txnState, rest, Sound, TypeOK, Stages,
       OneInFlight
  <2>4. CASE GiveUp
    BY <2>4 DEF GiveUp, Produced, GivesUp, client, score, txnState, rest, Sound, TypeOK,
       Stages, OneInFlight
  <2>5. CASE StuckFull
    BY <2>5 DEF StuckFull, Drains, client, score, txnState, rest, Sound, TypeOK, Stages,
       OneInFlight
  <2>6. CASE AwaitReport
    BY <2>6 DEF AwaitReport, ReportIsIn, client, score, txnState, rest, Sound, TypeOK,
       Stages, OneInFlight
  <2>7. CASE AwaitInterrupted
    BY <2>7 DEF AwaitInterrupted, client, score, txnState, rest, Sound, TypeOK, Stages,
       OneInFlight
  <2>8. CASE InitTransactions
    BY <2>8 DEF InitTransactions, Fails, Disrupt, client, score, txnState, rest, Sound,
       TypeOK, Stages, OneInFlight
  <2>9. CASE BeginTransaction
    BY <2>9 DEF BeginTransaction, LoopGoesOn, Fails, Disrupt, client, score, txnState,
       rest, Sound, TypeOK, Stages, OneInFlight
  <2>10. CASE BatchIsFull
    BY <2>10 DEF BatchIsFull, LoopGoesOn, BatchEnd, client, score, txnState, rest,
       Sound, TypeOK, Stages, OneInFlight
  <2>11. CASE Commit
    BY <2>11 DEF Commit, CanCommit, AllSent, CloseTxn, Batch, client, score, txnState,
       rest, Sound, TypeOK, Stages, OneInFlight
  <2>12. CASE CommitRejected
    BY <2>12 DEF CommitRejected, AllSent, Disrupt, client, score, txnState, rest, Sound,
       TypeOK, Stages, OneInFlight
  <2>13. CASE FlushBeforeAbort
    BY <2>13 DEF FlushBeforeAbort, Disrupt, client, score, txnState, rest, Sound,
       TypeOK, Stages, OneInFlight
  <2>14. CASE Abort
    BY <2>14 DEF Abort, Report, CloseTxn, Batch, Fails, Disrupt, client, score,
       txnState, rest, Sound, TypeOK, Stages, OneInFlight
  <2>15. CASE Flush
    BY <2>15 DEF Flush, Disrupt, client, score, txnState, rest, Sound, TypeOK, Stages,
       OneInFlight
  <2>16. CASE Close
    BY <2>16 DEF Close, client, score, txnState, rest, Sound, TypeOK, Stages,
       OneInFlight
  <2>17. CASE ReportScore
    BY <2>17 DEF ReportScore, Drained, client, score, txnState, rest, Sound, TypeOK,
       Stages, OneInFlight
  <2> QED
    BY <1>1, <2>1, <2>2, <2>3, <2>4, <2>5, <2>6, <2>7, <2>8, <2>9, <2>10, <2>11, <2>12,
       <2>13, <2>14, <2>15, <2>16, <2>17 DEF Main
<1>2. CASE ProduceFails
  BY <1>2 DEF ProduceFails, Fails, Disrupt, client, score, txnState, rest, Sound,
     TypeOK, Stages, OneInFlight
<1>3. CASE CommitFails
  BY <1>3 DEF CommitFails, Fails, Disrupt, CloseTxn, CanCommit, AllSent, client, score,
     txnState, rest, Sound, TypeOK, Stages, OneInFlight
<1>4. CASE Signal
  BY <1>4 DEF Signal, Disrupt, client, score, txnState, rest, Sound, TypeOK, Stages,
     OneInFlight
<1>5. CASE DrainTake
  BY <1>5 DEF DrainTake, Drains, client, score, txnState, rest, Sound, TypeOK, Stages,
     OneInFlight
<1>6. CASE DrainRecord
  BY <1>6 DEF DrainRecord, client, score, txnState, rest, Sound, TypeOK, Stages,
     OneInFlight
<1>7. ASSUME NEW msg \in Messages, Deliver(msg) PROVE OneInFlight'
  BY <1>7 DEF Deliver, Report, Disrupt, client, score, txnState, rest, Sound, TypeOK,
     Stages, OneInFlight
<1>8. CASE UNCHANGED vars
  BY <1>8 DEF vars, client, score, txnState, rest, Sound, TypeOK, Stages, OneInFlight
<1> QED
  BY <1>1, <1>2, <1>3, <1>4, <1>5, <1>6, <1>7, <1>8 DEF Next

\* In sync mode a message is handed to Produce only when every earlier one has its
\* verdict on the score.
THEOREM SyncWaits == Spec => []VerdictBeforeNext
<1>1. Init => OneInFlight
  BY DEF Init, OneInFlight
<1>2. Sound /\ OneInFlight /\ [Next]_vars => OneInFlight'
  BY OneInFlightStep
<1>3. OneInFlight => VerdictBeforeNext
  BY DEF OneInFlight, VerdictBeforeNext
<1> QED
  BY <1>1, <1>2, <1>3, SoundInit, SoundStep, PTL DEF Spec

\* With nobody draining, a message accepted stays in one of the two queues until
\* Flush has counted it.
NobodyDrains ==
  mode = "fireforget" =>
    /\ counted = {} /\ inHand = Nothing
    /\ pc \in {"next", "produce", "flush", "close"} => local \union reports = accepted
    /\ pc \in {"close", "drain", "reported"} => remaining = Cardinality(accepted)

LEMMA NobodyDrainsStep ==
  ASSUME Sound, NobodyDrains, [Next]_vars
  PROVE  NobodyDrains'
<1>1. ASSUME Main PROVE NobodyDrains'
  <2>1. CASE Generate
    BY <2>1 DEF Generate, LoopGoesOn, BatchEnd, client, score, txnState, rest, Sound,
       TypeOK, Stages, NobodyDrains, Drains
  <2>2. CASE LeaveLoop
    BY <2>2 DEF LeaveLoop, LoopGoesOn, client, score, txnState, rest, Sound, TypeOK,
       Stages, NobodyDrains, Drains
  <2>3. CASE Accept
    BY <2>3 DEF Accept, Produced, client, score, txnState, rest, Sound, TypeOK, Stages,
       NobodyDrains, Drains
  <2>4. CASE GiveUp
    BY <2>4 DEF GiveUp, Produced, GivesUp, client, score, txnState, rest, Sound, TypeOK,
       Stages, NobodyDrains, Drains
  <2>5. CASE StuckFull
    BY <2>5 DEF StuckFull, Drains, client, score, txnState, rest, Sound, TypeOK, Stages,
       NobodyDrains
  <2>6. CASE AwaitReport
    BY <2>6 DEF AwaitReport, ReportIsIn, client, score, txnState, rest, Sound, TypeOK,
       Stages, NobodyDrains, Drains
  <2>7. CASE AwaitInterrupted
    BY <2>7 DEF AwaitInterrupted, client, score, txnState, rest, Sound, TypeOK, Stages,
       NobodyDrains, Drains
  <2>8. CASE InitTransactions
    BY <2>8 DEF InitTransactions, Fails, Disrupt, client, score, txnState, rest, Sound,
       TypeOK, Stages, NobodyDrains, Drains
  <2>9. CASE BeginTransaction
    BY <2>9 DEF BeginTransaction, LoopGoesOn, Fails, Disrupt, client, score, txnState,
       rest, Sound, TypeOK, Stages, NobodyDrains, Drains
  <2>10. CASE BatchIsFull
    BY <2>10 DEF BatchIsFull, LoopGoesOn, BatchEnd, client, score, txnState, rest,
       Sound, TypeOK, Stages, NobodyDrains, Drains
  <2>11. CASE Commit
    BY <2>11 DEF Commit, CanCommit, AllSent, CloseTxn, Batch, client, score, txnState,
       rest, Sound, TypeOK, Stages, NobodyDrains, Drains
  <2>12. CASE CommitRejected
    BY <2>12 DEF CommitRejected, AllSent, Disrupt, client, score, txnState, rest, Sound,
       TypeOK, Stages, NobodyDrains, Drains
  <2>13. CASE FlushBeforeAbort
    BY <2>13 DEF FlushBeforeAbort, Disrupt, client, score, txnState, rest, Sound,
       TypeOK, Stages, NobodyDrains, Drains
  <2>14. CASE Abort
    BY <2>14 DEF Abort, Report, CloseTxn, Batch, Fails, Disrupt, client, score,
       txnState, rest, Sound, TypeOK, Stages, NobodyDrains, Drains
  <2>15. CASE Flush
    <3>1. mode = "fireforget" => Unflushed = accepted
      BY <2>15 DEF Flush, Unflushed, NobodyDrains
    <3> QED
      BY <2>15, <3>1 DEF Flush, client, score, NobodyDrains
  <2>16. CASE Close
    BY <2>16 DEF Close, client, score, txnState, rest, Sound, TypeOK, Stages,
       NobodyDrains, Drains
  <2>17. CASE ReportScore
    BY <2>17 DEF ReportScore, Drained, client, score, txnState, rest, Sound, TypeOK,
       Stages, NobodyDrains, Drains
  <2> QED
    BY <1>1, <2>1, <2>2, <2>3, <2>4, <2>5, <2>6, <2>7, <2>8, <2>9, <2>10, <2>11, <2>12,
       <2>13, <2>14, <2>15, <2>16, <2>17 DEF Main
<1>2. CASE ProduceFails
  BY <1>2 DEF ProduceFails, Fails, Disrupt, client, score, txnState, rest, Sound,
     TypeOK, Stages, NobodyDrains, Drains
<1>3. CASE CommitFails
  BY <1>3 DEF CommitFails, Fails, Disrupt, CloseTxn, CanCommit, AllSent, client, score,
     txnState, rest, Sound, TypeOK, Stages, NobodyDrains, Drains
<1>4. CASE Signal
  BY <1>4 DEF Signal, Disrupt, client, score, txnState, rest, Sound, TypeOK, Stages,
     NobodyDrains, Drains
<1>5. CASE DrainTake
  BY <1>5 DEF DrainTake, Drains, client, score, txnState, rest, Sound, TypeOK, Stages,
     NobodyDrains
<1>6. CASE DrainRecord
  BY <1>6 DEF DrainRecord, client, score, txnState, rest, Sound, TypeOK, Stages,
     NobodyDrains, Drains
<1>7. ASSUME NEW msg \in Messages, Deliver(msg) PROVE NobodyDrains'
  BY <1>7 DEF Deliver, Report, Disrupt, client, score, txnState, rest, Sound, TypeOK,
     Stages, NobodyDrains, Drains
<1>8. CASE UNCHANGED vars
  BY <1>8 DEF vars, client, score, txnState, rest, Sound, TypeOK, Stages, NobodyDrains,
     Drains
<1> QED
  BY <1>1, <1>2, <1>3, <1>4, <1>5, <1>6, <1>7, <1>8 DEF Next

\* In fireforget nothing is ever counted, and Flush gives up on every message
\* accepted, delivered or not.
THEOREM FireForgetIsBlind == Spec => []FireForgetKnowsNothing
<1>1. Init => NobodyDrains
  BY DEF Init, NobodyDrains
<1>2. Sound /\ NobodyDrains /\ [Next]_vars => NobodyDrains'
  BY NobodyDrainsStep
<1>3. NobodyDrains => FireForgetKnowsNothing
  BY DEF NobodyDrains, FireForgetKnowsNothing
<1> QED
  BY <1>1, <1>2, <1>3, SoundInit, SoundStep, PTL DEF Spec

(***************************************************************************)
(* The report at the end.                                                  *)
(***************************************************************************)
\* Accepted, not on the score, and not about to be.
Unsettled == accepted \ (counted \union {inHand})

\* Until Close every such message is in one of the two queues; Flush has counted the
\* queues, and from then on there are only fewer.
FlushCounts ==
  mode # "sync" =>
    /\ pc \notin {"drain", "reported", "failed"} => Unsettled \subseteq local \union reports
    /\ pc \in {"close", "drain", "reported"} => Cardinality(Unsettled) <= remaining
    /\ pc = "reported" => inHand = Nothing

LEMMA UnsettledShrinks ==
  ASSUME Sound, Sound', FlushCounts, mode # "sync", pc \in {"close", "drain", "reported"},
         Unsettled' \subseteq Unsettled, UNCHANGED remaining
  PROVE  Cardinality(Unsettled') <= remaining'
<1>1. Unsettled \subseteq 1 .. Count
  BY DEF Unsettled, Sound, TypeOK, Messages
<1>2. IsFiniteSet(Unsettled) /\ Cardinality(Unsettled) \in Nat
  BY <1>1, MessagesFinite, FS_CardinalityType
<1>3. Cardinality(Unsettled') <= Cardinality(Unsettled) /\ Cardinality(Unsettled') \in Nat
  BY <1>2, FS_Subset, FS_CardinalityType
<1>4. remaining \in Nat
  BY DEF Sound, TypeOK
<1> QED
  BY <1>2, <1>3, <1>4 DEF FlushCounts

LEMMA FlushCountsStep ==
  ASSUME Sound, Sound', FlushCounts, [Next]_vars
  PROVE  FlushCounts'
<1>1. ASSUME Main PROVE FlushCounts'
  <2>1. CASE Generate
    BY <2>1 DEF Generate, LoopGoesOn, BatchEnd, client, score, txnState, rest, Sound,
       TypeOK, Stages, FlushCounts, Unsettled
  <2>2. CASE LeaveLoop
    BY <2>2 DEF LeaveLoop, LoopGoesOn, client, score, txnState, rest, Sound, TypeOK,
       Stages, FlushCounts, Unsettled
  <2>3. CASE Accept
    BY <2>3 DEF Accept, Produced, client, score, txnState, rest, Sound, TypeOK, Stages,
       FlushCounts, Unsettled
  <2>4. CASE GiveUp
    BY <2>4 DEF GiveUp, Produced, GivesUp, client, score, txnState, rest, Sound, TypeOK,
       Stages, FlushCounts, Unsettled
  <2>5. CASE StuckFull
    BY <2>5 DEF StuckFull, Drains, client, score, txnState, rest, Sound, TypeOK, Stages,
       FlushCounts, Unsettled
  <2>6. CASE AwaitReport
    BY <2>6 DEF AwaitReport, ReportIsIn, client, score, txnState, rest, Sound, TypeOK,
       Stages, FlushCounts, Unsettled
  <2>7. CASE AwaitInterrupted
    BY <2>7 DEF AwaitInterrupted, client, score, txnState, rest, Sound, TypeOK, Stages,
       FlushCounts, Unsettled
  <2>8. CASE InitTransactions
    BY <2>8 DEF InitTransactions, Fails, Disrupt, client, score, txnState, rest, Sound,
       TypeOK, Stages, FlushCounts, Unsettled
  <2>9. CASE BeginTransaction
    BY <2>9 DEF BeginTransaction, LoopGoesOn, Fails, Disrupt, client, score, txnState,
       rest, Sound, TypeOK, Stages, FlushCounts, Unsettled
  <2>10. CASE BatchIsFull
    BY <2>10 DEF BatchIsFull, LoopGoesOn, BatchEnd, client, score, txnState, rest,
       Sound, TypeOK, Stages, FlushCounts, Unsettled
  <2>11. CASE Commit
    BY <2>11 DEF Commit, CanCommit, AllSent, CloseTxn, Batch, client, score, txnState,
       rest, Sound, TypeOK, Stages, FlushCounts, Unsettled
  <2>12. CASE CommitRejected
    BY <2>12 DEF CommitRejected, AllSent, Disrupt, client, score, txnState, rest, Sound,
       TypeOK, Stages, FlushCounts, Unsettled
  <2>13. CASE FlushBeforeAbort
    BY <2>13 DEF FlushBeforeAbort, Disrupt, client, score, txnState, rest, Sound,
       TypeOK, Stages, FlushCounts, Unsettled
  <2>14. CASE Abort
    BY <2>14 DEF Abort, Report, CloseTxn, Batch, Fails, Disrupt, client, score,
       txnState, rest, Sound, TypeOK, Stages, FlushCounts, Unsettled
  <2>15. CASE Flush
    <3>1. mode # "sync" => Unflushed = local \union reports /\ Unsettled \subseteq Unflushed
      BY <2>15 DEF Flush, Unflushed, FlushCounts
    <3>2. Unflushed \subseteq 1 .. Count
      BY DEF Unflushed, Sound, TypeOK, Messages
    <3>3. mode # "sync" => Cardinality(Unsettled) <= Cardinality(Unflushed)
      BY <3>1, <3>2, MessagesFinite, FS_Subset
    <3>4. Unsettled' = Unsettled /\ remaining' = Cardinality(Unflushed)
      BY <2>15 DEF Flush, Unsettled, client, score
    <3> QED
      BY <2>15, <3>1, <3>3, <3>4 DEF Flush, client, score, FlushCounts
  <2>16. CASE Close
    <3>1. Unsettled' = Unsettled /\ UNCHANGED <<mode, remaining, inHand>> /\ pc' = "drain"
      BY <2>16 DEF Close, Unsettled, score, rest
    <3> QED
      BY <2>16, <3>1 DEF Close, FlushCounts
  <2>17. CASE ReportScore
    <3>1. Unsettled' = Unsettled /\ UNCHANGED <<mode, remaining, inHand>>
      BY <2>17 DEF ReportScore, Unsettled, client, score, rest
    <3>2. inHand = Nothing
      BY <2>17 DEF ReportScore, Drained, Sound, Counts
    <3> QED
      BY <2>17, <3>1, <3>2 DEF ReportScore, FlushCounts
  <2> QED
    BY <1>1, <2>1, <2>2, <2>3, <2>4, <2>5, <2>6, <2>7, <2>8, <2>9, <2>10, <2>11, <2>12,
       <2>13, <2>14, <2>15, <2>16, <2>17 DEF Main
<1>2. CASE ProduceFails
  BY <1>2 DEF ProduceFails, Fails, Disrupt, client, score, txnState, rest, Sound,
     TypeOK, Stages, FlushCounts, Unsettled
<1>3. CASE CommitFails
  BY <1>3 DEF CommitFails, Fails, Disrupt, CloseTxn, CanCommit, AllSent, client, score,
     txnState, rest, Sound, TypeOK, Stages, FlushCounts, Unsettled
<1>4. CASE Signal
  BY <1>4 DEF Signal, Disrupt, client, score, txnState, rest, Sound, TypeOK, Stages,
     FlushCounts, Unsettled
<1>5. CASE DrainTake
  <2>a. 0 \notin accepted
    BY DEF Sound, TypeOK, Messages
  <2>1. Unsettled' \subseteq Unsettled /\ UNCHANGED <<mode, pc, remaining>>
    BY <1>5, <2>a DEF DrainTake, Unsettled, rest
  <2>2. pc \notin {"reported", "failed"}
    BY <1>5 DEF DrainTake, Ended
  <2>3. Unsettled' \subseteq local' \union reports' \/ ~(Unsettled \subseteq local \union reports)
    BY <1>5, <2>a DEF DrainTake, Unsettled
  <2> QED
    BY <2>1, <2>2, <2>3, UnsettledShrinks DEF FlushCounts
<1>6. CASE DrainRecord
  <2>1. Unsettled' \subseteq Unsettled /\ UNCHANGED <<mode, pc, remaining, local, reports>>
    BY <1>6 DEF DrainRecord, Unsettled, rest, client
  <2>2. pc \notin {"reported", "failed"}
    BY <1>6 DEF DrainRecord, Ended
  <2> QED
    BY <2>1, <2>2, UnsettledShrinks DEF FlushCounts
<1>7. ASSUME NEW msg \in Messages, Deliver(msg) PROVE FlushCounts'
  BY <1>7 DEF Deliver, Report, Disrupt, client, score, txnState, rest, Sound, TypeOK,
     Stages, FlushCounts, Unsettled
<1>8. CASE UNCHANGED vars
  BY <1>8 DEF vars, client, score, txnState, rest, Sound, TypeOK, Stages, FlushCounts,
     Unsettled
<1> QED
  BY <1>1, <1>2, <1>3, <1>4, <1>5, <1>6, <1>7, <1>8 DEF Next

\* When the score is printed it lacks no more messages than Flush said were
\* outstanding, in every mode: none at all after a Flush that returned zero, but for
\* the message whose wait Ctrl+C interrupted in sync mode.
THEOREM ScoreIsComplete == Spec => []FlushIsHonest
<1>1. Init => FlushCounts /\ OneInFlight
  BY DEF Init, FlushCounts, Unsettled, OneInFlight
<1>2. Sound /\ Sound' /\ FlushCounts /\ [Next]_vars => FlushCounts'
  BY FlushCountsStep
<1>3. Sound /\ OneInFlight /\ [Next]_vars => OneInFlight'
  BY OneInFlightStep
<1>4. FlushCounts /\ OneInFlight /\ Sound => FlushIsHonest
  <2> DEFINE Lacking == {msg \in accepted \ counted : ~Abandoned(msg)}
  <2> SUFFICES ASSUME FlushCounts, OneInFlight, Sound, pc = "reported"
               PROVE  Cardinality(Lacking) <= remaining
    BY DEF FlushIsHonest
  <2>1. CASE mode = "sync"
    <3>1. Lacking = {}
      BY <2>1 DEF OneInFlight, Abandoned
    <3> QED
      BY <3>1, FS_EmptySet DEF Sound, TypeOK
  <2>2. CASE mode # "sync"
    <3>1. inHand = Nothing /\ Cardinality(Unsettled) <= remaining
      BY <2>2 DEF FlushCounts
    <3>2. Unsettled = Lacking
      BY <2>2, <3>1 DEF Unsettled, Abandoned, Sound, TypeOK, Messages
    <3> QED
      BY <3>1, <3>2
  <2> QED
    BY <2>1, <2>2
<1> QED
  BY <1>1, <1>2, <1>3, <1>4, SoundInit, SoundStep, PTL DEF Spec

(***************************************************************************)
(* Transactions.  A message given up on because Ctrl+C meets a full queue  *)
(* would be counted all the same, so the queue has room for a transaction, *)
(* which leaves it empty, or nobody presses Ctrl+C.                        *)
(***************************************************************************)
NoneGivenUp ==
  \/ "signal" \notin Disruptions
  \/ \A m \in Modes : m = "transactional" =>
       QueueLimit[m] >= TxnSize \/ QueueLimit[m] >= Count

\* Every batch before the open transaction is visible or aborted as a whole, the
\* open one holds what was produced since it began.
BatchesKept ==
  /\ ctxDone => "signal" \in Disruptions
  /\ mode = "transactional" /\ pc # "failed" =>
       /\ produced = IF pc = "produce" THEN seq - 1 ELSE seq
       /\ accepted = 1 .. produced
       /\ committed = Cardinality(visible)
       /\ local \subseteq txnMsgs
       /\ txn = "open" =>
            /\ txnMsgs = txnStart + 1 .. produced
            /\ visible \subseteq 1 .. txnStart
            /\ committed + aborted = txnStart
            /\ txnStart < Count /\ seq <= BatchEnd
            /\ pc \in {"endTxn", "preAbort", "abort"} => seq = BatchEnd
       /\ txn = "none" =>
            /\ pc # "produce"
            /\ local = {}
            /\ visible \subseteq 1 .. seq
            /\ committed + aborted = seq

\* A transaction that can be committed becomes visible as a whole.
LEMMA CommitIsWhole ==
  ASSUME Sound, BatchesKept, mode = "transactional", pc = "endTxn", CanCommit
  PROVE  /\ Readable = txnStart + 1 .. seq
         /\ (txnStart < seq /\ seq <= txnStart + TxnSize) \/ TxnSize = 0
         /\ Cardinality(visible \union Readable) = committed + Batch
         /\ visible \union Readable \subseteq 1 .. seq
<1>1. txn = "open" /\ txnStart \in 0 .. Count /\ seq \in 0 .. Count /\ txnStart <= seq
  BY DEF Sound, Stages, Counts, TypeOK
<1>2. txnMsgs = txnStart + 1 .. seq /\ visible \subseteq 1 .. txnStart
      /\ committed = Cardinality(visible) /\ txnStart < Count /\ seq = BatchEnd
  BY <1>1 DEF BatchesKept
<1>3. Readable = txnStart + 1 .. seq
  BY <1>2 DEF Readable, CanCommit
<1>4. IsFiniteSet(txnStart + 1 .. seq) /\ Cardinality(txnStart + 1 .. seq) = seq - txnStart
  <2>1. /\ txnStart + 1 \in Int /\ seq \in Int
        /\ seq - (txnStart + 1) + 1 = seq - txnStart
        /\ txnStart + 1 > seq => seq - txnStart = 0
    BY <1>1
  <2> QED
    BY <2>1, FS_Interval
<1>5. visible \subseteq 1 .. Count
  BY <1>1, <1>2
<1>6. visible \intersect (txnStart + 1 .. seq) = {}
  BY <1>1, <1>2
<1>7. IsFiniteSet(visible) /\ Cardinality(visible) \in Nat
  BY <1>5, MessagesFinite, FS_CardinalityType
<1>8. Cardinality(visible \union (txnStart + 1 .. seq)) = Cardinality(visible) + (seq - txnStart)
  <2>1. Cardinality(visible \union (txnStart + 1 .. seq))
          = Cardinality(visible) + Cardinality(txnStart + 1 .. seq) - Cardinality({})
    BY <1>4, <1>6, <1>7, FS_Union
  <2> QED
    BY <1>1, <1>4, <1>7, <2>1, FS_EmptySet
<1>9. (txnStart < seq /\ seq <= txnStart + TxnSize) \/ TxnSize = 0
  BY <1>1, <1>2 DEF BatchEnd
<1>10. visible \union (txnStart + 1 .. seq) \subseteq 1 .. seq
  BY <1>1, <1>2
<1> QED
  BY <1>2, <1>3, <1>8, <1>9, <1>10 DEF Batch

LEMMA NoGiveUp ==
  ASSUME Sound, BatchesKept, NoneGivenUp, mode = "transactional", GiveUp
  PROVE  FALSE
<1>1. ctxDone /\ pc = "produce" /\ Cardinality(local) >= QueueLimit[mode]
  BY DEF GiveUp, GivesUp, QueueFull
<1>2. QueueLimit[mode] >= TxnSize \/ QueueLimit[mode] >= Count
  BY <1>1 DEF NoneGivenUp, BatchesKept, Sound, TypeOK
<1>3. /\ {seq, txnStart, TxnSize, Count, QueueLimit[mode]} \subseteq Nat
      /\ txnStart < seq /\ seq <= Count
  BY <1>1 DEF Sound, TypeOK, Counts
<1>4. local \subseteq txnStart + 1 .. seq - 1 /\ seq <= BatchEnd
  BY <1>1, <1>3 DEF BatchesKept, Sound, TypeOK
<1>5. /\ IsFiniteSet(txnStart + 1 .. seq - 1)
      /\ Cardinality(txnStart + 1 .. seq - 1) = seq - 1 - txnStart
  <2>1. /\ {txnStart + 1, seq - 1} \subseteq Int
        /\ seq - 1 - (txnStart + 1) + 1 = seq - 1 - txnStart
        /\ txnStart + 1 > seq - 1 => seq - 1 - txnStart = 0
    BY <1>3
  <2> QED
    BY <2>1, FS_Interval
<1>6. Cardinality(local) <= seq - 1 - txnStart /\ Cardinality(local) \in Nat
  BY <1>4, <1>5, FS_Subset, FS_CardinalityType
<1>7. seq <= txnStart + TxnSize
  BY <1>3, <1>4 DEF BatchEnd
<1> QED
  BY <1>1, <1>2, <1>3, <1>6, <1>7

LEMMA BatchesStep ==
  ASSUME Sound, NoneGivenUp, BatchesKept, [Next]_vars
  PROVE  BatchesKept'
<1>1. ASSUME Main PROVE BatchesKept'
  <2>1. CASE Generate
    BY <2>1 DEF Generate, LoopGoesOn, BatchEnd, client, score, txnState, rest, Sound,
       TypeOK, Stages, Counts, BatchesKept, Messages
  <2>2. CASE LeaveLoop
    BY <2>2 DEF LeaveLoop, LoopGoesOn, client, score, txnState, rest, Sound, TypeOK,
       Stages, Counts, BatchesKept, BatchEnd, Messages
  <2>3. CASE Accept
    <3>1. {seq, produced, txnStart} \subseteq Nat /\ pc # "failed" /\ txnStart <= seq
      BY <2>3 DEF Accept, Sound, TypeOK, Counts
    <3>2. mode = "transactional" =>
            /\ produced = seq - 1 /\ accepted = 1 .. produced /\ txn = "open"
            /\ txnMsgs = txnStart + 1 .. produced /\ txnStart < seq
      <4>1. pc = "produce" /\ txnStart < seq /\ txn \in {"none", "open"}
        BY <2>3 DEF Accept, Sound, TypeOK, Counts
      <4> QED
        BY <4>1 DEF BatchesKept
    <3>3. mode = "transactional" => accepted' = 1 .. produced' /\ produced' = seq
      BY <2>3, <3>1, <3>2 DEF Accept, Produced
    <3>4. mode = "transactional" => txnMsgs' = txnStart + 1 .. produced'
      <4>1. mode = "transactional" => txnMsgs' = (txnStart + 1 .. seq - 1) \union {seq}
        BY <2>3, <3>2 DEF Accept
      <4>2. txnStart < seq => (txnStart + 1 .. seq - 1) \union {seq} = txnStart + 1 .. seq
        BY <3>1
      <4> QED
        BY <3>2, <3>3, <4>1, <4>2
    <3> QED
      BY <2>3, <3>1, <3>2, <3>3, <3>4 DEF Accept, Produced, rest, BatchesKept, BatchEnd
  <2>4. CASE GiveUp
    <3>1. mode # "transactional"
      BY <2>4, NoGiveUp
    <3> QED
      BY <2>4, <3>1 DEF GiveUp, rest, BatchesKept
  <2>5. CASE StuckFull
    BY <2>5 DEF StuckFull, Drains, client, score, txnState, rest, Sound, TypeOK, Stages,
       Counts, BatchesKept, BatchEnd, Messages
  <2>6. CASE AwaitReport
    BY <2>6 DEF AwaitReport, ReportIsIn, client, score, txnState, rest, Sound, TypeOK,
       Stages, Counts, BatchesKept, BatchEnd, Messages
  <2>7. CASE AwaitInterrupted
    BY <2>7 DEF AwaitInterrupted, client, score, txnState, rest, Sound, TypeOK, Stages,
       Counts, BatchesKept, BatchEnd, Messages
  <2>8. CASE InitTransactions
    BY <2>8 DEF InitTransactions, Fails, Disrupt, client, score, txnState, rest, Sound,
       TypeOK, Stages, Counts, BatchesKept, BatchEnd, Messages
  <2>9. CASE BeginTransaction
    <3>1. {seq, produced, txnStart} \subseteq Nat /\ pc = "next" /\ txn = "none" /\ seq < Count
      BY <2>9 DEF BeginTransaction, LoopGoesOn, Sound, TypeOK
    <3>2. CASE pc' = "failed"
      BY <2>9, <3>2 DEF BeginTransaction, rest, BatchesKept
    <3>3. CASE txn' = "open" /\ txnStart' = seq /\ txnMsgs' = {} /\ pc' = pc
      <4>1. seq <= BatchEnd'
        BY <2>9, <3>1, <3>3 DEF BeginTransaction, BatchEnd
      <4>2. mode = "transactional" => produced = seq /\ txnMsgs' = seq + 1 .. produced
        BY <3>1, <3>3 DEF BatchesKept
      <4> QED
        BY <2>9, <3>1, <3>3, <4>1, <4>2 DEF BeginTransaction, client, rest, BatchesKept
    <3> QED
      BY <2>9, <3>2, <3>3 DEF BeginTransaction, Fails
  <2>10. CASE BatchIsFull
    <3>1. {seq, txnStart} \subseteq Nat
      BY DEF Sound, TypeOK
    <3>2. mode = "transactional" => seq = BatchEnd
      BY <2>10, <3>1 DEF BatchIsFull, LoopGoesOn, BatchesKept, BatchEnd
    <3>3. BatchEnd' = BatchEnd
      BY <2>10 DEF BatchIsFull, txnState, BatchEnd
    <3> QED
      BY <2>10, <3>2, <3>3 DEF BatchIsFull, client, txnState, rest, BatchesKept
  <2>11. CASE Commit
    <3>1. mode = "transactional" => /\ committed' = Cardinality(visible')
                                    /\ visible' \subseteq 1 .. seq
                                    /\ committed' + aborted = seq
      <4>1. mode = "transactional" =>
              /\ Cardinality(visible \union Readable) = committed + Batch
              /\ visible \union Readable \subseteq 1 .. seq
        BY <2>11, CommitIsWhole DEF Commit
      <4>2. mode = "transactional" => committed + aborted = txnStart
        BY <2>11 DEF Commit, BatchesKept, Sound, Stages
      <4>3. {committed, aborted, txnStart, seq} \subseteq Nat
        BY DEF Sound, TypeOK
      <4> QED
        BY <2>11, <4>1, <4>2, <4>3 DEF Commit, Batch
    <3>2. mode = "transactional" => local = {}
      BY <2>11 DEF Commit, CanCommit, AllSent, BatchesKept
    <3> QED
      BY <2>11, <3>1, <3>2 DEF Commit, CloseTxn, client, rest, BatchesKept
  <2>12. CASE CommitRejected
    BY <2>12 DEF CommitRejected, AllSent, Disrupt, client, score, txnState, rest, Sound,
       TypeOK, Stages, Counts, BatchesKept, BatchEnd, Messages
  <2>13. CASE FlushBeforeAbort
    BY <2>13 DEF FlushBeforeAbort, Disrupt, client, score, txnState, rest, Sound,
       TypeOK, Stages, Counts, BatchesKept, BatchEnd, Messages
  <2>14. CASE Abort
    <3>1. {seq, txnStart, committed, aborted} \subseteq Nat /\ txn = "open" /\ txnStart <= seq
      BY <2>14 DEF Abort, Sound, TypeOK, Stages, Counts
    <3>2. CASE pc' = "failed"
      BY <2>14, <3>2 DEF Abort, rest, BatchesKept
    <3>3. CASE /\ pc' = "next" /\ aborted' = aborted + Batch /\ txn' = "none"
               /\ UNCHANGED accepted /\ local' = {}
      <4>1. mode = "transactional" => committed + aborted' = seq
        BY <2>14, <3>1, <3>3 DEF Abort, Batch, BatchesKept
      <4>2. mode = "transactional" => visible \subseteq 1 .. seq
        BY <2>14, <3>1 DEF Abort, BatchesKept
      <4> QED
        BY <2>14, <3>1, <3>3, <4>1, <4>2 DEF Abort, rest, BatchesKept
    <3> QED
      BY <2>14, <3>2, <3>3 DEF Abort, Report, CloseTxn, Fails
  <2>15. CASE Flush
    BY <2>15 DEF Flush, Disrupt, client, score, txnState, rest, Sound, TypeOK, Stages,
       Counts, BatchesKept, BatchEnd, Messages
  <2>16. CASE Close
    BY <2>16 DEF Close, client, score, txnState, rest, Sound, TypeOK, Stages, Counts,
       BatchesKept, BatchEnd, Messages
  <2>17. CASE ReportScore
    BY <2>17 DEF ReportScore, Drained, client, score, txnState, rest, Sound, TypeOK,
       Stages, Counts, BatchesKept, BatchEnd, Messages
  <2> QED
    BY <1>1, <2>1, <2>2, <2>3, <2>4, <2>5, <2>6, <2>7, <2>8, <2>9, <2>10, <2>11, <2>12,
       <2>13, <2>14, <2>15, <2>16, <2>17 DEF Main
<1>2. CASE ProduceFails
  BY <1>2 DEF ProduceFails, Fails, Disrupt, client, score, txnState, rest, Sound,
     TypeOK, Stages, Counts, BatchesKept, BatchEnd, Messages
<1>3. CASE CommitFails
  BY <1>3 DEF CommitFails, Fails, Disrupt, CloseTxn, CanCommit, AllSent, client, score,
     txnState, rest, Sound, TypeOK, Stages, Counts, BatchesKept, BatchEnd, Messages
<1>4. CASE Signal
  BY <1>4 DEF Signal, Disrupt, client, score, txnState, rest, Sound, TypeOK, Stages,
     Counts, BatchesKept, BatchEnd, Messages
<1>5. CASE DrainTake
  BY <1>5 DEF DrainTake, Drains, client, score, txnState, rest, Sound, TypeOK, Stages,
     Counts, BatchesKept, BatchEnd, Messages
<1>6. CASE DrainRecord
  BY <1>6 DEF DrainRecord, client, score, txnState, rest, Sound, TypeOK, Stages, Counts,
     BatchesKept, BatchEnd, Messages
<1>7. ASSUME NEW msg \in Messages, Deliver(msg) PROVE BatchesKept'
  BY <1>7 DEF Deliver, Report, Disrupt, client, score, txnState, rest, Sound, TypeOK,
     Stages, Counts, BatchesKept, BatchEnd, Messages
<1>8. CASE UNCHANGED vars
  BY <1>8 DEF vars, client, score, txnState, rest, Sound, TypeOK, Stages, Counts,
     BatchesKept, BatchEnd, Messages
<1> QED
  BY <1>1, <1>2, <1>3, <1>4, <1>5, <1>6, <1>7, <1>8 DEF Next

LEMMA BatchesInit == Init => BatchesKept
  BY FS_EmptySet DEF Init, BatchesKept

\* The report's two transaction lines add up to what was produced, and the one is
\* what a read_committed consumer sees.
THEOREM ReportedTransactions == NoneGivenUp /\ Spec => []TxnAccounting
<1> SUFFICES ASSUME NoneGivenUp PROVE Spec => []TxnAccounting
  OBVIOUS
<1>1. Sound /\ BatchesKept /\ [Next]_vars => BatchesKept'
  BY BatchesStep
<1>2. Sound /\ BatchesKept => TxnAccounting
  BY DEF Sound, Stages, BatchesKept, TxnAccounting
<1> QED
  BY <1>1, <1>2, BatchesInit, SoundInit, SoundStep, PTL DEF Spec

\* The batch that is closed: what follows the last one, up to the last message
\* generated.
LEMMA BatchCloses ==
  ASSUME Sound, BatchesKept, TxnSize > 0, mode = "transactional",
         pc \in {"endTxn", "preAbort", "abort"}
  PROVE  txnStart < seq /\ seq <= txnStart + TxnSize /\ seq <= Count
<1>1. txn = "open" /\ {seq, txnStart, TxnSize} \subseteq Nat /\ seq <= Count
  BY DEF Sound, TypeOK, Stages
<1>2. txnStart < Count /\ seq = BatchEnd
  BY <1>1 DEF BatchesKept
<1> QED
  BY <1>1, <1>2 DEF BatchEnd

Cursor == IF txn = "open" THEN txnStart ELSE seq
BatchStep == Batched!CommitBatch \/ Batched!AbortBatch \/ UNCHANGED <<Cursor, visible>>

LEMMA CommitMovesCursor ==
  ASSUME Sound, BatchesKept, TxnSize > 0, pc = "endTxn", CanCommit,
         visible' = visible \union Readable, CloseTxn, UNCHANGED seq
  PROVE  Batched!CommitBatch
<1>1. mode = "transactional" /\ txn = "open"
  BY DEF Sound, Stages
<1>2. Readable = txnStart + 1 .. seq
  BY <1>1, CommitIsWhole
<1>3. txnStart < seq /\ seq <= txnStart + TxnSize /\ seq <= Count
  BY <1>1, BatchCloses
<1>4. {seq, txnStart} \subseteq Nat
  BY DEF Sound, TypeOK
<1>5. seq \in {last \in txnStart + 1 .. txnStart + TxnSize : last <= Count}
  BY <1>3, <1>4
<1> QED
  BY <1>1, <1>2, <1>5 DEF CloseTxn, Batched!CommitBatch, Batched!Ends

LEMMA BatchMoves ==
  ASSUME Sound, BatchesKept, TxnSize > 0, [Next]_vars
  PROVE  BatchStep
<1>1. ASSUME Main PROVE BatchStep
  <2>1. CASE Generate
    <3>1. CASE txn = "open"
      BY <2>1, <3>1 DEF Generate, txnState, Cursor, BatchStep
    <3>2. CASE txn = "none"
      <4>1. seq < Count /\ seq \in Nat
        BY <2>1, <3>2 DEF Generate, LoopGoesOn, Sound, TypeOK
      <4>2. seq + 1 \in {last \in seq + 1 .. seq + TxnSize : last <= Count}
        BY <4>1
      <4> QED
        BY <2>1, <3>2, <4>2 DEF Generate, txnState, Batched!AbortBatch, Batched!Ends, BatchStep
    <3> QED
      BY <3>1, <3>2 DEF Sound, TypeOK
  <2>2. CASE LeaveLoop
    BY <2>2 DEF LeaveLoop, LoopGoesOn, client, score, txnState, rest, Sound, TypeOK,
       Stages, Cursor, BatchStep
  <2>3. CASE Accept
    BY <2>3 DEF Accept, Produced, client, score, txnState, rest, Sound, TypeOK, Stages,
       Cursor, BatchStep
  <2>4. CASE GiveUp
    BY <2>4 DEF GiveUp, Produced, GivesUp, client, score, txnState, rest, Sound, TypeOK,
       Stages, Cursor, BatchStep
  <2>5. CASE StuckFull
    BY <2>5 DEF StuckFull, Drains, client, score, txnState, rest, Sound, TypeOK, Stages,
       Cursor, BatchStep
  <2>6. CASE AwaitReport
    BY <2>6 DEF AwaitReport, ReportIsIn, client, score, txnState, rest, Sound, TypeOK,
       Stages, Cursor, BatchStep
  <2>7. CASE AwaitInterrupted
    BY <2>7 DEF AwaitInterrupted, client, score, txnState, rest, Sound, TypeOK, Stages,
       Cursor, BatchStep
  <2>8. CASE InitTransactions
    BY <2>8 DEF InitTransactions, Fails, Disrupt, client, score, txnState, rest, Sound,
       TypeOK, Stages, Cursor, BatchStep
  <2>9. CASE BeginTransaction
    BY <2>9 DEF BeginTransaction, LoopGoesOn, Fails, Disrupt, client, score, txnState,
       rest, Sound, TypeOK, Stages, Cursor, BatchStep
  <2>10. CASE BatchIsFull
    BY <2>10 DEF BatchIsFull, LoopGoesOn, BatchEnd, client, score, txnState, rest,
       Sound, TypeOK, Stages, Cursor, BatchStep
  <2>11. CASE Commit
    BY <2>11, CommitMovesCursor DEF Commit, BatchStep
  <2>12. CASE CommitRejected
    BY <2>12 DEF CommitRejected, AllSent, Disrupt, client, score, txnState, rest, Sound,
       TypeOK, Stages, Cursor, BatchStep
  <2>13. CASE FlushBeforeAbort
    BY <2>13 DEF FlushBeforeAbort, Disrupt, client, score, txnState, rest, Sound,
       TypeOK, Stages, Cursor, BatchStep
  <2>14. CASE Abort
    <3>1. CASE UNCHANGED <<txn, txnStart>>
      BY <2>14, <3>1 DEF Abort, Cursor, BatchStep
    <3>2. CASE CloseTxn
      <4>1. mode = "transactional" /\ txn = "open" /\ {seq, txnStart} \subseteq Nat
        BY <2>14 DEF Abort, Sound, TypeOK, Stages
      <4>2. txnStart < seq /\ seq <= txnStart + TxnSize /\ seq <= Count
        BY <2>14, <4>1, BatchCloses DEF Abort
      <4>3. seq \in {last \in txnStart + 1 .. txnStart + TxnSize : last <= Count}
        BY <4>1, <4>2
      <4> QED
        BY <2>14, <3>2, <4>1, <4>3 DEF Abort, CloseTxn, Batched!AbortBatch, Batched!Ends,
           BatchStep
    <3> QED
      BY <2>14, <3>1, <3>2 DEF Abort
  <2>15. CASE Flush
    BY <2>15 DEF Flush, Disrupt, client, score, txnState, rest, Sound, TypeOK, Stages,
       Cursor, BatchStep
  <2>16. CASE Close
    BY <2>16 DEF Close, client, score, txnState, rest, Sound, TypeOK, Stages, Cursor,
       BatchStep
  <2>17. CASE ReportScore
    BY <2>17 DEF ReportScore, Drained, client, score, txnState, rest, Sound, TypeOK,
       Stages, Cursor, BatchStep
  <2> QED
    BY <1>1, <2>1, <2>2, <2>3, <2>4, <2>5, <2>6, <2>7, <2>8, <2>9, <2>10, <2>11, <2>12,
       <2>13, <2>14, <2>15, <2>16, <2>17 DEF Main
<1>2. CASE ProduceFails
  BY <1>2 DEF ProduceFails, Fails, Disrupt, client, score, txnState, rest, Sound,
     TypeOK, Stages, Cursor, BatchStep
<1>3. CASE CommitFails
  <2>1. CASE UNCHANGED txnState
    BY <1>3, <2>1 DEF CommitFails, txnState, Cursor, BatchStep
  <2>2. CASE ~UNCHANGED txnState
    <3>1. pc = "endTxn" /\ CanCommit /\ visible' = visible \union Readable /\ CloseTxn
      BY <1>3, <2>2 DEF CommitFails
    <3>2. UNCHANGED seq
      BY <1>3 DEF CommitFails
    <3> QED
      BY <3>1, <3>2, CommitMovesCursor DEF BatchStep
  <2> QED
    BY <2>1, <2>2
<1>4. CASE Signal
  BY <1>4 DEF Signal, Disrupt, client, score, txnState, rest, Sound, TypeOK, Stages,
     Cursor, BatchStep
<1>5. CASE DrainTake
  BY <1>5 DEF DrainTake, Drains, client, score, txnState, rest, Sound, TypeOK, Stages,
     Cursor, BatchStep
<1>6. CASE DrainRecord
  BY <1>6 DEF DrainRecord, client, score, txnState, rest, Sound, TypeOK, Stages, Cursor,
     BatchStep
<1>7. ASSUME NEW msg \in Messages, Deliver(msg) PROVE BatchStep
  BY <1>7 DEF Deliver, Report, Disrupt, client, score, txnState, rest, Sound, TypeOK,
     Stages, Cursor, BatchStep
<1>8. CASE UNCHANGED vars
  BY <1>8 DEF vars, client, score, txnState, rest, Sound, TypeOK, Stages, Cursor,
     BatchStep
<1> QED
  BY <1>1, <1>2, <1>3, <1>4, <1>5, <1>6, <1>7, <1>8 DEF Next

\* Messages become visible a whole batch at a time and in order, or never: the run
\* implements Batches, whatever fails and whenever it is interrupted.
THEOREM ProducerRefinesBatches == NoneGivenUp /\ TxnSize > 0 /\ Spec => RefinesBatches
<1> SUFFICES ASSUME NoneGivenUp, TxnSize > 0 PROVE Spec => RefinesBatches
  OBVIOUS
<1>1. Init => Batched!Init
  BY DEF Init, Batched!Init
<1>2. Sound /\ BatchesKept /\ [Next]_vars => BatchesKept'
  BY BatchesStep
<1>3. Sound /\ BatchesKept /\ [Next]_vars =>
        [Batched!CommitBatch \/ Batched!AbortBatch]_<<IF txn = "open" THEN txnStart ELSE seq,
                                                      visible>>
  BY BatchMoves DEF BatchStep, Cursor
<1> QED
  BY <1>1, <1>2, <1>3, BatchesInit, SoundInit, SoundStep, PTL
  DEF Spec, RefinesBatches, Batched!Spec
=============================================================================
