------------------------------ MODULE Producer ------------------------------
(***************************************************************************)
(* One run of cmd/producer/main.go in any of its four modes.               *)
(*                                                                         *)
(* Three parties share the messages 1 .. Count: the main goroutine, which  *)
(* generates, hands to Produce and finally flushes and closes; librdkafka, *)
(* which delivers what it accepted and reports on it; and the goroutine    *)
(* that drains Events() and keeps the score.  A message's payload, key and *)
(* partition play no part.                                                 *)
(***************************************************************************)
EXTENDS Integers, FiniteSets

CONSTANTS
  Modes,           \* the values of app.mode considered
  Count,           \* app.message.count, not 0
  QueueLimit,      \* queue.buffering.max.messages, for a run in each mode
  EventsLimit,     \* the capacity of the Events() channel, likewise
  TxnSize,         \* app.transaction.size
  AbortEvery,      \* app.transaction.abort.every, 0 for never
  Disruptions,     \* the kinds of trouble that may happen
  MaxDisruptions   \* bound: how many times, all kinds together

Kinds == {"signal", "deliveryError", "produceError", "deadline", "flushTimeout",
          "txnError", "commitRejected", "commitTimeout"}
ASSUME ProducerAssumption ==
  /\ Count \in Nat \ {0}
  /\ {QueueLimit, EventsLimit} \subseteq [Modes -> Nat \ {0}]
  /\ {TxnSize, AbortEvery, MaxDisruptions} \subseteq Nat
  /\ Modes \subseteq {"async", "sync", "fireforget", "transactional"}
  /\ Disruptions \subseteq Kinds

Messages == 1 .. Count
Nothing  == 0      \* the drain goroutine waits for the next event

VARIABLES
  mode,       \* app.mode
  pc,         \* where the main goroutine is
  ctxDone,    \* SignalContext's context is cancelled
  seq,        \* generator.seq: messages generated
  accepted,   \* messages Produce returned nil for
  local,      \* accepted and not yet delivered, failed or purged
  fate,       \* what the report of a message says
  reports,    \* reports in Events(), or in runSync's dr
  inHand,     \* the report handleEvent is at
  counted,    \* reports recordDelivery has been called on
  produced,   \* stats.produced
  drOpen,     \* runSync has not closed dr
  remaining,  \* what Flush returned
  txn,        \* the transaction: "none" or "open"
  txnNo,      \* transactions begun, modulo AbortEvery
  txnStart,   \* seq when the transaction began
  txnMsgs,    \* messages accepted inside it
  visible,    \* messages a read_committed consumer sees
  committed,  \* stats.committed
  aborted,    \* stats.aborted
  budget      \* disruptions left

client   == <<accepted, local, fate, reports>>
score    == <<inHand, counted>>
txnState == <<txn, txnNo, txnStart, txnMsgs, visible, committed, aborted>>
rest     == <<mode, ctxDone, drOpen, remaining>>
vars     == <<pc, seq, client, score, produced, txnState, rest, budget>>

Locations == {"init", "next", "produce", "await", "endTxn", "preAbort", "abort",
              "flush", "close", "drain", "reported", "failed", "panicked"}
Ended == pc \in {"reported", "failed", "panicked"}

TypeOK ==
  /\ mode \in Modes
  /\ pc \in Locations /\ ctxDone \in BOOLEAN /\ drOpen \in BOOLEAN
  /\ seq \in 0 .. Count /\ produced \in 0 .. Count
  /\ accepted \subseteq Messages /\ local \subseteq accepted /\ reports \subseteq accepted
  /\ fate \in [Messages -> {"none", "delivered", "failed", "purged"}]
  /\ inHand \in Messages \union {Nothing} /\ counted \subseteq accepted
  /\ remaining \in 0 .. Count
  /\ txn \in {"none", "open"} /\ txnNo \in 0 .. AbortEvery /\ txnStart \in 0 .. Count
  /\ txnMsgs \subseteq Messages /\ visible \subseteq Messages
  /\ committed \in Nat /\ aborted \in Nat
  /\ budget \in 0 .. MaxDisruptions

Init ==
  /\ mode \in Modes
  /\ pc = IF mode = "transactional" THEN "init" ELSE "next"
  /\ ctxDone = FALSE /\ drOpen = TRUE /\ remaining = 0
  /\ seq = 0 /\ produced = 0
  /\ accepted = {} /\ local = {} /\ reports = {}
  /\ fate = [msg \in Messages |-> "none"]
  /\ inHand = Nothing /\ counted = {}
  /\ txn = "none" /\ txnNo = 0 /\ txnStart = 0 /\ txnMsgs = {}
  /\ visible = {} /\ committed = 0 /\ aborted = 0
  /\ budget = MaxDisruptions

Disrupt(kind) ==
  /\ kind \in Disruptions
  /\ budget > 0
  /\ budget' = budget - 1

\* An error a mode returns: run returns it without Flush and without Close.
Fails(kind) == Disrupt(kind) /\ pc' = "failed"

(***************************************************************************)
(* The loops of the modes.                                                 *)
(***************************************************************************)
\* Bug variant: what does not fill a batch is left for the next one.
FullBatchEnd == IF txnStart + TxnSize <= Count THEN txnStart + TxnSize ELSE txnStart
BatchEnd == IF txnStart + TxnSize < Count THEN txnStart + TxnSize ELSE Count

\* Bug variant: one message too many.
LoopsOnceMore == seq <= Count /\ ~ctxDone

\* The loop's own condition, and the check of the context outside a batch.
LoopGoesOn ==
  IF txn = "open" THEN seq < BatchEnd ELSE seq < Count /\ ~ctxDone

\* generator.next, inside produceLoop, runSync or a transaction's batch.
Generate ==
  /\ pc = "next"
  /\ LoopGoesOn
  /\ mode = "transactional" => txn = "open"
  /\ seq' = seq + 1
  /\ pc' = "produce"
  /\ UNCHANGED <<client, score, produced, txnState, rest, budget>>

\* The count is reached or the context is done.  runTransactional's abort then
\* finds no transaction open and its error is only logged.  Leaving runSync runs
\* the deferred close(dr).
LeaveLoop ==
  /\ pc = "next"
  /\ txn = "none" /\ ~LoopGoesOn
  /\ pc' = "flush"
  /\ drOpen' = FALSE
  /\ UNCHANGED <<seq, client, score, produced, txnState, mode, ctxDone, remaining, budget>>

(***************************************************************************)
(* produceWithBackpressure, and the counting that follows each return.     *)
(***************************************************************************)
QueueFull == Cardinality(local) >= QueueLimit[mode]

Produced ==
  /\ produced' = produced + 1
  /\ pc' = IF mode = "sync" THEN "await" ELSE "next"

Accept ==
  /\ pc = "produce" /\ ~QueueFull
  /\ accepted' = accepted \union {seq}
  /\ local' = local \union {seq}
  /\ txnMsgs' = IF txn = "open" THEN txnMsgs \union {seq} ELSE txnMsgs
  /\ Produced
  /\ UNCHANGED <<seq, fate, reports, score, rest, budget>>
  /\ UNCHANGED <<txn, txnNo, txnStart, visible, committed, aborted>>

\* Bug variant: a full queue is taken for a rejection the caller may ignore.
GiveUpAtOnce == TRUE
\* What ends the wait for room without an error.
GivesUp == ctxDone

\* produceWithBackpressure returns nil, and nothing was queued.
GiveUp ==
  /\ pc = "produce" /\ QueueFull /\ GivesUp
  /\ Produced
  /\ UNCHANGED <<seq, client, score, txnState, rest, budget>>

\* Bug variant: fireforget drains as well.
DrainsAll == mode # "sync"
\* The goroutine over Events() runs in every mode but fireforget; in sync mode
\* nothing ever arrives there.
Drains == mode \in {"async", "transactional"}

\* A real rejection, or the queue still full after maxWait.
ProduceFails ==
  /\ pc = "produce"
  /\ Fails("produceError") \/ (QueueFull /\ Fails("deadline"))
  /\ UNCHANGED <<seq, client, score, produced, txnState, rest>>

\* Events() is full for good, so there will be no room before the deadline.
StuckFull ==
  /\ pc = "produce" /\ QueueFull
  /\ ~Drains /\ Cardinality(reports) >= EventsLimit[mode]
  /\ pc' = "failed"
  /\ UNCHANGED <<seq, client, score, produced, txnState, rest, budget>>

(***************************************************************************)
(* librdkafka: deliveries and their reports.                               *)
(***************************************************************************)
\* The report goes to Events(), or in sync mode to dr; a send on the closed dr
\* panics.
Report(msgs, verdict) ==
  /\ local' = local \ msgs
  /\ fate' = [msg \in Messages |-> IF msg \in msgs THEN verdict ELSE fate[msg]]
  /\ reports' = reports \union msgs
  /\ UNCHANGED accepted

Deliver(msg) ==
  /\ msg \in local /\ ~Ended
  /\ Cardinality(reports) < EventsLimit[mode]
  /\ \/ Report({msg}, "delivered") /\ UNCHANGED budget
     \/ Report({msg}, "failed") /\ Disrupt("deliveryError")
  /\ pc' = IF mode = "sync" /\ ~drOpen THEN "panicked" ELSE pc
  /\ UNCHANGED <<seq, score, produced, txnState, rest>>

DrainTake ==
  /\ Drains /\ ~Ended
  /\ inHand = Nothing
  /\ \E msg \in reports : inHand' = msg /\ reports' = reports \ {msg}
  /\ UNCHANGED <<pc, seq, accepted, local, fate, counted, produced, txnState, rest, budget>>

DrainRecord ==
  /\ inHand # Nothing /\ ~Ended
  /\ counted' = counted \union {inHand}
  /\ inHand' = Nothing
  /\ UNCHANGED <<pc, seq, client, produced, txnState, rest, budget>>

\* Bug variant: sync mode does not read its own report.
AnyTime == TRUE
ReportIsIn == seq \in reports

\* runSync's select: its own report, or the end of the context.
AwaitReport ==
  /\ pc = "await" /\ ReportIsIn
  /\ reports' = reports \ {seq}
  /\ counted' = counted \union ({seq} \intersect reports)
  /\ pc' = "next"
  /\ UNCHANGED <<seq, accepted, local, fate, inHand, produced, txnState, rest, budget>>

AwaitInterrupted ==
  /\ pc = "await" /\ ctxDone
  /\ drOpen' = FALSE
  /\ pc' = "flush"
  /\ UNCHANGED <<seq, client, score, produced, txnState, mode, ctxDone, remaining, budget>>

(***************************************************************************)
(* runTransactional.                                                       *)
(***************************************************************************)
InitTransactions ==
  /\ pc = "init"
  /\ (pc' = "next" /\ UNCHANGED budget) \/ Fails("txnError")
  /\ UNCHANGED <<seq, client, score, produced, txnState, rest>>

BeginTransaction ==
  /\ mode = "transactional" /\ pc = "next" /\ txn = "none" /\ LoopGoesOn
  /\ \/ /\ txn' = "open"
        /\ txnNo' = IF AbortEvery > 0 THEN (txnNo + 1) % AbortEvery ELSE txnNo
        /\ txnStart' = seq /\ txnMsgs' = {}
        /\ UNCHANGED <<pc, budget>>
     \/ Fails("txnError") /\ UNCHANGED <<txn, txnNo, txnStart, txnMsgs>>
  /\ UNCHANGED <<seq, client, score, produced, rest, visible, committed, aborted>>

BatchIsFull ==
  /\ pc = "next" /\ txn = "open" /\ ~LoopGoesOn
  /\ pc' = IF AbortEvery > 0 /\ txnNo = 0 THEN "preAbort" ELSE "endTxn"
  /\ UNCHANGED <<seq, client, score, produced, txnState, rest, budget>>

\* Bug variant: the last transaction, too, is counted as a full one.
FullBatch == TxnSize
Batch == seq - txnStart

CloseTxn ==
  /\ txn' = "none"
  /\ txnMsgs' = {}
  /\ UNCHANGED <<txnNo, txnStart>>

AllSent == local \intersect txnMsgs = {}
\* Bug variant: the commit does not look at what became of the messages.
CommitAnyway == AllSent
\* CommitTransaction flushes, and a message that failed forbids the commit.
CanCommit == AllSent /\ \A msg \in txnMsgs : fate[msg] = "delivered"

Readable == {msg \in txnMsgs : fate[msg] = "delivered"}

Commit ==
  /\ pc = "endTxn" /\ CanCommit
  /\ visible' = visible \union Readable
  /\ committed' = committed + Batch
  /\ CloseTxn
  /\ pc' = "next"
  /\ UNCHANGED <<seq, client, score, produced, rest, aborted, budget>>

\* TxnRequiresAbort: because a message failed, or the coordinator says so.
CommitRejected ==
  /\ pc = "endTxn" /\ AllSent
  /\ \/ ~CanCommit /\ pc' = "abort" /\ UNCHANGED budget
     \/ Disrupt("commitRejected") /\ pc' = "abort"
  /\ UNCHANGED <<seq, client, score, produced, txnState, rest>>

\* Fenced or timed out: after a timeout the coordinator may have committed.
CommitFails ==
  /\ pc = "endTxn"
  /\ \/ Fails("txnError") /\ UNCHANGED txnState
     \/ /\ Fails("commitTimeout")
        /\ CanCommit
        /\ visible' = visible \union Readable
        /\ CloseTxn
        /\ UNCHANGED <<committed, aborted>>
  /\ UNCHANGED <<seq, client, score, produced, rest>>

\* Flush before a deliberate abort; what it returns is not looked at.
FlushBeforeAbort ==
  /\ pc = "preAbort"
  /\ (local = {} /\ reports = {} /\ UNCHANGED budget) \/ Disrupt("flushTimeout")
  /\ pc' = "abort"
  /\ UNCHANGED <<seq, client, score, produced, txnState, rest>>

\* AbortTransaction purges what was not delivered, and waits until every report
\* is handed over.
Abort ==
  /\ pc = "abort"
  /\ \/ /\ Cardinality(reports \union local) <= EventsLimit[mode]
        /\ Report(local, "purged")
        /\ aborted' = aborted + Batch
        /\ CloseTxn
        /\ pc' = "next"
        /\ UNCHANGED budget
     \/ Fails("txnError") /\ UNCHANGED <<client, txn, txnNo, txnStart, txnMsgs, aborted>>
  /\ UNCHANGED <<seq, score, produced, rest, visible, committed>>

(***************************************************************************)
(* The end of run: Flush, Close, wait for the drain goroutine, report.     *)
(***************************************************************************)
\* Bug variant: what is still on its way is not waited for.
ReportsOnly == reports

\* Flush looks at the local queue and at Events(), not at dr.  It returns when both
\* are empty or the time is up, which in fireforget, where nobody empties
\* Events(), is certain.
Unflushed == local \union (IF mode = "sync" THEN {} ELSE reports)

Flush ==
  /\ pc = "flush"
  /\ \/ Unflushed = {} /\ UNCHANGED budget
     \/ Unflushed # {} /\ Disrupt("flushTimeout")
     \/ ~Drains /\ Unflushed \intersect reports # {} /\ UNCHANGED budget
  /\ remaining' = Cardinality(Unflushed)
  /\ pc' = "close"
  /\ UNCHANGED <<seq, client, score, produced, txnState, mode, ctxDone, drOpen>>

\* Close drops the queue and closes Events().
Close ==
  /\ pc = "close"
  /\ local' = {}
  /\ pc' = "drain"
  /\ UNCHANGED <<seq, accepted, fate, reports, score, produced, txnState, rest, budget>>

\* Bug variant: report as soon as Close returns.
DrainedAtClose == TRUE
Drained == Drains => reports = {} /\ inHand = Nothing

ReportScore ==
  /\ pc = "drain" /\ Drained
  /\ pc' = "reported"
  /\ UNCHANGED <<seq, client, score, produced, txnState, rest, budget>>

\* The first signal cancels the context, the second one exits the process.
Signal ==
  /\ ~Ended
  /\ Disrupt("signal")
  /\ ctxDone' = TRUE
  /\ pc' = IF ctxDone THEN "failed" ELSE pc
  /\ UNCHANGED <<seq, client, score, produced, txnState, mode, drOpen, remaining>>

Main ==
  \/ Generate \/ LeaveLoop \/ Accept \/ GiveUp \/ StuckFull
  \/ AwaitReport \/ AwaitInterrupted
  \/ InitTransactions \/ BeginTransaction \/ BatchIsFull
  \/ Commit \/ CommitRejected \/ FlushBeforeAbort \/ Abort
  \/ Flush \/ Close \/ ReportScore

Next ==
  \/ Main \/ ProduceFails \/ CommitFails \/ Signal
  \/ DrainTake \/ DrainRecord
  \/ \E msg \in Messages : Deliver(msg)

Spec == Init /\ [][Next]_vars

(***************************************************************************)
(* Fairness: both goroutines run on, and what librdkafka accepted gets a   *)
(* verdict (delivery.timeout.ms sees to that).                             *)
(***************************************************************************)
FairSpec ==
  /\ Spec
  /\ WF_vars(Main)
  /\ WF_vars(DrainTake) /\ WF_vars(DrainRecord)
  /\ \A msg \in Messages : WF_vars(Deliver(msg))

(***************************************************************************)
(* Properties.                                                             *)
(***************************************************************************)
\* Ctrl+C took runSync's select away from this message, whose report may lie in dr
\* (main.go:400).
Abandoned(msg) == mode = "sync" /\ ctxDone /\ msg = seq

\* When the score is printed, the reports it lacks are among the messages Flush
\* said it gave up on (run, report), the message an interrupted runSync was waiting
\* for excepted: Flush does not see dr, and run prints "queue drained; every accepted
\* message reached a final verdict" over a score that lacks that one report.
FlushIsHonest ==
  pc = "reported" =>
    Cardinality({msg \in accepted \ counted : ~Abandoned(msg)}) <= remaining

\* A full local queue costs no message: as long as nobody interrupts the run,
\* what is counted as produced was accepted (produceWithBackpressure).
FullQueueLosesNothing ==
  ~ctxDone => produced = Cardinality(accepted)

\* Every message Produce accepts has its report counted in the end, unless Flush
\* ran out of time, the run failed, or it is the one message an interrupted runSync
\* was waiting for (the drain goroutine, runSync's select, Flush, Close, <-drained).
AcceptedIsSettled ==
  \A msg \in Messages :
    msg \in accepted ~>
      (msg \in counted \/ Abandoned(msg) \/ remaining > 0 \/ pc = "failed")

\* Sync mode hands a message to Produce only when every earlier one has its
\* verdict on the score (runSync's select).
VerdictBeforeNext ==
  mode = "sync" /\ pc \in {"next", "produce"} => accepted \subseteq counted

\* An interrupted run ends by flushing and reporting, not with a panic.
NeverPanics == pc # "panicked"

\* With nobody draining, nothing is ever counted and Flush gives up on every
\* message accepted, delivered or not (explainMode on fireforget).
FireForgetKnowsNothing ==
  mode = "fireforget" =>
    /\ counted = {}
    /\ pc = "reported" => remaining = Cardinality(accepted)

\* The report's two transaction lines are what a read_committed consumer sees and
\* what it will never see, and between them they cover everything produced.
TxnAccounting ==
  pc = "reported" /\ mode = "transactional" =>
    /\ committed = Cardinality(visible)
    /\ committed + aborted = produced

\* A transaction that Ctrl+C finds open is aborted: nothing becomes visible any
\* more once the context is done (runTransactional's comment).
InterruptAborts == [][ctxDone => visible' = visible]_vars

\* A run with a message count comes to an end, however its transactions end and
\* whatever is left for the last one (runTransactional's two loops).  Not so in
\* fireforget, where a full Events() channel holds the queue up for good.
RunEnds == mode # "fireforget" => <>Ended

\* Messages become visible a whole batch at a time and in order, or never.
Batched ==
  INSTANCE Batches WITH cursor <- IF txn = "open" THEN txnStart ELSE seq
RefinesBatches == Batched!Spec

=============================================================================
