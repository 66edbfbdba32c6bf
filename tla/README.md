# Verification of the Kafka training clients

The repository holds three Go command-line programs over confluent-kafka-go
(librdkafka): `cmd/producer`, `cmd/consumer` and `cmd/topicadmin`, with a
configuration loader and a few helpers between them, and a lab that runs them.
Their subject is delivery guarantees: what a message's fate is under each way of
producing it and of committing its offset. That is what is specified here, in TLA+,
model-checked with TLC, and, all but the liveness, proved with TLAPS; of the liveness, the
half that is a safety property is proved.

## The system

| Component | State | Operations | Hard behaviour |
|---|---|---|---|
| consumer (`cmd/consumer/main.go`) | assignment, position and stored offset per partition (in librdkafka), `counters`, the transaction of the eos mode, the dead-letter producer's queue | `loop`, `handleMessage`, `process`, `toDeadLetter`, `onRebalance`, `commitTransaction`, `abortTransaction`, `shutdown` | background commits between any two steps; rebalances and evictions; crashes; Ctrl+C in the middle of a message; dead letters that fail later |
| producer (`cmd/producer/main.go`) | the generator's `seq`, librdkafka's bounded queue, the `Events()` channel, `stats`, the open transaction | the four modes' loops, `produceWithBackpressure`, `handleEvent`, flush, close, `report` | two goroutines and librdkafka's thread; a full queue; failed deliveries; flush timeouts; transactions that must be aborted or fail half way; Ctrl+C anywhere |
| signals (`internal/kclient`, `SignalContext`) | a context | first signal cancels it, second one exits | arrives between any two steps |
| topicadmin (`cmd/topicadmin/main.go`) | none of its own; the cluster's | create, describe, alter, partitions, offsets, list, delete | metadata that lags behind what the controller accepted; lost answers; lookups with time between them |
| configuration (`internal/config`) | key-value layers with the source of each | `LoadFile`, `Apply`, `Resolve`, typed getters | order of layers; unset environment references |
| start-up (`run` in each `main.go`, `internal/kclient`) | the configuration being assembled | read files, apply `-set`, resolve, check credentials and mode, make the client | checks on words whose meaning the library decides |
| order model (`internal/model`) | none | encode, decode | none beyond "can be decoded or not" |
| scripts, broker set-up | none | run the programs one after another | none |

The producer writes the topic the consumer reads; the programs share nothing else.
Within a consumer everything but the background committer and the dead-letter
producer runs on one goroutine: the rebalance callback is called inside `Poll` (and
once more inside `Close`). Within a producer the main goroutine, the goroutine that
drains `Events()` and librdkafka's thread run side by side.

What makes each correct:

* consumer, `manual`: at-least-once: the group's committed offset never covers a
  message nobody tried, never moves back, and a message that failed is quarantined;
  a bad message does not stop its partition; a hand-over repeats no work;
* consumer, `atmostonce`: no message is processed twice; `autocommit`: at risk are
  only messages in hand;
* consumer, `eos`: output and input offset happen together, once;
* start-up: the last line wins; a client that exists was given everything it needs
  and the commit machinery its mode needs; an overlay can replace what is missing;
* topicadmin: after a wait the metadata is there on some broker, unless it says
  otherwise; `offsets` never counts fewer messages than there are; every command comes
  back;
* producer: the report at the end of a run tells the truth about what was accepted,
  delivered, committed and aborted; a full queue loses nothing; every accepted
  message gets a verdict; transactions are all or nothing and none is left open.

## Modules

| Module | What it is |
|---|---|
| `Consumer` | a consumer group in one of the modes `manual`, `autocommit`, `atmostonce` |
| `Bookmark` | what such a group promises about its committed offsets (abstract) |
| `ConsumerProofs` | theorems about `Consumer` and their proofs |
| `ConsumerLossProofs` | theorems about what a commit of `Consumer` may be ahead of; extends `ConsumerProofs` |
| `ConsumerOrderlyProofs` | theorems about `Consumer` while partitions change hands in order; extends `ConsumerProofs` |
| `MCConsumer` | constants of `Consumer` for TLC |
| `ConsumerEos` | a consumer group in mode `eos`, with the transaction coordinator |
| `ConsumerEosProofs` | theorems about `ConsumerEos`, the refinement of `ExactlyOnce` among them |
| `ExactlyOnce` | what consume-transform-produce promises (abstract) |
| `MCConsumerEos` | constants of `ConsumerEos` for TLC |
| `Producer` | one run of the producer, in any of its four modes |
| `ProducerProofs` | theorems about `Producer`, the refinement of `Batches` among them |
| `Batches` | what the transactional producer promises a read_committed reader (abstract) |
| `MCProducer` | constants of `Producer` for TLC |
| `Config` | `internal/config` and the checks of `internal/kclient`, as operators |
| `Startup` | the three programs from files, overrides and environment to a client |
| `StartupProofs` | theorems about `Startup` |
| `TopicAdmin` | a series of admin commands against a topic with lagging metadata |
| `TopicAdminProofs` | theorems about `TopicAdmin` |
| `MCTools` | `Startup` and `TopicAdmin` side by side: shipped files, user input, small cluster |
| `ToolsProofs` | `MCTools` implements `Startup` and `TopicAdmin`; extends the proofs of both |

### Consumer

Each member is a process with its own `pc`: `loop` → (`commitFirst` →) `process` →
(`store` →) `loop`, and after the loop `finalCommit` → `flush` → `close` → `down`.

| Code | Model |
|---|---|
| librdkafka's assignment, positions, stored offsets | `held`, `position`, `stored` |
| the group coordinator's view and `__consumer_offsets` | `owner`, `committed` |
| `loop` | `ExitLoop`, `PollNothing`, `PollMessage`, `PollEOF`, `PollFatal` |
| `handleMessage`, `process`, `toDeadLetter` | `CommitFirst`, `ProcessOk`, `ProcessFail`, `StoreOffset` |
| `onAssigned`, `onRevoked` | `Assigned`, `Revoked`, `RevokedLost` |
| `shutdown`, the deferred closes | `FinalCommit`, `Flush`, `Close` |
| the auto-commit timer | `BackgroundCommit` |
| dead-letter delivery reports | `DlqDelivered`, `DlqLost` |
| `SignalContext` | `Signal`, `Crash` (second signal) |
| `validateModeAgainstConfig` | `ModeAllowed`, assumed of the constants |

A step of the model is the code between two calls that another party can see.
`counters` is kept only where control depends on it (`received`, `eofSeen`); a
message is a pair of partition and offset; whether it can be decoded is the
constant `Poison`; a failure by `app.fail.rate` may or may not happen. The
dead-letter producer exists only when the failure rate is above zero, as in
`startHelperProducers`. `attempts` and `succeeded` are history variables: no action
reads them.

About librdkafka and the broker the model assumes: `auto.offset.store` stores at
delivery; giving a partition up forgets its stored offset; a commit is accepted only
from the current owner; an evicted member learns of it at a later `Poll`; the EOF
event of a partition comes after its last message.

### ConsumerEos

`pc`: `loop` → `process` → `loop`, every `TxnEvery` messages `send` → `commit` (or
`abort`), the same from the callback (then `unassign`) and from `shutdown` (then
`close`, whose callback commits once more). `task` says who called
`commitTransaction`, because its callers treat an error differently: `loop` leaves,
`onRevoked` and `shutdown` log it and go on.

| Code | Model |
|---|---|
| `loop`, `handleMessage`, `process` | `LeaveLoop`, `PollNothing`, `PollMessage`, `ProcessOk`, `ProcessFail` |
| `commitTransaction` | `SendOffsets`, `CommitTxn`, `CommitTxnFails` |
| `abortTransaction` | `AbortTxn`, `AbortTxnFails` |
| `onAssigned`, `onRevoked` | `Assigned`, `Revoked`, `RevokedLost`, `Unassign` |
| `shutdown`, the end of `run` | `Close`, `Exit`; `Crash` for a second signal |
| `startHelperProducers` | `Start` |
| the transaction coordinator | `LateCommit`, `TxnExpires`, `ApplyTxn`, `ClearTxn` |

`txn` and `sent` are the coordinator's and survive the process. `failed` and `astray`
are histories: `failed` are messages `process` returned an error for, which the
next transaction marks done without an output; `astray` are messages the open
transaction no longer accounts for. `ExactlyOnce` makes no promise about the second
kind. Only three things add to it, and each is needed: without it TLC finds
`RefinesExactlyOnce` violated. They are in the list of divergences below.

About librdkafka and the broker the model assumes: `Position` is one past the last
message consumed since the partition was assigned or sought; `Seek` to the
committed offset, with `auto.offset.reset=earliest` where there is none, makes the
next poll begin there; the transaction calls take only the deadline of the context they
are given; `CommitTransaction` flushes first; offsets sent by a member of an older
generation are refused; `InitTransactions` aborts what the id left open and fences its
other user; a newly assigned partition's offset is read with
`isolation.level=read_committed`, which waits for pending transactional offsets; a
crashed or closed process leaves its transaction to `transaction.timeout.ms`.

### Producer

`pc` is the main goroutine; `mode` is fixed at the start. `accepted`, `local`,
`fate` and `reports` are librdkafka's side, `inHand` and `counted` the drain
goroutine's, `txn...`, `visible`, `committed` and `aborted` the transaction's.
`stats.delivered`, `failed` and `purged` are `counted` split by `fate`.

| Code | Model |
|---|---|
| `generator.next`, the loops' conditions | `Generate`, `LeaveLoop`, `LoopGoesOn`, `BatchEnd` |
| `produceWithBackpressure` | `Accept`, `GiveUp`, `ProduceFails`, `StuckFull` |
| `recordDelivery`, `handleEvent` | `DrainTake`, `DrainRecord` |
| `runSync`'s select | `AwaitReport`, `AwaitInterrupted` |
| `runTransactional` | `InitTransactions`, `BeginTransaction`, `BatchIsFull`, `Commit`, `CommitRejected`, `CommitFails`, `FlushBeforeAbort`, `Abort` |
| `run` after the loop | `Flush`, `Close`, `ReportScore` |

About the client library the model assumes: `CommitTransaction` flushes first and
refuses when a message of the transaction failed; `AbortTransaction` purges what is
queued; the transaction calls take only the deadline of the context they are given,
not its cancellation; `Flush` counts the local queue and `Events()`, not a
per-message channel; a send on a closed Go channel panics.

### Config, Startup

A configuration is a function from keys to the winning value and its source; a
value is its literal text and the `${NAME}` references still in it, which is all that
`expandEnv`, `Resolve`, `ConfigMap` and the checks tell apart. `Config.order` serves
printing only and is left out.

| Code | Model |
|---|---|
| the file lists, `LoadList`, `LoadFile` | `FileLists`, `NoFileGiven`, `NoConfigList`, `OpenFails`, `LoadPair`, `LoadIgnored`, `LoadMalformed`, `EndOfFile` |
| `Apply` | `ApplyPair`, `ApplyMalformed` |
| `Resolve`, `RequireCloudCredentials` | `ResolveAll`, `CheckCredentials` |
| the getters and `validateModeAgainstConfig` | `CheckSettings` (`ConsumerSettings`, `ProducerSettings`) |
| `ConfigMap` and the client's constructor | `NewClient`, `ClientRefused` |
| the producer's switch on the mode | `Begin`, `ModeUnknown` |
| `startHelperProducers` | `Begin`, `HelpersRefused` |
| the switch on `-cmd`, `create`'s first lines | `Begin`, `CommandRefused` |

`topicadmin` has two configurations (`cfg`, `topicCfg`); `-set` reaches only the
second. A refusal is a phase of its own, named for its reason. `read` is a history of
the pairs read. Each program takes two lists of files, and a list may be empty:
`LoadList` refuses that, while the consumer and the producer go through their own list
themselves and read nothing. `strings.ToLower` of the mode and the SASL prefix of
`security.protocol` are the constants `Lower` and `SaslWords`, which say of each word
what the two conversions make of it. The consumer's `Subscribe`, the first thing after
start-up, is not part of it.

### TopicAdmin

Each command is a process; they run one after another. `topic` and `layouts` are the
controller's, `view` how far each broker has replayed `layouts`. A query may be
answered by any broker. One partition stands for all in `offsets`.

| Code | Model |
|---|---|
| flags, the switch on `-cmd` | `Invoke`, `RefuseFlags` |
| `create`, `alter`, `addPartitions`, `deleteTopic` | actions of the same names, `CreateSkips`, `RequestFails` |
| `waitForTopic`, `waitForPartitions` | `WaitEnds`, `WaitForTopicExpires`, `WaitForPartitionsExpires` |
| `describe`, `list` | `ShowLayout`, `Unknown`, `DescribeConfigs`, `QueryFails` |
| `offsets` | `ListPartitions`, `EarliestOffsets`, `LatestOffsets`, `LatestFails` |
| the cluster | `CreateTopics`, ..., `DeletionDone`, `Propagate`, `Write`, `Retention` |

`RequestFails` covers a refusal and an answer that never comes: the change is made
or it is not. That a deletion leaves the name taken for a while is what
`topicadmin/main.go:590` says of the brokers.

## Runs

Every counter of trouble is bounded by `MaxDisruptions`; which kinds of trouble may
happen is the constant `Disruptions`. Bounds were raised until every action and
every disjunct fired and the state space still fits a few minutes.

| Run | Bounds | Shows |
|---|---|---|
| `consumer_manual_faults` | 2 members, 2 partitions of 2 messages, 3 disruptions out of crash, rebalance, eviction, failing commit and store; the last message of partition 0 undecodable | `CommittedIsHandled`, `CommitMonotone`, `RefinesBookmark`, and the two invariants the proofs rest on, `HandledBelow` and `OwnerIsAhead`. Two members and two partitions are the least with which a partition moves between members while the other stays; three disruptions allow evict, move, come back. |
| `consumer_manual_orderly` | the same group, eager protocol, dead letters, exit on EOF, 2 signals or rebalances | `NothingLost`, `HandledOnce`, `EofExitIsComplete`: without crashes and evictions nothing is lost, nothing is done twice and the EOF exit is complete. |
| `consumer_atmostonce` | 3 disruptions out of crash, both signals, fatal error and rebalance, `app.max.messages` 2 | `HandledOnce` survives crashes; `LossIsBounded`: never more messages lost than disruptions. At-most-once is where each crash may lose a message; three disruptions, because after one a bound of one message could be met by chance. |
| `consumer_autocommit` | 3 disruptions, no crash | `AtRiskIsInHand`, `RefinesBookmarkOfTouched`: the same abstract bookmark as in `manual`, but over what is handled or in hand. |
| `consumer_liveness` | 2 members, 1 partition of 3 messages, dead letters that may be refused, lost or not flushed, exit on EOF, 1 disruption | `EventuallyCommitted`, `SignalStops`, `SignalLeadsOut`. One disruption, because with two both members may die and nobody restarts a process. |
| `eos_faults` | 2 members, 2 partitions of 2 messages, a commit every 2, 2 transactional ids, one undecodable message, 2 disruptions out of all sixteen kinds | `TxnCovers`, `VisibleOnce`, `RefinesExactlyOnce`, `SignalLeadsOut`. Two partitions and a commit every two messages let a transaction span both; two disruptions allow one failure and then a failure, crash or hand-over during its repair. Members and ids are symmetric. |
| `producer_all` | 5 messages, local queue of 2, and `Events()` of 2 reports outside transactions, transactions of 2 with every second one aborted, 3 disruptions | `FlushIsHonest`, `FullQueueLosesNothing`, `VerdictBeforeNext`, `FireForgetKnowsNothing`, `TxnAccounting`, `AcceptedIsSettled`, `RefinesBatches`, `RunEnds`. Both queues fill up; in fireforget they fill up for good, and `RunEnds` is about the other modes. The last transaction is a short one. The local queue has room for one transaction; see below for what happens when it has not. |
| `tools_all` | `Startup`: two lists, each with or without its shipped file, one of six overlays or a missing file, at most three files in all, up to 2 of 27 overrides, three environments; `TopicAdmin`: two brokers, 3 commands, up to 2 partitions, 2 entries, 2 messages | `LastLineWins`, `OverlaysRescue`, `ClientIsComplete`, `ModeIsHonoured`; `SomeBrokerKnows`, `RetainedIsNotUnderstated`, `CommandEnds`. Modes and protocols are also offered in capitals, and the switches as words that only the library takes for booleans. Two overrides are the least with which one undoes or completes another; three commands give create, change, delete and delete, create. A behaviour is one of either machine: they share nothing, and the product would only repeat states. |

Four runs look for a disagreement between the code and what the repository says of
it, and find it:

| Run | Finding |
|---|---|
| `consumer_lost_interrupted` | Ctrl+C inside `process` returns `ctx.Err()`, which `handleMessage` treats as any failure: with no dead-letter producer the message is neither processed nor quarantined, and its offset is stored and committed. `manual` is documented as at-least-once. |
| `consumer_eof_stale` | `eofSeen` is not cleared when partitions are lost; a partition assigned again with its position back at the committed offset counts as finished. |
| `producer_sync_panic` | Ctrl+C while sync mode waits: the deferred `close(dr)` runs, then `Flush` waits for the report, which is sent on the closed channel. |
| `producer_txn_interrupted` | "Ctrl+C mid-transaction: abort": the context is looked at only between transactions, so the open one is completed and committed, and the abort is called with none open. |

Other divergences met while modelling, which have no run of their own:
in sync mode Ctrl+C may be taken by
`runSync`'s select (`producer/main.go:400`) while the report of the message it waits for
lies in `dr`: `Flush` looks at the queue and at `Events()` only, returns zero, and "queue
drained; every accepted message reached a final verdict" (`main.go:269`) is printed over a
score that lacks that message. `FlushIsHonest` and `AcceptedIsSettled` except it by name
(`Abandoned`; without the exception both fail). The run shows for both, and `ScoreIsComplete`
proves for the first, that it is the only one. `app.max.attempts` is read nowhere (`handleMessage` tries once); a dead letter whose
delivery fails, or which is still queued at a crash, is lost although the offset
advanced (put `dlqLost` or `crash` into `Disruptions` of
`consumer_manual_orderly` to see `NothingLost` fail); an evicted member in
`atmostonce` processes a message although its commit was refused; a message given up
on because Ctrl+C meets a full queue is counted as produced, and inside a
transaction as committed (set `QueueLimit` of transactional mode to 1 in `MCProducer`);
the error exits of `runTransactional` leave the transaction open; with
`app.transaction.size=0` the transactional loop never ends (`TxnSize = 0` violates
`RunEnds`).

In eos mode, against "either the output exists and the input is marked done, or
neither happened" (LAB.md, exercise 11):

* a lost assignment (`main.go:656`) keeps the open transaction: its outputs become
  visible with the next commit although their inputs belong to somebody else now, who
  produces them again;
* an error of `Assignment`, `Position` or `GetConsumerGroupMetadata` inside the
  callback is logged and the partitions are given back: the same;
* a `Seek` that fails after an abort is logged: the next commit marks inputs done
  whose outputs were discarded;
* a message whose processing failed, was interrupted by Ctrl+C, or met a full local
  queue (`main.go:505`) is marked done without an output;
* all members of a group share the default `app.output.transactional.id` and fence
  each other; a fenced member leaves `loop` at its next commit;
* on a topic gone quiet nothing commits (`main.go:380` counts messages, not time), and
  `transaction.timeout.ms` aborts what is open.

The first three are what `astray` stands for; drop one from `SendOffsets`,
`RevokedLost` or `AbortTxn` and `RefinesExactlyOnce` fails.

In start-up: `app.mode=autocommit` compares with the word `false` only, so that
`enable.auto.commit=0` passes (`consumer/main.go:237`) and nothing is committed in the
background, and `enable.auto.offset.store=0` likewise. `ModeIsHonoured` names these words
as its exception, and says that nothing else gets past the check. An empty topic entry
is sent to the broker although an empty client property is left at its default
(`topicEntries` does not go through `ConfigMap`).

In topicadmin: with several brokers, as in `docker/docker-compose.yml`, the poll that ends a
wait and the `describe` after it may be answered by different ones, and the old
layout, or "does not exist", is printed without the note (MANUAL.md:436:
"`topicadmin` waits for it"). What the wait does give, on any number of brokers, is
`SomeBrokerKnows`: the change is known to one of them and stays known; that
`describe` shows it would need one broker to answer both. the view of a
deleted topic of the same name satisfies either wait; `create` while a deletion is
under way prints SKIP and describes the topic that is going away; `alter` describes at
once, without a wait; `-dry-run` is ignored by `partitions` and `delete`
(MANUAL.md:202, "change nothing", names no exception, the help text of the flag does); a failed latest lookup is counted as offset zero
(`topicadmin/main.go:535`), which makes the retained count negative.

The consumer's ordering check counts messages delivered again after a rewind or a
reassignment as out of order, because `runSeq` is never reset (`main.go:432`).

### Fairness

`Consumer!FairSpec`: a member's goroutine keeps running (weak fairness of `Runs`,
whose steps are each enabled until taken; `Poll` returns every 500 ms), the
auto-commit timer fires, the dead-letter producer delivers, and the coordinator
assigns partitions nobody owns. Trouble and restarts have no fairness.
`Producer!FairSpec`: both goroutines keep running, and every accepted message gets a
verdict, which `delivery.timeout.ms` guarantees in librdkafka. Trouble has none.
`TopicAdmin!AdminFairness`: the command's process runs on, and its requests and waits
have deadlines (`-timeout`, 20 s and 30 s); the cluster has none, so that metadata may
lag for ever. `ConsumerEos` and `Startup` state no liveness: the first is checked under
symmetry, with which liveness is unsound in TLC, and what can be said of its way out
without fairness, `SignalLeadsOut`, is proved; the second is a straight line.

Deadlock is checked in every consumer run (a stopped member may be started again).
A producer run ends, and so do a start-up and a series of commands: their
configurations switch the check off.

## Theorems

TLC checks the runs' small instances; TLAPS proves the following for any sets of
members, partitions and brokers, any numbers of messages, entries, lines and commands, any
queue limits and commit intervals, and any number of disruptions. The assumptions on the
constants are the named ones in the modules (`BoundsAssumption`, `EosBounds`,
`ProducerAssumption`, `AdminAssumption`, `FilesAssumption`, `LinesAssumption` and so on), which
TLC evaluates in every run.

| Module | Theorem | Statement |
|---|---|---|
| `ConsumerProofs` | `TypeCorrect` | `Spec => [](TypeOK /\ InHand)` |
| | `ManualCommitsHandled` | `Mode = "manual" /\ Spec => []CommittedIsHandled` |
| | `ManualStoresHandled` | `Mode = "manual" /\ Spec => []HandledBelow` |
| | `OwnersLead` | `Spec => []OwnerIsAhead` |
| | `CommitsMoveForward` | `Spec => CommitMonotone` |
| | `ManualRefinesBookmark` | `Mode = "manual" /\ Spec => RefinesBookmark` |
| | `SignalsLeadOut` | `Spec => SignalLeadsOut` |
| `ConsumerLossProofs` | `RiskIsInHand` | `(Mode = "manual" \/ Unhurt) /\ Spec => []AtRiskIsInHand` |
| | `ManualLosesNothing` | `NothingDropped /\ Mode = "manual" /\ Spec => []NothingLost` |
| | `TouchedRefinesBookmark` | `Unhurt /\ Spec => RefinesBookmarkOfTouched` |
| | `DisruptionsBoundLoss` | `QueuesSurvive /\ Spec => []LossIsBounded` |
| `ConsumerOrderlyProofs` | `HandedOverOnce` | `Orderly /\ Spec => []HandledOnce` |
| | `LeavesAtTheEnd` | `NoSurprise /\ Spec => EofExitIsComplete` |
| `ConsumerEosProofs` | `TypeCorrect` | `Spec => []TypeOK` |
| | `TransactionCoversPositions` | `Spec => []TxnCovers` |
| | `ConsumerEosRefinesExactlyOnce` | `Spec => RefinesExactlyOnce` |
| | `OutputsAreVisibleOnce` | `Spec => []VisibleOnce` |
| | `SignalsLeadOut` | `Spec => SignalLeadsOut` |
| `ProducerProofs` | `TypeCorrect` | `Spec => []TypeOK` |
| | `FullQueueIsWaitedFor` | `Spec => []FullQueueLosesNothing` |
| | `SyncWaits` | `Spec => []VerdictBeforeNext` |
| | `FireForgetIsBlind` | `Spec => []FireForgetKnowsNothing` |
| | `ScoreIsComplete` | `Spec => []FlushIsHonest` |
| | `ReportedTransactions` | `NoneGivenUp /\ Spec => []TxnAccounting` |
| | `ProducerRefinesBatches` | `NoneGivenUp /\ TxnSize > 0 /\ Spec => RefinesBatches` |
| `TopicAdminProofs` | `AdminTypeCorrect` | `AdminSpec => []AdminTypeOK` |
| | `RetainedIsCounted` | `AdminSpec => RetainedIsNotUnderstated` |
| | `WaitsAreForSomething` | `AdminSpec => []SomeBrokerKnows` |
| `StartupProofs` | `StartupTypeCorrect` | `StartupSpec => []StartupTypeOK` |
| | `LastLinesWin` | `StartupSpec => []LastLineWins` |
| | `OverlaysDoRescue` | `StartupSpec => []OverlaysRescue` |
| | `ClientsAreComplete` | `StartupSpec => []ClientIsComplete` |
| | `ModesAreHonoured` | `StartupSpec => []ModeIsHonoured` |
| `ToolsProofs` | `ToolsImplementBoth` | `Spec => StartupSpec /\ AdminSpec` |
| | `ToolsTypeCorrect` | `Spec => []TypeOK` |

### Hypotheses

Where a theorem has a hypothesis, the code breaks the property without it:

| Hypothesis | Excludes | Because |
|---|---|---|
| `Mode = "manual"` | the other modes | they store or commit before the work, on purpose |
| `Unhurt` (not needed in `manual`) | crash, second Ctrl+C | in `autocommit` and `atmostonce` the message in hand is then in nobody's hand, and lost |
| `QueuesSurvive` | with dead letters: crash, second Ctrl+C, a flush that runs into its time limit | these lose the whole dead-letter queue of the process at once, however long it is (`main.go:729`) |
| `NothingDropped` | with dead letters: a dead letter that is refused, fails or is still queued when its process dies; without: messages that fail (undecodable ones, and Ctrl+C where `process` is interruptible) | the divergences above: the offset advances whatever becomes of the dead letter, and with `app.fail.rate=0` there is no dead-letter producer. Without dead letters crashes are included |
| `Orderly` | eviction, a commit that fails; outside `atmostonce` crash and second Ctrl+C; in `manual` a failing store | at-least-once: the next owner starts at what was committed, and does the rest again. In `atmostonce` a crash comes after the commit, but an evicted member goes on to process a message whose commit was refused |
| `NoSurprise` | eviction, a commit that fails, a fatal error | a fatal error leaves the loop by the same way out, with partitions unread; the other two take a partition back below the end that `eofSeen` remembers. Crashes are included, since the dead process's `eofSeen` dies with it, and so are failing stores, after which the member reads no more |
| `NoneGivenUp` | Ctrl+C while the transactional queue is full (no Ctrl+C, or a queue with room for one transaction) | `produceWithBackpressure` gives the message up and the loop counts it as produced |
| `TxnSize > 0` | `app.transaction.size=0` | every batch is then empty, and the loop never ends: `Batches` has no empty batches |

No hypothesis is needed in mode `eos`: the ways in which it breaks its promise are
in `astray`, for which `ExactlyOnce` makes none. `LinesAssumption` says of the shipped
files, overlays and overrides that a line with a key is a pair of a key and a value,
which is what `LoadFile` and `Apply` make of it (`strings.Cut`).

### How they are proved

None of the properties is inductive as it stands.

*Consumer.* `TypeOK` needs `InHand`: the message in hand has its partition still
held and the position just behind it, because no callback runs between `Poll` and the
end of `handleMessage`. `CommittedIsHandled` follows from `HandledBelow`: behind a
member's position only the message in hand may be untried, and behind a stored offset
none. It is preserved because a member starts at the committed offset, `StoreOffset`
comes after `process`, and `Unassign` forgets what was stored. `CommitMonotone`
follows from `OwnerIsAhead` (with `TypeOK` and `InHand`: `FenceInv`): the owner's
position and stored offset are at or past the committed one, and an evicted member
owns nothing it still holds, so that its commits change nothing. The refinement
combines the two: every step is a stutter, one `Handle`, or one `Advance` that the
invariants allow.

*What may be lost.* `AtRiskIsInHand` speaks of the group's offset; `RiskInv` speaks of
what may become that offset: whatever is below any position has been handled or is
in some hand (`TouchedBelow`), and a hand is emptied only when its message has been
handled (`Idle`). `NothingLost` is `HandledBelow` plus an account of everything handled:
succeeded, in the dead-letter topic, or queued (`HandledIsAccounted`), where a queue is
empty by the time its process closes (`QueuesEmptied`).

`LossIsBounded` counts, and what it counts may grow at a step that is no disruption: a
background commit uncovers a message that a crash lost long before, and a process that was
signalled loses its message only when `process` returns. So the invariant counts what is
lost for good, committed or not (`Missing`), and the members a signal caught with work in
hand (`Doomed`). `LossIsCounted`: both together are no more than the disruptions so far. At
most one message goes missing in a step (`OneIsLost`), and only a disruption or one of the
doomed pays for it (`LossIsPaid`).
`RefinesBookmarkOfTouched` is `RiskInv` read as a refinement: what was touched stays touched
while no process dies (`TouchedGrows`), and a commit covers nothing else.

*The way out.* `SignalStops` is a leads-to. What it rests on is proved: `StepsLeft` is a
number that every step of a signalled member's goroutine lowers and nothing else raises
(`SignalsLeadOut`), for which one has to know that a process which is down has no
cancelled context left (`DownIsReset`). That the goroutine takes its steps is the
fairness, and stays with TLC's `SignalStops`; in mode `eos` it stays an assumption, justified
by the time limits of the calls it waits in. There the number depends on who called
`commitTransaction`: each of its callers goes on somewhere else after an error, and none
of them back.

*What is done once.* Neither `HandledOnce` nor `EofExitIsComplete` says where the next owner
starts. `CaughtUp` does: were the owner to commit now, the group's offset would be its
position, but for the message in hand. The frontier of a partition (the owner's
position, or the group's offset while nobody owns it) then only moves forward
(`FrontierMoves`), so that what has been tried stays below it (`TriedIsBelow`). The one
step back, `FallsBack`, is a crash in `atmostonce` before the commit: it takes back a
message nobody has tried (`NewIsUntried`). For the exit at EOF the frontier is too
much to ask, since a crash moves it back; enough is that a member which has seen the end of
a partition stands there as its owner, or the group has committed it (`SeenAtEnd`),
although `eofSeen` outlives the assignment. `CaughtUp` leaves out a member that failed to
store (`Unstored`): it has left its loop and reads nothing more.

*Exactly-once.* `Sound` puts four things beside `TypeOK` and `InHand`. The owner leads the group
(`OwnerLeads`). Of a partition's offsets one transaction at most has a part
(`SentOnce`), so that a commit does not disturb another member. A member has no
output left of a partition it gave back (`NothingLeftBehind`), so that it starts afresh
when the partition returns. `Covered` is `TxnCovers` message by message. A commit takes
effect when the coordinator says so, perhaps after its member moved on or died; what
makes it a step of `ExactlyOnce` is what held when the offsets were sent, and that
nothing touched it since (`DecidedIsBacked`). `VisibleOnce` adds what a reader sees at any
one time to what each step may do: it is an invariant of the abstract `ExactlyOnce`, carried
over by the refinement.

*Producer.* `Stages` says which mode and transaction go with which place in the code,
`Counts` that a message is generated, accepted and reported in that order and once.
Each property adds what it needs of the queues: `OneInFlight` (in sync mode, and to its
report: at most the message waited for lacks a verdict), `NobodyDrains`, `FlushCounts`
(what `Flush` counted only shrinks until the report). The transactional
theorems rest on `BatchesKept`: every batch before the open one is visible or aborted as a
whole, the open one is what was produced since it began, and nothing else is in the
local queue, which is why room for one transaction is enough.

*TopicAdmin.* The earliest offset found is never past the first retained one, since that
only moves up while the topic exists (`LookedUp`). A topic never deleted only grows (`Grows`)
and brokers replay its layouts in order, so that none goes back behind what it answered
a wait with (`SeenGrows`).

*Startup.* `LastLineWins` names the winning line by its place in all that was read; `Won` says
that there is one and that no later line is for the same key of the same
configuration. `Checked` says that what a check established still holds in every later
phase, because nothing is read any more, and that the library took the client's words for
the switches, which is what `ModeIsHonoured` needs beside the check of the words.

### Only model-checked

Liveness, which with `ENABLED` is outside what TLAPS can prove: `EventuallyCommitted`,
`SignalStops`, `AcceptedIsSettled`, `RunEnds`, `CommandEnds`. Of `SignalStops` the descent is
proved, see above; a descent for `CommandEnds` would restate the program text, since a
command is a straight line with a deadline, and those of `RunEnds` and `AcceptedIsSettled`
depend on librdkafka's thread and the broker, so that no number of the producer's own goes
down. What the four violation runs refute is of course not proved.

## Not modelled

The consumer's ordering check (`runSeq`, `outOfOrd`) and the printed reports, which
nothing reads back; `Dump` and the masking of secrets; what `describe` prints of replicas
and config entries; JSON (`internal/model`: in the models a message can be decoded or it
cannot); logging; scripts and broker set-up, which run the programs one after another.
`app.message.count=0` (run until Ctrl+C) has no end to speak of and is left out of
`Producer`. `ConsumerEos` leaves the dead-letter producer to `Consumer`, and treats the
exits of `loop` without a signal (`app.max.messages`, EOF, a fatal error) as one kind.

## Plan

Every safety property the runs check has its theorem. Two ways of going further were
considered; the first is done, as `DisruptionsBoundLoss`:

1. what is lost when processes die: at most one message for each disruption;
2. how often a message is tried after disorder. By the number of disruptions this says
   little, because a hand-over in order is one of them; it would take a count of
   disruptions by kind, which no part of the code keeps.

Left for later is the dead-letter queue of a process that dies (`QueuesSurvive`): its whole
length is lost, and only `queue.buffering.max.messages` bounds that.
