------------------------------ MODULE Consumer ------------------------------
(***************************************************************************)
(* A consumer group running cmd/consumer/main.go in one of its three       *)
(* commit modes without transactions: manual, autocommit, atmostonce.      *)
(* (eos is a module of its own.)                                           *)
(*                                                                         *)
(* A member is one process: a single goroutine that polls, handles the     *)
(* message it got and loops, with librdkafka's background committer and    *)
(* the dead-letter producer's delivery beside it.  The log of a partition  *)
(* is fixed, offsets 0 .. N-1; the group's owner and committed offset of a *)
(* partition are the broker's.                                             *)
(***************************************************************************)
EXTENDS Integers, FiniteSets

CONSTANTS
  Members,         \* the processes of the group
  Partitions,      \* the partitions of app.topic
  N,               \* messages in each partition
  Mode,            \* app.mode
  AutoCommit,      \* enable.auto.commit
  AutoStore,       \* enable.auto.offset.store
  Cooperative,     \* GetRebalanceProtocol() = "COOPERATIVE"
  DeadLetterOn,    \* app.fail.rate > 0, the one case with a dead-letter producer
  Interruptible,   \* app.process.time > 0
  MaxMessages,     \* app.max.messages, 0 for no limit
  ExitOnEOF,       \* app.exit.on.eof (with enable.partition.eof)
  Poison,          \* the messages model.Decode rejects
  Disruptions,     \* the kinds of trouble that may happen
  MaxDisruptions,  \* bound: how many times, all kinds together
  Nobody,          \* owner of a partition no member owns
  NoMessage        \* what a member handles between two messages

Messages == Partitions \X (0 .. N-1)

Kinds == {"crash", "secondSignal", "evict", "signal", "rebalance", "fatal",
          "commitError", "storeError", "dlqRefused", "dlqLost", "flushTimeout"}

\* validateModeAgainstConfig refuses the other combinations.
ModeAllowed ==
  \/ Mode = "manual" /\ ~AutoStore
  \/ Mode = "autocommit" /\ AutoCommit /\ AutoStore
  \/ Mode = "atmostonce" /\ ~AutoCommit

ASSUME BoundsAssumption ==
  N \in Nat /\ MaxMessages \in Nat /\ MaxDisruptions \in Nat
ASSUME NamesAssumption == Nobody \notin Members /\ NoMessage \notin Messages
ASSUME SettingsAssumption ==
  /\ {AutoCommit, AutoStore, Cooperative, DeadLetterOn, Interruptible, ExitOnEOF}
       \subseteq BOOLEAN
  /\ Poison \subseteq Messages
  /\ Disruptions \subseteq Kinds
ASSUME ModeAssumption == ModeAllowed

VARIABLES
  pc,          \* where the member's goroutine is
  ctxDone,     \* SignalContext's context is cancelled
  held,        \* librdkafka's current assignment
  position,    \* next offset Poll returns, per held partition
  stored,      \* offset eligible for a commit, 0 for none
  current,     \* the message handleMessage has in hand
  eofSeen,     \* counters.eofSeen
  received,    \* counters.received, counted up to MaxMessages
  dlqQueue,    \* dead letters accepted by Produce and not yet delivered
  owner,       \* broker: the member that may commit a partition
  committed,   \* broker: the group's committed offset
  dlqTopic,    \* broker: the dead-letter topic
  attempts,    \* history: times process was called on a message, up to AttemptCap
  succeeded,   \* history: messages process returned nil for
  budget       \* disruptions left

member  == <<pc, ctxDone, held, position, stored, current, eofSeen, received>>
group   == <<owner, committed>>
dlq     == <<dlqQueue, dlqTopic>>
history == <<attempts, succeeded>>
vars    == <<member, group, dlq, history, budget>>

Locations == {"down", "loop", "commitFirst", "process", "store",
              "finalCommit", "flush", "close"}
AttemptCap == 2   \* bound: 2 stands for two or more

TypeOK ==
  /\ pc \in [Members -> Locations]
  /\ ctxDone \in [Members -> BOOLEAN]
  /\ held \in [Members -> SUBSET Partitions]
  /\ position \in [Members -> [Partitions -> 0 .. N]]
  /\ stored \in [Members -> [Partitions -> 0 .. N]]
  /\ current \in [Members -> Messages \union {NoMessage}]
  /\ eofSeen \in [Members -> SUBSET Partitions]
  /\ received \in [Members -> 0 .. MaxMessages]
  /\ dlqQueue \in [Members -> SUBSET Messages]
  /\ owner \in [Partitions -> Members \union {Nobody}]
  /\ committed \in [Partitions -> 0 .. N]
  /\ dlqTopic \subseteq Messages
  /\ attempts \in [Messages -> 0 .. AttemptCap]
  /\ succeeded \subseteq Messages
  /\ budget \in 0 .. MaxDisruptions

Zero == [p \in Partitions |-> 0]

Init ==
  /\ pc = [m \in Members |-> "loop"]
  /\ ctxDone = [m \in Members |-> FALSE]
  /\ held = [m \in Members |-> {}]
  /\ position = [m \in Members |-> Zero]
  /\ stored = [m \in Members |-> Zero]
  /\ current = [m \in Members |-> NoMessage]
  /\ eofSeen = [m \in Members |-> {}]
  /\ received = [m \in Members |-> 0]
  /\ dlqQueue = [m \in Members |-> {}]
  /\ owner = [p \in Partitions |-> Nobody]
  /\ committed = Zero
  /\ dlqTopic = {}
  /\ attempts = [msg \in Messages |-> 0]
  /\ succeeded = {}
  /\ budget = MaxDisruptions

Disrupt(kind) ==
  /\ kind \in Disruptions
  /\ budget > 0
  /\ budget' = budget - 1

(***************************************************************************)
(* Offsets.  The broker takes a commit only from the member that owns the  *)
(* partition in the current generation; a member that was evicted learns   *)
(* of it no earlier than its next Poll.                                    *)
(***************************************************************************)
AssignmentLost(m) == \E p \in held[m] : owner[p] # m

\* Bug variant: commit where the next fetch would start.
CommitPosition(m) ==
  committed' = [p \in Partitions |->
                  IF p \in held[m] /\ owner[p] = m THEN position[m][p] ELSE committed[p]]

\* Bug variant: add the one that StoreMessage added already.
CommitPastStored(m) ==
  committed' = [p \in Partitions |->
                  IF p \in held[m] /\ owner[p] = m /\ stored[m][p] > 0
                  THEN stored[m][p] + 1 ELSE committed[p]]

\* Commit() without arguments: every stored offset, and no other.
Commit(m) ==
  committed' = [p \in Partitions |->
                  IF p \in held[m] /\ owner[p] = m /\ stored[m][p] > 0
                  THEN stored[m][p] ELSE committed[p]]

\* Bug variant: leave without the last commit.
NoCommit(m) == UNCHANGED committed

\* onRevoked and shutdown commit in these modes, and only log an error.
CommitBeforeLeaving(m) ==
  \/ Mode \in {"manual", "autocommit"} /\ Commit(m)
  \/ Mode = "atmostonce" /\ UNCHANGED committed
  \/ "commitError" \in Disruptions /\ UNCHANGED committed

\* librdkafka's committer thread, every auto.commit.interval.ms.
BackgroundCommit(m) ==
  /\ AutoCommit
  /\ pc[m] # "down"
  /\ Commit(m)
  /\ UNCHANGED <<member, owner, dlq, history, budget>>

(***************************************************************************)
(* loop: leave when the context is done or app.max.messages is reached,    *)
(* otherwise Poll, which returns a message, an EOF event, a fatal error,   *)
(* nothing, or runs the rebalance callback.                                *)
(***************************************************************************)
MaxReached(m) == MaxMessages > 0 /\ received[m] = MaxMessages
\* Bug variant: the context is not looked at.
LoopEndsOnCount(m) == MaxReached(m)
LoopEnds(m) == ctxDone[m] \/ MaxReached(m)
Polls(m) == pc[m] = "loop" /\ ~LoopEnds(m)

ExitLoop(m) ==
  /\ pc[m] = "loop"
  /\ LoopEnds(m)
  /\ pc' = [pc EXCEPT ![m] = "finalCommit"]
  /\ UNCHANGED <<ctxDone, held, position, stored, current, eofSeen, received>>
  /\ UNCHANGED <<group, dlq, history, budget>>

PollNothing(m) == Polls(m) /\ UNCHANGED vars

\* Bug variant: validateModeAgainstConfig does not insist on the property.
StoredByDefault == TRUE
StoredAtDelivery == AutoStore

\* Bug variant: no commit ahead of the work.
ProcessAtOnce == "process"
AfterPoll == IF Mode = "atmostonce" THEN "commitFirst" ELSE "process"

PollMessage(m, p) ==
  /\ Polls(m)
  /\ p \in held[m]
  /\ position[m][p] < N
  /\ current' = [current EXCEPT ![m] = <<p, position[m][p]>>]
  /\ position' = [position EXCEPT ![m][p] = @ + 1]
  /\ stored' = IF StoredAtDelivery THEN [stored EXCEPT ![m][p] = position[m][p] + 1]
                                   ELSE stored
  /\ received' = [received EXCEPT ![m] = IF MaxMessages > 0 THEN @ + 1 ELSE @]
  /\ pc' = [pc EXCEPT ![m] = AfterPoll]
  /\ UNCHANGED <<ctxDone, held, eofSeen, group, dlq, history, budget>>

\* Bug variant: the first end is enough.
AnyPartitionAtEOF(m, seen) == held[m] \intersect seen # {}
AllPartitionsAtEOF(m, seen) == held[m] # {} /\ held[m] \subseteq seen

\* The event follows the last message of the partition into the queue.
PollEOF(m, p) ==
  /\ ExitOnEOF
  /\ Polls(m)
  /\ p \in held[m]
  /\ position[m][p] = N
  /\ LET seen == eofSeen[m] \union {p} IN
       /\ eofSeen' = [eofSeen EXCEPT ![m] = seen]
       /\ pc' = [pc EXCEPT ![m] = IF AllPartitionsAtEOF(m, seen)
                                  THEN "finalCommit" ELSE "loop"]
  /\ UNCHANGED <<ctxDone, held, position, stored, current, received>>
  /\ UNCHANGED <<group, dlq, history, budget>>

PollFatal(m) ==
  /\ Polls(m)
  /\ Disrupt("fatal")
  /\ pc' = [pc EXCEPT ![m] = "finalCommit"]
  /\ UNCHANGED <<ctxDone, held, position, stored, current, eofSeen, received>>
  /\ UNCHANGED <<group, dlq, history>>

(***************************************************************************)
(* handleMessage.                                                          *)
(***************************************************************************)
\* CommitMessage before the work; an error is logged and the work goes on.
CommitFirst(m) ==
  /\ pc[m] = "commitFirst"
  /\ LET p == current[m][1]  o == current[m][2] IN
       \/ owner[p] = m /\ committed' = [committed EXCEPT ![p] = o + 1]
       \/ owner[p] # m /\ UNCHANGED committed
       \/ "commitError" \in Disruptions /\ UNCHANGED committed
  /\ pc' = [pc EXCEPT ![m] = "process"]
  /\ UNCHANGED <<ctxDone, held, position, stored, current, eofSeen, received>>
  /\ UNCHANGED <<owner, dlq, history, budget>>

\* What both ends of process share: the attempt, and what comes after it.
Attempted(m) ==
  /\ attempts' = [attempts EXCEPT ![current[m]] = IF @ < AttemptCap THEN @ + 1 ELSE @]
  /\ pc' = [pc EXCEPT ![m] = IF Mode = "manual" THEN "store" ELSE "loop"]
  /\ current' = [current EXCEPT ![m] = IF Mode = "manual" THEN @ ELSE NoMessage]
  /\ UNCHANGED <<ctxDone, held, position, stored, eofSeen, received>>

ProcessOk(m) ==
  /\ pc[m] = "process"
  /\ current[m] \notin Poison
  /\ Attempted(m)
  /\ succeeded' = succeeded \union {current[m]}
  /\ UNCHANGED <<group, dlq, budget>>

\* Bug variant: the end of the wait is taken for an interruption.
FailsAfterAnyWait(m) == current[m] \in Poison \/ Interruptible \/ DeadLetterOn

\* The three errors process returns: undecodable, interrupted, failed by rate.
MayFail(m) == \/ current[m] \in Poison
              \/ Interruptible /\ ctxDone[m]
              \/ DeadLetterOn

\* Bug variant: the message is counted as failed and dropped.
DropFailed(m) == UNCHANGED <<dlqQueue, budget>>

\* toDeadLetter, when there is a producer; Produce's own error is only logged.
DeadLetter(m) ==
  \/ /\ DeadLetterOn
     /\ dlqQueue' = [dlqQueue EXCEPT ![m] = @ \union {current[m]}]
     /\ UNCHANGED budget
  \/ ~DeadLetterOn /\ UNCHANGED <<dlqQueue, budget>>
  \/ DeadLetterOn /\ Disrupt("dlqRefused") /\ UNCHANGED dlqQueue

ProcessFail(m) ==
  /\ pc[m] = "process"
  /\ MayFail(m)
  /\ Attempted(m)
  /\ DeadLetter(m)
  /\ UNCHANGED <<group, dlqTopic, succeeded>>

\* Bug variant: the offset of a failed message is not stored.
StoreIfGood(m) ==
  LET p == current[m][1]  o == current[m][2] IN
    stored' = IF current[m] \in Poison THEN stored ELSE [stored EXCEPT ![m][p] = o + 1]

StoreMessage(m) ==
  LET p == current[m][1]  o == current[m][2] IN
    stored' = [stored EXCEPT ![m][p] = o + 1]

\* StoreMessage; its error is the one handleMessage returns, which ends loop.
StoreOffset(m) ==
  /\ pc[m] = "store"
  /\ \/ /\ StoreMessage(m)
        /\ pc' = [pc EXCEPT ![m] = "loop"]
        /\ UNCHANGED budget
     \/ /\ Disrupt("storeError")
        /\ pc' = [pc EXCEPT ![m] = "finalCommit"]
        /\ UNCHANGED stored
  /\ current' = [current EXCEPT ![m] = NoMessage]
  /\ UNCHANGED <<ctxDone, held, position, eofSeen, received, group, dlq, history>>

(***************************************************************************)
(* Rebalance.  The coordinator hands out partitions nobody owns; the       *)
(* callbacks run inside the member's own Poll.                             *)
(***************************************************************************)
\* Bug variant: auto.offset.reset is applied on every assignment.
StartAtReset(p) == 0

\* The committed offset; without one, the start (auto.offset.reset=earliest).
StartOffset(p) == committed[p]

Assigned(m, S) ==
  /\ Polls(m)
  /\ ~AssignmentLost(m)
  /\ Cooperative \/ held[m] = {}
  /\ S # {} /\ \A p \in S : owner[p] = Nobody
  /\ owner' = [p \in Partitions |-> IF p \in S THEN m ELSE owner[p]]
  /\ held' = [held EXCEPT ![m] = @ \union S]
  /\ position' = [position EXCEPT ![m] =
                    [p \in Partitions |-> IF p \in S THEN StartOffset(p) ELSE @[p]]]
  /\ UNCHANGED <<pc, ctxDone, stored, current, eofSeen, received>>
  /\ UNCHANGED <<committed, dlq, history, budget>>

\* Bug variant: the stored offset outlives the assignment.
UnassignKeepsStored(m, S) ==
  /\ held' = [held EXCEPT ![m] = @ \ S]
  /\ position' = [position EXCEPT ![m] = [p \in Partitions |-> IF p \in S THEN 0 ELSE @[p]]]
  /\ UNCHANGED <<pc, ctxDone, stored, current, eofSeen, received>>

\* Unassign forgets the positions and the stored offsets, not counters.eofSeen.
Unassign(m, S) ==
  /\ held' = [held EXCEPT ![m] = @ \ S]
  /\ position' = [position EXCEPT ![m] = [p \in Partitions |-> IF p \in S THEN 0 ELSE @[p]]]
  /\ stored' = [stored EXCEPT ![m] = [p \in Partitions |-> IF p \in S THEN 0 ELSE @[p]]]
  /\ UNCHANGED <<pc, ctxDone, current, eofSeen, received>>

\* onRevoked while still a member: commit everything stored, then give S back.
Revoked(m, S) ==
  /\ Polls(m)
  /\ Disrupt("rebalance")
  /\ S # {} /\ S \subseteq held[m]
  /\ Cooperative \/ S = held[m]
  /\ ~AssignmentLost(m)
  /\ CommitBeforeLeaving(m)
  /\ owner' = [p \in Partitions |-> IF p \in S THEN Nobody ELSE owner[p]]
  /\ Unassign(m, S)
  /\ UNCHANGED <<dlq, history>>

\* onRevoked after an eviction: nothing can be committed.
RevokedLost(m) ==
  /\ Polls(m)
  /\ AssignmentLost(m)
  /\ Unassign(m, held[m])
  /\ UNCHANGED <<group, dlq, history, budget>>

(***************************************************************************)
(* shutdown: commit, flush the dead letters, leave the group.              *)
(***************************************************************************)
FinalCommit(m) ==
  /\ pc[m] = "finalCommit"
  /\ CommitBeforeLeaving(m)
  /\ pc' = [pc EXCEPT ![m] = IF DeadLetterOn THEN "flush" ELSE "close"]
  /\ UNCHANGED <<ctxDone, held, position, stored, current, eofSeen, received>>
  /\ UNCHANGED <<owner, dlq, history, budget>>

Flush(m) ==
  /\ pc[m] = "flush"
  /\ \/ dlqQueue[m] = {} /\ UNCHANGED budget
     \/ Disrupt("flushTimeout")
  /\ pc' = [pc EXCEPT ![m] = "close"]
  /\ UNCHANGED <<ctxDone, held, position, stored, current, eofSeen, received>>
  /\ UNCHANGED <<group, dlq, history>>

\* The process is gone, with everything it kept in memory.
GoDown(m) ==
  /\ pc' = [pc EXCEPT ![m] = "down"]
  /\ ctxDone' = [ctxDone EXCEPT ![m] = FALSE]
  /\ held' = [held EXCEPT ![m] = {}]
  /\ position' = [position EXCEPT ![m] = Zero]
  /\ stored' = [stored EXCEPT ![m] = Zero]
  /\ current' = [current EXCEPT ![m] = NoMessage]
  /\ eofSeen' = [eofSeen EXCEPT ![m] = {}]
  /\ received' = [received EXCEPT ![m] = 0]
  /\ dlqQueue' = [dlqQueue EXCEPT ![m] = {}]
  /\ owner' = [p \in Partitions |-> IF owner[p] = m THEN Nobody ELSE owner[p]]
  /\ UNCHANGED <<dlqTopic, history>>

\* Close runs onRevoked once more unless the group had already let go of m.
Close(m) ==
  /\ pc[m] = "close"
  /\ CommitBeforeLeaving(m)
  /\ GoDown(m)
  /\ UNCHANGED budget

(***************************************************************************)
(* The environment.                                                        *)
(***************************************************************************)
Start(m) ==
  /\ pc[m] = "down"
  /\ pc' = [pc EXCEPT ![m] = "loop"]
  /\ UNCHANGED <<ctxDone, held, position, stored, current, eofSeen, received>>
  /\ UNCHANGED <<group, dlq, history, budget>>

Signal(m) ==
  /\ pc[m] # "down" /\ ~ctxDone[m]
  /\ Disrupt("signal")
  /\ ctxDone' = [ctxDone EXCEPT ![m] = TRUE]
  /\ UNCHANGED <<pc, held, position, stored, current, eofSeen, received>>
  /\ UNCHANGED <<group, dlq, history>>

\* A crash, or the second Ctrl+C, on which SignalContext calls os.Exit(130).
Crash(m) ==
  /\ pc[m] # "down"
  /\ \/ Disrupt("crash")
     \/ ctxDone[m] /\ Disrupt("secondSignal")
  /\ GoDown(m)
  /\ UNCHANGED committed

\* max.poll.interval.ms or session.timeout.ms runs out; the member knows nothing.
Evict(m) ==
  /\ held[m] # {} /\ ~AssignmentLost(m)
  /\ Disrupt("evict")
  /\ owner' = [p \in Partitions |-> IF owner[p] = m THEN Nobody ELSE owner[p]]
  /\ UNCHANGED <<member, committed, dlq, history>>

\* The dead-letter producer's background delivery, and its failure.
DlqDelivered(m, msg) ==
  /\ msg \in dlqQueue[m]
  /\ dlqQueue' = [dlqQueue EXCEPT ![m] = @ \ {msg}]
  /\ dlqTopic' = dlqTopic \union {msg}
  /\ UNCHANGED <<member, group, history, budget>>

DlqLost(m, msg) ==
  /\ msg \in dlqQueue[m]
  /\ Disrupt("dlqLost")
  /\ dlqQueue' = [dlqQueue EXCEPT ![m] = @ \ {msg}]
  /\ UNCHANGED <<member, group, dlqTopic, history>>

Runs(m) ==
  \/ ExitLoop(m) \/ PollNothing(m)
  \/ \E p \in Partitions : PollMessage(m, p) \/ PollEOF(m, p)
  \/ CommitFirst(m) \/ ProcessOk(m) \/ ProcessFail(m) \/ StoreOffset(m)
  \/ RevokedLost(m)
  \/ FinalCommit(m) \/ Flush(m) \/ Close(m)

Joins(m) == \E S \in SUBSET Partitions : Assigned(m, S)

Trouble(m) ==
  \/ PollFatal(m) \/ Signal(m) \/ Crash(m) \/ Evict(m)
  \/ \E S \in SUBSET Partitions : Revoked(m, S)
  \/ \E msg \in Messages : DlqLost(m, msg)

Next ==
  \E m \in Members :
    \/ Runs(m) \/ Joins(m) \/ Start(m) \/ BackgroundCommit(m) \/ Trouble(m)
    \/ \E msg \in Messages : DlqDelivered(m, msg)

Spec == Init /\ [][Next]_vars

(***************************************************************************)
(* Fairness: a running goroutine, the committer's timer and the dead-      *)
(* letter producer's thread go on, and the coordinator hands out what      *)
(* nobody owns.  Nobody restarts a process.                                *)
(***************************************************************************)
Fairness ==
  /\ \A m \in Members :
       /\ WF_vars(Runs(m))
       /\ WF_vars(BackgroundCommit(m))
       /\ \A msg \in Messages : WF_vars(DlqDelivered(m, msg))
  /\ WF_vars(\E m \in Members : Joins(m))

FairSpec == Spec /\ Fairness

(***************************************************************************)
(* Properties.                                                             *)
(***************************************************************************)
\* The message in hand is the last one Poll returned from a partition still held:
\* no callback runs between Poll and StoreMessage (main.go:367-468).
InHand ==
  \A m \in Members :
    /\ pc[m] \in {"commitFirst", "process", "store"} =>
         /\ current[m] \in Messages
         /\ current[m][1] \in held[m]
         /\ position[m][current[m][1]] = current[m][2] + 1
    /\ pc[m] = "commitFirst" => Mode = "atmostonce"

Handled == {msg \in Messages : attempts[msg] > 0}

\* Manual mode stores an offset after process (main.go:462-470), so whatever
\* the interleaving of committer, rebalances, evictions and crashes, the group
\* never passes a message that no member has tried to process.
CommittedIsHandled ==
  \A p \in Partitions, o \in 0 .. N-1 : o < committed[p] => <<p, o>> \in Handled

\* Why that holds: behind a member's position only the message in hand may be
\* unhandled, and nothing at all behind an offset it stored.
HandledBelow ==
  /\ \A m \in Members : \A p \in held[m], o \in 0 .. N-1 :
       o < position[m][p] =>
         <<p, o>> \in Handled \/ (pc[m] = "process" /\ current[m] = <<p, o>>)
  /\ \A m \in Members, p \in Partitions, o \in 0 .. N-1 :
       o < stored[m][p] => <<p, o>> \in Handled

\* The owner of a partition is past the group's offset, and so is what it stored;
\* a member without the partition has nothing stored for it (main.go:674-682).
\* An evicted member owns none of what it still holds.
OwnerIsAhead ==
  \A m \in Members, p \in Partitions :
    /\ p \notin held[m] => stored[m][p] = 0
    /\ stored[m][p] <= position[m][p]
    /\ owner[p] = m =>
         /\ p \in held[m] /\ committed[p] <= position[m][p]
         /\ \A r \in held[m] : owner[r] = m
         /\ stored[m][p] > 0 /\ Mode # "atmostonce" => committed[p] <= stored[m][p]

\* The group's offset never moves back: not by a late commit of a member that
\* lost the partition, not by an offset stored under an earlier assignment.
CommitMonotone == [][\A p \in Partitions : committed'[p] >= committed[p]]_vars

\* At-least-once: a message behind the committed offset was processed, or is
\* (or is on its way to be) in the dead-letter topic (main.go:454-457).
NothingLost ==
  \A p \in Partitions, o \in 0 .. N-1 :
    o < committed[p] =>
      <<p, o>> \in succeeded \union dlqTopic \union UNION {dlqQueue[m] : m \in Members}

\* What autocommit mode leaves of that: offsets are stored at delivery, so while
\* no process dies the group is ahead of the work by no more than the messages
\* members have in hand (main.go:471-473).
AtRiskIsInHand ==
  \A p \in Partitions, o \in 0 .. N-1 :
    o < committed[p] => <<p, o>> \in Handled \union {current[m] : m \in Members}

\* Processed, in the dead-letter topic, or on the way there.
Accounted(msg) ==
  msg \in succeeded \/ msg \in dlqTopic \/ \E m \in Members : msg \in dlqQueue[m]

\* Behind the group's offset, in nobody's hand and unaccounted for. An undecodable
\* message has nowhere to go without a dead-letter producer.
Dropped ==
  {msg \in Messages :
     /\ msg[2] < committed[msg[1]]
     /\ ~Accounted(msg)
     /\ \A m \in Members : current[m] # msg
     /\ DeadLetterOn \/ msg \notin Poison}

\* In every mode a disruption costs at most one message: a crash, a second Ctrl+C or
\* an interrupted process the one in hand, a refused or failed dead letter that one
\* (main.go:405-421, 451-473). (A process that dies with a queue of dead letters, or
\* that gives up on flushing it, loses all of it: main.go:716-727.)
LossIsBounded == Cardinality(Dropped) <= MaxDisruptions - budget

\* While processes stop by one signal and partitions are handed back by
\* onRevoked, the commit before the hand-over (main.go:653-667) leaves nothing
\* for the next owner to process again.
HandledOnce == \A msg \in Messages : attempts[msg] < AttemptCap

\* app.exit.on.eof: the loop leaves on an EOF event only when every partition
\* assigned at that moment has been read to its end (main.go:390-396).
EofExitIsComplete ==
  [][\A m \in Members :
       pc[m] = "loop" /\ ~LoopEnds(m) /\ pc'[m] = "finalCommit"
         => \A p \in held[m] : position[m][p] = N]_vars

\* The group's offsets behave as the bookmark of the abstract specification.
Mark == INSTANCE Bookmark WITH handled <- Handled
RefinesBookmark == Mark!Spec

\* In every mode, while no process dies, they behave as the bookmark over the messages
\* handled or in hand: a mode that commits ahead of the work marks what Poll returned
\* and nothing further (main.go:405-421, 471-473).
Touched == {msg \in Messages : msg \in Handled \/ \E m \in Members : current[m] = msg}
MarkOfTouched == INSTANCE Bookmark WITH handled <- Touched
RefinesBookmarkOfTouched == MarkOfTouched!Spec

\* A message that fails does not stop its partition: with a member left, all of
\* the log is committed in the end (main.go:454-457).
EventuallyCommitted == <>[](\A p \in Partitions : committed[p] = N)

\* The first signal ends the process by the orderly path (main.go:355, 700-741).
SignalStops == \A m \in Members : ctxDone[m] ~> pc[m] = "down"

\* Why it does: once the context is cancelled no step of the goroutine polls, repeats
\* what was done or goes back; each is one of the few that are left, and no step of
\* another member, the committer or the broker adds to them.
StepsLeft(m) ==
  [down |-> 0, close |-> 1, flush |-> 2, finalCommit |-> 3, loop |-> 4, store |-> 5,
   process |-> 6, commitFirst |-> 7][pc[m]]

SignalLeadsOut ==
  [][\A m \in Members : ctxDone[m] =>
       StepsLeft(m)' <= StepsLeft(m) /\ (Runs(m) => StepsLeft(m)' < StepsLeft(m))]_vars

=============================================================================
