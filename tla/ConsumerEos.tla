----------------------------- MODULE ConsumerEos -----------------------------
(***************************************************************************)
(* A consumer group running cmd/consumer/main.go in app.mode=eos: consume, *)
(* transform, produce, with the input offsets sent through the producer.   *)
(*                                                                         *)
(* Each member is one goroutine.  Its transaction lives with the           *)
(* transaction coordinator and survives the process: txn is what the       *)
(* transaction would make visible, sent the offsets it would commit, and   *)
(* txnState what the member's producer can still do with it.  A step is    *)
(* the code between two calls another party can see, so commitTransaction  *)
(* is three of them: SendOffsetsToTransaction, CommitTransaction, and the  *)
(* abort with its rewind.                                                  *)
(*                                                                         *)
(* Left to module Consumer: the dead-letter producer, and the three ways   *)
(* out of loop without a signal, which are one kind of disruption here.    *)
(***************************************************************************)
EXTENDS Integers

CONSTANTS
  Members, Partitions, N,   \* as in Consumer
  TxnEvery,        \* loop's txnEvery: messages between two commits
  TxnIds,          \* the values app.output.transactional.id may have
  Cooperative,     \* GetRebalanceProtocol() = "COOPERATIVE"
  DeadLetterOn,    \* app.fail.rate > 0
  Interruptible,   \* app.process.time > 0
  Poison,          \* the messages model.Decode rejects
  Disruptions,     \* the kinds of trouble that may happen
  MaxDisruptions,  \* bound: how many times, all kinds together
  Nobody,          \* owner of a partition no member owns
  NoMessage        \* what a member handles between two messages

Messages == Partitions \X (0 .. N-1)

Kinds == {"signal", "finished", "crash", "rebalance", "evict", "queueFull",
          "sendError", "lookupError", "commitRejected", "commitTimeout", "beginError",
          "abortError", "rewindError", "seekError", "txnTimeout", "sharedId"}

ASSUME EosBounds ==
  N \in Nat /\ TxnEvery \in Nat \ {0} /\ MaxDisruptions \in Nat
ASSUME EosNames == Nobody \notin Members /\ NoMessage \notin Messages
ASSUME EosSettings ==
  /\ {Cooperative, DeadLetterOn, Interruptible} \subseteq BOOLEAN
  /\ TxnIds # {}
  /\ Poison \subseteq Messages
  /\ Disruptions \subseteq Kinds

VARIABLES
  txnId,       \* app.output.transactional.id of each member, fixed
  pc,          \* where the member's goroutine is
  task,        \* who called commitTransaction: "loop", "revoke", "stop", "close"
  ctxDone,     \* SignalContext's context is cancelled
  held,        \* librdkafka's current assignment
  revoking,    \* the partitions onRevoked is about to give back
  position,    \* the consume position of each held partition
  current,     \* the message handleMessage has in hand
  txnCount,    \* loop's txnCount
  txn,         \* coordinator: outputs in the transaction, per message
  sent,        \* coordinator: offsets in the transaction, 0 for none
  txnState,    \* what the member's producer can do with it
  owner,       \* broker: the member that may commit a partition
  committed,   \* broker: the group's committed offset
  visible,     \* broker: outputs a read_committed consumer sees, per message
  failed,      \* history: messages process returned an error for
  astray,      \* history: messages the transaction no longer accounts for
  budget       \* disruptions left

member  == <<pc, task, ctxDone, held, revoking, position, current, txnCount>>
trans   == <<txn, sent, txnState>>
broker  == <<owner, committed, visible>>
history == <<failed, astray>>
vars    == <<txnId, member, trans, broker, history, budget>>

Locations == {"down", "loop", "process", "send", "commit", "abort", "unassign", "close"}

\* open: usable.  committing: CommitTransaction timed out.  mustAbort: the coordinator
\* aborted it, or AbortTransaction timed out.  fenced: another process has the id.
TxnStates == {"none", "open", "committing", "mustAbort", "fenced"}

TypeOK ==
  /\ pc \in [Members -> Locations]
  /\ task \in [Members -> {"loop", "revoke", "stop", "close"}]
  /\ ctxDone \in [Members -> BOOLEAN]
  /\ held \in [Members -> SUBSET Partitions]
  /\ revoking \in [Members -> SUBSET Partitions]
  /\ position \in [Members -> [Partitions -> 0 .. N]]
  /\ current \in [Members -> Messages \union {NoMessage}]
  /\ txnCount \in [Members -> 0 .. TxnEvery - 1]
  /\ txnId \in [Members -> TxnIds]
  /\ txn \in [Members -> [Messages -> Nat]]
  /\ sent \in [Members -> [Partitions -> 0 .. N]]
  /\ txnState \in [Members -> TxnStates]
  /\ owner \in [Partitions -> Members \union {Nobody}]
  /\ committed \in [Partitions -> 0 .. N]
  /\ visible \in [Messages -> Nat]
  /\ failed \subseteq Messages /\ astray \subseteq Messages
  /\ budget \in 0 .. MaxDisruptions

Zero   == [p \in Partitions |-> 0]
Empty  == [msg \in Messages |-> 0]

\* No process has been started.  That they all have the default id of main.go:319 is
\* a disruption too.
Init ==
  /\ pc = [m \in Members |-> "down"]
  /\ task = [m \in Members |-> "loop"]
  /\ ctxDone = [m \in Members |-> FALSE]
  /\ held = [m \in Members |-> {}]
  /\ revoking = [m \in Members |-> {}]
  /\ position = [m \in Members |-> Zero]
  /\ current = [m \in Members |-> NoMessage]
  /\ txnCount = [m \in Members |-> 0]
  /\ txnId \in [Members -> TxnIds]
  /\ txn = [m \in Members |-> Empty]
  /\ sent = [m \in Members |-> Zero]
  /\ txnState = [m \in Members |-> "none"]
  /\ owner = [p \in Partitions |-> Nobody]
  /\ committed = Zero
  /\ visible = Empty
  /\ failed = {} /\ astray = {}
  /\ LET distinct == \A m, n \in Members : txnId[m] = txnId[n] => m = n IN
       \/ distinct /\ budget = MaxDisruptions
       \/ /\ "sharedId" \in Disruptions /\ ~distinct
          /\ MaxDisruptions > 0 /\ budget = MaxDisruptions - 1

Disrupt(kind) ==
  /\ kind \in Disruptions
  /\ budget > 0
  /\ budget' = budget - 1

AssignmentLost(m) == \E p \in held[m] : owner[p] # m

\* What is in the open transaction of m of the partitions S it gives up uncommitted.
Stranded(m, S) ==
  IF txnState[m] = "open" THEN {msg \in Messages : msg[1] \in S /\ txn[m][msg] > 0} ELSE {}

(***************************************************************************)
(* The transaction coordinator.                                            *)
(***************************************************************************)
ClearTxn(m) ==
  /\ txn' = [txn EXCEPT ![m] = Empty]
  /\ sent' = [sent EXCEPT ![m] = Zero]

\* The outputs become visible and the offsets committed in one step.
ApplyTxn(m) ==
  /\ committed' = [p \in Partitions |-> IF sent[m][p] > 0 THEN sent[m][p] ELSE committed[p]]
  /\ visible' = [msg \in Messages |-> visible[msg] + txn[m][msg]]
  /\ ClearTxn(m)

\* A CommitTransaction that timed out takes effect after all.
LateCommit(m) ==
  /\ txnState[m] = "committing"
  /\ ApplyTxn(m)
  /\ txnState' = [txnState EXCEPT ![m] = "none"]
  /\ UNCHANGED <<member, owner, history, budget>>

\* transaction.timeout.ms, for a process that is gone or one that is too slow.
TxnExpires(m) ==
  /\ txn[m] # Empty \/ sent[m] # Zero
  /\ \/ pc[m] = "down" /\ UNCHANGED budget
     \/ pc[m] # "down" /\ Disrupt("txnTimeout")
  /\ ClearTxn(m)
  /\ txnState' = [txnState EXCEPT ![m] = IF pc[m] = "down" THEN "none"
                                         ELSE IF @ = "open" THEN "mustAbort" ELSE @]
  /\ UNCHANGED <<member, broker, history>>

(***************************************************************************)
(* run: InitTransactions aborts what an earlier process with the same      *)
(* transactional.id left open and fences one that still runs.              *)
(***************************************************************************)
Start(m) ==
  /\ pc[m] = "down"
  /\ pc' = [pc EXCEPT ![m] = "loop"]
  /\ LET same == {n \in Members : txnId[n] = txnId[m]} IN
       /\ txn' = [n \in Members |-> IF n \in same THEN Empty ELSE txn[n]]
       /\ sent' = [n \in Members |-> IF n \in same THEN Zero ELSE sent[n]]
       /\ txnState' = [n \in Members |-> IF n = m THEN "open"
                         ELSE IF n \notin same THEN txnState[n]
                         ELSE IF pc[n] = "down" THEN "none" ELSE "fenced"]
  /\ UNCHANGED <<task, ctxDone, held, revoking, position, current, txnCount>>
  /\ UNCHANGED <<broker, history, budget>>

(***************************************************************************)
(* loop and handleMessage.                                                 *)
(***************************************************************************)
\* Bug variant: the context is not looked at.
PollsAnyway(m) == pc[m] = "loop"
Polls(m) == pc[m] = "loop" /\ ~ctxDone[m]

LeaveLoop(m) ==
  /\ pc[m] = "loop"
  /\ \/ ctxDone[m] /\ UNCHANGED budget
     \/ ~ctxDone[m] /\ Disrupt("finished")
  /\ pc' = [pc EXCEPT ![m] = "send"]
  /\ task' = [task EXCEPT ![m] = "stop"]
  /\ UNCHANGED <<ctxDone, held, revoking, position, current, txnCount>>
  /\ UNCHANGED <<trans, broker, history>>

PollNothing(m) == Polls(m) /\ UNCHANGED vars

PollMessage(m, p) ==
  /\ Polls(m)
  /\ p \in held[m] /\ position[m][p] < N
  /\ current' = [current EXCEPT ![m] = <<p, position[m][p]>>]
  /\ position' = [position EXCEPT ![m][p] = @ + 1]
  /\ pc' = [pc EXCEPT ![m] = "process"]
  /\ UNCHANGED <<task, ctxDone, held, revoking, txnCount>>
  /\ UNCHANGED <<trans, broker, history, budget>>

\* Bug variant: the count is compared before it is raised.
TxnIsOverfull(m) == txnCount[m] = TxnEvery
TxnIsFull(m) == txnCount[m] + 1 = TxnEvery

\* handleMessage never returns an error in this mode; every txnEvery messages loop
\* commits, on a topic gone quiet it does not.
MessageDone(m) ==
  /\ pc[m] = "process"
  /\ txnCount' = [txnCount EXCEPT ![m] = IF TxnIsFull(m) THEN 0 ELSE @ + 1]
  /\ pc' = [pc EXCEPT ![m] = IF TxnIsFull(m) THEN "send" ELSE "loop"]
  /\ task' = [task EXCEPT ![m] = "loop"]
  /\ current' = [current EXCEPT ![m] = NoMessage]
  /\ UNCHANGED <<ctxDone, held, revoking, position>>

\* A client that does not know yet that its transaction is dead produces into nothing.
ProcessOk(m) ==
  /\ MessageDone(m)
  /\ current[m] \notin Poison
  /\ txnState[m] \in {"open", "mustAbort", "fenced"}
  /\ txn' = IF txnState[m] = "open" THEN [txn EXCEPT ![m][current[m]] = @ + 1] ELSE txn
  /\ UNCHANGED <<sent, txnState, broker, history, budget>>

\* An error of Produce, a full queue included, counts like an undecodable message.
ProcessFail(m) ==
  /\ MessageDone(m)
  /\ \/ /\ \/ current[m] \in Poison
           \/ Interruptible /\ ctxDone[m]
           \/ DeadLetterOn
           \/ txnState[m] # "open"
        /\ UNCHANGED budget
     \/ Disrupt("queueFull")
  /\ failed' = failed \union {current[m]}
  /\ UNCHANGED <<trans, broker, astray>>

(***************************************************************************)
(* commitTransaction.  Its callers: loop, which leaves on an error;        *)
(* onRevoked, which logs it and unassigns; shutdown, which logs it and     *)
(* closes the consumer, whose callback is onRevoked once more.             *)
(***************************************************************************)
Returns(m, err) ==
  /\ pc' = [pc EXCEPT ![m] =
       CASE task[m] = "loop" -> IF err THEN "send" ELSE "loop"
         [] task[m] = "stop" -> "close"
         [] OTHER -> "unassign"]
  /\ task' = [task EXCEPT ![m] = IF @ = "loop" /\ err THEN "stop" ELSE @]

\* Assignment and Position: the position of everything held.
Positions(m) == [p \in Partitions |-> IF p \in held[m] THEN position[m][p] ELSE 0]

\* Bug variant: no group metadata goes along, and nobody can tell the generation.
SendUnfenced(m) == txnState[m] = "open"

\* The broker takes offsets only from a member of the current generation.
SendAccepted(m) == txnState[m] = "open" /\ ~AssignmentLost(m)

SendOffsets(m) ==
  /\ pc[m] = "send"
  /\ \/ /\ SendAccepted(m)
        /\ sent' = [sent EXCEPT ![m] = Positions(m)]
        /\ pc' = [pc EXCEPT ![m] = "commit"]
        /\ UNCHANGED <<task, astray, budget>>
     \/ /\ \/ ~SendAccepted(m) /\ UNCHANGED budget
           \/ SendAccepted(m) /\ Disrupt("sendError")
        /\ pc' = [pc EXCEPT ![m] = "abort"]
        /\ UNCHANGED <<task, sent, astray>>
     \/ /\ Disrupt("lookupError")
        /\ Returns(m, TRUE)
        /\ astray' = astray \union Stranded(m, revoking[m])
        /\ UNCHANGED sent
  /\ UNCHANGED <<ctxDone, held, revoking, position, current, txnCount>>
  /\ UNCHANGED <<txn, txnState, broker, failed>>

CommitTxn(m) ==
  /\ pc[m] = "commit"
  /\ txnState[m] = "open"
  /\ ApplyTxn(m)
  /\ \/ /\ Returns(m, FALSE)
        /\ UNCHANGED <<txnState, budget>>
     \/ /\ Disrupt("beginError")
        /\ txnState' = [txnState EXCEPT ![m] = "none"]
        /\ Returns(m, TRUE)
  /\ UNCHANGED <<ctxDone, held, revoking, position, current, txnCount>>
  /\ UNCHANGED <<owner, history>>

\* The error says abort, or it is a timeout with the outcome open, or it is fatal.
CommitTxnFails(m) ==
  /\ pc[m] = "commit"
  /\ \/ /\ \/ txnState[m] = "open" /\ Disrupt("commitRejected")
           \/ txnState[m] = "mustAbort" /\ UNCHANGED budget
        /\ pc' = [pc EXCEPT ![m] = "abort"]
        /\ UNCHANGED <<task, txnState>>
     \/ /\ txnState[m] = "open" /\ Disrupt("commitTimeout")
        /\ txnState' = [txnState EXCEPT ![m] = "committing"]
        /\ Returns(m, TRUE)
     \/ /\ txnState[m] = "fenced"
        /\ Returns(m, TRUE)
        /\ UNCHANGED <<txnState, budget>>
  /\ UNCHANGED <<ctxDone, held, revoking, position, current, txnCount>>
  /\ UNCHANGED <<txn, sent, broker, history>>

(***************************************************************************)
(* abortTransaction: abort, rewind what is assigned to the committed       *)
(* offsets, begin anew.                                                    *)
(***************************************************************************)
CanAbort(m) == txnState[m] \in {"open", "mustAbort"}

\* Bug variant: go on from where the consumer was.
NoRewind(m, S) == UNCHANGED position

Rewind(m, S) ==
  position' = [position EXCEPT ![m] =
                 [p \in Partitions |-> IF p \in S THEN committed[p] ELSE @[p]]]

Skipped(m, p) == {msg \in Messages : msg[1] = p /\ committed[p] <= msg[2] /\ msg[2] < position[m][p]}

\* All of it works, or one Seek fails and is only logged.
AbortTxn(m) ==
  /\ pc[m] = "abort"
  /\ CanAbort(m)
  /\ ClearTxn(m)
  /\ txnState' = [txnState EXCEPT ![m] = "open"]
  /\ \/ /\ Rewind(m, held[m])
        /\ UNCHANGED <<astray, budget>>
     \/ \E p \in held[m] :
          /\ Disrupt("seekError")
          /\ Rewind(m, held[m] \ {p})
          /\ astray' = astray \union Skipped(m, p)
  /\ Returns(m, FALSE)
  /\ UNCHANGED <<ctxDone, held, revoking, current, txnCount>>
  /\ UNCHANGED <<broker, failed>>

\* AbortTransaction times out; or it is impossible; or what follows it fails.
AbortTxnFails(m) ==
  /\ pc[m] = "abort"
  /\ \/ /\ CanAbort(m) /\ Disrupt("abortError")
        /\ txnState' = [txnState EXCEPT ![m] = "mustAbort"]
        /\ UNCHANGED <<txn, sent, position>>
     \/ /\ ~CanAbort(m)
        /\ UNCHANGED <<trans, position, budget>>
     \/ /\ CanAbort(m)
        /\ \/ Disrupt("rewindError") /\ UNCHANGED position
           \/ Disrupt("beginError") /\ Rewind(m, held[m])
        /\ ClearTxn(m)
        /\ txnState' = [txnState EXCEPT ![m] = "none"]
  /\ Returns(m, TRUE)
  /\ UNCHANGED <<ctxDone, held, revoking, current, txnCount>>
  /\ UNCHANGED <<broker, history>>

(***************************************************************************)
(* Rebalance.  librdkafka fetches the committed offset of a new partition  *)
(* with isolation.level=read_committed, which waits for offsets that are   *)
(* part of an unfinished transaction.                                      *)
(***************************************************************************)
Assigned(m, S) ==
  /\ Polls(m)
  /\ ~AssignmentLost(m)
  /\ Cooperative \/ held[m] = {}
  /\ S # {} /\ \A p \in S : owner[p] = Nobody
  /\ \A p \in S, n \in Members : sent[n][p] = 0
  /\ owner' = [p \in Partitions |-> IF p \in S THEN m ELSE owner[p]]
  /\ held' = [held EXCEPT ![m] = @ \union S]
  /\ position' = [position EXCEPT ![m] =
                    [p \in Partitions |-> IF p \in S THEN committed[p] ELSE @[p]]]
  /\ UNCHANGED <<pc, task, ctxDone, revoking, current, txnCount>>
  /\ UNCHANGED <<trans, committed, visible, history, budget>>

\* Bug variant: onRevoked has no branch for this mode.
CallbackTarget == "unassign"
OnRevokedTarget == "send"

\* onRevoked while still a member: commitTransaction comes first.
Revoked(m, S) ==
  /\ Polls(m)
  /\ Disrupt("rebalance")
  /\ S # {} /\ S \subseteq held[m]
  /\ Cooperative \/ S = held[m]
  /\ ~AssignmentLost(m)
  /\ pc' = [pc EXCEPT ![m] = OnRevokedTarget]
  /\ task' = [task EXCEPT ![m] = "revoke"]
  /\ revoking' = [revoking EXCEPT ![m] = S]
  /\ UNCHANGED <<ctxDone, held, position, current, txnCount, trans, broker, history>>

GiveBack(m, S) ==
  /\ held' = [held EXCEPT ![m] = @ \ S]
  /\ position' = [position EXCEPT ![m] = [p \in Partitions |-> IF p \in S THEN 0 ELSE @[p]]]
  /\ owner' = [p \in Partitions |-> IF p \in S /\ owner[p] = m THEN Nobody ELSE owner[p]]

Unassign(m) ==
  /\ pc[m] = "unassign" /\ task[m] = "revoke"
  /\ GiveBack(m, revoking[m])
  /\ pc' = [pc EXCEPT ![m] = "loop"]
  /\ task' = [task EXCEPT ![m] = "loop"]
  /\ revoking' = [revoking EXCEPT ![m] = {}]
  /\ UNCHANGED <<ctxDone, current, txnCount, trans, committed, visible, history, budget>>

\* onRevoked after an eviction: the open transaction is left as it is.
RevokedLost(m) ==
  /\ Polls(m)
  /\ AssignmentLost(m)
  /\ GiveBack(m, held[m])
  /\ astray' = astray \union Stranded(m, held[m])
  /\ UNCHANGED <<pc, task, ctxDone, revoking, current, txnCount>>
  /\ UNCHANGED <<trans, committed, visible, failed, budget>>

(***************************************************************************)
(* shutdown's Close, and the ends a process can come to.                   *)
(***************************************************************************)
GoDown(m) ==
  /\ pc' = [pc EXCEPT ![m] = "down"]
  /\ task' = [task EXCEPT ![m] = "loop"]
  /\ ctxDone' = [ctxDone EXCEPT ![m] = FALSE]
  /\ held' = [held EXCEPT ![m] = {}]
  /\ revoking' = [revoking EXCEPT ![m] = {}]
  /\ position' = [position EXCEPT ![m] = Zero]
  /\ current' = [current EXCEPT ![m] = NoMessage]
  /\ txnCount' = [txnCount EXCEPT ![m] = 0]
  /\ owner' = [p \in Partitions |-> IF owner[p] = m THEN Nobody ELSE owner[p]]
  /\ txnState' = [txnState EXCEPT ![m] = IF @ = "committing" THEN @ ELSE "none"]
  /\ UNCHANGED <<txn, sent, committed, visible, history>>

Close(m) ==
  /\ pc[m] = "close"
  /\ held[m] # {} /\ ~AssignmentLost(m)
  /\ pc' = [pc EXCEPT ![m] = OnRevokedTarget]
  /\ task' = [task EXCEPT ![m] = "close"]
  /\ revoking' = [revoking EXCEPT ![m] = held[m]]
  /\ UNCHANGED <<ctxDone, held, position, current, txnCount>>
  /\ UNCHANGED <<trans, broker, history, budget>>

Exit(m) ==
  /\ \/ pc[m] = "close" /\ (held[m] = {} \/ AssignmentLost(m))
     \/ pc[m] = "unassign" /\ task[m] = "close"
  /\ GoDown(m)
  /\ UNCHANGED budget

Crash(m) ==
  /\ pc[m] # "down"
  /\ Disrupt("crash")
  /\ GoDown(m)

Signal(m) ==
  /\ pc[m] # "down" /\ ~ctxDone[m]
  /\ Disrupt("signal")
  /\ ctxDone' = [ctxDone EXCEPT ![m] = TRUE]
  /\ UNCHANGED <<pc, task, held, revoking, position, current, txnCount>>
  /\ UNCHANGED <<trans, broker, history>>

\* max.poll.interval.ms or session.timeout.ms runs out.
Evict(m) ==
  /\ held[m] # {} /\ ~AssignmentLost(m)
  /\ Disrupt("evict")
  /\ owner' = [p \in Partitions |-> IF owner[p] = m THEN Nobody ELSE owner[p]]
  /\ UNCHANGED <<member, trans, committed, visible, history>>

Runs(m) ==
  \/ LeaveLoop(m) \/ PollNothing(m) \/ \E p \in Partitions : PollMessage(m, p)
  \/ ProcessOk(m) \/ ProcessFail(m)
  \/ SendOffsets(m) \/ CommitTxn(m) \/ CommitTxnFails(m) \/ AbortTxn(m) \/ AbortTxnFails(m)
  \/ Unassign(m) \/ RevokedLost(m) \/ Close(m) \/ Exit(m)

Next ==
  /\ UNCHANGED txnId
  /\ \E m \in Members :
       \/ Runs(m) \/ Start(m) \/ LateCommit(m) \/ TxnExpires(m)
       \/ Crash(m) \/ Signal(m) \/ Evict(m)
       \/ \E S \in SUBSET Partitions : Assigned(m, S) \/ Revoked(m, S)

Spec == Init /\ [][Next]_vars

(***************************************************************************)
(* Properties.                                                             *)
(***************************************************************************)
\* What the transaction of a member holds is exactly what its positions say: of a
\* partition it owns, each message between the group's offset and the position has
\* one output in the open transaction, and none outside.  The rewind after an abort
\* (main.go:594-608) and the commit before a hand-over (main.go:668-672) keep it so.
TxnCovers ==
  \A m \in Members : txnState[m] = "open" =>
    \A p \in held[m], o \in 0 .. N-1 :
      LET msg == <<p, o>> IN
        owner[p] = m /\ msg \notin astray =>
          /\ committed[p] <= position[m][p]
          /\ IF committed[p] <= o /\ o < position[m][p] /\ msg # current[m]
             THEN txn[m][msg] = 1 \/ (txn[m][msg] = 0 /\ msg \in failed)
             ELSE txn[m][msg] = 0

\* An offset is never committed, and an output never becomes visible, without the
\* other, except as ExactlyOnce allows; restarts, fencing and late commits included.
Promise == INSTANCE ExactlyOnce WITH
  done <- committed, output <- visible, givenUp <- failed, astray <- astray
RefinesExactlyOnce == Promise!Spec

\* What a read_committed consumer sees at any time: one output of each message behind the
\* group's offset (none of one whose processing failed), none of any other, whatever
\* commits came late or twice or from a process that is gone (main.go:549-608).
VisibleOnce == Promise!EachOnce

\* What a member has still to do once its context is cancelled: the loop, the rebalance
\* callback, shutdown and Close each try to commit the transaction, one after the other.
StepsLeft(m) ==
  LET caller == [loop |-> 9, revoke |-> 10, stop |-> 5, close |-> 1][task[m]] IN
    CASE pc[m] = "down"     -> 0
      [] pc[m] = "close"    -> 5
      [] pc[m] = "loop"     -> 9
      [] pc[m] = "process"  -> 13
      [] pc[m] = "send"     -> caller + 3
      [] pc[m] = "commit"   -> caller + 2
      [] pc[m] = "abort"    -> caller + 1
      [] pc[m] = "unassign" -> caller

\* The first signal leads out, whatever becomes of those transactions: a call that fails is
\* logged and not repeated, each step of the goroutine is one of those that are left, and
\* nobody else's step adds to them (main.go:355, 372-384, 549-608, 700-741).
SignalLeadsOut ==
  [][\A m \in Members : ctxDone[m] =>
       StepsLeft(m)' <= StepsLeft(m) /\ (Runs(m) => StepsLeft(m)' < StepsLeft(m))]_vars

=============================================================================
