------------------------- MODULE ConsumerLossProofs -------------------------
(***************************************************************************)
(* Theorems about what a commit of Consumer may be ahead of, for any       *)
(* number of members, partitions and messages and any number of            *)
(* disruptions of the kinds the hypotheses leave.                          *)
(*                                                                         *)
(* AtRiskIsInHand speaks of the group's offset; what is inductive is about *)
(* what may become that offset: below a position or a stored offset of a   *)
(* partition still owned, everything was handled or is in some hand        *)
(* (TouchedBelow). NothingLost follows from HandledBelow, the invariant of *)
(* manual mode, once everything handled is accounted for                   *)
(* (HandledIsAccounted): succeeded, in the dead-letter topic, or in a      *)
(* queue that its process will empty before it is gone (QueuesEmptied).    *)
(*                                                                         *)
(* While no process dies the group's offset behaves as a bookmark over     *)
(* what is in hand or handled (TouchedRefinesBookmark). Where processes do *)
(* die, what is lost is counted: at most one message for each disruption   *)
(* (DisruptionsBoundLoss).                                                 *)
(***************************************************************************)
EXTENDS ConsumerProofs, FiniteSetTheorems

USE BoundsAssumption

\* No process dies: no crash, no second Ctrl+C.
Unhurt == {"crash", "secondSignal"} \intersect Disruptions = {}

\* Nothing is in hand outside handleMessage, and what StoreMessage is about to store
\* has been handled.
Idle ==
  \A m \in Members :
    /\ pc[m] \notin {"commitFirst", "process", "store"} => current[m] = NoMessage
    /\ pc[m] = "store" => current[m] \in Handled

LEMMA HandledGrows ==
  ASSUME TypeOK, InHand, [Next]_vars
  PROVE  Handled \subseteq Handled'
  BY HandledStep

LEMMA IdleStep ==
  ASSUME TypeOK, InHand, Idle, [Next]_vars
  PROVE  Idle'
<1>0. /\ pc \in [Members -> Locations]
      /\ current \in [Members -> Messages \union {NoMessage}]
      /\ Handled \subseteq Handled'
  BY HandledGrows DEF TypeOK
<1>1. ASSUME NEW m \in Members, Runs(m) PROVE Idle'
  <2>1. CASE ExitLoop(m)
    BY <1>0, <2>1 DEF ExitLoop, member, group, dlq, history, Idle
  <2>2. ASSUME NEW p \in Partitions, PollMessage(m, p) PROVE Idle'
    BY <1>0, <2>2 DEF PollMessage, Polls, AfterPoll, Idle
  <2>3. ASSUME NEW p \in Partitions, PollEOF(m, p) PROVE Idle'
    BY <1>0, <2>3 DEF PollEOF, Polls, member, group, dlq, history, Idle
  <2>4. CASE CommitFirst(m)
    BY <1>0, <2>4 DEF CommitFirst, member, group, dlq, history, Idle
  <2>5. CASE ProcessOk(m)
    <3>1. current[m] \in Handled'
      BY <2>5, AttemptedHandles DEF ProcessOk
    <3> QED
      BY <1>0, <2>5, <3>1 DEF ProcessOk, Attempted, Idle
  <2>6. CASE ProcessFail(m)
    <3>1. current[m] \in Handled'
      BY <2>6, AttemptedHandles DEF ProcessFail
    <3> QED
      BY <1>0, <2>6, <3>1 DEF ProcessFail, Attempted, Idle
  <2>7. CASE StoreOffset(m)
    BY <1>0, <2>7 DEF StoreOffset, StoreMessage, member, group, dlq, history, Idle
  <2>8. CASE RevokedLost(m)
    BY <1>0, <2>8 DEF RevokedLost, Unassign, Polls, member, group, dlq, history, Idle
  <2>9. CASE FinalCommit(m)
    BY <1>0, <2>9 DEF FinalCommit, CommitBeforeLeaving, Commit, member, group, dlq,
       history, Idle
  <2>10. CASE Flush(m)
    BY <1>0, <2>10 DEF Flush, member, group, dlq, history, Idle
  <2>11. CASE Close(m)
    BY <1>0, <2>11 DEF Close, CommitBeforeLeaving, Commit, GoDown, Zero, member, group,
       dlq, history, Idle
  <2>12. CASE PollNothing(m)
    BY <1>0, <2>12 DEF PollNothing, vars, member, group, dlq, history, Idle
  <2> QED
    BY <1>1, <2>1, <2>2, <2>3, <2>4, <2>5, <2>6, <2>7, <2>8, <2>9, <2>10, <2>11, <2>12
       DEF Runs
<1>2. ASSUME NEW m \in Members, Trouble(m) PROVE Idle'
  <2>1. CASE PollFatal(m)
    BY <1>0, <2>1 DEF PollFatal, Polls, member, group, dlq, history, Idle
  <2>2. CASE Signal(m)
    BY <1>0, <2>2 DEF Signal, member, group, dlq, history, Idle
  <2>3. CASE Crash(m)
    BY <1>0, <2>3 DEF Crash, GoDown, Zero, member, group, dlq, history, Idle
  <2>4. CASE Evict(m)
    BY <1>0, <2>4 DEF Evict, member, group, dlq, history, Idle
  <2>5. ASSUME NEW S \in SUBSET Partitions, Revoked(m, S) PROVE Idle'
    BY <1>0, <2>5 DEF Revoked, Unassign, CommitBeforeLeaving, Commit, Polls, member,
       group, dlq, history, Idle
  <2>6. ASSUME NEW msg \in Messages, DlqLost(m, msg) PROVE Idle'
    BY <1>0, <2>6 DEF DlqLost, member, group, dlq, history, Idle
  <2> QED
    BY <1>2, <2>1, <2>2, <2>3, <2>4, <2>5, <2>6 DEF Trouble
<1>3. ASSUME NEW m \in Members, NEW S \in SUBSET Partitions, Assigned(m, S) PROVE Idle'
  BY <1>0, <1>3 DEF Assigned, StartOffset, Polls, member, group, dlq, history, Idle
<1>4. ASSUME NEW m \in Members, Start(m) PROVE Idle'
  BY <1>0, <1>4 DEF Start, member, group, dlq, history, Idle
<1>5. ASSUME NEW m \in Members, BackgroundCommit(m) PROVE Idle'
  BY <1>0, <1>5 DEF BackgroundCommit, Commit, member, group, dlq, history, Idle
<1>6. ASSUME NEW m \in Members, NEW msg \in Messages, DlqDelivered(m, msg) PROVE Idle'
  BY <1>0, <1>6 DEF DlqDelivered, member, group, dlq, history, Idle
<1>7. CASE UNCHANGED vars
  BY <1>0, <1>7 DEF vars, member, group, dlq, history, Idle
<1> QED
  BY <1>1, <1>2, <1>3, <1>4, <1>5, <1>6, <1>7 DEF Next, Joins

\* The group's offsets and the members' positions have passed only such messages.
TouchedBelow ==
  \A p \in Partitions, o \in 0 .. N-1 :
    o < committed[p] \/ (\E m \in Members : o < position[m][p]) => <<p, o>> \in Touched

LEMMA Pairs == \A p \in Partitions, o \in 0 .. N-1 : <<p, o>> \in Messages
  BY DEF Messages

\* A message in hand is let go of only when it has been handled, or by a death.
LEMMA HandsKeep ==
  ASSUME TypeOK, InHand, Idle, NEW n \in Members, current[n] \in Messages, [Next]_vars
  PROVE  current'[n] = current[n] \/ current[n] \in Handled' \/ Crash(n)
<1> DEFINE Kept == current'[n] = current[n] \/ current[n] \in Handled' \/ Crash(n)
<1>0. /\ pc \in [Members -> Locations]
      /\ current \in [Members -> Messages \union {NoMessage}]
      /\ Handled \subseteq Handled'
  BY HandledGrows DEF TypeOK
<1>a. current[n] # NoMessage
  BY NamesAssumption
<1> SUFFICES Kept
  OBVIOUS
<1>1. ASSUME NEW m \in Members, Runs(m) PROVE Kept
  <2>1. CASE ExitLoop(m)
    BY <1>0, <1>a, <2>1 DEF ExitLoop, member, group, dlq, history
  <2>2. ASSUME NEW p \in Partitions, PollMessage(m, p) PROVE Kept
    BY <1>0, <1>a, <2>2 DEF PollMessage, Polls, Idle
  <2>3. ASSUME NEW p \in Partitions, PollEOF(m, p) PROVE Kept
    BY <1>0, <1>a, <2>3 DEF PollEOF, Polls, member, group, dlq, history
  <2>4. CASE CommitFirst(m)
    BY <1>0, <1>a, <2>4 DEF CommitFirst, member, group, dlq, history
  <2>5. CASE ProcessOk(m)
    <3>1. current[m] \in Handled'
      BY <2>5, AttemptedHandles DEF ProcessOk
    <3> QED
      BY <1>0, <2>5, <3>1 DEF ProcessOk, Attempted
  <2>6. CASE ProcessFail(m)
    <3>1. current[m] \in Handled'
      BY <2>6, AttemptedHandles DEF ProcessFail
    <3> QED
      BY <1>0, <2>6, <3>1 DEF ProcessFail, Attempted
  <2>7. CASE StoreOffset(m)
    BY <1>0, <1>a, <2>7 DEF StoreOffset, Idle
  <2>8. CASE RevokedLost(m)
    BY <1>0, <1>a, <2>8 DEF RevokedLost, Unassign, Polls, member, group, dlq, history
  <2>9. CASE FinalCommit(m)
    BY <1>0, <1>a, <2>9 DEF FinalCommit, CommitBeforeLeaving, Commit, member, group,
       dlq, history
  <2>10. CASE Flush(m)
    BY <1>0, <1>a, <2>10 DEF Flush, member, group, dlq, history
  <2>11. CASE Close(m)
    BY <1>0, <1>a, <2>11 DEF Close, GoDown, Idle
  <2>12. CASE PollNothing(m)
    BY <1>0, <1>a, <2>12 DEF PollNothing, vars, member, group, dlq, history
  <2> QED
    BY <1>1, <2>1, <2>2, <2>3, <2>4, <2>5, <2>6, <2>7, <2>8, <2>9, <2>10, <2>11, <2>12
       DEF Runs
<1>2. ASSUME NEW m \in Members, Trouble(m) PROVE Kept
  <2>1. CASE PollFatal(m)
    BY <1>0, <1>a, <2>1 DEF PollFatal, Polls, member, group, dlq, history
  <2>2. CASE Signal(m)
    BY <1>0, <1>a, <2>2 DEF Signal, member, group, dlq, history
  <2>3. CASE Crash(m)
    BY <1>0, <2>3 DEF Crash, GoDown
  <2>4. CASE Evict(m)
    BY <1>0, <1>a, <2>4 DEF Evict, member, group, dlq, history
  <2>5. ASSUME NEW S \in SUBSET Partitions, Revoked(m, S) PROVE Kept
    BY <1>0, <1>a, <2>5 DEF Revoked, Unassign, CommitBeforeLeaving, Commit, Polls,
       member, group, dlq, history
  <2>6. ASSUME NEW msg \in Messages, DlqLost(m, msg) PROVE Kept
    BY <1>0, <1>a, <2>6 DEF DlqLost, member, group, dlq, history
  <2> QED
    BY <1>2, <2>1, <2>2, <2>3, <2>4, <2>5, <2>6 DEF Trouble
<1>3. ASSUME NEW m \in Members, NEW S \in SUBSET Partitions, Assigned(m, S) PROVE Kept
  BY <1>0, <1>a, <1>3 DEF Assigned, StartOffset, Polls, member, group, dlq, history
<1>4. ASSUME NEW m \in Members, Start(m) PROVE Kept
  BY <1>0, <1>a, <1>4 DEF Start, member, group, dlq, history
<1>5. ASSUME NEW m \in Members, BackgroundCommit(m) PROVE Kept
  BY <1>0, <1>a, <1>5 DEF BackgroundCommit, Commit, member, group, dlq, history
<1>6. ASSUME NEW m \in Members, NEW msg \in Messages, DlqDelivered(m, msg) PROVE Kept
  BY <1>0, <1>a, <1>6 DEF DlqDelivered, member, group, dlq, history
<1>7. CASE UNCHANGED vars
  BY <1>0, <1>a, <1>7 DEF vars, member, group, dlq, history
<1> QED
  BY <1>1, <1>2, <1>3, <1>4, <1>5, <1>6, <1>7 DEF Next, Joins

\* No commit is ahead of the position of the member that makes it.
LEMMA CommittedMoves ==
  ASSUME TypeOK, InHand, OwnerIsAhead, NEW p \in Partitions, [Next]_vars
  PROVE  committed'[p] = committed[p] \/ \E n \in Members : committed'[p] <= position[n][p]
<1> DEFINE Moved == committed'[p] = committed[p] \/ \E n \in Members : committed'[p] <= position[n][p]
<1>0. /\ \A n \in Members : stored[n][p] <= position[n][p]
      /\ position \in [Members -> [Partitions -> 0 .. N]]
      /\ committed \in [Partitions -> 0 .. N]
  BY DEF OwnerIsAhead, TypeOK
<1> SUFFICES Moved
  OBVIOUS
<1>1. ASSUME NEW m \in Members, Runs(m) PROVE Moved
  <2>1. CASE ExitLoop(m)
    BY <1>0, <2>1 DEF ExitLoop, member, group, dlq, history
  <2>2. ASSUME NEW q \in Partitions, PollMessage(m, q) PROVE Moved
    BY <1>0, <2>2 DEF PollMessage, Polls, member, group, dlq, history
  <2>3. ASSUME NEW q \in Partitions, PollEOF(m, q) PROVE Moved
    BY <1>0, <2>3 DEF PollEOF, Polls, member, group, dlq, history
  <2>4. CASE CommitFirst(m)
    <3>1. PICK r \in Partitions, o \in 0 .. N-1 :
            current[m][1] = r /\ current[m][2] = o /\ position[m][r] = o + 1
      BY <2>4, InHandIsMessage DEF CommitFirst
    <3>2. committed' = committed \/ committed' = [committed EXCEPT ![r] = position[m][r]]
      BY <2>4, <3>1 DEF CommitFirst
    <3>3. position[m][r] <= position[m][r]
      BY <3>1
    <3> QED
      BY <1>0, <3>2, <3>3
  <2>5. CASE ProcessOk(m)
    BY <1>0, <2>5 DEF ProcessOk, Attempted, member, group, dlq, history
  <2>6. CASE ProcessFail(m)
    BY <1>0, <2>6 DEF ProcessFail, Attempted, member, group, dlq, history
  <2>7. CASE StoreOffset(m)
    BY <1>0, <2>7 DEF StoreOffset, StoreMessage, member, group, dlq, history
  <2>8. CASE RevokedLost(m)
    BY <1>0, <2>8 DEF RevokedLost, Unassign, Polls, member, group, dlq, history
  <2>9. CASE FinalCommit(m)
    BY <1>0, <2>9 DEF FinalCommit, CommitBeforeLeaving, Commit, member, group, dlq,
       history
  <2>10. CASE Flush(m)
    BY <1>0, <2>10 DEF Flush, member, group, dlq, history
  <2>11. CASE Close(m)
    BY <1>0, <2>11 DEF Close, CommitBeforeLeaving, Commit, GoDown, Zero, member, group,
       dlq, history
  <2>12. CASE PollNothing(m)
    BY <1>0, <2>12 DEF PollNothing, vars, member, group, dlq, history
  <2> QED
    BY <1>1, <2>1, <2>2, <2>3, <2>4, <2>5, <2>6, <2>7, <2>8, <2>9, <2>10, <2>11, <2>12
       DEF Runs
<1>2. ASSUME NEW m \in Members, Trouble(m) PROVE Moved
  <2>1. CASE PollFatal(m)
    BY <1>0, <2>1 DEF PollFatal, Polls, member, group, dlq, history
  <2>2. CASE Signal(m)
    BY <1>0, <2>2 DEF Signal, member, group, dlq, history
  <2>3. CASE Crash(m)
    BY <1>0, <2>3 DEF Crash, GoDown, Zero, member, group, dlq, history
  <2>4. CASE Evict(m)
    BY <1>0, <2>4 DEF Evict, member, group, dlq, history
  <2>5. ASSUME NEW S \in SUBSET Partitions, Revoked(m, S) PROVE Moved
    BY <1>0, <2>5 DEF Revoked, Unassign, CommitBeforeLeaving, Commit, Polls, member,
       group, dlq, history
  <2>6. ASSUME NEW msg \in Messages, DlqLost(m, msg) PROVE Moved
    BY <1>0, <2>6 DEF DlqLost, member, group, dlq, history
  <2> QED
    BY <1>2, <2>1, <2>2, <2>3, <2>4, <2>5, <2>6 DEF Trouble
<1>3. ASSUME NEW m \in Members, NEW S \in SUBSET Partitions, Assigned(m, S) PROVE Moved
  BY <1>0, <1>3 DEF Assigned, StartOffset, Polls, member, group, dlq, history
<1>4. ASSUME NEW m \in Members, Start(m) PROVE Moved
  BY <1>0, <1>4 DEF Start, member, group, dlq, history
<1>5. ASSUME NEW m \in Members, BackgroundCommit(m) PROVE Moved
  BY <1>0, <1>5 DEF BackgroundCommit, Commit, member, group, dlq, history
<1>6. ASSUME NEW m \in Members, NEW msg \in Messages, DlqDelivered(m, msg) PROVE Moved
  BY <1>0, <1>6 DEF DlqDelivered, member, group, dlq, history
<1>7. CASE UNCHANGED vars
  BY <1>0, <1>7 DEF vars, member, group, dlq, history
<1> QED
  BY <1>1, <1>2, <1>3, <1>4, <1>5, <1>6, <1>7 DEF Next, Joins

\* A position moves by the message in hand, or to the committed offset.
LEMMA PositionsMove ==
  ASSUME TypeOK, NEW p \in Partitions, NEW o \in 0 .. N-1, NEW n \in Members, o <
        position'[n][p], [Next]_vars
  PROVE  o < position[n][p] \/ o < committed[p] \/ current'[n] = <<p, o>>
<1> DEFINE Moved == o < position[n][p] \/ o < committed[p] \/ current'[n] = <<p, o>>
<1>0. /\ position \in [Members -> [Partitions -> 0 .. N]]
      /\ current \in [Members -> Messages \union {NoMessage}]
      /\ committed \in [Partitions -> 0 .. N]
  BY DEF TypeOK
<1> SUFFICES Moved
  OBVIOUS
<1>1. ASSUME NEW m \in Members, Runs(m) PROVE Moved
  <2>1. CASE ExitLoop(m)
    BY <1>0, <2>1 DEF ExitLoop, member, group, dlq, history
  <2>2. ASSUME NEW q \in Partitions, PollMessage(m, q) PROVE Moved
    <3>1. /\ current'[m] = <<q, position[m][q]>> /\ position'[m][q] = position[m][q] + 1
          /\ m # n \/ p # q => position'[n][p] = position[n][p]
      BY <1>0, <2>2 DEF PollMessage
    <3>2. CASE m = n /\ p = q
      <4>1. position[n][p] \in Int
        BY <1>0
      <4>2. o < position[n][p] \/ o = position[n][p]
        BY <3>1, <3>2, <4>1
      <4> QED
        BY <3>1, <3>2, <4>2
    <3>3. CASE m # n \/ p # q
      BY <3>1, <3>3
    <3> QED
      BY <3>2, <3>3
  <2>3. ASSUME NEW q \in Partitions, PollEOF(m, q) PROVE Moved
    BY <1>0, <2>3 DEF PollEOF, Polls, member, group, dlq, history
  <2>4. CASE CommitFirst(m)
    BY <1>0, <2>4 DEF CommitFirst, member, group, dlq, history
  <2>5. CASE ProcessOk(m)
    BY <1>0, <2>5 DEF ProcessOk, Attempted, member, group, dlq, history
  <2>6. CASE ProcessFail(m)
    BY <1>0, <2>6 DEF ProcessFail, Attempted, member, group, dlq, history
  <2>7. CASE StoreOffset(m)
    BY <1>0, <2>7 DEF StoreOffset, StoreMessage, member, group, dlq, history
  <2>8. CASE RevokedLost(m)
    BY <1>0, <2>8 DEF RevokedLost, Unassign, Polls, member, group, dlq, history
  <2>9. CASE FinalCommit(m)
    BY <1>0, <2>9 DEF FinalCommit, CommitBeforeLeaving, Commit, member, group, dlq,
       history
  <2>10. CASE Flush(m)
    BY <1>0, <2>10 DEF Flush, member, group, dlq, history
  <2>11. CASE Close(m)
    BY <1>0, <2>11 DEF Close, CommitBeforeLeaving, Commit, GoDown, Zero, member, group,
       dlq, history
  <2>12. CASE PollNothing(m)
    BY <1>0, <2>12 DEF PollNothing, vars, member, group, dlq, history
  <2> QED
    BY <1>1, <2>1, <2>2, <2>3, <2>4, <2>5, <2>6, <2>7, <2>8, <2>9, <2>10, <2>11, <2>12
       DEF Runs
<1>2. ASSUME NEW m \in Members, Trouble(m) PROVE Moved
  <2>1. CASE PollFatal(m)
    BY <1>0, <2>1 DEF PollFatal, Polls, member, group, dlq, history
  <2>2. CASE Signal(m)
    BY <1>0, <2>2 DEF Signal, member, group, dlq, history
  <2>3. CASE Crash(m)
    BY <1>0, <2>3 DEF Crash, GoDown, Zero, member, group, dlq, history
  <2>4. CASE Evict(m)
    BY <1>0, <2>4 DEF Evict, member, group, dlq, history
  <2>5. ASSUME NEW S \in SUBSET Partitions, Revoked(m, S) PROVE Moved
    BY <1>0, <2>5 DEF Revoked, Unassign, CommitBeforeLeaving, Commit, Polls, member,
       group, dlq, history
  <2>6. ASSUME NEW msg \in Messages, DlqLost(m, msg) PROVE Moved
    BY <1>0, <2>6 DEF DlqLost, member, group, dlq, history
  <2> QED
    BY <1>2, <2>1, <2>2, <2>3, <2>4, <2>5, <2>6 DEF Trouble
<1>3. ASSUME NEW m \in Members, NEW S \in SUBSET Partitions, Assigned(m, S) PROVE Moved
  BY <1>0, <1>3 DEF Assigned, StartOffset, Polls, member, group, dlq, history
<1>4. ASSUME NEW m \in Members, Start(m) PROVE Moved
  BY <1>0, <1>4 DEF Start, member, group, dlq, history
<1>5. ASSUME NEW m \in Members, BackgroundCommit(m) PROVE Moved
  BY <1>0, <1>5 DEF BackgroundCommit, Commit, member, group, dlq, history
<1>6. ASSUME NEW m \in Members, NEW msg \in Messages, DlqDelivered(m, msg) PROVE Moved
  BY <1>0, <1>6 DEF DlqDelivered, member, group, dlq, history
<1>7. CASE UNCHANGED vars
  BY <1>0, <1>7 DEF vars, member, group, dlq, history
<1> QED
  BY <1>1, <1>2, <1>3, <1>4, <1>5, <1>6, <1>7 DEF Next, Joins

LEMMA TouchedBelowStep ==
  ASSUME Unhurt, TypeOK, InHand, OwnerIsAhead, Idle, TouchedBelow, [Next]_vars
  PROVE  TouchedBelow'
<1> SUFFICES ASSUME NEW p \in Partitions, NEW o \in 0 .. N-1,
                    o < committed'[p] \/ \E m \in Members : o < position'[m][p]
             PROVE  <<p, o>> \in Touched'
  BY DEF TouchedBelow
<1>1. <<p, o>> \in Messages
  BY Pairs
<1>2. <<p, o>> \in Touched => <<p, o>> \in Touched'
  <2>1. CASE <<p, o>> \in Handled
    BY <1>1, <2>1, HandledGrows DEF Touched
  <2>2. ASSUME NEW n \in Members, current[n] = <<p, o>> PROVE <<p, o>> \in Touched'
    <3>1. ~Crash(n)
      BY DEF Crash, Disrupt, Unhurt
    <3> QED
      BY <1>1, <2>2, <3>1, HandsKeep DEF Touched
  <2> QED
    BY <2>1, <2>2 DEF Touched
<1>3. CASE o < committed'[p]
  <2>1. /\ committed[p] \in 0 .. N /\ committed'[p] \in 0 .. N
        /\ \A n \in Members : position[n][p] \in 0 .. N
    BY TypeStep DEF TypeOK
  <2>2. o < committed[p] \/ \E n \in Members : o < position[n][p]
    BY <1>3, <2>1, CommittedMoves
  <2> QED
    BY <1>2, <2>2 DEF TouchedBelow
<1>4. ASSUME NEW n \in Members, o < position'[n][p] PROVE <<p, o>> \in Touched'
  <2>1. o < position[n][p] \/ o < committed[p] \/ current'[n] = <<p, o>>
    BY <1>4, PositionsMove
  <2> QED
    BY <1>1, <1>2, <2>1 DEF TouchedBelow, Touched
<1> QED
  BY <1>3, <1>4

RiskInv == FenceInv /\ Idle /\ TouchedBelow

LEMMA RiskInit == Init => RiskInv
  BY FenceInit DEF Init, RiskInv, Idle, TouchedBelow, Zero

LEMMA RiskInvStep == ASSUME Unhurt, RiskInv, [Next]_vars PROVE RiskInv'
  BY FenceStep, IdleStep, TouchedBelowStep DEF RiskInv, FenceInv

LEMMA RiskUnhurt == ASSUME Unhurt PROVE Spec => []AtRiskIsInHand
<1>1. RiskInv /\ [Next]_vars => RiskInv'
  BY RiskInvStep
<1>2. RiskInv => AtRiskIsInHand
  BY Pairs DEF RiskInv, TouchedBelow, Touched, AtRiskIsInHand
<1> QED
  BY <1>1, <1>2, RiskInit, PTL DEF Spec

\* The group's offset is ahead of the work by no more than the message each member
\* has in hand: in manual mode always, in the other commit modes while no process dies
\* of a crash or a second Ctrl+C. That is what enable.auto.offset.store and
\* CommitMessage before the work leave of at-least-once (main.go:405-421, 471-473).
THEOREM RiskIsInHand == (Mode = "manual" \/ Unhurt) /\ Spec => []AtRiskIsInHand
<1>1. CASE Mode = "manual"
  <2>1. Spec => []CommittedIsHandled
    BY <1>1, ManualCommitsHandled
  <2>2. CommittedIsHandled => AtRiskIsInHand
    BY DEF CommittedIsHandled, AtRiskIsInHand
  <2> QED
    BY <2>1, <2>2, PTL
<1>2. CASE Unhurt
  BY <1>2, RiskUnhurt
<1> QED
  BY <1>1, <1>2

(***************************************************************************)
(* The bookmark of what members have touched.                              *)
(***************************************************************************)
\* Only a message that Poll returns is touched anew, and no commit goes with it.
LEMMA TouchedStep ==
  ASSUME TypeOK, InHand, [Next]_vars
  PROVE  \/ Touched' \subseteq Touched
         \/ UNCHANGED committed /\ \E msg \in Messages : Touched' \subseteq Touched \union {msg}
<1> DEFINE Same == Touched' \subseteq Touched
<1>0. current \in [Members -> Messages \union {NoMessage}]
  BY DEF TypeOK
<1>a. UNCHANGED <<attempts, current>> => Same
  BY DEF Touched, Handled
<1>b. (UNCHANGED attempts /\ \E n \in Members : current' = [current EXCEPT ![n] = NoMessage])
        => Same
  BY <1>0, NamesAssumption DEF Touched, Handled
<1>c. ASSUME NEW m \in Members, pc[m] = "process", Attempted(m) PROVE Same
  <2>1. Handled' = Handled \union {current[m]}
    BY <1>c, AttemptedHandles
  <2>2. \A n \in Members : current'[n] = current[n] \/ current'[n] = NoMessage
    BY <1>0, <1>c DEF Attempted
  <2> QED
    BY <2>1, <2>2, NamesAssumption DEF Touched
<1>1. ASSUME NEW m \in Members, Runs(m),
             ~ \E p \in Partitions : PollMessage(m, p)
      PROVE  Same
  BY <1>1, <1>a, <1>b, <1>c
     DEF Runs, ExitLoop, PollNothing, PollEOF, CommitFirst, ProcessOk, ProcessFail,
         StoreOffset, RevokedLost, FinalCommit, Flush, Close, Unassign, GoDown, history,
         member, vars
<1>2. ASSUME NEW m \in Members, Trouble(m) PROVE Same
  BY <1>2, <1>a, <1>b
     DEF Trouble, PollFatal, Signal, Crash, Evict, Revoked, Unassign, DlqLost, GoDown,
         history, member
<1>3. ASSUME NEW m \in Members, Joins(m) \/ Start(m) \/ BackgroundCommit(m) PROVE Same
  BY <1>3, <1>a DEF Joins, Assigned, Start, BackgroundCommit, history, member
<1>4. ASSUME NEW m \in Members, NEW msg \in Messages, DlqDelivered(m, msg) PROVE Same
  BY <1>4, <1>a DEF DlqDelivered, history, member
<1>5. ASSUME NEW m \in Members, NEW p \in Partitions, PollMessage(m, p)
      PROVE  /\ UNCHANGED committed
             /\ \E msg \in Messages : Touched' \subseteq Touched \union {msg}
  <2> DEFINE msg == <<p, position[m][p]>>
  <2>1. msg \in Messages /\ current' = [current EXCEPT ![m] = msg]
    BY <1>5 DEF PollMessage, TypeOK, Messages
  <2>2. UNCHANGED <<committed, attempts>>
    BY <1>5 DEF PollMessage, group, history
  <2> HIDE DEF msg
  <2>3. Touched' \subseteq Touched \union {msg}
    BY <1>0, <2>1, <2>2 DEF Touched, Handled
  <2> QED
    BY <2>1, <2>2, <2>3
<1>6. CASE UNCHANGED vars
  BY <1>6, <1>a DEF vars, member, history
<1> QED
  BY <1>1, <1>2, <1>3, <1>4, <1>5, <1>6 DEF Next

LEMMA TouchedGrows ==
  ASSUME Unhurt, TypeOK, InHand, Idle, [Next]_vars
  PROVE  Touched \subseteq Touched'
<1> SUFFICES ASSUME NEW msg \in Messages, msg \in Touched PROVE msg \in Touched'
  BY DEF Touched
<1>1. CASE msg \in Handled
  BY <1>1, HandledGrows DEF Touched
<1>2. ASSUME NEW n \in Members, current[n] = msg PROVE msg \in Touched'
  <2>1. ~Crash(n)
    BY DEF Crash, Disrupt, Unhurt
  <2> QED
    BY <1>2, <2>1, HandsKeep DEF Touched
<1> QED
  BY <1>1, <1>2 DEF Touched

\* In every commit mode, while no process dies of a crash or a second Ctrl+C, the
\* group's offsets are a bookmark over the messages handled or in hand: they move
\* forward only, and over nothing Poll has not returned (main.go:405-421, 471-473).
THEOREM TouchedRefinesBookmark == Unhurt /\ Spec => RefinesBookmarkOfTouched
<1> SUFFICES ASSUME Unhurt PROVE Spec => RefinesBookmarkOfTouched
  OBVIOUS
<1>1. Init => MarkOfTouched!Init
  BY NamesAssumption DEF Init, MarkOfTouched!Init, Touched, Handled, Zero
<1>2. RiskInv /\ [Next]_vars /\ RiskInv' => [MarkOfTouched!Next]_<<Touched, committed>>
  <2> SUFFICES ASSUME RiskInv, [Next]_vars, RiskInv'
               PROVE  [MarkOfTouched!Next]_<<Touched, committed>>
    OBVIOUS
  <2>1. Touched \subseteq Touched'
    BY TouchedGrows DEF RiskInv, FenceInv
  <2>2. CASE Touched' \subseteq Touched
    <3>1. \A p \in Partitions : committed'[p] >= committed[p]
      BY MonotoneStep DEF RiskInv
    <3>2. \A p \in Partitions, o \in 0 .. N-1 : o < committed'[p] => <<p, o>> \in Touched
      BY <2>2 DEF RiskInv, TouchedBelow
    <3>3. committed' \in [Partitions -> 0 .. N]
      BY DEF RiskInv, FenceInv, TypeOK
    <3>4. UNCHANGED Touched
      BY <2>1, <2>2
    <3>5. MarkOfTouched!Advance
      BY <3>1, <3>2, <3>3, <3>4 DEF MarkOfTouched!Advance, MarkOfTouched!Covered
    <3> QED
      BY <3>5 DEF MarkOfTouched!Next
  <2>3. ASSUME UNCHANGED committed, NEW msg \in Messages, Touched' \subseteq Touched \union {msg}
        PROVE  [MarkOfTouched!Next]_<<Touched, committed>>
    <3>1. CASE Touched' = Touched
      BY <2>3, <3>1
    <3>2. CASE Touched' # Touched
      <4>1. Touched' = Touched \union {msg}
        BY <2>1, <2>3, <3>2
      <4> QED
        BY <2>3, <4>1 DEF MarkOfTouched!Next, MarkOfTouched!Handle, MarkOfTouched!Messages, Messages
    <3> QED
      BY <3>1, <3>2
  <2> QED
    BY <2>2, <2>3, TouchedStep DEF RiskInv, FenceInv
<1>3. RiskInv /\ [Next]_vars => RiskInv'
  BY RiskInvStep
<1> QED
  BY <1>1, <1>2, <1>3, RiskInit, PTL DEF Spec, RefinesBookmarkOfTouched, MarkOfTouched!Spec

(***************************************************************************)
(* Nothing is lost.                                                        *)
(***************************************************************************)
\* Without a dead-letter producer no message fails (none is undecodable, none is
\* interrupted); with one, no dead letter is lost on its way.
NothingDropped ==
  IF DeadLetterOn
  THEN {"crash", "secondSignal", "dlqRefused", "dlqLost", "flushTimeout"} \intersect Disruptions = {}
  ELSE Poison = {} /\ ~(Interruptible /\ "signal" \in Disruptions)

\* No process dies with dead letters in its queue, or gives up on flushing them.
QueuesSurvive ==
  DeadLetterOn => {"crash", "secondSignal", "flushTimeout"} \intersect Disruptions = {}

HandledIsAccounted == \A msg \in Messages : msg \in Handled => Accounted(msg)

\* Flush comes before Close: a process leaves no dead letter behind.
QueuesEmptied ==
  \A m \in Members : pc[m] = "close" \/ ~DeadLetterOn => dlqQueue[m] = {}

\* A context is done only by a signal.
SignalsSeen == \A m \in Members : ctxDone[m] => "signal" \in Disruptions

LEMMA SignalsSeenStep ==
  ASSUME TypeOK, SignalsSeen, [Next]_vars
  PROVE  SignalsSeen'
<1>0. ctxDone \in [Members -> BOOLEAN]
  BY DEF TypeOK
<1>1. ASSUME NEW m \in Members, Runs(m) PROVE SignalsSeen'
  BY <1>0, <1>1 DEF Runs, ExitLoop, PollNothing, PollMessage, PollEOF, CommitFirst,
     ProcessOk, ProcessFail, StoreOffset, RevokedLost, FinalCommit, Flush, Close,
     Attempted, Unassign, GoDown, vars, member, SignalsSeen
<1>2. ASSUME NEW m \in Members, Trouble(m) PROVE SignalsSeen'
  <2>1. CASE Signal(m)
    BY <1>0, <2>1 DEF Signal, Disrupt, SignalsSeen
  <2>2. CASE ~Signal(m)
    BY <1>0, <1>2, <2>2 DEF Trouble, PollFatal, Crash, Evict, Revoked, Unassign,
       DlqLost, GoDown, member, SignalsSeen
  <2> QED
    BY <2>1, <2>2
<1>3. ASSUME NEW m \in Members, Joins(m) \/ Start(m) \/ BackgroundCommit(m)
      PROVE  SignalsSeen'
  BY <1>0, <1>3 DEF Joins, Assigned, Start, BackgroundCommit, member, SignalsSeen
<1>4. ASSUME NEW m \in Members, NEW msg \in Messages, DlqDelivered(m, msg)
      PROVE  SignalsSeen'
  BY <1>4 DEF DlqDelivered, member, SignalsSeen
<1>5. CASE UNCHANGED vars
  BY <1>5 DEF vars, member, SignalsSeen
<1> QED
  BY <1>1, <1>2, <1>3, <1>4, <1>5 DEF Next

LEMMA QueuesEmptiedStep ==
  ASSUME QueuesSurvive, TypeOK, QueuesEmptied, [Next]_vars
  PROVE  QueuesEmptied'
<1>0. pc \in [Members -> Locations] /\ dlqQueue \in [Members -> SUBSET Messages]
  BY DEF TypeOK
<1>1. ASSUME NEW m \in Members, Runs(m) PROVE QueuesEmptied'
  <2>1. CASE ExitLoop(m)
    BY <1>0, <2>1 DEF ExitLoop, member, group, dlq, history, QueuesEmptied
  <2>2. ASSUME NEW p \in Partitions, PollMessage(m, p) PROVE QueuesEmptied'
    BY <1>0, <2>2 DEF PollMessage, AfterPoll, dlq, QueuesEmptied
  <2>3. ASSUME NEW p \in Partitions, PollEOF(m, p) PROVE QueuesEmptied'
    BY <1>0, <2>3 DEF PollEOF, Polls, member, group, dlq, history, QueuesEmptied
  <2>4. CASE CommitFirst(m)
    BY <1>0, <2>4 DEF CommitFirst, member, group, dlq, history, QueuesEmptied
  <2>5. CASE ProcessOk(m)
    BY <1>0, <2>5 DEF ProcessOk, Attempted, member, group, dlq, history, QueuesEmptied
  <2>6. CASE ProcessFail(m)
    BY <1>0, <2>6 DEF ProcessFail, Attempted, DeadLetter, QueuesEmptied
  <2>7. CASE StoreOffset(m)
    BY <1>0, <2>7 DEF StoreOffset, StoreMessage, member, group, dlq, history,
       QueuesEmptied
  <2>8. CASE RevokedLost(m)
    BY <1>0, <2>8 DEF RevokedLost, Unassign, Polls, member, group, dlq, history,
       QueuesEmptied
  <2>9. CASE FinalCommit(m)
    BY <1>0, <2>9 DEF FinalCommit, CommitBeforeLeaving, Commit, member, group, dlq,
       history, QueuesEmptied
  <2>10. CASE Flush(m)
    BY <1>0, <2>10 DEF Flush, Disrupt, dlq, QueuesSurvive, QueuesEmptied
  <2>11. CASE Close(m)
    BY <1>0, <2>11 DEF Close, CommitBeforeLeaving, Commit, GoDown, Zero, member, group,
       dlq, history, QueuesEmptied
  <2>12. CASE PollNothing(m)
    BY <1>0, <2>12 DEF PollNothing, vars, member, group, dlq, history, QueuesEmptied
  <2> QED
    BY <1>1, <2>1, <2>2, <2>3, <2>4, <2>5, <2>6, <2>7, <2>8, <2>9, <2>10, <2>11, <2>12
       DEF Runs
<1>2. ASSUME NEW m \in Members, Trouble(m) PROVE QueuesEmptied'
  <2>1. CASE PollFatal(m)
    BY <1>0, <2>1 DEF PollFatal, Polls, member, group, dlq, history, QueuesEmptied
  <2>2. CASE Signal(m)
    BY <1>0, <2>2 DEF Signal, member, group, dlq, history, QueuesEmptied
  <2>3. CASE Crash(m)
    BY <1>0, <2>3 DEF Crash, GoDown, Zero, member, group, dlq, history, QueuesEmptied
  <2>4. CASE Evict(m)
    BY <1>0, <2>4 DEF Evict, member, group, dlq, history, QueuesEmptied
  <2>5. ASSUME NEW S \in SUBSET Partitions, Revoked(m, S) PROVE QueuesEmptied'
    BY <1>0, <2>5 DEF Revoked, Unassign, CommitBeforeLeaving, Commit, Polls, member,
       group, dlq, history, QueuesEmptied
  <2>6. ASSUME NEW msg \in Messages, DlqLost(m, msg) PROVE QueuesEmptied'
    BY <1>0, <2>6 DEF DlqLost, member, group, dlq, history, QueuesEmptied
  <2> QED
    BY <1>2, <2>1, <2>2, <2>3, <2>4, <2>5, <2>6 DEF Trouble
<1>3. ASSUME NEW m \in Members, NEW S \in SUBSET Partitions, Assigned(m, S)
      PROVE  QueuesEmptied'
  BY <1>0, <1>3 DEF Assigned, StartOffset, Polls, member, group, dlq, history,
     QueuesEmptied
<1>4. ASSUME NEW m \in Members, Start(m) PROVE QueuesEmptied'
  BY <1>0, <1>4 DEF Start, member, group, dlq, history, QueuesEmptied
<1>5. ASSUME NEW m \in Members, BackgroundCommit(m) PROVE QueuesEmptied'
  BY <1>0, <1>5 DEF BackgroundCommit, Commit, member, group, dlq, history, QueuesEmptied
<1>6. ASSUME NEW m \in Members, NEW msg \in Messages, DlqDelivered(m, msg)
      PROVE  QueuesEmptied'
  BY <1>0, <1>6 DEF DlqDelivered, member, group, dlq, history, QueuesEmptied
<1>7. CASE UNCHANGED vars
  BY <1>0, <1>7 DEF vars, member, group, dlq, history, QueuesEmptied
<1> QED
  BY <1>1, <1>2, <1>3, <1>4, <1>5, <1>6, <1>7 DEF Next, Joins

\* A message stays accounted for unless its dead letter is lost on the way.
LEMMA AccountedStep ==
  ASSUME QueuesSurvive, TypeOK, InHand, QueuesEmptied, NEW msg \in Messages,
        Accounted(msg), [Next]_vars
  PROVE  Accounted(msg)' \/ \E m \in Members : DlqLost(m, msg)
<1> SUFFICES ASSUME ~ \E m \in Members : DlqLost(m, msg) PROVE Accounted(msg)'
  OBVIOUS
<1>0. dlqQueue \in [Members -> SUBSET Messages]
  BY DEF TypeOK
<1>1. ASSUME NEW m \in Members, Runs(m) PROVE Accounted(msg)'
  <2>1. CASE ExitLoop(m)
    BY <1>0, <2>1 DEF ExitLoop, member, group, dlq, history, Accounted
  <2>2. ASSUME NEW p \in Partitions, PollMessage(m, p) PROVE Accounted(msg)'
    BY <1>0, <2>2 DEF PollMessage, Polls, member, group, dlq, history, Accounted
  <2>3. ASSUME NEW p \in Partitions, PollEOF(m, p) PROVE Accounted(msg)'
    BY <1>0, <2>3 DEF PollEOF, Polls, member, group, dlq, history, Accounted
  <2>4. CASE CommitFirst(m)
    BY <1>0, <2>4 DEF CommitFirst, member, group, dlq, history, Accounted
  <2>5. CASE ProcessOk(m)
    BY <1>0, <2>5 DEF ProcessOk, Accounted, dlq
  <2>6. CASE ProcessFail(m)
    BY <1>0, <2>6 DEF ProcessFail, DeadLetter, Accounted
  <2>7. CASE StoreOffset(m)
    BY <1>0, <2>7 DEF StoreOffset, StoreMessage, member, group, dlq, history, Accounted
  <2>8. CASE RevokedLost(m)
    BY <1>0, <2>8 DEF RevokedLost, Unassign, Polls, member, group, dlq, history,
       Accounted
  <2>9. CASE FinalCommit(m)
    BY <1>0, <2>9 DEF FinalCommit, CommitBeforeLeaving, Commit, member, group, dlq,
       history, Accounted
  <2>10. CASE Flush(m)
    BY <1>0, <2>10 DEF Flush, member, group, dlq, history, Accounted
  <2>11. CASE Close(m)
    <3>1. dlqQueue[m] = {}
      BY <2>11 DEF Close, QueuesEmptied
    <3> QED
      BY <1>0, <2>11, <3>1 DEF Close, GoDown, history, Accounted
  <2>12. CASE PollNothing(m)
    BY <1>0, <2>12 DEF PollNothing, vars, member, group, dlq, history, Accounted
  <2> QED
    BY <1>1, <2>1, <2>2, <2>3, <2>4, <2>5, <2>6, <2>7, <2>8, <2>9, <2>10, <2>11, <2>12
       DEF Runs
<1>2. ASSUME NEW m \in Members, Trouble(m) PROVE Accounted(msg)'
  <2>1. CASE PollFatal(m)
    BY <1>0, <2>1 DEF PollFatal, Polls, member, group, dlq, history, Accounted
  <2>2. CASE Signal(m)
    BY <1>0, <2>2 DEF Signal, member, group, dlq, history, Accounted
  <2>3. CASE Crash(m)
    <3>1. ~DeadLetterOn
      BY <2>3 DEF Crash, Disrupt, QueuesSurvive
    <3>2. dlqQueue[m] = {}
      BY <3>1 DEF QueuesEmptied
    <3> QED
      BY <1>0, <2>3, <3>2 DEF Crash, GoDown, history, Accounted
  <2>4. CASE Evict(m)
    BY <1>0, <2>4 DEF Evict, member, group, dlq, history, Accounted
  <2>5. ASSUME NEW S \in SUBSET Partitions, Revoked(m, S) PROVE Accounted(msg)'
    BY <1>0, <2>5 DEF Revoked, Unassign, CommitBeforeLeaving, Commit, Polls, member,
       group, dlq, history, Accounted
  <2>6. ASSUME NEW d \in Messages, DlqLost(m, d), d # msg PROVE Accounted(msg)'
    BY <1>0, <2>6 DEF DlqLost, history, Accounted
  <2> QED
    BY <1>2, <2>1, <2>2, <2>3, <2>4, <2>5, <2>6 DEF Trouble
<1>3. ASSUME NEW m \in Members, NEW S \in SUBSET Partitions, Assigned(m, S)
      PROVE  Accounted(msg)'
  BY <1>0, <1>3 DEF Assigned, StartOffset, Polls, member, group, dlq, history, Accounted
<1>4. ASSUME NEW m \in Members, Start(m) PROVE Accounted(msg)'
  BY <1>0, <1>4 DEF Start, member, group, dlq, history, Accounted
<1>5. ASSUME NEW m \in Members, BackgroundCommit(m) PROVE Accounted(msg)'
  BY <1>0, <1>5 DEF BackgroundCommit, Commit, member, group, dlq, history, Accounted
<1>6. ASSUME NEW m \in Members, NEW d \in Messages, DlqDelivered(m, d)
      PROVE  Accounted(msg)'
  BY <1>0, <1>6 DEF DlqDelivered, member, group, dlq, history, Accounted
<1>7. CASE UNCHANGED vars
  BY <1>0, <1>7 DEF vars, member, group, dlq, history, Accounted
<1> QED
  BY <1>1, <1>2, <1>3, <1>4, <1>5, <1>6, <1>7 DEF Next, Joins

\* A message is handled in one of two ways, and one of them accounts for it.
LEMMA NewlyHandled ==
  ASSUME TypeOK, InHand, NEW msg \in Messages, msg \notin Handled, msg \in Handled',
         [Next]_vars
  PROVE  Accounted(msg)' \/ \E m \in Members : ProcessFail(m) /\ current[m] = msg
<1> DEFINE Explained == Accounted(msg)' \/ \E m \in Members : ProcessFail(m) /\ current[m] = msg
<1> SUFFICES Explained
  OBVIOUS
<1>1. ASSUME NEW m \in Members, Runs(m) PROVE Explained
  <2>1. CASE ExitLoop(m)
    BY <2>1 DEF ExitLoop, member, group, dlq, history, Handled
  <2>2. ASSUME NEW p \in Partitions, PollMessage(m, p) PROVE Explained
    BY <2>2 DEF PollMessage, Polls, member, group, dlq, history, Handled
  <2>3. ASSUME NEW p \in Partitions, PollEOF(m, p) PROVE Explained
    BY <2>3 DEF PollEOF, Polls, member, group, dlq, history, Handled
  <2>4. CASE CommitFirst(m)
    BY <2>4 DEF CommitFirst, member, group, dlq, history, Handled
  <2>5. CASE ProcessOk(m)
    <3>1. Handled' = Handled \union {current[m]} /\ succeeded' = succeeded \union {current[m]}
      BY <2>5, AttemptedHandles DEF ProcessOk
    <3> QED
      BY <3>1 DEF Accounted
  <2>6. CASE ProcessFail(m)
    <3>1. Handled' = Handled \union {current[m]}
      BY <2>6, AttemptedHandles DEF ProcessFail
    <3> QED
      BY <2>6, <3>1
  <2>7. CASE StoreOffset(m)
    BY <2>7 DEF StoreOffset, StoreMessage, member, group, dlq, history, Handled
  <2>8. CASE RevokedLost(m)
    BY <2>8 DEF RevokedLost, Unassign, Polls, member, group, dlq, history, Handled
  <2>9. CASE FinalCommit(m)
    BY <2>9 DEF FinalCommit, CommitBeforeLeaving, Commit, member, group, dlq, history,
       Handled
  <2>10. CASE Flush(m)
    BY <2>10 DEF Flush, member, group, dlq, history, Handled
  <2>11. CASE Close(m)
    BY <2>11 DEF Close, CommitBeforeLeaving, Commit, GoDown, Zero, member, group, dlq,
       history, Handled
  <2>12. CASE PollNothing(m)
    BY <2>12 DEF PollNothing, vars, member, group, dlq, history, Handled
  <2> QED
    BY <1>1, <2>1, <2>2, <2>3, <2>4, <2>5, <2>6, <2>7, <2>8, <2>9, <2>10, <2>11, <2>12
       DEF Runs
<1>2. ASSUME NEW m \in Members, Trouble(m) PROVE Explained
  <2>1. CASE PollFatal(m)
    BY <2>1 DEF PollFatal, Polls, member, group, dlq, history, Handled
  <2>2. CASE Signal(m)
    BY <2>2 DEF Signal, member, group, dlq, history, Handled
  <2>3. CASE Crash(m)
    BY <2>3 DEF Crash, GoDown, Zero, member, group, dlq, history, Handled
  <2>4. CASE Evict(m)
    BY <2>4 DEF Evict, member, group, dlq, history, Handled
  <2>5. ASSUME NEW S \in SUBSET Partitions, Revoked(m, S) PROVE Explained
    BY <2>5 DEF Revoked, Unassign, CommitBeforeLeaving, Commit, Polls, member, group,
       dlq, history, Handled
  <2>6. ASSUME NEW d \in Messages, DlqLost(m, d) PROVE Explained
    BY <2>6 DEF DlqLost, member, group, dlq, history, Handled
  <2> QED
    BY <1>2, <2>1, <2>2, <2>3, <2>4, <2>5, <2>6 DEF Trouble
<1>3. ASSUME NEW m \in Members, NEW S \in SUBSET Partitions, Assigned(m, S)
      PROVE  Explained
  BY <1>3 DEF Assigned, StartOffset, Polls, member, group, dlq, history, Handled
<1>4. ASSUME NEW m \in Members, Start(m) PROVE Explained
  BY <1>4 DEF Start, member, group, dlq, history, Handled
<1>5. ASSUME NEW m \in Members, BackgroundCommit(m) PROVE Explained
  BY <1>5 DEF BackgroundCommit, Commit, member, group, dlq, history, Handled
<1>6. ASSUME NEW m \in Members, NEW d \in Messages, DlqDelivered(m, d)
      PROVE  Explained
  BY <1>6 DEF DlqDelivered, member, group, dlq, history, Handled
<1>7. CASE UNCHANGED vars
  BY <1>7 DEF vars, member, group, dlq, history, Handled
<1> QED
  BY <1>1, <1>2, <1>3, <1>4, <1>5, <1>6, <1>7 DEF Next, Joins

\* With every road to the dead-letter topic open, the other way accounts for it as well.
LEMMA FailedIsAccounted ==
  ASSUME NothingDropped, TypeOK, InHand, SignalsSeen, NEW m \in Members, ProcessFail(m),
         NEW msg \in Messages, current[m] = msg
  PROVE  Accounted(msg)'
<1>1. DeadLetterOn
  BY DEF ProcessFail, MayFail, NothingDropped, SignalsSeen
<1>2. dlqQueue' = [dlqQueue EXCEPT ![m] = dlqQueue[m] \union {msg}]
  BY <1>1 DEF ProcessFail, DeadLetter, Disrupt, NothingDropped
<1>3. msg \in dlqQueue'[m]
  BY <1>2 DEF TypeOK
<1> QED
  BY <1>3 DEF Accounted

LossInv == ManualInv /\ SignalsSeen /\ QueuesEmptied /\ HandledIsAccounted

\* At-least-once in manual mode, for any members, partitions, rebalances, evictions and
\* failed commits: behind the group's offset every message was processed or its dead
\* letter is delivered or on its way, provided every failed message has a dead-letter
\* producer to go to and no dead letter gets lost (main.go:451-470, 716-727).
THEOREM ManualLosesNothing ==
  NothingDropped /\ Mode = "manual" /\ Spec => []NothingLost
<1> SUFFICES ASSUME NothingDropped, Mode = "manual" PROVE Spec => []NothingLost
  OBVIOUS
<1>1. Init => LossInv
  <2>1. Init => SignalsSeen /\ QueuesEmptied /\ HandledIsAccounted
    BY DEF Init, SignalsSeen, QueuesEmptied, HandledIsAccounted, Handled
  <2> QED
    BY <2>1, ManualInitStep DEF LossInv
<1>2. LossInv /\ [Next]_vars => LossInv'
  <2> SUFFICES ASSUME LossInv, [Next]_vars PROVE LossInv'
    OBVIOUS
  <2>0. QueuesSurvive /\ TypeOK /\ InHand
    BY DEF QueuesSurvive, NothingDropped, LossInv, ManualInv
  <2>1. ManualInv' /\ SignalsSeen' /\ QueuesEmptied'
    BY <2>0, ManualInitStep, SignalsSeenStep, QueuesEmptiedStep DEF LossInv
  <2>2. ASSUME NEW msg \in Messages, msg \in Handled' PROVE Accounted(msg)'
    <3>1. CASE msg \in Handled
      <4>1. ~ \E m \in Members : DlqLost(m, msg)
        BY DEF DlqLost, Disrupt, NothingDropped, LossInv, QueuesEmptied
      <4> QED
        BY <2>0, <3>1, <4>1, AccountedStep DEF LossInv, HandledIsAccounted
    <3>2. CASE msg \notin Handled
      <4>1. \A m \in Members : ProcessFail(m) /\ current[m] = msg => Accounted(msg)'
        BY <2>0, FailedIsAccounted DEF LossInv
      <4> QED
        BY <2>0, <2>2, <3>2, <4>1, NewlyHandled
    <3> QED
      BY <3>1, <3>2
  <2> QED
    BY <2>1, <2>2 DEF LossInv, HandledIsAccounted
<1>3. LossInv => NothingLost
  BY Pairs DEF LossInv, ManualInv, CommittedIsHandled, HandledIsAccounted, Accounted,
     NothingLost
<1> QED
  BY <1>1, <1>2, <1>3, PTL DEF Spec

(***************************************************************************)
(* What a disruption costs.  Counted are the messages that are gone        *)
(* (Missing), and the members a signal caught with work in hand (Doomed):  *)
(* each of these may still turn its message into a missing one without     *)
(* another disruption.                                                     *)
(***************************************************************************)
Passed(msg) ==
  msg[2] < committed[msg[1]] \/ \E m \in Members : msg[2] < position[m][msg[1]]

Missing ==
  {msg \in Messages :
     /\ DeadLetterOn \/ msg \notin Poison
     /\ ~Accounted(msg)
     /\ msg \in Handled \/ (Passed(msg) /\ \A m \in Members : current[m] # msg)}

Doomed == {m \in Members : ctxDone[m] /\ pc[m] \in {"commitFirst", "process"}}

LossIsCounted ==
  /\ IsFiniteSet(Missing) /\ IsFiniteSet(Doomed)
  /\ Cardinality(Missing) + Cardinality(Doomed) <= MaxDisruptions - budget

CountInv == FenceInv /\ Idle /\ QueuesEmptied /\ LossIsCounted

\* Nothing is passed but by being put in somebody's hand.
LEMMA PassedStep ==
  ASSUME FenceInv, NEW msg \in Messages, [Next]_vars, Passed(msg)'
  PROVE  Passed(msg) \/ \E m \in Members : current'[m] = msg
<1>1. PICK p \in Partitions, o \in 0 .. N-1 : msg = <<p, o>> /\ msg[1] = p /\ msg[2] = o
  BY DEF Messages
<1>2. CASE o < committed'[p]
  <2>1. /\ committed[p] \in 0 .. N /\ committed'[p] \in 0 .. N
        /\ \A n \in Members : position[n][p] \in 0 .. N
    BY FenceStep DEF FenceInv, TypeOK
  <2>2. o < committed[p] \/ \E n \in Members : o < position[n][p]
    BY <1>2, <2>1, CommittedMoves DEF FenceInv
  <2> QED
    BY <1>1, <2>2 DEF Passed
<1>3. ASSUME NEW n \in Members, o < position'[n][p]
      PROVE  Passed(msg) \/ current'[n] = msg
  <2>1. o < position[n][p] \/ o < committed[p] \/ current'[n] = <<p, o>>
    BY <1>3, PositionsMove DEF FenceInv
  <2> QED
    BY <1>1, <2>1 DEF Passed
<1> QED
  BY <1>1, <1>2, <1>3 DEF Passed

\* The three ways a message goes missing.
Loses(m, msg) ==
  \/ Crash(m) /\ current[m] = msg
  \/ ProcessFail(m) /\ current[m] = msg /\ ~Accounted(msg)'
  \/ DlqLost(m, msg)

LEMMA MissingStep ==
  ASSUME QueuesSurvive, FenceInv, Idle, QueuesEmptied, [Next]_vars,
         NEW msg \in Missing' \ Missing
  PROVE  \E m \in Members : Loses(m, msg)
<1>0. /\ TypeOK /\ InHand /\ msg \in Messages
      /\ DeadLetterOn \/ msg \notin Poison
      /\ ~Accounted(msg)'
      /\ msg \in Handled' \/ (Passed(msg)' /\ \A m \in Members : current'[m] # msg)
  BY DEF Missing, FenceInv
<1>1. CASE Accounted(msg)
  BY <1>0, <1>1, AccountedStep DEF Loses
<1>2. CASE ~Accounted(msg) /\ msg \in Handled'
  <2>1. msg \notin Handled
    BY <1>0, <1>2 DEF Missing
  <2> QED
    BY <1>0, <1>2, <2>1, NewlyHandled DEF Loses
<1>3. CASE ~Accounted(msg) /\ msg \notin Handled'
  <2>1. Passed(msg)
    BY <1>0, <1>3, PassedStep
  <2>2. PICK n \in Members : current[n] = msg
    BY <1>0, <1>3, <2>1 DEF Missing
  <2>3. Crash(n)
    BY <1>0, <1>3, <2>2, HandsKeep
  <2> QED
    BY <2>2, <2>3 DEF Loses
<1> QED
  BY <1>1, <1>2, <1>3

\* One step loses one message.
LEMMA OneIsLost ==
  ASSUME TypeOK, NEW m \in Members, NEW n \in Members, NEW x \in Messages,
         NEW y \in Messages, Loses(m, x), Loses(n, y)
  PROVE  x = y
<1>0. pc \in [Members -> Locations] /\ dlqQueue \in [Members -> SUBSET Messages]
  BY DEF TypeOK
<1>1. \A k \in Members : Crash(k) =>
        pc[k] # "down" /\ pc' = [pc EXCEPT ![k] = "down"]
  BY DEF Crash, GoDown
<1>2. \A k \in Members : ProcessFail(k) =>
        /\ pc[k] = "process" /\ pc'[k] \in {"store", "loop"}
        /\ \A j \in Members \ {k} : pc'[j] = pc[j]
  BY <1>0 DEF ProcessFail, Attempted
<1>3. \A k \in Members, d \in Messages : DlqLost(k, d) =>
        pc' = pc /\ d \in dlqQueue[k] /\ dlqQueue' = [dlqQueue EXCEPT ![k] = @ \ {d}]
  BY DEF DlqLost, member
<1>4. CASE m = n /\ ~DlqLost(m, x)
  BY <1>0, <1>1, <1>2, <1>3, <1>4 DEF Loses
<1>5. CASE DlqLost(m, x)
  <2>1. DlqLost(n, y)
    BY <1>0, <1>1, <1>2, <1>3, <1>5 DEF Loses
  <2>2. x \notin dlqQueue'[m] /\ x \in dlqQueue[m]
    BY <1>0, <1>3, <1>5
  <2>3. m = n
    BY <1>0, <1>3, <2>1, <2>2
  <2> QED
    BY <1>0, <1>3, <2>1, <2>2, <2>3
<1>6. CASE m # n /\ ~DlqLost(m, x)
  BY <1>0, <1>1, <1>2, <1>3, <1>6 DEF Loses
<1> QED
  BY <1>4, <1>5, <1>6

\* Only a signal dooms work, and it loses nothing by itself.
LEMMA DoomedStep ==
  ASSUME TypeOK, [Next]_vars, NEW n \in Doomed' \ Doomed
  PROVE  Signal(n)
<1>0. pc \in [Members -> Locations] /\ ctxDone \in [Members -> BOOLEAN] /\ n \in Members
  BY DEF TypeOK, Doomed
<1>1. ASSUME NEW m \in Members, Runs(m) PROVE n \notin Doomed' \ Doomed
  BY <1>0, <1>1 DEF Runs, ExitLoop, PollNothing, PollMessage, PollEOF, Polls, LoopEnds,
     CommitFirst, ProcessOk, ProcessFail, StoreOffset, RevokedLost, FinalCommit, Flush,
     Close, Attempted, Unassign, GoDown, vars, member, Doomed
<1>2. ASSUME NEW m \in Members, Trouble(m) PROVE Signal(n)
  <2>1. CASE Signal(m)
    BY <1>0, <2>1 DEF Signal, Doomed
  <2>2. CASE ~Signal(m)
    BY <1>0, <1>2, <2>2 DEF Trouble, PollFatal, Crash, Evict, Revoked, Unassign, DlqLost,
       GoDown, member, Doomed
  <2> QED
    BY <2>1, <2>2
<1>3. ASSUME NEW m \in Members, Joins(m) \/ Start(m) \/ BackgroundCommit(m)
      PROVE  n \notin Doomed' \ Doomed
  BY <1>0, <1>3 DEF Joins, Assigned, Start, BackgroundCommit, member, Doomed
<1>4. ASSUME NEW m \in Members, NEW msg \in Messages, DlqDelivered(m, msg)
      PROVE  n \notin Doomed' \ Doomed
  BY <1>4 DEF DlqDelivered, member, Doomed
<1>5. CASE UNCHANGED vars
  BY <1>5 DEF vars, member, Doomed
<1> QED
  BY <1>1, <1>2, <1>3, <1>4, <1>5 DEF Next

LEMMA BudgetStep == ASSUME TypeOK, [Next]_vars PROVE budget' <= budget
<1> DEFINE Spent == budget' = budget \/ budget' = budget - 1
<1>0. budget \in Nat
  BY DEF TypeOK
<1>1. ASSUME NEW m \in Members, Runs(m) PROVE Spent
  BY <1>1 DEF Runs, ExitLoop, PollNothing, PollMessage, PollEOF, CommitFirst, ProcessOk,
     ProcessFail, DeadLetter, StoreOffset, RevokedLost, FinalCommit, Flush, Close,
     Disrupt, vars
<1>2. ASSUME NEW m \in Members, Trouble(m) PROVE Spent
  BY <1>2 DEF Trouble, PollFatal, Signal, Crash, Evict, Revoked, DlqLost, Disrupt
<1>3. ASSUME NEW m \in Members, Joins(m) \/ Start(m) \/ BackgroundCommit(m) PROVE Spent
  BY <1>3 DEF Joins, Assigned, Start, BackgroundCommit
<1>4. ASSUME NEW m \in Members, NEW msg \in Messages, DlqDelivered(m, msg) PROVE Spent
  BY <1>4 DEF DlqDelivered
<1>5. ASSUME UNCHANGED vars PROVE Spent
  BY <1>5 DEF vars
<1>6. Spent
  BY <1>1, <1>2, <1>3, <1>4, <1>5 DEF Next
<1> QED
  BY <1>0, <1>6

\* A loss is paid for by a disruption, or by the signal that came before.
LEMMA LossIsPaid ==
  ASSUME QueuesSurvive, TypeOK, InHand, QueuesEmptied, NEW m \in Members,
         NEW msg \in Missing', Loses(m, msg)
  PROVE  \/ budget' = budget - 1 /\ Doomed' \subseteq Doomed
         \/ budget' = budget /\ m \in Doomed /\ Doomed' \subseteq Doomed \ {m}
<1>0. pc \in [Members -> Locations] /\ ctxDone \in [Members -> BOOLEAN]
      /\ dlqQueue \in [Members -> SUBSET Messages]
  BY DEF TypeOK
<1>1. CASE Crash(m)
  BY <1>0, <1>1 DEF Crash, GoDown, Disrupt, Doomed
<1>2. CASE \E d \in Messages : DlqLost(m, d)
  BY <1>2 DEF DlqLost, Disrupt, member, Doomed
<1>3. CASE ProcessFail(m) /\ current[m] = msg /\ ~Accounted(msg)'
  <2>1. pc[m] = "process" /\ UNCHANGED ctxDone
        /\ pc' = [pc EXCEPT ![m] = IF Mode = "manual" THEN "store" ELSE "loop"]
    BY <1>3 DEF ProcessFail, Attempted
  <2>2. Doomed' \subseteq Doomed \ {m}
    BY <1>0, <2>1 DEF Doomed
  <2>3. CASE DeadLetterOn
    <3>1. \/ dlqQueue' = [dlqQueue EXCEPT ![m] = @ \union {msg}]
          \/ budget' = budget - 1
      BY <1>3, <2>3 DEF ProcessFail, DeadLetter, Disrupt
    <3>2. CASE dlqQueue' = [dlqQueue EXCEPT ![m] = @ \union {msg}]
      <4>1. msg \in dlqQueue'[m]
        BY <1>0, <3>2
      <4> QED
        BY <1>3, <4>1 DEF Accounted
    <3> QED
      BY <2>2, <3>1, <3>2
  <2>4. CASE ~DeadLetterOn
    <3>1. msg \notin Poison
      BY <2>4 DEF Missing
    <3>2. ctxDone[m] /\ budget' = budget
      BY <1>3, <2>4, <3>1 DEF ProcessFail, MayFail, DeadLetter
    <3>3. m \in Doomed
      BY <2>1, <3>2 DEF Doomed
    <3> QED
      BY <2>2, <3>2, <3>3
  <2> QED
    BY <2>3, <2>4
<1>4. (\E d \in Messages : DlqLost(m, d)) \/ ~DlqLost(m, msg)
  BY DEF Missing
<1> QED
  BY <1>1, <1>2, <1>3, <1>4 DEF Loses

LEMMA LossIsCountedStep ==
  ASSUME QueuesSurvive, CountInv, [Next]_vars
  PROVE  LossIsCounted'
<1> DEFINE Lost == Cardinality(Missing)  Caught == Cardinality(Doomed)
<1>0. /\ TypeOK /\ InHand /\ QueuesEmptied /\ TypeOK'
      /\ IsFiniteSet(Missing) /\ IsFiniteSet(Doomed)
      /\ Lost + Caught <= MaxDisruptions - budget
  BY FenceStep DEF CountInv, FenceInv, LossIsCounted
<1>1. /\ Lost \in Nat /\ Caught \in Nat /\ budget \in Nat /\ budget' \in Nat
      /\ budget' <= budget
  BY <1>0, FS_CardinalityType, BudgetStep DEF TypeOK
<1>2. \A S, T : IsFiniteSet(S) /\ T \subseteq S =>
        IsFiniteSet(T) /\ Cardinality(T) \in Nat /\ Cardinality(T) <= Cardinality(S)
  BY FS_Subset, FS_CardinalityType
<1>3. \A S, T, x : IsFiniteSet(S) /\ T \subseteq S \union {x} =>
        /\ IsFiniteSet(T) /\ Cardinality(T) \in Nat
        /\ Cardinality(T) <= Cardinality(S) + 1
  <2> SUFFICES ASSUME NEW S, NEW T, NEW x, IsFiniteSet(S), T \subseteq S \union {x}
               PROVE  /\ IsFiniteSet(T) /\ Cardinality(T) \in Nat
                      /\ Cardinality(T) <= Cardinality(S) + 1
    OBVIOUS
  <2>1. IsFiniteSet(S \union {x}) /\ Cardinality(S) \in Nat
        /\ Cardinality(S \union {x}) <= Cardinality(S) + 1
    BY FS_AddElement, FS_CardinalityType
  <2>2. IsFiniteSet(T) /\ Cardinality(T) \in Nat
        /\ Cardinality(T) <= Cardinality(S \union {x}) /\ Cardinality(S \union {x}) \in Nat
    BY <1>2, <2>1, FS_CardinalityType
  <2> QED
    BY <2>1, <2>2
<1>4. CASE Missing' \subseteq Missing /\ Doomed' \subseteq Doomed
  <2>1. /\ IsFiniteSet(Missing') /\ Cardinality(Missing') \in Nat
        /\ Cardinality(Missing') <= Lost
    BY <1>0, <1>2, <1>4
  <2>2. /\ IsFiniteSet(Doomed') /\ Cardinality(Doomed') \in Nat
        /\ Cardinality(Doomed') <= Caught
    BY <1>0, <1>2, <1>4
  <2> QED
    BY <1>0, <1>1, <2>1, <2>2 DEF LossIsCounted
<1>5. ASSUME NEW msg \in Missing' \ Missing PROVE LossIsCounted'
  <2>1. PICK m \in Members : Loses(m, msg)
    BY MissingStep DEF CountInv
  <2>2. Missing' \subseteq Missing \union {msg}
    <3>1. ASSUME NEW x \in Missing' \ Missing PROVE x = msg
      <4>1. PICK n \in Members : Loses(n, x)
        BY MissingStep DEF CountInv
      <4>2. x \in Messages /\ msg \in Messages
        BY DEF Missing
      <4> QED
        BY <1>0, <2>1, <4>1, <4>2, OneIsLost
    <3> QED
      BY <3>1
  <2>3. /\ IsFiniteSet(Missing') /\ Cardinality(Missing') \in Nat
        /\ Cardinality(Missing') <= Lost + 1
    BY <1>0, <1>3, <2>2
  <2>4. CASE budget' = budget - 1 /\ Doomed' \subseteq Doomed
    <3>1. /\ IsFiniteSet(Doomed') /\ Cardinality(Doomed') \in Nat
          /\ Cardinality(Doomed') <= Caught
      BY <1>0, <1>2, <2>4
    <3> QED
      BY <1>0, <1>1, <2>3, <2>4, <3>1 DEF LossIsCounted
  <2>5. CASE budget' = budget /\ m \in Doomed /\ Doomed' \subseteq Doomed \ {m}
    <3>1. IsFiniteSet(Doomed \ {m}) /\ Cardinality(Doomed \ {m}) = Caught - 1
      BY <1>0, <2>5, FS_RemoveElement
    <3>2. /\ IsFiniteSet(Doomed') /\ Cardinality(Doomed') \in Nat
          /\ Cardinality(Doomed') <= Caught - 1
      BY <1>2, <2>5, <3>1
    <3> QED
      BY <1>0, <1>1, <2>3, <2>5, <3>2 DEF LossIsCounted
  <2> QED
    BY <1>0, <2>1, <2>4, <2>5, LossIsPaid
<1>6. ASSUME NEW n \in Doomed' \ Doomed PROVE LossIsCounted'
  <2>1. Signal(n)
    BY <1>0, DoomedStep
  <2>2. /\ budget' = budget - 1
        /\ UNCHANGED <<pc, position, current, committed, dlqQueue, dlqTopic, attempts, succeeded>>
    BY <2>1 DEF Signal, Disrupt, group, dlq, history
  <2>3. Missing' = Missing
    BY <2>2 DEF Missing, Accounted, Passed, Handled
  <2>4. Doomed' \subseteq Doomed \union {n}
    BY <1>0, <2>1, <2>2 DEF Signal, Doomed, TypeOK
  <2>5. /\ IsFiniteSet(Doomed') /\ Cardinality(Doomed') \in Nat
        /\ Cardinality(Doomed') <= Caught + 1
    BY <1>0, <1>3, <2>4
  <2> QED
    BY <1>0, <1>1, <2>2, <2>3, <2>5 DEF LossIsCounted
<1> QED
  BY <1>4, <1>5, <1>6

\* In every commit mode, for any members and partitions: the messages behind the
\* group's offset that were neither processed nor dead-lettered, and that nobody has
\* in hand, are no more than the disruptions that have happened. Only with a
\* dead-letter producer is it assumed that no process dies with its queue
\* (main.go:405-421, 451-473, 716-727).
THEOREM DisruptionsBoundLoss == QueuesSurvive /\ Spec => []LossIsBounded
<1> SUFFICES ASSUME QueuesSurvive PROVE Spec => []LossIsBounded
  OBVIOUS
<1>1. Init => CountInv
  <2> SUFFICES ASSUME Init PROVE CountInv
    OBVIOUS
  <2>1. FenceInv /\ Idle /\ QueuesEmptied
    BY FenceInit DEF Init, Idle, QueuesEmptied
  <2>2. Missing = {}
    BY DEF Init, Missing, Handled, Passed, Messages, Zero
  <2>3. Doomed = {}
    BY DEF Init, Doomed
  <2> QED
    BY <2>1, <2>2, <2>3, FS_EmptySet DEF CountInv, LossIsCounted, Init
<1>2. CountInv /\ [Next]_vars => CountInv'
  BY FenceStep, IdleStep, QueuesEmptiedStep, LossIsCountedStep DEF CountInv, FenceInv
<1>3. CountInv => LossIsBounded
  <2> SUFFICES ASSUME CountInv PROVE LossIsBounded
    OBVIOUS
  <2>1. Dropped \subseteq Missing
    BY DEF Dropped, Missing, Passed
  <2>2. /\ IsFiniteSet(Missing) /\ IsFiniteSet(Doomed)
        /\ Cardinality(Missing) + Cardinality(Doomed) <= MaxDisruptions - budget
    BY DEF CountInv, LossIsCounted
  <2>3. /\ Cardinality(Dropped) <= Cardinality(Missing)
        /\ Cardinality(Missing) \in Nat /\ Cardinality(Doomed) \in Nat
        /\ Cardinality(Dropped) \in Nat /\ budget \in Nat
    BY <2>1, <2>2, FS_Subset, FS_CardinalityType DEF CountInv, FenceInv, TypeOK
  <2> QED
    BY <2>2, <2>3 DEF LossIsBounded
<1> QED
  BY <1>1, <1>2, <1>3, PTL DEF Spec

=============================================================================
