--------------------------- MODULE ConsumerProofs ---------------------------
(***************************************************************************)
(* Theorems about Consumer, for any number of members, partitions and      *)
(* messages and any kinds and number of disruptions.                       *)
(***************************************************************************)
EXTENDS Consumer, TLAPS

USE BoundsAssumption

(***************************************************************************)
(* Type correctness.                                                       *)
(***************************************************************************)
LEMMA TypeInit == Init => TypeOK /\ InHand
<1>1. Init => TypeOK
  BY DEF Init, TypeOK, Zero, Locations, AttemptCap
<1>2. Init => InHand
  BY DEF Init, InHand
<1> QED
  BY <1>1, <1>2

LEMMA InHandIsMessage ==
  ASSUME TypeOK, InHand, NEW m \in Members, pc[m] \in {"commitFirst", "process", "store"}
  PROVE  \E p \in Partitions, o \in 0 .. N-1 :
           /\ <<p, o>> \in Messages /\ current[m] = <<p, o>>
           /\ current[m][1] = p /\ current[m][2] = o
           /\ p \in held[m] /\ position[m][p] = o + 1
<1>1. current[m] \in Messages
  BY DEF InHand
<1>2. PICK p \in Partitions, o \in 0 .. N-1 : current[m] = <<p, o>>
  BY <1>1 DEF Messages
<1>3. current[m][1] = p /\ current[m][2] = o
  BY <1>2
<1> QED
  BY <1>1, <1>2, <1>3 DEF InHand

LEMMA AttemptedType ==
  ASSUME TypeOK, InHand, NEW m \in Members, pc[m] = "process", Attempted(m)
  PROVE  /\ attempts' \in [Messages -> 0 .. AttemptCap]
         /\ pc' \in [Members -> Locations]
         /\ current' \in [Members -> Messages \union {NoMessage}]
<1>1. PICK msg \in Messages : current[m] = msg
  BY InHandIsMessage
<1>2. attempts' \in [Messages -> 0 .. AttemptCap]
  <2>1. attempts \in [Messages -> 0 .. AttemptCap]
    BY DEF TypeOK
  <2> DEFINE n == IF attempts[msg] < AttemptCap THEN attempts[msg] + 1 ELSE attempts[msg]
  <2>2. n \in 0 .. AttemptCap
    BY <2>1 DEF AttemptCap
  <2>3. attempts' = [attempts EXCEPT ![msg] = n]
    BY <1>1 DEF Attempted
  <2> HIDE DEF n
  <2> QED
    BY <2>1, <2>2, <2>3
<1>3. pc' \in [Members -> Locations] /\ current' \in [Members -> Messages \union {NoMessage}]
  BY DEF Attempted, TypeOK, Locations
<1> QED
  BY <1>2, <1>3

LEMMA CommitType ==
  ASSUME TypeOK, NEW m \in Members, CommitBeforeLeaving(m)
  PROVE  committed' \in [Partitions -> 0 .. N]
  BY DEF TypeOK, CommitBeforeLeaving, Commit

\* TypeOK needs InHand: it is what makes the message in hand a message.
LEMMA TypeStep == TypeOK /\ InHand /\ [Next]_vars => TypeOK'
<1> SUFFICES ASSUME TypeOK, InHand, [Next]_vars PROVE TypeOK'
  OBVIOUS
<1>1. ASSUME NEW m \in Members, Runs(m) PROVE TypeOK'
  <2>1. CASE ExitLoop(m)
    BY <2>1 DEF ExitLoop, TypeOK, Locations, group, dlq, history
  <2>2. CASE PollNothing(m)
    BY <2>2 DEF PollNothing, vars, member, TypeOK, Locations, group, dlq, history
  <2>3. ASSUME NEW p \in Partitions, PollMessage(m, p) PROVE TypeOK'
    <3>1. <<p, position[m][p]>> \in Messages
      BY <2>3 DEF PollMessage, TypeOK, Messages
    <3>2. received' \in [Members -> 0 .. MaxMessages]
      <4>1. received \in [Members -> 0 .. MaxMessages]
        BY DEF TypeOK
      <4>2. MaxMessages > 0 => received[m] + 1 \in 0 .. MaxMessages
        BY <2>3, <4>1 DEF PollMessage, Polls, LoopEnds, MaxReached
      <4> QED
        BY <2>3, <4>1, <4>2 DEF PollMessage
    <3>3. /\ position' \in [Members -> [Partitions -> 0 .. N]]
          /\ stored' \in [Members -> [Partitions -> 0 .. N]]
      <4>1. /\ position \in [Members -> [Partitions -> 0 .. N]]
            /\ stored \in [Members -> [Partitions -> 0 .. N]]
        BY DEF TypeOK
      <4>2. position[m][p] + 1 \in 0 .. N
        BY <2>3, <4>1 DEF PollMessage
      <4> QED
        BY <2>3, <4>1, <4>2 DEF PollMessage
    <3> QED
      BY <2>3, <3>1, <3>2, <3>3 DEF PollMessage, AfterPoll, TypeOK, Locations, group,
                                    dlq, history
  <2>4. ASSUME NEW p \in Partitions, PollEOF(m, p) PROVE TypeOK'
    BY <2>4 DEF PollEOF, Polls, TypeOK, Locations, group, dlq, history
  <2>5. CASE CommitFirst(m)
    <3>1. PICK p \in Partitions, o \in 0 .. N-1 : current[m][1] = p /\ current[m][2] = o
      BY <2>5, InHandIsMessage DEF CommitFirst
    <3>2. committed' = committed \/ committed' = [committed EXCEPT ![p] = o + 1]
      BY <2>5, <3>1 DEF CommitFirst
    <3>3. committed' \in [Partitions -> 0 .. N]
      BY <3>2 DEF TypeOK
    <3> QED
      BY <2>5, <3>3 DEF CommitFirst, TypeOK, Locations, dlq, history
  <2>6. CASE ProcessOk(m)
    <3>1. current[m] \in Messages /\ pc[m] = "process" /\ Attempted(m)
      BY <2>6 DEF ProcessOk, InHand
    <3> QED
      BY <2>6, <3>1, AttemptedType DEF ProcessOk, Attempted, TypeOK, group, dlq
  <2>7. CASE ProcessFail(m)
    <3>1. PICK msg \in Messages : current[m] = msg
      BY <2>7, InHandIsMessage DEF ProcessFail
    <3>2. \/ dlqQueue' = dlqQueue
          \/ dlqQueue' = [dlqQueue EXCEPT ![m] = dlqQueue[m] \union {msg}]
      BY <2>7, <3>1 DEF ProcessFail, DeadLetter
    <3>3. dlqQueue' \in [Members -> SUBSET Messages]
      <4>1. dlqQueue \in [Members -> SUBSET Messages]
        BY DEF TypeOK
      <4> QED
        BY <3>2, <4>1
    <3>4. budget' \in 0 .. MaxDisruptions
      BY <2>7 DEF ProcessFail, DeadLetter, Disrupt, TypeOK
    <3> QED
      BY <2>7, <3>3, <3>4, AttemptedType DEF ProcessFail, Attempted, TypeOK, group
  <2>8. CASE StoreOffset(m)
    <3>1. PICK p \in Partitions, o \in 0 .. N-1 : current[m][1] = p /\ current[m][2] = o
      BY <2>8, InHandIsMessage DEF StoreOffset
    <3>2. stored' = stored \/ stored' = [stored EXCEPT ![m][p] = o + 1]
      BY <2>8, <3>1 DEF StoreOffset, StoreMessage
    <3>3. stored \in [Members -> [Partitions -> 0 .. N]] /\ o + 1 \in 0 .. N
      BY DEF TypeOK
    <3>4. stored' \in [Members -> [Partitions -> 0 .. N]]
      BY <3>2, <3>3
    <3>5. budget' \in 0 .. MaxDisruptions
      BY <2>8 DEF StoreOffset, Disrupt, TypeOK
    <3>6. pc' \in [Members -> Locations]
      BY <2>8 DEF StoreOffset, TypeOK, Locations
    <3> QED
      BY <2>8, <3>4, <3>5, <3>6 DEF StoreOffset, TypeOK, group, dlq, history
  <2>9. CASE RevokedLost(m)
    BY <2>9 DEF RevokedLost, Unassign, Polls, TypeOK, Locations, group, dlq, history
  <2>10. CASE FinalCommit(m)
    BY <2>10, CommitType DEF FinalCommit, TypeOK, Locations, dlq, history
  <2>11. CASE Flush(m)
    BY <2>11 DEF Flush, Disrupt, TypeOK, Locations, group, dlq, history
  <2>12. CASE Close(m)
    BY <2>12, CommitType DEF Close, GoDown, Zero, TypeOK, Locations, history
  <2> QED
    BY <1>1, <2>1, <2>2, <2>3, <2>4, <2>5, <2>6, <2>7, <2>8, <2>9, <2>10, <2>11, <2>12
    DEF Runs
<1>2. ASSUME NEW m \in Members, NEW S \in SUBSET Partitions, Assigned(m, S)
      PROVE TypeOK'
  BY <1>2 DEF Assigned, StartOffset, Polls, TypeOK, Locations, dlq, history
<1>3. ASSUME NEW m \in Members, Start(m) PROVE TypeOK'
  BY <1>3 DEF Start, TypeOK, Locations, group, dlq, history
<1>4. ASSUME NEW m \in Members, BackgroundCommit(m) PROVE TypeOK'
  BY <1>4 DEF BackgroundCommit, Commit, TypeOK, Locations, member, dlq, history
<1>5. ASSUME NEW m \in Members, Trouble(m) PROVE TypeOK'
  <2>1. CASE PollFatal(m)
    BY <2>1 DEF PollFatal, Disrupt, TypeOK, Locations, group, dlq, history
  <2>2. CASE Signal(m)
    BY <2>2 DEF Signal, Disrupt, TypeOK, Locations, group, dlq, history
  <2>3. CASE Crash(m)
    BY <2>3 DEF Crash, Disrupt, GoDown, Zero, TypeOK, Locations, history
  <2>4. CASE Evict(m)
    BY <2>4 DEF Evict, Disrupt, TypeOK, Locations, member, dlq, history
  <2>5. ASSUME NEW S \in SUBSET Partitions, Revoked(m, S) PROVE TypeOK'
    BY <2>5, CommitType DEF Revoked, Disrupt, Unassign, TypeOK, dlq, history
  <2>6. ASSUME NEW msg \in Messages, DlqLost(m, msg) PROVE TypeOK'
    BY <2>6 DEF DlqLost, Disrupt, TypeOK, Locations, member, group, history
  <2> QED
    BY <1>5, <2>1, <2>2, <2>3, <2>4, <2>5, <2>6 DEF Trouble
<1>6. ASSUME NEW m \in Members, NEW msg \in Messages, DlqDelivered(m, msg) PROVE TypeOK'
  BY <1>6 DEF DlqDelivered, TypeOK, Locations, member, group, history
<1>7. CASE UNCHANGED vars
  BY <1>7 DEF vars, member, group, dlq, history, TypeOK, InHand, Locations, Messages
<1> QED
  BY <1>1, <1>2, <1>3, <1>4, <1>5, <1>6, <1>7 DEF Next, Joins

LEMMA InHandStep == TypeOK /\ InHand /\ [Next]_vars => InHand'
<1> SUFFICES ASSUME TypeOK, InHand, [Next]_vars PROVE InHand'
  OBVIOUS
<1>1. ASSUME NEW m \in Members, Runs(m) PROVE InHand'
  <2>1. CASE ExitLoop(m)
    BY <2>1 DEF ExitLoop, TypeOK, InHand, group, dlq, history
  <2>2. CASE PollNothing(m)
    BY <2>2 DEF PollNothing, vars, member, TypeOK, InHand, group, dlq, history
  <2>3. ASSUME NEW p \in Partitions, PollMessage(m, p) PROVE InHand'
    BY <2>3 DEF Messages, PollMessage, Polls, LoopEnds, MaxReached, AfterPoll, StoredAtDelivery,
                TypeOK, InHand, group, dlq, history
  <2>4. ASSUME NEW p \in Partitions, PollEOF(m, p) PROVE InHand'
    BY <2>4 DEF PollEOF, Polls, TypeOK, InHand, group, dlq, history
  <2>5. CASE CommitFirst(m)
    BY <2>5 DEF CommitFirst, TypeOK, InHand, dlq, history
  <2>6. CASE ProcessOk(m)
    BY <2>6 DEF ProcessOk, Attempted, AttemptCap, TypeOK, InHand, group, dlq
  <2>7. CASE ProcessFail(m)
    BY <2>7 DEF ProcessFail, Attempted, AttemptCap, DeadLetter, Disrupt, TypeOK, InHand,
                group, dlq
  <2>8. CASE StoreOffset(m)
    BY <2>8 DEF StoreOffset, StoreMessage, Disrupt, TypeOK, InHand, group, dlq, history
  <2>9. CASE RevokedLost(m)
    BY <2>9 DEF RevokedLost, Unassign, Polls, TypeOK, InHand, group, dlq, history
  <2>10. CASE FinalCommit(m)
    BY <2>10 DEF FinalCommit, CommitBeforeLeaving, Commit, TypeOK, InHand, dlq, history
  <2>11. CASE Flush(m)
    BY <2>11 DEF Flush, Disrupt, TypeOK, InHand, group, dlq, history
  <2>12. CASE Close(m)
    BY <2>12 DEF Close, CommitBeforeLeaving, Commit, GoDown, Zero, TypeOK, InHand,
                 history
  <2> QED
    BY <1>1, <2>1, <2>2, <2>3, <2>4, <2>5, <2>6, <2>7, <2>8, <2>9, <2>10, <2>11, <2>12
    DEF Runs
<1>2. ASSUME NEW m \in Members, NEW S \in SUBSET Partitions, Assigned(m, S)
      PROVE InHand'
  BY <1>2 DEF Assigned, StartOffset, Polls, TypeOK, InHand, dlq, history
<1>3. ASSUME NEW m \in Members, Start(m) PROVE InHand'
  BY <1>3 DEF Start, TypeOK, InHand, group, dlq, history
<1>4. ASSUME NEW m \in Members, BackgroundCommit(m) PROVE InHand'
  BY <1>4 DEF BackgroundCommit, Commit, TypeOK, InHand, member, dlq, history
<1>5. ASSUME NEW m \in Members, Trouble(m) PROVE InHand'
  <2>1. CASE PollFatal(m)
    BY <2>1 DEF PollFatal, Disrupt, TypeOK, InHand, group, dlq, history
  <2>2. CASE Signal(m)
    BY <2>2 DEF Signal, Disrupt, TypeOK, InHand, group, dlq, history
  <2>3. CASE Crash(m)
    BY <2>3 DEF Crash, Disrupt, GoDown, Zero, TypeOK, InHand, history
  <2>4. CASE Evict(m)
    BY <2>4 DEF Evict, Disrupt, TypeOK, InHand, member, dlq, history
  <2>5. ASSUME NEW S \in SUBSET Partitions, Revoked(m, S) PROVE InHand'
    BY <2>5 DEF Revoked, Disrupt, CommitBeforeLeaving, Commit, Unassign, Polls, TypeOK,
                InHand, dlq, history
  <2>6. ASSUME NEW msg \in Messages, DlqLost(m, msg) PROVE InHand'
    BY <2>6 DEF DlqLost, Disrupt, TypeOK, InHand, member, group, history
  <2> QED
    BY <1>5, <2>1, <2>2, <2>3, <2>4, <2>5, <2>6 DEF Trouble
<1>6. ASSUME NEW m \in Members, NEW msg \in Messages, DlqDelivered(m, msg) PROVE InHand'
  BY <1>6 DEF DlqDelivered, TypeOK, InHand, member, group, history
<1>7. CASE UNCHANGED vars
  BY <1>7 DEF vars, member, group, dlq, history, TypeOK, InHand
<1> QED
  BY <1>1, <1>2, <1>3, <1>4, <1>5, <1>6, <1>7 DEF Next, Joins

\* Every variable keeps its type in every mode, and a message is in hand only while
\* its partition is held.
THEOREM TypeCorrect == Spec => [](TypeOK /\ InHand)
<1>1. Init => TypeOK /\ InHand
  BY TypeInit
<1>2. TypeOK /\ InHand /\ [Next]_vars => (TypeOK /\ InHand)'
  BY TypeStep, InHandStep
<1> QED
  BY <1>1, <1>2, PTL DEF Spec

(***************************************************************************)
(* Manual mode commits only what was handled.                              *)
(***************************************************************************)
ManualInv == TypeOK /\ InHand /\ HandledBelow /\ CommittedIsHandled

LEMMA AttemptedHandles ==
  ASSUME TypeOK, InHand, NEW m \in Members, pc[m] = "process", Attempted(m)
  PROVE  Handled' = Handled \union {current[m]}
<1>1. PICK msg \in Messages : current[m] = msg
  BY InHandIsMessage
<1>2. attempts \in [Messages -> 0 .. AttemptCap]
  BY DEF TypeOK
<1> DEFINE k == IF attempts[msg] < AttemptCap THEN attempts[msg] + 1 ELSE attempts[msg]
<1>3. k > 0
  BY <1>2 DEF AttemptCap
<1>4. attempts' = [attempts EXCEPT ![msg] = k]
  BY <1>1 DEF Attempted
<1> HIDE DEF k
<1> QED
  BY <1>1, <1>2, <1>3, <1>4 DEF Handled

LEMMA HandledStep ==
  ASSUME TypeOK, InHand, [Next]_vars
  PROVE  \/ Handled' = Handled
         \/ /\ UNCHANGED committed
            /\ \E msg \in Messages : Handled' = Handled \union {msg}
<1> DEFINE Grows == /\ UNCHANGED committed
                    /\ \E msg \in Messages : Handled' = Handled \union {msg}
<1> SUFFICES Handled' = Handled \/ Grows
  OBVIOUS
<1>1. ASSUME NEW n \in Members, Runs(n) PROVE Handled' = Handled \/ Grows
  <2>1. CASE ExitLoop(n)
    BY <2>1 DEF ExitLoop, history, Handled
  <2>2. CASE PollNothing(n)
    BY <2>2 DEF PollNothing, vars, history, Handled
  <2>3. ASSUME NEW q \in Partitions, PollMessage(n, q) PROVE Handled' = Handled \/ Grows
    BY <2>3 DEF PollMessage, AfterPoll, StoredAtDelivery, history, Handled
  <2>4. ASSUME NEW q \in Partitions, PollEOF(n, q) PROVE Handled' = Handled \/ Grows
    BY <2>4 DEF PollEOF, history, Handled
  <2>5. CASE CommitFirst(n)
    BY <2>5 DEF CommitFirst, history, Handled
  <2>6. CASE ProcessOk(n)
    <3>1. pc[n] = "process" /\ Attempted(n) /\ UNCHANGED committed
      BY <2>6 DEF ProcessOk, group
    <3>2. current[n] \in Messages
      BY <3>1 DEF InHand
    <3> QED
      BY <3>1, <3>2, AttemptedHandles
  <2>7. CASE ProcessFail(n)
    <3>1. pc[n] = "process" /\ Attempted(n) /\ UNCHANGED committed
      BY <2>7 DEF ProcessFail, group
    <3>2. current[n] \in Messages
      BY <3>1 DEF InHand
    <3> QED
      BY <3>1, <3>2, AttemptedHandles
  <2>8. CASE StoreOffset(n)
    BY <2>8 DEF StoreOffset, StoreMessage, history, Handled
  <2>9. CASE RevokedLost(n)
    BY <2>9 DEF RevokedLost, Unassign, history, Handled
  <2>10. CASE FinalCommit(n)
    BY <2>10 DEF FinalCommit, history, Handled
  <2>11. CASE Flush(n)
    BY <2>11 DEF Flush, history, Handled
  <2>12. CASE Close(n)
    BY <2>12 DEF Close, GoDown, history, Handled
  <2> QED
    BY <1>1, <2>1, <2>2, <2>3, <2>4, <2>5, <2>6, <2>7, <2>8, <2>9, <2>10, <2>11, <2>12
    DEF Runs
<1>2. ASSUME NEW n \in Members, NEW S \in SUBSET Partitions, Assigned(n, S)
      PROVE Handled' = Handled \/ Grows
  BY <1>2 DEF Assigned, StartOffset, history, Handled
<1>3. ASSUME NEW n \in Members, Start(n) PROVE Handled' = Handled \/ Grows
  BY <1>3 DEF Start, history, Handled
<1>4. ASSUME NEW n \in Members, BackgroundCommit(n) PROVE Handled' = Handled \/ Grows
  BY <1>4 DEF BackgroundCommit, history, Handled
<1>5. ASSUME NEW n \in Members, Trouble(n) PROVE Handled' = Handled \/ Grows
  <2>1. CASE PollFatal(n)
    BY <2>1 DEF PollFatal, history, Handled
  <2>2. CASE Signal(n)
    BY <2>2 DEF Signal, history, Handled
  <2>3. CASE Crash(n)
    BY <2>3 DEF Crash, GoDown, history, Handled
  <2>4. CASE Evict(n)
    BY <2>4 DEF Evict, history, Handled
  <2>5. ASSUME NEW S \in SUBSET Partitions, Revoked(n, S) PROVE Handled' = Handled \/ Grows
    BY <2>5 DEF Revoked, Unassign, history, Handled
  <2>6. ASSUME NEW msg \in Messages, DlqLost(n, msg) PROVE Handled' = Handled \/ Grows
    BY <2>6 DEF DlqLost, history, Handled
  <2> QED
    BY <1>5, <2>1, <2>2, <2>3, <2>4, <2>5, <2>6 DEF Trouble
<1>6. ASSUME NEW n \in Members, NEW msg \in Messages, DlqDelivered(n, msg)
      PROVE Handled' = Handled \/ Grows
  BY <1>6 DEF DlqDelivered, history, Handled
<1>7. CASE UNCHANGED vars
  BY <1>7 DEF vars, member, group, dlq, history, Handled
<1> QED
  BY <1>1, <1>2, <1>3, <1>4, <1>5, <1>6, <1>7 DEF Next, Joins

LEMMA HandledBelowStep ==
  ASSUME Mode = "manual", ManualInv, [Next]_vars
  PROVE  HandledBelow'
<1> USE DEF ManualInv
<1>1. ASSUME NEW n \in Members, Runs(n) PROVE HandledBelow'
  <2>1. CASE ExitLoop(n)
    BY <2>1 DEF ExitLoop, group, history, TypeOK, HandledBelow, Handled
  <2>2. CASE PollNothing(n)
    BY <2>2 DEF PollNothing, vars, member, group, history, TypeOK, HandledBelow, Handled
  <2>3. ASSUME NEW q \in Partitions, PollMessage(n, q) PROVE HandledBelow'
    <3>2. ASSUME NEW m \in Members, NEW p \in held'[m], NEW o \in 0 .. N-1, o < position'[m][p]
          PROVE  <<p, o>> \in Handled \/ (pc'[m] = "process" /\ current'[m] = <<p, o>>)
      <4>1. p \in held[m] /\ p \in Partitions
        BY <2>3, <3>2 DEF PollMessage, TypeOK
      <4>2. CASE m = n /\ p = q
        <5>1. position'[n][q] = position[n][q] + 1 /\ position[n][q] \in 0 .. N
          BY <2>3 DEF PollMessage, TypeOK
        <5>2. pc'[n] = "process" /\ current'[n] = <<q, position[n][q]>>
          BY <2>3 DEF PollMessage, AfterPoll, TypeOK
        <5>3. pc[n] = "loop"
          BY <2>3 DEF PollMessage, Polls
        <5>4. CASE o = position[n][q]
          BY <4>2, <5>2, <5>4
        <5>5. CASE o # position[n][q]
          <6>1. o < position[n][q]
            BY <3>2, <4>2, <5>1, <5>5
          <6> QED
            BY <4>1, <4>2, <5>3, <6>1 DEF HandledBelow
        <5> QED
          BY <5>4, <5>5
      <4>3. CASE ~(m = n /\ p = q)
        <5>1. position'[m][p] = position[m][p]
          BY <2>3, <4>1, <4>3 DEF PollMessage, TypeOK
        <5>2. <<p, o>> \in Handled \/ (pc[m] = "process" /\ current[m] = <<p, o>>)
          BY <3>2, <4>1, <5>1 DEF HandledBelow
        <5>3. pc[n] = "loop"
          BY <2>3 DEF PollMessage, Polls
        <5> QED
          BY <2>3, <5>2, <5>3 DEF PollMessage, TypeOK
      <4> QED
        BY <4>2, <4>3
    <3>3. stored' = stored /\ Handled' = Handled
      BY ModeAssumption, <2>3 DEF PollMessage, StoredAtDelivery, ModeAllowed, Handled,
                                  history
    <3> QED
      BY <3>2, <3>3 DEF HandledBelow
  <2>4. ASSUME NEW q \in Partitions, PollEOF(n, q) PROVE HandledBelow'
    BY <2>4 DEF PollEOF, Polls, group, history, TypeOK, HandledBelow, Handled
  <2>5. CASE CommitFirst(n)
    BY <2>5 DEF CommitFirst, InHand
  <2>6. CASE ProcessOk(n)
    <3>1. pc[n] = "process" /\ Attempted(n)
      BY <2>6 DEF ProcessOk
    <3>2. Handled' = Handled \union {current[n]}
      BY <3>1, AttemptedHandles
    <3> QED
      BY <3>1, <3>2 DEF Attempted, TypeOK, HandledBelow
  <2>7. CASE ProcessFail(n)
    <3>1. pc[n] = "process" /\ Attempted(n)
      BY <2>7 DEF ProcessFail
    <3>2. Handled' = Handled \union {current[n]}
      BY <3>1, AttemptedHandles
    <3> QED
      BY <3>1, <3>2 DEF Attempted, TypeOK, HandledBelow
  <2>8. CASE StoreOffset(n)
    <3>1. PICK p \in Partitions, o \in 0 .. N-1 :
            /\ current[n][1] = p /\ current[n][2] = o
            /\ p \in held[n] /\ position[n][p] = o + 1
      <4>1. TypeOK /\ InHand /\ pc[n] = "store"
        BY <2>8 DEF StoreOffset
      <4> HIDE DEF ManualInv
      <4> QED
        BY <4>1, InHandIsMessage
    <3>2. \A i \in 0 .. N-1 : i < o + 1 => <<p, i>> \in Handled
      BY <2>8, <3>1 DEF StoreOffset, HandledBelow
    <3>3. stored' = stored \/ stored' = [stored EXCEPT ![n][p] = o + 1]
      BY <2>8, <3>1 DEF StoreOffset, StoreMessage
    <3>4. ASSUME NEW m \in Members, NEW r \in Partitions, NEW i \in 0 .. N-1, i < stored'[m][r]
          PROVE  <<r, i>> \in Handled
      <4>1. stored \in [Members -> [Partitions -> 0 .. N]]
        BY DEF TypeOK
      <4>2. CASE m = n /\ r = p /\ stored' = [stored EXCEPT ![n][p] = o + 1]
        BY <3>2, <3>4, <4>1, <4>2
      <4>3. CASE ~(m = n /\ r = p /\ stored' = [stored EXCEPT ![n][p] = o + 1])
        <5>1. stored'[m][r] = stored[m][r]
          BY <3>3, <4>1, <4>3
        <5> QED
          BY <3>4, <5>1 DEF HandledBelow
      <4> QED
        BY <4>2, <4>3
    <3>5. Handled' = Handled
      BY <2>8 DEF StoreOffset, Handled, history
    <3>6. /\ UNCHANGED <<held, position>>
          /\ \A m \in Members : pc[m] = "process" => pc'[m] = "process" /\ current'[m] = current[m]
      BY <2>8 DEF StoreOffset, TypeOK, HandledBelow
    <3> QED
      BY <3>4, <3>5, <3>6 DEF HandledBelow
  <2>9. CASE RevokedLost(n)
    BY <2>9 DEF RevokedLost, Unassign, Polls, group, history, TypeOK, HandledBelow,
                Handled
  <2>10. CASE FinalCommit(n)
    BY <2>10 DEF FinalCommit, history, TypeOK, HandledBelow, Handled
  <2>11. CASE Flush(n)
    BY <2>11 DEF Flush, group, history, TypeOK, HandledBelow, Handled
  <2>12. CASE Close(n)
    BY <2>12 DEF Close, GoDown, Zero, history, TypeOK, HandledBelow, Handled
  <2> QED
    BY <1>1, <2>1, <2>2, <2>3, <2>4, <2>5, <2>6, <2>7, <2>8, <2>9, <2>10, <2>11, <2>12
    DEF Runs
<1>2. ASSUME NEW n \in Members, NEW S \in SUBSET Partitions, Assigned(n, S)
      PROVE HandledBelow'
  <2>1. \A p \in S, o \in 0 .. N-1 : o < committed[p] => <<p, o>> \in Handled
    BY DEF CommittedIsHandled
  <2>2. ASSUME NEW m \in Members, NEW p \in held'[m], NEW o \in 0 .. N-1, o < position'[m][p]
        PROVE  <<p, o>> \in Handled \/ (pc[m] = "process" /\ current[m] = <<p, o>>)
    <3>1. CASE m = n /\ p \in S
      BY <1>2, <2>1, <2>2, <3>1 DEF Assigned, StartOffset, TypeOK
    <3>2. CASE ~(m = n /\ p \in S)
      <4>1. p \in held[m] /\ position'[m][p] = position[m][p]
        BY <1>2, <2>2, <3>2 DEF Assigned, TypeOK
      <4> QED
        BY <2>2, <4>1 DEF HandledBelow
    <3> QED
      BY <3>1, <3>2
  <2>3. UNCHANGED <<pc, current, stored>> /\ Handled' = Handled
    BY <1>2 DEF Assigned, Handled, history
  <2> QED
    BY <2>2, <2>3 DEF HandledBelow
<1>3. ASSUME NEW n \in Members, Start(n) PROVE HandledBelow'
  BY <1>3 DEF Start, group, history, TypeOK, HandledBelow, Handled
<1>4. ASSUME NEW n \in Members, BackgroundCommit(n) PROVE HandledBelow'
  BY <1>4 DEF BackgroundCommit, member, history, TypeOK, HandledBelow, Handled
<1>5. ASSUME NEW n \in Members, Trouble(n) PROVE HandledBelow'
  <2>1. CASE PollFatal(n)
    BY <2>1 DEF PollFatal, Polls, group, history, TypeOK, HandledBelow, Handled
  <2>2. CASE Signal(n)
    BY <2>2 DEF Signal, group, history, TypeOK, HandledBelow, Handled
  <2>3. CASE Crash(n)
    BY <2>3 DEF Crash, GoDown, Zero, history, TypeOK, HandledBelow, Handled
  <2>4. CASE Evict(n)
    BY <2>4 DEF Evict, member, history, TypeOK, HandledBelow, Handled
  <2>5. ASSUME NEW S \in SUBSET Partitions, Revoked(n, S) PROVE HandledBelow'
    BY <2>5 DEF Revoked, Unassign, Polls, history, TypeOK, HandledBelow, Handled
  <2>6. ASSUME NEW msg \in Messages, DlqLost(n, msg) PROVE HandledBelow'
    BY <2>6 DEF DlqLost, member, group, history, TypeOK, HandledBelow, Handled
  <2> QED
    BY <1>5, <2>1, <2>2, <2>3, <2>4, <2>5, <2>6 DEF Trouble
<1>6. ASSUME NEW n \in Members, NEW msg \in Messages, DlqDelivered(n, msg)
      PROVE HandledBelow'
  BY <1>6 DEF DlqDelivered, member, group, history, TypeOK, HandledBelow, Handled
<1>7. CASE UNCHANGED vars
  BY <1>7 DEF vars, member, group, dlq, history, TypeOK, HandledBelow, Handled
<1> QED
  BY <1>1, <1>2, <1>3, <1>4, <1>5, <1>6, <1>7 DEF Next, Joins

LEMMA CommitIsHandled ==
  ASSUME Mode = "manual", ManualInv, NEW m \in Members,
         Commit(m) \/ CommitBeforeLeaving(m)
  PROVE  \A p \in Partitions, o \in 0 .. N-1 : o < committed'[p] => <<p, o>> \in Handled
  BY DEF ManualInv, TypeOK, HandledBelow, CommittedIsHandled, Commit,
         CommitBeforeLeaving

LEMMA CommittedIsHandledStep ==
  ASSUME Mode = "manual", ManualInv, [Next]_vars
  PROVE  CommittedIsHandled'
<1> DEFINE ByCommit == \/ UNCHANGED committed
                       \/ \E m \in Members : Commit(m) \/ CommitBeforeLeaving(m)
<1>1. ByCommit
  <2> USE DEF ManualInv, InHand
  <2>1. ASSUME NEW n \in Members, Runs(n) PROVE ByCommit
    <3>1. CASE ExitLoop(n)
      BY <3>1 DEF ExitLoop, group, history
    <3>2. CASE PollNothing(n)
      BY <3>2 DEF PollNothing, vars, member, group, history
    <3>3. ASSUME NEW q \in Partitions, PollMessage(n, q) PROVE ByCommit
      BY <3>3 DEF PollMessage, Polls, AfterPoll, StoredAtDelivery, group, history
    <3>4. ASSUME NEW q \in Partitions, PollEOF(n, q) PROVE ByCommit
      BY <3>4 DEF PollEOF, Polls, group, history
    <3>5. CASE CommitFirst(n)
      BY <3>5 DEF CommitFirst, history
    <3>6. CASE ProcessOk(n)
      BY <3>6 DEF ProcessOk, Attempted, AttemptCap, group
    <3>7. CASE ProcessFail(n)
      BY <3>7 DEF ProcessFail, Attempted, AttemptCap, group
    <3>8. CASE StoreOffset(n)
      BY <3>8 DEF StoreOffset, StoreMessage, group, history
    <3>9. CASE RevokedLost(n)
      BY <3>9 DEF RevokedLost, Unassign, Polls, group, history
    <3>10. CASE FinalCommit(n)
      BY <3>10 DEF FinalCommit, history
    <3>11. CASE Flush(n)
      BY <3>11 DEF Flush, group, history
    <3>12. CASE Close(n)
      BY <3>12 DEF Close, GoDown, Zero, history
    <3> QED
      BY <2>1, <3>1, <3>2, <3>3, <3>4, <3>5, <3>6, <3>7, <3>8, <3>9, <3>10, <3>11, <3>12
      DEF Runs
  <2>2. ASSUME NEW n \in Members, NEW S \in SUBSET Partitions, Assigned(n, S)
        PROVE ByCommit
    BY <2>2 DEF Assigned, StartOffset, Polls, history
  <2>3. ASSUME NEW n \in Members, Start(n) PROVE ByCommit
    BY <2>3 DEF Start, group, history
  <2>4. ASSUME NEW n \in Members, BackgroundCommit(n) PROVE ByCommit
    BY <2>4 DEF BackgroundCommit, member, history
  <2>5. ASSUME NEW n \in Members, Trouble(n) PROVE ByCommit
    <3>1. CASE PollFatal(n)
      BY <3>1 DEF PollFatal, Polls, group, history
    <3>2. CASE Signal(n)
      BY <3>2 DEF Signal, group, history
    <3>3. CASE Crash(n)
      BY <3>3 DEF Crash, GoDown, Zero, history
    <3>4. CASE Evict(n)
      BY <3>4 DEF Evict, member, history
    <3>5. ASSUME NEW S \in SUBSET Partitions, Revoked(n, S) PROVE ByCommit
      BY <3>5 DEF Revoked, Unassign, Polls, history
    <3>6. ASSUME NEW msg \in Messages, DlqLost(n, msg) PROVE ByCommit
      BY <3>6 DEF DlqLost, member, group, history
    <3> QED
      BY <2>5, <3>1, <3>2, <3>3, <3>4, <3>5, <3>6 DEF Trouble
  <2>6. ASSUME NEW n \in Members, NEW msg \in Messages, DlqDelivered(n, msg)
        PROVE ByCommit
    BY <2>6 DEF DlqDelivered, member, group, history
  <2>7. CASE UNCHANGED vars
    BY <2>7 DEF vars, member, group, dlq, history
  <2> QED
    BY <2>1, <2>2, <2>3, <2>4, <2>5, <2>6, <2>7 DEF Next, Joins
<1>2. \A p \in Partitions, o \in 0 .. N-1 : o < committed'[p] => <<p, o>> \in Handled
  BY <1>1, CommitIsHandled DEF ManualInv, CommittedIsHandled
<1>3. Handled \subseteq Handled'
  BY HandledStep DEF ManualInv
<1> QED
  BY <1>2, <1>3 DEF CommittedIsHandled

LEMMA ManualInitStep ==
  ASSUME Mode = "manual"
  PROVE  /\ Init => ManualInv
         /\ ManualInv /\ [Next]_vars => ManualInv'
<1>1. Init => HandledBelow /\ CommittedIsHandled
  BY DEF Init, HandledBelow, CommittedIsHandled, Zero
<1>2. Init => ManualInv
  BY <1>1, TypeInit DEF ManualInv
<1>3. ManualInv /\ [Next]_vars => ManualInv'
  BY TypeStep, InHandStep, HandledBelowStep, CommittedIsHandledStep DEF ManualInv
<1> QED
  BY <1>2, <1>3

\* In manual mode the group never commits past a message no member has tried to
\* process, whatever crashes, evictions, rebalances and failed commits happen.
THEOREM ManualCommitsHandled == Mode = "manual" /\ Spec => []CommittedIsHandled
<1> SUFFICES ASSUME Mode = "manual" PROVE Spec => []CommittedIsHandled
  OBVIOUS
<1>1. ManualInv => CommittedIsHandled
  BY DEF ManualInv
<1> QED
  BY <1>1, ManualInitStep, PTL DEF Spec

\* Why: in manual mode only the message in hand may be untried behind a position, and
\* none behind a stored offset (main.go:451-470, 674-682), in every reachable state.
THEOREM ManualStoresHandled == Mode = "manual" /\ Spec => []HandledBelow
<1> SUFFICES ASSUME Mode = "manual" PROVE Spec => []HandledBelow
  OBVIOUS
<1>1. ManualInv => HandledBelow
  BY DEF ManualInv
<1> QED
  BY <1>1, ManualInitStep, PTL DEF Spec

(***************************************************************************)
(* The committed offset never moves back, in any mode.                     *)
(***************************************************************************)
FenceInv == TypeOK /\ InHand /\ OwnerIsAhead

LEMMA OwnerIsAheadStep ==
  ASSUME FenceInv, [Next]_vars
  PROVE  OwnerIsAhead'
<1> USE DEF FenceInv
<1>1. ASSUME NEW n \in Members, Runs(n) PROVE OwnerIsAhead'
  <2>1. CASE ExitLoop(n)
    BY <2>1 DEF ExitLoop, group, history, TypeOK, OwnerIsAhead
  <2>2. CASE PollNothing(n)
    BY <2>2 DEF PollNothing, vars, member, group, history, TypeOK, OwnerIsAhead
  <2>3. ASSUME NEW q \in Partitions, PollMessage(n, q) PROVE OwnerIsAhead'
    BY <2>3 DEF PollMessage, Polls, AfterPoll, StoredAtDelivery, group, history, TypeOK,
                OwnerIsAhead
  <2>4. ASSUME NEW q \in Partitions, PollEOF(n, q) PROVE OwnerIsAhead'
    BY <2>4 DEF PollEOF, Polls, group, history, TypeOK, OwnerIsAhead
  <2>5. CASE CommitFirst(n)
    <3>1. PICK p \in Partitions, o \in 0 .. N-1 :
            /\ current[n][1] = p /\ current[n][2] = o
            /\ p \in held[n] /\ position[n][p] = o + 1
      <4>1. TypeOK /\ InHand /\ pc[n] = "commitFirst"
        BY <2>5 DEF CommitFirst
      <4> HIDE DEF FenceInv
      <4> QED
        BY <4>1, InHandIsMessage
    <3>2. committed' = committed \/ (owner[p] = n /\ committed' = [committed EXCEPT ![p] = o + 1])
      BY <2>5, <3>1 DEF CommitFirst
    <3>3. Mode = "atmostonce" /\ UNCHANGED <<owner, held, position, stored>>
      BY <2>5 DEF CommitFirst, InHand
    <3>4. \A r \in Partitions :
            \/ committed'[r] = committed[r]
            \/ r = p /\ owner[p] = n /\ committed'[r] = o + 1
      <4>1. committed \in [Partitions -> 0 .. N]
        BY DEF TypeOK
      <4>2. CASE committed' = committed
        BY <4>2
      <4>3. CASE owner[p] = n /\ committed' = [committed EXCEPT ![p] = o + 1]
        <5>1. \A r \in Partitions : committed'[r] = IF r = p THEN o + 1 ELSE committed[r]
          BY <4>1, <4>3
        <5> QED
          BY <4>3, <5>1
      <4> QED
        BY <3>2, <4>2, <4>3
    <3>5. \A r \in Partitions, m \in Members :
            owner[r] = m => committed'[r] <= position[m][r]
      <4>1. position[n][p] = o + 1 /\ o + 1 <= o + 1
        BY <3>1
      <4> QED
        BY <3>4, <4>1 DEF OwnerIsAhead
    <3> QED
      BY <3>3, <3>5 DEF OwnerIsAhead
  <2>6. CASE ProcessOk(n)
    BY <2>6 DEF ProcessOk, Attempted, AttemptCap, group, TypeOK, OwnerIsAhead
  <2>7. CASE ProcessFail(n)
    BY <2>7 DEF ProcessFail, Attempted, AttemptCap, group, TypeOK, OwnerIsAhead
  <2>8. CASE StoreOffset(n)
    <3>1. PICK p \in Partitions, o \in 0 .. N-1 :
            /\ current[n][1] = p /\ current[n][2] = o
            /\ p \in held[n] /\ position[n][p] = o + 1
      <4>1. TypeOK /\ InHand /\ pc[n] = "store"
        BY <2>8 DEF StoreOffset
      <4> HIDE DEF FenceInv
      <4> QED
        BY <4>1, InHandIsMessage
    <3>2. stored' = stored \/ stored' = [stored EXCEPT ![n][p] = o + 1]
      BY <2>8, <3>1 DEF StoreOffset, StoreMessage
    <3>3. UNCHANGED <<owner, committed, held, position>>
      BY <2>8 DEF StoreOffset, group
    <3>4. stored \in [Members -> [Partitions -> 0 .. N]]
      BY DEF TypeOK
    <3>5. CASE stored' = stored
      BY <3>3, <3>5 DEF OwnerIsAhead
    <3>6. CASE stored' = [stored EXCEPT ![n][p] = o + 1]
      <4>1. \A m \in Members, r \in Partitions :
              stored'[m][r] = IF m = n /\ r = p THEN o + 1 ELSE stored[m][r]
        BY <3>4, <3>6
      <4> QED
        BY <3>1, <3>3, <4>1 DEF OwnerIsAhead
    <3> QED
      BY <3>2, <3>5, <3>6
  <2>9. CASE RevokedLost(n)
    <3>1. UNCHANGED <<owner, committed>> /\ \E p \in held[n] : owner[p] # n
      BY <2>9 DEF RevokedLost, AssignmentLost, group
    <3>2. ASSUME NEW m \in Members, NEW p \in Partitions
          PROVE  /\ p \notin held'[m] => stored'[m][p] = 0
                 /\ stored'[m][p] <= position'[m][p]
                 /\ m # n => /\ held'[m] = held[m] /\ position'[m] = position[m]
                             /\ stored'[m] = stored[m]
      BY <2>9 DEF RevokedLost, Unassign, TypeOK, OwnerIsAhead
    <3>3. \A p \in Partitions : owner[p] # n
      BY <3>1 DEF OwnerIsAhead
    <3> QED
      BY <3>1, <3>2, <3>3 DEF OwnerIsAhead
  <2>10. CASE FinalCommit(n)
    BY <2>10 DEF FinalCommit, history, TypeOK, OwnerIsAhead, Commit, CommitBeforeLeaving
  <2>11. CASE Flush(n)
    BY <2>11 DEF Flush, group, history, TypeOK, OwnerIsAhead
  <2>12. CASE Close(n)
    BY NamesAssumption, <2>12 DEF Close, GoDown, Zero, history, TypeOK, OwnerIsAhead,
                                  Commit, CommitBeforeLeaving
  <2> QED
    BY <1>1, <2>1, <2>2, <2>3, <2>4, <2>5, <2>6, <2>7, <2>8, <2>9, <2>10, <2>11, <2>12
    DEF Runs
<1>2. ASSUME NEW n \in Members, NEW S \in SUBSET Partitions, Assigned(n, S)
      PROVE OwnerIsAhead'
  BY NamesAssumption, <1>2 DEF Assigned, StartOffset, Polls, history, TypeOK,
                               OwnerIsAhead, AssignmentLost
<1>3. ASSUME NEW n \in Members, Start(n) PROVE OwnerIsAhead'
  BY <1>3 DEF Start, group, history, TypeOK, OwnerIsAhead
<1>4. ASSUME NEW n \in Members, BackgroundCommit(n) PROVE OwnerIsAhead'
  BY ModeAssumption, <1>4 DEF BackgroundCommit, member, history, TypeOK, OwnerIsAhead,
                              Commit, ModeAllowed
<1>5. ASSUME NEW n \in Members, Trouble(n) PROVE OwnerIsAhead'
  <2>1. CASE PollFatal(n)
    BY <2>1 DEF PollFatal, Polls, group, history, TypeOK, OwnerIsAhead
  <2>2. CASE Signal(n)
    BY <2>2 DEF Signal, group, history, TypeOK, OwnerIsAhead
  <2>3. CASE Crash(n)
    BY NamesAssumption, <2>3 DEF Crash, GoDown, Zero, history, TypeOK, OwnerIsAhead
  <2>4. CASE Evict(n)
    BY NamesAssumption, <2>4 DEF Evict, member, history, TypeOK, OwnerIsAhead,
                                 AssignmentLost
  <2>5. ASSUME NEW S \in SUBSET Partitions, Revoked(n, S) PROVE OwnerIsAhead'
    BY NamesAssumption, <2>5 DEF Revoked, Unassign, Polls, history, TypeOK,
                                 OwnerIsAhead, Commit, CommitBeforeLeaving,
                                 AssignmentLost
  <2>6. ASSUME NEW msg \in Messages, DlqLost(n, msg) PROVE OwnerIsAhead'
    BY <2>6 DEF DlqLost, member, group, history, TypeOK, OwnerIsAhead
  <2> QED
    BY <1>5, <2>1, <2>2, <2>3, <2>4, <2>5, <2>6 DEF Trouble
<1>6. ASSUME NEW n \in Members, NEW msg \in Messages, DlqDelivered(n, msg)
      PROVE OwnerIsAhead'
  BY <1>6 DEF DlqDelivered, member, group, history, TypeOK, OwnerIsAhead
<1>7. CASE UNCHANGED vars
  BY <1>7 DEF vars, member, group, dlq, history, TypeOK, OwnerIsAhead
<1> QED
  BY <1>1, <1>2, <1>3, <1>4, <1>5, <1>6, <1>7 DEF Next, Joins

LEMMA CommitMoves ==
  ASSUME FenceInv, NEW m \in Members,
         (Commit(m) /\ Mode # "atmostonce") \/ CommitBeforeLeaving(m)
  PROVE  \A p \in Partitions : committed'[p] >= committed[p]
<1>1. \A p \in Partitions : committed[p] \in 0 .. N /\ stored[m][p] \in 0 .. N
  BY DEF FenceInv, TypeOK
<1>2. CASE UNCHANGED committed
  BY <1>1, <1>2
<1>3. CASE Commit(m) /\ Mode # "atmostonce"
  BY <1>1, <1>3 DEF FenceInv, OwnerIsAhead, Commit
<1> QED
  BY <1>2, <1>3 DEF CommitBeforeLeaving

LEMMA MonotoneStep ==
  ASSUME FenceInv, [Next]_vars
  PROVE  \A p \in Partitions : committed'[p] >= committed[p]
<1> DEFINE Moves == \A p \in Partitions : committed'[p] >= committed[p]
<1>a. UNCHANGED committed => Moves
  BY DEF FenceInv, TypeOK
<1> SUFFICES Moves
  OBVIOUS
<1>1. ASSUME NEW n \in Members, Runs(n) PROVE Moves
  <2>1. CASE ExitLoop(n)
    BY <1>a, <2>1 DEF ExitLoop, group
  <2>2. CASE PollNothing(n)
    BY <1>a, <2>2 DEF PollNothing, vars, member, group
  <2>3. ASSUME NEW q \in Partitions, PollMessage(n, q) PROVE Moves
    BY <1>a, <2>3 DEF PollMessage, group
  <2>4. ASSUME NEW q \in Partitions, PollEOF(n, q) PROVE Moves
    BY <1>a, <2>4 DEF PollEOF, group
  <2>5. CASE CommitFirst(n)
    <3>1. PICK p \in Partitions, o \in 0 .. N-1 :
            /\ current[n][1] = p /\ current[n][2] = o
            /\ p \in held[n] /\ position[n][p] = o + 1
      <4>1. TypeOK /\ InHand /\ pc[n] = "commitFirst"
        BY <2>5 DEF CommitFirst, FenceInv
      <4> QED
        BY <4>1, InHandIsMessage
    <3>2. committed' = committed \/ (owner[p] = n /\ committed' = [committed EXCEPT ![p] = o + 1])
      BY <2>5, <3>1 DEF CommitFirst
    <3>3. CASE owner[p] = n /\ committed' = [committed EXCEPT ![p] = o + 1]
      <4>1. committed[p] <= o + 1 /\ committed \in [Partitions -> 0 .. N]
        BY <3>1, <3>3 DEF FenceInv, OwnerIsAhead, TypeOK
      <4>2. \A r \in Partitions : committed'[r] = IF r = p THEN o + 1 ELSE committed[r]
        BY <3>3, <4>1
      <4> QED
        BY <4>1, <4>2
    <3> QED
      BY <1>a, <3>2, <3>3
  <2>6. CASE ProcessOk(n)
    BY <1>a, <2>6 DEF ProcessOk, group
  <2>7. CASE ProcessFail(n)
    BY <1>a, <2>7 DEF ProcessFail, group
  <2>8. CASE StoreOffset(n)
    BY <1>a, <2>8 DEF StoreOffset, group
  <2>9. CASE RevokedLost(n)
    BY <1>a, <2>9 DEF RevokedLost, group
  <2>10. CASE FinalCommit(n)
    BY <2>10, CommitMoves DEF FinalCommit
  <2>11. CASE Flush(n)
    BY <1>a, <2>11 DEF Flush, group
  <2>12. CASE Close(n)
    BY <2>12, CommitMoves DEF Close
  <2> QED
    BY <1>1, <2>1, <2>2, <2>3, <2>4, <2>5, <2>6, <2>7, <2>8, <2>9, <2>10, <2>11, <2>12
    DEF Runs
<1>2. ASSUME NEW n \in Members, NEW S \in SUBSET Partitions, Assigned(n, S) PROVE Moves
  BY <1>a, <1>2 DEF Assigned
<1>3. ASSUME NEW n \in Members, Start(n) PROVE Moves
  BY <1>a, <1>3 DEF Start, group
<1>4. ASSUME NEW n \in Members, BackgroundCommit(n) PROVE Moves
  <2>1. AutoCommit /\ Commit(n)
    BY <1>4 DEF BackgroundCommit
  <2>2. Mode # "atmostonce"
    BY ModeAssumption, <2>1 DEF ModeAllowed
  <2> QED
    BY <2>1, <2>2, CommitMoves
<1>5. ASSUME NEW n \in Members, Trouble(n) PROVE Moves
  <2>1. CASE PollFatal(n)
    BY <1>a, <2>1 DEF PollFatal, group
  <2>2. CASE Signal(n)
    BY <1>a, <2>2 DEF Signal, group
  <2>3. CASE Crash(n)
    BY <1>a, <2>3 DEF Crash
  <2>4. CASE Evict(n)
    BY <1>a, <2>4 DEF Evict, member
  <2>5. ASSUME NEW S \in SUBSET Partitions, Revoked(n, S) PROVE Moves
    BY <2>5, CommitMoves DEF Revoked
  <2>6. ASSUME NEW msg \in Messages, DlqLost(n, msg) PROVE Moves
    BY <1>a, <2>6 DEF DlqLost, member, group
  <2> QED
    BY <1>5, <2>1, <2>2, <2>3, <2>4, <2>5, <2>6 DEF Trouble
<1>6. ASSUME NEW n \in Members, NEW msg \in Messages, DlqDelivered(n, msg) PROVE Moves
  BY <1>a, <1>6 DEF DlqDelivered, member, group
<1>7. CASE UNCHANGED vars
  BY <1>a, <1>7 DEF vars, member, group, dlq, history
<1> QED
  BY <1>1, <1>2, <1>3, <1>4, <1>5, <1>6, <1>7 DEF Next, Joins

LEMMA FenceInit == Init => FenceInv
<1>1. Init => OwnerIsAhead
  BY NamesAssumption DEF Init, OwnerIsAhead, Zero
<1> QED
  BY <1>1, TypeInit DEF FenceInv

LEMMA FenceStep == FenceInv /\ [Next]_vars => FenceInv'
  BY TypeStep, InHandStep, OwnerIsAheadStep DEF FenceInv

\* In every mode the owner of a partition, and what it stored, is past the group's
\* offset; who gave a partition back has nothing stored for it (main.go:674-682), and
\* who was evicted owns none of what it still holds.
THEOREM OwnersLead == Spec => []OwnerIsAhead
<1>1. FenceInv => OwnerIsAhead
  BY DEF FenceInv
<1> QED
  BY <1>1, FenceInit, FenceStep, PTL DEF Spec

\* In every mode a partition's committed offset never decreases: a member that
\* lost the partition cannot commit, and the owner is never behind the group.
THEOREM CommitsMoveForward == Spec => CommitMonotone
<1>1. FenceInv /\ [Next]_vars => [\A p \in Partitions : committed'[p] >= committed[p]]_vars
  BY MonotoneStep
<1> QED
  BY <1>1, FenceInit, FenceStep, PTL DEF Spec, CommitMonotone

(***************************************************************************)
(* Manual mode implements the bookmark.                                    *)
(***************************************************************************)
\* A step of the group is one commit, one message handled, or neither.
LEMMA BookmarkStep ==
  ASSUME Mode = "manual", ManualInv, FenceInv, [Next]_vars, ManualInv'
  PROVE  [Mark!Next]_<<Handled, committed>>
<1>1. CASE Handled' = Handled
  <2>1. \A p \in Partitions : committed'[p] >= committed[p]
    BY MonotoneStep
  <2>2. \A p \in Partitions, o \in 0 .. N-1 : o < committed'[p] => <<p, o>> \in Handled
    BY <1>1 DEF ManualInv, CommittedIsHandled
  <2>3. committed' \in [Partitions -> 0 .. N]
    BY DEF ManualInv, TypeOK
  <2>4. Mark!Advance
    BY <1>1, <2>1, <2>2, <2>3 DEF Mark!Advance, Mark!Covered
  <2> QED
    BY <2>4 DEF Mark!Next
<1>2. CASE UNCHANGED committed /\ \E msg \in Messages : Handled' = Handled \union {msg}
  BY <1>2 DEF Mark!Next, Mark!Handle, Mark!Messages, Messages
<1>3. \/ Handled' = Handled
      \/ UNCHANGED committed /\ \E msg \in Messages : Handled' = Handled \union {msg}
  BY HandledStep DEF ManualInv
<1> QED
  BY <1>1, <1>2, <1>3

\* In manual mode the group's offsets are a bookmark: they move forward only, and
\* only over messages already handled.
THEOREM ManualRefinesBookmark == Mode = "manual" /\ Spec => RefinesBookmark
<1> SUFFICES ASSUME Mode = "manual" PROVE Spec => RefinesBookmark
  OBVIOUS
<1>1. Init => Mark!Init
  BY DEF Init, Mark!Init, Handled, Zero
<1>2. ManualInv /\ FenceInv /\ [Next]_vars /\ ManualInv' => [Mark!Next]_<<Handled, committed>>
  BY BookmarkStep
<1>3. Spec => []ManualInv
  BY ManualInitStep, PTL DEF Spec
<1> QED
  BY <1>1, <1>2, <1>3, FenceInit, FenceStep, PTL DEF Spec, RefinesBookmark, Mark!Spec

(***************************************************************************)
(* The way out after a signal.                                             *)
(***************************************************************************)
\* A process that is gone has no context.
DownIsReset == \A m \in Members : pc[m] = "down" => ~ctxDone[m]

LEMMA DownIsResetStep ==
  ASSUME TypeOK, DownIsReset, [Next]_vars
  PROVE  DownIsReset'
<1>0. pc \in [Members -> Locations] /\ ctxDone \in [Members -> BOOLEAN]
  BY DEF TypeOK
<1>1. ASSUME NEW m \in Members, Runs(m) PROVE DownIsReset'
  BY <1>0, <1>1 DEF Runs, ExitLoop, PollNothing, PollMessage, AfterPoll, PollEOF,
     CommitFirst, ProcessOk, ProcessFail, Attempted, StoreOffset, RevokedLost, Unassign,
     FinalCommit, Flush, Close, GoDown, vars, member, DownIsReset
<1>2. ASSUME NEW m \in Members, Trouble(m) PROVE DownIsReset'
  BY <1>0, <1>2 DEF Trouble, PollFatal, Signal, Crash, GoDown, Evict, Revoked, Unassign,
     DlqLost, member, DownIsReset
<1>3. ASSUME NEW m \in Members, Joins(m) \/ Start(m) \/ BackgroundCommit(m)
      PROVE  DownIsReset'
  BY <1>0, <1>3 DEF Joins, Assigned, Start, BackgroundCommit, member, DownIsReset
<1>4. ASSUME NEW m \in Members, NEW msg \in Messages, DlqDelivered(m, msg)
      PROVE  DownIsReset'
  BY <1>4 DEF DlqDelivered, member, DownIsReset
<1>5. CASE UNCHANGED vars
  BY <1>5 DEF vars, member, DownIsReset
<1> QED
  BY <1>1, <1>2, <1>3, <1>4, <1>5 DEF Next

\* A step of m's goroutine after the signal is one of those left.
LEMMA RunsLeadOut ==
  ASSUME TypeOK, NEW m \in Members, ctxDone[m], Runs(m)
  PROVE  StepsLeft(m)' < StepsLeft(m) /\ \A n \in Members \ {m} : pc'[n] = pc[n]
<1>0. pc \in [Members -> Locations] /\ LoopEnds(m)
  BY DEF TypeOK, LoopEnds
<1>1. CASE ProcessOk(m) \/ ProcessFail(m)
  BY <1>0, <1>1 DEF ProcessOk, ProcessFail, Attempted, StepsLeft
<1>2. CASE ~(ProcessOk(m) \/ ProcessFail(m))
  BY <1>0, <1>2 DEF Runs, ExitLoop, PollNothing, PollMessage, PollEOF, Polls, CommitFirst,
     StoreOffset, RevokedLost, FinalCommit, Flush, Close, GoDown, StepsLeft
<1> QED
  BY <1>1, <1>2

\* The first signal leads out: whatever the other members, the broker and the disruptions
\* do, a member whose context is cancelled takes only steps of the orderly path, each of
\* them once (main.go:355, 367-372, 700-741).
THEOREM SignalsLeadOut == Spec => SignalLeadsOut
<1>1. Init => TypeOK /\ InHand /\ DownIsReset
  BY TypeInit DEF Init, DownIsReset
<1>2. TypeOK /\ InHand /\ DownIsReset /\ [Next]_vars => (TypeOK /\ InHand /\ DownIsReset)'
  BY TypeStep, InHandStep, DownIsResetStep
<1>3. TypeOK /\ InHand /\ DownIsReset /\ [Next]_vars
        => [\A m \in Members : ctxDone[m] =>
              StepsLeft(m)' <= StepsLeft(m) /\ (Runs(m) => StepsLeft(m)' < StepsLeft(m))]_vars
  <2> SUFFICES ASSUME TypeOK, InHand, DownIsReset, Next, NEW m \in Members, ctxDone[m]
               PROVE  /\ StepsLeft(m)' <= StepsLeft(m)
                      /\ Runs(m) => StepsLeft(m)' < StepsLeft(m)
    OBVIOUS
  <2>0. pc \in [Members -> Locations] /\ StepsLeft(m) \in Nat /\ pc[m] # "down"
    BY DEF TypeOK, Locations, StepsLeft, DownIsReset
  <2>1. Runs(m) => StepsLeft(m)' < StepsLeft(m)
    BY RunsLeadOut
  <2>a. pc'[m] = pc[m] => StepsLeft(m)' = StepsLeft(m)
    BY DEF StepsLeft
  <2>2. ASSUME NEW n \in Members, Runs(n), n # m PROVE pc'[m] = pc[m]
    BY <2>0, <2>2
       DEF Runs, ExitLoop, PollNothing, PollMessage, PollEOF, CommitFirst, ProcessOk,
           ProcessFail, Attempted, StoreOffset, RevokedLost, Unassign, FinalCommit, Flush,
           Close, GoDown, vars, member
  <2>3. ASSUME NEW n \in Members, Trouble(n) PROVE StepsLeft(m)' <= StepsLeft(m)
    <3>1. CASE Crash(n)
      <4>1. pc'[m] = pc[m] \/ pc'[m] = "down"
        BY <2>0, <3>1 DEF Crash, GoDown
      <4> QED
        BY <2>0, <4>1 DEF StepsLeft
    <3>2. CASE PollFatal(n)
      BY <2>0, <2>a, <3>2 DEF PollFatal, Polls, LoopEnds
    <3>3. CASE ~Crash(n) /\ ~PollFatal(n)
      BY <2>0, <2>3, <2>a, <3>3 DEF Trouble, Signal, Evict, Revoked, Unassign, DlqLost, member
    <3> QED
      BY <3>1, <3>2, <3>3
  <2>4. ASSUME NEW n \in Members,
               Joins(n) \/ Start(n) \/ BackgroundCommit(n) \/ \E msg \in Messages : DlqDelivered(n, msg)
        PROVE  pc'[m] = pc[m]
    BY <2>0, <2>4 DEF Joins, Assigned, Start, BackgroundCommit, DlqDelivered, member
  <2>5. StepsLeft(m)' <= StepsLeft(m)
    <3>1. CASE Runs(m)
      <4>1. StepsLeft(m)' < StepsLeft(m)
        BY <2>1, <3>1
      <4>2. TypeOK'
        BY TypeStep
      <4>3. pc'[m] \in Locations
        BY <4>2 DEF TypeOK
      <4>4. StepsLeft(m)' \in Nat
        BY <4>3 DEF StepsLeft, Locations
      <4> QED
        BY <2>0, <4>1, <4>4
    <3>2. CASE pc'[m] = pc[m]
      BY <2>0, <2>a, <3>2
    <3> QED
      BY <2>2, <2>3, <2>4, <3>1, <3>2 DEF Next
  <2> QED
    BY <2>1, <2>5
<1> QED
  BY <1>1, <1>2, <1>3, PTL DEF Spec, SignalLeadsOut
=============================================================================
