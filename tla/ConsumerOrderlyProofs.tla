------------------------ MODULE ConsumerOrderlyProofs ------------------------
(***************************************************************************)
(* Theorems about Consumer as long as partitions change hands in order,    *)
(* for any number of members, partitions, messages and disruptions of the  *)
(* kinds left, and in every mode.                                          *)
(*                                                                         *)
(* Neither HandledOnce nor EofExitIsComplete says where the next owner of  *)
(* a partition will start, so neither is inductive. The invariant that is  *)
(* (CaughtUp) says that a commit by the owner would bring the group's      *)
(* offset to the owner's position, but for the message in hand. So whoever *)
(* has read a partition to its end leaves it committed to the end          *)
(* (SeenAtEnd), crashes or not. And as long as members do not crash, the   *)
(* frontier of a partition, where its owner stands or the next one will    *)
(* start, moves forward only (FrontierMoves): what has been tried stays    *)
(* below it. FallsBack is the one exception: in at-most-once mode a crash  *)
(* between Poll and CommitMessage takes the frontier back over one         *)
(* message, which nobody has tried.                                        *)
(***************************************************************************)
EXTENDS ConsumerProofs

USE BoundsAssumption

\* Members are not evicted and their commits succeed.
InTurn == {"evict", "commitError"} \intersect Disruptions = {}

\* Besides, in the modes that commit after the work they leave by the orderly path only.
Orderly ==
  /\ InTurn
  /\ Mode = "atmostonce" \/ {"crash", "secondSignal"} \intersect Disruptions = {}
  /\ Mode = "manual" => "storeError" \notin Disruptions

\* StoreMessage is called in manual mode only.
StoresByHand == \A m \in Members : pc[m] = "store" => Mode = "manual"

HeldIsOwned == \A m \in Members : \A p \in held[m] : owner[p] = m

\* The message m has in hand is one its next commit of partition p leaves out.
Lags(m, p) ==
  /\ \/ Mode = "manual" /\ pc[m] \in {"process", "store"}
     \/ Mode = "atmostonce" /\ pc[m] = "commitFirst"
  /\ current[m][1] = p

\* What the group's offset of p is if m commits now.
Caught(m, p) == IF Mode # "atmostonce" /\ stored[m][p] > 0 THEN stored[m][p] ELSE committed[p]

\* m may have left its loop because StoreMessage failed.
Unstored(m) ==
  Mode = "manual" /\ "storeError" \in Disruptions /\ pc[m] \in {"finalCommit", "flush", "close"}

CaughtUpAt(m, p) ==
  owner[p] = m /\ ~Unstored(m) =>
    position[m][p] = IF Lags(m, p) THEN Caught(m, p) + 1 ELSE Caught(m, p)

CaughtUp == \A m \in Members, p \in Partitions : CaughtUpAt(m, p)

LEMMA CommitCatches ==
  ASSUME InTurn, TypeOK, OwnerIsAhead, NEW m \in Members, NEW q \in Partitions,
         (Commit(m) /\ Mode # "atmostonce") \/ CommitBeforeLeaving(m)
  PROVE  committed'[q] = IF owner[q] = m THEN Caught(m, q) ELSE committed[q]
<1>1. owner[q] = m => q \in held[m]
  BY DEF OwnerIsAhead
<1>2. ModeAllowed
  BY ModeAssumption
<1>3. CASE Commit(m) /\ Mode # "atmostonce"
  BY <1>1, <1>3 DEF Commit, Caught
<1>4. CASE Mode = "atmostonce" /\ UNCHANGED committed
  BY <1>4 DEF Caught
<1> QED
  BY <1>2, <1>3, <1>4 DEF CommitBeforeLeaving, InTurn, ModeAllowed

LEMMA HeldIsOwnedStep ==
  ASSUME InTurn, TypeOK, HeldIsOwned, [Next]_vars
  PROVE  HeldIsOwned'
<1>0. /\ pc \in [Members -> Locations]
      /\ held \in [Members -> SUBSET Partitions]
      /\ position \in [Members -> [Partitions -> 0 .. N]]
      /\ stored \in [Members -> [Partitions -> 0 .. N]]
      /\ current \in [Members -> Messages \union {NoMessage}]
      /\ owner \in [Partitions -> Members \union {Nobody}]
      /\ committed \in [Partitions -> 0 .. N]
      /\ attempts \in [Messages -> 0 .. AttemptCap]
  BY DEF TypeOK
<1>1. ASSUME NEW m \in Members, Runs(m) PROVE HeldIsOwned'
  <2>1. CASE ExitLoop(m)
    BY <1>0, <2>1 DEF ExitLoop, member, group, dlq, history, HeldIsOwned
  <2>2. ASSUME NEW p \in Partitions, PollMessage(m, p) PROVE HeldIsOwned'
    BY <1>0, <2>2 DEF PollMessage, Polls, member, group, dlq, history, HeldIsOwned
  <2>3. ASSUME NEW p \in Partitions, PollEOF(m, p) PROVE HeldIsOwned'
    BY <1>0, <2>3 DEF PollEOF, Polls, member, group, dlq, history, HeldIsOwned
  <2>4. CASE CommitFirst(m)
    BY <1>0, <2>4 DEF CommitFirst, member, group, dlq, history, HeldIsOwned
  <2>5. CASE ProcessOk(m)
    BY <1>0, <2>5 DEF ProcessOk, Attempted, member, group, dlq, history, HeldIsOwned
  <2>6. CASE ProcessFail(m)
    BY <1>0, <2>6 DEF ProcessFail, Attempted, member, group, dlq, history, HeldIsOwned
  <2>7. CASE StoreOffset(m)
    BY <1>0, <2>7 DEF StoreOffset, StoreMessage, member, group, dlq, history,
       HeldIsOwned
  <2>8. CASE RevokedLost(m)
    BY <1>0, <2>8 DEF RevokedLost, Unassign, Polls, member, group, dlq, history,
       HeldIsOwned
  <2>9. CASE FinalCommit(m)
    BY <1>0, <2>9 DEF FinalCommit, CommitBeforeLeaving, Commit, member, group, dlq,
       history, HeldIsOwned
  <2>10. CASE Flush(m)
    BY <1>0, <2>10 DEF Flush, member, group, dlq, history, HeldIsOwned
  <2>11. CASE Close(m)
    BY <1>0, <2>11 DEF Close, CommitBeforeLeaving, Commit, GoDown, Zero, member, group,
       dlq, history, HeldIsOwned
  <2>12. CASE PollNothing(m)
    BY <1>0, <2>12 DEF PollNothing, vars, member, group, dlq, history, HeldIsOwned
  <2> QED
    BY <1>1, <2>1, <2>2, <2>3, <2>4, <2>5, <2>6, <2>7, <2>8, <2>9, <2>10, <2>11, <2>12
       DEF Runs
<1>2. ASSUME NEW m \in Members, Trouble(m) PROVE HeldIsOwned'
  <2>1. CASE PollFatal(m)
    BY <1>0, <2>1 DEF PollFatal, Polls, member, group, dlq, history, HeldIsOwned
  <2>2. CASE Signal(m)
    BY <1>0, <2>2 DEF Signal, member, group, dlq, history, HeldIsOwned
  <2>3. CASE Crash(m)
    BY <1>0, <2>3 DEF Crash, GoDown, Zero, member, group, dlq, history, HeldIsOwned
  <2>4. CASE Evict(m)
    BY <2>4 DEF Evict, Disrupt, InTurn
  <2>5. ASSUME NEW S \in SUBSET Partitions, Revoked(m, S) PROVE HeldIsOwned'
    BY <1>0, <2>5 DEF Revoked, Unassign, CommitBeforeLeaving, Commit, Polls, member,
       group, dlq, history, HeldIsOwned
  <2>6. ASSUME NEW msg \in Messages, DlqLost(m, msg) PROVE HeldIsOwned'
    BY <1>0, <2>6 DEF DlqLost, member, group, dlq, history, HeldIsOwned
  <2> QED
    BY <1>2, <2>1, <2>2, <2>3, <2>4, <2>5, <2>6 DEF Trouble
<1>3. ASSUME NEW m \in Members, NEW S \in SUBSET Partitions, Assigned(m, S)
      PROVE  HeldIsOwned'
  BY <1>0, <1>3, NamesAssumption DEF Assigned, HeldIsOwned
<1>4. ASSUME NEW m \in Members, Start(m) PROVE HeldIsOwned'
  BY <1>0, <1>4 DEF Start, member, group, dlq, history, HeldIsOwned
<1>5. ASSUME NEW m \in Members, BackgroundCommit(m) PROVE HeldIsOwned'
  BY <1>0, <1>5 DEF BackgroundCommit, Commit, member, group, dlq, history, HeldIsOwned
<1>6. ASSUME NEW m \in Members, NEW msg \in Messages, DlqDelivered(m, msg)
      PROVE  HeldIsOwned'
  BY <1>0, <1>6 DEF DlqDelivered, member, group, dlq, history, HeldIsOwned
<1>7. CASE UNCHANGED vars
  BY <1>0, <1>7 DEF vars, member, group, dlq, history, HeldIsOwned
<1> QED
  BY <1>1, <1>2, <1>3, <1>4, <1>5, <1>6, <1>7 DEF Next, Joins

LEMMA StoresByHandStep ==
  ASSUME TypeOK, StoresByHand, [Next]_vars
  PROVE  StoresByHand'
<1>0. /\ pc \in [Members -> Locations]
      /\ held \in [Members -> SUBSET Partitions]
      /\ position \in [Members -> [Partitions -> 0 .. N]]
      /\ stored \in [Members -> [Partitions -> 0 .. N]]
      /\ current \in [Members -> Messages \union {NoMessage}]
      /\ owner \in [Partitions -> Members \union {Nobody}]
      /\ committed \in [Partitions -> 0 .. N]
      /\ attempts \in [Messages -> 0 .. AttemptCap]
  BY DEF TypeOK
<1>1. ASSUME NEW m \in Members, Runs(m) PROVE StoresByHand'
  <2>1. CASE ExitLoop(m)
    BY <1>0, <2>1 DEF ExitLoop, member, group, dlq, history, StoresByHand
  <2>2. ASSUME NEW p \in Partitions, PollMessage(m, p) PROVE StoresByHand'
    BY <1>0, <2>2 DEF PollMessage, Polls, AfterPoll, member, group, dlq, history, StoresByHand
  <2>3. ASSUME NEW p \in Partitions, PollEOF(m, p) PROVE StoresByHand'
    BY <1>0, <2>3 DEF PollEOF, Polls, member, group, dlq, history, StoresByHand
  <2>4. CASE CommitFirst(m)
    BY <1>0, <2>4 DEF CommitFirst, member, group, dlq, history, StoresByHand
  <2>5. CASE ProcessOk(m)
    BY <1>0, <2>5 DEF ProcessOk, Attempted, member, group, dlq, history, StoresByHand
  <2>6. CASE ProcessFail(m)
    BY <1>0, <2>6 DEF ProcessFail, Attempted, member, group, dlq, history, StoresByHand
  <2>7. CASE StoreOffset(m)
    BY <1>0, <2>7 DEF StoreOffset, StoreMessage, member, group, dlq, history,
       StoresByHand
  <2>8. CASE RevokedLost(m)
    BY <1>0, <2>8 DEF RevokedLost, Unassign, Polls, member, group, dlq, history,
       StoresByHand
  <2>9. CASE FinalCommit(m)
    BY <1>0, <2>9 DEF FinalCommit, CommitBeforeLeaving, Commit, member, group, dlq,
       history, StoresByHand
  <2>10. CASE Flush(m)
    BY <1>0, <2>10 DEF Flush, member, group, dlq, history, StoresByHand
  <2>11. CASE Close(m)
    BY <1>0, <2>11 DEF Close, CommitBeforeLeaving, Commit, GoDown, Zero, member, group,
       dlq, history, StoresByHand
  <2>12. CASE PollNothing(m)
    BY <1>0, <2>12 DEF PollNothing, vars, member, group, dlq, history, StoresByHand
  <2> QED
    BY <1>1, <2>1, <2>2, <2>3, <2>4, <2>5, <2>6, <2>7, <2>8, <2>9, <2>10, <2>11, <2>12
       DEF Runs
<1>2. ASSUME NEW m \in Members, Trouble(m) PROVE StoresByHand'
  <2>1. CASE PollFatal(m)
    BY <1>0, <2>1 DEF PollFatal, Polls, member, group, dlq, history, StoresByHand
  <2>2. CASE Signal(m)
    BY <1>0, <2>2 DEF Signal, member, group, dlq, history, StoresByHand
  <2>3. CASE Crash(m)
    BY <1>0, <2>3 DEF Crash, GoDown, Zero, member, group, dlq, history, StoresByHand
  <2>4. CASE Evict(m)
    BY <1>0, <2>4 DEF Evict, member, StoresByHand
  <2>5. ASSUME NEW S \in SUBSET Partitions, Revoked(m, S) PROVE StoresByHand'
    BY <1>0, <2>5 DEF Revoked, Unassign, CommitBeforeLeaving, Commit, Polls, member,
       group, dlq, history, StoresByHand
  <2>6. ASSUME NEW msg \in Messages, DlqLost(m, msg) PROVE StoresByHand'
    BY <1>0, <2>6 DEF DlqLost, member, group, dlq, history, StoresByHand
  <2> QED
    BY <1>2, <2>1, <2>2, <2>3, <2>4, <2>5, <2>6 DEF Trouble
<1>3. ASSUME NEW m \in Members, NEW S \in SUBSET Partitions, Assigned(m, S)
      PROVE  StoresByHand'
  BY <1>0, <1>3, NamesAssumption DEF Assigned, StoresByHand
<1>4. ASSUME NEW m \in Members, Start(m) PROVE StoresByHand'
  BY <1>0, <1>4 DEF Start, member, group, dlq, history, StoresByHand
<1>5. ASSUME NEW m \in Members, BackgroundCommit(m) PROVE StoresByHand'
  BY <1>0, <1>5 DEF BackgroundCommit, Commit, member, group, dlq, history, StoresByHand
<1>6. ASSUME NEW m \in Members, NEW msg \in Messages, DlqDelivered(m, msg)
      PROVE  StoresByHand'
  BY <1>0, <1>6 DEF DlqDelivered, member, group, dlq, history, StoresByHand
<1>7. CASE UNCHANGED vars
  BY <1>0, <1>7 DEF vars, member, group, dlq, history, StoresByHand
<1> QED
  BY <1>1, <1>2, <1>3, <1>4, <1>5, <1>6, <1>7 DEF Next, Joins

LEMMA CaughtUpLeaves ==
  ASSUME InTurn, TypeOK, NEW m \in Members, GoDown(m), NEW n \in Members, NEW q \in Partitions,
         CaughtUpAt(n, q), owner[q] # m => committed'[q] = committed[q]
  PROVE  CaughtUpAt(n, q)'
<1>1. CASE n = m \/ owner[q] = m
  BY <1>1, NamesAssumption DEF GoDown, TypeOK, CaughtUpAt
<1>2. CASE n # m /\ owner[q] # m
  <2>1. owner'[q] = owner[q] /\ committed'[q] = committed[q]
    BY <1>2 DEF GoDown
  <2>2. /\ position'[n] = position[n] /\ stored'[n] = stored[n] /\ pc'[n] = pc[n]
        /\ current'[n] = current[n]
    BY <1>2 DEF GoDown, TypeOK
  <2> QED
    BY <2>1, <2>2 DEF CaughtUpAt, Caught, Lags, Unstored
<1> QED
  BY <1>1, <1>2

LEMMA CaughtUpStep ==
  ASSUME InTurn, TypeOK, InHand, OwnerIsAhead, HeldIsOwned, StoresByHand, CaughtUp, [Next]_vars
  PROVE  CaughtUp'
<1> SUFFICES ASSUME NEW n \in Members, NEW q \in Partitions PROVE CaughtUpAt(n, q)'
  BY DEF CaughtUp
<1>0. /\ pc \in [Members -> Locations]
      /\ held \in [Members -> SUBSET Partitions]
      /\ position \in [Members -> [Partitions -> 0 .. N]]
      /\ stored \in [Members -> [Partitions -> 0 .. N]]
      /\ current \in [Members -> Messages \union {NoMessage}]
      /\ owner \in [Partitions -> Members \union {Nobody}]
      /\ committed \in [Partitions -> 0 .. N]
      /\ attempts \in [Messages -> 0 .. AttemptCap]
  BY DEF TypeOK
<1>a. CaughtUpAt(n, q)
  BY DEF CaughtUp
<1>b. position[n][q] \in 0 .. N /\ stored[n][q] \in 0 .. N /\ committed[q] \in 0 .. N
  BY <1>0
<1>1. ASSUME NEW m \in Members, Runs(m) PROVE CaughtUpAt(n, q)'
  <2>1. CASE ExitLoop(m)
    BY <1>0, <1>a, <2>1 DEF ExitLoop, member, group, dlq, history, CaughtUpAt, Caught,
       Lags, Unstored
  <2>2. ASSUME NEW p \in Partitions, PollMessage(m, p) PROVE CaughtUpAt(n, q)'
    <3>1. UNCHANGED <<owner, committed>>
      BY <2>2 DEF PollMessage, group
    <3>2. CASE n # m \/ q # p
      <4>1. position'[n][q] = position[n][q] /\ stored'[n][q] = stored[n][q]
        BY <1>0, <2>2, <3>2 DEF PollMessage
      <4>2. (Lags(n, q)' <=> Lags(n, q)) /\ (Unstored(n) => Unstored(n)')
        BY <1>0, <2>2, <3>2 DEF PollMessage, Polls, AfterPoll, Lags, Unstored
      <4> QED
        BY <1>a, <3>1, <4>1, <4>2 DEF CaughtUpAt, Caught
    <3>3. CASE n = m /\ q = p
      <4>1. /\ position'[m][p] = position[m][p] + 1 /\ ~Lags(m, p)
            /\ stored'[m][p] = IF AutoStore THEN position[m][p] + 1 ELSE stored[m][p]
            /\ ~Unstored(m)
        BY <1>0, <2>2 DEF PollMessage, Polls, StoredAtDelivery, Lags, Unstored
      <4>2. Lags(m, p)' <=> Mode \in {"manual", "atmostonce"}
        BY <1>0, <2>2 DEF PollMessage, AfterPoll, Lags, Unstored
      <4>3. ModeAllowed
        BY ModeAssumption
      <4> QED
        BY <1>a, <1>b, <3>1, <3>3, <4>1, <4>2, <4>3 DEF CaughtUpAt, Caught, ModeAllowed
    <3> QED
      BY <3>2, <3>3
  <2>3. ASSUME NEW p \in Partitions, PollEOF(m, p) PROVE CaughtUpAt(n, q)'
    BY <1>0, <1>a, <2>3 DEF PollEOF, Polls, member, group, dlq, history, CaughtUpAt,
       Caught, Lags, Unstored
  <2>4. CASE CommitFirst(m)
    <3>1. PICK p \in Partitions, o \in 0 .. N-1 :
            /\ current[m][1] = p /\ current[m][2] = o
            /\ p \in held[m] /\ position[m][p] = o + 1
      BY <2>4, InHandIsMessage DEF CommitFirst
    <3>2. Mode = "atmostonce" /\ owner[p] = m
      BY <2>4, <3>1 DEF CommitFirst, InHand, HeldIsOwned
    <3>3. /\ committed' = [committed EXCEPT ![p] = o + 1]
          /\ UNCHANGED <<owner, position, stored, current>>
      BY <2>4, <3>1, <3>2 DEF CommitFirst, InTurn
    <3>4. CASE q = p
      <4>1. committed'[p] = o + 1 /\ ~Lags(m, p)'
        BY <1>0, <2>4, <3>2, <3>3 DEF CommitFirst, Lags, Unstored
      <4> QED
        BY <3>1, <3>2, <3>3, <3>4, <4>1 DEF CaughtUpAt, Caught
    <3>5. CASE q # p
      <4>1. committed'[q] = committed[q]
        BY <1>0, <3>3, <3>5
      <4>2. (Lags(n, q)' <=> Lags(n, q)) /\ (Unstored(n) => Unstored(n)')
        BY <1>0, <2>4, <3>1, <3>2, <3>3, <3>5 DEF CommitFirst, Lags, Unstored
      <4> QED
        BY <1>a, <3>3, <4>1, <4>2 DEF CaughtUpAt, Caught
    <3> QED
      BY <3>4, <3>5
  <2>5. CASE ProcessOk(m)
    BY <1>0, <1>a, <2>5 DEF ProcessOk, Attempted, member, group, dlq, history,
       CaughtUpAt, Caught, Lags, Unstored
  <2>6. CASE ProcessFail(m)
    BY <1>0, <1>a, <2>6 DEF ProcessFail, Attempted, member, group, dlq, history,
       CaughtUpAt, Caught, Lags, Unstored
  <2>7. CASE StoreOffset(m)
    <3>1. PICK p \in Partitions, o \in 0 .. N-1 :
            /\ current[m][1] = p /\ current[m][2] = o
            /\ p \in held[m] /\ position[m][p] = o + 1
      <4>1. pc[m] = "store"
        BY <2>7 DEF StoreOffset
      <4> QED
        BY <4>1, InHandIsMessage
    <3>2. UNCHANGED <<owner, committed, position>>
      BY <2>7 DEF StoreOffset, group
    <3>3. Mode = "manual"
      BY <2>7 DEF StoreOffset, StoresByHand
    <3>4. CASE n # m \/ q # p
      <4>1. stored'[n][q] = stored[n][q]
        BY <1>0, <2>7, <3>1, <3>4 DEF StoreOffset, StoreMessage
      <4>2. (Lags(n, q)' <=> Lags(n, q)) /\ (Unstored(n) => Unstored(n)')
        BY <1>0, <2>7, <3>1, <3>4 DEF StoreOffset, Lags, Unstored
      <4> QED
        BY <1>a, <3>2, <4>1, <4>2 DEF CaughtUpAt, Caught
    <3>5. CASE n = m /\ q = p
      <4>1. ~Lags(m, p)'
        BY <1>0, <2>7 DEF StoreOffset, Lags
      <4>2. CASE pc'[m] = "loop"
        <5>1. stored'[m][p] = o + 1
          BY <1>0, <2>7, <3>1, <4>2 DEF StoreOffset, StoreMessage
        <5> QED
          BY <3>1, <3>2, <3>3, <3>5, <4>1, <5>1 DEF CaughtUpAt, Caught
      <4>3. CASE pc'[m] # "loop"
        <5>1. Unstored(m)'
          BY <1>0, <2>7, <3>3, <4>3 DEF StoreOffset, Disrupt, Unstored
        <5> QED
          BY <3>5, <5>1 DEF CaughtUpAt
      <4> QED
        BY <4>2, <4>3
    <3> QED
      BY <3>4, <3>5
  <2>8. CASE RevokedLost(m)
    BY <2>8 DEF RevokedLost, AssignmentLost, HeldIsOwned
  <2>9. CASE FinalCommit(m)
    <3>1. committed'[q] = IF owner[q] = m THEN Caught(m, q) ELSE committed[q]
      BY <2>9, CommitCatches DEF FinalCommit
    <3>2. /\ UNCHANGED <<owner, position, stored>>
          /\ Lags(n, q)' <=> Lags(n, q)
          /\ Unstored(n) => Unstored(n)'
      BY <1>0, <2>9 DEF FinalCommit, Lags, Unstored
    <3> QED
      BY <1>a, <1>b, <3>1, <3>2 DEF CaughtUpAt, Caught
  <2>10. CASE Flush(m)
    BY <1>0, <1>a, <2>10 DEF Flush, member, group, dlq, history, CaughtUpAt, Caught,
       Lags, Unstored
  <2>11. CASE Close(m)
    <3>1. committed'[q] = IF owner[q] = m THEN Caught(m, q) ELSE committed[q]
      BY <2>11, CommitCatches DEF Close
    <3> QED
      BY <1>a, <2>11, <3>1, CaughtUpLeaves DEF Close
  <2>12. CASE PollNothing(m)
    BY <1>0, <1>a, <2>12 DEF PollNothing, vars, member, group, dlq, history, CaughtUpAt,
       Caught, Lags, Unstored
  <2> QED
    BY <1>1, <2>1, <2>2, <2>3, <2>4, <2>5, <2>6, <2>7, <2>8, <2>9, <2>10, <2>11, <2>12
       DEF Runs
<1>2. ASSUME NEW m \in Members, Trouble(m) PROVE CaughtUpAt(n, q)'
  <2>1. CASE PollFatal(m)
    BY <1>0, <1>a, <2>1 DEF PollFatal, Polls, member, group, dlq, history, CaughtUpAt,
       Caught, Lags, Unstored
  <2>2. CASE Signal(m)
    BY <1>0, <1>a, <2>2 DEF Signal, member, group, dlq, history, CaughtUpAt, Caught,
       Lags, Unstored
  <2>3. CASE Crash(m)
    BY <1>a, <2>3, CaughtUpLeaves DEF Crash
  <2>4. CASE Evict(m)
    BY <2>4 DEF Evict, Disrupt, InTurn
  <2>5. ASSUME NEW S \in SUBSET Partitions, Revoked(m, S) PROVE CaughtUpAt(n, q)'
    <3>1. committed'[q] = IF owner[q] = m THEN Caught(m, q) ELSE committed[q]
      BY <2>5, CommitCatches DEF Revoked
    <3>2. owner'[q] = IF q \in S THEN Nobody ELSE owner[q]
      BY <2>5 DEF Revoked
    <3>3. q \notin S => position'[n][q] = position[n][q] /\ stored'[n][q] = stored[n][q]
      BY <1>0, <2>5 DEF Revoked, Unassign
    <3>4. (Lags(n, q)' <=> Lags(n, q)) /\ (Unstored(n) => Unstored(n)')
      BY <1>0, <2>5 DEF Revoked, Unassign, Lags, Unstored
    <3> QED
      BY <1>a, <1>b, <3>1, <3>2, <3>3, <3>4, NamesAssumption DEF CaughtUpAt, Caught
  <2>6. ASSUME NEW msg \in Messages, DlqLost(m, msg) PROVE CaughtUpAt(n, q)'
    BY <1>0, <1>a, <2>6 DEF DlqLost, member, group, dlq, history, CaughtUpAt, Caught,
       Lags, Unstored
  <2> QED
    BY <1>2, <2>1, <2>2, <2>3, <2>4, <2>5, <2>6 DEF Trouble
<1>3. ASSUME NEW m \in Members, NEW S \in SUBSET Partitions, Assigned(m, S)
      PROVE  CaughtUpAt(n, q)'
  <2>1. UNCHANGED <<committed, stored, pc, current>>
    BY <1>3 DEF Assigned
  <2>2. CASE q \notin S
    <3>1. owner'[q] = owner[q] /\ position'[n][q] = position[n][q]
      BY <1>0, <1>3, <2>2 DEF Assigned
    <3> QED
      BY <1>a, <2>1, <3>1 DEF CaughtUpAt, Caught, Lags, Unstored
  <2>3. CASE q \in S
    <3>1. owner'[q] = m /\ position'[m][q] = committed[q] /\ owner[q] = Nobody
      BY <1>0, <1>3, <2>3 DEF Assigned, StartOffset
    <3>2. stored[m][q] = 0 /\ ~Lags(m, q)
      BY <1>3, <3>1, NamesAssumption DEF Assigned, Polls, Lags, Unstored, HeldIsOwned, OwnerIsAhead
    <3> QED
      BY <2>1, <3>1, <3>2 DEF CaughtUpAt, Caught, Lags, Unstored
  <2> QED
    BY <2>2, <2>3
<1>4. ASSUME NEW m \in Members, Start(m) PROVE CaughtUpAt(n, q)'
  BY <1>0, <1>a, <1>4 DEF Start, member, group, dlq, history, CaughtUpAt, Caught, Lags, Unstored
<1>5. ASSUME NEW m \in Members, BackgroundCommit(m) PROVE CaughtUpAt(n, q)'
  <2>1. Mode # "atmostonce"
    BY <1>5, ModeAssumption DEF BackgroundCommit, ModeAllowed
  <2>2. committed'[q] = IF owner[q] = m THEN Caught(m, q) ELSE committed[q]
    BY <1>5, <2>1, CommitCatches DEF BackgroundCommit
  <2>3. UNCHANGED <<owner, position, stored, pc, current>>
    BY <1>5 DEF BackgroundCommit, member
  <2> QED
    BY <1>a, <1>b, <2>2, <2>3 DEF CaughtUpAt, Caught, Lags, Unstored
<1>6. ASSUME NEW m \in Members, NEW msg \in Messages, DlqDelivered(m, msg)
      PROVE  CaughtUpAt(n, q)'
  BY <1>0, <1>a, <1>6 DEF DlqDelivered, member, group, dlq, history, CaughtUpAt, Caught,
     Lags, Unstored
<1>7. CASE UNCHANGED vars
  BY <1>0, <1>a, <1>7 DEF vars, member, group, dlq, history, CaughtUpAt, Caught, Lags, Unstored
<1> QED
  BY <1>1, <1>2, <1>3, <1>4, <1>5, <1>6, <1>7 DEF Next, Joins

(***************************************************************************)
(* The frontier of a partition: where the group is, or where it will be    *)
(* when the owner has left in order.                                       *)
(***************************************************************************)
Frontier(p) == IF owner[p] = Nobody THEN committed[p] ELSE position[owner[p]][p]

OrderlyInv == FenceInv /\ HeldIsOwned /\ StoresByHand /\ CaughtUp

LEMMA FrontierType ==
  ASSUME TypeOK, NEW p \in Partitions
  PROVE  Frontier(p) \in 0 .. N
  BY DEF TypeOK, Frontier

\* In at-most-once mode a crash between Poll and CommitMessage takes the frontier back
\* to the message in hand.
FallsBack(m, q) ==
  /\ Crash(m) /\ owner[q] = m /\ pc[m] = "commitFirst"
  /\ current[m] = <<q, Frontier(q) - 1>> /\ Frontier(q)' = Frontier(q) - 1

\* m gives q up, at the offset it has committed.
LEMMA GivenUp ==
  ASSUME OrderlyInv, Orderly, NEW m \in Members, NEW q \in Partitions,
         CommitBeforeLeaving(m), owner[q] = m, owner'[q] = Nobody, ~Lags(m, q)
  PROVE  Frontier(q)' = Frontier(q)
<1>1. committed'[q] = Caught(m, q)
  BY CommitCatches DEF OrderlyInv, FenceInv, Orderly
<1>2. position[m][q] = Caught(m, q)
  BY DEF OrderlyInv, CaughtUp, CaughtUpAt, Unstored, Orderly
<1> QED
  BY <1>1, <1>2, NamesAssumption DEF Frontier

\* The frontier moves forward.
LEMMA FrontierMoves ==
  ASSUME Orderly, OrderlyInv, NEW q \in Partitions, [Next]_vars
  PROVE  Frontier(q) <= Frontier(q)' \/ \E m \in Members : FallsBack(m, q)
<1> DEFINE Moves == Frontier(q) <= Frontier(q)' \/ \E m \in Members : FallsBack(m, q)
<1>0. /\ pc \in [Members -> Locations]
      /\ held \in [Members -> SUBSET Partitions]
      /\ position \in [Members -> [Partitions -> 0 .. N]]
      /\ stored \in [Members -> [Partitions -> 0 .. N]]
      /\ current \in [Members -> Messages \union {NoMessage}]
      /\ owner \in [Partitions -> Members \union {Nobody}]
      /\ committed \in [Partitions -> 0 .. N]
      /\ attempts \in [Messages -> 0 .. AttemptCap]
  BY DEF OrderlyInv, FenceInv, TypeOK
<1>f. Frontier(q)' = Frontier(q) => Moves
  BY FrontierType DEF OrderlyInv, FenceInv
<1> SUFFICES Moves
  OBVIOUS
<1>1. ASSUME NEW m \in Members, Runs(m) PROVE Moves
  <2>1. CASE ExitLoop(m)
    BY <1>0, <1>f, <2>1 DEF ExitLoop, member, group, dlq, history, Frontier
  <2>2. ASSUME NEW p \in Partitions, PollMessage(m, p) PROVE Moves
    <3>1. UNCHANGED <<owner, committed>>
      BY <2>2 DEF PollMessage, group
    <3>2. \A n \in Members :
            position'[n][q] = position[n][q] \/ position'[n][q] = position[n][q] + 1
      BY <1>0, <2>2 DEF PollMessage
    <3> QED
      BY <1>0, <3>1, <3>2 DEF Frontier
  <2>3. ASSUME NEW p \in Partitions, PollEOF(m, p) PROVE Moves
    BY <1>0, <1>f, <2>3 DEF PollEOF, Polls, member, group, dlq, history, Frontier
  <2>4. CASE CommitFirst(m)
    <3>1. PICK p \in Partitions, o \in 0 .. N-1 :
            /\ current[m][1] = p /\ current[m][2] = o
            /\ p \in held[m] /\ position[m][p] = o + 1
      <4>1. pc[m] = "commitFirst"
        BY <2>4 DEF CommitFirst
      <4> QED
        BY <4>1, InHandIsMessage DEF OrderlyInv, FenceInv
    <3>2. owner[p] = m
      BY <3>1 DEF HeldIsOwned, OrderlyInv
    <3>3. owner[q] = Nobody => committed'[q] = committed[q]
      BY <1>0, <2>4, <3>1, <3>2, NamesAssumption DEF CommitFirst
    <3>4. UNCHANGED <<owner, position>>
      BY <2>4 DEF CommitFirst
    <3> QED
      BY <1>0, <1>f, <3>3, <3>4 DEF Frontier
  <2>5. CASE ProcessOk(m)
    BY <1>0, <1>f, <2>5 DEF ProcessOk, Attempted, member, group, dlq, history, Frontier
  <2>6. CASE ProcessFail(m)
    BY <1>0, <1>f, <2>6 DEF ProcessFail, Attempted, member, group, dlq, history,
       Frontier
  <2>7. CASE StoreOffset(m)
    BY <1>0, <1>f, <2>7 DEF StoreOffset, StoreMessage, member, group, dlq, history,
       Frontier
  <2>8. CASE RevokedLost(m)
    BY <2>8 DEF RevokedLost, AssignmentLost, HeldIsOwned, OrderlyInv
  <2>9. CASE FinalCommit(m)
    <3>1. owner[q] = Nobody => committed'[q] = committed[q]
      BY <2>9, CommitCatches, NamesAssumption
      DEF FinalCommit, OrderlyInv, FenceInv, Orderly
    <3>2. UNCHANGED <<owner, position>>
      BY <2>9 DEF FinalCommit
    <3> QED
      BY <1>f, <3>1, <3>2 DEF Frontier
  <2>10. CASE Flush(m)
    BY <1>0, <1>f, <2>10 DEF Flush, member, group, dlq, history, Frontier
  <2>11. CASE Close(m)
    <3>1. CASE owner[q] = m
      <4>1. owner'[q] = Nobody /\ ~Lags(m, q)
        BY <2>11, <3>1 DEF Close, GoDown, Lags
      <4> QED
        BY <1>f, <2>11, <3>1, <4>1, GivenUp DEF Close
    <3>2. CASE owner[q] # m
      <4>1. committed'[q] = committed[q]
        BY <2>11, <3>2, CommitCatches DEF Close, OrderlyInv, FenceInv, Orderly
      <4>2. owner'[q] = owner[q] /\ \A n \in Members \ {m} : position'[n] = position[n]
        BY <1>0, <2>11, <3>2 DEF Close, GoDown
      <4> QED
        BY <1>0, <1>f, <3>2, <4>1, <4>2 DEF Frontier
    <3> QED
      BY <3>1, <3>2
  <2>12. CASE PollNothing(m)
    BY <1>0, <1>f, <2>12 DEF PollNothing, vars, member, group, dlq, history, Frontier
  <2> QED
    BY <1>1, <2>1, <2>2, <2>3, <2>4, <2>5, <2>6, <2>7, <2>8, <2>9, <2>10, <2>11, <2>12
       DEF Runs
<1>2. ASSUME NEW m \in Members, Trouble(m) PROVE Moves
  <2>1. CASE PollFatal(m)
    BY <1>0, <1>f, <2>1 DEF PollFatal, Polls, member, group, dlq, history, Frontier
  <2>2. CASE Signal(m)
    BY <1>0, <1>f, <2>2 DEF Signal, member, group, dlq, history, Frontier
  <2>3. CASE Crash(m)
    <3>0. GoDown(m) /\ UNCHANGED committed /\ Mode = "atmostonce"
      BY <2>3 DEF Crash, Disrupt, Orderly
    <3>1. CASE owner[q] # m
      <4>1. owner'[q] = owner[q] /\ \A n \in Members \ {m} : position'[n] = position[n]
        BY <1>0, <3>0, <3>1 DEF GoDown
      <4> QED
        BY <1>0, <1>f, <3>0, <3>1, <4>1 DEF Frontier
    <3>2. CASE owner[q] = m
      <4>1. Frontier(q)' = committed[q] /\ Frontier(q) = position[m][q]
        BY <3>0, <3>2, NamesAssumption DEF GoDown, Frontier
      <4>2. position[m][q] = IF Lags(m, q) THEN committed[q] + 1 ELSE committed[q]
        BY <3>0, <3>2 DEF OrderlyInv, CaughtUp, CaughtUpAt, Caught, Unstored
      <4>3. CASE ~Lags(m, q)
        BY <1>f, <4>1, <4>2, <4>3
      <4>4. CASE Lags(m, q)
        <5>1. pc[m] = "commitFirst" /\ current[m][1] = q
          BY <3>0, <4>4 DEF Lags
        <5>2. PICK p \in Partitions, o \in 0 .. N-1 :
                current[m] = <<p, o>> /\ current[m][1] = p /\ position[m][p] = o + 1
          BY <5>1, InHandIsMessage DEF OrderlyInv, FenceInv
        <5>3. p = q
          BY <5>1, <5>2
        <5>4. position[m][q] = o + 1 /\ committed[q] \in Int
          BY <1>0, <5>2, <5>3
        <5>5. committed[q] = o
          BY <4>2, <4>4, <5>4
        <5>6. Frontier(q) - 1 = o
          BY <4>1, <5>4
        <5>7. Frontier(q)' = Frontier(q) - 1 /\ current[m] = <<q, Frontier(q) - 1>>
          BY <4>1, <5>2, <5>3, <5>5, <5>6
        <5> QED
          BY <2>3, <3>2, <5>1, <5>7 DEF FallsBack
      <4> QED
        BY <4>3, <4>4
    <3> QED
      BY <3>1, <3>2
  <2>4. CASE Evict(m)
    BY <2>4 DEF Evict, Disrupt, Orderly, InTurn
  <2>5. ASSUME NEW S \in SUBSET Partitions, Revoked(m, S) PROVE Moves
    <3>0. \A n \in Members \ {m} : position'[n] = position[n]
      BY <1>0, <2>5 DEF Revoked, Unassign
    <3>1. CASE q \in S
      <4>1. q \in held[m] /\ owner[q] = m
        BY <2>5, <3>1 DEF Revoked, HeldIsOwned, OrderlyInv
      <4>2. owner'[q] = Nobody /\ ~Lags(m, q)
        BY <2>5, <3>1 DEF Revoked, Polls, Lags
      <4> QED
        BY <1>f, <2>5, <4>1, <4>2, GivenUp DEF Revoked
    <3>2. CASE q \notin S
      <4>1. owner[q] # m => committed'[q] = committed[q]
        BY <2>5, CommitCatches DEF Revoked, OrderlyInv, FenceInv, Orderly
      <4>2. owner'[q] = owner[q] /\ position'[m][q] = position[m][q]
        BY <1>0, <2>5, <3>2 DEF Revoked, Unassign
      <4> QED
        BY <1>0, <1>f, <3>0, <4>1, <4>2, NamesAssumption DEF Frontier
    <3> QED
      BY <3>1, <3>2
  <2>6. ASSUME NEW msg \in Messages, DlqLost(m, msg) PROVE Moves
    BY <1>0, <1>f, <2>6 DEF DlqLost, member, group, dlq, history, Frontier
  <2> QED
    BY <1>2, <2>1, <2>2, <2>3, <2>4, <2>5, <2>6 DEF Trouble
<1>3. ASSUME NEW m \in Members, NEW S \in SUBSET Partitions, Assigned(m, S) PROVE Moves
  <2>1. committed' = committed
    BY <1>3 DEF Assigned
  <2>2. CASE q \in S
    <3>1. owner[q] = Nobody /\ owner'[q] = m /\ position'[m][q] = committed[q]
      BY <1>0, <1>3, <2>2 DEF Assigned, StartOffset
    <3> QED
      BY <1>f, <3>1, NamesAssumption DEF Frontier
  <2>3. CASE q \notin S
    <3>1. owner'[q] = owner[q] /\ \A n \in Members : position'[n][q] = position[n][q]
      BY <1>0, <1>3, <2>3 DEF Assigned
    <3> QED
      BY <1>0, <1>f, <2>1, <3>1 DEF Frontier
  <2> QED
    BY <2>2, <2>3
<1>4. ASSUME NEW m \in Members, Start(m) PROVE Moves
  BY <1>0, <1>f, <1>4 DEF Start, member, group, dlq, history, Frontier
<1>5. ASSUME NEW m \in Members, BackgroundCommit(m) PROVE Moves
  <2>1. owner[q] = Nobody => committed'[q] = committed[q]
    <3>1. Mode # "atmostonce"
      BY <1>5, ModeAssumption DEF BackgroundCommit, ModeAllowed
    <3> QED
      BY <1>5, <3>1, CommitCatches, NamesAssumption DEF BackgroundCommit,
         OrderlyInv, FenceInv, Orderly
  <2>2. UNCHANGED <<owner, position>>
    BY <1>5 DEF BackgroundCommit, member
  <2> QED
    BY <1>f, <2>1, <2>2 DEF Frontier
<1>6. ASSUME NEW m \in Members, NEW msg \in Messages, DlqDelivered(m, msg) PROVE Moves
  BY <1>0, <1>f, <1>6 DEF DlqDelivered, member, group, dlq, history, Frontier
<1>7. CASE UNCHANGED vars
  BY <1>0, <1>f, <1>7 DEF vars, member, group, dlq, history, Frontier
<1> QED
  BY <1>1, <1>2, <1>3, <1>4, <1>5, <1>6, <1>7 DEF Next, Joins

(***************************************************************************)
(* No message is tried twice.                                              *)
(***************************************************************************)
TriedIsBelow ==
  \A p \in Partitions, o \in 0 .. N-1 : attempts[<<p, o>>] > 0 => o < Frontier(p)

NewIsUntried ==
  \A m \in Members : pc[m] \in {"commitFirst", "process"} => attempts[current[m]] = 0

OnceInv == OrderlyInv /\ TriedIsBelow /\ NewIsUntried /\ HandledOnce

LEMMA AttemptedCounts ==
  ASSUME TypeOK, InHand, NEW m \in Members, pc[m] = "process", Attempted(m)
  PROVE  /\ current[m] \in Messages
         /\ \A msg \in Messages : attempts'[msg] # attempts[msg] =>
              msg = current[m] /\ attempts'[msg] = attempts[msg] + 1
<1>1. PICK msg \in Messages : current[m] = msg
  BY InHandIsMessage
<1>2. attempts \in [Messages -> 0 .. AttemptCap]
  BY DEF TypeOK
<1> DEFINE k == IF attempts[msg] < AttemptCap THEN attempts[msg] + 1 ELSE attempts[msg]
<1>3. attempts' = [attempts EXCEPT ![msg] = k]
  BY <1>1 DEF Attempted
<1>4. k = attempts[msg] \/ k = attempts[msg] + 1
  OBVIOUS
<1> HIDE DEF k
<1> QED
  BY <1>1, <1>2, <1>3, <1>4

LEMMA SeparateHands ==
  ASSUME OrderlyInv, NEW m \in Members, NEW n \in Members, m # n,
         pc[m] \in {"commitFirst", "process"}, pc[n] \in {"commitFirst", "process"}
  PROVE  current[m] # current[n]
<1>1. /\ current[m][1] \in held[m] /\ current[n][1] \in held[n]
  BY DEF OrderlyInv, FenceInv, InHand
<1>2. owner[current[m][1]] = m /\ owner[current[n][1]] = n
  BY <1>1 DEF OrderlyInv, HeldIsOwned
<1> QED
  BY <1>2

LEMMA AttemptsMove ==
  ASSUME TypeOK, InHand, [Next]_vars
  PROVE  attempts' = attempts \/ \E m \in Members : pc[m] = "process" /\ Attempted(m)
<1> DEFINE Tries == attempts' = attempts \/ \E m \in Members : pc[m] = "process" /\ Attempted(m)
<1> SUFFICES Tries
  OBVIOUS
<1>1. ASSUME NEW m \in Members, Runs(m) PROVE Tries
  <2>1. CASE ExitLoop(m)
    BY <2>1 DEF ExitLoop, member, group, dlq, history
  <2>2. ASSUME NEW p \in Partitions, PollMessage(m, p) PROVE Tries
    BY <2>2 DEF PollMessage, Polls, member, group, dlq, history
  <2>3. ASSUME NEW p \in Partitions, PollEOF(m, p) PROVE Tries
    BY <2>3 DEF PollEOF, Polls, member, group, dlq, history
  <2>4. CASE CommitFirst(m)
    BY <2>4 DEF CommitFirst, member, group, dlq, history
  <2>5. CASE ProcessOk(m)
    BY <2>5 DEF ProcessOk
  <2>6. CASE ProcessFail(m)
    BY <2>6 DEF ProcessFail
  <2>7. CASE StoreOffset(m)
    BY <2>7 DEF StoreOffset, StoreMessage, member, group, dlq, history
  <2>8. CASE RevokedLost(m)
    BY <2>8 DEF RevokedLost, Unassign, Polls, member, group, dlq, history
  <2>9. CASE FinalCommit(m)
    BY <2>9 DEF FinalCommit, CommitBeforeLeaving, Commit, member, group, dlq, history
  <2>10. CASE Flush(m)
    BY <2>10 DEF Flush, member, group, dlq, history
  <2>11. CASE Close(m)
    BY <2>11 DEF Close, CommitBeforeLeaving, Commit, GoDown, Zero, member, group, dlq,
       history
  <2>12. CASE PollNothing(m)
    BY <2>12 DEF PollNothing, vars, member, group, dlq, history
  <2> QED
    BY <1>1, <2>1, <2>2, <2>3, <2>4, <2>5, <2>6, <2>7, <2>8, <2>9, <2>10, <2>11, <2>12
       DEF Runs
<1>2. ASSUME NEW m \in Members, Trouble(m) PROVE Tries
  <2>1. CASE PollFatal(m)
    BY <2>1 DEF PollFatal, Polls, member, group, dlq, history
  <2>2. CASE Signal(m)
    BY <2>2 DEF Signal, member, group, dlq, history
  <2>3. CASE Crash(m)
    BY <2>3 DEF Crash, GoDown, Zero, member, group, dlq, history
  <2>4. CASE Evict(m)
    BY <2>4 DEF Evict, member, group, dlq, history
  <2>5. ASSUME NEW S \in SUBSET Partitions, Revoked(m, S) PROVE Tries
    BY <2>5 DEF Revoked, Unassign, CommitBeforeLeaving, Commit, Polls, member, group,
       dlq, history
  <2>6. ASSUME NEW msg \in Messages, DlqLost(m, msg) PROVE Tries
    BY <2>6 DEF DlqLost, member, group, dlq, history
  <2> QED
    BY <1>2, <2>1, <2>2, <2>3, <2>4, <2>5, <2>6 DEF Trouble
<1>3. ASSUME NEW m \in Members, NEW S \in SUBSET Partitions, Assigned(m, S) PROVE Tries
  BY <1>3 DEF Assigned, StartOffset, Polls, member, group, dlq, history
<1>4. ASSUME NEW m \in Members, Start(m) PROVE Tries
  BY <1>4 DEF Start, member, group, dlq, history
<1>5. ASSUME NEW m \in Members, BackgroundCommit(m) PROVE Tries
  BY <1>5 DEF BackgroundCommit, Commit, member, group, dlq, history
<1>6. ASSUME NEW m \in Members, NEW msg \in Messages, DlqDelivered(m, msg) PROVE Tries
  BY <1>6 DEF DlqDelivered, member, group, dlq, history
<1>7. CASE UNCHANGED vars
  BY <1>7 DEF vars, member, group, dlq, history
<1> QED
  BY <1>1, <1>2, <1>3, <1>4, <1>5, <1>6, <1>7 DEF Next, Joins

LEMMA NewIsUntriedStep ==
  ASSUME Orderly, OnceInv, [Next]_vars
  PROVE  NewIsUntried'
<1> DEFINE Untried(n) == pc[n] \in {"commitFirst", "process"} => attempts[current[n]] = 0
<1> SUFFICES ASSUME NEW n \in Members PROVE Untried(n)'
  BY DEF NewIsUntried
<1>0. /\ pc \in [Members -> Locations]
      /\ held \in [Members -> SUBSET Partitions]
      /\ position \in [Members -> [Partitions -> 0 .. N]]
      /\ stored \in [Members -> [Partitions -> 0 .. N]]
      /\ current \in [Members -> Messages \union {NoMessage}]
      /\ owner \in [Partitions -> Members \union {Nobody}]
      /\ committed \in [Partitions -> 0 .. N]
      /\ attempts \in [Messages -> 0 .. AttemptCap]
  BY DEF OnceInv, OrderlyInv, FenceInv, TypeOK
<1>a. Untried(n)
  BY DEF OnceInv, NewIsUntried
<1>b. ASSUME NEW m \in Members, pc[m] = "process", Attempted(m) PROVE Untried(n)'
  <2>1. CASE n = m
    BY <1>0, <1>b, <2>1 DEF Attempted
  <2>2. CASE n # m
    <3>1. pc'[n] = pc[n] /\ current'[n] = current[n]
      BY <1>0, <1>b, <2>2 DEF Attempted
    <3>2. CASE pc[n] \in {"commitFirst", "process"}
      <4>1. current[m] # current[n]
        BY <1>b, <2>2, <3>2, SeparateHands DEF OnceInv
      <4>2. current[n] \in Messages
        BY <3>2 DEF OnceInv, OrderlyInv, FenceInv, InHand
      <4>3. attempts'[current[n]] = attempts[current[n]]
        BY <1>b, <4>1, <4>2, AttemptedCounts DEF OnceInv, OrderlyInv, FenceInv
      <4> QED
        BY <1>a, <3>1, <4>3
    <3> QED
      BY <3>1, <3>2
  <2> QED
    BY <2>1, <2>2
<1>1. ASSUME NEW m \in Members, Runs(m) PROVE Untried(n)'
  <2>1. CASE ExitLoop(m)
    BY <1>0, <1>a, <2>1 DEF ExitLoop, member, group, dlq, history
  <2>2. ASSUME NEW p \in Partitions, PollMessage(m, p) PROVE Untried(n)'
    <3>1. attempts' = attempts
      BY <2>2 DEF PollMessage, history
    <3>2. CASE n # m
      BY <1>0, <1>a, <2>2, <3>1, <3>2 DEF PollMessage
    <3>3. CASE n = m
      <4>1. current'[m] = <<p, position[m][p]>> /\ position[m][p] \in 0 .. N-1
        BY <1>0, <2>2 DEF PollMessage
      <4>2. owner[p] = m /\ m # Nobody
        BY <2>2, NamesAssumption DEF PollMessage, OnceInv, OrderlyInv, HeldIsOwned
      <4>3. ~(position[m][p] < Frontier(p))
        BY <1>0, <4>1, <4>2 DEF Frontier
      <4>4. attempts[<<p, position[m][p]>>] \in 0 .. AttemptCap
        <5>1. <<p, position[m][p]>> \in Messages
          BY <4>1 DEF Messages
        <5> QED
          BY <1>0, <5>1
      <4>5. ~(attempts[<<p, position[m][p]>>] > 0)
        BY <4>1, <4>3 DEF OnceInv, TriedIsBelow
      <4>6. attempts[<<p, position[m][p]>>] = 0
        BY <4>4, <4>5 DEF AttemptCap
      <4> QED
        BY <3>1, <3>3, <4>1, <4>6
    <3> QED
      BY <3>2, <3>3
  <2>3. ASSUME NEW p \in Partitions, PollEOF(m, p) PROVE Untried(n)'
    BY <1>0, <1>a, <2>3 DEF PollEOF, Polls, member, group, dlq, history
  <2>4. CASE CommitFirst(m)
    BY <1>0, <1>a, <2>4 DEF CommitFirst, member, group, dlq, history
  <2>5. CASE ProcessOk(m)
    BY <2>5, <1>b DEF ProcessOk
  <2>6. CASE ProcessFail(m)
    BY <2>6, <1>b DEF ProcessFail
  <2>7. CASE StoreOffset(m)
    BY <1>0, <1>a, <2>7 DEF StoreOffset, StoreMessage, member, group, dlq, history
  <2>8. CASE RevokedLost(m)
    BY <1>0, <1>a, <2>8 DEF RevokedLost, Unassign, Polls, member, group, dlq, history
  <2>9. CASE FinalCommit(m)
    BY <1>0, <1>a, <2>9 DEF FinalCommit, CommitBeforeLeaving, Commit, member, group,
       dlq, history
  <2>10. CASE Flush(m)
    BY <1>0, <1>a, <2>10 DEF Flush, member, group, dlq, history
  <2>11. CASE Close(m)
    BY <1>0, <1>a, <2>11 DEF Close, CommitBeforeLeaving, Commit, GoDown, Zero, member,
       group, dlq, history
  <2>12. CASE PollNothing(m)
    BY <1>0, <1>a, <2>12 DEF PollNothing, vars, member, group, dlq, history
  <2> QED
    BY <1>1, <2>1, <2>2, <2>3, <2>4, <2>5, <2>6, <2>7, <2>8, <2>9, <2>10, <2>11, <2>12
       DEF Runs
<1>2. ASSUME NEW m \in Members, Trouble(m) PROVE Untried(n)'
  <2>1. CASE PollFatal(m)
    BY <1>0, <1>a, <2>1 DEF PollFatal, Polls, member, group, dlq, history
  <2>2. CASE Signal(m)
    BY <1>0, <1>a, <2>2 DEF Signal, member, group, dlq, history
  <2>3. CASE Crash(m)
    BY <1>0, <1>a, <2>3 DEF Crash, GoDown, Zero, member, group, dlq, history
  <2>4. CASE Evict(m)
    BY <1>0, <1>a, <2>4 DEF Evict, member, group, dlq, history
  <2>5. ASSUME NEW S \in SUBSET Partitions, Revoked(m, S) PROVE Untried(n)'
    BY <1>0, <1>a, <2>5 DEF Revoked, Unassign, CommitBeforeLeaving, Commit, Polls,
       member, group, dlq, history
  <2>6. ASSUME NEW msg \in Messages, DlqLost(m, msg) PROVE Untried(n)'
    BY <1>0, <1>a, <2>6 DEF DlqLost, member, group, dlq, history
  <2> QED
    BY <1>2, <2>1, <2>2, <2>3, <2>4, <2>5, <2>6 DEF Trouble
<1>3. ASSUME NEW m \in Members, NEW S \in SUBSET Partitions, Assigned(m, S)
      PROVE  Untried(n)'
  BY <1>0, <1>a, <1>3 DEF Assigned, StartOffset, Polls, member, group, dlq, history
<1>4. ASSUME NEW m \in Members, Start(m) PROVE Untried(n)'
  BY <1>0, <1>a, <1>4 DEF Start, member, group, dlq, history
<1>5. ASSUME NEW m \in Members, BackgroundCommit(m) PROVE Untried(n)'
  BY <1>0, <1>a, <1>5 DEF BackgroundCommit, Commit, member, group, dlq, history
<1>6. ASSUME NEW m \in Members, NEW msg \in Messages, DlqDelivered(m, msg)
      PROVE  Untried(n)'
  BY <1>0, <1>a, <1>6 DEF DlqDelivered, member, group, dlq, history
<1>7. CASE UNCHANGED vars
  BY <1>0, <1>a, <1>7 DEF vars, member, group, dlq, history
<1> QED
  BY <1>1, <1>2, <1>3, <1>4, <1>5, <1>6, <1>7 DEF Next, Joins

LEMMA TriedIsBelowStep ==
  ASSUME Orderly, OnceInv, [Next]_vars
  PROVE  TriedIsBelow' /\ HandledOnce'
<1> USE DEF OnceInv
<1>1. /\ attempts \in [Messages -> 0 .. AttemptCap]
      /\ position \in [Members -> [Partitions -> 0 .. N]]
  BY DEF OrderlyInv, FenceInv, TypeOK
<1>2. CASE attempts' = attempts
  <2>1. HandledOnce'
    BY <1>2 DEF HandledOnce, AttemptCap
  <2>2. ASSUME NEW p \in Partitions, NEW o \in 0 .. N-1, attempts'[<<p, o>>] > 0
        PROVE  o < Frontier(p)'
    <3>1. o < Frontier(p) /\ Frontier(p) \in Int
      BY <1>2, <2>2, FrontierType DEF TriedIsBelow, OrderlyInv, FenceInv
    <3>2. CASE Frontier(p) <= Frontier(p)'
      <4>1. Frontier(p)' \in Int
        <5>1. TypeOK'
          BY TypeStep DEF OrderlyInv, FenceInv
        <5> QED
          BY <5>1 DEF TypeOK, Frontier
      <4> QED
        BY <3>1, <3>2, <4>1
    <3>3. ASSUME NEW m \in Members, FallsBack(m, p) PROVE o < Frontier(p)'
      <4>1. attempts[<<p, Frontier(p) - 1>>] = 0
        BY <3>3 DEF FallsBack, NewIsUntried
      <4>2. o # Frontier(p) - 1
        BY <1>2, <2>2, <4>1
      <4> QED
        BY <3>1, <3>3, <4>2 DEF FallsBack
    <3> QED
      BY <3>2, <3>3, FrontierMoves
  <2> QED
    BY <2>1, <2>2 DEF TriedIsBelow
<1>3. CASE attempts' # attempts
  <2>1. PICK m \in Members : pc[m] = "process" /\ Attempted(m)
    BY <1>3, AttemptsMove DEF OrderlyInv, FenceInv
  <2>2. /\ current[m] \in Messages
        /\ \A msg \in Messages : attempts'[msg] # attempts[msg] =>
             msg = current[m] /\ attempts'[msg] = attempts[msg] + 1
    BY <2>1, AttemptedCounts DEF OrderlyInv, FenceInv
  <2>3. attempts[current[m]] = 0
    BY <2>1 DEF NewIsUntried
  <2>4. HandledOnce'
    BY <1>1, <2>2, <2>3 DEF HandledOnce, AttemptCap
  <2>5. ASSUME NEW p \in Partitions, NEW o \in 0 .. N-1, attempts'[<<p, o>>] > 0
        PROVE  o < Frontier(p)'
    <3>1. Frontier(p) <= Frontier(p)'
      <4>1. ASSUME NEW n \in Members PROVE ~FallsBack(n, p)
        BY <1>3 DEF FallsBack, Crash, GoDown, history
      <4> QED
        BY <4>1, FrontierMoves
    <3>2. Frontier(p) \in Int /\ Frontier(p)' \in Int
      <4>1. TypeOK /\ TypeOK'
        BY TypeStep DEF OrderlyInv, FenceInv
      <4> QED
        BY <4>1 DEF TypeOK, Frontier
    <3>3. CASE attempts'[<<p, o>>] = attempts[<<p, o>>]
      BY <2>5, <3>1, <3>2, <3>3 DEF TriedIsBelow
    <3>4. CASE attempts'[<<p, o>>] # attempts[<<p, o>>]
      <4>1. <<p, o>> \in Messages
        BY DEF Messages
      <4>2. current[m] = <<p, o>>
        BY <2>2, <3>4, <4>1
      <4>3. owner[p] = m /\ position[m][p] = o + 1
        BY <2>1, <4>2 DEF OrderlyInv, FenceInv, InHand, HeldIsOwned
      <4>4. Frontier(p) = o + 1
        BY <4>3, NamesAssumption DEF Frontier
      <4> QED
        BY <3>1, <3>2, <4>4
    <3> QED
      BY <3>3, <3>4
  <2> QED
    BY <2>4, <2>5 DEF TriedIsBelow
<1> QED
  BY <1>2, <1>3

LEMMA OrderlyInitStep ==
  ASSUME InTurn
  PROVE  /\ Init => OrderlyInv
         /\ OrderlyInv /\ [Next]_vars => OrderlyInv'
<1>1. Init => HeldIsOwned
  BY DEF Init, HeldIsOwned
<1>2. Init => StoresByHand
  BY DEF Init, StoresByHand
<1>3. Init => CaughtUp
  BY NamesAssumption DEF Init, CaughtUp, CaughtUpAt
<1>4. ASSUME OrderlyInv, [Next]_vars PROVE OrderlyInv'
  <2>1. HeldIsOwned'
    BY <1>4, HeldIsOwnedStep DEF OrderlyInv, FenceInv
  <2>2. CaughtUp'
    BY <1>4, CaughtUpStep DEF OrderlyInv, FenceInv
  <2>3. FenceInv'
    BY <1>4, FenceStep DEF OrderlyInv
  <2>4. StoresByHand'
    BY <1>4, StoresByHandStep DEF OrderlyInv, FenceInv
  <2> QED
    BY <2>1, <2>2, <2>3, <2>4 DEF OrderlyInv
<1> QED
  BY <1>1, <1>2, <1>3, <1>4, FenceInit DEF OrderlyInv

\* While partitions change hands by onRevoked and shutdown only, with their commits
\* (main.go:653-667, 711-719), no message is processed twice, whichever member gets
\* the partition next; in at-most-once mode not after a crash either (main.go:436-446).
THEOREM HandedOverOnce == Orderly /\ Spec => []HandledOnce
<1> SUFFICES ASSUME Orderly PROVE Spec => []HandledOnce
  OBVIOUS
<1>1. Init => OnceInv
  <2>1. Init => TriedIsBelow /\ NewIsUntried /\ HandledOnce
    BY DEF Init, TriedIsBelow, NewIsUntried, HandledOnce, Messages, AttemptCap
  <2> QED
    BY <2>1, OrderlyInitStep DEF OnceInv, Orderly
<1>2. OnceInv /\ [Next]_vars => OnceInv'
  <2> SUFFICES ASSUME OnceInv, [Next]_vars PROVE OnceInv'
    OBVIOUS
  <2>1. OrderlyInv'
    BY OrderlyInitStep DEF OnceInv, Orderly
  <2> QED
    BY <2>1, TriedIsBelowStep, NewIsUntriedStep DEF OnceInv
<1>3. OnceInv => HandledOnce
  BY DEF OnceInv
<1> QED
  BY <1>1, <1>2, <1>3, PTL DEF Spec

(***************************************************************************)
(* The exit on EOF.                                                        *)
(***************************************************************************)
\* Whoever has seen the end of a partition still stands there, or has committed it.
SeenAtEnd ==
  \A m \in Members : \A p \in eofSeen[m] \intersect Partitions :
    committed[p] = N \/ (owner[p] = m /\ position[m][p] = N)

EofInv == OrderlyInv /\ SeenAtEnd

LEMMA EofSeenMoves ==
  ASSUME TypeOK, NEW n \in Members, [Next]_vars
  PROVE  eofSeen'[n] \subseteq eofSeen[n] \/ \E p \in Partitions : PollEOF(n, p)
<1> DEFINE Sees == eofSeen'[n] \subseteq eofSeen[n] \/ \E p \in Partitions : PollEOF(n, p)
<1> SUFFICES Sees
  OBVIOUS
<1>0. eofSeen \in [Members -> SUBSET Partitions]
  BY DEF TypeOK
<1>1. ASSUME NEW m \in Members, Runs(m) PROVE Sees
  <2>1. CASE ExitLoop(m)
    BY <1>0, <2>1 DEF ExitLoop, member, group, dlq, history
  <2>2. ASSUME NEW p \in Partitions, PollMessage(m, p) PROVE Sees
    BY <1>0, <2>2 DEF PollMessage, Polls, member, group, dlq, history
  <2>3. ASSUME NEW p \in Partitions, PollEOF(m, p) PROVE Sees
    BY <1>0, <2>3 DEF PollEOF, Polls, member, group, dlq, history
  <2>4. CASE CommitFirst(m)
    BY <1>0, <2>4 DEF CommitFirst, member, group, dlq, history
  <2>5. CASE ProcessOk(m)
    BY <1>0, <2>5 DEF ProcessOk, Attempted, member, group, dlq, history
  <2>6. CASE ProcessFail(m)
    BY <1>0, <2>6 DEF ProcessFail, Attempted, member, group, dlq, history
  <2>7. CASE StoreOffset(m)
    BY <1>0, <2>7 DEF StoreOffset, StoreMessage, member, group, dlq, history
  <2>8. CASE RevokedLost(m)
    BY <1>0, <2>8 DEF RevokedLost, Unassign, Polls, member, group, dlq, history
  <2>9. CASE FinalCommit(m)
    BY <1>0, <2>9 DEF FinalCommit, CommitBeforeLeaving, Commit, member, group, dlq,
       history
  <2>10. CASE Flush(m)
    BY <1>0, <2>10 DEF Flush, member, group, dlq, history
  <2>11. CASE Close(m)
    BY <1>0, <2>11 DEF Close, CommitBeforeLeaving, Commit, GoDown, Zero, member, group,
       dlq, history
  <2>12. CASE PollNothing(m)
    BY <1>0, <2>12 DEF PollNothing, vars, member, group, dlq, history
  <2> QED
    BY <1>1, <2>1, <2>2, <2>3, <2>4, <2>5, <2>6, <2>7, <2>8, <2>9, <2>10, <2>11, <2>12
       DEF Runs
<1>2. ASSUME NEW m \in Members, Trouble(m) PROVE Sees
  <2>1. CASE PollFatal(m)
    BY <1>0, <2>1 DEF PollFatal, Polls, member, group, dlq, history
  <2>2. CASE Signal(m)
    BY <1>0, <2>2 DEF Signal, member, group, dlq, history
  <2>3. CASE Crash(m)
    BY <1>0, <2>3 DEF Crash, GoDown, Zero, member, group, dlq, history
  <2>4. CASE Evict(m)
    BY <1>0, <2>4 DEF Evict, member, group, dlq, history
  <2>5. ASSUME NEW S \in SUBSET Partitions, Revoked(m, S) PROVE Sees
    BY <1>0, <2>5 DEF Revoked, Unassign, CommitBeforeLeaving, Commit, Polls, member,
       group, dlq, history
  <2>6. ASSUME NEW msg \in Messages, DlqLost(m, msg) PROVE Sees
    BY <1>0, <2>6 DEF DlqLost, member, group, dlq, history
  <2> QED
    BY <1>2, <2>1, <2>2, <2>3, <2>4, <2>5, <2>6 DEF Trouble
<1>3. ASSUME NEW m \in Members, NEW S \in SUBSET Partitions, Assigned(m, S) PROVE Sees
  BY <1>0, <1>3 DEF Assigned, StartOffset, Polls, member, group, dlq, history
<1>4. ASSUME NEW m \in Members, Start(m) PROVE Sees
  BY <1>0, <1>4 DEF Start, member, group, dlq, history
<1>5. ASSUME NEW m \in Members, BackgroundCommit(m) PROVE Sees
  BY <1>0, <1>5 DEF BackgroundCommit, Commit, member, group, dlq, history
<1>6. ASSUME NEW m \in Members, NEW msg \in Messages, DlqDelivered(m, msg) PROVE Sees
  BY <1>0, <1>6 DEF DlqDelivered, member, group, dlq, history
<1>7. CASE UNCHANGED vars
  BY <1>0, <1>7 DEF vars, member, group, dlq, history
<1> QED
  BY <1>1, <1>2, <1>3, <1>4, <1>5, <1>6, <1>7 DEF Next, Joins

\* A member at the end of its partition commits that when it hands the partition over,
\* or is gone.
LEMMA EndKept ==
  ASSUME InTurn, OrderlyInv, NEW n \in Members, NEW p \in Partitions,
         owner[p] = n, position[n][p] = N, [Next]_vars
  PROVE  committed'[p] = N \/ (owner'[p] = n /\ position'[n][p] = N) \/ eofSeen'[n] = {}
<1> DEFINE Kept == committed'[p] = N \/ (owner'[p] = n /\ position'[n][p] = N) \/ eofSeen'[n] = {}
<1> SUFFICES Kept
  OBVIOUS
<1>0. /\ held \in [Members -> SUBSET Partitions]
      /\ position \in [Members -> [Partitions -> 0 .. N]]
      /\ eofSeen \in [Members -> SUBSET Partitions]
      /\ owner \in [Partitions -> Members \union {Nobody}]
  BY DEF OrderlyInv, FenceInv, TypeOK
<1>a. owner[p] = n /\ position[n][p] = N
  OBVIOUS
<1>1. ASSUME NEW m \in Members, Runs(m) PROVE Kept
  <2>1. CASE ExitLoop(m)
    BY <1>0, <1>a, <2>1 DEF ExitLoop, member, group, dlq, history
  <2>2. ASSUME NEW q \in Partitions, PollMessage(m, q) PROVE Kept
    BY <1>0, <1>a, <2>2 DEF PollMessage, group
  <2>3. ASSUME NEW q \in Partitions, PollEOF(m, q) PROVE Kept
    BY <1>0, <1>a, <2>3 DEF PollEOF, Polls, member, group, dlq, history
  <2>4. CASE CommitFirst(m)
    BY <1>0, <1>a, <2>4 DEF CommitFirst, member, group, dlq, history
  <2>5. CASE ProcessOk(m)
    BY <1>0, <1>a, <2>5 DEF ProcessOk, Attempted, member, group, dlq, history
  <2>6. CASE ProcessFail(m)
    BY <1>0, <1>a, <2>6 DEF ProcessFail, Attempted, member, group, dlq, history
  <2>7. CASE StoreOffset(m)
    BY <1>0, <1>a, <2>7 DEF StoreOffset, StoreMessage, member, group, dlq, history
  <2>8. CASE RevokedLost(m)
    BY <2>8 DEF RevokedLost, AssignmentLost, OrderlyInv, HeldIsOwned
  <2>9. CASE FinalCommit(m)
    BY <1>0, <1>a, <2>9 DEF FinalCommit, CommitBeforeLeaving, Commit, member, group, dlq,
       history
  <2>10. CASE Flush(m)
    BY <1>0, <1>a, <2>10 DEF Flush, member, group, dlq, history
  <2>11. CASE Close(m)
    BY <1>0, <1>a, <2>11 DEF Close, GoDown
  <2>12. CASE PollNothing(m)
    BY <1>0, <1>a, <2>12 DEF PollNothing, vars, member, group, dlq, history
  <2> QED
    BY <1>1, <2>1, <2>2, <2>3, <2>4, <2>5, <2>6, <2>7, <2>8, <2>9, <2>10, <2>11, <2>12
       DEF Runs
<1>2. ASSUME NEW m \in Members, Trouble(m) PROVE Kept
  <2>1. CASE PollFatal(m)
    BY <1>0, <1>a, <2>1 DEF PollFatal, Polls, member, group, dlq, history
  <2>2. CASE Signal(m)
    BY <1>0, <1>a, <2>2 DEF Signal, member, group, dlq, history
  <2>3. CASE Crash(m)
    BY <1>0, <1>a, <2>3 DEF Crash, GoDown
  <2>4. CASE Evict(m)
    BY <2>4 DEF Evict, Disrupt, InTurn
  <2>5. ASSUME NEW S \in SUBSET Partitions, Revoked(m, S) PROVE Kept
    <3>1. CASE p \in S /\ m = n
      <4>1. committed'[p] = Caught(n, p)
        BY <1>a, <2>5, <3>1, CommitCatches DEF Revoked, OrderlyInv, FenceInv
      <4>2. ~Lags(n, p) /\ ~Unstored(n)
        BY <2>5, <3>1 DEF Revoked, Polls, Lags, Unstored
      <4> QED
        BY <1>a, <4>1, <4>2 DEF OrderlyInv, CaughtUp, CaughtUpAt
    <3>2. CASE m # n
      <4>1. p \notin S
        BY <1>a, <2>5, <3>2 DEF Revoked, OrderlyInv, HeldIsOwned
      <4> QED
        BY <1>0, <1>a, <2>5, <3>2, <4>1 DEF Revoked, Unassign
    <3>3. CASE p \notin S
      BY <1>0, <1>a, <2>5, <3>3 DEF Revoked, Unassign
    <3> QED
      BY <3>1, <3>2, <3>3
  <2>6. ASSUME NEW msg \in Messages, DlqLost(m, msg) PROVE Kept
    BY <1>0, <1>a, <2>6 DEF DlqLost, member, group, dlq, history
  <2> QED
    BY <1>2, <2>1, <2>2, <2>3, <2>4, <2>5, <2>6 DEF Trouble
<1>3. ASSUME NEW m \in Members, NEW S \in SUBSET Partitions, Assigned(m, S) PROVE Kept
  BY <1>0, <1>a, <1>3, NamesAssumption DEF Assigned
<1>4. ASSUME NEW m \in Members, Start(m) PROVE Kept
  BY <1>0, <1>a, <1>4 DEF Start, member, group, dlq, history
<1>5. ASSUME NEW m \in Members, BackgroundCommit(m) PROVE Kept
  BY <1>0, <1>a, <1>5 DEF BackgroundCommit, Commit, member, group, dlq, history
<1>6. ASSUME NEW m \in Members, NEW msg \in Messages, DlqDelivered(m, msg) PROVE Kept
  BY <1>0, <1>a, <1>6 DEF DlqDelivered, member, group, dlq, history
<1>7. CASE UNCHANGED vars
  BY <1>0, <1>a, <1>7 DEF vars, member, group, dlq, history
<1> QED
  BY <1>1, <1>2, <1>3, <1>4, <1>5, <1>6, <1>7 DEF Next, Joins

LEMMA SeenAtEndStep ==
  ASSUME InTurn, EofInv, [Next]_vars
  PROVE  SeenAtEnd'
<1> USE DEF EofInv
<1> SUFFICES ASSUME NEW n \in Members, NEW p \in Partitions, p \in eofSeen'[n]
             PROVE  committed'[p] = N \/ (owner'[p] = n /\ position'[n][p] = N)
  BY DEF SeenAtEnd
<1>1. CASE committed[p] = N
  <2>1. committed'[p] >= committed[p]
    BY MonotoneStep DEF OrderlyInv
  <2>2. committed'[p] \in 0 .. N
    <3>1. TypeOK'
      BY TypeStep DEF OrderlyInv, FenceInv
    <3> QED
      BY <3>1 DEF TypeOK
  <2> QED
    BY <1>1, <2>1, <2>2
<1>2. CASE owner[p] = n /\ position[n][p] = N
  BY <1>2, EndKept
<1>3. CASE p \notin eofSeen[n]
  <2>1. PICK q \in Partitions : PollEOF(n, q)
    BY <1>3, EofSeenMoves DEF OrderlyInv, FenceInv
  <2>2. eofSeen'[n] = eofSeen[n] \union {q}
    BY <2>1 DEF PollEOF, OrderlyInv, FenceInv, TypeOK
  <2>3. p = q /\ position[n][p] = N /\ owner[p] = n
    BY <1>3, <2>1, <2>2 DEF PollEOF, OrderlyInv, HeldIsOwned
  <2> QED
    BY <2>3, EndKept
<1> QED
  BY <1>1, <1>2, <1>3 DEF SeenAtEnd

LEMMA LoopLeft ==
  ASSUME NEW n \in Members, pc[n] = "loop", ~LoopEnds(n), pc'[n] = "finalCommit",
        TypeOK, [Next]_vars
  PROVE  (\E p \in Partitions : PollEOF(n, p)) \/ PollFatal(n)
<1> DEFINE Left == (\E p \in Partitions : PollEOF(n, p)) \/ PollFatal(n)
<1> SUFFICES Left
  OBVIOUS
<1>0. pc \in [Members -> Locations]
  BY DEF TypeOK
<1>1. ASSUME NEW m \in Members, Runs(m) PROVE Left
  <2>1. CASE ExitLoop(m)
    BY <1>0, <2>1 DEF ExitLoop, member, group, dlq, history
  <2>2. ASSUME NEW p \in Partitions, PollMessage(m, p) PROVE Left
    BY <1>0, <2>2 DEF PollMessage, Polls, AfterPoll
  <2>3. ASSUME NEW p \in Partitions, PollEOF(m, p) PROVE Left
    BY <1>0, <2>3 DEF PollEOF, Polls, member, group, dlq, history
  <2>4. CASE CommitFirst(m)
    BY <1>0, <2>4 DEF CommitFirst, member, group, dlq, history
  <2>5. CASE ProcessOk(m)
    BY <1>0, <2>5 DEF ProcessOk, Attempted, member, group, dlq, history
  <2>6. CASE ProcessFail(m)
    BY <1>0, <2>6 DEF ProcessFail, Attempted, member, group, dlq, history
  <2>7. CASE StoreOffset(m)
    BY <1>0, <2>7 DEF StoreOffset, StoreMessage, member, group, dlq, history
  <2>8. CASE RevokedLost(m)
    BY <1>0, <2>8 DEF RevokedLost, Unassign, Polls, member, group, dlq, history
  <2>9. CASE FinalCommit(m)
    BY <1>0, <2>9 DEF FinalCommit, CommitBeforeLeaving, Commit, member, group, dlq,
       history
  <2>10. CASE Flush(m)
    BY <1>0, <2>10 DEF Flush, member, group, dlq, history
  <2>11. CASE Close(m)
    BY <1>0, <2>11 DEF Close, CommitBeforeLeaving, Commit, GoDown, Zero, member, group,
       dlq, history
  <2>12. CASE PollNothing(m)
    BY <1>0, <2>12 DEF PollNothing, vars, member, group, dlq, history
  <2> QED
    BY <1>1, <2>1, <2>2, <2>3, <2>4, <2>5, <2>6, <2>7, <2>8, <2>9, <2>10, <2>11, <2>12
       DEF Runs
<1>2. ASSUME NEW m \in Members, Trouble(m) PROVE Left
  <2>1. CASE PollFatal(m)
    BY <1>0, <2>1 DEF PollFatal, Polls, member, group, dlq, history
  <2>2. CASE Signal(m)
    BY <1>0, <2>2 DEF Signal, member, group, dlq, history
  <2>3. CASE Crash(m)
    BY <1>0, <2>3 DEF Crash, GoDown, Zero, member, group, dlq, history
  <2>4. CASE Evict(m)
    BY <1>0, <2>4 DEF Evict, member, group, dlq, history
  <2>5. ASSUME NEW S \in SUBSET Partitions, Revoked(m, S) PROVE Left
    BY <1>0, <2>5 DEF Revoked, Unassign, CommitBeforeLeaving, Commit, Polls, member,
       group, dlq, history
  <2>6. ASSUME NEW msg \in Messages, DlqLost(m, msg) PROVE Left
    BY <1>0, <2>6 DEF DlqLost, member, group, dlq, history
  <2> QED
    BY <1>2, <2>1, <2>2, <2>3, <2>4, <2>5, <2>6 DEF Trouble
<1>3. ASSUME NEW m \in Members, NEW S \in SUBSET Partitions, Assigned(m, S) PROVE Left
  BY <1>0, <1>3 DEF Assigned, StartOffset, Polls, member, group, dlq, history
<1>4. ASSUME NEW m \in Members, Start(m) PROVE Left
  BY <1>0, <1>4 DEF Start, member, group, dlq, history
<1>5. ASSUME NEW m \in Members, BackgroundCommit(m) PROVE Left
  BY <1>0, <1>5 DEF BackgroundCommit, Commit, member, group, dlq, history
<1>6. ASSUME NEW m \in Members, NEW msg \in Messages, DlqDelivered(m, msg) PROVE Left
  BY <1>0, <1>6 DEF DlqDelivered, member, group, dlq, history
<1>7. CASE UNCHANGED vars
  BY <1>0, <1>7 DEF vars, member, group, dlq, history
<1> QED
  BY <1>1, <1>2, <1>3, <1>4, <1>5, <1>6, <1>7 DEF Next, Joins

\* Nor does librdkafka report a fatal error, on which a member leaves its loop as well.
NoSurprise == InTurn /\ "fatal" \notin Disruptions

\* app.exit.on.eof without evictions, failing commits and fatal errors, but with crashes,
\* signals and hand-overs: a member that leaves its loop on an EOF event has read every
\* partition assigned to it to the end, although counters.eofSeen outlives the
\* assignment (main.go:390-396, 674-682).
THEOREM LeavesAtTheEnd == NoSurprise /\ Spec => EofExitIsComplete
<1> SUFFICES ASSUME NoSurprise PROVE Spec => EofExitIsComplete
  OBVIOUS
<1> DEFINE Leaves(m) == pc[m] = "loop" /\ ~LoopEnds(m) /\ pc'[m] = "finalCommit"
<1> DEFINE Complete == \A m \in Members : Leaves(m) => \A p \in held[m] : position[m][p] = N
<1>1. Init => EofInv
  <2>1. Init => SeenAtEnd
    BY DEF Init, SeenAtEnd
  <2> QED
    BY <2>1, OrderlyInitStep DEF EofInv, NoSurprise
<1>2. EofInv /\ [Next]_vars => EofInv'
  <2> SUFFICES ASSUME EofInv, [Next]_vars PROVE EofInv'
    OBVIOUS
  <2>1. OrderlyInv'
    BY OrderlyInitStep DEF EofInv, NoSurprise
  <2> QED
    BY <2>1, SeenAtEndStep DEF EofInv, NoSurprise
<1>3. EofInv /\ [Next]_vars => [Complete]_vars
  <2> SUFFICES ASSUME EofInv, [Next]_vars, NEW m \in Members, Leaves(m), NEW p \in held[m]
               PROVE  position[m][p] = N
    BY DEF Leaves
  <2>0. /\ eofSeen \in [Members -> SUBSET Partitions] /\ held \in [Members -> SUBSET Partitions]
        /\ pc \in [Members -> Locations] /\ TypeOK
    BY DEF EofInv, OrderlyInv, FenceInv, TypeOK
  <2>1. ~PollFatal(m)
    BY DEF PollFatal, Disrupt, NoSurprise
  <2>2. PICK q \in Partitions : PollEOF(m, q)
    BY <2>0, <2>1, LoopLeft
  <2>3. held[m] \subseteq eofSeen[m] \union {q}
    BY <2>0, <2>2 DEF PollEOF, AllPartitionsAtEOF
  <2>4. owner[p] = m /\ p \in Partitions
    BY <2>0 DEF EofInv, OrderlyInv, HeldIsOwned
  <2>5. CASE p = q
    BY <2>2, <2>5 DEF PollEOF
  <2>6. CASE p \in eofSeen[m]
    <3>1. committed[p] <= position[m][p] /\ position[m][p] \in 0 .. N
      BY <2>4 DEF EofInv, OrderlyInv, FenceInv, OwnerIsAhead, TypeOK
    <3>2. committed[p] = N \/ position[m][p] = N
      BY <2>4, <2>6 DEF EofInv, SeenAtEnd
    <3> QED
      BY <3>1, <3>2
  <2> QED
    BY <2>3, <2>5, <2>6
<1> QED
  BY <1>1, <1>2, <1>3, PTL DEF Spec, EofExitIsComplete

=============================================================================
