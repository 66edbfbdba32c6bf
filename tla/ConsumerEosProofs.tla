-------------------------- MODULE ConsumerEosProofs --------------------------
(***************************************************************************)
(* Theorems about ConsumerEos, for any members and partitions, any number  *)
(* of messages, any commit interval, any sharing of transactional ids and  *)
(* any kinds and number of disruptions.                                    *)
(*                                                                         *)
(* TxnCovers speaks of a member that owns its partition.  To keep it       *)
(* through a commit one has to know that nobody else's transaction has an  *)
(* offset of that partition (OwnerLeads, SentOnce), and to keep it through *)
(* an assignment, that nothing was left behind in the transaction when the *)
(* partition was given back (NothingLeftBehind).  What makes a commit a    *)
(* step of ExactlyOnce is not TxnCovers itself, since a commit that timed  *)
(* out may take effect when its member has moved on or is gone, but what   *)
(* held when the offsets were sent and nothing has changed since           *)
(* (DecidedIsBacked).                                                      *)
(***************************************************************************)
EXTENDS ConsumerEos, TLAPS

USE EosBounds

\* A member handles the message it polled last, of a partition it holds.
InHand ==
  \A m \in Members :
    /\ IF pc[m] = "process"
       THEN /\ current[m] \in Messages
            /\ current[m][1] \in held[m]
            /\ position[m][current[m][1]] = current[m][2] + 1
       ELSE current[m] = NoMessage
    /\ pc[m] = "down" => held[m] = {}

(***************************************************************************)
(* Type correctness.                                                       *)
(***************************************************************************)
LEMMA BudgetType ==
  ASSUME budget \in 0 .. MaxDisruptions, NEW kind \in Kinds, Disrupt(kind)
  PROVE  budget' \in 0 .. MaxDisruptions
  BY DEF Disrupt

LEMMA ClearType ==
  ASSUME TypeOK, NEW m \in Members, ClearTxn(m)
  PROVE  /\ txn' \in [Members -> [Messages -> Nat]]
         /\ sent' \in [Members -> [Partitions -> 0 .. N]]
  BY DEF TypeOK, ClearTxn, Empty, Zero

LEMMA ApplyType ==
  ASSUME TypeOK, NEW m \in Members, ApplyTxn(m)
  PROVE  /\ txn' \in [Members -> [Messages -> Nat]]
         /\ sent' \in [Members -> [Partitions -> 0 .. N]]
         /\ committed' \in [Partitions -> 0 .. N]
         /\ visible' \in [Messages -> Nat]
  BY ClearType DEF TypeOK, ApplyTxn

LEMMA ReturnsType ==
  ASSUME TypeOK, NEW m \in Members, NEW err \in BOOLEAN, Returns(m, err)
  PROVE  /\ pc' \in [Members -> Locations]
         /\ task' \in [Members -> {"loop", "revoke", "stop", "close"}]
  BY DEF TypeOK, Returns, Locations

LEMMA RewindType ==
  ASSUME TypeOK, NEW m \in Members, NEW S, Rewind(m, S)
  PROVE  position' \in [Members -> [Partitions -> 0 .. N]]
  BY DEF TypeOK, Rewind

LEMMA DoneType ==
  ASSUME TypeOK, NEW m \in Members, MessageDone(m)
  PROVE  /\ pc' \in [Members -> Locations]
         /\ task' \in [Members -> {"loop", "revoke", "stop", "close"}]
         /\ current' \in [Members -> Messages \union {NoMessage}]
         /\ txnCount' \in [Members -> 0 .. TxnEvery - 1]
         /\ current[m] # NoMessage => current[m] \in Messages
<1>1. txnCount' \in [Members -> 0 .. TxnEvery - 1]
  <2>1. txnCount[m] \in 0 .. TxnEvery - 1
    BY DEF TypeOK
  <2>2. (IF TxnIsFull(m) THEN 0 ELSE txnCount[m] + 1) \in 0 .. TxnEvery - 1
    BY <2>1 DEF TxnIsFull
  <2> QED
    BY <2>2 DEF TypeOK, MessageDone
<1>2. /\ pc' \in [Members -> Locations]
      /\ task' \in [Members -> {"loop", "revoke", "stop", "close"}]
  BY DEF TypeOK, MessageDone, Locations
<1>3. current' \in [Members -> Messages \union {NoMessage}]
  BY DEF TypeOK, MessageDone
<1> QED
  BY <1>1, <1>2, <1>3 DEF TypeOK

LEMMA TypeStep ==
  ASSUME TypeOK, InHand, [Next]_vars
  PROVE  TypeOK'
<1>0. UNCHANGED txnId
  BY DEF Next, vars
<1>1. ASSUME NEW m \in Members, Runs(m) PROVE TypeOK'
  <2>1. CASE LeaveLoop(m)
    BY <1>0, <2>1, BudgetType DEF LeaveLoop, Locations, Kinds, member, trans, broker,
       history, TypeOK
  <2>2. ASSUME NEW p \in Partitions, PollMessage(m, p) PROVE TypeOK'
    <3>1. <<p, position[m][p]>> \in Messages /\ position[m][p] + 1 \in 0 .. N
      BY <2>2 DEF PollMessage, Messages, TypeOK
    <3> QED
      BY <1>0, <2>2, <3>1 DEF PollMessage, Locations, TypeOK, trans, broker, history
  <2>3. CASE ProcessOk(m)
    <3>1. current[m] \in Messages
      BY <2>3 DEF ProcessOk, InHand, MessageDone
    <3>2. txn' \in [Members -> [Messages -> Nat]]
      BY <2>3, <3>1 DEF ProcessOk, TypeOK
    <3>3. UNCHANGED <<ctxDone, held, revoking, position>>
      BY <2>3 DEF ProcessOk, MessageDone
    <3> QED
      BY <1>0, <2>3, <3>2, <3>3, DoneType DEF ProcessOk, broker, history, TypeOK
  <2>4. CASE ProcessFail(m)
    <3>1. current[m] \in Messages
      BY <2>4 DEF ProcessFail, InHand, MessageDone
    <3>2. budget' \in 0 .. MaxDisruptions
      BY <2>4, BudgetType DEF ProcessFail, TypeOK, Kinds
    <3>3. UNCHANGED <<ctxDone, held, revoking, position>>
      BY <2>4 DEF ProcessFail, MessageDone
    <3> QED
      BY <1>0, <2>4, <3>1, <3>2, <3>3, DoneType DEF ProcessFail, trans, broker, TypeOK
  <2>5. CASE SendOffsets(m)
    <3>1. Positions(m) \in [Partitions -> 0 .. N]
      BY DEF Positions, TypeOK
    <3>2. Stranded(m, revoking[m]) \subseteq Messages
      BY DEF Stranded
    <3>3. budget' \in 0 .. MaxDisruptions
      BY <2>5, BudgetType DEF SendOffsets, TypeOK, Kinds
    <3>4. /\ pc' \in [Members -> Locations]
          /\ task' \in [Members -> {"loop", "revoke", "stop", "close"}]
      BY <2>5, ReturnsType DEF SendOffsets, TypeOK, Locations
    <3>5. sent' \in [Members -> [Partitions -> 0 .. N]]
      BY <2>5, <3>1 DEF SendOffsets, TypeOK
    <3>6. astray' \subseteq Messages
      BY <2>5, <3>2 DEF SendOffsets, TypeOK
    <3> QED
      BY <1>0, <2>5, <3>3, <3>4, <3>5, <3>6 DEF SendOffsets, broker, TypeOK
  <2>6. CASE CommitTxn(m)
    BY <1>0, <2>6, ReturnsType, ApplyType, BudgetType DEF CommitTxn, Kinds, TxnStates,
       member, trans, broker, history, TypeOK
  <2>7. CASE CommitTxnFails(m)
    BY <1>0, <2>7, ReturnsType, BudgetType DEF CommitTxnFails, Kinds, TxnStates,
       Locations,
       member, trans, broker, history, TypeOK
  <2>8. CASE AbortTxn(m)
    BY <1>0, <2>8, ReturnsType, ClearType, RewindType, BudgetType DEF AbortTxn, Skipped,
       Kinds, TxnStates, member, trans, broker, history, TypeOK
  <2>9. CASE AbortTxnFails(m)
    BY <1>0, <2>9, ReturnsType, ClearType, RewindType, BudgetType DEF AbortTxnFails,
       Kinds,
       TxnStates, member, trans, broker, history, TypeOK
  <2>10. CASE Unassign(m)
    BY <1>0, <2>10 DEF Unassign, GiveBack, member, trans, broker, history, TypeOK,
       Locations, TxnStates, Zero, Empty
  <2>11. CASE RevokedLost(m)
    BY <1>0, <2>11 DEF RevokedLost, GiveBack, Stranded, member, trans, broker, history,
       TypeOK
  <2>12. CASE Close(m)
    BY <1>0, <2>12 DEF Close, AssignmentLost, OnRevokedTarget, member, trans, broker,
       history, TypeOK, Locations, TxnStates, Zero, Empty
  <2>13. CASE Exit(m)
    BY <1>0, <2>13 DEF Exit, GoDown, AssignmentLost, member, trans, broker, history,
       TypeOK, Locations, TxnStates, Zero, Empty
  <2>14. CASE PollNothing(m)
    BY <1>0, <2>14 DEF PollNothing, vars, member, trans, broker, history, TypeOK,
       Locations, TxnStates, Zero, Empty
  <2> QED
    BY <1>1, <2>1, <2>2, <2>3, <2>4, <2>5, <2>6, <2>7, <2>8, <2>9, <2>10, <2>11, <2>12,
       <2>13, <2>14 DEF Runs
<1>2. ASSUME NEW m \in Members, Start(m) PROVE TypeOK'
  BY <1>0, <1>2 DEF Start, member, trans, broker, history, TypeOK, Locations, TxnStates,
     Zero, Empty
<1>3. ASSUME NEW m \in Members, LateCommit(m) PROVE TypeOK'
  BY <1>0, <1>3, ApplyType DEF LateCommit, TxnStates, member, trans, broker, history,
     TypeOK
<1>4. ASSUME NEW m \in Members, TxnExpires(m) PROVE TypeOK'
  BY <1>0, <1>4, ClearType, BudgetType DEF TxnExpires, TxnStates, Kinds, member, trans,
     broker, history, TypeOK
<1>5. ASSUME NEW m \in Members, Crash(m) PROVE TypeOK'
  BY <1>0, <1>5 DEF Crash, GoDown, Disrupt, member, trans, broker, history, TypeOK,
     Locations, TxnStates, Zero, Empty
<1>6. ASSUME NEW m \in Members, Signal(m) PROVE TypeOK'
  BY <1>0, <1>6 DEF Signal, Disrupt, member, trans, broker, history, TypeOK, Locations,
     TxnStates, Zero, Empty
<1>7. ASSUME NEW m \in Members, Evict(m) PROVE TypeOK'
  BY <1>0, <1>7, BudgetType DEF Evict, Kinds, member, trans, broker, history, TypeOK
<1>8. ASSUME NEW m \in Members, NEW S \in SUBSET Partitions, Assigned(m, S)
      PROVE  TypeOK'
  BY <1>0, <1>8 DEF Assigned, Polls, AssignmentLost, member, trans, broker, history,
     TypeOK, Locations, TxnStates, Zero, Empty
<1>9. ASSUME NEW m \in Members, NEW S \in SUBSET Partitions, Revoked(m, S)
      PROVE  TypeOK'
  BY <1>0, <1>9 DEF Revoked, Polls, AssignmentLost, OnRevokedTarget, Disrupt, member,
     trans, broker, history, TypeOK, Locations, TxnStates, Zero, Empty
<1>10. CASE UNCHANGED vars
  BY <1>0, <1>10 DEF vars, member, trans, broker, history, TypeOK, Locations, TxnStates,
     Zero, Empty
<1> QED
  BY <1>1, <1>2, <1>3, <1>4, <1>5, <1>6, <1>7, <1>8, <1>9, <1>10 DEF Next

LEMMA ReturnsTo ==
  ASSUME TypeOK, NEW m \in Members, NEW err \in BOOLEAN, Returns(m, err)
  PROVE  /\ pc'[m] \in {"send", "loop", "close", "unassign"}
         /\ \A n \in Members \ {m} : pc'[n] = pc[n]
  BY DEF TypeOK, Returns

LEMMA InHandStep ==
  ASSUME TypeOK, InHand, [Next]_vars
  PROVE  InHand'
<1>0. /\ pc \in [Members -> Locations]
      /\ held \in [Members -> SUBSET Partitions]
      /\ position \in [Members -> [Partitions -> 0 .. N]]
      /\ current \in [Members -> Messages \union {NoMessage}]
  BY DEF TypeOK
<1>1. ASSUME NEW m \in Members, Runs(m) PROVE InHand'
  <2>1. CASE LeaveLoop(m)
    BY <1>0, <2>1 DEF LeaveLoop, Disrupt, member, trans, broker, history, InHand
  <2>2. ASSUME NEW p \in Partitions, PollMessage(m, p) PROVE InHand'
    <3>1. <<p, position[m][p]>> \in Messages
      BY <1>0, <2>2 DEF PollMessage, Messages
    <3> QED
      BY <1>0, <2>2, <3>1 DEF PollMessage, Polls, InHand
  <2>3. CASE ProcessOk(m)
    BY <1>0, <2>3 DEF ProcessOk, MessageDone, TxnIsFull, member, trans, broker, history,
       InHand
  <2>4. CASE ProcessFail(m)
    BY <1>0, <2>4 DEF ProcessFail, MessageDone, TxnIsFull, Disrupt, member, trans,
       broker, history, InHand
  <2>5. CASE SendOffsets(m)
    <3>1. /\ pc'[m] \notin {"process", "down"} /\ pc[m] # "process"
          /\ \A n \in Members \ {m} : pc'[n] = pc[n]
      BY <1>0, <2>5, ReturnsTo DEF SendOffsets
    <3> QED
      BY <1>0, <2>5, <3>1 DEF SendOffsets, InHand
  <2>6. CASE CommitTxn(m)
    <3>1. /\ pc'[m] \notin {"process", "down"} /\ pc[m] # "process"
          /\ \A n \in Members \ {m} : pc'[n] = pc[n]
      BY <1>0, <2>6, ReturnsTo DEF CommitTxn
    <3> QED
      BY <1>0, <2>6, <3>1 DEF CommitTxn, InHand
  <2>7. CASE CommitTxnFails(m)
    <3>1. /\ pc'[m] \notin {"process", "down"} /\ pc[m] # "process"
          /\ \A n \in Members \ {m} : pc'[n] = pc[n]
      BY <1>0, <2>7, ReturnsTo DEF CommitTxnFails
    <3> QED
      BY <1>0, <2>7, <3>1 DEF CommitTxnFails, InHand
  <2>8. CASE AbortTxn(m)
    <3>1. /\ pc'[m] \notin {"process", "down"} /\ pc[m] # "process"
          /\ \A n \in Members \ {m} : pc'[n] = pc[n]
      BY <1>0, <2>8, ReturnsTo DEF AbortTxn
    <3> QED
      BY <1>0, <2>8, <3>1 DEF AbortTxn, Rewind, InHand
  <2>9. CASE AbortTxnFails(m)
    <3>1. /\ pc'[m] \notin {"process", "down"} /\ pc[m] # "process"
          /\ \A n \in Members \ {m} : pc'[n] = pc[n]
      BY <1>0, <2>9, ReturnsTo DEF AbortTxnFails
    <3> QED
      BY <1>0, <2>9, <3>1 DEF AbortTxnFails, Rewind, InHand
  <2>10. CASE Unassign(m)
    BY <1>0, <2>10 DEF Unassign, GiveBack, member, trans, broker, history, InHand
  <2>11. CASE RevokedLost(m)
    BY <1>0, <2>11 DEF RevokedLost, Polls, AssignmentLost, GiveBack, Stranded, member,
       trans, broker, history, InHand
  <2>12. CASE Close(m)
    BY <1>0, <2>12 DEF Close, AssignmentLost, OnRevokedTarget, member, trans, broker,
       history, InHand
  <2>13. CASE Exit(m)
    BY <1>0, <2>13 DEF Exit, GoDown, AssignmentLost, member, trans, broker, history,
       InHand
  <2>14. CASE PollNothing(m)
    BY <1>0, <2>14 DEF PollNothing, vars, member, trans, broker, history, InHand
  <2> QED
    BY <1>1, <2>1, <2>2, <2>3, <2>4, <2>5, <2>6, <2>7, <2>8, <2>9, <2>10, <2>11, <2>12,
       <2>13, <2>14 DEF Runs
<1>2. ASSUME NEW m \in Members, Start(m) PROVE InHand'
  BY <1>0, <1>2 DEF Start, member, trans, broker, history, InHand
<1>3. ASSUME NEW m \in Members, LateCommit(m) PROVE InHand'
  BY <1>0, <1>3 DEF LateCommit, ApplyTxn, ClearTxn, member, trans, broker, history,
     InHand
<1>4. ASSUME NEW m \in Members, TxnExpires(m) PROVE InHand'
  BY <1>0, <1>4 DEF TxnExpires, ClearTxn, Disrupt, member, trans, broker, history,
     InHand
<1>5. ASSUME NEW m \in Members, Crash(m) PROVE InHand'
  BY <1>0, <1>5 DEF Crash, GoDown, Disrupt, member, trans, broker, history, InHand
<1>6. ASSUME NEW m \in Members, Signal(m) PROVE InHand'
  BY <1>0, <1>6 DEF Signal, Disrupt, member, trans, broker, history, InHand
<1>7. ASSUME NEW m \in Members, Evict(m) PROVE InHand'
  BY <1>0, <1>7 DEF Evict, AssignmentLost, Disrupt, member, trans, broker, history,
     InHand
<1>8. ASSUME NEW m \in Members, NEW S \in SUBSET Partitions, Assigned(m, S)
      PROVE  InHand'
  BY <1>0, <1>8 DEF Assigned, Polls, AssignmentLost, member, trans, broker, history,
     InHand
<1>9. ASSUME NEW m \in Members, NEW S \in SUBSET Partitions, Revoked(m, S)
      PROVE  InHand'
  BY <1>0, <1>9 DEF Revoked, Polls, AssignmentLost, OnRevokedTarget, Disrupt, member,
     trans, broker, history, InHand
<1>10. CASE UNCHANGED vars
  BY <1>0, <1>10 DEF vars, member, trans, broker, history, InHand
<1> QED
  BY <1>1, <1>2, <1>3, <1>4, <1>5, <1>6, <1>7, <1>8, <1>9, <1>10 DEF Next

LEMMA RewindsTo ==
  ASSUME TypeOK, NEW m \in Members, NEW S, Rewind(m, S)
  PROVE  \A n \in Members, q \in Partitions :
           position'[n][q] = IF n = m /\ q \in S THEN committed[q] ELSE position[n][q]
  BY DEF TypeOK, Rewind

LEMMA ClearsTo ==
  ASSUME TypeOK, NEW m \in Members, ClearTxn(m)
  PROVE  /\ \A n \in Members, q \in Partitions : sent'[n][q] = IF n = m THEN 0 ELSE sent[n][q]
         /\ \A n \in Members, msg \in Messages : txn'[n][msg] = IF n = m THEN 0 ELSE txn[n][msg]
  BY DEF TypeOK, ClearTxn, Zero, Empty

\* An abort takes a position back only together with the offsets of the transaction.
LEMMA AbortMoves ==
  ASSUME TypeOK, NEW m \in Members, AbortTxn(m) \/ AbortTxnFails(m)
  PROVE  \A n \in Members, q \in Partitions :
           /\ sent'[n][q] = sent[n][q] \/ sent'[n][q] = 0
           /\ \/ position'[n][q] = position[n][q]
              \/ sent'[n][q] = 0 /\ n = m /\ position'[n][q] = committed[q]
<1>1. \/ ClearTxn(m) /\ (UNCHANGED position \/ \E S : Rewind(m, S))
      \/ UNCHANGED <<sent, position>>
  BY DEF AbortTxn, AbortTxnFails, trans
<1>2. CASE UNCHANGED <<sent, position>>
  BY <1>2
<1>3. ASSUME ClearTxn(m)
      PROVE  \A n \in Members, q \in Partitions :
               sent'[n][q] = IF n = m THEN 0 ELSE sent[n][q]
  BY <1>3, ClearsTo
<1>4. CASE ClearTxn(m) /\ UNCHANGED position
  BY <1>3, <1>4
<1>5. ASSUME NEW S, ClearTxn(m), Rewind(m, S)
      PROVE  \A n \in Members, q \in Partitions :
               /\ sent'[n][q] = sent[n][q] \/ sent'[n][q] = 0
               /\ \/ position'[n][q] = position[n][q]
                  \/ sent'[n][q] = 0 /\ n = m /\ position'[n][q] = committed[q]
  BY <1>3, <1>5, RewindsTo
<1> QED
  BY <1>1, <1>2, <1>4, <1>5

\* What a partition's owner has done is ahead of what is committed and of what its
\* transaction would commit; no other member's transaction has an offset of it.
OwnerLeads ==
  \A m \in Members, p \in Partitions : owner[p] = m =>
    /\ p \in held[m]
    /\ committed[p] <= position[m][p]
    /\ sent[m][p] <= position[m][p]
    /\ pc[m] = "process" /\ current[m][1] = p =>
         committed[p] < position[m][p] /\ sent[m][p] < position[m][p]
    /\ \A n \in Members \ {m} : sent[n][p] = 0

LEMMA OwnerLeadsStep ==
  ASSUME TypeOK, InHand, OwnerLeads, [Next]_vars
  PROVE  OwnerLeads'
<1>0. /\ pc \in [Members -> Locations]
      /\ held \in [Members -> SUBSET Partitions]
      /\ position \in [Members -> [Partitions -> 0 .. N]]
      /\ sent \in [Members -> [Partitions -> 0 .. N]]
      /\ owner \in [Partitions -> Members \union {Nobody}]
      /\ committed \in [Partitions -> 0 .. N]
      /\ current \in [Members -> Messages \union {NoMessage}]
  BY DEF TypeOK
<1>1. ASSUME NEW m \in Members, Runs(m) PROVE OwnerLeads'
  <2>1. CASE LeaveLoop(m)
    BY <1>0, EosNames, <2>1 DEF LeaveLoop, Disrupt, member, trans, broker, history,
       OwnerLeads, Zero
  <2>2. ASSUME NEW p \in Partitions, PollMessage(m, p) PROVE OwnerLeads'
    BY <1>0, EosNames, <2>2 DEF PollMessage, Polls, member, trans, broker, history,
       OwnerLeads, Zero
  <2>3. CASE ProcessOk(m)
    BY <1>0, EosNames, <2>3 DEF ProcessOk, MessageDone, TxnIsFull, member, trans,
       broker, history, OwnerLeads, Zero
  <2>4. CASE ProcessFail(m)
    BY <1>0, EosNames, <2>4 DEF ProcessFail, MessageDone, TxnIsFull, Disrupt, member,
       trans, broker, history, OwnerLeads, Zero
  <2>5. CASE SendOffsets(m)
    <3>1. pc'[m] # "process" /\ \A n \in Members \ {m} : pc'[n] = pc[n]
      BY <1>0, <2>5, ReturnsTo DEF SendOffsets
    <3>2. UNCHANGED <<held, position, current, owner, committed>>
      BY <2>5 DEF SendOffsets, broker
    <3>3. sent' = sent \/ (~AssignmentLost(m) /\ sent' = [sent EXCEPT ![m] = Positions(m)])
      BY <2>5 DEF SendOffsets, SendAccepted
    <3>4. CASE sent' = sent
      BY <1>0, <3>1, <3>2, <3>4 DEF OwnerLeads
    <3>5. CASE ~AssignmentLost(m) /\ sent' = [sent EXCEPT ![m] = Positions(m)]
      <4>1. /\ sent' \in [Members -> [Partitions -> Int]]
            /\ \A n \in Members \ {m} : sent'[n] = sent[n]
            /\ \A q \in Partitions : sent'[m][q] = IF q \in held[m] THEN position[m][q] ELSE 0
        BY <1>0, <3>5 DEF Positions
      <4>2. \A q \in held[m] : owner[q] = m
        BY <3>5 DEF AssignmentLost
      <4>3. ASSUME NEW a \in Members, NEW q \in Partitions, owner[q] = a
            PROVE  /\ sent'[a][q] = sent[a][q] \/ (a = m /\ sent'[a][q] = position[a][q])
                   /\ \A n \in Members \ {a} : sent'[n][q] = 0
        BY <1>0, <4>1, <4>2, <4>3 DEF OwnerLeads
      <4> QED
        BY <1>0, <3>1, <3>2, <4>3 DEF OwnerLeads
    <3> QED
      BY <3>3, <3>4, <3>5
  <2>6. CASE CommitTxn(m)
    <3>1. pc'[m] # "process" /\ \A n \in Members \ {m} : pc'[n] = pc[n]
      BY <1>0, <2>6, ReturnsTo DEF CommitTxn
    <3> QED
      BY <1>0, <2>6, <3>1 DEF CommitTxn, ApplyTxn, ClearTxn, OwnerLeads, Zero
  <2>7. CASE CommitTxnFails(m)
    BY <1>0, EosNames, <2>7 DEF CommitTxnFails, Returns, Disrupt, member, trans, broker,
       history, OwnerLeads, Zero
  <2>8. CASE AbortTxn(m)
    <3>1. pc'[m] # "process" /\ \A n \in Members \ {m} : pc'[n] = pc[n]
      BY <1>0, <2>8, ReturnsTo DEF AbortTxn
    <3>2. UNCHANGED <<held, current, owner, committed>>
      BY <2>8 DEF AbortTxn, broker
    <3>3. \A n \in Members, q \in Partitions :
               /\ sent'[n][q] = sent[n][q] \/ sent'[n][q] = 0
               /\ \/ position'[n][q] = position[n][q]
                  \/ sent'[n][q] = 0 /\ n = m /\ position'[n][q] = committed[q]
      BY <2>8, AbortMoves
    <3>4. ASSUME NEW a \in Members, NEW q \in Partitions, owner[q] = a
          PROVE  /\ committed[q] <= position'[a][q]
                 /\ sent'[a][q] <= position'[a][q]
                 /\ \A n \in Members \ {a} : sent'[n][q] = 0
      BY <1>0, <3>3, <3>4 DEF OwnerLeads
    <3>5. ASSUME NEW a \in Members, NEW q \in Partitions, owner[q] = a,
                 pc'[a] = "process", current[a][1] = q
          PROVE  committed[q] < position'[a][q] /\ sent'[a][q] < position'[a][q]
      <4>1. a # m /\ pc[a] = "process"
        BY <3>1, <3>5
      <4>2. position'[a][q] = position[a][q] /\ sent'[a][q] \in {sent[a][q], 0}
        BY <3>3, <4>1
      <4> QED
        BY <1>0, <3>5, <4>1, <4>2 DEF OwnerLeads
    <3> QED
      BY <3>2, <3>4, <3>5 DEF OwnerLeads
  <2>9. CASE AbortTxnFails(m)
    <3>1. pc'[m] # "process" /\ \A n \in Members \ {m} : pc'[n] = pc[n]
      BY <1>0, <2>9, ReturnsTo DEF AbortTxnFails
    <3>2. UNCHANGED <<held, current, owner, committed>>
      BY <2>9 DEF AbortTxnFails, broker
    <3>3. \A n \in Members, q \in Partitions :
               /\ sent'[n][q] = sent[n][q] \/ sent'[n][q] = 0
               /\ \/ position'[n][q] = position[n][q]
                  \/ sent'[n][q] = 0 /\ n = m /\ position'[n][q] = committed[q]
      BY <2>9, AbortMoves
    <3>4. ASSUME NEW a \in Members, NEW q \in Partitions, owner[q] = a
          PROVE  /\ committed[q] <= position'[a][q]
                 /\ sent'[a][q] <= position'[a][q]
                 /\ \A n \in Members \ {a} : sent'[n][q] = 0
      BY <1>0, <3>3, <3>4 DEF OwnerLeads
    <3>5. ASSUME NEW a \in Members, NEW q \in Partitions, owner[q] = a,
                 pc'[a] = "process", current[a][1] = q
          PROVE  committed[q] < position'[a][q] /\ sent'[a][q] < position'[a][q]
      <4>1. a # m /\ pc[a] = "process"
        BY <3>1, <3>5
      <4>2. position'[a][q] = position[a][q] /\ sent'[a][q] \in {sent[a][q], 0}
        BY <3>3, <4>1
      <4> QED
        BY <1>0, <3>5, <4>1, <4>2 DEF OwnerLeads
    <3> QED
      BY <3>2, <3>4, <3>5 DEF OwnerLeads
  <2>10. CASE Unassign(m)
    BY <1>0, EosNames, <2>10 DEF Unassign, GiveBack, member, trans, broker, history,
       OwnerLeads, Zero
  <2>11. CASE RevokedLost(m)
    BY <1>0, EosNames, <2>11 DEF RevokedLost, Polls, AssignmentLost, GiveBack, Stranded,
       member, trans, broker, history, OwnerLeads, Zero
  <2>12. CASE Close(m)
    BY <1>0, EosNames, <2>12 DEF Close, AssignmentLost, OnRevokedTarget, member, trans,
       broker, history, OwnerLeads, Zero
  <2>13. CASE Exit(m)
    BY <1>0, EosNames, <2>13 DEF Exit, GoDown, AssignmentLost, member, trans, broker,
       history, OwnerLeads, Zero
  <2>14. CASE PollNothing(m)
    BY <1>0, EosNames, <2>14 DEF PollNothing, vars, member, trans, broker, history,
       OwnerLeads, Zero
  <2> QED
    BY <1>1, <2>1, <2>2, <2>3, <2>4, <2>5, <2>6, <2>7, <2>8, <2>9, <2>10, <2>11, <2>12,
       <2>13, <2>14 DEF Runs
<1>2. ASSUME NEW m \in Members, Start(m) PROVE OwnerLeads'
  BY <1>0, EosNames, <1>2 DEF Start, member, trans, broker, history, OwnerLeads, Zero
<1>3. ASSUME NEW m \in Members, LateCommit(m) PROVE OwnerLeads'
  BY <1>0, EosNames, <1>3 DEF LateCommit, ApplyTxn, ClearTxn, member, trans, broker,
     history, OwnerLeads, Zero
<1>4. ASSUME NEW m \in Members, TxnExpires(m) PROVE OwnerLeads'
  BY <1>0, EosNames, <1>4 DEF TxnExpires, ClearTxn, Disrupt, member, trans, broker,
     history, OwnerLeads, Zero
<1>5. ASSUME NEW m \in Members, Crash(m) PROVE OwnerLeads'
  BY <1>0, EosNames, <1>5 DEF Crash, GoDown, Disrupt, member, trans, broker, history,
     OwnerLeads, Zero
<1>6. ASSUME NEW m \in Members, Signal(m) PROVE OwnerLeads'
  BY <1>0, EosNames, <1>6 DEF Signal, Disrupt, member, trans, broker, history,
     OwnerLeads, Zero
<1>7. ASSUME NEW m \in Members, Evict(m) PROVE OwnerLeads'
  BY <1>0, EosNames, <1>7 DEF Evict, AssignmentLost, Disrupt, member, trans, broker,
     history, OwnerLeads, Zero
<1>8. ASSUME NEW m \in Members, NEW S \in SUBSET Partitions, Assigned(m, S)
      PROVE  OwnerLeads'
  BY <1>0, EosNames, <1>8 DEF Assigned, Polls, AssignmentLost, member, trans, broker,
     history, OwnerLeads, Zero
<1>9. ASSUME NEW m \in Members, NEW S \in SUBSET Partitions, Revoked(m, S)
      PROVE  OwnerLeads'
  BY <1>0, EosNames, <1>9 DEF Revoked, Polls, AssignmentLost, OnRevokedTarget, Disrupt,
     member, trans, broker, history, OwnerLeads, Zero
<1>10. CASE UNCHANGED vars
  BY <1>0, EosNames, <1>10 DEF vars, member, trans, broker, history, OwnerLeads, Zero
<1> QED
  BY <1>1, <1>2, <1>3, <1>4, <1>5, <1>6, <1>7, <1>8, <1>9, <1>10 DEF Next

\* Of a partition's offsets one transaction at most has a part, and a member about to
\* commit has sent the positions of what it holds.
SentOnce ==
  /\ \A m, n \in Members, p \in Partitions : sent[m][p] > 0 /\ sent[n][p] > 0 => m = n
  /\ \A m \in Members, p \in Partitions : pc[m] = "commit" /\ txnState[m] = "open" =>
       sent[m][p] = IF p \in held[m] THEN position[m][p] ELSE 0

\* An open transaction has no output of a partition its member does not hold, or is
\* about to give back, except of messages gone astray.
NothingLeftBehind ==
  \A m \in Members, p \in Partitions, o \in 0 .. N-1 :
    /\ txnState[m] = "open"
    /\ p \notin held[m] \/ (pc[m] = "unassign" /\ p \in revoking[m])
    /\ <<p, o>> \notin astray
    => txn[m][<<p, o>>] = 0

LEMMA Tuples ==
  /\ \A p \in Partitions, o \in 0 .. N-1 : <<p, o>> \in Messages
  /\ \A msg \in Messages : msg[1] \in Partitions /\ msg[2] \in 0 .. N-1 /\ msg = <<msg[1], msg[2]>>
  BY DEF Messages

LEMMA SentOnceStep ==
  ASSUME TypeOK, InHand, OwnerLeads, SentOnce, [Next]_vars
  PROVE  SentOnce'
<1>0. /\ pc \in [Members -> Locations]
      /\ held \in [Members -> SUBSET Partitions]
      /\ revoking \in [Members -> SUBSET Partitions]
      /\ position \in [Members -> [Partitions -> 0 .. N]]
      /\ txn \in [Members -> [Messages -> Nat]]
      /\ sent \in [Members -> [Partitions -> 0 .. N]]
      /\ txnState \in [Members -> TxnStates]
      /\ owner \in [Partitions -> Members \union {Nobody}]
      /\ committed \in [Partitions -> 0 .. N]
      /\ current \in [Members -> Messages \union {NoMessage}]
  BY DEF TypeOK
<1>1. ASSUME NEW m \in Members, Runs(m) PROVE SentOnce'
  <2>1. CASE LeaveLoop(m)
    BY <1>0, <2>1 DEF LeaveLoop, Disrupt, member, trans, broker, history, SentOnce, Zero
  <2>2. ASSUME NEW p \in Partitions, PollMessage(m, p) PROVE SentOnce'
    BY <1>0, <2>2 DEF PollMessage, Polls, member, trans, broker, history, SentOnce, Zero
  <2>3. CASE ProcessOk(m)
    BY <1>0, <2>3 DEF ProcessOk, MessageDone, TxnIsFull, member, trans, broker, history,
       SentOnce, Zero
  <2>4. CASE ProcessFail(m)
    BY <1>0, <2>4 DEF ProcessFail, MessageDone, TxnIsFull, Disrupt, member, trans,
       broker, history, SentOnce, Zero
  <2>5. CASE SendOffsets(m)
    <3>1. \A n \in Members \ {m} : pc'[n] = pc[n]
      BY <1>0, <2>5, ReturnsTo DEF SendOffsets
    <3>2. UNCHANGED <<held, position, txnState>>
      BY <2>5 DEF SendOffsets
    <3>3. CASE pc'[m] # "commit" /\ sent' = sent
      BY <1>0, <3>1, <3>2, <3>3 DEF SentOnce
    <3>4. CASE ~AssignmentLost(m) /\ sent' = [sent EXCEPT ![m] = Positions(m)]
      <4>1. /\ \A n \in Members \ {m} : sent'[n] = sent[n]
            /\ \A q \in Partitions : sent'[m][q] = IF q \in held[m] THEN position[m][q] ELSE 0
        BY <1>0, <3>4 DEF Positions
      <4>2. \A q \in held[m], n \in Members \ {m} : sent[n][q] = 0
        BY <1>0, <3>4 DEF AssignmentLost, OwnerLeads
      <4>3. ASSUME NEW a \in Members, NEW b \in Members, NEW p \in Partitions,
                   sent'[a][p] > 0, sent'[b][p] > 0, a # b
            PROVE  FALSE
        <5>1. CASE a # m /\ b # m
          BY <4>1, <4>3, <5>1 DEF SentOnce
        <5>2. ASSUME NEW c \in Members \ {m}, sent'[c][p] > 0, sent'[m][p] > 0 PROVE FALSE
          <6>1. p \in held[m]
            BY <4>1, <5>2
          <6>2. sent'[c][p] = 0
            BY <4>1, <4>2, <6>1
          <6> QED
            BY <5>2, <6>2
        <5> QED
          BY <4>3, <5>1, <5>2
      <4>4. ASSUME NEW n \in Members, NEW p \in Partitions, pc'[n] = "commit", txnState[n] = "open"
            PROVE  sent'[n][p] = IF p \in held[n] THEN position[n][p] ELSE 0
        BY <3>1, <4>1, <4>4 DEF SentOnce
      <4> QED
        BY <3>2, <4>3, <4>4 DEF SentOnce
    <3> QED
      BY <1>0, <2>5, <3>3, <3>4, ReturnsTo DEF SendOffsets, SendAccepted
  <2>6. CASE CommitTxn(m)
    BY <1>0, <2>6 DEF CommitTxn, ApplyTxn, ClearTxn, Returns, Disrupt, member, trans,
       broker, history, SentOnce, Zero
  <2>7. CASE CommitTxnFails(m)
    <3>1. pc'[m] # "commit" /\ \A n \in Members \ {m} : pc'[n] = pc[n]
      BY <1>0, <2>7, ReturnsTo DEF CommitTxnFails
    <3>2. UNCHANGED <<held, position, sent>> /\ \A n \in Members \ {m} : txnState'[n] = txnState[n]
      BY <1>0, <2>7 DEF CommitTxnFails
    <3> QED
      BY <1>0, <3>1, <3>2 DEF SentOnce
  <2>8. CASE AbortTxn(m)
    BY <1>0, <2>8 DEF AbortTxn, CanAbort, ClearTxn, Rewind, Skipped, Returns, Disrupt,
       member, trans, broker, history, SentOnce, Zero
  <2>9. CASE AbortTxnFails(m)
    <3>1. pc'[m] # "commit" /\ \A n \in Members \ {m} : pc'[n] = pc[n]
      BY <1>0, <2>9, ReturnsTo DEF AbortTxnFails
    <3>2. UNCHANGED held /\ \A n \in Members \ {m} : txnState'[n] = txnState[n]
      BY <1>0, <2>9 DEF AbortTxnFails, trans
    <3>3. \A n \in Members, q \in Partitions :
            /\ sent'[n][q] = sent[n][q] \/ sent'[n][q] = 0
            /\ n # m => sent'[n][q] = sent[n][q] /\ position'[n][q] = position[n][q]
      BY <1>0, <2>9, ClearsTo, RewindsTo DEF AbortTxnFails, trans
    <3>4. ASSUME NEW a \in Members, NEW b \in Members, NEW p \in Partitions,
                 sent'[a][p] > 0, sent'[b][p] > 0
          PROVE  a = b
      <4>1. sent[a][p] > 0 /\ sent[b][p] > 0
        BY <3>3, <3>4
      <4> QED
        BY <4>1 DEF SentOnce
    <3>5. ASSUME NEW n \in Members, NEW p \in Partitions, pc'[n] = "commit", txnState'[n] = "open"
          PROVE  sent'[n][p] = IF p \in held[n] THEN position'[n][p] ELSE 0
      <4>1. n # m /\ pc[n] = "commit" /\ txnState[n] = "open"
        BY <3>1, <3>2, <3>5
      <4> QED
        BY <3>3, <4>1 DEF SentOnce
    <3> QED
      BY <3>2, <3>4, <3>5 DEF SentOnce
  <2>10. CASE Unassign(m)
    BY <1>0, <2>10 DEF Unassign, GiveBack, member, trans, broker, history, SentOnce,
       Zero
  <2>11. CASE RevokedLost(m)
    BY <1>0, <2>11 DEF RevokedLost, Polls, AssignmentLost, GiveBack, Stranded, member,
       trans, broker, history, SentOnce, Zero
  <2>12. CASE Close(m)
    BY <1>0, <2>12 DEF Close, AssignmentLost, OnRevokedTarget, member, trans, broker,
       history, SentOnce, Zero
  <2>13. CASE Exit(m)
    BY <1>0, <2>13 DEF Exit, GoDown, AssignmentLost, member, trans, broker, history,
       SentOnce, Zero
  <2>14. CASE PollNothing(m)
    BY <1>0, <2>14 DEF PollNothing, vars, member, trans, broker, history, SentOnce, Zero
  <2> QED
    BY <1>1, <2>1, <2>2, <2>3, <2>4, <2>5, <2>6, <2>7, <2>8, <2>9, <2>10, <2>11, <2>12,
       <2>13, <2>14 DEF Runs
<1>2. ASSUME NEW m \in Members, Start(m) PROVE SentOnce'
  BY <1>0, <1>2 DEF Start, member, trans, broker, history, SentOnce, Zero
<1>3. ASSUME NEW m \in Members, LateCommit(m) PROVE SentOnce'
  BY <1>0, <1>3 DEF LateCommit, ApplyTxn, ClearTxn, member, trans, broker, history,
     SentOnce, Zero
<1>4. ASSUME NEW m \in Members, TxnExpires(m) PROVE SentOnce'
  BY <1>0, <1>4 DEF TxnExpires, ClearTxn, Disrupt, member, trans, broker, history,
     SentOnce, Zero
<1>5. ASSUME NEW m \in Members, Crash(m) PROVE SentOnce'
  BY <1>0, <1>5 DEF Crash, GoDown, Disrupt, member, trans, broker, history, SentOnce,
     Zero
<1>6. ASSUME NEW m \in Members, Signal(m) PROVE SentOnce'
  BY <1>0, <1>6 DEF Signal, Disrupt, member, trans, broker, history, SentOnce, Zero
<1>7. ASSUME NEW m \in Members, Evict(m) PROVE SentOnce'
  BY <1>0, <1>7 DEF Evict, AssignmentLost, Disrupt, member, trans, broker, history,
     SentOnce, Zero
<1>8. ASSUME NEW m \in Members, NEW S \in SUBSET Partitions, Assigned(m, S)
      PROVE  SentOnce'
  BY <1>0, <1>8 DEF Assigned, Polls, AssignmentLost, member, trans, broker, history,
     SentOnce, Zero
<1>9. ASSUME NEW m \in Members, NEW S \in SUBSET Partitions, Revoked(m, S)
      PROVE  SentOnce'
  BY <1>0, <1>9 DEF Revoked, Polls, AssignmentLost, OnRevokedTarget, Disrupt, member,
     trans, broker, history, SentOnce, Zero
<1>10. CASE UNCHANGED vars
  BY <1>0, <1>10 DEF vars, member, trans, broker, history, SentOnce, Zero
<1> QED
  BY <1>1, <1>2, <1>3, <1>4, <1>5, <1>6, <1>7, <1>8, <1>9, <1>10 DEF Next

LEMMA NothingLeftBehindStep ==
  ASSUME TypeOK, InHand, NothingLeftBehind, [Next]_vars
  PROVE  NothingLeftBehind'
<1>0. /\ pc \in [Members -> Locations]
      /\ held \in [Members -> SUBSET Partitions]
      /\ revoking \in [Members -> SUBSET Partitions]
      /\ position \in [Members -> [Partitions -> 0 .. N]]
      /\ txn \in [Members -> [Messages -> Nat]]
      /\ sent \in [Members -> [Partitions -> 0 .. N]]
      /\ txnState \in [Members -> TxnStates]
      /\ owner \in [Partitions -> Members \union {Nobody}]
      /\ committed \in [Partitions -> 0 .. N]
      /\ current \in [Members -> Messages \union {NoMessage}]
  BY DEF TypeOK
<1>1. ASSUME NEW m \in Members, Runs(m) PROVE NothingLeftBehind'
  <2>1. CASE LeaveLoop(m)
    BY <1>0, Tuples, <2>1 DEF LeaveLoop, Disrupt, member, trans, broker, history,
       NothingLeftBehind, Empty
  <2>2. ASSUME NEW p \in Partitions, PollMessage(m, p) PROVE NothingLeftBehind'
    BY <1>0, Tuples, <2>2 DEF PollMessage, Polls, member, trans, broker, history,
       NothingLeftBehind, Empty
  <2>3. CASE ProcessOk(m)
    <3>1. current[m] \in Messages /\ current[m][1] \in held[m]
      BY <2>3 DEF ProcessOk, MessageDone, InHand
    <3>2. /\ UNCHANGED <<held, revoking, txnState, astray>>
          /\ pc'[m] # "unassign" /\ \A n \in Members \ {m} : pc'[n] = pc[n]
      BY <1>0, <2>3 DEF ProcessOk, MessageDone, history
    <3>3. \A n \in Members, msg \in Messages : n # m \/ msg # current[m] => txn'[n][msg] = txn[n][msg]
      BY <1>0, <2>3, <3>1 DEF ProcessOk
    <3>4. \A p \in Partitions, o \in 0 .. N-1 : <<p, o>> = current[m] => p \in held[m]
      BY <3>1
    <3>5. ASSUME NEW n \in Members, NEW p \in Partitions, NEW o \in 0 .. N-1,
                 txnState[n] = "open", <<p, o>> \notin astray,
                 p \notin held[n] \/ (pc'[n] = "unassign" /\ p \in revoking[n])
          PROVE  txn'[n][<<p, o>>] = 0
      <4>1. p \notin held[n] \/ (pc[n] = "unassign" /\ p \in revoking[n])
        BY <3>2, <3>5
      <4>2. n # m \/ <<p, o>> # current[m]
        BY <3>2, <3>4, <3>5
      <4>3. txn'[n][<<p, o>>] = txn[n][<<p, o>>]
        BY <3>3, <4>2, Tuples
      <4> QED
        BY <3>5, <4>1, <4>3 DEF NothingLeftBehind
    <3> QED
      BY <3>2, <3>5 DEF NothingLeftBehind
  <2>4. CASE ProcessFail(m)
    BY <1>0, Tuples, <2>4 DEF ProcessFail, MessageDone, TxnIsFull, Disrupt, member,
       trans, broker, history, NothingLeftBehind, Empty
  <2>5. CASE SendOffsets(m)
    BY <1>0, Tuples, <2>5 DEF SendOffsets, SendAccepted, AssignmentLost, Positions,
       Returns, Stranded, Disrupt, member, trans, broker, history, NothingLeftBehind,
       Empty
  <2>6. CASE CommitTxn(m)
    BY <1>0, Tuples, <2>6 DEF CommitTxn, ApplyTxn, ClearTxn, Returns, Disrupt, member,
       trans, broker, history, NothingLeftBehind, Empty
  <2>7. CASE CommitTxnFails(m)
    BY <1>0, Tuples, <2>7 DEF CommitTxnFails, Returns, Disrupt, member, trans, broker,
       history, NothingLeftBehind, Empty
  <2>8. CASE AbortTxn(m)
    BY <1>0, Tuples, <2>8 DEF AbortTxn, CanAbort, ClearTxn, Rewind, Skipped, Returns,
       Disrupt, member, trans, broker, history, NothingLeftBehind, Empty
  <2>9. CASE AbortTxnFails(m)
    BY <1>0, Tuples, <2>9 DEF AbortTxnFails, CanAbort, ClearTxn, Rewind, Returns,
       Disrupt, member, trans, broker, history, NothingLeftBehind, Empty
  <2>10. CASE Unassign(m)
    BY <1>0, Tuples, <2>10 DEF Unassign, GiveBack, member, trans, broker, history,
       NothingLeftBehind, Empty
  <2>11. CASE RevokedLost(m)
    BY <1>0, Tuples, <2>11 DEF RevokedLost, Polls, AssignmentLost, GiveBack, Stranded,
       member, trans, broker, history, NothingLeftBehind, Empty
  <2>12. CASE Close(m)
    BY <1>0, Tuples, <2>12 DEF Close, AssignmentLost, OnRevokedTarget, member, trans,
       broker, history, NothingLeftBehind, Empty
  <2>13. CASE Exit(m)
    BY <1>0, Tuples, <2>13 DEF Exit, GoDown, AssignmentLost, member, trans, broker,
       history, NothingLeftBehind, Empty
  <2>14. CASE PollNothing(m)
    BY <1>0, Tuples, <2>14 DEF PollNothing, vars, member, trans, broker, history,
       NothingLeftBehind, Empty
  <2> QED
    BY <1>1, <2>1, <2>2, <2>3, <2>4, <2>5, <2>6, <2>7, <2>8, <2>9, <2>10, <2>11, <2>12,
       <2>13, <2>14 DEF Runs
<1>2. ASSUME NEW m \in Members, Start(m) PROVE NothingLeftBehind'
  BY <1>0, Tuples, <1>2 DEF Start, member, trans, broker, history, NothingLeftBehind,
     Empty
<1>3. ASSUME NEW m \in Members, LateCommit(m) PROVE NothingLeftBehind'
  BY <1>0, Tuples, <1>3 DEF LateCommit, ApplyTxn, ClearTxn, member, trans, broker,
     history, NothingLeftBehind, Empty
<1>4. ASSUME NEW m \in Members, TxnExpires(m) PROVE NothingLeftBehind'
  BY <1>0, Tuples, <1>4 DEF TxnExpires, ClearTxn, Disrupt, member, trans, broker,
     history, NothingLeftBehind, Empty
<1>5. ASSUME NEW m \in Members, Crash(m) PROVE NothingLeftBehind'
  BY <1>0, Tuples, <1>5 DEF Crash, GoDown, Disrupt, member, trans, broker, history,
     NothingLeftBehind, Empty
<1>6. ASSUME NEW m \in Members, Signal(m) PROVE NothingLeftBehind'
  BY <1>0, Tuples, <1>6 DEF Signal, Disrupt, member, trans, broker, history,
     NothingLeftBehind, Empty
<1>7. ASSUME NEW m \in Members, Evict(m) PROVE NothingLeftBehind'
  BY <1>0, Tuples, <1>7 DEF Evict, AssignmentLost, Disrupt, member, trans, broker,
     history, NothingLeftBehind, Empty
<1>8. ASSUME NEW m \in Members, NEW S \in SUBSET Partitions, Assigned(m, S)
      PROVE  NothingLeftBehind'
  BY <1>0, Tuples, <1>8 DEF Assigned, Polls, AssignmentLost, member, trans, broker,
     history, NothingLeftBehind, Empty
<1>9. ASSUME NEW m \in Members, NEW S \in SUBSET Partitions, Revoked(m, S)
      PROVE  NothingLeftBehind'
  BY <1>0, Tuples, <1>9 DEF Revoked, Polls, AssignmentLost, OnRevokedTarget, Disrupt,
     member, trans, broker, history, NothingLeftBehind, Empty
<1>10. CASE UNCHANGED vars
  BY <1>0, Tuples, <1>10 DEF vars, member, trans, broker, history, NothingLeftBehind,
     Empty
<1> QED
  BY <1>1, <1>2, <1>3, <1>4, <1>5, <1>6, <1>7, <1>8, <1>9, <1>10 DEF Next

\* What TxnCovers says of one message, its first conjunct apart.
CoveredAt(m, p, o) ==
  txnState[m] = "open" /\ p \in held[m] /\ owner[p] = m /\ <<p, o>> \notin astray =>
    IF committed[p] <= o /\ o < position[m][p] /\ <<p, o>> # current[m]
    THEN txn[m][<<p, o>>] = 1 \/ (txn[m][<<p, o>>] = 0 /\ <<p, o>> \in failed)
    ELSE txn[m][<<p, o>>] = 0

Covered == \A m \in Members, p \in Partitions, o \in 0 .. N-1 : CoveredAt(m, p, o)

\* Owners apart, that is all TxnCovers says.
LEMMA CoveredTxn ==
  ASSUME TypeOK, OwnerLeads
  PROVE  TxnCovers <=> Covered
<1>1. \A m \in Members : held[m] \subseteq Partitions
  BY DEF TypeOK
<1> QED
  BY <1>1 DEF OwnerLeads, TxnCovers, Covered, CoveredAt

\* A step that leaves a partition's offsets and a member's transaction alone.
LEMMA CoveredKept ==
  ASSUME NEW n \in Members, NEW q \in Partitions, NEW o \in 0 .. N-1,
         CoveredAt(n, q, o),
         txnState'[n] = "open" => txnState[n] = "open",
         q \in held'[n] => q \in held[n],
         owner'[q] = n => owner[q] = n,
         astray \subseteq astray', failed \subseteq failed',
         committed'[q] = committed[q], position'[n][q] = position[n][q],
         current'[n] = current[n], txn'[n] = txn[n]
  PROVE  CoveredAt(n, q, o)'
  BY DEF CoveredAt

\* A commit: the owner's positions become the group's offsets, or the offsets of a
\* partition are none of the committing member's business.
LEMMA CoveredApplied ==
  ASSUME TypeOK, InHand, OwnerLeads, SentOnce, NEW m \in Members, ApplyTxn(m),
         UNCHANGED <<held, position, current, owner, failed, astray>>,
         NEW n \in Members, NEW q \in Partitions, NEW o \in 0 .. N-1,
         CoveredAt(n, q, o), txnState'[n] = "open" => txnState[n] = "open",
         n # m \/ (pc[m] = "commit" /\ txnState[m] = "open")
  PROVE  CoveredAt(n, q, o)'
<1>0. /\ committed \in [Partitions -> 0 .. N] /\ position \in [Members -> [Partitions -> 0 .. N]]
      /\ sent \in [Members -> [Partitions -> 0 .. N]] /\ txn \in [Members -> [Messages -> Nat]]
  BY DEF TypeOK
<1>1. committed'[q] = IF sent[m][q] > 0 THEN sent[m][q] ELSE committed[q]
  BY DEF ApplyTxn
<1>2. CASE n # m
  <2>1. owner[q] = n => committed'[q] = committed[q]
    BY <1>0, <1>1, <1>2 DEF OwnerLeads
  <2>2. txn'[n] = txn[n]
    BY <1>0, <1>2 DEF ApplyTxn, ClearTxn
  <2> QED
    BY <2>1, <2>2 DEF CoveredAt
<1>3. CASE n = m
  <2>1. txn'[m][<<q, o>>] = 0
    BY ClearsTo, Tuples DEF ApplyTxn
  <2>2. q \in held[m] => sent[m][q] = position[m][q]
    BY <1>3 DEF SentOnce
  <2>3. q \in held[m] /\ owner[q] = m => ~(committed'[q] <= o /\ o < position[m][q])
    BY <1>0, <1>1, <2>2
  <2> QED
    BY <1>3, <2>1, <2>3 DEF CoveredAt
<1> QED
  BY <1>2, <1>3

LEMMA CoveredDown ==
  ASSUME TypeOK, NEW m \in Members, GoDown(m),
         NEW n \in Members, NEW q \in Partitions, NEW o \in 0 .. N-1, CoveredAt(n, q, o)
  PROVE  CoveredAt(n, q, o)'
<1>1. CASE n = m
  <2>1. held'[m] = {}
    BY DEF GoDown, TypeOK
  <2> QED
    BY <1>1, <2>1 DEF CoveredAt
<1>2. CASE n # m
  <2>1. UNCHANGED <<txn, committed, failed, astray>>
    BY DEF GoDown, history
  <2>2. /\ txnState'[n] = txnState[n] /\ held'[n] = held[n]
        /\ position'[n] = position[n] /\ current'[n] = current[n]
    BY <1>2 DEF GoDown, TypeOK
  <2>3. owner'[q] = n => owner[q] = n
    BY <1>2, EosNames DEF GoDown, TypeOK
  <2> QED
    BY <2>1, <2>2, <2>3, CoveredKept
<1> QED
  BY <1>1, <1>2

LEMMA CoveredStep ==
  ASSUME TypeOK, InHand, OwnerLeads, SentOnce, NothingLeftBehind, Covered, [Next]_vars
  PROVE  Covered'
<1> SUFFICES ASSUME NEW n \in Members, NEW q \in Partitions, NEW o \in 0 .. N-1
              PROVE  CoveredAt(n, q, o)'
  BY DEF Covered
<1>0. /\ pc \in [Members -> Locations]
      /\ held \in [Members -> SUBSET Partitions]
      /\ revoking \in [Members -> SUBSET Partitions]
      /\ position \in [Members -> [Partitions -> 0 .. N]]
      /\ txn \in [Members -> [Messages -> Nat]]
      /\ sent \in [Members -> [Partitions -> 0 .. N]]
      /\ txnState \in [Members -> TxnStates]
      /\ owner \in [Partitions -> Members \union {Nobody}]
      /\ committed \in [Partitions -> 0 .. N]
      /\ current \in [Members -> Messages \union {NoMessage}]
  BY DEF TypeOK
<1>a. CoveredAt(n, q, o) /\ <<q, o>> \in Messages
  BY Tuples DEF Covered
<1>1. ASSUME NEW m \in Members, Runs(m) PROVE CoveredAt(n, q, o)'
  <2>1. CASE LeaveLoop(m)
    BY <1>0, <1>a, <2>1 DEF LeaveLoop, Disrupt, member, trans, broker, history,
       CoveredAt, Empty
  <2>2. ASSUME NEW p \in Partitions, PollMessage(m, p) PROVE CoveredAt(n, q, o)'
    <3>1. CASE n # m
      <4>1. UNCHANGED <<held, owner, txn, txnState, failed, astray, committed>>
        BY <2>2 DEF PollMessage, trans, broker, history
      <4>2. position'[n] = position[n] /\ current'[n] = current[n]
        BY <1>0, <2>2, <3>1 DEF PollMessage
      <4> QED
        BY <1>a, <4>1, <4>2, CoveredKept
    <3>2. CASE n = m
      <4>1. UNCHANGED <<held, owner, txn, txnState, failed, astray, committed>>
        BY <2>2 DEF PollMessage, trans, broker, history
      <4>2. current[m] # <<q, o>>
        BY <1>a, <2>2, EosNames DEF PollMessage, Polls, InHand
      <4>3. /\ current'[m] = <<p, position[m][p]>>
            /\ position'[m][p] = position[m][p] + 1
            /\ q # p => position'[m][q] = position[m][q]
        BY <1>0, <2>2 DEF PollMessage
      <4>4. CASE q # p
        BY <1>a, <3>2, <4>1, <4>2, <4>3, <4>4 DEF CoveredAt
      <4>5. CASE q = p
        BY <1>0, <1>a, <3>2, <4>1, <4>2, <4>3, <4>5 DEF CoveredAt
      <4> QED
        BY <4>4, <4>5
    <3> QED
      BY <3>1, <3>2
  <2>3. CASE ProcessOk(m)
    <3>1. UNCHANGED <<held, position, owner, txnState, failed, astray, committed>>
      BY <2>3 DEF ProcessOk, MessageDone, broker, history
    <3>2. CASE n # m
      <4>1. txn'[n] = txn[n] /\ current'[n] = current[n]
        BY <1>0, <2>3, <3>2 DEF ProcessOk, MessageDone
      <4> QED
        BY <1>a, <3>1, <4>1, CoveredKept
    <3>3. CASE n = m
      <4>1. /\ current'[m] = NoMessage /\ <<q, o>> # NoMessage
            /\ current[m] \in Messages
            /\ position[m][current[m][1]] = current[m][2] + 1
        BY <1>0, <1>a, <2>3, EosNames DEF ProcessOk, MessageDone, InHand
      <4>2. CASE txnState[m] # "open"
        BY <3>1, <3>3, <4>2 DEF CoveredAt
      <4>3. CASE txnState[m] = "open" /\ <<q, o>> # current[m]
        <5>1. txn'[m][<<q, o>>] = txn[m][<<q, o>>]
          BY <1>0, <1>a, <2>3, <4>1, <4>3 DEF ProcessOk
        <5> QED
          BY <1>a, <3>1, <3>3, <4>1, <4>3, <5>1 DEF CoveredAt
      <4>4. CASE txnState[m] = "open" /\ <<q, o>> = current[m]
        <5>1. txn'[m][<<q, o>>] = txn[m][<<q, o>>] + 1
          BY <1>0, <1>a, <2>3, <4>1, <4>4 DEF ProcessOk
        <5>2. position[m][q] = o + 1
          BY <4>1, <4>4
        <5>3. owner[q] = m => committed[q] <= o
          <6>1. pc[m] = "process" /\ current[m][1] = q
            BY <2>3, <4>4 DEF ProcessOk, MessageDone
          <6>2. owner[q] = m => committed[q] < position[m][q]
            BY <6>1 DEF OwnerLeads
          <6>3. committed[q] \in Int
            BY <1>0
          <6> QED
            BY <5>2, <6>2, <6>3
        <5> QED
          BY <1>0, <1>a, <3>1, <3>3, <4>1, <4>4, <5>1, <5>2, <5>3 DEF CoveredAt
      <4> QED
        BY <4>2, <4>3, <4>4
    <3> QED
      BY <3>2, <3>3
  <2>4. CASE ProcessFail(m)
    <3>1. UNCHANGED <<held, position, owner, txn, txnState, astray, committed>>
      BY <2>4 DEF ProcessFail, MessageDone, broker, trans
    <3>2. failed' = failed \union {current[m]}
      BY <2>4 DEF ProcessFail
    <3>3. CASE n # m
      <4>1. current'[n] = current[n]
        BY <1>0, <2>4, <3>3 DEF ProcessFail, MessageDone
      <4> QED
        BY <1>a, <3>1, <3>2, <4>1, CoveredKept
    <3>4. CASE n = m
      <4>1. current'[m] = NoMessage /\ <<q, o>> # NoMessage
        BY <1>0, <1>a, <2>4, EosNames DEF ProcessFail, MessageDone
      <4> QED
        BY <1>a, <3>1, <3>2, <3>4, <4>1 DEF CoveredAt
    <3> QED
      BY <3>3, <3>4
  <2>5. CASE SendOffsets(m)
    BY <1>0, <1>a, <2>5 DEF SendOffsets, SendAccepted, AssignmentLost, Positions,
       Returns, Stranded, Disrupt, member, trans, broker, history, CoveredAt, Empty
  <2>6. CASE CommitTxn(m)
    <3>1. UNCHANGED <<held, position, current, owner, failed, astray>>
      BY <2>6 DEF CommitTxn, history
    <3>2. txnState[m] = "open" /\ \A a \in Members \ {m} : txnState'[a] = txnState[a]
      BY <1>0, <2>6 DEF CommitTxn
    <3> QED
      BY <1>0, <1>a, <2>6, <3>1, <3>2, CoveredApplied DEF CommitTxn
  <2>7. CASE CommitTxnFails(m)
    BY <1>0, <1>a, <2>7 DEF CommitTxnFails, Returns, Disrupt, member, trans, broker,
       history, CoveredAt, Empty
  <2>8. CASE AbortTxn(m)
    <3>1. UNCHANGED <<held, current, owner, failed, committed>> /\ astray \subseteq astray'
      BY <2>8 DEF AbortTxn, broker
    <3>2. CASE n # m
      <4>1. txnState'[n] = txnState[n] /\ txn'[n] = txn[n] /\ position'[n] = position[n]
        BY <1>0, <2>8, <3>2 DEF AbortTxn, ClearTxn, Rewind
      <4> QED
        BY <1>a, <3>1, <4>1, CoveredKept
    <3>3. CASE n = m
      <4>1. txn'[m][<<q, o>>] = 0
        BY <1>a, <2>8, ClearsTo DEF AbortTxn
      <4>2. CASE Rewind(m, held[m])
        <5>1. q \in held[m] => position'[m][q] = committed[q]
          BY <4>2, RewindsTo
        <5> QED
          BY <1>0, <3>1, <3>3, <4>1, <5>1 DEF CoveredAt
      <4>3. ASSUME NEW p \in held[m], Rewind(m, held[m] \ {p}), astray' = astray \union Skipped(m, p)
            PROVE  CoveredAt(n, q, o)'
        <5>1. CASE q = p
          <6>1. position'[m][q] = position[m][q]
            BY <4>3, <5>1, RewindsTo
          <6>2. <<q, o>> \notin astray' => ~(committed[q] <= o /\ o < position[m][q])
            BY <1>a, <4>3, <5>1 DEF Skipped
          <6> QED
            BY <3>1, <3>3, <4>1, <6>1, <6>2 DEF CoveredAt
        <5>2. CASE q # p
          <6>1. q \in held[m] => position'[m][q] = committed[q]
            BY <4>3, <5>2, RewindsTo
          <6> QED
            BY <1>0, <3>1, <3>3, <4>1, <6>1 DEF CoveredAt
        <5> QED
          BY <5>1, <5>2
      <4> QED
        BY <2>8, <4>2, <4>3 DEF AbortTxn
    <3> QED
      BY <3>2, <3>3
  <2>9. CASE AbortTxnFails(m)
    BY <1>0, <1>a, <2>9 DEF AbortTxnFails, CanAbort, ClearTxn, Rewind, Returns, Disrupt,
       member, trans, broker, history, CoveredAt, Empty
  <2>10. CASE Unassign(m)
    <3>1. UNCHANGED <<current, txn, txnState, failed, astray, committed>>
      BY <2>10 DEF Unassign, trans, history
    <3>2. /\ q \in held'[n] => q \in held[n] /\ (n # m \/ q \notin revoking[m])
          /\ owner'[q] = n => owner[q] = n
          /\ n # m \/ q \notin revoking[m] => position'[n][q] = position[n][q]
      BY <1>0, <2>10, EosNames DEF Unassign, GiveBack
    <3> QED
      BY <1>a, <3>1, <3>2 DEF CoveredAt
  <2>11. CASE RevokedLost(m)
    <3>1. UNCHANGED <<current, txn, txnState, failed, committed>> /\ astray \subseteq astray'
      BY <2>11 DEF RevokedLost, trans
    <3>2. /\ q \in held'[n] => q \in held[n] /\ n # m
          /\ owner'[q] = n => owner[q] = n
          /\ n # m => position'[n][q] = position[n][q]
      BY <1>0, <2>11, EosNames DEF RevokedLost, GiveBack
    <3> QED
      BY <1>a, <3>1, <3>2 DEF CoveredAt
  <2>12. CASE Close(m)
    BY <1>0, <1>a, <2>12 DEF Close, AssignmentLost, OnRevokedTarget, member, trans,
       broker, history, CoveredAt, Empty
  <2>13. CASE Exit(m)
    <3>1. GoDown(m)
      BY <2>13 DEF Exit
    <3> QED
      BY <1>0, <1>a, <3>1, CoveredDown
  <2>14. CASE PollNothing(m)
    BY <1>0, <1>a, <2>14 DEF PollNothing, vars, member, trans, broker, history,
       CoveredAt, Empty
  <2> QED
    BY <1>1, <2>1, <2>2, <2>3, <2>4, <2>5, <2>6, <2>7, <2>8, <2>9, <2>10, <2>11, <2>12,
       <2>13, <2>14 DEF Runs
<1>2. ASSUME NEW m \in Members, Start(m) PROVE CoveredAt(n, q, o)'
  <2>1. UNCHANGED <<held, position, current, owner, failed, astray, committed>>
    BY <1>2 DEF Start, broker, history
  <2>2. CASE n = m
    <3>1. held[m] = {}
      BY <1>2 DEF Start, InHand
    <3> QED
      BY <2>1, <2>2, <3>1 DEF CoveredAt
  <2>3. CASE n # m
    <3>1. txnState'[n] = "open" => txnState[n] = "open" /\ txn'[n] = txn[n]
      BY <1>0, <1>2, <2>3 DEF Start
    <3> QED
      BY <1>a, <2>1, <3>1 DEF CoveredAt
  <2> QED
    BY <2>2, <2>3
<1>3. ASSUME NEW m \in Members, LateCommit(m) PROVE CoveredAt(n, q, o)'
  <2>1. UNCHANGED <<held, position, current, owner, failed, astray>>
    BY <1>3 DEF LateCommit, member, history
  <2>2. txnState'[m] = "none" /\ \A a \in Members \ {m} : txnState'[a] = txnState[a]
    BY <1>0, <1>3 DEF LateCommit
  <2>3. CASE n = m
    BY <2>2, <2>3 DEF CoveredAt
  <2>4. CASE n # m
    BY <1>0, <1>a, <1>3, <2>1, <2>2, <2>4, CoveredApplied DEF LateCommit
  <2> QED
    BY <2>3, <2>4
<1>4. ASSUME NEW m \in Members, TxnExpires(m) PROVE CoveredAt(n, q, o)'
  BY <1>0, <1>a, <1>4 DEF TxnExpires, ClearTxn, Disrupt, member, trans, broker, history,
     CoveredAt, Empty
<1>5. ASSUME NEW m \in Members, Crash(m) PROVE CoveredAt(n, q, o)'
  <2>1. GoDown(m)
    BY <1>5 DEF Crash
  <2> QED
    BY <1>0, <1>a, <2>1, CoveredDown
<1>6. ASSUME NEW m \in Members, Signal(m) PROVE CoveredAt(n, q, o)'
  BY <1>0, <1>a, <1>6 DEF Signal, Disrupt, member, trans, broker, history, CoveredAt,
     Empty
<1>7. ASSUME NEW m \in Members, Evict(m) PROVE CoveredAt(n, q, o)'
  <2>1. UNCHANGED <<held, position, current, txn, txnState, failed, astray, committed>>
    BY <1>7 DEF Evict, member, trans, history
  <2>2. owner'[q] = n => owner[q] = n
    BY <1>0, <1>7, EosNames DEF Evict
  <2> QED
    BY <1>a, <2>1, <2>2, CoveredKept
<1>8. ASSUME NEW m \in Members, NEW S \in SUBSET Partitions, Assigned(m, S)
      PROVE  CoveredAt(n, q, o)'
  <2>1. UNCHANGED <<current, txn, txnState, failed, astray, committed>>
    BY <1>8 DEF Assigned, trans, history
  <2>2. CASE n # m \/ q \notin S
    <3>1. /\ q \in held'[n] => q \in held[n]
          /\ owner'[q] = n => owner[q] = n
          /\ position'[n][q] = position[n][q]
      BY <1>0, <1>8, <2>2 DEF Assigned
    <3> QED
      BY <1>a, <2>1, <3>1, CoveredKept
  <2>3. CASE n = m /\ q \in S
    <3>1. position'[m][q] = committed[q] /\ owner[q] = Nobody
      BY <1>0, <1>8, <2>3 DEF Assigned
    <3>2. q \notin held[m]
      BY <1>8, <3>1, EosNames DEF Assigned, AssignmentLost
    <3>3. txnState[m] = "open" /\ <<q, o>> \notin astray => txn[m][<<q, o>>] = 0
      BY <3>2 DEF NothingLeftBehind
    <3> QED
      BY <1>0, <2>1, <2>3, <3>1, <3>3 DEF CoveredAt
  <2> QED
    BY <2>2, <2>3
<1>9. ASSUME NEW m \in Members, NEW S \in SUBSET Partitions, Revoked(m, S)
      PROVE  CoveredAt(n, q, o)'
  BY <1>0, <1>a, <1>9 DEF Revoked, Polls, AssignmentLost, OnRevokedTarget, Disrupt,
     member, trans, broker, history, CoveredAt, Empty
<1>10. CASE UNCHANGED vars
  BY <1>0, <1>a, <1>10 DEF vars, member, trans, broker, history, CoveredAt, Empty
<1> QED
  BY <1>1, <1>2, <1>3, <1>4, <1>5, <1>6, <1>7, <1>8, <1>9, <1>10 DEF Next

\* What a transaction that is going to commit says of the message <<p, o>>.
Backed(m, p, o) ==
  IF committed[p] <= o /\ o < sent[m][p]
  THEN txn[m][<<p, o>>] = 1 \/ (txn[m][<<p, o>>] = 0 /\ <<p, o>> \in failed)
  ELSE txn[m][<<p, o>>] = 0

Decided(m) == (pc[m] = "commit" /\ txnState[m] = "open") \/ txnState[m] = "committing"

\* A transaction whose offsets have been sent, or whose commit may still take effect,
\* moves no partition back and has one output for each offset it commits.
DecidedAt(m, p, o) ==
  Decided(m) =>
    /\ sent[m][p] > 0 => committed[p] <= sent[m][p]
    /\ <<p, o>> \notin astray => Backed(m, p, o)

DecidedIsBacked == \A m \in Members, p \in Partitions, o \in 0 .. N-1 : DecidedAt(m, p, o)

LEMMA DecidedApplied ==
  ASSUME TypeOK, SentOnce, NEW m \in Members, ApplyTxn(m), UNCHANGED <<failed, astray>>,
         NEW n \in Members, NEW q \in Partitions, NEW o \in 0 .. N-1, DecidedAt(n, q, o),
         n = m => ~Decided(m)',
         n # m => pc'[n] = pc[n] /\ txnState'[n] = txnState[n]
  PROVE  DecidedAt(n, q, o)'
<1>0. /\ committed \in [Partitions -> 0 .. N] /\ sent \in [Members -> [Partitions -> 0 .. N]]
      /\ txn \in [Members -> [Messages -> Nat]]
  BY DEF TypeOK
<1>1. CASE n = m
  BY <1>1 DEF DecidedAt, Decided
<1>2. CASE n # m
  <2>1. sent'[n] = sent[n] /\ txn'[n] = txn[n]
    BY <1>0, <1>2 DEF ApplyTxn, ClearTxn
  <2>2. sent[n][q] = 0 \/ committed'[q] = committed[q]
    BY <1>0, <1>2 DEF ApplyTxn, SentOnce
  <2>3. Decided(n)' => Decided(n)
    BY <1>2 DEF Decided
  <2> QED
    BY <1>0, <2>1, <2>2, <2>3 DEF DecidedAt, Backed
<1> QED
  BY <1>1, <1>2

LEMMA DecidedStep ==
  ASSUME TypeOK, InHand, OwnerLeads, SentOnce, NothingLeftBehind, Covered,
        DecidedIsBacked, [Next]_vars
  PROVE  DecidedIsBacked'
<1> SUFFICES ASSUME NEW n \in Members, NEW q \in Partitions, NEW o \in 0 .. N-1
              PROVE  DecidedAt(n, q, o)'
  BY DEF DecidedIsBacked
<1>0. /\ pc \in [Members -> Locations]
      /\ held \in [Members -> SUBSET Partitions]
      /\ revoking \in [Members -> SUBSET Partitions]
      /\ position \in [Members -> [Partitions -> 0 .. N]]
      /\ txn \in [Members -> [Messages -> Nat]]
      /\ sent \in [Members -> [Partitions -> 0 .. N]]
      /\ txnState \in [Members -> TxnStates]
      /\ owner \in [Partitions -> Members \union {Nobody}]
      /\ committed \in [Partitions -> 0 .. N]
      /\ current \in [Members -> Messages \union {NoMessage}]
  BY DEF TypeOK
<1>a. DecidedAt(n, q, o) /\ <<q, o>> \in Messages
  BY Tuples DEF DecidedIsBacked
<1>1. ASSUME NEW m \in Members, Runs(m) PROVE DecidedAt(n, q, o)'
  <2>1. CASE LeaveLoop(m)
    BY <1>0, <1>a, <2>1 DEF LeaveLoop, Disrupt, member, trans, broker, history,
       DecidedAt, Decided, Backed, Empty, Zero
  <2>2. ASSUME NEW p \in Partitions, PollMessage(m, p) PROVE DecidedAt(n, q, o)'
    BY <1>0, <1>a, <2>2 DEF PollMessage, Polls, member, trans, broker, history,
       DecidedAt, Decided, Backed, Empty, Zero
  <2>3. CASE ProcessOk(m)
    BY <1>0, <1>a, <2>3 DEF ProcessOk, MessageDone, TxnIsFull, member, trans, broker,
       history, DecidedAt, Decided, Backed, Empty, Zero
  <2>4. CASE ProcessFail(m)
    BY <1>0, <1>a, <2>4 DEF ProcessFail, MessageDone, TxnIsFull, Disrupt, member, trans,
       broker, history, DecidedAt, Decided, Backed, Empty, Zero
  <2>5. CASE SendOffsets(m)
    <3>1. /\ UNCHANGED <<held, position, current, owner, committed, txn, txnState, failed>>
          /\ astray \subseteq astray'
      BY <2>5 DEF SendOffsets, broker
    <3>2. CASE sent' = sent /\ pc'[m] # "commit"
      <4>1. Decided(n)' => Decided(n)
        BY <1>0, <2>5, <3>1, <3>2, ReturnsTo DEF SendOffsets, Decided
      <4> QED
        BY <1>a, <3>1, <3>2, <4>1 DEF DecidedAt, Backed
    <3>3. CASE /\ SendAccepted(m) /\ sent' = [sent EXCEPT ![m] = Positions(m)]
               /\ pc' = [pc EXCEPT ![m] = "commit"] /\ astray' = astray
      <4>1. CASE n # m
        <5>1. sent'[n] = sent[n] /\ pc'[n] = pc[n]
          BY <1>0, <3>3, <4>1
        <5> QED
          BY <1>a, <3>1, <3>3, <5>1 DEF DecidedAt, Decided, Backed
      <4>2. CASE n = m
        <5>1. sent'[m][q] = IF q \in held[m] THEN position[m][q] ELSE 0
          BY <1>0, <3>3 DEF Positions
        <5>2. txnState[m] = "open" /\ (q \in held[m] => owner[q] = m)
          BY <3>3 DEF SendAccepted, AssignmentLost
        <5>3. <<q, o>> # current[m]
          BY <1>a, <2>5, EosNames DEF SendOffsets, InHand
        <5>4. CASE q \in held[m]
          <6>1. committed[q] <= position[m][q]
            BY <5>2, <5>4 DEF OwnerLeads
          <6> QED
            BY <1>a, <3>1, <3>3, <4>2, <5>1, <5>2, <5>3, <5>4, <6>1 DEF
               DecidedAt, Backed, CoveredAt, Covered
        <5>5. CASE q \notin held[m]
          <6>1. <<q, o>> \notin astray => txn[m][<<q, o>>] = 0
            BY <5>2, <5>5 DEF NothingLeftBehind
          <6> QED
            BY <1>0, <3>1, <3>3, <4>2, <5>1, <5>5, <6>1 DEF DecidedAt, Backed
        <5> QED
          BY <5>4, <5>5
      <4> QED
        BY <4>1, <4>2
    <3> QED
      BY <1>0, <2>5, <3>2, <3>3, ReturnsTo DEF SendOffsets
  <2>6. CASE CommitTxn(m)
    <3>1. UNCHANGED <<failed, astray>> /\ pc'[m] # "commit" /\ txnState'[m] # "committing"
      BY <1>0, <2>6, ReturnsTo DEF CommitTxn, history
    <3>2. n # m => pc'[n] = pc[n] /\ txnState'[n] = txnState[n]
      BY <1>0, <2>6, ReturnsTo DEF CommitTxn
    <3> QED
      BY <1>a, <2>6, <3>1, <3>2, DecidedApplied DEF CommitTxn, Decided
  <2>7. CASE CommitTxnFails(m)
    BY <1>0, <1>a, <2>7 DEF CommitTxnFails, Returns, Disrupt, member, trans, broker,
       history, DecidedAt, Decided, Backed, Empty, Zero
  <2>8. CASE AbortTxn(m)
    BY <1>0, <1>a, <2>8 DEF AbortTxn, CanAbort, ClearTxn, Rewind, Skipped, Returns,
       Disrupt, member, trans, broker, history, DecidedAt, Decided, Backed, Empty, Zero
  <2>9. CASE AbortTxnFails(m)
    BY <1>0, <1>a, <2>9 DEF AbortTxnFails, CanAbort, ClearTxn, Rewind, Returns, Disrupt,
       member, trans, broker, history, DecidedAt, Decided, Backed, Empty, Zero
  <2>10. CASE Unassign(m)
    BY <1>0, <1>a, <2>10 DEF Unassign, GiveBack, member, trans, broker, history,
       DecidedAt, Decided, Backed, Empty, Zero
  <2>11. CASE RevokedLost(m)
    BY <1>0, <1>a, <2>11 DEF RevokedLost, Polls, AssignmentLost, GiveBack, Stranded,
       member, trans, broker, history, DecidedAt, Decided, Backed, Empty, Zero
  <2>12. CASE Close(m)
    BY <1>0, <1>a, <2>12 DEF Close, AssignmentLost, OnRevokedTarget, member, trans,
       broker, history, DecidedAt, Decided, Backed, Empty, Zero
  <2>13. CASE Exit(m)
    BY <1>0, <1>a, <2>13 DEF Exit, GoDown, AssignmentLost, member, trans, broker,
       history, DecidedAt, Decided, Backed, Empty, Zero
  <2>14. CASE PollNothing(m)
    BY <1>0, <1>a, <2>14 DEF PollNothing, vars, member, trans, broker, history,
       DecidedAt, Decided, Backed, Empty, Zero
  <2> QED
    BY <1>1, <2>1, <2>2, <2>3, <2>4, <2>5, <2>6, <2>7, <2>8, <2>9, <2>10, <2>11, <2>12,
       <2>13, <2>14 DEF Runs
<1>2. ASSUME NEW m \in Members, Start(m) PROVE DecidedAt(n, q, o)'
  BY <1>0, <1>a, <1>2 DEF Start, member, trans, broker, history, DecidedAt, Decided,
     Backed, Empty, Zero
<1>3. ASSUME NEW m \in Members, LateCommit(m) PROVE DecidedAt(n, q, o)'
  <2>1. UNCHANGED <<pc, failed, astray>>
    BY <1>3 DEF LateCommit, member, history
  <2>2. txnState'[m] = "none" /\ (n # m => txnState'[n] = txnState[n])
    BY <1>0, <1>3 DEF LateCommit
  <2> QED
    BY <1>a, <1>3, <2>1, <2>2, DecidedApplied DEF LateCommit, Decided
<1>4. ASSUME NEW m \in Members, TxnExpires(m) PROVE DecidedAt(n, q, o)'
  BY <1>0, <1>a, <1>4 DEF TxnExpires, ClearTxn, Disrupt, member, trans, broker, history,
     DecidedAt, Decided, Backed, Empty, Zero
<1>5. ASSUME NEW m \in Members, Crash(m) PROVE DecidedAt(n, q, o)'
  BY <1>0, <1>a, <1>5 DEF Crash, GoDown, Disrupt, member, trans, broker, history,
     DecidedAt, Decided, Backed, Empty, Zero
<1>6. ASSUME NEW m \in Members, Signal(m) PROVE DecidedAt(n, q, o)'
  BY <1>0, <1>a, <1>6 DEF Signal, Disrupt, member, trans, broker, history, DecidedAt,
     Decided, Backed, Empty, Zero
<1>7. ASSUME NEW m \in Members, Evict(m) PROVE DecidedAt(n, q, o)'
  BY <1>0, <1>a, <1>7 DEF Evict, AssignmentLost, Disrupt, member, trans, broker,
     history, DecidedAt, Decided, Backed, Empty, Zero
<1>8. ASSUME NEW m \in Members, NEW S \in SUBSET Partitions, Assigned(m, S)
      PROVE  DecidedAt(n, q, o)'
  BY <1>0, <1>a, <1>8 DEF Assigned, Polls, AssignmentLost, member, trans, broker,
     history, DecidedAt, Decided, Backed, Empty, Zero
<1>9. ASSUME NEW m \in Members, NEW S \in SUBSET Partitions, Revoked(m, S)
      PROVE  DecidedAt(n, q, o)'
  BY <1>0, <1>a, <1>9 DEF Revoked, Polls, AssignmentLost, OnRevokedTarget, Disrupt,
     member, trans, broker, history, DecidedAt, Decided, Backed, Empty, Zero
<1>10. CASE UNCHANGED vars
  BY <1>0, <1>a, <1>10 DEF vars, member, trans, broker, history, DecidedAt, Decided,
     Backed, Empty, Zero
<1> QED
  BY <1>1, <1>2, <1>3, <1>4, <1>5, <1>6, <1>7, <1>8, <1>9, <1>10 DEF Next

(***************************************************************************)
(* The theorems.                                                           *)
(***************************************************************************)
\* The inductive invariant.
Sound ==
  /\ TypeOK /\ InHand
  /\ OwnerLeads /\ SentOnce
  /\ NothingLeftBehind /\ Covered /\ DecidedIsBacked

LEMMA SoundInit ==
  ASSUME Init
  PROVE  Sound
<1>1. TypeOK
  BY EosNames DEF Init, TypeOK, Zero, Empty, TxnStates, Locations
<1>2. InHand /\ OwnerLeads
  BY EosNames DEF Init, InHand, OwnerLeads
<1>3. SentOnce /\ NothingLeftBehind
  BY Tuples DEF Init, SentOnce, NothingLeftBehind, Zero, Empty
<1>4. Covered /\ DecidedIsBacked
  BY DEF Init, Covered, CoveredAt, DecidedIsBacked, DecidedAt, Decided
<1> QED
  BY <1>1, <1>2, <1>3, <1>4 DEF Sound

LEMMA SoundStep ==
  ASSUME Sound, [Next]_vars
  PROVE  Sound'
<1>1. TypeOK' /\ InHand'
  BY TypeStep, InHandStep DEF Sound
<1>2. OwnerLeads' /\ SentOnce'
  BY OwnerLeadsStep, SentOnceStep DEF Sound
<1>3. NothingLeftBehind' /\ Covered' /\ DecidedIsBacked'
  BY NothingLeftBehindStep, CoveredStep, DecidedStep DEF Sound
<1> QED
  BY <1>1, <1>2, <1>3 DEF Sound

LEMMA SoundAlways == Spec => []Sound
<1>1. Init => Sound
  BY SoundInit
<1>2. Sound /\ [Next]_vars => Sound'
  BY SoundStep
<1> QED
  BY <1>1, <1>2, PTL DEF Spec

\* Every variable keeps its type: no position, and no offset sent or committed, passes
\* the end of its partition, and txnCount stays below txnEvery (main.go:378-384).
THEOREM TypeCorrect == Spec => []TypeOK
<1>1. Sound => TypeOK
  BY DEF Sound
<1> QED
  BY <1>1, SoundAlways, PTL

\* What the transaction of a member holds is what its positions say, through rebalances,
\* aborts with their rewind (main.go:594-608), fencing, timeouts and restarts: one output
\* for each message between the group's offset and the position, none for another.
THEOREM TransactionCoversPositions == Spec => []TxnCovers
<1>1. Sound => TxnCovers
  BY CoveredTxn DEF Sound
<1> QED
  BY <1>1, SoundAlways, PTL

\* The commit of a decided transaction is a Transact step of ExactlyOnce.
LEMMA ApplyIsTransact ==
  ASSUME Sound, NEW m \in Members, ApplyTxn(m), Decided(m), UNCHANGED history
  PROVE  Promise!Transact
<1>1. UNCHANGED <<failed, astray>>
  BY DEF history
<1>2. committed' \in [Partitions -> 0 .. N] /\ visible' \in [Messages -> Nat]
  BY ApplyType DEF Sound
<1>3. ASSUME NEW p \in Partitions PROVE committed[p] <= committed'[p]
  <2>1. committed[p] \in 0 .. N /\ sent[m][p] \in 0 .. N
    BY DEF Sound, TypeOK
  <2>2. sent[m][p] > 0 => committed[p] <= sent[m][p]
    <3>1. sent[m][p] > 0 => 0 \in 0 .. N-1
      BY <2>1
    <3> QED
      BY <3>1 DEF Sound, DecidedIsBacked, DecidedAt
  <2> QED
    BY <2>1, <2>2 DEF ApplyTxn
<1>4. ASSUME NEW i \in Messages \ astray
      PROVE  visible'[i] - visible[i] \in Promise!Owed(i, committed')
  <2>1. i[1] \in Partitions /\ i[2] \in 0 .. N-1 /\ i = <<i[1], i[2]>>
    BY Tuples
  <2>2. Backed(m, i[1], i[2])
    BY <1>4, <2>1 DEF Sound, DecidedIsBacked, DecidedAt
  <2>3. /\ txn[m][i] \in Nat /\ visible[i] \in Nat
        /\ sent[m][i[1]] \in 0 .. N /\ committed[i[1]] \in 0 .. N
    BY <2>1 DEF Sound, TypeOK
  <2>4. visible'[i] - visible[i] = txn[m][i]
    BY <2>3 DEF ApplyTxn
  <2>5. committed'[i[1]] = IF sent[m][i[1]] > 0 THEN sent[m][i[1]] ELSE committed[i[1]]
    BY <2>1 DEF ApplyTxn
  <2>6. committed[i[1]] <= i[2] /\ i[2] < sent[m][i[1]] <=>
          committed[i[1]] <= i[2] /\ i[2] < committed'[i[1]]
    BY <2>1, <2>3, <2>5
  <2>7. IF committed[i[1]] <= i[2] /\ i[2] < committed'[i[1]]
        THEN txn[m][i] = 1 \/ (txn[m][i] = 0 /\ i \in failed)
        ELSE txn[m][i] = 0
    BY <2>1, <2>2, <2>6 DEF Backed
  <2> QED
    BY <2>4, <2>7 DEF Promise!Owed
<1> QED
  BY <1>1, <1>2, <1>3, <1>4 DEF Promise!Transact, Promise!Inputs, Messages

\* Every step is a Transact step, an Excuse step or a stutter.
LEMMA StepKeepsPromise ==
  ASSUME Sound, [Next]_vars
  PROVE  [Promise!Next]_<<committed, visible, failed, astray>>
<1>1. ASSUME UNCHANGED <<committed, visible>>, failed \subseteq failed', astray \subseteq astray'
      PROVE  Promise!Next
  <2>1. failed' \subseteq Messages /\ astray' \subseteq Messages
    BY TypeStep DEF Sound, TypeOK
  <2> QED
    BY <1>1, <2>1 DEF Promise!Next, Promise!Excuse, Promise!Inputs, Messages
<1>2. ASSUME NEW m \in Members, CommitTxn(m) PROVE Promise!Next
  BY <1>2, ApplyIsTransact DEF CommitTxn, Decided, Promise!Next
<1>3. ASSUME NEW m \in Members, LateCommit(m) PROVE Promise!Next
  BY <1>3, ApplyIsTransact DEF LateCommit, Decided, Promise!Next
<1>4. CASE UNCHANGED vars
  BY <1>4 DEF vars, broker, history
<1>5. ASSUME NEW m \in Members, Runs(m), ~CommitTxn(m) PROVE Promise!Next
  BY <1>1, <1>5 DEF Runs, LeaveLoop, PollNothing, PollMessage, ProcessOk, ProcessFail,
     SendOffsets, CommitTxnFails, AbortTxn, AbortTxnFails, Unassign, RevokedLost, Close,
     Exit, GoDown, vars, broker, history
<1>6. ASSUME NEW m \in Members,
             \/ Start(m) \/ TxnExpires(m) \/ Crash(m) \/ Signal(m) \/ Evict(m)
             \/ \E S \in SUBSET Partitions : Assigned(m, S) \/ Revoked(m, S)
      PROVE  Promise!Next
  BY <1>1, <1>6 DEF Start, TxnExpires, Crash, Signal, Evict, Assigned, Revoked,
     GoDown, broker, history
<1> QED
  BY <1>2, <1>3, <1>4, <1>5, <1>6 DEF Next

\* Consume-transform-produce (commitTransaction, main.go:549-585) implements the atomic
\* promise of LAB.md: offsets and outputs become visible together, one output per input,
\* and a member that is fenced, evicted, restarted or late commits nothing of its own.
THEOREM ConsumerEosRefinesExactlyOnce == Spec => RefinesExactlyOnce
<1>1. Init => Promise!Init
  BY DEF Init, Promise!Init, Promise!Inputs, Messages, Zero, Empty
<1>2. Sound /\ [Next]_vars => [Promise!Next]_<<committed, visible, failed, astray>>
  BY StepKeepsPromise
<1> QED
  BY <1>1, <1>2, SoundAlways, PTL DEF Spec, RefinesExactlyOnce, Promise!Spec

\* Exactly once, as a state shows it: a message behind the group's offset has one visible
\* output, or none if process failed on it, and a message that is not has none, for all
\* but the messages a failed lookup, seek or eviction let go astray (main.go:549-608).
THEOREM OutputsAreVisibleOnce == Spec => []VisibleOnce
<1>1. Init => VisibleOnce
  BY DEF Init, VisibleOnce, Promise!EachOnce, Promise!Inputs, Zero, Empty, Messages
<1>2. Sound /\ VisibleOnce /\ [Next]_vars => VisibleOnce'
  <2> SUFFICES ASSUME Sound, VisibleOnce, [Next]_vars,
                      NEW i \in Messages, i \notin astray'
               PROVE  IF i[2] < committed'[i[1]]
                      THEN visible'[i] = 1 \/ (visible'[i] = 0 /\ i \in failed')
                      ELSE visible'[i] = 0
    BY DEF VisibleOnce, Promise!EachOnce, Promise!Inputs, Messages
  <2>1. /\ i[1] \in Partitions /\ i[2] \in 0 .. N-1
        /\ committed[i[1]] \in 0 .. N /\ committed'[i[1]] \in 0 .. N
        /\ visible[i] \in Nat /\ visible'[i] \in Nat
    BY Tuples, TypeStep DEF Sound, TypeOK
  <2>2. /\ astray \subseteq astray' /\ failed \subseteq failed'
        /\ Promise!Transact \/ UNCHANGED <<committed, visible>>
    BY StepKeepsPromise DEF Promise!Next, Promise!Transact, Promise!Excuse
  <2>3. IF i[2] < committed[i[1]]
        THEN visible[i] = 1 \/ (visible[i] = 0 /\ i \in failed)
        ELSE visible[i] = 0
    BY <2>2 DEF VisibleOnce, Promise!EachOnce, Promise!Inputs, Messages
  <2>4. CASE Promise!Transact
    <3>1. /\ committed[i[1]] <= committed'[i[1]]
          /\ visible'[i] - visible[i] \in Promise!Owed(i, committed')
      BY <2>1, <2>2, <2>4 DEF Promise!Transact, Promise!Inputs, Messages
    <3> QED
      BY <2>1, <2>2, <2>3, <3>1 DEF Promise!Owed
  <2>5. CASE UNCHANGED <<committed, visible>>
    BY <2>2, <2>3, <2>5
  <2> QED
    BY <2>2, <2>4, <2>5
<1> QED
  BY <1>1, <1>2, SoundAlways, PTL DEF Spec

(***************************************************************************)
(* The way out after a signal.                                             *)
(***************************************************************************)
\* A process that is gone has no context.
DownIsReset == \A m \in Members : pc[m] = "down" => ~ctxDone[m]

\* What a transaction call leaves of the way: at most what its caller still has to do.
LEMMA ReturnsLower ==
  ASSUME TypeOK, NEW m \in Members, NEW err \in BOOLEAN, Returns(m, err),
         pc[m] \in {"send", "commit", "abort"}
  PROVE  StepsLeft(m)' < StepsLeft(m)
<1>1. pc \in [Members -> Locations] /\ task[m] \in {"loop", "revoke", "stop", "close"}
      /\ task \in [Members -> {"loop", "revoke", "stop", "close"}]
  BY DEF TypeOK
<1>2. CASE task[m] = "loop" /\ err
  BY <1>1, <1>2 DEF Returns, StepsLeft
<1>3. CASE task[m] = "loop" /\ ~err
  BY <1>1, <1>3 DEF Returns, StepsLeft
<1>4. CASE task[m] = "stop"
  BY <1>1, <1>4 DEF Returns, StepsLeft
<1>5. CASE task[m] \in {"revoke", "close"}
  BY <1>1, <1>5 DEF Returns, StepsLeft
<1> QED
  BY <1>1, <1>2, <1>3, <1>4, <1>5

\* A step of m's goroutine after the signal is one of those left.
LEMMA RunsLeadOut ==
  ASSUME TypeOK, NEW m \in Members, ctxDone[m], Runs(m)
  PROVE  StepsLeft(m)' < StepsLeft(m)
<1>0. /\ pc \in [Members -> Locations]
      /\ task \in [Members -> {"loop", "revoke", "stop", "close"}]
      /\ task[m] \in {"loop", "revoke", "stop", "close"}
      /\ ~Polls(m)
  BY DEF TypeOK, Polls
<1>1. CASE LeaveLoop(m)
  BY <1>0, <1>1 DEF LeaveLoop, StepsLeft
<1>2. CASE ProcessOk(m) \/ ProcessFail(m)
  <2>1. MessageDone(m)
    BY <1>2 DEF ProcessOk, ProcessFail
  <2>2. CASE TxnIsFull(m)
    BY <1>0, <2>1, <2>2 DEF MessageDone, StepsLeft
  <2>3. CASE ~TxnIsFull(m)
    BY <1>0, <2>1, <2>3 DEF MessageDone, StepsLeft
  <2> QED
    BY <2>2, <2>3
<1>3. CASE SendOffsets(m)
  <2>1. CASE Returns(m, TRUE)
    BY <1>3, <2>1, ReturnsLower DEF SendOffsets
  <2>2. CASE pc' \in {[pc EXCEPT ![m] = "commit"], [pc EXCEPT ![m] = "abort"]} /\ task' = task
    BY <1>0, <1>3, <2>2 DEF SendOffsets, StepsLeft
  <2> QED
    BY <1>3, <2>1, <2>2 DEF SendOffsets
<1>4. CASE CommitTxn(m)
  BY <1>4, ReturnsLower DEF CommitTxn
<1>5. CASE CommitTxnFails(m)
  <2>1. CASE Returns(m, TRUE)
    BY <1>5, <2>1, ReturnsLower DEF CommitTxnFails
  <2>2. CASE pc' = [pc EXCEPT ![m] = "abort"] /\ task' = task
    BY <1>0, <1>5, <2>2 DEF CommitTxnFails, StepsLeft
  <2> QED
    BY <1>5, <2>1, <2>2 DEF CommitTxnFails
<1>6. CASE AbortTxn(m) \/ AbortTxnFails(m)
  BY <1>6, ReturnsLower DEF AbortTxn, AbortTxnFails
<1>7. CASE Unassign(m)
  BY <1>0, <1>7 DEF Unassign, StepsLeft
<1>8. CASE Close(m)
  BY <1>0, <1>8 DEF Close, OnRevokedTarget, StepsLeft
<1>9. CASE Exit(m)
  BY <1>0, <1>9 DEF Exit, GoDown, StepsLeft
<1> QED
  BY <1>0, <1>1, <1>2, <1>3, <1>4, <1>5, <1>6, <1>7, <1>8, <1>9
     DEF Runs, PollNothing, PollMessage, RevokedLost

\* What everybody else does leaves a member where it is, or brings it down.
LEMMA OthersStay ==
  ASSUME TypeOK, [Next]_vars, NEW m \in Members, ctxDone[m], pc[m] # "down", ~Runs(m)
  PROVE  pc'[m] = "down" \/ (pc'[m] = pc[m] /\ task'[m] = task[m])
<1>0. /\ pc \in [Members -> Locations]
      /\ task \in [Members -> {"loop", "revoke", "stop", "close"}]
      /\ ~Polls(m)
  BY DEF TypeOK, Polls
<1>1. ASSUME NEW n \in Members, n # m, Runs(n) PROVE pc'[m] = pc[m] /\ task'[m] = task[m]
  BY <1>0, <1>1 DEF Runs, LeaveLoop, PollNothing, PollMessage, MessageDone, ProcessOk,
     ProcessFail, SendOffsets, Returns, CommitTxn, CommitTxnFails, AbortTxn, AbortTxnFails,
     Unassign, RevokedLost, Close, Exit, GoDown, vars, member
<1>2. ASSUME NEW n \in Members, Crash(n)
      PROVE  pc'[m] = "down" \/ (pc'[m] = pc[m] /\ task'[m] = task[m])
  BY <1>0, <1>2 DEF Crash, GoDown
<1>3. ASSUME NEW n \in Members, Start(n) \/ LateCommit(n) \/ TxnExpires(n) \/ Signal(n) \/ Evict(n)
      PROVE  pc'[m] = pc[m] /\ task'[m] = task[m]
  BY <1>0, <1>3 DEF Start, LateCommit, TxnExpires, Signal, Evict, member
<1>4. ASSUME NEW n \in Members, NEW S \in SUBSET Partitions, Assigned(n, S) \/ Revoked(n, S)
      PROVE  pc'[m] = pc[m] /\ task'[m] = task[m]
  BY <1>0, <1>4 DEF Assigned, Revoked
<1>5. CASE UNCHANGED vars
  BY <1>5 DEF vars, member
<1> QED
  BY <1>1, <1>2, <1>3, <1>4, <1>5 DEF Next

LEMMA DownIsResetStep ==
  ASSUME TypeOK, DownIsReset, [Next]_vars
  PROVE  DownIsReset'
<1> SUFFICES ASSUME NEW m \in Members, pc'[m] = "down" PROVE ~ctxDone'[m]
  BY DEF DownIsReset
<1>0. pc \in [Members -> Locations] /\ ctxDone \in [Members -> BOOLEAN]
  BY DEF TypeOK
<1>1. ASSUME NEW n \in Members, Runs(n) PROVE ~ctxDone'[m]
  <2>1. CASE Exit(n)
    BY <1>0, <2>1 DEF Exit, GoDown, DownIsReset
  <2>2. CASE ~Exit(n)
    <3>1. ctxDone' = ctxDone
      BY <1>1, <2>2 DEF Runs, LeaveLoop, PollNothing, PollMessage, MessageDone, ProcessOk,
         ProcessFail, SendOffsets, CommitTxn, CommitTxnFails, AbortTxn, AbortTxnFails,
         Unassign, RevokedLost, Close, vars, member
    <3>2. pc'[m] = pc[m]
      BY <1>0, <1>1, <2>2 DEF Runs, LeaveLoop, PollNothing, PollMessage, MessageDone,
         ProcessOk, ProcessFail, SendOffsets, Returns, CommitTxn, CommitTxnFails, AbortTxn,
         AbortTxnFails, Unassign, RevokedLost, Close, OnRevokedTarget, vars, member
    <3> QED
      BY <3>1, <3>2 DEF DownIsReset
  <2> QED
    BY <2>1, <2>2
<1>2. ASSUME NEW n \in Members, Crash(n) PROVE ~ctxDone'[m]
  BY <1>0, <1>2 DEF Crash, GoDown, DownIsReset
<1>3. ASSUME NEW n \in Members, Start(n) \/ LateCommit(n) \/ TxnExpires(n) \/ Signal(n) \/ Evict(n)
      PROVE  ~ctxDone'[m]
  BY <1>0, <1>3 DEF Start, LateCommit, TxnExpires, Signal, Evict, member, DownIsReset
<1>4. ASSUME NEW n \in Members, NEW S \in SUBSET Partitions, Assigned(n, S) \/ Revoked(n, S)
      PROVE  ~ctxDone'[m]
  BY <1>0, <1>4 DEF Assigned, Revoked, OnRevokedTarget, DownIsReset
<1>5. CASE UNCHANGED vars
  BY <1>5 DEF vars, member, DownIsReset
<1> QED
  BY <1>1, <1>2, <1>3, <1>4, <1>5 DEF Next

\* The first signal leads out: whatever the coordinator answers, and whatever the other
\* processes and the rebalances do, a member whose context is cancelled tries each call
\* of the way out once and repeats none (main.go:355, 372-384, 549-608, 700-741).
THEOREM SignalsLeadOut == Spec => SignalLeadsOut
<1>1. Init => DownIsReset
  BY DEF Init, DownIsReset
<1>2. Sound /\ DownIsReset /\ [Next]_vars => DownIsReset'
  BY DownIsResetStep DEF Sound
<1>3. Sound /\ DownIsReset /\ [Next]_vars
        => [\A m \in Members : ctxDone[m] =>
              StepsLeft(m)' <= StepsLeft(m) /\ (Runs(m) => StepsLeft(m)' < StepsLeft(m))]_vars
  <2> SUFFICES ASSUME Sound, DownIsReset, [Next]_vars, NEW m \in Members, ctxDone[m]
               PROVE  /\ StepsLeft(m)' <= StepsLeft(m)
                      /\ Runs(m) => StepsLeft(m)' < StepsLeft(m)
    OBVIOUS
  <2>1. TypeOK /\ TypeOK' /\ pc[m] # "down"
    BY TypeStep DEF Sound, DownIsReset
  <2>2. StepsLeft(m) \in Nat /\ StepsLeft(m)' \in Nat
    <3>1. /\ pc[m] \in Locations /\ pc'[m] \in Locations
          /\ task[m] \in {"loop", "revoke", "stop", "close"}
          /\ task'[m] \in {"loop", "revoke", "stop", "close"}
      BY <2>1 DEF TypeOK
    <3> QED
      BY <3>1 DEF StepsLeft, Locations
  <2>3. CASE Runs(m)
    BY <2>1, <2>2, <2>3, RunsLeadOut
  <2>4. CASE ~Runs(m)
    <3>1. pc'[m] = "down" \/ (pc'[m] = pc[m] /\ task'[m] = task[m])
      BY <2>1, <2>4, OthersStay
    <3>2. StepsLeft(m)' = 0 \/ StepsLeft(m)' = StepsLeft(m)
      BY <3>1 DEF StepsLeft
    <3> QED
      BY <2>2, <2>4, <3>2
  <2> QED
    BY <2>3, <2>4
<1> QED
  BY <1>1, <1>2, <1>3, SoundAlways, PTL DEF Spec, SignalLeadsOut

=============================================================================
