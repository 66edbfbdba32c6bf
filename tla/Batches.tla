------------------------------ MODULE Batches ------------------------------
(***************************************************************************)
(* What the transactional producer promises a read_committed consumer: the *)
(* messages 1 .. Count in batches of at most TxnSize, in order, and of a   *)
(* batch either every message or none.                                     *)
(***************************************************************************)
EXTENDS Integers

CONSTANTS Count, TxnSize

VARIABLES
  cursor,    \* the last message of the last batch that was closed
  visible    \* what a read_committed consumer sees

Init == cursor = 0 /\ visible = {}

Ends == {last \in cursor + 1 .. cursor + TxnSize : last <= Count}

CommitBatch ==
  \E last \in Ends :
    /\ visible' = visible \union (cursor + 1 .. last)
    /\ cursor' = last

AbortBatch == cursor' \in Ends /\ UNCHANGED visible

Spec == Init /\ [][CommitBatch \/ AbortBatch]_<<cursor, visible>>

=============================================================================
