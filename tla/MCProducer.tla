----------------------------- MODULE MCProducer -----------------------------
(***************************************************************************)
(* The limits of Producer's queues for model checking.                     *)
(***************************************************************************)
EXTENDS Producer

\* A local queue of two fills up outside transactions.  It has room for a transaction of
\* two: a message given up on because Ctrl+C meets a full queue would be counted as
\* committed (README, divergences).
Two == [m \in Modes |-> 2]

\* In a transaction the Events() channel must not be what stops a run, as in the
\* program, whose channel holds a million reports.
TwoOrAll == [m \in Modes |-> IF m = "transactional" THEN Count ELSE 2]

=============================================================================
