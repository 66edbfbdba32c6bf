----------------------------- MODULE ExactlyOnce -----------------------------
(***************************************************************************)
(* What consume-transform-produce promises (LAB.md, exercise 11: "either   *)
(* the output exists and the input is marked done, or neither happened").  *)
(* One step marks inputs done and makes their outputs visible, one output  *)
(* per input.  An input that was given up on may be done without an        *)
(* output.  Of an input that went astray nothing is promised.              *)
(***************************************************************************)
EXTENDS Integers

CONSTANTS Partitions, N

Inputs == Partitions \X (0 .. N-1)

VARIABLES
  done,      \* per partition, the inputs below this offset are marked done
  output,    \* per input, how many of its outputs are visible
  givenUp,   \* inputs whose processing failed at some time
  astray     \* inputs the promise no longer holds for

Init ==
  /\ done = [p \in Partitions |-> 0]
  /\ output = [i \in Inputs |-> 0]
  /\ givenUp = {}
  /\ astray = {}

\* What may become of an input's outputs when done moves to newDone.
Owed(i, newDone) ==
  IF done[i[1]] <= i[2] /\ i[2] < newDone[i[1]]
  THEN IF i \in givenUp THEN {0, 1} ELSE {1}
  ELSE {0}

Transact ==
  /\ done' \in [Partitions -> 0 .. N]
  /\ output' \in [Inputs -> Nat]
  /\ \A p \in Partitions : done[p] <= done'[p]
  /\ \A i \in Inputs \ astray : output'[i] - output[i] \in Owed(i, done')
  /\ UNCHANGED <<givenUp, astray>>

Excuse ==
  /\ givenUp \subseteq givenUp' /\ givenUp' \subseteq Inputs
  /\ astray \subseteq astray' /\ astray' \subseteq Inputs
  /\ UNCHANGED <<done, output>>

Next == Transact \/ Excuse

Spec == Init /\ [][Next]_<<done, output, givenUp, astray>>

\* What a reader of the outputs may rely on at any time: an input that is marked done has
\* one output, or none if it was given up on; another has none.
EachOnce ==
  \A i \in Inputs \ astray :
    IF i[2] < done[i[1]]
    THEN output[i] = 1 \/ (output[i] = 0 /\ i \in givenUp)
    ELSE output[i] = 0

=============================================================================
