----------------------------- MODULE MCConsumer -----------------------------
(***************************************************************************)
(* Values of the constants of Consumer for model checking.  Partitions are *)
(* numbered as Kafka numbers them; members are model values.               *)
(***************************************************************************)
EXTENDS Consumer, TLC

\* The last message of partition 0 cannot be decoded: nothing behind it in the
\* partition can carry the offset over it.
LastIsPoison == {<<0, N-1>>}

NoPoison == {}

\* Members are interchangeable in every definition.  Used for safety only.
MemberSymmetry == Permutations(Members)
=============================================================================
