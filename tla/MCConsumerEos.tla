---------------------------- MODULE MCConsumerEos ----------------------------
(***************************************************************************)
(* Values of the constants of ConsumerEos for model checking.              *)
(***************************************************************************)
EXTENDS ConsumerEos, TLC

\* The first message of partition 1 cannot be decoded.
OneIsPoison == {<<1, 0>>}

\* Members are interchangeable, and so are the two transactional ids.
AllSymmetry == Permutations(Members) \union Permutations(TxnIds)
=============================================================================
