------------------------------ MODULE Bookmark ------------------------------
(***************************************************************************)
(* What the consumer group promises about its bookmark, the committed      *)
(* offset (README.md: "a consumer group keeps a bookmark").  Members       *)
(* handle messages in any order and any number of times; the bookmark of a *)
(* partition moves forward, and only over messages already handled.        *)
(***************************************************************************)
EXTENDS Integers

CONSTANTS Partitions, N

Messages == Partitions \X (0 .. N-1)

VARIABLES handled, committed

Init == handled = {} /\ committed = [p \in Partitions |-> 0]

Handle(msg) == handled' = handled \union {msg} /\ UNCHANGED committed

Covered(p, n) == \A o \in 0 .. N-1 : o < n => <<p, o>> \in handled

\* One commit may move the bookmarks of several partitions.
Advance ==
  /\ committed' \in [Partitions -> 0 .. N]
  /\ \A p \in Partitions : committed'[p] >= committed[p] /\ Covered(p, committed'[p])
  /\ UNCHANGED handled

Next == Advance \/ \E msg \in Messages : Handle(msg)

Spec == Init /\ [][Next]_<<handled, committed>>
=============================================================================
