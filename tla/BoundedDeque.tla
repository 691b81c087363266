---------------------------- MODULE BoundedDeque ----------------------------
(***************************************************************************)
(* What a fixed size double ended queue promises: a sequence of at most    *)
(* Capacity entries that grows and shrinks at both ends, and refuses the   *)
(* operations that would leave it with fewer than 0 or more than Capacity  *)
(* entries.                                                                *)
(***************************************************************************)
EXTENDS Integers, Sequences

CONSTANTS Capacity, Entries

VARIABLE q

Init == q = << >>

PutFront(v) == Len(q) < Capacity /\ q' = << v >> \o q
PutBack(v)  == Len(q) < Capacity /\ q' = Append(q, v)
TakeFront   == q # << >> /\ q' = Tail(q)
TakeBack    == q # << >> /\ q' = SubSeq(q, 1, Len(q) - 1)

Next ==
    \/ \E v \in Entries : PutFront(v) \/ PutBack(v)
    \/ TakeFront
    \/ TakeBack

Spec == Init /\ [][Next]_q
=============================================================================
