--------------------------- MODULE DequeOperations ---------------------------
(***************************************************************************)
(* One queue of common/FixedSizeDeque.hpp driven through every sequence of *)
(* calls its owner may make: the public operations with the checks each    *)
(* one starts with (GEOS_ERROR_IF stops the program, so the step of a      *)
(* refused call is no step), and the contract of BoundedDeque.             *)
(***************************************************************************)
EXTENDS FixedSizeDeque

CONSTANTS Entries,     \* what is stored, the arrays abstracted to a value
          Junk,        \* what an uninitialized slot holds
          Drift        \* bound on |m_begin|, which the program leaves to int

ASSUME DriftAssumption == Drift \in Nat /\ Junk \notin Entries

VARIABLE deque

Init == deque = NewDeque(Junk)

emplace_front(v) == ~Full(deque) /\ deque' = EmplaceFront(deque, v)
emplace_back(v)  == ~Full(deque) /\ deque' = EmplaceBack(deque, v)
pop_front        == ~Empty(deque) /\ deque' = PopFront(deque)
pop_back         == ~Empty(deque) /\ deque' = PopBack(deque)

InDrift(d) == d.begin \in -Drift .. Drift

Next ==
    /\ \/ \E v \in Entries : emplace_front(v) \/ emplace_back(v)
       \/ pop_front
       \/ pop_back
    /\ InDrift(deque')

Spec == Init /\ [][Next]_deque
-----------------------------------------------------------------------------
\* The queue is a bounded sequence, whatever its indices have drifted to:
\* emplace and pop at both ends act on the sequence of the entries from
\* m_begin to m_end (POSITIVE_MODULO finds a distinct slot for each of them).
Sequence == INSTANCE BoundedDeque WITH q <- Contents(deque)
IsBoundedSequence == Sequence!Spec
=============================================================================
