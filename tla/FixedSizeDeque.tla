--------------------------- MODULE FixedSizeDeque ---------------------------
(***************************************************************************)
(* The double ended queue of common/FixedSizeDeque.hpp: a fixed number of  *)
(* slots, the index m_begin of the first entry and the index m_end of the  *)
(* last one.  Both indices move without wrapping; a slot is found by       *)
(* reducing an index modulo the capacity.  The operators work on a record  *)
(*   [begin, end : Int, slot : [0 .. Capacity-1 -> entries]]               *)
(* so that a module may hold several queues.                               *)
(***************************************************************************)
EXTENDS Integers, Sequences

CONSTANT Capacity      \* m_storage.size( 0 ), the maxEntries of the constructor

ASSUME CapacityAssumption == Capacity \in Nat

Slots == 0 .. Capacity - 1

\* The remainder of C++, which has the sign of the dividend (b > 0 here).
CRem(a, b) == IF a >= 0 THEN a % b ELSE -((-a) % b)

\* The macro POSITIVE_MODULO.
PositiveModulo(a, b) == CRem(CRem(a, b) + b, b)

SlotOf(i) == PositiveModulo(i, Capacity)

\* The state the constructor leaves: storage that nobody initialized.
NewDeque(entry) == [begin |-> 0, end |-> -1, slot |-> [s \in Slots |-> entry]]

Empty(d) == d.begin > d.end
Size(d)  == d.end - d.begin + 1
FullLate(d) == Size(d) = Capacity + 1
Full(d)  == Size(d) = Capacity

\* Where the four accessors front(), next_front(), back(), next_back() point.
FrontSlot(d)     == SlotOf(d.begin)
NextFrontSlot(d) == SlotOf(d.begin - 1)
BackSlot(d)      == SlotOf(d.end)
NextBackSlot(d)  == SlotOf(d.end + 1)

FrontEntry(d) == d.slot[FrontSlot(d)]
BackEntry(d)  == d.slot[BackSlot(d)]

\* Copying an entry into a slot and moving an index are separate operations:
\* diskToHost() fills next_back() and then calls inc_back().
Write(d, s, v) == [d EXCEPT !.slot[s] = v]
PopFront(d)    == [d EXCEPT !.begin = d.begin + 1]
PopBack(d)     == [d EXCEPT !.end = d.end - 1]
IncFront(d)    == [d EXCEPT !.begin = d.begin - 1]
IncBack(d)     == [d EXCEPT !.end = d.end + 1]

EmplaceFront(d, v) == IncFront(Write(d, NextFrontSlot(d), v))
EmplaceBack(d, v)  == IncBack(Write(d, NextBackSlot(d), v))

\* The entries from the front to the back.
Contents(d) == [i \in 1 .. Size(d) |-> d.slot[SlotOf(d.begin + i - 1)]]
=============================================================================
