------------------------ MODULE DequeOperations_proofs ------------------------
(***************************************************************************)
(* The fixed size deque implements the bounded sequence, for every         *)
(* capacity and however far its indices drift.                             *)
(***************************************************************************)
EXTENDS DequeOperations, FixedSizeDeque_proofs, SequenceTheorems

Stored == Entries \cup {Junk}
Deques == [begin : Int, end : Int, slot : [Slots -> Stored]]

\* The inductive invariant: the indices are never further apart than the slots.
Bounded(d) == d \in Deques /\ Size(d) \in 0 .. Capacity

LEMMA SizeIsInt == ASSUME NEW d \in Deques PROVE Size(d) \in Int
  BY DEF Deques, Size

\* What the refinement mapping reads from the slots is a sequence.
LEMMA ContentsSeq ==
  ASSUME NEW d, Bounded(d)
  PROVE  /\ Contents(d) \in Seq(Stored)
         /\ Len(Contents(d)) = Size(d)
         /\ \A i \in 1 .. Size(d) : Contents(d)[i] = d.slot[SlotOf(d.begin + i - 1)]
<1>1. Size(d) \in Nat /\ Capacity \in Nat /\ d.begin \in Int /\ d.slot \in [Slots -> Stored]
  BY CapacityAssumption DEF Bounded, Deques
<1>2. \A i \in 1 .. Size(d) : d.slot[SlotOf(d.begin + i - 1)] \in Stored
  <2> SUFFICES ASSUME NEW i \in 1 .. Size(d) PROVE d.slot[SlotOf(d.begin + i - 1)] \in Stored
    OBVIOUS
  <2>1. Capacity > 0 /\ d.begin + i - 1 \in Int
    BY <1>1 DEF Bounded
  <2>2. SlotOf(d.begin + i - 1) \in Slots
    BY <2>1, SlotOfInSlots
  <2> QED
    BY <1>1, <2>2
<1>3. Contents(d) \in [1 .. Size(d) -> Stored]
  BY <1>2 DEF Contents
<1>4. Contents(d) \in Seq(Stored)
  BY <1>1, <1>3, SeqDef
<1>5. DOMAIN Contents(d) = 1 .. Size(d)
  BY DEF Contents
<1>6. Len(Contents(d)) = Size(d)
  BY <1>1, <1>4, <1>5, LenProperties
<1> QED
  BY <1>4, <1>6 DEF Contents

\* The slot of an index that is not live, and less than a capacity away from
\* all that are, is none of theirs.
LEMMA OtherSlots ==
  ASSUME NEW d, Bounded(d), ~Full(d), NEW j \in {d.begin - 1, d.end + 1},
         NEW i \in d.begin .. d.end
  PROVE  SlotOf(j) # SlotOf(i)
<1>1. /\ d.begin \in Int /\ d.end \in Int /\ i \in Int /\ j \in Int /\ Capacity \in Nat
      /\ d.end - d.begin + 1 < Capacity
  BY CapacityAssumption DEF Bounded, Deques, Full, Size
<1>2. j # i /\ -Capacity < j - i /\ j - i < Capacity
  BY <1>1
<1> QED
  BY <1>1, <1>2, SlotOfDistinct

LEMMA EmplacesFront ==
  ASSUME NEW d, Bounded(d), ~Full(d), NEW v \in Stored
  PROVE  /\ Bounded(EmplaceFront(d, v))
         /\ Contents(EmplaceFront(d, v)) = << v >> \o Contents(d)
<1> DEFINE s == SlotOf(d.begin - 1)
           e == EmplaceFront(d, v)
<1>1. /\ d.begin \in Int /\ d.end \in Int /\ d.slot \in [Slots -> Stored]
      /\ Capacity \in Nat /\ Size(d) \in 0 .. Capacity - 1 /\ Capacity > 0
      /\ Size(d) = d.end - d.begin + 1 /\ d \in Deques
  BY CapacityAssumption DEF Bounded, Deques, Full, Size
<1>2. s \in Slots
  BY <1>1, SlotOfInSlots
<1>3. e.begin = d.begin - 1 /\ e.end = d.end /\ e.slot = [d.slot EXCEPT ![s] = v]
      /\ e \in Deques
  <2> DEFINE f == [d.slot EXCEPT ![s] = v]
             w == Write(d, s, v)
  <2>1. f \in [Slots -> Stored]
    BY <1>1, <1>2
  <2>2. w = [d EXCEPT !.slot = f]
    BY DEF Write
  <2>3. e = [w EXCEPT !.begin = w.begin - 1]
    BY DEF EmplaceFront, IncFront, NextFrontSlot
  <2> HIDE DEF e, f, w
  <2>4. w \in Deques /\ w.begin = d.begin /\ w.end = d.end /\ w.slot = f
    BY <1>1, <2>1, <2>2 DEF Deques
  <2>5. e.begin = d.begin - 1 /\ e.end = d.end /\ e.slot = f /\ e \in Deques
    BY <1>1, <2>3, <2>4 DEF Deques
  <2> QED
    BY <2>5 DEF f
<1>4. Size(e) = Size(d) + 1 /\ Bounded(e)
  BY <1>1, <1>3 DEF Bounded, Size
<1> HIDE DEF e
<1>5. Contents(e) = << v >> \o Contents(d)
  <2>1. /\ Contents(d) \in Seq(Stored) /\ Len(Contents(d)) = Size(d)
        /\ \A i \in 1 .. Size(d) : Contents(d)[i] = d.slot[SlotOf(d.begin + i - 1)]
    BY ContentsSeq
  <2>2. /\ Contents(e) \in Seq(Stored) /\ Len(Contents(e)) = Size(d) + 1
        /\ \A i \in 1 .. Size(d) + 1 : Contents(e)[i] = e.slot[SlotOf(d.begin + i - 2)]
    <3>1. \A i \in 1 .. Size(d) + 1 : e.begin + i - 1 = d.begin + i - 2
      BY <1>1, <1>3
    <3> QED
      BY <1>4, <3>1, ContentsSeq
  <2>3. << v >> \in Seq(Stored) /\ Len(<< v >>) = 1 /\ << v >>[1] = v
    OBVIOUS
  <2>4. /\ << v >> \o Contents(d) \in Seq(Stored)
        /\ Len(<< v >> \o Contents(d)) = 1 + Size(d)
        /\ \A i \in 1 .. 1 + Size(d) : (<< v >> \o Contents(d))[i] =
                IF i <= 1 THEN << v >>[i] ELSE Contents(d)[i - 1]
    BY <2>1, <2>3, ConcatProperties
  <2>5. ASSUME NEW i \in 1 .. Size(d) + 1
        PROVE  Contents(e)[i] = (<< v >> \o Contents(d))[i]
    <3>1. CASE i = 1
      <4>1. d.begin + i - 2 = d.begin - 1
        BY <1>1, <3>1
      <4>2. Contents(e)[i] = v
        BY <1>1, <1>2, <1>3, <2>2, <4>1
      <4> QED
        BY <1>1, <2>3, <2>4, <3>1, <4>2
    <3>2. CASE i # 1
      <4>1. i - 1 \in 1 .. Size(d) /\ d.begin + i - 2 \in d.begin .. d.end
            /\ d.begin + (i - 1) - 1 = d.begin + i - 2
        BY <1>1, <3>2
      <4>2. SlotOf(d.begin + i - 2) # s
        BY <1>1, <4>1, OtherSlots
      <4>3. SlotOf(d.begin + i - 2) \in Slots
        BY <1>1, <4>1, SlotOfInSlots
      <4>4. e.slot[SlotOf(d.begin + i - 2)] = d.slot[SlotOf(d.begin + i - 2)]
        BY <1>1, <1>3, <4>2, <4>3
      <4>5. Contents(e)[i] = Contents(d)[i - 1]
        BY <2>1, <2>2, <4>1, <4>4
      <4> QED
        BY <1>1, <2>4, <3>2, <4>5
    <3> QED
      BY <3>1, <3>2
  <2> QED
    BY <1>1, <2>2, <2>4, <2>5, SeqEqual
<1> QED
  BY <1>4, <1>5 DEF e

LEMMA EmplacesBack ==
  ASSUME NEW d, Bounded(d), ~Full(d), NEW v \in Stored
  PROVE  /\ Bounded(EmplaceBack(d, v))
         /\ Contents(EmplaceBack(d, v)) = Append(Contents(d), v)
<1> DEFINE s == SlotOf(d.end + 1)
           e == EmplaceBack(d, v)
<1>1. /\ d.begin \in Int /\ d.end \in Int /\ d.slot \in [Slots -> Stored]
      /\ Capacity \in Nat /\ Size(d) \in 0 .. Capacity - 1 /\ Capacity > 0
      /\ Size(d) = d.end - d.begin + 1 /\ d \in Deques
  BY CapacityAssumption DEF Bounded, Deques, Full, Size
<1>2. s \in Slots
  BY <1>1, SlotOfInSlots
<1>3. e.begin = d.begin /\ e.end = d.end + 1 /\ e.slot = [d.slot EXCEPT ![s] = v]
      /\ e \in Deques
  <2> DEFINE f == [d.slot EXCEPT ![s] = v]
             w == Write(d, s, v)
  <2>1. f \in [Slots -> Stored]
    BY <1>1, <1>2
  <2>2. w = [d EXCEPT !.slot = f]
    BY DEF Write
  <2>3. e = [w EXCEPT !.end = w.end + 1]
    BY DEF EmplaceBack, IncBack, NextBackSlot
  <2> HIDE DEF e, f, w
  <2>4. w \in Deques /\ w.begin = d.begin /\ w.end = d.end /\ w.slot = f
    BY <1>1, <2>1, <2>2 DEF Deques
  <2>5. e.begin = d.begin /\ e.end = d.end + 1 /\ e.slot = f /\ e \in Deques
    BY <1>1, <2>3, <2>4 DEF Deques
  <2> QED
    BY <2>5 DEF f
<1>4. Size(e) = Size(d) + 1 /\ Bounded(e)
  BY <1>1, <1>3 DEF Bounded, Size
<1> HIDE DEF e
<1>5. Contents(e) = Append(Contents(d), v)
  <2>1. /\ Contents(d) \in Seq(Stored) /\ Len(Contents(d)) = Size(d)
        /\ \A i \in 1 .. Size(d) : Contents(d)[i] = d.slot[SlotOf(d.begin + i - 1)]
    BY ContentsSeq
  <2>2. /\ Contents(e) \in Seq(Stored) /\ Len(Contents(e)) = Size(d) + 1
        /\ \A i \in 1 .. Size(d) + 1 : Contents(e)[i] = e.slot[SlotOf(d.begin + i - 1)]
    <3>1. /\ Contents(e) \in Seq(Stored) /\ Len(Contents(e)) = Size(e)
          /\ \A i \in 1 .. Size(e) : Contents(e)[i] = e.slot[SlotOf(e.begin + i - 1)]
      BY <1>4, ContentsSeq
    <3> QED
      BY <1>3, <1>4, <3>1
  <2>3. /\ Append(Contents(d), v) \in Seq(Stored)
        /\ Len(Append(Contents(d), v)) = Size(d) + 1
        /\ \A i \in 1 .. Size(d) : Append(Contents(d), v)[i] = Contents(d)[i]
        /\ Append(Contents(d), v)[Size(d) + 1] = v
    BY <2>1, AppendProperties
  <2>4. ASSUME NEW i \in 1 .. Size(d) + 1
        PROVE  Contents(e)[i] = Append(Contents(d), v)[i]
    <3>1. CASE i = Size(d) + 1
      <4>1. d.begin + i - 1 = d.end + 1
        BY <1>1, <3>1
      <4>2. Contents(e)[i] = v
        BY <1>1, <1>2, <1>3, <2>2, <4>1
      <4> QED
        BY <2>3, <3>1, <4>2
    <3>2. CASE i # Size(d) + 1
      <4>1. i \in 1 .. Size(d) /\ d.begin + i - 1 \in d.begin .. d.end
        BY <1>1, <3>2
      <4>2. SlotOf(d.begin + i - 1) # s
        BY <1>1, <4>1, OtherSlots
      <4>3. SlotOf(d.begin + i - 1) \in Slots
        BY <1>1, <4>1, SlotOfInSlots
      <4>4. e.slot[SlotOf(d.begin + i - 1)] = d.slot[SlotOf(d.begin + i - 1)]
        BY <1>1, <1>3, <4>2, <4>3
      <4> QED
        BY <2>1, <2>2, <2>3, <4>1, <4>4
    <3> QED
      BY <3>1, <3>2
  <2> QED
    BY <1>1, <2>2, <2>3, <2>4, SeqEqual
<1> QED
  BY <1>4, <1>5 DEF e

LEMMA PopsFront ==
  ASSUME NEW d, Bounded(d), ~Empty(d)
  PROVE  /\ Bounded(PopFront(d)) /\ Contents(d) # << >>
         /\ Contents(PopFront(d)) = Tail(Contents(d))
<1> DEFINE e == PopFront(d)
<1>1. /\ d.begin \in Int /\ d.end \in Int /\ Capacity \in Nat /\ Size(d) \in 1 .. Capacity
      /\ Size(d) = d.end - d.begin + 1 /\ d \in Deques
  BY CapacityAssumption DEF Bounded, Deques, Empty, Size
<1>2. e.begin = d.begin + 1 /\ e.end = d.end /\ e.slot = d.slot /\ e \in Deques
  BY <1>1 DEF PopFront, Deques
<1>3. Size(e) = Size(d) - 1 /\ Bounded(e)
  BY <1>1, <1>2 DEF Bounded, Size
<1> HIDE DEF e
<1>4. /\ Contents(d) \in Seq(Stored) /\ Len(Contents(d)) = Size(d)
      /\ \A i \in 1 .. Size(d) : Contents(d)[i] = d.slot[SlotOf(d.begin + i - 1)]
  BY ContentsSeq
<1>5. Contents(d) # << >>
  BY <1>1, <1>4
<1>6. /\ Contents(e) \in Seq(Stored) /\ Len(Contents(e)) = Size(d) - 1
      /\ \A i \in 1 .. Size(d) - 1 : Contents(e)[i] = d.slot[SlotOf(d.begin + i)]
  <2>1. \A i \in 1 .. Size(d) - 1 : e.begin + i - 1 = d.begin + i
    BY <1>1, <1>2
  <2> QED
    BY <1>2, <1>3, <2>1, ContentsSeq
<1>7. /\ Tail(Contents(d)) \in Seq(Stored) /\ Len(Tail(Contents(d))) = Size(d) - 1
      /\ \A i \in 1 .. Size(d) - 1 : Tail(Contents(d))[i] = Contents(d)[i + 1]
  BY <1>4, <1>5, HeadTailProperties
<1>8. \A i \in 1 .. Size(d) - 1 : Contents(e)[i] = Tail(Contents(d))[i]
  <2>1. \A i \in 1 .. Size(d) - 1 : i + 1 \in 1 .. Size(d) /\ d.begin + (i + 1) - 1 = d.begin + i
    BY <1>1
  <2> QED
    BY <1>4, <1>6, <1>7, <2>1
<1>9. Contents(e) = Tail(Contents(d))
  BY <1>1, <1>6, <1>7, <1>8, SeqEqual
<1> QED
  BY <1>3, <1>5, <1>9 DEF e

LEMMA PopsBack ==
  ASSUME NEW d, Bounded(d), ~Empty(d)
  PROVE  /\ Bounded(PopBack(d)) /\ Contents(d) # << >>
         /\ Contents(PopBack(d)) = SubSeq(Contents(d), 1, Len(Contents(d)) - 1)
<1> DEFINE e == PopBack(d)
           c == Contents(d)
<1>1. /\ d.begin \in Int /\ d.end \in Int /\ Capacity \in Nat /\ Size(d) \in 1 .. Capacity
      /\ Size(d) = d.end - d.begin + 1 /\ d \in Deques
  BY CapacityAssumption DEF Bounded, Deques, Empty, Size
<1>2. e.begin = d.begin /\ e.end = d.end - 1 /\ e.slot = d.slot /\ e \in Deques
  BY <1>1 DEF PopBack, Deques
<1>3. Size(e) = Size(d) - 1 /\ Bounded(e)
  BY <1>1, <1>2 DEF Bounded, Size
<1>4. /\ c \in Seq(Stored) /\ Len(c) = Size(d)
      /\ \A i \in 1 .. Size(d) : c[i] = d.slot[SlotOf(d.begin + i - 1)]
  BY ContentsSeq
<1> HIDE DEF e, c
<1>5. c # << >>
  BY <1>1, <1>4
<1>6. /\ Contents(e) \in Seq(Stored) /\ Len(Contents(e)) = Size(d) - 1
      /\ \A i \in 1 .. Size(d) - 1 : Contents(e)[i] = d.slot[SlotOf(d.begin + i - 1)]
  BY <1>2, <1>3, ContentsSeq
<1>7. /\ SubSeq(c, 1, Size(d) - 1) \in Seq(Stored)
      /\ Len(SubSeq(c, 1, Size(d) - 1)) = Size(d) - 1
      /\ \A i \in 1 .. Size(d) - 1 : SubSeq(c, 1, Size(d) - 1)[i] = c[i]
  <2>1. \A i \in 1 .. Size(d) - 1 : c[i] \in Stored
    BY <1>1, <1>4, ElementOfSeq
  <2> DEFINE n == Size(d) - 1
  <2>2. n \in Int /\ n >= 0 /\ \A i \in 1 .. n : c[i] \in Stored
    BY <1>1, <2>1
  <2> HIDE DEF n
  <2>3. /\ SubSeq(c, 1, n) \in Seq(Stored)
        /\ Len(SubSeq(c, 1, n)) = IF 1 <= n THEN n - 1 + 1 ELSE 0
        /\ \A i \in 1 .. n - 1 + 1 : SubSeq(c, 1, n)[i] = c[1 + i - 1]
    BY <2>2, SubSeqProperties
  <2>4. Len(SubSeq(c, 1, n)) = n /\ \A i \in 1 .. n : SubSeq(c, 1, n)[i] = c[i]
    BY <2>2, <2>3
  <2> QED
    BY <2>3, <2>4 DEF n
<1>8. \A i \in 1 .. Size(d) - 1 : Contents(e)[i] = SubSeq(c, 1, Size(d) - 1)[i]
  <2>1. \A i \in 1 .. Size(d) - 1 : i \in 1 .. Size(d)
    BY <1>1
  <2> QED
    BY <1>4, <1>6, <1>7, <2>1
<1>9. Contents(e) = SubSeq(c, 1, Size(d) - 1)
  BY <1>1, <1>6, <1>7, <1>8, SeqEqual
<1> QED
  BY <1>3, <1>4, <1>5, <1>9 DEF e, c

LEMMA BoundedInit == Init => Bounded(deque) /\ Contents(deque) = << >>
<1> SUFFICES ASSUME Init PROVE Bounded(deque) /\ Contents(deque) = << >>
  OBVIOUS
<1>1. deque \in Deques /\ Size(deque) = 0
  <2>1. [i \in Slots |-> Junk] \in [Slots -> Stored]
    BY DEF Stored
  <2> QED
    BY <2>1 DEF Init, NewDeque, Deques, Size
<1>2. Bounded(deque)
  BY <1>1, CapacityAssumption DEF Bounded
<1>3. Contents(deque) \in Seq(Stored) /\ Len(Contents(deque)) = 0
  BY <1>1, <1>2, ContentsSeq
<1> QED
  BY <1>2, <1>3, EmptySeq

\* A step of the deque is a step of the sequence.
LEMMA BoundedStep ==
  ASSUME Bounded(deque), [Next]_deque
  PROVE  Bounded(deque)' /\ [Sequence!Next]_(Contents(deque))
<1>0. Len(Contents(deque)) = Size(deque) /\ Capacity \in Nat /\ Size(deque) \in 0 .. Capacity
  BY ContentsSeq, CapacityAssumption DEF Bounded
<1>1. ASSUME NEW v \in Entries, emplace_front(v)
      PROVE  Bounded(deque)' /\ Sequence!PutFront(v)
  <2>1. v \in Stored /\ ~Full(deque) /\ deque' = EmplaceFront(deque, v)
    BY <1>1 DEF emplace_front, Stored
  <2>2. Bounded(deque') /\ Contents(deque') = << v >> \o Contents(deque)
    BY <2>1, EmplacesFront
  <2> QED
    BY <1>0, <2>1, <2>2 DEF Full, Sequence!PutFront
<1>2. ASSUME NEW v \in Entries, emplace_back(v)
      PROVE  Bounded(deque)' /\ Sequence!PutBack(v)
  <2>1. v \in Stored /\ ~Full(deque) /\ deque' = EmplaceBack(deque, v)
    BY <1>2 DEF emplace_back, Stored
  <2>2. Bounded(deque') /\ Contents(deque') = Append(Contents(deque), v)
    BY <2>1, EmplacesBack
  <2> QED
    BY <1>0, <2>1, <2>2 DEF Full, Sequence!PutBack
<1>3. ASSUME pop_front PROVE Bounded(deque)' /\ Sequence!TakeFront
  BY <1>3, PopsFront DEF pop_front, Sequence!TakeFront
<1>4. ASSUME pop_back PROVE Bounded(deque)' /\ Sequence!TakeBack
  BY <1>4, PopsBack DEF pop_back, Sequence!TakeBack
<1>5. ASSUME UNCHANGED deque PROVE Bounded(deque)' /\ UNCHANGED Contents(deque)
  BY <1>5
<1> QED
  BY <1>1, <1>2, <1>3, <1>4, <1>5 DEF Next, Sequence!Next

\* The fixed size deque implements the bounded sequence: no operation loses,
\* duplicates or reorders an entry, at any capacity and any drift of the indices.
THEOREM AlwaysABoundedSequence == Spec => IsBoundedSequence
<1>1. Init => Bounded(deque) /\ Sequence!Init
  BY BoundedInit DEF Sequence!Init
<1>2. Bounded(deque) /\ [Next]_deque => Bounded(deque)' /\ [Sequence!Next]_(Contents(deque))
  BY BoundedStep
<1> QED
  BY <1>1, <1>2, PTL DEF Spec, IsBoundedSequence, Sequence!Spec
=============================================================================
