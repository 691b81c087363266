------------------------ MODULE FixedSizeDeque_proofs ------------------------
(***************************************************************************)
(* What POSITIVE_MODULO guarantees: an index finds a slot of the storage,  *)
(* and indices less than a capacity apart find different slots.  And what  *)
(* a queue holds whose entries are the negated indices: a descending run.  *)
(***************************************************************************)
EXTENDS FixedSizeDeque, SequenceTheorems, TLAPS

LEMMA DivMod ==
  ASSUME NEW a \in Int, NEW b \in Nat, b > 0
  PROVE  /\ a \div b \in Int /\ a % b \in 0 .. b - 1
         /\ a = b * (a \div b) + (a % b)
OBVIOUS

\* A multiple of b that is less than b away from 0 is 0.
LEMMA SmallMultiple ==
  ASSUME NEW b \in Nat, NEW k \in Int, b > 0, -b < b * k, b * k < b
  PROVE  k = 0
<1>1. ASSUME k >= 1 PROVE FALSE
  <2>1. b * k >= b
    BY <1>1
  <2> QED
    BY <2>1
<1>2. ASSUME k <= -1 PROVE FALSE
  <2>1. b * k <= -b
    BY <1>2
  <2> QED
    BY <2>1
<1> QED
  BY <1>1, <1>2

\* The remainder of C++ leaves a multiple of the divisor out.
LEMMA CRemDiv ==
  ASSUME NEW a \in Int, NEW b \in Nat, b > 0
  PROVE  /\ CRem(a, b) \in Int /\ -b < CRem(a, b) /\ CRem(a, b) < b
         /\ a >= 0 => CRem(a, b) >= 0
         /\ \E q \in Int : a = b * q + CRem(a, b)
<1>1. CASE a >= 0
  <2> DEFINE q == a \div b
             r == a % b
  <2>1. CRem(a, b) = r
    BY <1>1 DEF CRem
  <2>2. q \in Int /\ r \in 0 .. b - 1 /\ a = b * q + r
    BY DivMod
  <2> HIDE DEF q, r
  <2> QED
    BY <2>1, <2>2
<1>2. CASE ~(a >= 0)
  <2> DEFINE q == (-a) \div b
             r == (-a) % b
  <2>1. CRem(a, b) = -r
    BY <1>2 DEF CRem
  <2>2. q \in Int /\ r \in 0 .. b - 1 /\ -a = b * q + r
    BY DivMod
  <2> HIDE DEF q, r
  <2>3. -q \in Int /\ a = b * (-q) + (-r)
    BY <2>2
  <2> QED
    BY <1>2, <2>1, <2>2, <2>3
<1> QED
  BY <1>1, <1>2

\* POSITIVE_MODULO finds a slot, also for a negative index.
THEOREM SlotOfInSlots ==
  ASSUME NEW i \in Int, Capacity > 0
  PROVE  SlotOf(i) \in Slots
<1>1. CRem(i, Capacity) + Capacity \in Int /\ CRem(i, Capacity) + Capacity >= 0
  BY CRemDiv, CapacityAssumption
<1> QED
  BY <1>1, CRemDiv, CapacityAssumption DEF SlotOf, PositiveModulo, Slots

LEMMA SlotOfDiv ==
  ASSUME NEW i \in Int, Capacity > 0
  PROVE  \E q \in Int : i = Capacity * q + SlotOf(i)
<1> DEFINE r == CRem(i, Capacity)
<1>1. r \in Int /\ SlotOf(i) = CRem(r + Capacity, Capacity) /\ SlotOf(i) \in Int
  BY CRemDiv, SlotOfInSlots, CapacityAssumption DEF SlotOf, PositiveModulo, Slots
<1>2. PICK p \in Int : i = Capacity * p + r
  BY CRemDiv, CapacityAssumption
<1>3. PICK q \in Int : r + Capacity = Capacity * q + SlotOf(i)
  <2>1. \E q \in Int : r + Capacity = Capacity * q + CRem(r + Capacity, Capacity)
    <3>1. \A a \in Int : \E q \in Int : a = Capacity * q + CRem(a, Capacity)
      BY CRemDiv, CapacityAssumption
    <3>2. r + Capacity \in Int
      BY <1>1, CapacityAssumption
    <3> QED
      BY <3>1, <3>2
  <2> QED
    BY <1>1, <2>1
<1> HIDE DEF r
<1>4. p + q - 1 \in Int /\ i = Capacity * (p + q - 1) + SlotOf(i)
  BY <1>1, <1>2, <1>3, CapacityAssumption
<1> QED
  BY <1>4

\* Indices less than a capacity apart have different slots: the entries of a
\* queue never share one, however far its indices have drifted.
THEOREM SlotOfDistinct ==
  ASSUME NEW i \in Int, NEW j \in Int, i # j, -Capacity < i - j, i - j < Capacity
  PROVE  SlotOf(i) # SlotOf(j)
<1> SUFFICES ASSUME SlotOf(i) = SlotOf(j) PROVE FALSE
  OBVIOUS
<1>1. Capacity > 0
  BY CapacityAssumption
<1>2. SlotOf(i) \in Int
  BY <1>1, SlotOfInSlots, CapacityAssumption DEF Slots
<1>3. PICK p \in Int : i = Capacity * p + SlotOf(i)
  BY <1>1, SlotOfDiv
<1>4. PICK q \in Int : j = Capacity * q + SlotOf(j)
  BY <1>1, SlotOfDiv
<1>5. i - j = Capacity * (p - q)
  BY <1>2, <1>3, <1>4, CapacityAssumption
<1>6. p - q = 0
  BY <1>1, <1>5, SmallMultiple, CapacityAssumption
<1> QED
  BY <1>5, <1>6, CapacityAssumption
-----------------------------------------------------------------------------
(* The run a, a - 1, ... b + 1.  Runs that meet make a run.                  *)

Down(a, b) == [i \in 1 .. a - b |-> a + 1 - i]

LEMMA DownRuns ==
  ASSUME NEW a \in Nat, NEW b \in Nat, b <= a
  PROVE  /\ Down(a, b) \in Seq(Int) /\ Len(Down(a, b)) = a - b
         /\ \A i \in 1 .. a - b : Down(a, b)[i] = a + 1 - i
BY DEF Down

LEMMA DownNothing ==
  ASSUME NEW a \in Nat
  PROVE  << >> = Down(a, a)
<1>1. a <= a /\ a - a = 0
  OBVIOUS
<1>2. Down(a, a) \in Seq(Int) /\ Len(Down(a, a)) = 0
  BY <1>1, DownRuns
<1> QED
  BY <1>2, EmptySeq

LEMMA DownMeets ==
  ASSUME NEW a \in Nat, NEW b \in Nat, NEW c \in Nat, c <= b, b <= a
  PROVE  Down(a, b) \o Down(b, c) = Down(a, c)
<1> DEFINE s == Down(a, b)
           t == Down(b, c)
           u == Down(a, c)
<1>1. /\ s \in Seq(Int) /\ Len(s) = a - b /\ \A i \in 1 .. a - b : s[i] = a + 1 - i
      /\ t \in Seq(Int) /\ Len(t) = b - c /\ \A i \in 1 .. b - c : t[i] = b + 1 - i
      /\ u \in Seq(Int) /\ Len(u) = a - c /\ \A i \in 1 .. a - c : u[i] = a + 1 - i
  <2>1. c <= a
    OBVIOUS
  <2> HIDE DEF s, t, u
  <2>2. s \in Seq(Int) /\ Len(s) = a - b /\ \A i \in 1 .. a - b : s[i] = a + 1 - i
    BY DownRuns DEF s
  <2>3. t \in Seq(Int) /\ Len(t) = b - c /\ \A i \in 1 .. b - c : t[i] = b + 1 - i
    BY DownRuns DEF t
  <2>4. u \in Seq(Int) /\ Len(u) = a - c /\ \A i \in 1 .. a - c : u[i] = a + 1 - i
    BY <2>1, DownRuns DEF u
  <2> QED
    BY <2>2, <2>3, <2>4
<1> HIDE DEF s, t, u
<1>2. /\ s \o t \in Seq(Int) /\ Len(s \o t) = Len(s) + Len(t)
      /\ \A i \in 1 .. Len(s) + Len(t) :
            (s \o t)[i] = IF i <= Len(s) THEN s[i] ELSE t[i - Len(s)]
  BY <1>1, ConcatProperties
<1>3. Len(s \o t) = a - c
  BY <1>1, <1>2
<1>4. ASSUME NEW i \in 1 .. a - c PROVE (s \o t)[i] = u[i]
  <2>1. u[i] = a + 1 - i
    BY <1>1
  <2>2. CASE i <= a - b
    BY <1>1, <1>2, <2>1, <2>2
  <2>3. CASE ~(i <= a - b)
    <3>1. i - Len(s) \in 1 .. b - c /\ b + 1 - (i - Len(s)) = a + 1 - i
      BY <1>1, <2>3
    <3>2. t[i - Len(s)] = a + 1 - i
      BY <1>1, <3>1
    <3>3. (s \o t)[i] = t[i - Len(s)]
      <4>1. i \in 1 .. Len(s) + Len(t) /\ ~(i <= Len(s))
        BY <1>1, <2>3
      <4> QED
        BY <1>2, <4>1
    <3> QED
      BY <2>1, <3>2, <3>3
  <2> QED
    BY <2>2, <2>3
<1>5. s \o t = u
  BY <1>1, <1>2, <1>3, <1>4, SeqEqual
<1> QED
  BY <1>5 DEF s, t, u

LEMMA DownEnds ==
  ASSUME NEW a \in Nat, NEW b \in Nat, b < a
  PROVE  /\ Down(a, b) # << >> /\ Head(Down(a, b)) = a /\ Tail(Down(a, b)) = Down(a - 1, b)
         /\ << a >> = Down(a, a - 1)
         /\ << a >> \o Down(a - 1, b) = Down(a, b)
<1> DEFINE s == Down(a, b)
           u == Down(a - 1, b)
<1>1. /\ s \in Seq(Int) /\ Len(s) = a - b /\ \A i \in 1 .. a - b : s[i] = a + 1 - i
      /\ a - 1 \in Nat /\ b <= a - 1 /\ b <= a
      /\ u \in Seq(Int) /\ Len(u) = a - 1 - b /\ \A i \in 1 .. a - 1 - b : u[i] = a - 1 + 1 - i
  <2>1. a - 1 \in Nat /\ b <= a - 1 /\ b <= a
    OBVIOUS
  <2> HIDE DEF s, u
  <2>2. s \in Seq(Int) /\ Len(s) = a - b /\ \A i \in 1 .. a - b : s[i] = a + 1 - i
    BY <2>1, DownRuns DEF s
  <2>3. u \in Seq(Int) /\ Len(u) = a - 1 - b /\ \A i \in 1 .. a - 1 - b : u[i] = a - 1 + 1 - i
    BY <2>1, DownRuns DEF u
  <2> QED
    BY <2>1, <2>2, <2>3
<1>2. << a >> = Down(a, a - 1)
  <2>1. /\ Down(a, a - 1) \in Seq(Int) /\ Len(Down(a, a - 1)) = 1 /\ Down(a, a - 1)[1] = a
    <3>1. a - 1 \in Nat /\ a - 1 <= a /\ a - (a - 1) = 1
      BY <1>1
    <3>2. /\ Down(a, a - 1) \in Seq(Int) /\ Len(Down(a, a - 1)) = a - (a - 1)
          /\ \A i \in 1 .. a - (a - 1) : Down(a, a - 1)[i] = a + 1 - i
      BY <3>1, DownRuns
    <3>3. 1 \in 1 .. a - (a - 1) /\ a + 1 - 1 = a
      BY <3>1
    <3> QED
      BY <3>1, <3>2, <3>3
  <2>2. << a >> \in Seq(Int) /\ Len(<< a >>) = 1 /\ << a >>[1] = a
    OBVIOUS
  <2>3. \A i \in 1 .. Len(<< a >>) : << a >>[i] = Down(a, a - 1)[i]
    BY <2>1, <2>2
  <2> QED
    BY <2>1, <2>2, <2>3, SeqEqual
<1>4. << a >> \o Down(a - 1, b) = Down(a, b)
  <2>1. a - 1 \in Nat /\ b <= a - 1 /\ a - 1 <= a
    BY <1>1
  <2>2. Down(a, a - 1) \o Down(a - 1, b) = Down(a, b)
    BY <2>1, DownMeets
  <2> QED
    BY <1>2, <2>2
<1> HIDE DEF s, u
<1>5. s # << >> /\ Head(s) = a
  BY <1>1
<1>6. Tail(s) \in Seq(Int) /\ Len(Tail(s)) = a - 1 - b
      /\ \A i \in 1 .. a - 1 - b : Tail(s)[i] = u[i]
  <2>1. Tail(s) \in Seq(Int) /\ Len(Tail(s)) = Len(s) - 1
        /\ \A i \in 1 .. Len(Tail(s)) : Tail(s)[i] = s[i + 1]
    BY <1>1, <1>5, HeadTailProperties
  <2>2. \A i \in 1 .. a - 1 - b : i + 1 \in 1 .. a - b /\ a + 1 - (i + 1) = a - 1 + 1 - i
    BY <1>1
  <2>3. Len(Tail(s)) = a - 1 - b
    BY <1>1, <2>1
  <2> QED
    BY <1>1, <2>1, <2>2, <2>3
<1>7. Tail(s) = u
  BY <1>1, <1>6, SeqEqual
<1> QED
  BY <1>2, <1>4, <1>5, <1>7 DEF s, u
=============================================================================
