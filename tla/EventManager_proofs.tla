-------------------------- MODULE EventManager_proofs --------------------------
(***************************************************************************)
(* What the event loop promises, for every block of events, every plan of  *)
(* the solvers and any number of restarts.                                 *)
(***************************************************************************)
EXTENDS EventProperties, FiniteSetTheorems, SequenceTheorems, WellFoundedInduction, TLAPS
-----------------------------------------------------------------------------
(* The natural numbers and the tree of events.                               *)

LEMMA SetInduction ==
  ASSUME NEW P, 0 \in P, \A n \in Nat : n \in P => n + 1 \in P
  PROVE  Nat \subseteq P
<1> SUFFICES ASSUME Nat \ P # {} PROVE FALSE
  OBVIOUS
<1>1. Nat \ P \in SUBSET Nat
  OBVIOUS
<1>2. PICK m \in Nat \ P : \A y \in Nat \ P : <<y, m>> \notin OpToRel(<, Nat)
  BY <1>1, WFMin, NatLessThanWellFounded
<1>3. m - 1 \in Nat /\ m - 1 < m /\ (m - 1) + 1 = m
  <2>1. m \in Nat /\ m # 0
    OBVIOUS
  <2> QED
    BY <2>1
<1>4. m - 1 \notin P
  BY <1>2, <1>3
<1>5. <<m - 1, m>> \in OpToRel(<, Nat)
  BY <1>2, <1>3 DEF OpToRel
<1> QED
  BY <1>2, <1>3, <1>4, <1>5

LEMMA MinOfNaturals ==
  ASSUME NEW S \in SUBSET Nat, S # {}
  PROVE  Min(S) \in S /\ \A x \in S : Min(S) <= x
<1>1. PICK m \in S : \A y \in S : <<y, m>> \notin OpToRel(<, Nat)
  BY WFMin, NatLessThanWellFounded
<1>2. \A y \in S : m <= y
  <2>1. \A y \in S : ~(y < m)
    BY <1>1 DEF OpToRel
  <2>2. \A a, b \in Nat : ~(a < b) => b <= a
    OBVIOUS
  <2> QED
    BY <2>1, <2>2
<1> QED
  BY <1>2 DEF Min

\* How far the leaves are below an event.
Height == CHOOSE height \in [Event -> 0 .. Cardinality(Event)] :
              \A e \in Event : \A s \in Children(e) : height[s] < height[e]

LEMMA EventTree ==
  /\ Height \in [Event -> Nat]
  /\ \A e \in Event : \A s \in Children(e) : s \in Event /\ Height[s] < Height[e]
<1>1. \A e \in Event : Children(e) \subseteq Event
  BY EventsAssumption DEF Children, Range
<1>2. /\ Height \in [Event -> 0 .. Cardinality(Event)]
      /\ \A e \in Event : \A s \in Children(e) : Height[s] < Height[e]
  BY EventsAssumption DEF Height
<1>3. \A e \in Event : Height[e] \in Nat
  BY <1>2
<1> QED
  BY <1>1, <1>2, <1>3

\* Induction over the tree, from the leaves up.
LEMMA TreeInduction ==
  ASSUME NEW P, \A e \in Event : Children(e) \subseteq P => e \in P
  PROVE  Event \subseteq P
<1> DEFINE Q == {n \in Nat : \A e \in Event : Height[e] < n => e \in P}
<1>1. \A e \in Event : Height[e] \in Nat
  BY EventTree
<1>2. 0 \in Q
  BY <1>1
<1>3. ASSUME NEW n \in Nat, n \in Q PROVE n + 1 \in Q
  <2> SUFFICES ASSUME NEW e \in Event, Height[e] < n + 1 PROVE e \in P
    OBVIOUS
  <2>1. \A h, k \in Nat : h < k /\ k < n + 1 => h < n
    OBVIOUS
  <2>2. \A s \in Children(e) : s \in Event /\ Height[s] < n
    BY <1>1, <2>1, EventTree
  <2>3. Children(e) \subseteq P
    BY <1>3, <2>2
  <2> QED
    BY <2>3
<1> HIDE DEF Q
<1>4. Nat \subseteq Q
  BY <1>2, <1>3, SetInduction
<1>5. \A e \in Event : Height[e] + 1 \in Nat /\ Height[e] < Height[e] + 1
  BY <1>1
<1> QED
  BY <1>4, <1>5 DEF Q

\* A function may be defined from its values for the sub-events.
IsRecursive(f, g) == \A e \in Event : f[e] = g[<<e, {f[s] : s \in Children(e)}>>]

LEMMA TreeRecursion ==
  ASSUME NEW S, NEW g \in [Event \X SUBSET S -> S]
  PROVE  \E f \in [Event -> S] : IsRecursive(f, g)
<1> DEFINE Value(f, e) == g[<<e, {f[s] : s \in Children(e)}>>]
           Good(f, n) == \A e \in Event : Height[e] < n => f[e] \in S /\ f[e] = Value(f, e)
           P == {n \in Nat : \E f : Good(f, n)}
<1>1. \A e \in Event : Height[e] \in Nat
  BY EventTree
<1>2. 0 \in P
  <2>1. Good(Height, 0)
    BY <1>1
  <2> QED
    BY <2>1
<1>3. ASSUME NEW n \in Nat, n \in P PROVE n + 1 \in P
  <2>1. PICK f : Good(f, n)
    BY <1>3
  <2> DEFINE h == [e \in Event |-> IF Height[e] < n THEN f[e] ELSE Value(f, e)]
  <2>2. \A k, m \in Nat : k < m /\ m < n + 1 => k < n
    OBVIOUS
  <2>3. ASSUME NEW e \in Event, Height[e] < n + 1 PROVE h[e] \in S /\ h[e] = Value(h, e)
    <3>1. \A s \in Children(e) : s \in Event /\ Height[s] < n
      BY <1>1, <2>2, <2>3, EventTree
    <3>2. \A s \in Children(e) : h[s] = f[s] /\ f[s] \in S
      BY <2>1, <3>1
    <3>3. {h[s] : s \in Children(e)} = {f[s] : s \in Children(e)}
      BY <3>2
    <3>4. {f[s] : s \in Children(e)} \in SUBSET S
      BY <3>2
    <3>5. Value(f, e) \in S
      BY <3>4
    <3>6. h[e] = Value(f, e)
      BY <2>1
    <3> QED
      BY <3>3, <3>5, <3>6
  <2> HIDE DEF h, Value
  <2>4. Good(h, n + 1)
    BY <2>3
  <2> QED
    BY <2>4
<1> HIDE DEF P
<1>4. Nat \subseteq P
  BY <1>2, <1>3, SetInduction
<1>5. PICK n \in Nat : \A e \in Event : Height[e] < n
  <2>1. \A e \in Event : Height[e] \in 0 .. Cardinality(Event)
    BY EventsAssumption DEF Height
  <2>2. Cardinality(Event) \in Nat
    BY EventsAssumption, FS_CardinalityType
  <2>3. Cardinality(Event) + 1 \in Nat /\ \A e \in Event : Height[e] < Cardinality(Event) + 1
    BY <2>1, <2>2
  <2> QED
    BY <2>3
<1>6. PICK f : Good(f, n)
  BY <1>4 DEF P
<1> DEFINE h == [e \in Event |-> f[e]]
<1>7. \A e \in Event : h[e] \in S /\ h[e] = Value(f, e)
  BY <1>5, <1>6
<1>8. \A e \in Event : {h[s] : s \in Children(e)} = {f[s] : s \in Children(e)}
  BY EventTree
<1>9. h \in [Event -> S]
  BY <1>7
<1>10. IsRecursive(h, g)
  <2> HIDE DEF h
  <2> QED
    BY <1>7, <1>8 DEF IsRecursive
<1> QED
  BY <1>9, <1>10
-----------------------------------------------------------------------------
(* The functions that the model defines by recursion over the tree.          *)

LEMMA Subtrees ==
  /\ Subtree \in [Event -> SUBSET Event]
  /\ \A e \in Event : Subtree[e] = {e} \cup UNION {Subtree[s] : s \in Children(e)}
<1> DEFINE S == SUBSET Event
           g == [p \in Event \X SUBSET S |-> {p[1]} \cup UNION p[2]]
           Is(f) == f = [e \in Event |-> {e} \cup UNION {f[s] : s \in Children(e)}]
           f0 == CHOOSE f : Is(f)
<1>1. g \in [Event \X SUBSET S -> S]
  OBVIOUS
<1>2. PICK f \in [Event -> S] : IsRecursive(f, g)
  <2> HIDE DEF S, g
  <2> QED
    BY <1>1, TreeRecursion
<1>3. \A e \in Event : {f[s] : s \in Children(e)} \in SUBSET S
  BY EventTree
<1>4. \A e \in Event : f[e] = {e} \cup UNION {f[s] : s \in Children(e)}
  BY <1>2, <1>3 DEF IsRecursive
<1>5. Is(f)
  <2>1. f = [e \in Event |-> f[e]]
    OBVIOUS
  <2> QED
    BY <1>4, <2>1
<1>6. Is(f0)
  <2> HIDE DEF Is
  <2> QED
    BY <1>5
<1>7. Subtree = f0
  BY DEF Subtree
<1> HIDE DEF f0
<1>8. \A e \in Event : Subtree[e] = {e} \cup UNION {Subtree[s] : s \in Children(e)}
  BY ZenonT(40), <1>6, <1>7
<1>9. \A e \in Event : Subtree[e] \subseteq Event
  <2> DEFINE P == {e \in Event : Subtree[e] \subseteq Event}
  <2>1. ASSUME NEW e \in Event, Children(e) \subseteq P PROVE e \in P
    BY <1>8, <2>1
  <2> HIDE DEF P
  <2>2. Event \subseteq P
    BY <2>1, TreeInduction
  <2> QED
    BY <2>2 DEF P
<1>10. Subtree = [e \in Event |-> Subtree[e]]
  BY <1>6, <1>7
<1> QED
  BY <1>8, <1>9, <1>10

LEMMA SubtreesBelow ==
  /\ \A e \in Event : e \in Subtree[e]
  /\ \A m \in Event : \A e \in Subtree[m] : e \in Event /\ Children(e) \subseteq Subtree[m]
<1>1. \A e \in Event : e \in Subtree[e]
  BY Subtrees
<1> DEFINE P == {m \in Event : \A e \in Subtree[m] : Children(e) \subseteq Subtree[m]}
<1>2. ASSUME NEW m \in Event, Children(m) \subseteq P PROVE m \in P
  <2> SUFFICES ASSUME NEW e \in Subtree[m], NEW c \in Children(e) PROVE c \in Subtree[m]
    OBVIOUS
  <2>1. CASE e = m
    <3>1. c \in Subtree[c]
      BY <2>1, <1>1, EventTree
    <3> QED
      BY <2>1, <3>1, Subtrees
  <2>2. CASE e # m
    <3>1. PICK s \in Children(m) : e \in Subtree[s]
      BY <2>2, Subtrees
    <3>2. c \in Subtree[s]
      BY <3>1, <1>2
    <3> QED
      BY <3>2, Subtrees
  <2> QED
    BY <2>1, <2>2
<1> HIDE DEF P
<1>3. Event \subseteq P
  BY <1>2, TreeInduction
<1>4. \A m \in Event : \A e \in Subtree[m] : e \in Event
  BY Subtrees
<1> QED
  BY <1>1, <1>3, <1>4 DEF P

LEMMA CheckedEvents ==
  ASSUME NEW time
  PROVE  \A top \in Event :
           /\ Checked(top, time) \subseteq Event
           /\ Checked(top, time) = {top} \cup IF IsActive(top, time)
                                             THEN UNION {Checked(s, time) : s \in Children(top)}
                                             ELSE {}
<1> DEFINE S == SUBSET Event
           g == [p \in Event \X SUBSET S |->
                    {p[1]} \cup IF IsActive(p[1], time) THEN UNION p[2] ELSE {}]
           Is(f) == f = [e \in Event |->
                    {e} \cup IF IsActive(e, time) THEN UNION {f[s] : s \in Children(e)} ELSE {}]
           f0 == CHOOSE f : Is(f)
<1>1. g \in [Event \X SUBSET S -> S]
  OBVIOUS
<1>2. PICK f \in [Event -> S] : IsRecursive(f, g)
  <2> HIDE DEF S, g
  <2> QED
    BY <1>1, TreeRecursion
<1>3. \A e \in Event : {f[s] : s \in Children(e)} \in SUBSET S
  BY EventTree
<1>4. \A e \in Event : f[e] = {e} \cup IF IsActive(e, time) THEN UNION {f[s] : s \in Children(e)} ELSE {}
  BY <1>2, <1>3 DEF IsRecursive
<1>5. Is(f)
  <2>1. f = [e \in Event |-> f[e]]
    OBVIOUS
  <2> QED
    BY <1>4, <2>1
<1>6. Is(f0)
  <2> HIDE DEF Is
  <2> QED
    BY <1>5
<1>7. \A top \in Event : Checked(top, time) = f0[top]
  BY DEF Checked
<1> HIDE DEF f0
<1>8. \A e \in Event : f0[e] = {e} \cup IF IsActive(e, time) THEN UNION {f0[s] : s \in Children(e)} ELSE {}
  BY <1>6
<1>9. \A e \in Event : {f0[s] : s \in Children(e)} = {Checked(s, time) : s \in Children(e)}
  BY <1>7, EventTree
<1>10. \A e \in Event : f0[e] \subseteq Event
  <2> DEFINE P == {e \in Event : f0[e] \subseteq Event}
  <2>1. ASSUME NEW e \in Event, Children(e) \subseteq P PROVE e \in P
    BY <1>8, <2>1
  <2> HIDE DEF P
  <2>2. Event \subseteq P
    BY <2>1, TreeInduction
  <2> QED
    BY <2>2 DEF P
<1> QED
  BY <1>7, <1>8, <1>9, <1>10
-----------------------------------------------------------------------------
(* The time step requests.                                                   *)

Positive == Nat \ {0}

Data == [time : Int, dt : Int, cycle : Nat, current : 0 .. Len(Main),
         lastTime : [Event -> Int], lastCycle : [Event -> Int], forecast : [Event -> Int],
         sub : [Event -> Nat], executing : [Event -> BOOLEAN], steps : [Event -> Nat]]

LEMMA AttributeTypes ==
  /\ Idle \in Nat /\ Idle > 1 /\ Unlimited \in Positive /\ Never \in Int /\ Never < 0
  /\ MinTime \in Int /\ MaxTime \in Int /\ MaxCycle \in Nat
  /\ \A e \in Event :
      /\ Attributes[e].kind \in {"periodic", "solo", "halt"}
      /\ Attributes[e].beginTime \in Int /\ Attributes[e].endTime \in Int
      /\ Attributes[e].forceDt \in Int /\ Attributes[e].maxEventDt \in Int
      /\ Attributes[e].finalDtStretch \in Int /\ Attributes[e].timeFrequency \in Int
      /\ Attributes[e].cycleFrequency \in Int /\ Attributes[e].targetTime \in Int
      /\ Attributes[e].targetCycle \in Int
      /\ Attributes[e].targetExactStartStop \in BOOLEAN
      /\ Attributes[e].targetExactTimestep \in BOOLEAN /\ Attributes[e].function \in BOOLEAN
      /\ Never + Attributes[e].timeFrequency <= MinTime
BY NumbersAssumption, TimesAssumption DEF Positive

LEMMA OwnRequestsPositive ==
  ASSUME NEW e \in Event, NEW d \in Data, NEW asked \in Positive
  PROVE  OwnRequests(e, d, asked) \subseteq Positive /\ Unlimited \in OwnRequests(e, d, asked)
<1>1. /\ d.time \in Int /\ d.lastTime[e] \in Int
      /\ Attributes[e].timeFrequency \in Int /\ Attributes[e].targetTime \in Int
      /\ Attributes[e].maxEventDt \in Int
  BY AttributeTypes DEF Data
<1> DEFINE next == d.lastTime[e] + Attributes[e].timeFrequency
<1>2. \A a, b \in Int : a < b => b - a \in Nat \ {0}
  OBVIOUS
<1>3. \A a \in Int : a > 0 => a \in Nat \ {0}
  OBVIOUS
<1>4. next \in Int
  BY <1>1
<1>5. ~(Attributes[e].timeFrequency <= 0) => Attributes[e].timeFrequency \in Nat \ {0}
  BY <1>1
<1>6. PeriodicRequest(e, d) \in Positive
  <2> HIDE DEF next
  <2>1. CASE Attributes[e].timeFrequency <= 0 \/ ~Attributes[e].targetExactTimestep
    BY <2>1, AttributeTypes DEF PeriodicRequest
  <2>2. CASE ~(Attributes[e].timeFrequency <= 0) /\ Attributes[e].targetExactTimestep
    <3>1. PeriodicRequest(e, d) = IF d.time < next THEN next - d.time ELSE Attributes[e].timeFrequency
      BY <2>2 DEF PeriodicRequest, next
    <3> QED
      BY <2>2, <3>1, <1>1, <1>2, <1>4, <1>5 DEF Positive
  <2> QED
    BY <2>1, <2>2
<1>7. SoloRequest(e, d) \in Positive
  BY <1>1, <1>2, AttributeTypes DEF SoloRequest, Positive
<1>8. EventTypeRequest(e, d) \in Positive
  BY <1>6, <1>7, AttributeTypes DEF EventTypeRequest
<1> QED
  BY <1>1, <1>3, <1>8, AttributeTypes DEF OwnRequests, Positive

LEMMA InWindowPositive ==
  ASSUME NEW e \in Event, NEW time \in Int, NEW request \in Positive
  PROVE  InWindow(e, time, request) \in Positive
<1>1. Attributes[e].beginTime \in Int /\ Attributes[e].endTime \in Int
  BY AttributeTypes
<1>2. \A a, b \in Int : a < b => b - a \in Nat \ {0}
  OBVIOUS
<1> DEFINE stretched == 100 * time + request * (100 + Attributes[e].finalDtStretch)
                            > 100 * Attributes[e].endTime
<1>3. CASE ~Attributes[e].targetExactStartStop
  BY <1>3 DEF InWindow
<1>4. CASE Attributes[e].targetExactStartStop /\ time < Attributes[e].beginTime
  BY <1>4, <1>1, <1>2 DEF InWindow, LeastOf, Positive
<1>5. CASE Attributes[e].targetExactStartStop /\ ~(time < Attributes[e].beginTime)
  <2>1. InWindow(e, time, request) = IF time < Attributes[e].endTime /\ stretched
                                     THEN Attributes[e].endTime - time ELSE request
    BY <1>5 DEF InWindow
  <2> HIDE DEF stretched
  <2> QED
    BY <2>1, <1>1, <1>2 DEF Positive
<1> QED
  BY <1>3, <1>4, <1>5

\* What an event asks for before it looks at its window.
Limit(e, d, asked, limit) ==
    /\ limit \in Positive
    /\ ~IsActive(e, d.time) => limit = Unlimited
    /\ IsActive(e, d.time) /\ Attributes[e].forceDt <= 0 =>
          \A request \in OwnRequests(e, d, asked) : limit <= request

LEMMA EventRequests ==
  ASSUME NEW d \in Data, NEW asked \in [Event -> Positive]
  PROVE  \A e \in Event :
           /\ TimestepRequest(d, asked)[e] \in Positive
           /\ \E limit \in Positive : /\ Limit(e, d, asked[e], limit)
                                      /\ TimestepRequest(d, asked)[e] = InWindow(e, d.time, limit)
<1> DEFINE least(e, T) == IF ~IsActive(e, d.time) THEN Unlimited
                          ELSE IF Attributes[e].forceDt > 0 THEN Attributes[e].forceDt
                          ELSE Min(OwnRequests(e, d, asked[e]) \cup T)
           g == [p \in Event \X SUBSET Positive |-> InWindow(p[1], d.time, least(p[1], p[2]))]
           Is(f) == f = [e \in Event |-> InWindow(e, d.time, least(e, {f[s] : s \in Children(e)}))]
           f0 == CHOOSE f : Is(f)
<1>1. d.time \in Int
  BY DEF Data
<1>2. ASSUME NEW e \in Event, NEW T \in SUBSET Positive
      PROVE  Limit(e, d, asked[e], least(e, T)) /\ least(e, T) \in Positive
  <2> DEFINE own == OwnRequests(e, d, asked[e])
  <2>1. own \subseteq Positive /\ Unlimited \in own
    BY OwnRequestsPositive
  <2>2. own \cup T \in SUBSET Nat /\ own \cup T # {} /\ own \cup T \subseteq Positive
    BY <2>1 DEF Positive
  <2>3. Min(own \cup T) \in own \cup T /\ \A x \in own \cup T : Min(own \cup T) <= x
    <3> HIDE DEF own
    <3> QED
      BY <2>2, MinOfNaturals
  <2>4. Min(own \cup T) \in Positive /\ \A x \in own : Min(own \cup T) <= x
    <3> HIDE DEF own
    <3> QED
      BY <2>2, <2>3
  <2>5. Attributes[e].forceDt \in Int /\ Unlimited \in Positive
    BY AttributeTypes
  <2>6. Attributes[e].forceDt > 0 => Attributes[e].forceDt \in Positive
    BY <2>5 DEF Positive
  <2>7. Attributes[e].forceDt <= 0 => ~(Attributes[e].forceDt > 0)
    BY <2>5
  <2>8. least(e, T) \in Positive
    BY <2>4, <2>5, <2>6
  <2>9. IsActive(e, d.time) /\ Attributes[e].forceDt <= 0 => least(e, T) = Min(own \cup T)
    BY <2>7
  <2>10. ~IsActive(e, d.time) => least(e, T) = Unlimited
    OBVIOUS
  <2> HIDE DEF least
  <2> QED
    BY <2>4, <2>8, <2>9, <2>10 DEF Limit
<1> HIDE DEF least
<1>3. g \in [Event \X SUBSET Positive -> Positive]
  <2>1. \A e \in Event : \A T \in SUBSET Positive : InWindow(e, d.time, least(e, T)) \in Positive
    BY <1>1, <1>2, InWindowPositive
  <2> QED
    BY <2>1
<1>4. PICK f \in [Event -> Positive] : IsRecursive(f, g)
  <2> HIDE DEF g
  <2> QED
    BY <1>3, TreeRecursion
<1>5. \A e \in Event : {f[s] : s \in Children(e)} \in SUBSET Positive
  BY EventTree
<1>6. \A e \in Event : f[e] = InWindow(e, d.time, least(e, {f[s] : s \in Children(e)}))
  BY <1>4, <1>5 DEF IsRecursive
<1>7. Is(f)
  <2>1. f = [e \in Event |-> f[e]]
    OBVIOUS
  <2> QED
    BY <1>6, <2>1
<1>8. Is(f0)
  <2> HIDE DEF Is
  <2> QED
    BY <1>7
<1>9. TimestepRequest(d, asked) = f0
  BY DEF TimestepRequest, least
<1> HIDE DEF f0
<1> DEFINE below(e) == {f0[s] : s \in Children(e)}
<1>10. \A e \in Event : f0[e] = InWindow(e, d.time, least(e, below(e)))
  BY <1>8
<1>11. \A e \in Event : below(e) \in SUBSET Positive
  <2> DEFINE P == {e \in Event : f0[e] \in Positive}
  <2>1. ASSUME NEW e \in Event, Children(e) \subseteq P PROVE e \in P
    <3>1. below(e) \in SUBSET Positive
      BY <2>1
    <3> HIDE DEF below
    <3>2. least(e, below(e)) \in Positive
      BY <3>1, <1>2
    <3> QED
      BY <1>1, <1>10, <3>2, InWindowPositive
  <2> HIDE DEF P
  <2>2. Event \subseteq P
    BY <2>1, TreeInduction
  <2> QED
    BY <2>2, EventTree DEF P
<1> HIDE DEF below
<1>12. ASSUME NEW e \in Event
       PROVE  /\ f0[e] \in Positive
              /\ \E limit \in Positive : Limit(e, d, asked[e], limit) /\ f0[e] = InWindow(e, d.time, limit)
  <2>1. Limit(e, d, asked[e], least(e, below(e))) /\ least(e, below(e)) \in Positive
    BY <1>2, <1>11
  <2>2. f0[e] = InWindow(e, d.time, least(e, below(e)))
    BY <1>10
  <2> QED
    BY <1>1, <2>1, <2>2, InWindowPositive
<1>13. \A e \in Event : TimestepRequest(d, asked)[e] = f0[e]
  BY <1>9
<1> QED
  BY <1>12, <1>13
-----------------------------------------------------------------------------
(* The invariant of the loop: the types, and where run() and execute() are.  *)

Entry == [event : Event, cycle : Nat, time : Int, dt : Int]
Phases == {"ready", "loop", "check", "execute", "collect", "returned", "done"}

Types ==
    /\ data \in Data
    /\ file # NoFile => file.at \in 0 .. at /\ file.data \in Data
    /\ exitFlags \in [Event -> BOOLEAN] /\ exitFlag \in BOOLEAN /\ early \in BOOLEAN
    /\ phase \in Phases
    /\ log \in Seq(Entry) /\ at \in 0 .. Len(log)
    /\ plan \in [0 .. PlanLength - 1 -> Requests]

SubsInRange(d) == \A e \in Event : d.sub[e] <= Len(Subs(e))

Position ==
    /\ phase \in {"execute", "collect"} => data.current < Len(Main)
    /\ phase = "execute" <=> stack # << >>
    /\ phase = "returned" => data.current > 0
    /\ early => phase \in {"execute", "collect"}

\* The events whose execute() has begun are one below the other.
Enters(e, d, s) == d.sub[e] < Len(Subs(e)) /\ s = Subs(e)[d.sub[e] + 1]
Nest ==
    /\ stack \in Seq(Event)
    /\ stack # << >> => stack[1] = Main[data.current + 1]
    /\ \A i \in 1 .. Len(stack) - 1 : Enters(stack[i], data, stack[i + 1])
    /\ \A i, j \in 1 .. Len(stack) : i < j => Height[stack[j]] < Height[stack[i]]

Control ==
    /\ Types /\ Position /\ Nest
    /\ SubsInRange(data) /\ (file # NoFile => SubsInRange(file.data))

\* The length of a cycle stays what it was when the cycle began.
Cycling == {"check", "execute", "collect"}
StepInWindows(d) ==
    /\ d.dt > 0
    /\ \A e \in Range(Main) : Attributes[e].targetExactStartStop =>
        \A t \in {Attributes[e].beginTime, Attributes[e].endTime} :
            ~(d.time < t /\ t < d.time + d.dt)
Windows ==
    /\ phase \in Cycling \/ data.current # 0 => StepInWindows(data)
    /\ file # NoFile /\ file.data.current # 0 => StepInWindows(file.data)
-----------------------------------------------------------------------------
(* The invariant of the events with exact times.                             *)

Exact(e) == Target(e) # "none" /\ (ExactPeriodic(e) \/ ExactSolo(e))
Due(e) == IF ExactPeriodic(e) THEN DuePeriodic(e) ELSE DueSolo(e)
TimesTo(l, n, e) == {l[i].time : i \in {j \in 1 .. n : l[j].event = e}}

\* Has the event of the loop, at place i, had its turn in this cycle?  Has its
\* target executed?
Collecting == phase = "collect"
Finished(i, d, c) == i <= d.current \/ (c /\ i = d.current + 1)
Begun(i, d, c) == Finished(i, d, c) \/ d.executing[Main[i]]

LastPeriodic(e, d, finished) ==
    LET last == d.lastTime[e]  next == d.lastTime[e] + Attributes[e].timeFrequency
    IN \/ /\ last = Never
          /\ \/ FirstTime(e) > d.time \/ FirstTime(e) >= Attributes[e].endTime
             \/ FirstTime(e) = d.time /\ ~finished
       \/ /\ last \in DuePeriodic(e)
          /\ finished => last <= d.time /\ (d.time < Attributes[e].endTime => d.time < next)
          /\ ~finished => last < d.time /\ (d.time < Attributes[e].endTime => d.time <= next)
LastSolo(e, d, finished) ==
    d.lastCycle[e] < 0 <=> \A t \in DueSolo(e) : d.time < t \/ (t = d.time /\ ~finished)

\* The length of a cycle takes no event beyond its next time.
StepPeriodic(e, d) ==
    LET next == d.lastTime[e] + Attributes[e].timeFrequency
    IN IF d.time < next THEN d.time + d.dt <= next ELSE d.dt <= Attributes[e].timeFrequency
StepSolo(e, d) == d.time < Attributes[e].targetTime => d.time + d.dt <= Attributes[e].targetTime
StepExact(e, d) ==
    /\ d.dt > 0
    /\ d.time < Attributes[e].beginTime => d.time + d.dt <= Attributes[e].beginTime
    /\ IsActive(e, d.time) /\ ExactPeriodic(e) => StepPeriodic(e, d)
    /\ IsActive(e, d.time) /\ ExactSolo(e) => StepSolo(e, d)

OnTimeAt(i, d, l, n, c) ==
    Exact(Main[i]) =>
        /\ TimesTo(l, n, Main[i]) = {t \in Due(Main[i]) : t < d.time \/ (t = d.time /\ Begun(i, d, c))}
        /\ ExactPeriodic(Main[i]) => LastPeriodic(Main[i], d, Finished(i, d, c))
        /\ ExactSolo(Main[i]) => LastSolo(Main[i], d, Finished(i, d, c))
        /\ d.executing[Main[i]] => i = d.current + 1 /\ ~c /\ d.time \in Due(Main[i])

Clock(d) == d.time >= MinTime /\ (d.cycle = 0 => d.time = MinTime)

Started == phase # "ready" \/ MinTime = 0
Fresh ==
    /\ data.time = 0 /\ data.cycle = 0 /\ data.current = 0
    /\ data.lastTime = [e \in Event |-> Never] /\ data.lastCycle = [e \in Event |-> Never]
    /\ data.executing = [e \in Event |-> FALSE] /\ at = 0

\* All events with exact times are in time in this state; a restart file holds
\* a state in which they were.
Turns(d, l, n, c) == \A i \in 1 .. Len(Main) : OnTimeAt(i, d, l, n, c)
StepsExact(d) ==
    d.dt > 0 /\ \A i \in 1 .. Len(Main) : Exact(Main[i]) => StepExact(Main[i], d)
InTime ==
    /\ Clock(data) /\ Turns(data, log, at, Collecting)
    /\ phase \in Cycling \/ data.current # 0 => StepsExact(data)
    /\ phase = "execute" /\ Exact(stack[1]) => data.time \in Due(stack[1])
FileInTime ==
    file # NoFile =>
        /\ Clock(file.data) /\ Turns(file.data, log, file.at, FALSE)
        /\ file.data.current # 0 => StepsExact(file.data)

\* Before a run() that starts at another time than 0, there is no restart file.
Punctual ==
    /\ MinTime # 0 => file = NoFile
    /\ ~Started => Fresh
    /\ Started => InTime
    /\ FileInTime
-----------------------------------------------------------------------------
(* What each step does to the data.                                          *)

\* All but the time, the length and the number of the cycle, and its events.
SameEvents(d, o) ==
    /\ o.lastTime = d.lastTime /\ o.lastCycle = d.lastCycle /\ o.forecast = d.forecast
    /\ o.sub = d.sub /\ o.executing = d.executing /\ o.steps = d.steps
SameClock(d, o) == o.time = d.time /\ o.dt = d.dt /\ o.cycle = d.cycle
SameCycle(d, o) == SameClock(d, o) /\ o.current = d.current

LEMMA DataFields ==
  ASSUME NEW d \in Data
  PROVE  /\ d.time \in Int /\ d.dt \in Int /\ d.cycle \in Nat
         /\ d.current \in 0 .. Len(Main) /\ d.current \in Nat /\ d.current <= Len(Main)
         /\ d.lastTime \in [Event -> Int] /\ d.lastCycle \in [Event -> Int]
         /\ d.forecast \in [Event -> Int] /\ d.sub \in [Event -> Nat]
         /\ d.executing \in [Event -> BOOLEAN] /\ d.steps \in [Event -> Nat]
<1>1. Len(Main) \in Nat
  BY EventsAssumption
<1>2. d.current \in 0 .. Len(Main)
  BY DEF Data
<1> QED
  BY <1>1, <1>2 DEF Data

LEMMA MainEvents ==
  /\ Len(Main) \in Nat
  /\ \A i \in 1 .. Len(Main) : Main[i] \in Event /\ Main[i] \in Range(Main)
  /\ \A e \in Range(Main) : e \in Event /\ \E i \in 1 .. Len(Main) : e = Main[i]
  /\ \A i, j \in 1 .. Len(Main) : Main[i] = Main[j] => i = j
  /\ \A e \in Event : \A i \in 1 .. Len(Main) : Main[i] \notin Children(e)
<1>1. Main \in Seq(Event) /\ DOMAIN Main = 1 .. Len(Main) /\ Len(Main) \in Nat
  BY EventsAssumption
<1>2. \A i \in 1 .. Len(Main) : Main[i] \in Event /\ Main[i] \in Range(Main)
  BY <1>1 DEF Range
<1>3. \A e \in Range(Main) : \E i \in 1 .. Len(Main) : e = Main[i]
  BY <1>1 DEF Range
<1>4. \A i, j \in 1 .. Len(Main) : Main[i] = Main[j] => i = j
  BY <1>1, EventsAssumption DEF IsInjective
<1>5. \A e \in Event : Children(e) \cap Range(Main) = {}
  BY EventsAssumption
<1> QED
  BY <1>1, <1>2, <1>3, <1>4, <1>5

LEMMA SubEvents ==
  ASSUME NEW e \in Event
  PROVE  /\ Subs(e) \in Seq(Event) /\ Len(Subs(e)) \in Nat
         /\ \A i \in 1 .. Len(Subs(e)) : Subs(e)[i] \in Children(e) /\ Subs(e)[i] \in Event
         /\ \A s \in Children(e) : \E i \in 1 .. Len(Subs(e)) : s = Subs(e)[i]
         /\ \A i, j \in 1 .. Len(Subs(e)) : Subs(e)[i] = Subs(e)[j] => i = j
<1>1. Subs(e) \in Seq(Event) /\ DOMAIN Subs(e) = 1 .. Len(Subs(e)) /\ Len(Subs(e)) \in Nat
  BY EventsAssumption DEF Subs
<1>2. \A i, j \in 1 .. Len(Subs(e)) : Subs(e)[i] = Subs(e)[j] => i = j
  BY <1>1, EventsAssumption DEF Subs, IsInjective
<1>3. Children(e) = {Subs(e)[i] : i \in 1 .. Len(Subs(e))}
  BY <1>1 DEF Children, Range, Subs
<1> QED
  BY <1>1, <1>2, <1>3

RunStart == IF data.current = 0 /\ MinTime # 0 THEN MinTime ELSE data.time

LEMMA RunEffect ==
  ASSUME data \in Data, Run
  PROVE  /\ data' \in Data /\ data'.time = RunStart /\ data'.dt = data.dt
         /\ data'.cycle = data.cycle /\ data'.current = data.current /\ SameEvents(data, data')
         /\ phase \in {"ready", "returned"} /\ phase' = "loop" /\ exitFlag' = FALSE
         /\ UNCHANGED <<exitFlags, stack, early, file, restarts, plan, above, log, at>>
<1>1. MinTime \in Int
  BY AttributeTypes
<1>2. data' = IF data.current = 0 /\ MinTime # 0 THEN [data EXCEPT !.time = MinTime] ELSE data
  BY DEF Run
<1>3. /\ data' \in Data /\ data'.time = RunStart /\ data'.dt = data.dt
      /\ data'.cycle = data.cycle /\ data'.current = data.current
  BY <1>1, <1>2 DEF Data, RunStart
<1>4. SameEvents(data, data')
  BY <1>1, <1>2 DEF Data, SameEvents
<1> QED
  BY <1>3, <1>4 DEF Run, world

LEMMA CycleDtLeast ==
  ASSUME data \in Data, plan \in [0 .. PlanLength - 1 -> Requests], Continues
  PROVE  /\ CycleDt \in Positive
         /\ Asked \in [Event -> Positive]
         /\ \A i \in 1 .. Len(Main) : CycleDt <= TimestepRequest(data, Asked)[Main[i]]
<1>1. ASSUME NEW e \in Event PROVE Asked[e] \in Positive
  <2>1. data.steps[e] \in Nat /\ PlanLength \in Nat \ {0}
    BY DataFields, BoundsAssumption
  <2>2. data.steps[e] % PlanLength \in 0 .. PlanLength - 1
    BY <2>1
  <2>3. NextDt(e, data.steps) \in Positive
    BY <2>2, BoundsAssumption DEF NextDt, Positive
  <2> QED
    BY <2>3, AttributeTypes DEF Asked
<1>2. Asked \in [Event -> Positive]
  BY <1>1 DEF Asked
<1>3. MaxTime - data.time \in Positive
  <2>1. data.time \in Int /\ MaxTime \in Int /\ data.time < MaxTime
    BY DataFields, AttributeTypes DEF Continues
  <2> QED
    BY <2>1 DEF Positive
<1> DEFINE r == TimestepRequest(data, Asked)
           S == {MaxTime - data.time} \cup {r[e] : e \in Range(Main)}
<1>4. \A e \in Event : r[e] \in Positive
  BY <1>2, EventRequests
<1>5. S \in SUBSET Positive /\ S \in SUBSET Nat /\ S # {}
  <2> HIDE DEF r
  <2> QED
    BY <1>3, <1>4, MainEvents DEF Positive
<1>6. Min(S) \in S /\ \A x \in S : Min(S) <= x
  <2> HIDE DEF S
  <2> QED
    BY <1>5, MinOfNaturals
<1>7. CycleDt = Min(S)
  BY DEF CycleDt
<1> HIDE DEF r
<1>8. \A i \in 1 .. Len(Main) : r[Main[i]] \in S
  BY MainEvents
<1> HIDE DEF S
<1> QED
  BY <1>2, <1>5, <1>6, <1>7, <1>8 DEF r

LEMMA StartCycleEffect ==
  ASSUME data \in Data, plan \in [0 .. PlanLength - 1 -> Requests], StartCycle
  PROVE  /\ data' \in Data /\ data'.time = data.time
         /\ data'.dt = IF data.current = 0 THEN CycleDt ELSE data.dt
         /\ data'.cycle = data.cycle /\ data'.current = data.current /\ SameEvents(data, data')
         /\ phase = "loop" /\ phase' = "check" /\ Continues
         /\ UNCHANGED <<exitFlags, exitFlag, stack, early, file, restarts, plan, above, log, at>>
<1>1. CycleDt \in Int
  BY CycleDtLeast DEF StartCycle, Positive
<1>2. data' = IF data.current = 0 THEN [data EXCEPT !.dt = CycleDt] ELSE data
  BY DEF StartCycle
<1> DEFINE least == CycleDt
<1> HIDE DEF least
<1>3. /\ data' \in Data /\ data'.time = data.time
      /\ data'.dt = IF data.current = 0 THEN least ELSE data.dt
      /\ data'.cycle = data.cycle /\ data'.current = data.current
  BY <1>1, <1>2 DEF Data, least
<1>4. SameEvents(data, data')
  BY <1>1, <1>2 DEF Data, SameEvents
<1> QED
  BY <1>3, <1>4 DEF StartCycle, world, least

LEMMA EndCycleEffect ==
  ASSUME data \in Data, EndCycle
  PROVE  /\ data' \in Data /\ data'.time = data.time + data.dt /\ data'.dt = data.dt
         /\ data'.cycle = data.cycle + 1 /\ data'.current = 0 /\ SameEvents(data, data')
         /\ phase = "check" /\ data.current = Len(Main) /\ phase' = "loop"
         /\ UNCHANGED <<exitFlags, exitFlag, stack, early, file, restarts, plan, above, log, at>>
<1>1. /\ data.time + data.dt \in Int /\ data.cycle + 1 \in Nat /\ 0 \in 0 .. Len(Main)
  BY DataFields
<1>2. data' = [data EXCEPT !.time = data.time + data.dt, !.cycle = data.cycle + 1, !.current = 0]
  BY DEF EndCycle
<1>3. /\ data' \in Data /\ data'.time = data.time + data.dt /\ data'.dt = data.dt
      /\ data'.cycle = data.cycle + 1 /\ data'.current = 0
  BY <1>1, <1>2 DEF Data
<1>4. SameEvents(data, data')
  BY <1>2 DEF Data, SameEvents
<1> QED
  BY <1>3, <1>4 DEF EndCycle, world

LEMMA CyclesInt ==
  ASSUME NEW duration \in Int, NEW dt \in Int
  PROVE  Cycles(duration, dt) \in Int
<1>1. dt > 0 => duration \div dt \in Int /\ (-duration) \div dt \in Int
  OBVIOUS
<1>2. dt > 0 => -((-duration) \div dt) \in Int
  BY <1>1
<1>3. Idle \in Int
  BY AttributeTypes
<1> QED
  BY <1>1, <1>2, <1>3 DEF Cycles

LEMMA ForecastInt ==
  ASSUME NEW e \in Event, NEW d \in Data, NEW clock \in Int
  PROVE  Forecast(e, d, above, clock) \in Int
<1>1. /\ d.time \in Int /\ d.dt \in Int /\ d.cycle \in Int
      /\ d.lastTime[e] \in Int /\ d.lastCycle[e] \in Int /\ Idle \in Int
  BY DataFields, AttributeTypes
<1>2. /\ Attributes[e].beginTime \in Int /\ Attributes[e].timeFrequency \in Int
      /\ Attributes[e].cycleFrequency \in Int /\ Attributes[e].targetTime \in Int
      /\ Attributes[e].targetCycle \in Int
  BY AttributeTypes
<1> DEFINE rest == Attributes[e].timeFrequency - (d.time - d.lastTime[e])
<1>3. PeriodicTiming(e, d) \in Int
  <2>1. rest \in Int
    BY <1>1, <1>2
  <2> HIDE DEF rest
  <2>2. GreatestOf(0, rest) \in Int
    BY <2>1 DEF GreatestOf
  <2>3. Cycles(GreatestOf(0, rest), d.dt) \in Int
    BY <1>1, <2>2, CyclesInt
  <2>4. Attributes[e].cycleFrequency - (d.cycle - d.lastCycle[e]) \in Int
    BY <1>1, <1>2
  <2> QED
    BY <2>3, <2>4 DEF PeriodicTiming, rest
<1>4. ThresholdTiming(e, d, above) \in Int
  BY <1>1, <1>3 DEF ThresholdTiming
<1>5. SoloTiming(e, d) \in Int
  <2>1. /\ Attributes[e].targetTime - d.time \in Int
        /\ Attributes[e].targetCycle - d.cycle \in Int
    BY <1>1, <1>2
  <2>2. Cycles(Attributes[e].targetTime - d.time, d.dt) \in Int
    BY <1>1, <2>1, CyclesInt
  <2> QED
    BY <1>1, <2>1, <2>2 DEF SoloTiming
<1>6. EventTiming(e, d, above, clock) \in Int
  BY <1>4, <1>5, AttributeTypes DEF EventTiming
<1>7. Cycles(Attributes[e].beginTime - d.time, d.dt) \in Int
  <2>1. Attributes[e].beginTime - d.time \in Int
    BY <1>1, <1>2
  <2> QED
    BY <1>1, <2>1, CyclesInt
<1> QED
  BY <1>1, <1>6, <1>7 DEF Forecast

Current == Main[data.current + 1]
CheckedNow == Checked(Current, data.time)
NewForecast(clock) ==
    [x \in Event |-> IF x \in CheckedNow THEN Forecast(x, data, above, clock) ELSE data.forecast[x]]

LEMMA CurrentEvent ==
  ASSUME data \in Data, data.current < Len(Main)
  PROVE  /\ data.current + 1 \in 1 .. Len(Main)
         /\ Current \in Event /\ Current \in Range(Main) /\ Subtree[Current] \subseteq Event
         /\ \A e \in Event : Current \notin Children(e)
<1>1. data.current + 1 \in 1 .. Len(Main)
  BY DataFields, MainEvents
<1> QED
  BY <1>1, MainEvents, Subtrees DEF Current

LEMMA CheckEventEffect ==
  ASSUME data \in Data, NEW clock \in Int, CheckEvent(clock)
  PROVE  /\ data' \in Data /\ SameCycle(data, data')
         /\ data'.lastTime = data.lastTime /\ data'.lastCycle = data.lastCycle
         /\ data'.sub = data.sub /\ data'.executing = data.executing /\ data'.steps = data.steps
         /\ data'.forecast = NewForecast(clock)
         /\ exitFlags' = [x \in Event |-> exitFlags[x] \/
                /\ x \in CheckedNow /\ Attributes[x].kind = "halt"
                /\ IsActive(x, data.time) /\ IsReadyForExec(NewForecast(clock)[x])]
         /\ phase = "check" /\ data.current < Len(Main)
         /\ IF IsReadyForExec(NewForecast(clock)[Current])
            THEN stack' = <<Current>> /\ phase' = "execute"
            ELSE stack' = stack /\ phase' = "collect"
         /\ UNCHANGED <<exitFlag, early, file, restarts, plan, above, log, at>>
<1> DEFINE new == NewForecast(clock)
<1>1. new \in [Event -> Int]
  BY ForecastInt, DataFields DEF NewForecast
<1>2. /\ data' = [data EXCEPT !.forecast = new]
      /\ exitFlags' = [x \in Event |-> exitFlags[x] \/
             /\ x \in CheckedNow /\ Attributes[x].kind = "halt"
             /\ IsActive(x, data.time) /\ IsReadyForExec(new[x])]
      /\ phase = "check" /\ data.current < Len(Main)
      /\ IF IsReadyForExec(new[Current])
         THEN stack' = <<Current>> /\ phase' = "execute"
         ELSE stack' = stack /\ phase' = "collect"
      /\ UNCHANGED <<exitFlag, early, file, restarts, plan, above, log, at>>
  BY DEF CheckEvent, NewForecast, CheckedNow, Current, world
<1> HIDE DEF new
<1>3. data' \in Data /\ SameCycle(data, data')
  BY <1>1, <1>2 DEF Data, SameCycle, SameClock
<1>4. /\ data'.lastTime = data.lastTime /\ data'.lastCycle = data.lastCycle
      /\ data'.sub = data.sub /\ data'.executing = data.executing /\ data'.steps = data.steps
      /\ data'.forecast = new
  BY <1>2 DEF Data
<1> QED
  BY <1>2, <1>3, <1>4 DEF new

LEMMA CollectExitFlagEffect ==
  ASSUME data \in Data, data.current < Len(Main), CollectExitFlag
  PROVE  /\ data' \in Data /\ SameClock(data, data') /\ data'.current = data.current + 1
         /\ SameEvents(data, data')
         /\ exitFlags' = [x \in Event |-> IF x \in Subtree[Current] THEN ExitFlagBelow(x) ELSE exitFlags[x]]
         /\ exitFlag' = (exitFlag \/ ExitFlagBelow(Current))
         /\ phase = "collect" /\ phase' = IF early THEN "returned" ELSE "check"
         /\ early' = FALSE
         /\ UNCHANGED <<stack, file, restarts, plan, above, log, at>>
<1>1. data.current + 1 \in 0 .. Len(Main)
  BY DataFields, MainEvents
<1>2. data' = [data EXCEPT !.current = data.current + 1]
  BY DEF CollectExitFlag
<1>3. data' \in Data /\ SameClock(data, data') /\ data'.current = data.current + 1
  BY <1>1, <1>2 DEF Data, SameClock
<1>4. SameEvents(data, data')
  BY <1>2 DEF Data, SameEvents
<1> QED
  BY <1>3, <1>4 DEF CollectExitFlag, Current, world

LEMMA EventsCleanUp ==
  \A m \in Event : CleansUp[m] \subseteq Event
<1> DEFINE S == SUBSET Event
           ready(e) == IsReadyForCleanup(e, data.time) /\ Attributes[e].kind = "periodic"
           g == [p \in Event \X SUBSET S |-> IF ready(p[1]) THEN {p[1]} \cup UNION p[2] ELSE {}]
           Is(f) == f = [e \in Event |->
                            IF ready(e) THEN {e} \cup UNION {f[s] : s \in Children(e)} ELSE {}]
           f0 == CHOOSE f : Is(f)
<1>1. g \in [Event \X SUBSET S -> S]
  <2> HIDE DEF ready
  <2> QED
    OBVIOUS
<1>2. PICK f \in [Event -> S] : IsRecursive(f, g)
  <2> HIDE DEF S, g
  <2> QED
    BY <1>1, TreeRecursion
<1>3. \A e \in Event : {f[s] : s \in Children(e)} \in SUBSET S
  BY EventTree
<1>4. \A e \in Event : f[e] = IF ready(e) THEN {e} \cup UNION {f[s] : s \in Children(e)} ELSE {}
  <2> HIDE DEF ready
  <2> QED
    BY <1>2, <1>3 DEF IsRecursive
<1>5. Is(f)
  <2> HIDE DEF ready
  <2>1. f = [e \in Event |-> f[e]]
    OBVIOUS
  <2> QED
    BY <1>4, <2>1
<1>6. Is(f0)
  <2> HIDE DEF Is
  <2> QED
    BY <1>5
<1>7. CleansUp = f0
  BY DEF CleansUp
<1> HIDE DEF f0, ready
<1>8. \A e \in Event : CleansUp[e] = IF ready(e) THEN {e} \cup UNION {CleansUp[s] : s \in Children(e)}
                                     ELSE {}
  BY <1>6, <1>7
<1> DEFINE P == {e \in Event : CleansUp[e] \subseteq Event}
<1>9. ASSUME NEW e \in Event, Children(e) \subseteq P PROVE e \in P
  <2>1. UNION {CleansUp[s] : s \in Children(e)} \subseteq Event
    BY <1>9
  <2>2. CleansUp[e] = {e} \cup UNION {CleansUp[s] : s \in Children(e)} \/ CleansUp[e] = {}
    BY <1>8
  <2> QED
    BY <2>1, <2>2
<1> HIDE DEF P
<1>10. Event \subseteq P
  BY <1>9, TreeInduction
<1> QED
  BY <1>10 DEF P

LEMMA FinishEffect ==
  ASSUME Finish
  PROVE  /\ phase = "loop" /\ phase' = "done" /\ ~Continues
         /\ file' = file \/ /\ file' = [at |-> at, data |-> data]
                            /\ \E e \in Event : Target(e) = "restart"
         /\ UNCHANGED <<data, exitFlags, exitFlag, stack, early, restarts, plan, above, log, at>>
<1>1. UNION {CleansUp[m] : m \in Range(Main)} \subseteq Event
  BY EventsCleanUp, MainEvents
<1> QED
  BY <1>1 DEF Finish, world

LEMMA RestartEffect ==
  ASSUME Restart
  PROVE  /\ file # NoFile /\ data' = file.data /\ at' = file.at
         /\ exitFlags' = [e \in Event |-> FALSE] /\ exitFlag' = FALSE
         /\ phase' = "ready" /\ stack' = << >> /\ early' = FALSE
         /\ UNCHANGED <<file, plan, above, log>>
BY DEF Restart

LEMMA TopOfStack ==
  ASSUME stack \in Seq(Event), stack # << >>
  PROVE  /\ Len(stack) \in Nat /\ Len(stack) >= 1 /\ DOMAIN stack = 1 .. Len(stack)
         /\ Len(stack) \in 1 .. Len(stack) /\ 1 \in 1 .. Len(stack)
         /\ Executing \in Event /\ stack[1] \in Event
<1>1. Len(stack) \in Nat /\ DOMAIN stack = 1 .. Len(stack) /\ Len(stack) # 0
  BY EmptySeq, LenProperties
<1>2. Len(stack) >= 1 /\ Len(stack) \in 1 .. Len(stack) /\ 1 \in 1 .. Len(stack)
  BY <1>1
<1>3. stack[Len(stack)] \in Event /\ stack[1] \in Event
  BY <1>1, <1>2, ElementOfSeq
<1> QED
  BY <1>1, <1>2, <1>3 DEF Executing

LEMMA LogEffect ==
  ASSUME NEW l \in Seq(Entry), NEW n \in 0 .. Len(l), NEW x \in Entry,
         NEW new, new = IF n < Len(l) THEN [l EXCEPT ![n + 1] = x] ELSE Append(l, x)
  PROVE  /\ new \in Seq(Entry) /\ n + 1 \in 0 .. Len(new) /\ new[n + 1] = x
         /\ \A i \in 1 .. n : new[i] = l[i]
<1>1. Len(l) \in Nat /\ DOMAIN l = 1 .. Len(l)
  BY LenProperties
<1>2. CASE n < Len(l)
  <2>1. n + 1 \in 1 .. Len(l) /\ n + 1 \in 0 .. Len(l)
    BY <1>1, <1>2
  <2>2. new = [l EXCEPT ![n + 1] = x]
    BY <1>2
  <2>3. new \in Seq(Entry) /\ Len(new) = Len(l) /\ new[n + 1] = x
    <3>1. /\ [l EXCEPT ![n + 1] = x] \in Seq(Entry)
          /\ Len([l EXCEPT ![n + 1] = x]) = Len(l)
          /\ \A j \in 1 .. Len(l) : [l EXCEPT ![n + 1] = x][j] = IF j = n + 1 THEN x ELSE l[j]
      BY <2>1, ExceptSeq
    <3> QED
      BY <2>1, <2>2, <3>1
  <2>4. \A i \in 1 .. n : i \in DOMAIN l /\ i # n + 1
    BY <1>1, <1>2
  <2>5. \A i \in DOMAIN l : i # n + 1 => new[i] = l[i]
    BY <2>2
  <2> QED
    BY <2>1, <2>3, <2>4, <2>5
<1>3. CASE ~(n < Len(l))
  <2>1. n = Len(l)
    <3>1. \A k \in Nat : \A m \in 0 .. k : ~(m < k) => m = k
      OBVIOUS
    <3> QED
      BY <1>1, <1>3, <3>1
  <2>2. new = Append(l, x)
    BY <1>3
  <2>3. /\ new \in Seq(Entry) /\ Len(new) = Len(l) + 1 /\ new[Len(l) + 1] = x
        /\ \A i \in 1 .. Len(l) : new[i] = l[i]
    BY <2>2, AppendProperties
  <2>4. n + 1 \in 0 .. Len(new)
    BY <1>1, <2>1, <2>3
  <2> QED
    BY <2>1, <2>3, <2>4
<1> QED
  BY <1>2, <1>3

LEMMA ExecuteTargetEffect ==
  ASSUME data \in Data, stack \in Seq(Event), stack # << >>,
         log \in Seq(Entry), at \in 0 .. Len(log), ExecuteTarget
  PROVE  /\ data' \in Data /\ SameCycle(data, data')
         /\ data'.lastTime = data.lastTime /\ data'.lastCycle = data.lastCycle
         /\ data'.forecast = data.forecast /\ data'.sub = data.sub
         /\ data'.executing = [data.executing EXCEPT ![Executing] = TRUE]
         /\ \A x \in Event : data'.steps[x] = IF x = Executing /\ Target(x) = "solver"
                                              THEN data.steps[x] + 1 ELSE data.steps[x]
         /\ phase = "execute" /\ Target(Executing) # "none" /\ ~data.executing[Executing]
         /\ file' = IF Target(Executing) = "restart" THEN [at |-> at', data |-> data'] ELSE file
         /\ early' = (Target(Executing) = "python")
         /\ log' \in Seq(Entry) /\ at' = at + 1 /\ at' \in 0 .. Len(log')
         /\ log'[at'] = Execution(Executing) /\ \A i \in 1 .. at : log'[i] = log[i]
         /\ UNCHANGED <<exitFlags, exitFlag, phase, stack, restarts, plan, above>>
<1> DEFINE e == Executing
           counted == IF Target(e) = "solver" THEN data.steps[e] + 1 ELSE data.steps[e]
<1>1. e \in Event
  BY TopOfStack
<1>2. counted \in Nat
  <2>1. data.steps[e] \in Nat
    BY <1>1, DataFields
  <2>2. data.steps[e] + 1 \in Nat
    BY <2>1
  <2> QED
    BY <2>1, <2>2
<1>3. data' = [data EXCEPT !.executing[e] = TRUE, !.steps[e] = counted]
  BY DEF ExecuteTarget
<1>4. /\ phase = "execute" /\ Target(e) # "none" /\ ~data.executing[e]
      /\ file' = IF Target(e) = "restart" THEN [at |-> at + 1, data |-> Marked(e)] ELSE file
      /\ early' = (Target(e) = "python") /\ at' = at + 1
      /\ log' = IF at < Len(log) THEN [log EXCEPT ![at + 1] = Execution(e)]
                ELSE Append(log, Execution(e))
      /\ UNCHANGED <<exitFlags, exitFlag, phase, stack, restarts, plan, above>>
  BY DEF ExecuteTarget, world
<1>5. Target(e) = "restart" => Marked(e) = data'
  <2> SUFFICES ASSUME Target(e) = "restart" PROVE Marked(e) = data'
    OBVIOUS
  <2>1. counted = data.steps[e]
    OBVIOUS
  <2> HIDE DEF e, counted
  <2> QED
    BY <1>1, <1>3, <2>1 DEF Marked, Data
<1>6. Execution(e) \in Entry
  BY <1>1, DataFields DEF Execution, Entry
<1>7. /\ log' \in Seq(Entry) /\ at' \in 0 .. Len(log')
      /\ log'[at'] = Execution(e) /\ \A i \in 1 .. at : log'[i] = log[i]
  <2> DEFINE x == Execution(e)  n == at  l == log  new == log'
  <2>1. x \in Entry /\ l \in Seq(Entry) /\ n \in 0 .. Len(l)
    BY <1>6
  <2>2. new = IF n < Len(l) THEN [l EXCEPT ![n + 1] = x] ELSE Append(l, x)
    BY <1>4
  <2>3. at' = n + 1
    BY <1>4
  <2> HIDE DEF x, n, l, new
  <2>4. /\ new \in Seq(Entry) /\ n + 1 \in 0 .. Len(new) /\ new[n + 1] = x
        /\ \A i \in 1 .. n : new[i] = l[i]
    BY <2>1, <2>2, LogEffect
  <2> QED
    BY <2>3, <2>4 DEF x, n, l, new
<1>8. data.executing \in [Event -> BOOLEAN] /\ data.steps \in [Event -> Nat]
  BY DataFields
<1> HIDE DEF e, counted
<1>9. /\ data' \in Data /\ SameCycle(data, data')
      /\ data'.lastTime = data.lastTime /\ data'.lastCycle = data.lastCycle
      /\ data'.forecast = data.forecast /\ data'.sub = data.sub
  BY <1>1, <1>2, <1>3, <1>8 DEF Data, SameCycle, SameClock
<1>10. /\ data'.executing = [data.executing EXCEPT ![e] = TRUE]
       /\ data'.steps = [data.steps EXCEPT ![e] = counted]
  BY <1>1, <1>3, <1>8 DEF Data
<1>11. \A x \in Event : data'.steps[x] = IF x = e THEN counted ELSE data.steps[x]
  BY <1>8, <1>10
<1>12. \A x \in Event : data'.steps[x] = IF x = Executing /\ Target(x) = "solver"
                                         THEN data.steps[x] + 1 ELSE data.steps[x]
  BY <1>11 DEF e, counted
<1>13. file' = IF Target(e) = "restart" THEN [at |-> at', data |-> data'] ELSE file
  BY <1>4, <1>5
<1> QED
  BY <1>4, <1>7, <1>9, <1>10, <1>12, <1>13 DEF e

NextSub == Subs(Executing)[data.sub[Executing] + 1]

LEMMA ExecuteSubEventEffect ==
  ASSUME data \in Data, stack \in Seq(Event), stack # << >>, ExecuteSubEvent
  PROVE  /\ phase = "execute" /\ TargetExecuted(Executing)
         /\ data.sub[Executing] < Len(Subs(Executing))
         /\ NextSub \in Children(Executing) /\ NextSub \in Event
         /\ \/ /\ IsReadyForExec(data.forecast[NextSub]) /\ ~early
               /\ stack' = Append(stack, NextSub) /\ data' = data
            \/ /\ ~(IsReadyForExec(data.forecast[NextSub]) /\ ~early)
               /\ stack' = stack /\ data' \in Data /\ SameCycle(data, data')
               /\ data'.lastTime = data.lastTime /\ data'.lastCycle = data.lastCycle
               /\ data'.forecast = data.forecast /\ data'.executing = data.executing
               /\ data'.steps = data.steps
               /\ data'.sub = [data.sub EXCEPT ![Executing] = data.sub[Executing] + 1]
         /\ UNCHANGED <<exitFlags, exitFlag, phase, early, file, restarts, plan, above, log, at>>
<1> DEFINE e == Executing
           next == data.sub[e] + 1
<1>1. e \in Event
  BY TopOfStack
<1>2. data.sub[e] \in Nat /\ data.sub \in [Event -> Nat]
  BY <1>1, DataFields
<1>3. /\ phase = "execute" /\ TargetExecuted(e) /\ data.sub[e] < Len(Subs(e))
      /\ IF IsReadyForExec(data.forecast[NextSub]) /\ ~early
         THEN stack' = Append(stack, NextSub) /\ data' = data
         ELSE stack' = stack /\ data' = [data EXCEPT !.sub[e] = next]
      /\ UNCHANGED <<exitFlags, exitFlag, phase, early, file, restarts, plan, above, log, at>>
  BY DEF ExecuteSubEvent, NextSub, world
<1>4. next \in Nat /\ next \in 1 .. Len(Subs(e))
  <2>1. Len(Subs(e)) \in Nat
    BY <1>1, SubEvents
  <2> QED
    BY <1>2, <1>3, <2>1
<1>5. NextSub \in Children(e) /\ NextSub \in Event
  BY <1>1, <1>4, SubEvents DEF NextSub
<1>6. data' = [data EXCEPT !.sub[e] = next] =>
        /\ data' \in Data /\ SameCycle(data, data')
        /\ data'.lastTime = data.lastTime /\ data'.lastCycle = data.lastCycle
        /\ data'.forecast = data.forecast /\ data'.executing = data.executing
        /\ data'.steps = data.steps
        /\ data'.sub = [data.sub EXCEPT ![e] = next]
  <2> HIDE DEF e, next
  <2> SUFFICES ASSUME data' = [data EXCEPT !.sub[e] = next]
               PROVE  /\ data' \in Data /\ SameCycle(data, data')
                      /\ data'.lastTime = data.lastTime /\ data'.lastCycle = data.lastCycle
                      /\ data'.forecast = data.forecast /\ data'.executing = data.executing
                      /\ data'.steps = data.steps
                      /\ data'.sub = [data.sub EXCEPT ![e] = next]
    OBVIOUS
  <2>1. data' \in Data
    BY <1>1, <1>2, <1>4 DEF Data
  <2>2. SameCycle(data, data')
    BY DEF Data, SameCycle, SameClock
  <2> QED
    BY <2>1, <2>2 DEF Data
<1> QED
  BY <1>3, <1>5, <1>6

Caller == stack[Len(stack) - 1]

LEMMA ReturnEffect ==
  ASSUME data \in Data, stack \in Seq(Event), stack # << >>,
         Len(stack) > 1 => Caller # Executing, ReturnFromExecute
  PROVE  /\ phase = "execute" /\ TargetExecuted(Executing)
         /\ data.sub[Executing] = Len(Subs(Executing))
         /\ Len(stack) > 1 => Caller \in Event
         /\ data' \in Data /\ SameCycle(data, data')
         /\ data'.forecast = data.forecast /\ data'.steps = data.steps
         /\ data'.executing = [data.executing EXCEPT ![Executing] = FALSE]
         /\ data'.lastTime = [data.lastTime EXCEPT ![Executing] = data.time]
         /\ data'.lastCycle = [data.lastCycle EXCEPT ![Executing] = data.cycle]
         /\ \A x \in Event : data'.sub[x] = IF x = Executing THEN 0
                                            ELSE IF Len(stack) > 1 /\ x = Caller
                                            THEN data.sub[x] + 1 ELSE data.sub[x]
         /\ stack' = SubSeq(stack, 1, Len(stack) - 1)
         /\ phase' = IF Len(stack) = 1 THEN "collect" ELSE phase
         /\ UNCHANGED <<exitFlags, exitFlag, early, file, restarts, plan, above, log, at>>
<1> DEFINE e == Executing
           c == Caller
           updated == Updated(e)
<1>1. e \in Event /\ Len(stack) \in Nat /\ Len(stack) >= 1 /\ DOMAIN stack = 1 .. Len(stack)
  BY TopOfStack
<1>2. Len(stack) > 1 => c \in Event /\ c # e
  <2>1. Len(stack) > 1 => Len(stack) - 1 \in 1 .. Len(stack)
    BY <1>1
  <2> QED
    BY <2>1, ElementOfSeq DEF Caller
<1>3. /\ phase = "execute" /\ TargetExecuted(e) /\ data.sub[e] = Len(Subs(e))
      /\ data' = Returned(e) /\ stack' = SubSeq(stack, 1, Len(stack) - 1)
      /\ phase' = IF Len(stack) = 1 THEN "collect" ELSE phase
      /\ UNCHANGED <<exitFlags, exitFlag, early, file, restarts, plan, above, log, at>>
  BY DEF ReturnFromExecute, world
<1>4. /\ data.time \in Int /\ data.cycle \in Int /\ data.cycle \in Nat
      /\ data.lastTime \in [Event -> Int] /\ data.lastCycle \in [Event -> Int]
      /\ data.executing \in [Event -> BOOLEAN] /\ data.sub \in [Event -> Nat]
  BY DataFields
<1> HIDE DEF e, c
<1>5. /\ updated \in Data /\ SameCycle(data, updated)
      /\ updated.forecast = data.forecast /\ updated.steps = data.steps
      /\ updated.executing = [data.executing EXCEPT ![e] = FALSE]
      /\ updated.lastTime = [data.lastTime EXCEPT ![e] = data.time]
      /\ updated.lastCycle = [data.lastCycle EXCEPT ![e] = data.cycle]
      /\ updated.sub = [data.sub EXCEPT ![e] = 0]
  BY <1>1, <1>4 DEF Updated, Data, SameCycle, SameClock
<1>6. \A x \in Event : updated.sub[x] = IF x = e THEN 0 ELSE data.sub[x]
  BY <1>4, <1>5
<1>7. updated.sub \in [Event -> Nat]
  BY <1>5, DataFields
<1>8. data' = IF Len(stack) = 1 THEN updated ELSE [updated EXCEPT !.sub[c] = updated.sub[c] + 1]
  BY <1>3 DEF Returned, Caller, c
<1> HIDE DEF updated
<1>9. CASE Len(stack) = 1
  <2>1. data' = updated /\ ~(Len(stack) > 1)
    BY <1>8, <1>9
  <2> QED
    BY <2>1, <1>2, <1>3, <1>5, <1>6 DEF e, c
<1>10. CASE Len(stack) # 1
  <2>1. Len(stack) > 1 /\ c \in Event /\ c # e
    BY <1>1, <1>2, <1>10
  <2> DEFINE k == updated.sub[c] + 1
  <2>2. k \in Nat /\ k = data.sub[c] + 1
    <3>1. updated.sub[c] = data.sub[c] /\ data.sub[c] \in Nat
      BY <2>1, <1>4, <1>6
    <3> QED
      BY <3>1
  <2>3. data' = [updated EXCEPT !.sub[c] = k]
    BY <1>8, <1>10
  <2> HIDE DEF k
  <2>4. /\ data' \in Data /\ SameCycle(updated, data')
        /\ data'.forecast = updated.forecast /\ data'.steps = updated.steps
        /\ data'.executing = updated.executing /\ data'.lastTime = updated.lastTime
        /\ data'.lastCycle = updated.lastCycle /\ data'.sub = [updated.sub EXCEPT ![c] = k]
    BY <2>1, <2>2, <2>3, <1>5, <1>7 DEF Data, SameCycle, SameClock
  <2>5. \A x \in Event : data'.sub[x] = IF x = c THEN k ELSE updated.sub[x]
    BY <2>4, <1>7
  <2>6. \A x \in Event : data'.sub[x] = IF x = e THEN 0 ELSE IF x = c THEN data.sub[x] + 1 ELSE data.sub[x]
    BY <2>1, <2>2, <2>5, <1>6
  <2>7. SameCycle(data, data')
    BY <2>4, <1>5 DEF SameCycle, SameClock
  <2> QED
    BY <2>1, <2>4, <2>6, <2>7, <1>2, <1>3, <1>5 DEF e, c
<1> QED
  BY <1>9, <1>10
-----------------------------------------------------------------------------
(* The types and the positions are an inductive invariant.                   *)

LEMMA NoNest ==
  ASSUME stack = << >>
  PROVE  Nest
<1>1. stack \in Seq(Event) /\ Len(stack) = 0
  BY EmptySeq
<1>2. 1 .. Len(stack) - 1 = {} /\ 1 .. Len(stack) = {}
  BY <1>1
<1> QED
  BY <1>1, <1>2 DEF Nest

LEMMA NoNestNext ==
  ASSUME stack' = << >>
  PROVE  Nest'
<1>1. stack' \in Seq(Event) /\ Len(stack') = 0
  BY EmptySeq
<1>2. 1 .. Len(stack') - 1 = {} /\ 1 .. Len(stack') = {}
  BY <1>1
<1> QED
  BY <1>1, <1>2 DEF Nest

LEMMA Nested ==
  ASSUME Nest, stack # << >>
  PROVE  /\ stack[1] = Current
         /\ \A i \in 1 .. Len(stack) - 1 : stack[i] # Executing
         /\ Len(stack) > 1 => /\ Len(stack) - 1 \in 1 .. Len(stack) - 1
                              /\ Caller # Executing /\ Enters(Caller, data, Executing)
                              /\ \A i \in 1 .. Len(stack) - 2 : stack[i] # Caller
<1> DEFINE n == Len(stack)
<1>1. /\ n \in Nat /\ n >= 1
      /\ \A i \in 1 .. n - 1 : Enters(stack[i], data, stack[i + 1])
      /\ \A i, j \in 1 .. n : i < j => Height[stack[j]] < Height[stack[i]]
      /\ \A i \in 1 .. n : stack[i] \in Event
  BY TopOfStack, ElementOfSeq DEF Nest
<1>2. \A i \in 1 .. n : Height[stack[i]] \in Nat
  BY <1>1, EventTree
<1>3. \A h, k \in Nat : h < k => h # k
  OBVIOUS
<1>4. \A i, j \in 1 .. n : i < j => stack[i] # stack[j]
  BY <1>1, <1>2, <1>3
<1> HIDE DEF n
<1>5. \A i \in 1 .. n - 1 : i \in 1 .. n /\ n \in 1 .. n /\ i < n
  BY <1>1
<1>6. \A i \in 1 .. n - 1 : stack[i] # stack[n]
  BY <1>4, <1>5
<1>7. n > 1 => n - 1 \in 1 .. n - 1 /\ n - 1 \in 1 .. n /\ (n - 1) + 1 = n
  BY <1>1
<1>8. \A i \in 1 .. n - 2 : i \in 1 .. n /\ i < n - 1 /\ n > 1
  BY <1>1
<1>9. \A i \in 1 .. n - 2 : stack[i] # stack[n - 1]
  BY <1>4, <1>7, <1>8
<1>10. stack[1] = Current
  BY DEF Nest, Current
<1>11. n > 1 => stack[n - 1] # stack[n] /\ Enters(stack[n - 1], data, stack[n])
  BY <1>1, <1>6, <1>7
<1> QED
  BY <1>6, <1>7, <1>9, <1>10, <1>11 DEF n, Executing, Caller

\* The steps of run() take place between the executions.
LEMMA RunControl ==
  ASSUME Control, Run \/ StartCycle \/ EndCycle \/ CollectExitFlag \/ Finish
  PROVE  Control'
<1>1. /\ Types /\ Position /\ SubsInRange(data) /\ (file # NoFile => SubsInRange(file.data))
      /\ data \in Data /\ plan \in [0 .. PlanLength - 1 -> Requests]
  BY DEF Control, Types
<1>2. CASE Run
  <2>1. /\ data' \in Data /\ data'.current = data.current /\ data'.sub = data.sub
        /\ phase \in {"ready", "returned"} /\ phase' = "loop" /\ exitFlag' = FALSE
        /\ UNCHANGED <<exitFlags, stack, early, file, plan, log, at>>
    BY <1>1, <1>2, RunEffect DEF SameEvents
  <2>2. Types'
    BY <1>1, <2>1 DEF Types, Phases
  <2>3. stack' = << >> /\ ~early
    BY <1>1, <2>1 DEF Position
  <2>4. Position'
    BY <1>1, <2>1, <2>3 DEF Position
  <2>5. SubsInRange(data') /\ (file' # NoFile => SubsInRange(file'.data))
    BY <1>1, <2>1 DEF SubsInRange
  <2> QED
    BY <2>2, <2>3, <2>4, <2>5, NoNestNext DEF Control, SubsInRange
<1>3. CASE StartCycle
  <2>1. /\ data' \in Data /\ data'.current = data.current /\ data'.sub = data.sub
        /\ phase = "loop" /\ phase' = "check"
        /\ UNCHANGED <<exitFlags, exitFlag, stack, early, file, plan, log, at>>
    BY <1>1, <1>3, StartCycleEffect DEF SameEvents
  <2>2. Types'
    BY <1>1, <2>1 DEF Types, Phases
  <2>3. stack' = << >> /\ ~early
    BY <1>1, <2>1 DEF Position
  <2>4. Position'
    BY <1>1, <2>1, <2>3 DEF Position
  <2>5. SubsInRange(data') /\ (file' # NoFile => SubsInRange(file'.data))
    BY <1>1, <2>1 DEF SubsInRange
  <2> QED
    BY <2>2, <2>3, <2>4, <2>5, NoNestNext DEF Control, SubsInRange
<1>4. CASE EndCycle
  <2>1. /\ data' \in Data /\ data'.sub = data.sub
        /\ phase = "check" /\ phase' = "loop"
        /\ UNCHANGED <<exitFlags, exitFlag, stack, early, file, plan, log, at>>
    BY <1>1, <1>4, EndCycleEffect DEF SameEvents
  <2>2. Types'
    BY <1>1, <2>1 DEF Types, Phases
  <2>3. stack' = << >> /\ ~early
    BY <1>1, <2>1 DEF Position
  <2>4. Position'
    BY <1>1, <2>1, <2>3 DEF Position
  <2>5. SubsInRange(data') /\ (file' # NoFile => SubsInRange(file'.data))
    BY <1>1, <2>1 DEF SubsInRange
  <2> QED
    BY <2>2, <2>3, <2>4, <2>5, NoNestNext DEF Control, SubsInRange
<1>5. CASE CollectExitFlag
  <2>1. phase = "collect" /\ data.current < Len(Main)
    BY <1>1, <1>5 DEF CollectExitFlag, Position
  <2>2. /\ data' \in Data /\ data'.current = data.current + 1 /\ data'.sub = data.sub
        /\ exitFlags' = [x \in Event |-> IF x \in Subtree[Current] THEN ExitFlagBelow(x) ELSE exitFlags[x]]
        /\ exitFlag' = (exitFlag \/ ExitFlagBelow(Current))
        /\ phase' \in {"returned", "check"} /\ early' = FALSE
        /\ UNCHANGED <<stack, file, plan, log, at>>
    BY <1>1, <1>5, <2>1, CollectExitFlagEffect DEF SameEvents
  <2>3. exitFlags' \in [Event -> BOOLEAN] /\ exitFlag' \in BOOLEAN
    <3>1. exitFlags \in [Event -> BOOLEAN] /\ exitFlag \in BOOLEAN
      BY <1>1 DEF Types
    <3>2. \A x : ExitFlagBelow(x) \in BOOLEAN
      BY DEF ExitFlagBelow
    <3> QED
      BY <2>2, <3>1, <3>2
  <2>4. Types'
    BY <1>1, <2>2, <2>3 DEF Types, Phases
  <2>5. stack' = << >>
    BY <1>1, <2>1, <2>2 DEF Position
  <2>6. data'.current > 0
    BY <1>1, <2>2, DataFields
  <2>7. Position'
    BY <1>1, <2>2, <2>5, <2>6 DEF Position
  <2>8. SubsInRange(data') /\ (file' # NoFile => SubsInRange(file'.data))
    BY <1>1, <2>2 DEF SubsInRange
  <2> QED
    BY <2>4, <2>5, <2>7, <2>8, NoNestNext DEF Control, SubsInRange
<1>6. CASE Finish
  <2>1. /\ data' = data
        /\ phase = "loop" /\ phase' = "done"
        /\ file' = file \/ file' = [at |-> at, data |-> data]
        /\ UNCHANGED <<exitFlags, exitFlag, stack, early, plan, log, at>>
    BY <1>6, FinishEffect
  <2>2. at \in 0 .. at
    BY <1>1 DEF Types
  <2>3. /\ file' # NoFile => file'.at \in 0 .. at' /\ file'.data \in Data
        /\ file' # NoFile => SubsInRange(file'.data)
    <3>1. CASE file' = file
      BY <1>1, <2>1, <3>1 DEF Types
    <3>2. CASE file' = [at |-> at, data |-> data]
      BY <1>1, <2>1, <2>2, <3>2
    <3> QED
      BY <2>1, <3>1, <3>2
  <2>4. Types'
    BY <1>1, <2>1, <2>3 DEF Types, Phases
  <2>5. stack' = << >> /\ ~early
    BY <1>1, <2>1 DEF Position
  <2>6. Position'
    BY <1>1, <2>1, <2>5 DEF Position
  <2>7. SubsInRange(data')
    BY <1>1, <2>1
  <2> QED
    BY <2>3, <2>4, <2>5, <2>6, <2>7, NoNestNext DEF Control, SubsInRange
<1> QED
  BY <1>2, <1>3, <1>4, <1>5, <1>6

LEMMA CheckControl ==
  ASSUME Control, NEW clock \in 0 .. 2, CheckEvent(clock)
  PROVE  Control'
<1>1. /\ Types /\ Position /\ SubsInRange(data) /\ (file # NoFile => SubsInRange(file.data))
      /\ data \in Data /\ clock \in Int
  BY DEF Control, Types
<1>2. /\ data' \in Data /\ data'.current = data.current /\ data'.sub = data.sub
      /\ exitFlags' = [x \in Event |-> exitFlags[x] \/
              /\ x \in CheckedNow /\ Attributes[x].kind = "halt"
              /\ IsActive(x, data.time) /\ IsReadyForExec(NewForecast(clock)[x])]
      /\ phase = "check" /\ data.current < Len(Main)
      /\ \/ stack' = <<Current>> /\ phase' = "execute"
         \/ stack' = stack /\ phase' = "collect"
      /\ UNCHANGED <<exitFlag, early, file, plan, log, at>>
  BY <1>1, CheckEventEffect DEF SameCycle
<1>3. exitFlags' \in [Event -> BOOLEAN]
  <2>1. \A x \in Event : IsActive(x, data.time) \in BOOLEAN /\ IsReadyForExec(NewForecast(clock)[x]) \in BOOLEAN
    BY DEF IsActive, IsReadyForExec
  <2>2. exitFlags \in [Event -> BOOLEAN]
    BY <1>1 DEF Types
  <2> QED
    BY <1>2, <2>1, <2>2
<1>4. Types'
  BY <1>1, <1>2, <1>3 DEF Types, Phases
<1>5. stack = << >> /\ ~early
  BY <1>1, <1>2 DEF Position
<1>6. Current \in Event
  BY <1>1, <1>2, CurrentEvent
<1>7. Position'
  <2>1. <<Current>> # << >>
    BY <1>6
  <2> QED
    BY <1>1, <1>2, <1>5, <2>1 DEF Position
<1>8. Nest'
  <2>1. CASE stack' = <<Current>>
    <3>1. stack' \in Seq(Event) /\ Len(stack') = 1 /\ stack'[1] = Main[data.current + 1]
      BY <1>6, <2>1 DEF Current
    <3>2. 1 .. Len(stack') - 1 = {} /\ \A i, j \in 1 .. Len(stack') : ~(i < j)
      BY <3>1
    <3> QED
      BY <1>2, <3>1, <3>2 DEF Nest
  <2> QED
    BY <1>2, <1>5, <2>1, NoNestNext
<1>9. SubsInRange(data') /\ (file' # NoFile => SubsInRange(file'.data))
  BY <1>1, <1>2 DEF SubsInRange
<1> QED
  BY <1>4, <1>7, <1>8, <1>9 DEF Control, SubsInRange

LEMMA TargetControl ==
  ASSUME Control, ExecuteTarget
  PROVE  Control'
<1>1. /\ Types /\ Position /\ Nest
      /\ SubsInRange(data) /\ (file # NoFile => SubsInRange(file.data))
      /\ data \in Data /\ log \in Seq(Entry) /\ at \in 0 .. Len(log) /\ at \in Nat
  BY DEF Control, Types
<1>2. stack \in Seq(Event) /\ stack # << >>
  BY <1>1 DEF Nest, Position, ExecuteTarget
<1>3. /\ data' \in Data /\ data'.current = data.current /\ data'.sub = data.sub
      /\ phase = "execute"
      /\ file' = IF Target(Executing) = "restart" THEN [at |-> at', data |-> data'] ELSE file
      /\ early' = (Target(Executing) = "python")
      /\ log' \in Seq(Entry) /\ at' = at + 1 /\ at' \in 0 .. Len(log')
      /\ UNCHANGED <<exitFlags, exitFlag, phase, stack, plan>>
  BY <1>1, <1>2, ExecuteTargetEffect DEF SameCycle
<1>4. SubsInRange(data')
  BY <1>1, <1>3 DEF SubsInRange
<1>5. at' \in 0 .. at' /\ \A n \in 0 .. at : n \in 0 .. at'
  BY <1>1, <1>3
<1>6. file' # NoFile => file'.at \in 0 .. at' /\ file'.data \in Data /\ SubsInRange(file'.data)
  <2>1. CASE Target(Executing) = "restart"
    BY <1>3, <1>4, <1>5, <2>1
  <2>2. CASE Target(Executing) # "restart"
    BY <1>1, <1>3, <1>5, <2>2 DEF Types
  <2> QED
    BY <2>1, <2>2
<1>7. Types'
  BY <1>1, <1>3, <1>6 DEF Types, Phases
<1>8. Position'
  BY <1>1, <1>3 DEF Position
<1>9. Nest'
  <2>1. \A e \in Event : \A s : Enters(e, data', s) <=> Enters(e, data, s)
    BY <1>3 DEF Enters
  <2>2. \A i \in 1 .. Len(stack) - 1 : stack[i] \in Event /\ Enters(stack[i], data, stack[i + 1])
    <3>1. \A i \in 1 .. Len(stack) - 1 : i \in 1 .. Len(stack)
      BY <1>2, LenProperties
    <3> QED
      BY <1>1, <1>2, <3>1, ElementOfSeq DEF Nest
  <2>3. \A i \in 1 .. Len(stack) - 1 : Enters(stack[i], data', stack[i + 1])
    BY <2>1, <2>2
  <2> QED
    BY <1>1, <1>3, <2>3 DEF Nest, Enters
<1> QED
  BY <1>4, <1>6, <1>7, <1>8, <1>9 DEF Control, SubsInRange

LEMMA BelowLast ==
  \A n \in Nat : \A i \in 1 .. n : n \in 1 .. n /\ (i # n => i \in 1 .. n - 1 /\ i < n)
OBVIOUS

LEMMA SubEventControl ==
  ASSUME Control, ExecuteSubEvent
  PROVE  Control'
<1> DEFINE n == Len(stack)
<1>1. /\ Types /\ Position /\ Nest
      /\ SubsInRange(data) /\ (file # NoFile => SubsInRange(file.data)) /\ data \in Data
  BY DEF Control, Types
<1>2. stack \in Seq(Event) /\ stack # << >>
  BY <1>1 DEF Nest, Position, ExecuteSubEvent
<1>3. Executing \in Event /\ Executing = stack[n] /\ n \in Nat /\ n >= 1 /\ DOMAIN stack = 1 .. n
  BY <1>2, TopOfStack DEF Executing
<1>4. /\ phase = "execute" /\ data.sub[Executing] < Len(Subs(Executing))
      /\ NextSub \in Children(Executing) /\ NextSub \in Event
      /\ UNCHANGED <<exitFlags, exitFlag, phase, early, file, plan, log, at>>
      /\ \/ stack' = Append(stack, NextSub) /\ data' = data
         \/ /\ stack' = stack /\ data' \in Data /\ data'.current = data.current
            /\ data'.sub = [data.sub EXCEPT ![Executing] = data.sub[Executing] + 1]
  BY <1>1, <1>2, ExecuteSubEventEffect DEF SameCycle
<1>5. data' \in Data /\ data'.current = data.current
  BY <1>1, <1>4
<1>6. Types'
  BY <1>1, <1>4, <1>5 DEF Types, Phases
<1>7. Len(Subs(Executing)) \in Nat /\ data.sub \in [Event -> Nat]
  BY <1>1, <1>3, SubEvents, DataFields
<1>8. SubsInRange(data') /\ (file' # NoFile => SubsInRange(file'.data))
  <2>1. CASE data' = data
    BY <1>1, <1>4, <2>1
  <2>2. CASE data'.sub = [data.sub EXCEPT ![Executing] = data.sub[Executing] + 1]
    <3>1. data.sub[Executing] + 1 <= Len(Subs(Executing))
      BY <1>3, <1>4, <1>7
    <3>2. \A x \in Event : data'.sub[x] = IF x = Executing THEN data.sub[Executing] + 1 ELSE data.sub[x]
      BY <1>7, <2>2
    <3> QED
      BY <1>1, <1>4, <3>1, <3>2 DEF SubsInRange
  <2> QED
    BY <1>4, <2>1, <2>2
<1>9. \A i \in 1 .. n : stack[i] \in Event
  BY <1>2, <1>3, ElementOfSeq
<1>10. \A i \in 1 .. n - 1 : i \in 1 .. n /\ i + 1 \in 1 .. n
  BY <1>3
<1>11. Nest' /\ stack' # << >>
  <2>1. CASE stack' = Append(stack, NextSub) /\ data' = data
    <3>1. /\ stack' \in Seq(Event) /\ Len(stack') = n + 1 /\ stack'[n + 1] = NextSub
          /\ \A i \in 1 .. n : stack'[i] = stack[i]
      BY <1>2, <1>4, <2>1, AppendProperties
    <3>2. stack' # << >>
      BY <1>3, <3>1
    <3>3. stack'[1] = Main[data'.current + 1]
      <4>1. 1 \in 1 .. n
        BY <1>3
      <4> QED
        BY <1>1, <1>2, <1>5, <3>1, <4>1 DEF Nest
    <3>4. \A i \in 1 .. Len(stack') - 1 : Enters(stack'[i], data', stack'[i + 1])
      <4> SUFFICES ASSUME NEW i \in 1 .. n PROVE Enters(stack'[i], data, stack'[i + 1])
        <5>1. Len(stack') - 1 = n
          BY <1>3, <3>1
        <5> QED
          BY <2>1, <5>1
      <4>1. CASE i = n
        <5>1. Enters(stack[n], data, NextSub)
          BY <1>3, <1>4 DEF Enters, NextSub
        <5> QED
          BY <3>1, <4>1, <5>1
      <4>2. CASE i # n
        <5>1. i \in 1 .. n - 1
          BY <1>3, <4>2, BelowLast
        <5>2. Enters(stack[i], data, stack[i + 1])
          BY <1>1, <5>1 DEF Nest
        <5> QED
          BY <1>10, <3>1, <5>1, <5>2
      <4> QED
        BY <4>1, <4>2
    <3>5. \A i, j \in 1 .. Len(stack') : i < j => Height[stack'[j]] < Height[stack'[i]]
      <4> SUFFICES ASSUME NEW i \in 1 .. n + 1, NEW j \in 1 .. n + 1, i < j
                   PROVE  Height[stack'[j]] < Height[stack'[i]]
        BY <3>1
      <4>1. i \in 1 .. n
        BY <1>3
      <4>2. CASE j = n + 1
        <5>1. Height[NextSub] < Height[stack[n]]
          BY <1>3, <1>4, EventTree
        <5>2. CASE i = n
          BY <3>1, <4>1, <4>2, <5>1, <5>2
        <5>3. CASE i # n
          <6>1. n \in 1 .. n /\ i < n
            BY <1>3, <4>1, <5>3, BelowLast
          <6>2. Height[stack[n]] < Height[stack[i]]
            BY <1>1, <4>1, <6>1 DEF Nest
          <6>3. /\ Height[NextSub] \in Nat /\ Height[stack[n]] \in Nat /\ Height[stack[i]] \in Nat
            BY <1>4, <1>9, <4>1, <6>1, EventTree
          <6>4. Height[NextSub] < Height[stack[i]]
            BY <5>1, <6>2, <6>3
          <6> QED
            BY <3>1, <4>1, <4>2, <6>4
        <5> QED
          BY <5>2, <5>3
      <4>3. CASE j # n + 1
        <5>1. j \in 1 .. n
          BY <1>3, <4>3
        <5> QED
          BY <1>1, <3>1, <4>1, <5>1 DEF Nest
      <4> QED
        BY <4>2, <4>3
    <3> QED
      BY <3>1, <3>2, <3>3, <3>4, <3>5 DEF Nest
  <2>2. CASE /\ stack' = stack /\ data'.current = data.current
             /\ data'.sub = [data.sub EXCEPT ![Executing] = data.sub[Executing] + 1]
    <3>1. ASSUME NEW i \in 1 .. n - 1 PROVE Enters(stack'[i], data', stack'[i + 1])
      <4>1. Enters(stack[i], data, stack[i + 1]) /\ stack[i] \in Event
        BY <1>1, <1>9, <1>10 DEF Nest
      <4>2. stack[i] # Executing
        BY <1>1, <1>2, Nested
      <4>3. data'.sub[stack[i]] = data.sub[stack[i]]
        BY <1>7, <2>2, <4>1, <4>2
      <4> QED
        BY <2>2, <4>1, <4>3 DEF Enters
    <3> QED
      BY <1>1, <1>2, <2>2, <3>1 DEF Nest
  <2> QED
    BY <1>4, <2>1, <2>2
<1>12. Position'
  BY <1>1, <1>2, <1>4, <1>5, <1>11 DEF Position
<1> QED
  BY <1>6, <1>8, <1>11, <1>12 DEF Control, SubsInRange

LEMMA PopEffect ==
  ASSUME stack \in Seq(Event), stack # << >>, stack' = SubSeq(stack, 1, Len(stack) - 1)
  PROVE  /\ stack' \in Seq(Event) /\ Len(stack') = Len(stack) - 1
         /\ \A i \in 1 .. Len(stack) - 1 : stack'[i] = stack[i]
<1> DEFINE n == Len(stack)
           m == n - 1
<1>1. n \in Nat /\ n >= 1 /\ DOMAIN stack = 1 .. n /\ m \in Nat
  BY TopOfStack
<1>2. \A k \in 1 .. n - 1 : 1 + k - 1 = k
  OBVIOUS
<1>3. \A i \in 1 .. n - 1 : stack[i] \in Event
  <2>1. \A i \in 1 .. n - 1 : i \in 1 .. n
    BY <1>1
  <2> QED
    BY <1>1, <2>1, ElementOfSeq
<1>4. SubSeq(stack, 1, n - 1) = [i \in 1 .. n - 1 |-> stack[i]]
  BY <1>1, <1>2
<1>5. stack' = [i \in 1 .. m |-> stack[i]] /\ m \in Nat /\ \A i \in 1 .. m : stack[i] \in Event
  BY <1>1, <1>3, <1>4
<1> HIDE DEF m
<1>6. stack' \in Seq(Event) /\ Len(stack') = m /\ \A i \in 1 .. m : stack'[i] = stack[i]
  BY <1>5
<1> QED
  BY <1>6 DEF m

LEMMA ReturnControl ==
  ASSUME Control, ReturnFromExecute
  PROVE  Control'
<1> DEFINE n == Len(stack)
<1>1. /\ Types /\ Position /\ Nest
      /\ SubsInRange(data) /\ (file # NoFile => SubsInRange(file.data)) /\ data \in Data
  BY DEF Control, Types
<1>2. stack \in Seq(Event) /\ stack # << >>
  BY <1>1 DEF Nest, Position, ReturnFromExecute
<1>3. Executing \in Event /\ Executing = stack[n] /\ n \in Nat /\ n >= 1 /\ DOMAIN stack = 1 .. n
  BY <1>2, TopOfStack DEF Executing
<1>4. /\ \A i \in 1 .. n - 1 : stack[i] # Executing
      /\ n > 1 => /\ Caller # Executing /\ Enters(Caller, data, Executing)
                  /\ \A i \in 1 .. n - 2 : stack[i] # Caller
  BY <1>1, <1>2, Nested
<1>5. /\ phase = "execute" /\ data' \in Data /\ data'.current = data.current
      /\ \A x \in Event : data'.sub[x] = IF x = Executing THEN 0
                                         ELSE IF n > 1 /\ x = Caller
                                         THEN data.sub[x] + 1 ELSE data.sub[x]
      /\ stack' = SubSeq(stack, 1, n - 1)
      /\ phase' = IF n = 1 THEN "collect" ELSE phase
      /\ UNCHANGED <<exitFlags, exitFlag, early, file, plan, log, at>>
  BY <1>1, <1>2, <1>4, ReturnEffect DEF SameCycle
<1>6. Types'
  BY <1>1, <1>5 DEF Types, Phases
<1>7. SubsInRange(data')
  <2> SUFFICES ASSUME NEW x \in Event PROVE data'.sub[x] <= Len(Subs(x))
    BY DEF SubsInRange
  <2>1. data.sub[x] \in Nat /\ Len(Subs(x)) \in Nat /\ data.sub[x] <= Len(Subs(x))
    BY <1>1, DataFields, SubEvents DEF SubsInRange
  <2>2. n > 1 /\ x = Caller => data.sub[x] < Len(Subs(x))
    BY <1>4 DEF Enters
  <2>3. data'.sub[x] \in {0, data.sub[x]} \/ (n > 1 /\ x = Caller /\ data'.sub[x] = data.sub[x] + 1)
    BY <1>5
  <2> QED
    BY <2>1, <2>2, <2>3
<1>8. file' # NoFile => SubsInRange(file'.data)
  BY <1>1, <1>5
<1>9. /\ stack' \in Seq(Event) /\ Len(stack') = n - 1
      /\ \A i \in 1 .. n - 1 : stack'[i] = stack[i]
  BY <1>2, <1>5, PopEffect
<1>10. Position'
  <2>1. CASE n = 1
    <3>1. Len(stack') = 0
      BY <1>9, <2>1
    <3>2. stack' = << >>
      BY <1>9, <3>1, EmptySeq
    <3> QED
      BY <1>1, <1>5, <2>1, <3>2 DEF Position
  <2>2. CASE n # 1
    <3>1. Len(stack') # 0
      BY <1>3, <1>9, <2>2
    <3>2. stack' # << >>
      BY <3>1
    <3> QED
      BY <1>1, <1>5, <2>2, <3>2 DEF Position
  <2> QED
    BY <2>1, <2>2
<1>11. Nest'
  <2>1. CASE n = 1
    <3>1. Len(stack') = 0
      BY <1>9, <2>1
    <3>2. stack' = << >>
      BY <1>9, <3>1, EmptySeq
    <3> QED
      BY <3>2, NoNestNext
  <2>2. CASE n # 1
    <3>1. 1 \in 1 .. n - 1
      BY <1>3, <2>2
    <3>2. stack'[1] = Main[data'.current + 1]
      BY <1>1, <1>2, <1>5, <1>9, <3>1 DEF Nest
    <3>3. ASSUME NEW i \in 1 .. Len(stack') - 1 PROVE Enters(stack'[i], data', stack'[i + 1])
      <4>1. i \in 1 .. n - 2 /\ i \in 1 .. n - 1 /\ i + 1 \in 1 .. n - 1 /\ i \in 1 .. n /\ n > 1
        BY <1>3, <1>9, <3>3
      <4>2. Enters(stack[i], data, stack[i + 1]) /\ stack[i] \in Event
        BY <1>1, <1>2, <1>3, <4>1, ElementOfSeq DEF Nest
      <4>3. stack[i] # Executing /\ stack[i] # Caller
        BY <1>4, <4>1
      <4>4. data'.sub[stack[i]] = data.sub[stack[i]]
        BY <1>5, <4>2, <4>3
      <4>5. stack'[i] = stack[i] /\ stack'[i + 1] = stack[i + 1]
        BY <1>9, <4>1
      <4> QED
        BY <4>2, <4>4, <4>5 DEF Enters
    <3>4. \A i, j \in 1 .. Len(stack') : i < j => Height[stack'[j]] < Height[stack'[i]]
      <4>1. \A i \in 1 .. Len(stack') : i \in 1 .. n /\ stack'[i] = stack[i]
        BY <1>3, <1>9
      <4> QED
        BY <1>1, <4>1 DEF Nest
    <3> QED
      BY <1>9, <3>2, <3>3, <3>4 DEF Nest
  <2> QED
    BY <2>1, <2>2
<1> QED
  BY <1>6, <1>7, <1>8, <1>10, <1>11 DEF Control, SubsInRange

LEMMA RestartControl ==
  ASSUME Control, Restart
  PROVE  Control'
<1>1. /\ file # NoFile /\ file.data \in Data /\ file.at \in 0 .. at /\ at \in 0 .. Len(log)
      /\ SubsInRange(file.data) /\ Types
  BY RestartEffect DEF Control, Types
<1>2. /\ data' = file.data /\ at' = file.at
      /\ exitFlags' = [e \in Event |-> FALSE] /\ exitFlag' = FALSE
      /\ phase' = "ready" /\ stack' = << >> /\ early' = FALSE
      /\ UNCHANGED <<file, plan, log>>
  BY RestartEffect
<1>3. at' \in 0 .. Len(log') /\ file'.at \in 0 .. at'
  <2>1. Len(log) \in Nat
    BY <1>1, LenProperties DEF Types
  <2>2. file.at \in 0 .. Len(log) /\ file.at \in 0 .. file.at
    BY <1>1, <2>1
  <2> QED
    BY <1>2, <2>2
<1>4. Types'
  BY <1>1, <1>2, <1>3 DEF Types, Phases
<1>5. Position'
  BY <1>2 DEF Position
<1> QED
  BY <1>1, <1>2, <1>4, <1>5, NoNestNext DEF Control, SubsInRange

LEMMA ControlStep ==
  ASSUME Control, [Next]_vars
  PROVE  Control'
<1>1. CASE Step
  BY <1>1, RunControl, CheckControl, TargetControl, SubEventControl, ReturnControl DEF Step
<1>2. CASE Restart
  BY <1>2, RestartControl
<1>3. CASE UNCHANGED vars
  <2>1. UNCHANGED <<data, exitFlags, exitFlag, phase, stack, early, file, plan, log, at>>
    BY <1>3 DEF vars
  <2>2. Types' /\ Position'
    BY <2>1 DEF Control, Types, Position
  <2>3. Nest'
    BY <2>1 DEF Control, Nest, Enters
  <2>4. SubsInRange(data') /\ (file' # NoFile => SubsInRange(file'.data))
    BY <2>1 DEF Control
  <2> QED
    BY <2>2, <2>3, <2>4 DEF Control, SubsInRange
<1> QED
  BY <1>1, <1>2, <1>3 DEF Next, Ended

LEMMA ControlInitially ==
  ASSUME Init
  PROVE  Control
<1>1. Len(Main) \in Nat
  BY MainEvents
<1>2. 0 \in 0 .. Len(Main)
  BY <1>1
<1>3. data \in Data
  BY <1>2, AttributeTypes DEF Init, Data
<1>4. log \in Seq(Entry) /\ at \in 0 .. Len(log)
  BY EmptySeq DEF Init
<1>5. Types
  BY <1>3, <1>4 DEF Init, Types, Phases
<1>6. SubsInRange(data)
  <2>1. \A e \in Event : 0 <= Len(Subs(e))
    BY SubEvents
  <2> QED
    BY <2>1 DEF Init, SubsInRange
<1>7. Position /\ Nest
  BY NoNest DEF Init, Position
<1> QED
  BY <1>5, <1>6, <1>7 DEF Control, Init

LEMMA ControlAlways == Spec => []Control
BY ControlInitially, ControlStep, PTL DEF Spec
-----------------------------------------------------------------------------
(* The windows of the events.                                                *)

\* A window does not end before it begins, and the last step is not shortened.
ProperWindows ==
    \A e \in Range(Main) : Attributes[e].targetExactStartStop =>
        Attributes[e].beginTime <= Attributes[e].endTime /\ Attributes[e].finalDtStretch >= 0

LEMMA Stretched ==
  ASSUME NEW time \in Int, NEW end \in Int, NEW request \in Positive, NEW stretch \in Nat,
         ~(100 * time + request * (100 + stretch) > 100 * end)
  PROVE  time + request <= end
<1> DEFINE more == request * stretch
<1>1. request \in Nat /\ time \in Int /\ end \in Int
  BY DEF Positive
<1>2. more \in Nat
  BY <1>1
<1>3. request * (100 + stretch) = 100 * request + more
  BY <1>1
<1>4. 100 * time + (100 * request + more) <= 100 * end
  <2>1. \A a, b \in Int : ~(a > b) => a <= b
    OBVIOUS
  <2>2. 100 * time + (100 * request + more) \in Int /\ 100 * end \in Int
    BY <1>1, <1>2
  <2>3. ~(100 * time + (100 * request + more) > 100 * end)
    BY <1>3
  <2> QED
    BY <2>1, <2>2, <2>3
<1> HIDE DEF more
<1> QED
  BY <1>1, <1>2, <1>4

LEMMA StepToBegin ==
  ASSUME NEW e \in Event, Attributes[e].targetExactStartStop, NEW time \in Int,
         NEW limit \in Positive, NEW dt \in Positive, dt <= InWindow(e, time, limit),
         time < Attributes[e].beginTime
  PROVE  time + dt <= Attributes[e].beginTime
<1> DEFINE begin == Attributes[e].beginTime
<1>1. begin \in Int /\ limit \in Int /\ dt \in Int
  BY AttributeTypes DEF Positive
<1>2. InWindow(e, time, limit) = IF begin - time < limit THEN begin - time ELSE limit
  BY DEF InWindow, LeastOf
<1>3. \A a \in Int : dt <= (IF a < limit THEN a ELSE limit) => dt <= a
  BY <1>1
<1> HIDE DEF begin
<1>4. begin - time \in Int
  BY <1>1
<1>5. dt <= begin - time
  BY <1>2, <1>3, <1>4
<1>6. time + dt <= begin
  BY <1>1, <1>5
<1> QED
  BY <1>6 DEF begin

\* A step that an event asked for stays in its window.
LEMMA RequestInWindow ==
  ASSUME ProperWindows, NEW e \in Range(Main), Attributes[e].targetExactStartStop,
         NEW time \in Int, NEW limit \in Positive, NEW dt \in Positive,
         dt <= InWindow(e, time, limit)
  PROVE  /\ time < Attributes[e].beginTime => time + dt <= Attributes[e].beginTime
         /\ time < Attributes[e].endTime => time + dt <= Attributes[e].endTime
<1> DEFINE begin == Attributes[e].beginTime  end == Attributes[e].endTime
           stretch == Attributes[e].finalDtStretch
           stretched == 100 * time + limit * (100 + stretch) > 100 * end
<1>1. /\ begin \in Int /\ end \in Int /\ begin <= end /\ stretch \in Int /\ stretch >= 0
      /\ limit \in Int /\ dt \in Int
  BY MainEvents, AttributeTypes DEF ProperWindows, Positive
<1>2. stretch \in Nat
  BY <1>1
<1>3. InWindow(e, time, limit) =
        IF time < begin THEN LeastOf(begin - time, limit)
        ELSE IF time < end /\ stretched THEN end - time ELSE limit
  BY DEF InWindow
<1> HIDE DEF begin, end, stretch, stretched
<1>4. CASE time < begin
  <2>1. time + dt <= begin
    BY <1>4, MainEvents, StepToBegin DEF begin
  <2>2. time + dt <= end
    BY <1>1, <2>1
  <2> QED
    BY <2>1, <2>2 DEF begin, end
<1>5. CASE ~(time < begin)
  <2>1. ASSUME time < end PROVE time + dt <= end
    <3>1. CASE stretched
      <4>1. dt <= end - time
        BY <1>3, <1>5, <2>1, <3>1
      <4> QED
        BY <1>1, <4>1
    <3>2. CASE ~stretched
      <4>1. dt <= limit
        BY <1>3, <1>5, <3>2
      <4>2. time + limit <= end
        BY <1>1, <1>2, <3>2, Stretched DEF stretched
      <4> QED
        BY <1>1, <4>1, <4>2
    <3> QED
      BY <3>1, <3>2
  <2> QED
    BY <1>5, <2>1 DEF begin, end
<1> QED
  BY <1>4, <1>5

LEMMA NewStepInWindows ==
  ASSUME ProperWindows, data \in Data, plan \in [0 .. PlanLength - 1 -> Requests],
         StartCycle, data.current = 0
  PROVE  StepInWindows(data')
<1>1. /\ CycleDt \in Positive /\ Asked \in [Event -> Positive]
      /\ \A i \in 1 .. Len(Main) : CycleDt <= TimestepRequest(data, Asked)[Main[i]]
      /\ data'.time = data.time /\ data'.dt = CycleDt /\ data.time \in Int
  BY CycleDtLeast, StartCycleEffect, DataFields DEF StartCycle
<1> DEFINE dt == CycleDt
<1>2. dt > 0
  BY <1>1 DEF Positive
<1>3. ASSUME NEW e \in Range(Main), Attributes[e].targetExactStartStop,
             NEW t \in {Attributes[e].beginTime, Attributes[e].endTime}
      PROVE  ~(data.time < t /\ t < data.time + dt)
  <2>1. PICK limit \in Positive : TimestepRequest(data, Asked)[e] = InWindow(e, data.time, limit)
    BY <1>1, MainEvents, EventRequests
  <2>2. dt <= InWindow(e, data.time, limit) /\ dt \in Positive
    BY <1>1, <2>1, MainEvents
  <2> HIDE DEF dt
  <2>3. /\ data.time < Attributes[e].beginTime => data.time + dt <= Attributes[e].beginTime
        /\ data.time < Attributes[e].endTime => data.time + dt <= Attributes[e].endTime
    BY <1>1, <1>3, <2>2, RequestInWindow
  <2>4. t \in Int /\ (data.time < t => data.time + dt <= t) /\ data.time + dt \in Int
    <3>1. t \in Int
      BY MainEvents, AttributeTypes
    <3>2. data.time + dt \in Int
      BY <1>1, <2>2 DEF Positive
    <3> QED
      BY <2>3, <3>1, <3>2
  <2>5. \A a, b \in Int : a <= b => ~(b < a)
    OBVIOUS
  <2> QED
    BY <2>4, <2>5
<1> HIDE DEF dt
<1> QED
  BY <1>1, <1>2, <1>3 DEF StepInWindows, dt

LEMMA SameWindows ==
  ASSUME NEW d, NEW o, SameClock(d, o)
  PROVE  StepInWindows(o) <=> StepInWindows(d)
BY DEF SameClock, StepInWindows

\* What a restart file holds is what the data was when it was written.
LEMMA FileEffect ==
  ASSUME Control, Next, ~Restart
  PROVE  \/ file' = file
         \/ /\ file' = [at |-> at', data |-> data'] /\ phase' = phase /\ phase = "execute"
            /\ SameCycle(data, data')
            /\ \E e \in Event : Target(e) = "restart"
         \/ /\ file' = [at |-> at, data |-> data] /\ phase = "loop" /\ phase' = "done"
            /\ UNCHANGED <<data, at>>
            /\ \E e \in Event : Target(e) = "restart"
<1>1. /\ data \in Data /\ log \in Seq(Entry) /\ at \in 0 .. Len(log) /\ stack \in Seq(Event)
  BY DEF Control, Types, Nest
<1>2. CASE ExecuteTarget
  <2>1. stack # << >>
    BY <1>2 DEF Control, Position, ExecuteTarget
  <2>2. /\ file' = IF Target(Executing) = "restart" THEN [at |-> at', data |-> data'] ELSE file
        /\ SameCycle(data, data') /\ phase' = phase /\ phase = "execute"
    BY <1>1, <1>2, <2>1, ExecuteTargetEffect
  <2> QED
    BY <1>1, <2>1, <2>2, TopOfStack
<1>3. CASE Finish
  BY <1>3, FinishEffect
<1>4. CASE Run \/ StartCycle \/ EndCycle \/ CollectExitFlag
  BY <1>4 DEF Run, StartCycle, EndCycle, CollectExitFlag
<1>5. CASE \E clock \in 0 .. 2 : CheckEvent(clock)
  BY <1>5 DEF CheckEvent
<1>6. CASE ExecuteSubEvent \/ ReturnFromExecute
  BY <1>6 DEF ExecuteSubEvent, ReturnFromExecute
<1>7. CASE Ended
  BY <1>7 DEF Ended, vars
<1> QED
  BY <1>2, <1>3, <1>4, <1>5, <1>6, <1>7 DEF Next, Step

\* The steps of a cycle change neither its time nor its length.
LEMMA CycleSteps ==
  ASSUME Control, Next, ~Restart, ~Run, ~StartCycle, ~EndCycle
  PROVE  /\ SameClock(data, data')
         /\ \/ phase \in Cycling
            \/ data' = data /\ phase' \notin Cycling
<1>1. /\ data \in Data /\ log \in Seq(Entry) /\ at \in 0 .. Len(log) /\ stack \in Seq(Event)
      /\ phase = "execute" => stack # << >>
      /\ phase = "collect" => data.current < Len(Main)
  BY DEF Control, Types, Nest, Position
<1>2. CASE CollectExitFlag
  <2>1. phase = "collect" /\ data.current < Len(Main)
    BY <1>1, <1>2 DEF CollectExitFlag
  <2> QED
    BY <1>1, <1>2, <2>1, CollectExitFlagEffect DEF Cycling
<1>3. CASE Finish
  <2>1. data' = data /\ phase' = "done"
    BY <1>3 DEF Finish
  <2> QED
    BY <2>1 DEF SameClock, Cycling
<1>4. CASE \E clock \in 0 .. 2 : CheckEvent(clock)
  <2>1. PICK clock \in 0 .. 2 : CheckEvent(clock)
    BY <1>4
  <2>2. clock \in Int
    OBVIOUS
  <2> QED
    BY <1>1, <2>1, <2>2, CheckEventEffect DEF SameCycle, Cycling
<1>5. CASE ExecuteTarget
  <2>1. phase = "execute"
    BY <1>5 DEF ExecuteTarget
  <2> QED
    BY <1>1, <1>5, <2>1, ExecuteTargetEffect DEF SameCycle, Cycling
<1>6. CASE ExecuteSubEvent
  <2>1. phase = "execute"
    BY <1>6 DEF ExecuteSubEvent
  <2>2. data' = data \/ SameCycle(data, data')
    BY <1>1, <1>6, <2>1, ExecuteSubEventEffect
  <2> QED
    BY <2>1, <2>2 DEF SameCycle, SameClock, Cycling
<1>7. CASE ReturnFromExecute
  <2>1. phase = "execute" /\ stack # << >>
    BY <1>1, <1>7 DEF ReturnFromExecute
  <2>2. Len(stack) > 1 => Caller # Executing
    BY <2>1, Nested DEF Control
  <2> QED
    BY <1>1, <1>7, <2>1, <2>2, ReturnEffect DEF SameCycle, Cycling
<1>8. CASE Ended
  <2>1. data' = data /\ phase' = "done"
    BY <1>8 DEF Ended, vars
  <2> QED
    BY <2>1 DEF SameClock, Cycling
<1> QED
  BY <1>2, <1>3, <1>4, <1>5, <1>6, <1>7, <1>8 DEF Next, Step

LEMMA WindowsStep ==
  ASSUME ProperWindows, Control, Windows, [Next]_vars
  PROVE  Windows'
<1> DEFINE Bound(d) == d.current # 0 => StepInWindows(d)
<1>1. /\ data \in Data /\ plan \in [0 .. PlanLength - 1 -> Requests]
  BY DEF Control, Types
<1>2. SUFFICES ASSUME Next PROVE Windows'
  BY DEF Windows, StepInWindows, vars
<1>3. CASE Restart
  <2>1. phase' = "ready" /\ data' = file.data /\ file' = file /\ file # NoFile
    BY <1>3, RestartEffect
  <2> QED
    BY <2>1 DEF Windows, StepInWindows, Cycling
<1>4. ASSUME ~Restart PROVE phase' \in Cycling \/ data'.current # 0 => StepInWindows(data')
  <2>1. CASE Run
    <3>1. /\ phase' \notin Cycling /\ data'.current = data.current
          /\ data'.time = RunStart /\ data'.dt = data.dt
      BY <1>1, <2>1, RunEffect DEF Cycling
    <3>2. data.current # 0 => data'.time = data.time
      BY <3>1 DEF RunStart
    <3> QED
      BY <3>1, <3>2 DEF Windows, StepInWindows
  <2>2. CASE StartCycle
    <3>1. CASE data.current = 0
      BY <1>1, <2>2, <3>1, NewStepInWindows
    <3>2. CASE data.current # 0
      <4>1. SameClock(data, data')
        BY <1>1, <2>2, <3>2, StartCycleEffect DEF SameClock
      <4> QED
        BY <3>2, <4>1, SameWindows DEF Windows
    <3> QED
      BY <3>1, <3>2
  <2>3. CASE EndCycle
    BY <1>1, <2>3, EndCycleEffect DEF Cycling
  <2>4. CASE ~Run /\ ~StartCycle /\ ~EndCycle
    <3>1. /\ SameClock(data, data')
          /\ \/ phase \in Cycling
             \/ data' = data /\ phase' \notin Cycling
      BY <1>2, <1>4, <2>4, CycleSteps
    <3>2. phase \in Cycling \/ data'.current = data.current
      BY <3>1
    <3>3. StepInWindows(data') <=> StepInWindows(data)
      BY <3>1, SameWindows
    <3> QED
      BY <3>1, <3>2, <3>3 DEF Windows
  <2> QED
    BY <2>1, <2>2, <2>3, <2>4
<1>5. ASSUME ~Restart PROVE file' # NoFile /\ file'.data.current # 0 => StepInWindows(file'.data)
  <2>1. CASE file' = file
    BY <2>1 DEF Windows
  <2>2. CASE file' = [at |-> at', data |-> data']
    BY <1>4, <1>5, <2>2
  <2>3. CASE file' = [at |-> at, data |-> data]
    BY <2>3 DEF Windows
  <2> QED
    BY <1>2, <1>5, <2>1, <2>2, <2>3, FileEffect
<1> QED
  BY <1>3, <1>4, <1>5 DEF Windows, StepInWindows

LEMMA WindowsInitially ==
  ASSUME Init
  PROVE  Windows
BY DEF Init, Windows, Cycling


(* No cycle has length 0, and none steps over the begin or the end of the    *)
(* window of an event of the main loop that asked for a cycle there          *)
(* (EventBase::getTimestepRequest, EventManager::run), for every block of    *)
(* events, also in a process that resumes in the middle of a cycle.          *)
THEOREM NoStepAcrossWindows ==
  ASSUME ProperWindows
  PROVE  Spec => []StepsToWindows
<1>1. Windows /\ Control => StepsToWindows
  BY DEF Windows, StepInWindows, StepsToWindows, Cycling
<1>2. Init => Windows
  BY WindowsInitially
<1>3. Control /\ Windows /\ [Next]_vars => Windows'
  BY WindowsStep
<1> QED
  BY <1>1, <1>2, <1>3, ControlAlways, PTL DEF Spec
-----------------------------------------------------------------------------
(* The times at which events with exact times are due.                       *)

LEMMA Remainders ==
  ASSUME NEW p \in Nat \ {0}
  PROVE  /\ 0 % p = 0
         /\ \A a \in Nat : a % p = 0 => (a + p) % p = 0
         /\ \A a, b \in Nat : a % p = 0 /\ b % p = 0 /\ a < b => a + p <= b
<1>1. \A a \in Nat : a \div p \in Nat /\ a % p \in 0 .. p - 1 /\ a = p * (a \div p) + (a % p)
  OBVIOUS
<1>2. \A q \in Nat : (p * q) % p = 0
  OBVIOUS
<1>3. 0 % p = 0
  OBVIOUS
<1>4. ASSUME NEW a \in Nat, a % p = 0 PROVE (a + p) % p = 0
  <2> DEFINE q == a \div p
  <2>1. a = p * q /\ q \in Nat
    BY <1>1, <1>4
  <2> HIDE DEF q
  <2>2. a + p = p * (q + 1) /\ q + 1 \in Nat
    BY <2>1
  <2> QED
    BY <1>2, <2>2
<1>5. ASSUME NEW a \in Nat, NEW b \in Nat, a % p = 0, b % p = 0, a < b PROVE a + p <= b
  <2> DEFINE q == a \div p  r == b \div p
  <2>1. a = p * q /\ q \in Nat /\ b = p * r /\ r \in Nat
    BY <1>1, <1>5
  <2> HIDE DEF q, r
  <2>2. q < r
    <3> SUFFICES ASSUME r <= q PROVE FALSE
      BY <2>1
    <3>1. q - r \in Nat /\ q = r + (q - r)
      BY <2>1
    <3> DEFINE k == q - r
    <3>2. p * q = p * r + p * k
      BY <2>1, <3>1
    <3>3. p * k \in Nat
      BY <3>1
    <3> QED
      BY <1>5, <2>1, <3>2, <3>3
  <2>3. r - q - 1 \in Nat /\ r = q + 1 + (r - q - 1)
    BY <2>1, <2>2
  <2> DEFINE k == r - q - 1
  <2>4. p * r = p * q + p + p * k
    BY <2>1, <2>3
  <2>5. p * k \in Nat
    BY <2>3
  <2> QED
    BY <2>1, <2>4, <2>5
<1> QED
  BY <1>3, <1>4, <1>5

LEMMA FirstTimes ==
  ASSUME NEW e \in Event
  PROVE  /\ FirstTime(e) \in Int /\ MinTime <= FirstTime(e) /\ Attributes[e].beginTime <= FirstTime(e)
         /\ FirstTime(e) \in {MinTime, Attributes[e].beginTime}
<1>1. MinTime \in Int /\ Attributes[e].beginTime \in Int
  BY AttributeTypes
<1> QED
  BY <1>1 DEF FirstTime, GreatestOf

LEMMA PeriodicTimes ==
  ASSUME NEW e \in Event, ExactPeriodic(e)
  PROVE  /\ Attributes[e].timeFrequency \in Positive /\ Attributes[e].kind = "periodic"
         /\ ~Attributes[e].function
         /\ \A t \in DuePeriodic(e) :
               t \in Int /\ FirstTime(e) <= t /\ t < Attributes[e].endTime
         /\ FirstTime(e) < Attributes[e].endTime => FirstTime(e) \in DuePeriodic(e)
         /\ \A t \in DuePeriodic(e) :
               /\ t + Attributes[e].timeFrequency < Attributes[e].endTime =>
                     t + Attributes[e].timeFrequency \in DuePeriodic(e)
               /\ \A u \in DuePeriodic(e) : t < u => t + Attributes[e].timeFrequency <= u
<1> DEFINE p == Attributes[e].timeFrequency  f == FirstTime(e)  end == Attributes[e].endTime
           due == DuePeriodic(e)
<1>1. p \in Nat \ {0} /\ f \in Int /\ end \in Int
  BY FirstTimes, AttributeTypes DEF ExactPeriodic
<1>2. Attributes[e].kind = "periodic" /\ ~Attributes[e].function
  BY DEF ExactPeriodic, IsExact
<1>3. due = {t \in f .. end - 1 : (t - f) % p = 0}
  BY DEF DuePeriodic
<1> HIDE DEF p, f, end, due
<1>4. \A t \in f .. end - 1 : t \in Int /\ f <= t /\ t < end /\ t - f \in Nat
  BY <1>1
<1>5. f < end => f \in f .. end - 1 /\ f - f = 0
  BY <1>1
<1>6. \A t \in f .. end - 1 : t + p < end => t + p \in f .. end - 1 /\ (t + p) - f = (t - f) + p
  BY <1>1
<1>7. ASSUME NEW t \in due, NEW u \in due, t < u PROVE t + p <= u
  <2>1. t \in Int /\ u \in Int /\ t - f \in Nat /\ u - f \in Nat /\ (t - f) % p = 0 /\ (u - f) % p = 0
    BY <1>3, <1>4
  <2>2. t - f < u - f
    BY <1>1, <1>7, <2>1
  <2> DEFINE a == t - f  b == u - f
  <2>3. a \in Nat /\ b \in Nat /\ a % p = 0 /\ b % p = 0 /\ a < b
    BY <2>1, <2>2
  <2> HIDE DEF a, b
  <2>4. a + p <= b
    BY <1>1, <2>3, Remainders
  <2> QED
    BY <1>1, <2>1, <2>4 DEF a, b
<1>8. ASSUME NEW t \in due, t + p < end PROVE t + p \in due
  <2>1. t \in f .. end - 1 /\ t - f \in Nat /\ (t - f) % p = 0
    BY <1>3, <1>4
  <2>2. ((t - f) + p) % p = 0
    BY <1>1, <2>1, Remainders
  <2> QED
    BY <1>3, <1>6, <1>8, <2>1, <2>2
<1>9. f < end => f \in due
  BY <1>1, <1>3, <1>5, Remainders
<1>10. \A t \in due : t \in Int /\ f <= t /\ t < end
  BY <1>3, <1>4
<1> QED
  BY <1>1, <1>2, <1>7, <1>8, <1>9, <1>10 DEF p, f, end, due, Positive

LEMMA SoloTimes ==
  ASSUME NEW e \in Event, ExactSolo(e)
  PROVE  /\ Attributes[e].kind = "solo" /\ Attributes[e].targetTime \in Int
         /\ Attributes[e].targetTime >= 0 /\ FirstTime(e) <= Attributes[e].targetTime
         /\ DueSolo(e) = IF Attributes[e].targetTime < Attributes[e].endTime
                         THEN {Attributes[e].targetTime} ELSE {}
<1>1. /\ Attributes[e].targetTime \in Int /\ Attributes[e].beginTime \in Int
      /\ FirstTime(e) \in Int /\ Attributes[e].beginTime <= FirstTime(e)
  BY FirstTimes, AttributeTypes
<1>2. /\ Attributes[e].kind = "solo" /\ Attributes[e].targetTime >= FirstTime(e)
      /\ Attributes[e].targetTime > 0 \/ Attributes[e].targetTime = 0
  BY DEF ExactSolo
<1>3. Attributes[e].targetTime >= 0 /\ Attributes[e].beginTime <= Attributes[e].targetTime
  BY <1>1, <1>2
<1> QED
  BY <1>1, <1>2, <1>3 DEF DueSolo, IsActive

LEMMA CyclesReady ==
  ASSUME NEW duration \in Int, NEW dt \in Positive
  PROVE  IsReadyForExec(Cycles(duration, dt)) <=> duration < dt
<1>1. dt \in Nat \ {0} /\ ~(dt <= 0)
  BY DEF Positive
<1>2. \A n \in Nat : n \div dt \in Nat /\ (n \div dt <= 0 <=> n < dt)
  BY <1>1
<1>3. CASE duration >= 0
  <2>1. duration \in Nat
    BY <1>3
  <2>2. Cycles(duration, dt) = duration \div dt
    BY <1>1, <1>3 DEF Cycles
  <2> QED
    BY <1>2, <2>1, <2>2 DEF IsReadyForExec
<1>4. CASE ~(duration >= 0)
  <2>1. -duration \in Nat /\ duration < dt
    BY <1>1, <1>4
  <2>2. Cycles(duration, dt) = -((-duration) \div dt)
    BY <1>1, <1>4 DEF Cycles
  <2>3. \A n \in Nat : -n <= 0
    OBVIOUS
  <2> QED
    BY <1>2, <2>1, <2>2, <2>3 DEF IsReadyForExec
<1> QED
  BY <1>3, <1>4

\* Events of different kinds.
LEMMA DueOf ==
  ASSUME NEW e \in Event
  PROVE  /\ ExactPeriodic(e) => Due(e) = DuePeriodic(e) /\ ~ExactSolo(e)
         /\ ExactSolo(e) => Due(e) = DueSolo(e) /\ ~ExactPeriodic(e)
         /\ Exact(e) => Due(e) \subseteq Int
<1>1. ExactPeriodic(e) => ~ExactSolo(e)
  BY DEF ExactPeriodic, ExactSolo
<1>2. ExactPeriodic(e) => DuePeriodic(e) \subseteq Int
  BY PeriodicTimes
<1>3. ExactSolo(e) => DueSolo(e) \subseteq Int
  BY SoloTimes
<1> QED
  BY <1>1, <1>2, <1>3 DEF Due, Exact
-----------------------------------------------------------------------------
(* The event manager finds an event with exact times ready when it is due.   *)

LEMMA PeriodicReady ==
  ASSUME NEW e \in Event, NEW d \in Data, NEW times, NEW clock,
         ExactPeriodic(e), Clock(d), d.dt > 0, IsActive(e, d.time),
         StepPeriodic(e, d), LastPeriodic(e, d, FALSE)
  PROVE  IsReadyForExec(Forecast(e, d, times, clock)) <=> d.time \in DuePeriodic(e)
<1> DEFINE p == Attributes[e].timeFrequency  f == FirstTime(e)  end == Attributes[e].endTime
           due == DuePeriodic(e)  last == d.lastTime[e]  next == last + p  t == d.time
<1>1. /\ t \in Int /\ d.dt \in Positive /\ d.cycle \in Nat /\ last \in Int
      /\ p \in Int /\ p > 0 /\ f \in Int /\ end \in Int /\ MinTime \in Int
      /\ MinTime <= t /\ MinTime <= f /\ t < end /\ next \in Int
  <2>1. /\ t \in Int /\ d.dt \in Int /\ d.cycle \in Nat /\ last \in Int
    BY DataFields
  <2>2. p \in Int /\ p > 0 /\ f \in Int /\ MinTime <= f
    BY PeriodicTimes, FirstTimes DEF Positive
  <2> QED
    BY <2>1, <2>2, AttributeTypes DEF Clock, IsActive, Positive
<1>2. f <= t
  <2>1. Attributes[e].beginTime <= t
    BY DEF IsActive
  <2> QED
    BY <1>1, <2>1, FirstTimes
<1>3. f < end
  BY <1>1, <1>2
<1>4. /\ f \in due
      /\ \A u \in due : u \in Int /\ f <= u /\ u < end
      /\ \A u \in due : (u + p < end => u + p \in due) /\ \A v \in due : u < v => u + p <= v
  BY <1>3, PeriodicTimes
<1>5. Forecast(e, d, times, clock) = PeriodicTiming(e, d)
  <2>1. ~(d.time < Attributes[e].beginTime)
    BY <1>1, AttributeTypes DEF IsActive
  <2> QED
    BY <2>1, PeriodicTimes DEF Forecast, EventTiming, ThresholdTiming
<1>6. CASE d.cycle = 0
  <2>1. IsReadyForExec(PeriodicTiming(e, d))
    BY <1>6 DEF PeriodicTiming, IsReadyForExec
  <2>2. t = MinTime
    BY <1>6 DEF Clock
  <2>3. t = f
    BY <1>1, <1>2, <2>2
  <2> QED
    BY <1>4, <1>5, <2>1, <2>3
<1>7. CASE d.cycle # 0
  <2> DEFINE rest == GreatestOf(0, p - (t - last))
  <2>1. PeriodicTiming(e, d) = Cycles(rest, d.dt)
    <3>1. p >= 0
      BY <1>1
    <3> QED
      BY <1>7, <3>1 DEF PeriodicTiming
  <2>2. rest = IF t < next THEN next - t ELSE 0
    <3>1. p - (t - last) \in Int /\ p - (t - last) = next - t
      BY <1>1
    <3> HIDE DEF p, last, t, next
    <3> QED
      BY <1>1, <3>1 DEF GreatestOf
  <2> HIDE DEF rest, next
  <2>3. rest \in Int
    BY <1>1, <2>2
  <2>4. IsReadyForExec(PeriodicTiming(e, d)) <=> rest < d.dt
    BY <1>1, <2>1, <2>3, CyclesReady
  <2>5. t < next => t + d.dt <= next
    BY DEF StepPeriodic, next
  <2>6. rest < d.dt <=> ~(t < next)
    BY <1>1, <2>2, <2>5 DEF Positive
  <2>7. ~(t < next) <=> t \in due
    <3>1. CASE last = Never
      <4>1. next <= t
        <5>1. next <= MinTime
          BY <3>1, AttributeTypes DEF next
        <5> QED
          BY <1>1, <5>1
      <4>2. last \notin due
        <5>1. \A u \in due : MinTime <= u
          BY <1>1, <1>4
        <5>2. Never < MinTime
          BY <1>1, <3>1, AttributeTypes
        <5>3. ~(MinTime <= Never)
          BY <1>1, <5>2, AttributeTypes
        <5> QED
          BY <3>1, <5>1, <5>3
      <4>3. f > t \/ f >= end \/ f = t
        BY <4>2 DEF LastPeriodic
      <4>4. f = t
        BY <1>1, <1>2, <1>3, <4>3
      <4> QED
        BY <1>1, <1>4, <4>1, <4>4
    <3>2. CASE last # Never
      <4>1. last \in due /\ last < t /\ t <= next
        BY <1>1, <3>2 DEF LastPeriodic, next
      <4>2. ASSUME ~(t < next) PROVE t \in due
        <5>1. t = next
          BY <1>1, <4>1, <4>2
        <5> QED
          BY <1>1, <1>4, <4>1, <5>1 DEF next
      <4>3. ASSUME t \in due PROVE ~(t < next)
        <5>1. last + p <= t
          BY <1>4, <4>1, <4>3
        <5> QED
          BY <1>1, <5>1 DEF next
      <4> QED
        BY <4>2, <4>3
    <3> QED
      BY <3>1, <3>2
  <2> QED
    BY <1>5, <2>4, <2>6, <2>7
<1> QED
  BY <1>6, <1>7

LEMMA SoloReady ==
  ASSUME NEW e \in Event, NEW d \in Data, NEW times, NEW clock,
         ExactSolo(e), d.dt > 0, IsActive(e, d.time),
         StepSolo(e, d), LastSolo(e, d, FALSE)
  PROVE  IsReadyForExec(Forecast(e, d, times, clock)) <=> d.time \in DueSolo(e)
<1> DEFINE target == Attributes[e].targetTime  end == Attributes[e].endTime
           due == DueSolo(e)  last == d.lastCycle[e]  t == d.time
<1>1. /\ t \in Int /\ d.dt \in Positive /\ last \in Int
      /\ target \in Int /\ target >= 0 /\ end \in Int /\ t < end
      /\ due = IF target < end THEN {target} ELSE {}
  <2>1. t \in Int /\ d.dt \in Int /\ last \in Int
    BY DataFields
  <2> QED
    BY <2>1, SoloTimes, AttributeTypes DEF IsActive, Positive
<1>2. Forecast(e, d, times, clock) = SoloTiming(e, d)
  <2>1. ~(d.time < Attributes[e].beginTime)
    BY <1>1, AttributeTypes DEF IsActive
  <2>2. Attributes[e].kind = "solo"
    BY SoloTimes
  <2>3. EventTiming(e, d, times, clock) = SoloTiming(e, d)
    BY <2>2 DEF EventTiming
  <2> QED
    BY <2>1, <2>3 DEF Forecast
<1>3. last < 0 <=> \A u \in due : t < u \/ t = u
  BY DEF LastSolo
<1> HIDE DEF due
<1>4. CASE last >= 0
  <2>1. SoloTiming(e, d) = Idle
    BY <1>4 DEF SoloTiming
  <2>2. ~IsReadyForExec(Idle)
    BY AttributeTypes DEF IsReadyForExec
  <2>3. ~(last < 0)
    BY <1>1, <1>4
  <2>4. t \notin due
    <3>1. \E u \in due : ~(t < u \/ t = u)
      BY <1>3, <2>3
    <3> QED
      BY <1>1, <3>1
  <2> QED
    BY <1>2, <2>1, <2>2, <2>4 DEF due
<1>5. CASE ~(last >= 0)
  <2>1. SoloTiming(e, d) = Cycles(target - t, d.dt)
    BY <1>1, <1>5 DEF SoloTiming
  <2>2. target - t \in Int
    BY <1>1
  <2>3. IsReadyForExec(SoloTiming(e, d)) <=> target - t < d.dt
    BY <1>1, <2>1, <2>2, CyclesReady
  <2>4. t < target => t + d.dt <= target
    BY DEF StepSolo
  <2>5. target - t < d.dt <=> ~(t < target)
    <3> HIDE DEF target, t
    <3> QED
      BY <1>1, <2>4 DEF Positive
  <2>6. \A u \in due : t < u \/ t = u
    BY <1>1, <1>3, <1>5
  <2>7. ~(t < target) <=> t \in due
    BY <1>1, <2>6
  <2> QED
    BY <1>2, <2>3, <2>5, <2>7 DEF due
<1> QED
  BY <1>4, <1>5

LEMMA ReadyWhenDue ==
  ASSUME NEW i \in 1 .. Len(Main), Exact(Main[i]), NEW d \in Data, NEW times, NEW clock,
         NEW l, NEW n, d.current + 1 = i,
         Clock(d), OnTimeAt(i, d, l, n, FALSE), StepExact(Main[i], d)
  PROVE  IsReadyForExec(Forecast(Main[i], d, times, clock)) <=> d.time \in Due(Main[i])
<1> DEFINE e == Main[i]
<1>1. e \in Event /\ Exact(e) /\ StepExact(e, d)
  BY MainEvents
<1>2. /\ d.time \in Int /\ d.dt \in Positive /\ d.current \in Nat
      /\ Attributes[e].beginTime \in Int /\ Attributes[e].endTime \in Int
  BY <1>1, DataFields, AttributeTypes DEF StepExact, Positive
<1>3. Finished(i, d, FALSE) = FALSE
  BY <1>2 DEF Finished
<1>4. /\ ExactPeriodic(e) => LastPeriodic(e, d, FALSE)
      /\ ExactSolo(e) => LastSolo(e, d, FALSE)
  BY <1>3 DEF OnTimeAt
<1>5. CASE d.time < Attributes[e].beginTime
  <2> DEFINE wait == Attributes[e].beginTime - d.time
  <2>1. Forecast(e, d, times, clock) = Cycles(wait, d.dt)
    BY <1>5 DEF Forecast
  <2>2. wait \in Int /\ ~(wait < d.dt)
    <3>1. d.time + d.dt <= Attributes[e].beginTime
      BY <1>1, <1>5 DEF StepExact
    <3> QED
      BY <1>2, <3>1 DEF Positive
  <2> HIDE DEF wait
  <2>3. ~IsReadyForExec(Cycles(wait, d.dt))
    BY <1>2, <2>2, CyclesReady
  <2>4. \A t \in Due(e) : Attributes[e].beginTime <= t
    <3>1. FirstTime(e) \in Int /\ Attributes[e].beginTime <= FirstTime(e)
      BY <1>1, FirstTimes
    <3>2. ExactPeriodic(e) => \A t \in DuePeriodic(e) : t \in Int /\ FirstTime(e) <= t
      BY <1>1, PeriodicTimes
    <3>3. ExactSolo(e) => \A t \in DueSolo(e) : t \in Int /\ FirstTime(e) <= t
      BY <1>1, SoloTimes
    <3>4. \A t \in Due(e) : t \in Int /\ FirstTime(e) <= t
      BY <1>1, <3>2, <3>3, DueOf DEF Exact
    <3> HIDE DEF e
    <3> QED
      BY <1>2, <3>1, <3>4
  <2>5. d.time \notin Due(e)
    <3>1. ~(Attributes[e].beginTime <= d.time)
      BY <1>2, <1>5
    <3> QED
      BY <2>4, <3>1
  <2> QED
    BY <2>1, <2>3, <2>5
<1>6. CASE ~(d.time < Attributes[e].beginTime) /\ ~IsActive(e, d.time)
  <2>1. Forecast(e, d, times, clock) = Idle
    BY <1>6 DEF Forecast
  <2>2. ~IsReadyForExec(Idle)
    BY AttributeTypes DEF IsReadyForExec
  <2>3. ~(d.time < Attributes[e].endTime)
    BY <1>2, <1>6 DEF IsActive
  <2>4. \A t \in Due(e) : t < Attributes[e].endTime
    BY <1>1, PeriodicTimes, SoloTimes, DueOf DEF Exact
  <2> QED
    BY <2>1, <2>2, <2>3, <2>4
<1>7. CASE IsActive(e, d.time)
  <2>1. CASE ExactPeriodic(e)
    BY <1>1, <1>4, <1>7, <2>1, PeriodicReady, DueOf DEF StepExact
  <2>2. CASE ExactSolo(e)
    BY <1>1, <1>4, <1>7, <2>2, SoloReady, DueOf DEF StepExact
  <2> QED
    BY <1>1, <2>1, <2>2 DEF Exact
<1> QED
  BY <1>5, <1>6, <1>7
-----------------------------------------------------------------------------
(* The turns of an event with exact times.                                   *)

Agree(k, l, n) == \A j \in 1 .. n : k[j] = l[j]

LEMMA TimesKept ==
  ASSUME NEW k, NEW l, NEW n \in Nat, NEW e, Agree(k, l, n)
  PROVE  /\ TimesTo(k, n, e) = TimesTo(l, n, e)
         /\ k[n + 1].event = e => TimesTo(k, n + 1, e) = TimesTo(l, n, e) \cup {k[n + 1].time}
         /\ k[n + 1].event # e => TimesTo(k, n + 1, e) = TimesTo(l, n, e)
<1>1. TimesTo(k, n, e) = TimesTo(l, n, e)
  <2>1. {j \in 1 .. n : k[j].event = e} = {j \in 1 .. n : l[j].event = e}
    BY DEF Agree
  <2> QED
    BY <2>1 DEF TimesTo, Agree
<1> DEFINE before == {j \in 1 .. n : k[j].event = e}
           upTo == {j \in 1 .. n + 1 : k[j].event = e}
<1>2. \A j : j \in 1 .. n + 1 <=> j \in 1 .. n \/ j = n + 1
  OBVIOUS
<1>3. /\ k[n + 1].event = e => upTo = before \cup {n + 1}
      /\ k[n + 1].event # e => upTo = before
  BY <1>2
<1>4. TimesTo(k, n + 1, e) = {k[j].time : j \in upTo}
  BY DEF TimesTo
<1>5. TimesTo(k, n, e) = {k[j].time : j \in before}
  BY DEF TimesTo
<1> HIDE DEF before, upTo
<1> QED
  BY <1>1, <1>3, <1>4, <1>5

LEMMA SameTurn ==
  ASSUME NEW i \in 1 .. Len(Main), NEW d, NEW o, NEW k, NEW l, NEW m, NEW n, NEW b, NEW c,
         o.time = d.time, o.lastTime[Main[i]] = d.lastTime[Main[i]],
         o.lastCycle[Main[i]] = d.lastCycle[Main[i]],
         o.executing[Main[i]] <=> d.executing[Main[i]],
         TimesTo(k, m, Main[i]) = TimesTo(l, n, Main[i]),
         Finished(i, o, b) <=> Finished(i, d, c),
         Exact(Main[i]) /\ d.executing[Main[i]] => i = o.current + 1 /\ ~b,
         OnTimeAt(i, d, l, n, c)
  PROVE  OnTimeAt(i, o, k, m, b)
<1> DEFINE e == Main[i]
<1> SUFFICES ASSUME Exact(e) PROVE OnTimeAt(i, o, k, m, b)
  BY DEF OnTimeAt
<1>1. Begun(i, o, b) <=> Begun(i, d, c)
  BY DEF Begun
<1>2. TimesTo(k, m, e) = {t \in Due(e) : t < o.time \/ (t = o.time /\ Begun(i, o, b))}
  BY <1>1 DEF OnTimeAt
<1>3. ExactPeriodic(e) => LastPeriodic(e, o, Finished(i, o, b))
  BY DEF OnTimeAt, LastPeriodic
<1>4. ExactSolo(e) => LastSolo(e, o, Finished(i, o, b))
  BY DEF OnTimeAt, LastSolo
<1>5. o.executing[e] => i = o.current + 1 /\ ~b /\ o.time \in Due(e)
  BY DEF OnTimeAt
<1> QED
  BY <1>2, <1>3, <1>4, <1>5 DEF OnTimeAt

LEMMA PassedPeriodic ==
  ASSUME NEW e \in Event, NEW d \in Data, ExactPeriodic(e), d.time \notin DuePeriodic(e),
         LastPeriodic(e, d, FALSE)
  PROVE  LastPeriodic(e, d, TRUE)
<1> DEFINE p == Attributes[e].timeFrequency  f == FirstTime(e)  end == Attributes[e].endTime
           due == DuePeriodic(e)  last == d.lastTime[e]  t == d.time
<1>1. t \in Int /\ last \in Int /\ p \in Int /\ f \in Int /\ end \in Int
  BY DataFields, PeriodicTimes, FirstTimes, AttributeTypes
<1>2. /\ f < end => f \in due
      /\ \A u \in due : u + p < end => u + p \in due
      /\ \A u \in due : u < end
  BY PeriodicTimes
<1>3. CASE last = Never /\ (f > t \/ f >= end \/ f = t)
  <2>1. f = t => ~(f < end)
    BY <1>2
  <2>2. f > t \/ f >= end
    BY <1>1, <1>3, <2>1
  <2> QED
    BY <1>3, <2>2 DEF LastPeriodic
<1>4. CASE last \in due /\ last < t /\ (t < end => t <= last + p)
  <2>1. t < end => t # last + p
    BY <1>2, <1>4
  <2>2. last <= t /\ (t < end => t < last + p)
    <3> HIDE DEF p, end, last, t
    <3> QED
      BY <1>1, <1>4, <2>1
  <2> QED
    BY <1>4, <2>2 DEF LastPeriodic
<1> QED
  BY <1>3, <1>4 DEF LastPeriodic

LEMMA TurnPassed ==
  ASSUME NEW i \in 1 .. Len(Main), NEW d \in Data, NEW l, NEW n, d.current + 1 = i,
         Exact(Main[i]) => d.time \notin Due(Main[i]),
         OnTimeAt(i, d, l, n, FALSE)
  PROVE  OnTimeAt(i, d, l, n, TRUE)
<1> DEFINE e == Main[i]
<1> SUFFICES ASSUME Exact(e) PROVE OnTimeAt(i, d, l, n, TRUE)
  BY DEF OnTimeAt
<1>1. e \in Event /\ d.time \notin Due(e) /\ d.time \in Int
  BY MainEvents, DataFields
<1>2. Finished(i, d, FALSE) = FALSE /\ Finished(i, d, TRUE) = TRUE
  <2>1. d.current \in Nat
    BY DataFields
  <2> QED
    BY <2>1 DEF Finished
<1>3. ~d.executing[e]
  BY <1>1 DEF OnTimeAt
<1>4. {t \in Due(e) : t < d.time \/ (t = d.time /\ Begun(i, d, FALSE))} =
      {t \in Due(e) : t < d.time \/ (t = d.time /\ Begun(i, d, TRUE))}
  BY <1>1
<1>5. ExactPeriodic(e) => LastPeriodic(e, d, TRUE)
  BY <1>1, <1>2, PassedPeriodic, DueOf DEF OnTimeAt
<1>6. ExactSolo(e) => LastSolo(e, d, TRUE)
  <2> SUFFICES ASSUME ExactSolo(e) PROVE LastSolo(e, d, TRUE)
    OBVIOUS
  <2>1. LastSolo(e, d, FALSE) /\ d.time \notin DueSolo(e)
    BY <1>1, <1>2, DueOf DEF OnTimeAt
  <2> QED
    BY <2>1 DEF LastSolo
<1> QED
  BY <1>2, <1>3, <1>4, <1>5, <1>6 DEF OnTimeAt

\* At a time that is due, the next time after the last execution is not ahead.
LEMMA DueIsNext ==
  ASSUME NEW e \in Event, NEW d \in Data, ExactPeriodic(e), d.time \in DuePeriodic(e),
         LastPeriodic(e, d, FALSE)
  PROVE  ~(d.time < d.lastTime[e] + Attributes[e].timeFrequency)
<1> DEFINE p == Attributes[e].timeFrequency  last == d.lastTime[e]  t == d.time
<1>1. /\ t \in Int /\ last \in Int /\ p \in Int /\ MinTime \in Int /\ FirstTime(e) \in Int
      /\ MinTime <= FirstTime(e) /\ FirstTime(e) <= t
  BY DataFields, PeriodicTimes, FirstTimes, AttributeTypes
<1>2. CASE last = Never
  <2>1. last + p <= MinTime
    BY <1>2, AttributeTypes
  <2> QED
    BY <1>1, <2>1
<1>3. CASE last \in DuePeriodic(e) /\ last < t
  <2>1. last + p <= t
    BY <1>3, PeriodicTimes
  <2> QED
    BY <1>1, <2>1
<1> QED
  BY <1>2, <1>3 DEF LastPeriodic

LEMMA TurnDone ==
  ASSUME NEW i \in 1 .. Len(Main), NEW d \in Data, NEW o, NEW l, NEW n, d.current + 1 = i,
         SameCycle(d, o), Exact(Main[i]) => d.executing[Main[i]], ~o.executing[Main[i]],
         o.lastTime[Main[i]] = d.time, o.lastCycle[Main[i]] = d.cycle,
         OnTimeAt(i, d, l, n, FALSE)
  PROVE  OnTimeAt(i, o, l, n, TRUE)
<1> DEFINE e == Main[i]
<1> SUFFICES ASSUME Exact(e) PROVE OnTimeAt(i, o, l, n, TRUE)
  BY DEF OnTimeAt
<1>1. /\ e \in Event /\ d.executing[e] /\ d.time \in Due(e) /\ d.time \in Int /\ d.cycle \in Nat
      /\ o.time = d.time /\ o.current = d.current
  BY MainEvents, DataFields DEF OnTimeAt, SameCycle, SameClock
<1>2. Finished(i, o, TRUE) = TRUE /\ Begun(i, o, TRUE) = TRUE /\ Begun(i, d, FALSE) = TRUE
  <2>1. Finished(i, o, TRUE) = TRUE
    BY <1>1 DEF Finished
  <2> QED
    BY <1>1, <2>1 DEF Begun
<1>3. TimesTo(l, n, e) = {t \in Due(e) : t < o.time \/ (t = o.time /\ Begun(i, o, TRUE))}
  BY <1>1, <1>2 DEF OnTimeAt
<1>4. ExactPeriodic(e) => LastPeriodic(e, o, TRUE)
  <2> SUFFICES ASSUME ExactPeriodic(e) PROVE LastPeriodic(e, o, TRUE)
    OBVIOUS
  <2>1. Attributes[e].timeFrequency > 0 /\ Attributes[e].timeFrequency \in Int
    BY <1>1, PeriodicTimes DEF Positive
  <2>2. d.time <= d.time /\ d.time < d.time + Attributes[e].timeFrequency
    BY <1>1, <2>1
  <2>3. d.time \in DuePeriodic(e)
    BY <1>1, DueOf
  <2> QED
    BY <1>1, <2>2, <2>3 DEF LastPeriodic
<1>5. ExactSolo(e) => LastSolo(e, o, TRUE)
  <2> SUFFICES ASSUME ExactSolo(e) PROVE LastSolo(e, o, TRUE)
    OBVIOUS
  <2>1. d.time \in DueSolo(e)
    BY <1>1, DueOf
  <2>2. ~(d.cycle < 0) /\ ~(d.time < d.time)
    BY <1>1
  <2> QED
    BY <1>1, <2>1, <2>2 DEF LastSolo
<1> QED
  BY <1>2, <1>3, <1>4, <1>5 DEF OnTimeAt

LEMMA StepAfterTurn ==
  ASSUME NEW i \in 1 .. Len(Main), NEW d \in Data, NEW o, NEW l, NEW n, d.current + 1 = i,
         SameCycle(d, o), Exact(Main[i]), d.executing[Main[i]],
         o.lastTime[Main[i]] = d.time, o.lastCycle[Main[i]] = d.cycle,
         OnTimeAt(i, d, l, n, FALSE), StepExact(Main[i], d)
  PROVE  StepExact(Main[i], o)
<1> DEFINE e == Main[i]
<1>1. /\ e \in Event /\ d.time \in Due(e) /\ d.time \in Int /\ d.dt \in Int
      /\ o.time = d.time /\ o.dt = d.dt
  BY MainEvents, DataFields DEF OnTimeAt, SameCycle, SameClock
<1>2. IsActive(e, o.time) /\ ExactPeriodic(e) => StepPeriodic(e, o)
  <2> SUFFICES ASSUME IsActive(e, d.time), ExactPeriodic(e) PROVE StepPeriodic(e, o)
    BY <1>1
  <2>1. Finished(i, d, FALSE) = FALSE
    <3>1. d.current \in Nat
      BY DataFields
    <3> QED
      BY <3>1 DEF Finished
  <2>2. ~(d.time < d.lastTime[e] + Attributes[e].timeFrequency)
    BY <1>1, <2>1, DueIsNext, DueOf DEF OnTimeAt
  <2>3. d.dt <= Attributes[e].timeFrequency /\ Attributes[e].timeFrequency \in Int
    BY <1>1, <2>2, AttributeTypes DEF StepExact, StepPeriodic
  <2>4. d.time + d.dt <= d.time + Attributes[e].timeFrequency
    BY <1>1, <2>3
  <2> QED
    BY <1>1, <2>3, <2>4 DEF StepPeriodic
<1>3. IsActive(e, o.time) /\ ExactSolo(e) => StepSolo(e, o)
  BY <1>1 DEF StepExact, StepSolo
<1> QED
  BY <1>1, <1>2, <1>3 DEF StepExact

LEMMA TargetEnded ==
  ASSUME NEW i \in 1 .. Len(Main), NEW d \in Data, NEW o, NEW k, NEW l, NEW n \in Nat,
         d.current + 1 = i, SameCycle(d, o), o.executing[Main[i]],
         Exact(Main[i]) => ~d.executing[Main[i]] /\ d.time \in Due(Main[i]),
         o.lastTime[Main[i]] = d.lastTime[Main[i]], o.lastCycle[Main[i]] = d.lastCycle[Main[i]],
         Agree(k, l, n), k[n + 1].event = Main[i], k[n + 1].time = d.time,
         OnTimeAt(i, d, l, n, FALSE)
  PROVE  OnTimeAt(i, o, k, n + 1, FALSE)
<1> DEFINE e == Main[i]
<1> SUFFICES ASSUME Exact(e) PROVE OnTimeAt(i, o, k, n + 1, FALSE)
  BY DEF OnTimeAt
<1>1. /\ e \in Event /\ ~d.executing[e] /\ d.time \in Due(e) /\ d.time \in Int
      /\ o.time = d.time /\ o.current = d.current /\ d.current \in Nat
  BY MainEvents, DataFields DEF SameCycle, SameClock
<1>2. /\ Finished(i, o, FALSE) = FALSE /\ Finished(i, d, FALSE) = FALSE
  BY <1>1 DEF Finished
<1>3. Begun(i, o, FALSE) /\ ~Begun(i, d, FALSE)
  BY <1>1, <1>2 DEF Begun
<1>4. TimesTo(k, n + 1, e) = TimesTo(l, n, e) \cup {d.time}
  <2>1. k[n + 1].event = e => TimesTo(k, n + 1, e) = TimesTo(l, n, e) \cup {k[n + 1].time}
    BY ONLY Agree(k, l, n), n \in Nat, TimesKept
  <2> QED
    BY <2>1
<1>5. TimesTo(l, n, e) = {t \in Due(e) : t < d.time}
  BY <1>3 DEF OnTimeAt
<1>6. TimesTo(k, n + 1, e) = {t \in Due(e) : t < o.time \/ (t = o.time /\ Begun(i, o, FALSE))}
  BY <1>1, <1>3, <1>4, <1>5
<1>7. ExactPeriodic(e) => LastPeriodic(e, o, FALSE)
  BY <1>1, <1>2 DEF OnTimeAt, LastPeriodic
<1>8. ExactSolo(e) => LastSolo(e, o, FALSE)
  BY <1>1, <1>2 DEF OnTimeAt, LastSolo
<1> QED
  BY <1>1, <1>2, <1>6, <1>7, <1>8 DEF OnTimeAt

\* At the start no event has had a turn.
LEMMA FirstTurn ==
  ASSUME NEW i \in 1 .. Len(Main), NEW d \in Data, NEW l,
         d.time = MinTime, d.current = 0, d.executing[Main[i]] = FALSE,
         d.lastTime[Main[i]] = Never, d.lastCycle[Main[i]] = Never
  PROVE  OnTimeAt(i, d, l, 0, FALSE)
<1> DEFINE e == Main[i]
<1>1. /\ e \in Event /\ MinTime \in Int /\ Never < 0 /\ FirstTime(e) \in Int
      /\ MinTime <= FirstTime(e)
  BY MainEvents, FirstTimes, AttributeTypes
<1>2. Finished(i, d, FALSE) = FALSE /\ Begun(i, d, FALSE) = FALSE
  BY DEF Finished, Begun
<1>3. TimesTo(l, 0, e) = {}
  <2>1. 1 .. 0 = {}
    OBVIOUS
  <2> QED
    BY <2>1 DEF TimesTo
<1>4. ASSUME ExactPeriodic(e)
      PROVE  /\ LastPeriodic(e, d, FALSE)
             /\ \A t \in DuePeriodic(e) : ~(t < MinTime)
  <2>1. FirstTime(e) > MinTime \/ FirstTime(e) = MinTime
    BY <1>1
  <2>2. \A t \in DuePeriodic(e) : t \in Int /\ FirstTime(e) <= t
    BY <1>1, <1>4, PeriodicTimes
  <2>3. \A t \in DuePeriodic(e) : ~(t < MinTime)
    BY <1>1, <2>2
  <2> QED
    BY <2>1, <2>3 DEF LastPeriodic
<1>5. ASSUME ExactSolo(e)
      PROVE  /\ LastSolo(e, d, FALSE)
             /\ \A t \in DueSolo(e) : ~(t < MinTime)
  <2>1. \A t \in DueSolo(e) : t \in Int /\ FirstTime(e) <= t
    BY <1>1, <1>5, SoloTimes
  <2>2. \A t \in DueSolo(e) : (MinTime < t \/ MinTime = t) /\ ~(t < MinTime)
    BY <1>1, <2>1
  <2>3. \A t \in DueSolo(e) : d.time < t \/ (t = d.time /\ ~FALSE)
    BY <2>2
  <2>4. d.lastCycle[e] < 0
    BY <1>1
  <2> QED
    BY <2>2, <2>3, <2>4 DEF LastSolo
<1>6. ASSUME Exact(e) PROVE \A t \in Due(e) : ~(t < MinTime)
  BY <1>1, <1>4, <1>5, <1>6, DueOf DEF Exact
<1>7. Exact(e) => TimesTo(l, 0, e) = {t \in Due(e) : t < d.time \/ (t = d.time /\ Begun(i, d, FALSE))}
  BY <1>2, <1>3, <1>6
<1> QED
  BY <1>2, <1>4, <1>5, <1>7 DEF OnTimeAt

\* No event is due between the begin and the end of a cycle.
LEMMA NextPeriodic ==
  ASSUME NEW e \in Event, NEW d \in Data, NEW o \in Data, ExactPeriodic(e), Clock(d),
         o.time = d.time + d.dt, o.lastTime[e] = d.lastTime[e],
         LastPeriodic(e, d, TRUE), StepExact(e, d)
  PROVE  /\ LastPeriodic(e, o, FALSE)
         /\ \A t \in DuePeriodic(e) : t < o.time => t < d.time \/ t = d.time
<1> DEFINE p == Attributes[e].timeFrequency  f == FirstTime(e)  end == Attributes[e].endTime
           begin == Attributes[e].beginTime
           due == DuePeriodic(e)  last == d.lastTime[e]  t == d.time  u == o.time
<1>1. /\ t \in Int /\ d.dt \in Int /\ d.dt > 0 /\ last \in Int /\ u = t + d.dt
      /\ p \in Int /\ p > 0 /\ f \in Int /\ end \in Int /\ begin \in Int /\ MinTime \in Int
      /\ MinTime <= t /\ MinTime <= f /\ begin <= f /\ f \in {MinTime, begin}
  BY DataFields, PeriodicTimes, FirstTimes, AttributeTypes DEF Clock, StepExact, Positive
<1>2. /\ f < end => f \in due
      /\ \A v \in due : v \in Int /\ f <= v /\ v < end
      /\ \A v \in due : \A w \in due : v < w => v + p <= w
  BY PeriodicTimes
<1>3. t < begin => u <= begin
  BY DEF StepExact
<1>4. begin <= t /\ t < end => IF t < last + p THEN u <= last + p ELSE d.dt <= p
  BY DEF StepExact, IsActive, StepPeriodic
<1>5. \/ last = Never /\ (f > t \/ f >= end)
      \/ last \in due /\ last <= t /\ (t < end => t < last + p)
  BY DEF LastPeriodic
<1> HIDE DEF p, f, end, begin, due, last, t
<1>6. u \in Int /\ t < u
  BY <1>1
<1> HIDE DEF u
<1>7. CASE last = Never /\ (f > t \/ f >= end)
  <2>1. f >= end \/ u <= f
    <3> SUFFICES ASSUME f > t PROVE u <= f
      BY <1>7
    <3>1. f = begin
      BY <1>1
    <3> QED
      BY <1>3, <3>1
  <2>2. \A v \in due : ~(v < u)
    BY <1>1, <1>2, <1>6, <2>1
  <2>3. f > u \/ f >= end \/ f = u
    BY <1>1, <1>6, <2>1
  <2>4. LastPeriodic(e, o, FALSE)
    BY <1>7, <2>3 DEF LastPeriodic, u, f, end, last
  <2> QED
    BY <2>2, <2>4 DEF u, due
<1>8. CASE last \in due /\ last <= t /\ (t < end => t < last + p)
  <2>1. begin <= t /\ last < u
    BY <1>1, <1>2, <1>6, <1>8
  <2>2. t < end => t < last + p /\ u <= last + p
    BY <1>1, <1>4, <1>8, <2>1
  <2>3. ASSUME NEW v \in due, v < u PROVE v < t \/ v = t
    <3>1. v \in Int /\ v < end
      BY <1>2
    <3> SUFFICES ASSUME t < v PROVE FALSE
      BY <1>1, <3>1
    <3>2. t < end /\ last < v
      BY <1>1, <1>8, <3>1
    <3>3. last + p <= v
      BY <1>2, <1>8, <3>2
    <3>4. u <= last + p
      BY <2>2, <3>2
    <3> QED
      BY <1>1, <1>6, <2>3, <3>1, <3>3, <3>4
  <2>4. u < end => u <= last + p
    BY <1>1, <1>6, <2>2
  <2>5. LastPeriodic(e, o, FALSE)
    BY <1>8, <2>1, <2>4 DEF LastPeriodic, u, end, last, due, p
  <2> QED
    BY <2>3, <2>5 DEF u, due, t
<1> QED
  BY <1>5, <1>7, <1>8

LEMMA NextSolo ==
  ASSUME NEW e \in Event, NEW d \in Data, NEW o \in Data, ExactSolo(e), Clock(d),
         o.time = d.time + d.dt, o.lastCycle[e] = d.lastCycle[e],
         LastSolo(e, d, TRUE), StepExact(e, d)
  PROVE  /\ LastSolo(e, o, FALSE)
         /\ \A t \in DueSolo(e) : t < o.time => t < d.time \/ t = d.time
<1> DEFINE target == Attributes[e].targetTime  end == Attributes[e].endTime
           begin == Attributes[e].beginTime  due == DueSolo(e)  t == d.time  u == o.time
<1>1. /\ t \in Int /\ d.dt \in Int /\ d.dt > 0 /\ u = t + d.dt
      /\ target \in Int /\ end \in Int /\ begin \in Int /\ begin <= target
      /\ due = IF target < end THEN {target} ELSE {}
  <2>1. FirstTime(e) \in Int /\ begin <= FirstTime(e) /\ FirstTime(e) <= target
    BY SoloTimes, FirstTimes
  <2>2. target \in Int /\ end \in Int /\ begin \in Int
    BY AttributeTypes
  <2>3. begin <= target
    BY <2>1, <2>2
  <2> QED
    BY <2>2, <2>3, DataFields, SoloTimes DEF StepExact
<1>2. t < begin => u <= begin
  BY DEF StepExact
<1>3. begin <= t /\ t < end => (t < target => u <= target)
  BY DEF StepExact, IsActive, StepSolo
<1>4. d.lastCycle[e] < 0 <=> \A v \in due : t < v
  BY DEF LastSolo
<1> HIDE DEF target, end, begin, due, t
<1>5. u \in Int /\ t < u
  BY <1>1
<1> HIDE DEF u
<1>6. ASSUME NEW v \in due PROVE /\ t < v <=> (u < v \/ v = u)
                                 /\ v < u => v < t \/ v = t
  <2>1. v = target /\ target < end
    BY <1>1
  <2>2. t < v => u <= v
    <3> SUFFICES ASSUME t < target PROVE u <= target
      BY <2>1
    <3>1. t < end
      BY <1>1, <2>1
    <3> QED
      BY <1>1, <1>2, <1>3, <1>5, <3>1
  <2> QED
    BY <1>1, <1>5, <2>1, <2>2
<1>7. d.lastCycle[e] < 0 <=> \A v \in due : u < v \/ v = u
  BY <1>4, <1>6
<1>8. LastSolo(e, o, FALSE)
  BY <1>7 DEF LastSolo, due, u
<1> QED
  BY <1>6, <1>8 DEF due, u, t

LEMMA NextTurn ==
  ASSUME NEW i \in 1 .. Len(Main), NEW d \in Data, NEW o \in Data, NEW l, NEW n, NEW c,
         d.current = Len(Main), o.current = 0, o.time = d.time + d.dt,
         SameEvents(d, o), Clock(d), OnTimeAt(i, d, l, n, c),
         Exact(Main[i]) => StepExact(Main[i], d)
  PROVE  OnTimeAt(i, o, l, n, FALSE)
<1> DEFINE e == Main[i]
<1> SUFFICES ASSUME Exact(e) PROVE OnTimeAt(i, o, l, n, FALSE)
  BY DEF OnTimeAt
<1>1. /\ e \in Event /\ StepExact(e, d) /\ d.time \in Int /\ d.dt \in Int /\ d.dt > 0
      /\ o.lastTime[e] = d.lastTime[e] /\ o.lastCycle[e] = d.lastCycle[e]
      /\ o.executing[e] = d.executing[e] /\ Len(Main) \in Nat
  BY MainEvents, DataFields DEF SameEvents, StepExact
<1>2. Finished(i, d, c) = TRUE /\ Finished(i, o, FALSE) = FALSE /\ i # d.current + 1
  BY <1>1 DEF Finished
<1>3. ~d.executing[e]
  BY <1>2 DEF OnTimeAt
<1>4. Begun(i, d, c) = TRUE /\ Begun(i, o, FALSE) = FALSE
  BY <1>1, <1>2, <1>3 DEF Begun
<1>5. d.time < o.time
  BY <1>1
<1>6. ExactPeriodic(e) => /\ LastPeriodic(e, o, FALSE)
                          /\ \A t \in Due(e) : t < o.time => t < d.time \/ t = d.time
  BY <1>1, <1>2, NextPeriodic, DueOf DEF OnTimeAt
<1>7. ExactSolo(e) => /\ LastSolo(e, o, FALSE)
                      /\ \A t \in Due(e) : t < o.time => t < d.time \/ t = d.time
  BY <1>1, <1>2, NextSolo, DueOf DEF OnTimeAt
<1>8. Due(e) \subseteq Int /\ o.time \in Int
  BY <1>1, DueOf, DataFields
<1>9. \A t \in Due(e) : t < o.time <=> t < d.time \/ t = d.time
  <2>1. \A t \in Due(e) : t < o.time => t < d.time \/ t = d.time
    BY <1>6, <1>7 DEF Exact
  <2>2. \A t \in Int : t < d.time \/ t = d.time => t < o.time
    BY <1>1, <1>5, <1>8
  <2> QED
    BY <1>8, <2>1, <2>2
<1>10. TimesTo(l, n, e) = {t \in Due(e) : t < o.time \/ (t = o.time /\ Begun(i, o, FALSE))}
  <2>1. TimesTo(l, n, e) = {t \in Due(e) : t < d.time \/ t = d.time}
    BY <1>4 DEF OnTimeAt
  <2> QED
    BY <1>4, <1>9, <2>1
<1> QED
  BY <1>1, <1>2, <1>3, <1>6, <1>7, <1>10 DEF OnTimeAt
-----------------------------------------------------------------------------
(* The length of a new cycle.                                                *)

LEMMA NoStretch ==
  ASSUME NEW time \in Int, NEW t \in Int, NEW end \in Int, NEW limit \in Positive,
         NEW stretch \in Int, NEW length \in Int,
         limit <= t - time, limit <= length, length * stretch <= 100 * (end - t), t < end
  PROVE  ~(100 * time + limit * (100 + stretch) > 100 * end)
<1> DEFINE more == limit * stretch
<1>1. limit \in Nat /\ limit > 0
  BY DEF Positive
<1>2. more \in Int /\ limit * (100 + stretch) = 100 * limit + more
  BY <1>1
<1>3. more <= 100 * (end - t)
  <2>1. CASE stretch <= 0
    <3> DEFINE less == -stretch
    <3>1. less \in Nat /\ stretch = -less
      BY <2>1
    <3>2. limit * less \in Nat /\ limit * stretch = -(limit * less)
      BY <1>1, <3>1
    <3> QED
      BY <3>2
  <2>2. CASE stretch > 0
    <3> DEFINE rest == length - limit
    <3>1. rest \in Nat /\ length = limit + rest /\ stretch \in Nat
      BY <1>1, <2>2
    <3>2. rest * stretch \in Nat /\ length * stretch = limit * stretch + rest * stretch
      BY <1>1, <3>1
    <3> QED
      BY <1>2, <3>2
  <2> QED
    BY <2>1, <2>2
<1> HIDE DEF more
<1>4. 100 * time + (100 * limit + more) <= 100 * end
  BY <1>1, <1>2, <1>3
<1>5. \A a, b \in Int : a <= b => ~(a > b)
  OBVIOUS
<1> QED
  BY <1>1, <1>2, <1>4, <1>5

\* A step that an active event limits to a time that is due, or that lies
\* behind its window, does not go beyond that time.
LEMMA StepTo ==
  ASSUME NEW e \in Event, NEW due, NEW length \in Int, NEW time \in Int, NEW t \in Int,
         NEW limit \in Positive, NEW dt \in Positive,
         IsActive(e, time), dt <= InWindow(e, time, limit),
         limit <= t - time, t - time <= length,
         t < Attributes[e].endTime => t \in due,
         NotStretched(e, due, length)
  PROVE  time + dt <= t
<1> DEFINE end == Attributes[e].endTime  stretch == Attributes[e].finalDtStretch
           stretched == 100 * time + limit * (100 + stretch) > 100 * end
<1>1. /\ end \in Int /\ stretch \in Int /\ limit \in Int /\ dt \in Int
      /\ time < end /\ ~(time < Attributes[e].beginTime)
  BY AttributeTypes DEF IsActive, Positive
<1>2. InWindow(e, time, limit) =
        IF ~Attributes[e].targetExactStartStop THEN limit
        ELSE IF stretched THEN end - time ELSE limit
  BY <1>1 DEF InWindow
<1>3. limit <= length
  BY <1>1
<1>4. Attributes[e].targetExactStartStop /\ t < end => ~stretched
  <2> SUFFICES ASSUME Attributes[e].targetExactStartStop, t < end PROVE ~stretched
    OBVIOUS
  <2>1. length * stretch <= 100 * (end - t)
    BY DEF NotStretched
  <2> HIDE DEF end, stretch
  <2> QED
    BY ZenonT(40), <1>1, <1>3, <2>1, NoStretch
<1> HIDE DEF end, stretch, stretched
<1>5. CASE dt <= limit
  BY <1>1, <1>5
<1>6. CASE ~(dt <= limit)
  <2>1. Attributes[e].targetExactStartStop /\ stretched
    BY <1>1, <1>2, <1>6
  <2>2. dt <= end - time /\ ~(t < end)
    BY <1>2, <1>4, <2>1
  <2> QED
    BY <1>1, <2>2
<1> QED
  BY <1>5, <1>6

LEMMA NewStepPeriodic ==
  ASSUME NEW e \in Event, NEW d \in Data, ExactPeriodic(e), Clock(d), IsActive(e, d.time),
         LastPeriodic(e, d, FALSE), NEW limit \in Positive, NEW dt \in Positive,
         NEW asked \in Positive, Limit(e, d, asked, limit), dt <= InWindow(e, d.time, limit)
  PROVE  IF d.time < d.lastTime[e] + Attributes[e].timeFrequency
         THEN d.time + dt <= d.lastTime[e] + Attributes[e].timeFrequency
         ELSE dt <= Attributes[e].timeFrequency
<1> DEFINE p == Attributes[e].timeFrequency  f == FirstTime(e)  end == Attributes[e].endTime
           due == DuePeriodic(e)  last == d.lastTime[e]  t == d.time  next == last + p
<1>1. /\ t \in Int /\ last \in Int /\ p \in Int /\ p > 0 /\ f \in Int /\ end \in Int
      /\ MinTime \in Int /\ MinTime <= t /\ MinTime <= f /\ f <= t /\ t < end /\ next \in Int
  <2>1. /\ t \in Int /\ last \in Int /\ p \in Int /\ p > 0 /\ f \in Int /\ end \in Int
        /\ MinTime \in Int /\ Attributes[e].beginTime \in Int
        /\ MinTime <= t /\ MinTime <= f /\ f \in {MinTime, Attributes[e].beginTime}
        /\ Attributes[e].beginTime <= t /\ t < end
    BY DataFields, PeriodicTimes, FirstTimes, AttributeTypes DEF Positive, Clock, IsActive
  <2> QED
    BY <2>1
<1>2. /\ f < end => f \in due
      /\ \A v \in due : v \in Int /\ f <= v /\ v < end
      /\ \A v \in due : v + p < end => v + p \in due
      /\ \A v, w \in due : v < w => v + p <= w
  BY PeriodicTimes
<1>3. NotStretched(e, due, p)
  BY DEF ExactPeriodic
<1>4. PeriodicRequest(e, d) = (IF t < next THEN next - t ELSE p) /\ limit <= PeriodicRequest(e, d)
  <2>1. Attributes[e].forceDt <= 0 /\ Attributes[e].kind = "periodic" /\ Attributes[e].targetExactTimestep
    BY DEF ExactPeriodic, IsExact
  <2>2. ~(Attributes[e].timeFrequency <= 0)
    BY <1>1
  <2>3. PeriodicRequest(e, d) = IF t < next THEN next - t ELSE p
    BY <2>1, <2>2 DEF PeriodicRequest
  <2>4. EventTypeRequest(e, d) = PeriodicRequest(e, d)
    BY <2>1 DEF EventTypeRequest
  <2>5. EventTypeRequest(e, d) \in OwnRequests(e, d, asked)
    BY DEF OwnRequests
  <2>6. \A request \in OwnRequests(e, d, asked) : limit <= request
    BY <2>1 DEF Limit
  <2> QED
    BY <2>3, <2>4, <2>5, <2>6
<1>5. limit \in Int /\ dt \in Int
  BY DEF Positive
<1>6. \/ last = Never /\ f = t
      \/ last \in due /\ last < t /\ t <= next
  <2>1. CASE last = Never /\ (f > t \/ f >= end \/ f = t)
    BY <1>1, <2>1
  <2>2. CASE last \in due /\ last < t /\ (t < end => t <= next)
    BY <1>1, <2>2
  <2> QED
    BY <2>1, <2>2 DEF LastPeriodic
<1>7. CASE t < next
  <2>1. last \in due /\ last < t
    <3>1. last = Never => next <= MinTime
      BY AttributeTypes
    <3>2. last # Never
      BY <1>1, <1>7, <3>1
    <3> QED
      BY <1>6, <3>2
  <2>2. next < end => next \in due
    BY <1>2, <2>1
  <2>3. limit <= next - t
    BY <1>4, <1>7
  <2>4. next - t <= p
    <3> HIDE DEF p, last, t
    <3> QED
      BY <1>1, <2>1
  <2> HIDE DEF due, next, p
  <2>5. t + dt <= next
    BY <1>1, <1>3, <2>2, <2>3, <2>4, StepTo DEF end
  <2> QED
    BY <1>7, <2>5 DEF next, p
<1>8. CASE ~(t < next)
  <2>1. t \in due
    <3>1. f < end
      BY <1>1
    <3>2. last \in due /\ t = next => t \in due
      BY <1>1, <1>2
    <3>3. last \in due /\ t <= next => t = next
      BY <1>1, <1>8
    <3> QED
      BY <1>2, <1>6, <3>1, <3>2, <3>3
  <2> DEFINE u == t + p
  <2>2. u < end => u \in due
    BY <1>2, <2>1
  <2>3. u \in Int /\ limit <= u - t /\ u - t <= p
    <3>1. limit <= p
      BY <1>4, <1>8
    <3> HIDE DEF p, t
    <3> QED
      BY <1>1, <1>5, <3>1
  <2> HIDE DEF due, p, u
  <2>4. t + dt <= u
    BY <1>1, <1>3, <2>2, <2>3, StepTo DEF end
  <2>5. dt <= p
    <3> HIDE DEF t
    <3> QED
      BY <1>1, <1>5, <2>4 DEF u
  <2> QED
    BY <1>8, <2>5 DEF p
<1> QED
  BY <1>7, <1>8

LEMMA NewStepSolo ==
  ASSUME NEW e \in Event, NEW d \in Data, ExactSolo(e), Clock(d), IsActive(e, d.time),
         LastSolo(e, d, FALSE), NEW limit \in Positive, NEW dt \in Positive,
         NEW asked \in Positive, Limit(e, d, asked, limit), dt <= InWindow(e, d.time, limit),
         d.time < Attributes[e].targetTime
  PROVE  d.time + dt <= Attributes[e].targetTime
<1> DEFINE target == Attributes[e].targetTime  end == Attributes[e].endTime
           due == DueSolo(e)  t == d.time  f == FirstTime(e)
<1>1. /\ t \in Int /\ target \in Int /\ end \in Int /\ f \in Int /\ f <= t /\ t < target
      /\ MinTime \in Int /\ MinTime <= t
      /\ due = IF target < end THEN {target} ELSE {}
  <2>1. /\ t \in Int /\ target \in Int /\ end \in Int /\ f \in Int
        /\ MinTime \in Int /\ Attributes[e].beginTime \in Int
        /\ f \in {MinTime, Attributes[e].beginTime} /\ MinTime <= t /\ Attributes[e].beginTime <= t
        /\ due = IF target < end THEN {target} ELSE {}
    BY DataFields, SoloTimes, FirstTimes, AttributeTypes DEF Clock, IsActive
  <2> QED
    BY <2>1
<1>2. target > 0
  <2>1. target > 0 \/ (target = 0 /\ MinTime = 0)
    BY DEF ExactSolo
  <2> QED
    BY <1>1, <2>1
<1>3. d.lastCycle[e] < 0
  <2>1. \A u \in due : t < u
    BY <1>1
  <2> QED
    BY <2>1 DEF LastSolo
<1>4. limit <= target - t
  <2>1. Attributes[e].forceDt <= 0 /\ Attributes[e].kind = "solo" /\ Attributes[e].targetExactTimestep
    BY DEF ExactSolo, IsExact
  <2>2. EventTypeRequest(e, d) = target - t
    BY <1>1, <1>2, <1>3, <2>1 DEF EventTypeRequest, SoloRequest
  <2>3. EventTypeRequest(e, d) \in OwnRequests(e, d, asked)
    BY DEF OwnRequests
  <2>4. \A request \in OwnRequests(e, d, asked) : limit <= request
    BY <2>1 DEF Limit
  <2> QED
    BY <2>2, <2>3, <2>4
<1> DEFINE length == target - f
<1>5. NotStretched(e, due, length)
  BY DEF ExactSolo
<1>6. length \in Int /\ target - t <= length
  <2> HIDE DEF target, t, f
  <2> QED
    BY <1>1
<1>7. target < end => target \in due
  BY <1>1
<1> HIDE DEF due, length, target
<1>8. t + dt <= target
  BY <1>1, <1>4, <1>5, <1>6, <1>7, StepTo DEF end
<1> QED
  BY <1>8 DEF target

LEMMA NewStepExact ==
  ASSUME data \in Data, plan \in [0 .. PlanLength - 1 -> Requests], StartCycle,
         data.current = 0, Clock(data), NEW i \in 1 .. Len(Main), NEW l, NEW n,
         Exact(Main[i]), OnTimeAt(i, data, l, n, FALSE)
  PROVE  StepExact(Main[i], data')
<1> DEFINE e == Main[i]  dt == CycleDt
<1>1. /\ e \in Event /\ dt \in Positive /\ Asked \in [Event -> Positive]
      /\ dt <= TimestepRequest(data, Asked)[e]
      /\ data.time \in Int /\ data'.time = data.time /\ data'.dt = dt
      /\ data'.lastTime = data.lastTime
  BY MainEvents, CycleDtLeast, StartCycleEffect, DataFields DEF StartCycle, SameEvents
<1>2. PICK limit \in Positive : /\ Limit(e, data, Asked[e], limit)
                                /\ TimestepRequest(data, Asked)[e] = InWindow(e, data.time, limit)
  BY <1>1, EventRequests
<1>3. Asked[e] \in Positive /\ dt <= InWindow(e, data.time, limit)
  BY <1>1, <1>2
<1>4. Finished(i, data, FALSE) = FALSE
  BY DEF Finished
<1> HIDE DEF dt
<1>5. ASSUME data.time < Attributes[e].beginTime PROVE data.time + dt <= Attributes[e].beginTime
  <2>1. Attributes[e].targetExactStartStop \/ Attributes[e].beginTime <= MinTime
    BY DEF Exact, ExactPeriodic, ExactSolo, IsExact
  <2>2. ~(Attributes[e].beginTime <= MinTime)
    BY <1>1, <1>5, AttributeTypes DEF Clock
  <2> QED
    BY <1>1, <1>2, <1>3, <1>5, <2>1, <2>2, StepToBegin
<1>6. ASSUME IsActive(e, data.time), ExactPeriodic(e)
      PROVE  IF data.time < data.lastTime[e] + Attributes[e].timeFrequency
             THEN data.time + dt <= data.lastTime[e] + Attributes[e].timeFrequency
             ELSE dt <= Attributes[e].timeFrequency
  <2>1. LastPeriodic(e, data, FALSE)
    BY <1>4, <1>6 DEF OnTimeAt
  <2> QED
    BY <1>1, <1>2, <1>3, <1>6, <2>1, NewStepPeriodic
<1>7. ASSUME IsActive(e, data.time), ExactSolo(e), data.time < Attributes[e].targetTime
      PROVE  data.time + dt <= Attributes[e].targetTime
  <2>1. LastSolo(e, data, FALSE)
    BY <1>4, <1>7 DEF OnTimeAt
  <2> QED
    BY <1>1, <1>2, <1>3, <1>7, <2>1, NewStepSolo
<1>8. IsActive(e, data'.time) /\ ExactPeriodic(e) => StepPeriodic(e, data')
  BY <1>1, <1>6 DEF StepPeriodic
<1>9. IsActive(e, data'.time) /\ ExactSolo(e) => StepSolo(e, data')
  BY <1>1, <1>7 DEF StepSolo
<1>10. data'.dt > 0
  BY <1>1 DEF Positive
<1> QED
  BY <1>1, <1>5, <1>8, <1>9, <1>10 DEF StepExact
-----------------------------------------------------------------------------
(* The events with exact times stay in time, step by step.                   *)

LEMMA UnchangedTurn ==
  ASSUME NEW i \in 1 .. Len(Main), NEW d, NEW o, NEW k, NEW l, NEW n \in Nat, NEW c,
         o.time = d.time, o.current = d.current,
         o.lastTime[Main[i]] = d.lastTime[Main[i]],
         o.lastCycle[Main[i]] = d.lastCycle[Main[i]],
         o.executing[Main[i]] <=> d.executing[Main[i]],
         Agree(k, l, n), OnTimeAt(i, d, l, n, c)
  PROVE  OnTimeAt(i, o, k, n, c)
<1>1. TimesTo(k, n, Main[i]) = TimesTo(l, n, Main[i])
  BY ONLY Agree(k, l, n), n \in Nat, TimesKept
<1>2. Finished(i, o, c) <=> Finished(i, d, c)
  BY DEF Finished
<1>3. Exact(Main[i]) /\ d.executing[Main[i]] => i = o.current + 1 /\ ~c
  BY DEF OnTimeAt
<1> QED
  BY <1>1, <1>2, <1>3, SameTurn

LEMMA SameStep ==
  ASSUME NEW e, NEW d, NEW o, o.time = d.time, o.dt = d.dt, o.lastTime[e] = d.lastTime[e],
         StepExact(e, d)
  PROVE  StepExact(e, o)
BY DEF StepExact, StepPeriodic, StepSolo

LEMMA SameSteps ==
  ASSUME NEW d, NEW o, o.time = d.time, o.dt = d.dt, o.lastTime = d.lastTime, StepsExact(d)
  PROVE  StepsExact(o)
BY SameStep DEF StepsExact

LEMMA SameClocks ==
  ASSUME NEW d, NEW o, o.time = d.time, o.cycle = d.cycle, Clock(d)
  PROVE  Clock(o)
BY DEF Clock

LEMMA AgreeSame ==
  \A l, n : Agree(l, l, n)
BY DEF Agree

LEMMA TopInMain ==
  ASSUME data \in Data, Nest, stack # << >>, data.current < Len(Main),
         NEW i \in 1 .. Len(Main), Executing = Main[i]
  PROVE  Len(stack) = 1 /\ i = data.current + 1
<1>1. Len(stack) \in Nat /\ Len(stack) >= 1 /\ stack \in Seq(Event)
  BY TopOfStack DEF Nest
<1>2. ~(Len(stack) > 1)
  <2> SUFFICES ASSUME Len(stack) > 1 PROVE FALSE
    OBVIOUS
  <2>1. Enters(Caller, data, Executing) /\ Caller \in Event
    <3>1. Len(stack) - 1 \in 1 .. Len(stack) /\ DOMAIN stack = 1 .. Len(stack)
      BY <1>1
    <3> QED
      BY <1>1, <3>1, Nested, ElementOfSeq DEF Caller
  <2>2. /\ data.sub[Caller] \in Nat /\ Len(Subs(Caller)) \in Nat
        /\ data.sub[Caller] < Len(Subs(Caller)) /\ Executing = Subs(Caller)[data.sub[Caller] + 1]
    BY <2>1, DataFields, SubEvents DEF Enters
  <2>3. data.sub[Caller] + 1 \in 1 .. Len(Subs(Caller))
    BY <2>2
  <2>4. Executing \in Children(Caller)
    BY <2>1, <2>2, <2>3, SubEvents
  <2> QED
    BY <2>1, <2>4, MainEvents
<1>3. Len(stack) = 1
  <2>1. \A n \in Nat : n >= 1 /\ ~(n > 1) => n = 1
    OBVIOUS
  <2> QED
    BY <1>1, <1>2, <2>1
<1>4. Executing = Current
  BY <1>3, Nested DEF Executing
<1> QED
  BY <1>3, <1>4, CurrentEvent, MainEvents DEF Current

LEMMA LogKept ==
  ASSUME Control, Next
  PROVE  Agree(log', log, at)
<1>1. CASE ExecuteTarget
  <2>1. /\ data \in Data /\ log \in Seq(Entry) /\ at \in 0 .. Len(log)
        /\ stack \in Seq(Event) /\ stack # << >>
    BY <1>1 DEF Control, Types, Nest, Position, ExecuteTarget
  <2> QED
    BY <1>1, <2>1, ExecuteTargetEffect DEF Agree
<1>2. CASE ~ExecuteTarget
  <2>1. log' = log
    BY <1>2 DEF Next, Step, Run, StartCycle, EndCycle, CollectExitFlag, Finish, CheckEvent,
                ExecuteSubEvent, ReturnFromExecute, Restart, Ended, vars
  <2> QED
    BY <2>1 DEF Agree
<1> QED
  BY <1>1, <1>2

LEMMA RunInTime ==
  ASSUME Control, Punctual, Run
  PROVE  InTime'
<1>1. /\ data \in Data /\ log \in Seq(Entry) /\ at \in Nat /\ MinTime \in Int
      /\ phase = "returned" => data.current > 0
  BY AttributeTypes DEF Control, Types, Position
<1>2. /\ data' \in Data /\ data'.time = RunStart /\ data'.dt = data.dt
      /\ data'.cycle = data.cycle /\ data'.current = data.current /\ SameEvents(data, data')
      /\ phase \in {"ready", "returned"} /\ phase' = "loop"
      /\ UNCHANGED <<stack, log, at>>
  BY <1>1, RunEffect
<1>3. Collecting = FALSE /\ Collecting' = FALSE
  BY <1>2 DEF Collecting
<1>4. phase' # "execute" /\ phase' \notin Cycling
  BY <1>2 DEF Cycling
<1>5. CASE Started
  <2>1. data'.time = data.time
    <3>1. ~(data.current = 0 /\ MinTime # 0)
      BY <1>1, <1>2, <1>5 DEF Started
    <3> QED
      BY <1>2, <3>1 DEF RunStart
  <2>2. Clock(data')
    BY <1>2, <1>5, <2>1, SameClocks DEF Punctual, InTime
  <2>3. ASSUME NEW i \in 1 .. Len(Main) PROVE OnTimeAt(i, data', log', at', Collecting')
    <3>1. OnTimeAt(i, data, log, at, FALSE)
      BY <1>3, <1>5 DEF Punctual, InTime, Turns
    <3>2. OnTimeAt(i, data', log, at, FALSE)
      BY <1>1, <1>2, <2>1, <3>1, UnchangedTurn, AgreeSame DEF SameEvents
    <3> QED
      BY <1>2, <1>3, <3>2
  <2>4. data'.current # 0 => StepsExact(data')
    BY <1>2, <1>5, <2>1, SameSteps DEF Punctual, InTime, SameEvents
  <2> QED
    BY <1>4, <2>2, <2>3, <2>4 DEF InTime, Turns
<1>6. CASE ~Started
  <2>1. Fresh /\ MinTime # 0
    BY <1>6 DEF Punctual, Started
  <2>2. data'.time = MinTime /\ data'.cycle = 0 /\ data'.current = 0 /\ at = 0
    BY <1>2, <2>1 DEF Fresh, RunStart
  <2>3. Clock(data')
    BY <1>1, <2>2 DEF Clock
  <2>4. ASSUME NEW i \in 1 .. Len(Main) PROVE OnTimeAt(i, data', log', at', Collecting')
    <3>1. /\ data'.executing[Main[i]] = FALSE /\ data'.lastTime[Main[i]] = Never
          /\ data'.lastCycle[Main[i]] = Never
      BY <1>2, <2>1, MainEvents DEF Fresh, SameEvents
    <3>2. OnTimeAt(i, data', log, 0, FALSE)
      BY <1>2, <2>2, <3>1, FirstTurn
    <3> QED
      BY <1>2, <1>3, <2>2, <3>2
  <2> QED
    BY <1>4, <2>2, <2>3, <2>4 DEF InTime, Turns
<1> QED
  BY <1>5, <1>6

LEMMA StartCycleInTime ==
  ASSUME Control, InTime, StartCycle
  PROVE  InTime'
<1>1. /\ data \in Data /\ plan \in [0 .. PlanLength - 1 -> Requests] /\ at \in Nat
  BY DEF Control, Types
<1>2. /\ data' \in Data /\ data'.time = data.time
      /\ data.current # 0 => data'.dt = data.dt
      /\ data'.cycle = data.cycle /\ data'.current = data.current /\ SameEvents(data, data')
      /\ phase = "loop" /\ phase' = "check"
      /\ UNCHANGED <<stack, log, at>>
  BY <1>1, StartCycleEffect
<1>3. Collecting = FALSE /\ Collecting' = FALSE /\ phase' # "execute"
  BY <1>2 DEF Collecting
<1>4. \A i \in 1 .. Len(Main) : OnTimeAt(i, data, log, at, FALSE)
  BY <1>3 DEF InTime, Turns
<1>5. ASSUME NEW i \in 1 .. Len(Main) PROVE OnTimeAt(i, data', log', at', Collecting')
  <2>1. OnTimeAt(i, data', log, at, FALSE)
    BY <1>1, <1>2, <1>4, UnchangedTurn, AgreeSame DEF SameEvents
  <2> QED
    BY <1>2, <1>3, <2>1
<1>6. StepsExact(data')
  <2>1. CASE data.current = 0
    <3>1. Clock(data)
      BY DEF InTime
    <3>2. CycleDt > 0 /\ data'.dt = CycleDt
      BY <1>1, <2>1, CycleDtLeast, StartCycleEffect DEF StartCycle, Positive
    <3>3. \A i \in 1 .. Len(Main) : Exact(Main[i]) => StepExact(Main[i], data')
      BY <1>1, <1>4, <2>1, <3>1, NewStepExact
    <3> QED
      BY <3>2, <3>3 DEF StepsExact
  <2>2. CASE data.current # 0
    BY <1>2, <2>2, SameSteps DEF InTime, SameEvents
  <2> QED
    BY <2>1, <2>2
<1>7. Clock(data')
  BY <1>2, SameClocks DEF InTime
<1> QED
  BY <1>3, <1>5, <1>6, <1>7 DEF InTime, Turns

LEMMA EndCycleInTime ==
  ASSUME Control, InTime, EndCycle
  PROVE  InTime'
<1>1. data \in Data /\ at \in Nat
  BY DEF Control, Types
<1>2. /\ data' \in Data /\ data'.time = data.time + data.dt
      /\ data'.cycle = data.cycle + 1 /\ data'.current = 0 /\ SameEvents(data, data')
      /\ phase = "check" /\ data.current = Len(Main) /\ phase' = "loop"
      /\ UNCHANGED <<stack, log, at>>
  BY <1>1, EndCycleEffect
<1>3. StepsExact(data) /\ Clock(data)
  BY <1>2 DEF InTime, Cycling
<1>4. Collecting' = FALSE /\ phase' # "execute" /\ phase' \notin Cycling
  BY <1>2 DEF Collecting, Cycling
<1>5. ASSUME NEW i \in 1 .. Len(Main) PROVE OnTimeAt(i, data', log', at', Collecting')
  <2>1. OnTimeAt(i, data, log, at, Collecting) /\ (Exact(Main[i]) => StepExact(Main[i], data))
    BY <1>3 DEF InTime, Turns, StepsExact
  <2>2. OnTimeAt(i, data', log, at, FALSE)
    BY <1>1, <1>2, <1>3, <2>1, NextTurn
  <2> QED
    BY <1>2, <1>4, <2>2
<1>6. Clock(data')
  <2>1. /\ data.time \in Int /\ data.dt \in Int /\ data.dt > 0 /\ data.cycle \in Nat
        /\ MinTime \in Int /\ data.time >= MinTime
    BY <1>1, <1>3, DataFields, AttributeTypes DEF StepsExact, Clock
  <2>2. data.time + data.dt >= MinTime /\ data.cycle + 1 # 0
    BY <2>1
  <2> QED
    BY <1>2, <2>2 DEF Clock
<1> QED
  BY <1>2, <1>4, <1>5, <1>6 DEF InTime, Turns

LEMMA CheckInTime ==
  ASSUME Control, InTime, NEW clock \in 0 .. 2, CheckEvent(clock)
  PROVE  InTime'
<1>1. data \in Data /\ at \in Nat /\ clock \in Int
  BY DEF Control, Types
<1>2. /\ data' \in Data /\ data'.time = data.time /\ data'.dt = data.dt
      /\ data'.cycle = data.cycle /\ data'.current = data.current
      /\ data'.lastTime = data.lastTime /\ data'.lastCycle = data.lastCycle
      /\ data'.executing = data.executing
      /\ phase = "check" /\ data.current < Len(Main)
      /\ IF IsReadyForExec(NewForecast(clock)[Current])
         THEN stack' = <<Current>> /\ phase' = "execute"
         ELSE stack' = stack /\ phase' = "collect"
      /\ UNCHANGED <<log, at>>
  BY <1>1, CheckEventEffect DEF SameCycle, SameClock
<1>3. Clock(data) /\ Clock(data')
  BY <1>2, SameClocks DEF InTime
<1>4. StepsExact(data) /\ StepsExact(data')
  BY <1>2, SameSteps DEF InTime, Cycling
<1>5. \A i \in 1 .. Len(Main) : OnTimeAt(i, data, log, at, FALSE)
  BY <1>2 DEF InTime, Turns, Collecting
<1> DEFINE j == data.current + 1
<1>6. j \in 1 .. Len(Main) /\ Main[j] = Current /\ Current \in Event /\ data.current \in Nat
  BY <1>1, <1>2, CurrentEvent, DataFields DEF Current
<1>7. ASSUME Exact(Current)
      PROVE  IsReadyForExec(NewForecast(clock)[Current]) <=> data.time \in Due(Current)
  <2>1. NewForecast(clock)[Current] = Forecast(Current, data, above, clock)
    <3>1. Current \in CheckedNow
      BY <1>6, CheckedEvents DEF CheckedNow
    <3> QED
      BY <1>6, <3>1 DEF NewForecast
  <2>2. StepExact(Main[j], data) /\ OnTimeAt(j, data, log, at, FALSE) /\ Exact(Main[j])
    BY <1>4, <1>5, <1>6, <1>7 DEF StepsExact
  <2> HIDE DEF j
  <2>3. data.current + 1 = j
    BY DEF j
  <2>4. IsReadyForExec(Forecast(Main[j], data, above, clock)) <=> data.time \in Due(Main[j])
    BY <1>1, <1>3, <1>6, <2>2, <2>3, ReadyWhenDue
  <2> QED
    BY <1>6, <2>1, <2>4
<1>8. CASE IsReadyForExec(NewForecast(clock)[Current])
  <2>1. stack' = <<Current>> /\ phase' = "execute" /\ stack'[1] = Current
    BY <1>2, <1>8
  <2>2. ASSUME NEW i \in 1 .. Len(Main) PROVE OnTimeAt(i, data', log', at', Collecting')
    <3>1. Collecting' = FALSE
      BY <2>1 DEF Collecting
    <3>2. OnTimeAt(i, data', log, at, FALSE)
      BY <1>1, <1>2, <1>5, UnchangedTurn, AgreeSame
    <3> QED
      BY <1>2, <3>1, <3>2
  <2>3. Exact(stack'[1]) => data'.time \in Due(stack'[1])
    BY <1>2, <1>7, <1>8, <2>1
  <2> QED
    BY <1>3, <1>4, <2>2, <2>3 DEF InTime, Turns
<1>9. CASE ~IsReadyForExec(NewForecast(clock)[Current])
  <2>1. phase' = "collect"
    BY <1>2, <1>9
  <2>2. Exact(Main[j]) => data.time \notin Due(Main[j])
    BY <1>6, <1>7, <1>9
  <2>3. ASSUME NEW i \in 1 .. Len(Main) PROVE OnTimeAt(i, data', log', at', Collecting')
    <3>1. Collecting' = TRUE
      BY <2>1 DEF Collecting
    <3>2. CASE i = j
      <4>1. OnTimeAt(j, data, log, at, TRUE)
        BY <1>1, <1>5, <1>6, <2>2, TurnPassed
      <4>2. OnTimeAt(i, data', log, at, TRUE)
        BY <1>1, <1>2, <3>2, <4>1, UnchangedTurn, AgreeSame
      <4> QED
        BY <1>2, <3>1, <4>2
    <3>3. CASE i # j
      <4>1. OnTimeAt(i, data, log, at, FALSE)
        BY <1>5
      <4>2. ~(Exact(Main[i]) /\ data.executing[Main[i]])
        BY <3>3, <4>1 DEF OnTimeAt
      <4>3. Finished(i, data', TRUE) <=> Finished(i, data, FALSE)
        BY <1>2, <3>3 DEF Finished
      <4>4. OnTimeAt(i, data', log, at, TRUE)
        BY <1>2, <4>1, <4>2, <4>3, SameTurn
      <4> QED
        BY <1>2, <3>1, <4>4
    <3> QED
      BY <3>2, <3>3
  <2>4. phase' # "execute"
    BY <2>1
  <2> QED
    BY <1>3, <1>4, <2>3, <2>4 DEF InTime, Turns
<1> QED
  BY <1>8, <1>9

LEMMA TargetInTime ==
  ASSUME Control, InTime, ExecuteTarget
  PROVE  InTime'
<1> DEFINE j == data.current + 1
<1>1. /\ data \in Data /\ log \in Seq(Entry) /\ at \in 0 .. Len(log) /\ at \in Nat
      /\ stack \in Seq(Event) /\ stack # << >> /\ Nest /\ data.current < Len(Main)
  BY DEF Control, Types, Nest, Position, ExecuteTarget
<1>2. /\ data' \in Data /\ data'.time = data.time /\ data'.dt = data.dt
      /\ data'.cycle = data.cycle /\ data'.current = data.current
      /\ data'.lastTime = data.lastTime /\ data'.lastCycle = data.lastCycle
      /\ data'.executing = [data.executing EXCEPT ![Executing] = TRUE]
      /\ phase = "execute" /\ ~data.executing[Executing]
      /\ at' = at + 1 /\ log'[at'] = Execution(Executing)
      /\ UNCHANGED <<phase, stack>>
  BY <1>1, ExecuteTargetEffect DEF SameCycle, SameClock
<1>3. Agree(log', log, at)
  BY <1>1, ExecuteTargetEffect DEF Agree
<1>4. Executing \in Event /\ data.executing \in [Event -> BOOLEAN] /\ data.current \in Nat
  BY <1>1, TopOfStack, DataFields
<1>5. /\ \A x \in Event : x # Executing => data'.executing[x] = data.executing[x]
      /\ data'.executing[Executing] = TRUE
  BY <1>2, <1>4
<1>6. log'[at + 1].event = Executing /\ log'[at + 1].time = data.time
  BY <1>2 DEF Execution
<1>7. Clock(data')
  BY <1>2, SameClocks DEF InTime
<1>8. StepsExact(data')
  BY <1>2, SameSteps DEF InTime, Cycling
<1>9. Exact(stack'[1]) => data'.time \in Due(stack'[1])
  BY <1>2 DEF InTime
<1>10. Collecting = FALSE /\ Collecting' = FALSE
  BY <1>2 DEF Collecting
<1>11. ASSUME NEW i \in 1 .. Len(Main) PROVE OnTimeAt(i, data', log', at', Collecting')
  <2>1. OnTimeAt(i, data, log, at, FALSE) /\ Main[i] \in Event
    BY <1>10, MainEvents DEF InTime, Turns
  <2>2. CASE Main[i] = Executing
    <3>1. Len(stack) = 1 /\ i = data.current + 1
      BY <1>1, <2>2, TopInMain
    <3>2. stack[1] = Main[i]
      BY <2>2, <3>1 DEF Executing
    <3>3. Exact(Main[i]) => ~data.executing[Main[i]] /\ data.time \in Due(Main[i])
      BY <1>2, <2>2, <3>2 DEF InTime
    <3>4. SameCycle(data, data')
      BY <1>2 DEF SameCycle, SameClock
    <3>5. data'.executing[Main[i]] /\ log'[at + 1].event = Main[i] /\ log'[at + 1].time = data.time
      BY <1>5, <1>6, <2>2
    <3> DEFINE k == log'  l == log  n == at
    <3>6. /\ Agree(k, l, n) /\ n \in Nat /\ k[n + 1].event = Main[i] /\ k[n + 1].time = data.time
          /\ OnTimeAt(i, data, l, n, FALSE)
      BY <1>1, <1>3, <2>1, <3>5
    <3> HIDE DEF k, l, n
    <3>7. OnTimeAt(i, data', k, n + 1, FALSE)
      BY <1>1, <1>2, <3>1, <3>3, <3>4, <3>5, <3>6, TargetEnded
    <3> QED
      BY <1>2, <1>10, <3>7 DEF k, n
  <2>3. CASE Main[i] # Executing
    <3> DEFINE k == log'  l == log  n == at
    <3>1. k[n + 1].event # Main[i] /\ Agree(k, l, n) /\ n \in Nat
      BY <1>1, <1>3, <1>6, <2>3
    <3>2. OnTimeAt(i, data, l, n, FALSE)
      BY <2>1
    <3>3. data'.executing[Main[i]] = data.executing[Main[i]]
      BY <1>5, <2>1, <2>3
    <3> HIDE DEF k, l, n
    <3>4. TimesTo(k, n + 1, Main[i]) = TimesTo(l, n, Main[i])
      BY ONLY <3>1, TimesKept
    <3>5. Finished(i, data', FALSE) <=> Finished(i, data, FALSE)
      BY <1>2 DEF Finished
    <3>6. Exact(Main[i]) /\ data.executing[Main[i]] => i = data'.current + 1 /\ ~FALSE
      BY <1>2, <3>2 DEF OnTimeAt
    <3>7. OnTimeAt(i, data', k, n + 1, FALSE)
      BY <1>2, <3>2, <3>3, <3>4, <3>5, <3>6, SameTurn
    <3> QED
      BY <1>2, <1>10, <3>7 DEF k, n
  <2> QED
    BY <2>2, <2>3
<1> QED
  BY <1>7, <1>8, <1>9, <1>11 DEF InTime, Turns

LEMMA SubEventInTime ==
  ASSUME Control, InTime, ExecuteSubEvent
  PROVE  InTime'
<1>1. /\ data \in Data /\ at \in Nat
      /\ stack \in Seq(Event) /\ stack # << >>
  BY DEF Control, Types, Nest, Position, ExecuteSubEvent
<1>2. /\ data'.time = data.time /\ data'.dt = data.dt
      /\ data'.cycle = data.cycle /\ data'.current = data.current
      /\ data'.lastTime = data.lastTime /\ data'.lastCycle = data.lastCycle
      /\ data'.executing = data.executing
      /\ phase = "execute" /\ UNCHANGED <<phase, log, at>>
      /\ stack' = stack \/ (stack' = Append(stack, NextSub) /\ NextSub \in Event)
  BY <1>1, ExecuteSubEventEffect DEF SameCycle, SameClock
<1>3. stack'[1] = stack[1]
  <2>1. 1 \in 1 .. Len(stack)
    BY <1>1, TopOfStack
  <2> QED
    BY <1>1, <1>2, <2>1, AppendProperties
<1>4. Clock(data')
  BY <1>2, SameClocks DEF InTime
<1>5. StepsExact(data')
  BY <1>2, SameSteps DEF InTime, Cycling
<1>6. Exact(stack'[1]) => data'.time \in Due(stack'[1])
  BY <1>2, <1>3 DEF InTime
<1>7. Collecting = FALSE /\ Collecting' = FALSE
  BY <1>2 DEF Collecting
<1>8. ASSUME NEW i \in 1 .. Len(Main) PROVE OnTimeAt(i, data', log', at', Collecting')
  <2>1. OnTimeAt(i, data, log, at, FALSE)
    BY <1>7 DEF InTime, Turns
  <2>2. OnTimeAt(i, data', log, at, FALSE)
    BY <1>1, <1>2, <2>1, UnchangedTurn, AgreeSame
  <2> QED
    BY <1>2, <1>7, <2>2
<1> QED
  BY <1>4, <1>5, <1>6, <1>8 DEF InTime, Turns

LEMMA ReturnInTime ==
  ASSUME Control, InTime, ReturnFromExecute
  PROVE  InTime'
<1>1. /\ data \in Data /\ at \in Nat /\ Nest /\ data.current < Len(Main)
      /\ stack \in Seq(Event) /\ stack # << >> /\ data.current \in Nat
      /\ Len(stack) \in Nat /\ Len(stack) >= 1 /\ 1 \in 1 .. Len(stack) /\ Executing \in Event
  <2>1. /\ data \in Data /\ at \in Nat /\ Nest /\ data.current < Len(Main)
        /\ stack \in Seq(Event) /\ stack # << >>
    BY DEF Control, Types, Nest, Position, ReturnFromExecute
  <2> QED
    BY <2>1, TopOfStack, DataFields
<1>2. /\ data' \in Data /\ SameCycle(data, data')
      /\ data'.time = data.time /\ data'.dt = data.dt
      /\ data'.cycle = data.cycle /\ data'.current = data.current
      /\ data'.executing = [data.executing EXCEPT ![Executing] = FALSE]
      /\ data'.lastTime = [data.lastTime EXCEPT ![Executing] = data.time]
      /\ data'.lastCycle = [data.lastCycle EXCEPT ![Executing] = data.cycle]
      /\ phase = "execute" /\ TargetExecuted(Executing)
      /\ stack' = SubSeq(stack, 1, Len(stack) - 1)
      /\ phase' = IF Len(stack) = 1 THEN "collect" ELSE phase
      /\ UNCHANGED <<log, at>>
  BY <1>1, Nested, ReturnEffect DEF SameCycle, SameClock
<1>3. /\ data.executing \in [Event -> BOOLEAN] /\ data.lastTime \in [Event -> Int]
      /\ data.lastCycle \in [Event -> Int]
  BY <1>1, DataFields
<1>4. \A x \in Event : x # Executing =>
          /\ data'.executing[x] = data.executing[x] /\ data'.lastTime[x] = data.lastTime[x]
          /\ data'.lastCycle[x] = data.lastCycle[x]
  BY <1>2, <1>3
<1>5. /\ data'.executing[Executing] = FALSE /\ data'.lastTime[Executing] = data.time
      /\ data'.lastCycle[Executing] = data.cycle
  BY <1>1, <1>2, <1>3
<1>6. /\ Clock(data') /\ StepsExact(data)
      /\ \A i \in 1 .. Len(Main) : OnTimeAt(i, data, log, at, FALSE) /\ Main[i] \in Event
  BY <1>2, SameClocks, MainEvents DEF InTime, Cycling, Turns, Collecting
<1>7. \A i \in 1 .. Len(Main) : Main[i] = Executing =>
          /\ Len(stack) = 1 /\ i = data.current + 1
          /\ Exact(Main[i]) => data.executing[Main[i]]
  <2> SUFFICES ASSUME NEW i \in 1 .. Len(Main), Main[i] = Executing
               PROVE  /\ Len(stack) = 1 /\ i = data.current + 1
                      /\ Exact(Main[i]) => data.executing[Main[i]]
    OBVIOUS
  <2>1. Exact(Main[i]) => data.executing[Main[i]]
    BY <1>2 DEF TargetExecuted, Exact
  <2> QED
    BY <1>1, <2>1, TopInMain
<1>8. StepsExact(data')
  <2>1. data'.dt > 0
    BY <1>2, <1>6 DEF StepsExact
  <2>2. ASSUME NEW i \in 1 .. Len(Main), Exact(Main[i]) PROVE StepExact(Main[i], data')
    <3>1. StepExact(Main[i], data) /\ OnTimeAt(i, data, log, at, FALSE)
      BY <1>6, <2>2 DEF StepsExact
    <3>2. CASE Main[i] = Executing
      BY <1>1, <1>2, <1>5, <1>7, <2>2, <3>1, <3>2, StepAfterTurn
    <3>3. CASE Main[i] # Executing
      BY <1>2, <1>4, <1>6, <3>1, <3>3, SameStep
    <3> QED
      BY <3>2, <3>3
  <2> QED
    BY <2>1, <2>2 DEF StepsExact
<1>9. CASE Len(stack) = 1
  <2>1. phase' = "collect" /\ Collecting' = TRUE
    BY <1>2, <1>9 DEF Collecting
  <2>2. Executing = Current
    BY <1>1, <1>9, Nested DEF Executing
  <2>3. ASSUME NEW i \in 1 .. Len(Main) PROVE OnTimeAt(i, data', log', at', Collecting')
    <3>1. OnTimeAt(i, data, log, at, FALSE) /\ Main[i] \in Event
      BY <1>6
    <3>2. CASE Main[i] = Executing
      <4>1. /\ data'.executing[Main[i]] = FALSE /\ data'.lastTime[Main[i]] = data.time
            /\ data'.lastCycle[Main[i]] = data.cycle
            /\ data.current + 1 = i /\ (Exact(Main[i]) => data.executing[Main[i]])
        BY <1>5, <1>7, <3>2
      <4>2. OnTimeAt(i, data', log, at, TRUE)
        BY <1>1, <1>2, <3>1, <4>1, TurnDone
      <4> QED
        BY <1>2, <2>1, <4>2
    <3>3. CASE Main[i] # Executing
      <4>1. i # data.current + 1
        BY <2>2, <3>3 DEF Current
      <4>2. ~(Exact(Main[i]) /\ data.executing[Main[i]])
        BY <3>1, <4>1 DEF OnTimeAt
      <4>3. Finished(i, data', TRUE) <=> Finished(i, data, FALSE)
        BY <1>2, <4>1 DEF Finished
      <4>4. OnTimeAt(i, data', log, at, TRUE)
        BY <1>2, <1>4, <3>1, <3>3, <4>2, <4>3, SameTurn
      <4> QED
        BY <1>2, <2>1, <4>4
    <3> QED
      BY <3>2, <3>3
  <2> QED
    BY <1>6, <1>8, <2>1, <2>3 DEF InTime, Turns
<1>10. CASE Len(stack) # 1
  <2>1. phase' = "execute" /\ Collecting' = FALSE
    BY <1>2, <1>10 DEF Collecting
  <2>2. ASSUME NEW i \in 1 .. Len(Main) PROVE OnTimeAt(i, data', log', at', Collecting')
    <3>1. Main[i] # Executing
      BY <1>7, <1>10
    <3>2. OnTimeAt(i, data', log, at, FALSE)
      BY <1>1, <1>2, <1>4, <1>6, <3>1, UnchangedTurn, AgreeSame
    <3> QED
      BY <1>2, <2>1, <3>2
  <2>3. stack'[1] = stack[1]
    <3>1. Len(stack) - 1 \in Nat /\ 1 \in 1 .. Len(stack) - 1
      <4>1. \A n \in Nat : n >= 1 /\ n # 1 => n - 1 \in Nat /\ 1 \in 1 .. n - 1
        OBVIOUS
      <4> QED
        BY <1>1, <1>10, <4>1
    <3>2. SubSeq(stack, 1, Len(stack) - 1)[1] = stack[1]
      BY <1>1, <3>1
    <3> QED
      BY <1>2, <3>2
  <2>4. Exact(stack'[1]) => data'.time \in Due(stack'[1])
    BY <1>2, <2>3 DEF InTime
  <2> QED
    BY <1>6, <1>8, <2>2, <2>4 DEF InTime, Turns
<1> QED
  BY <1>9, <1>10

LEMMA CollectInTime ==
  ASSUME Control, InTime, CollectExitFlag
  PROVE  InTime'
<1>1. /\ data \in Data /\ at \in Nat /\ data.current < Len(Main) /\ data.current \in Nat
      /\ phase = "collect"
  BY DataFields DEF Control, Types, Position, CollectExitFlag
<1>2. /\ data' \in Data /\ data'.time = data.time /\ data'.dt = data.dt /\ data'.cycle = data.cycle
      /\ data'.current = data.current + 1 /\ SameEvents(data, data')
      /\ phase' # "execute" /\ phase' # "collect"
      /\ UNCHANGED <<stack, log, at>>
  BY <1>1, CollectExitFlagEffect DEF SameClock
<1>3. Collecting = TRUE /\ Collecting' = FALSE
  BY <1>1, <1>2 DEF Collecting
<1>4. Clock(data') /\ StepsExact(data')
  BY <1>1, <1>2, SameClocks, SameSteps DEF InTime, Cycling, SameEvents
<1>5. ASSUME NEW i \in 1 .. Len(Main) PROVE OnTimeAt(i, data', log', at', Collecting')
  <2>1. OnTimeAt(i, data, log, at, TRUE)
    BY <1>3 DEF InTime, Turns
  <2>2. ~(Exact(Main[i]) /\ data.executing[Main[i]])
    BY <2>1 DEF OnTimeAt
  <2>3. Finished(i, data', FALSE) <=> Finished(i, data, TRUE)
    BY <1>1, <1>2 DEF Finished
  <2>4. OnTimeAt(i, data', log, at, FALSE)
    BY <1>2, <2>1, <2>2, <2>3, SameTurn DEF SameEvents
  <2> QED
    BY <1>2, <1>3, <2>4
<1> QED
  BY <1>2, <1>4, <1>5 DEF InTime, Turns

\* Where restarts are written, the time starts from 0.
RestartsFromZero == MinTime = 0 \/ \A e \in Event : Target(e) # "restart"

LEMMA NextInTime ==
  ASSUME Control, InTime, Next, ~Run, ~Restart
  PROVE  InTime'
<1>1. CASE Finish \/ Ended
  <2>1. UNCHANGED <<data, log, at>> /\ phase' = "done"
    BY <1>1 DEF Finish, Ended, vars
  <2>2. phase = "loop" \/ phase = "done"
    BY <1>1 DEF Finish, Ended
  <2>3. Collecting = FALSE /\ Collecting' = FALSE
    BY <2>1, <2>2 DEF Collecting
  <2>4. Clock(data') /\ Turns(data', log', at', Collecting')
    BY <2>1, <2>3 DEF InTime
  <2>5. data'.current # 0 => StepsExact(data')
    BY <2>1 DEF InTime
  <2> QED
    BY <2>1, <2>4, <2>5 DEF InTime, Cycling
<1>2. CASE StartCycle \/ EndCycle \/ CollectExitFlag
  BY <1>2, StartCycleInTime, EndCycleInTime, CollectInTime
<1>3. CASE \E clock \in 0 .. 2 : CheckEvent(clock)
  BY <1>3, CheckInTime
<1>4. CASE ExecuteTarget \/ ExecuteSubEvent \/ ReturnFromExecute
  BY <1>4, TargetInTime, SubEventInTime, ReturnInTime
<1> QED
  BY <1>1, <1>2, <1>3, <1>4 DEF Next, Step

LEMMA SameTurns ==
  ASSUME NEW d, NEW k, NEW l, NEW n \in Nat, Agree(k, l, n), Turns(d, l, n, FALSE)
  PROVE  Turns(d, k, n, FALSE)
<1> SUFFICES ASSUME NEW i \in 1 .. Len(Main) PROVE OnTimeAt(i, d, k, n, FALSE)
  BY DEF Turns
<1>1. OnTimeAt(i, d, l, n, FALSE)
  BY DEF Turns
<1> QED
  BY <1>1, UnchangedTurn

LEMMA FileInTimeKept ==
  ASSUME Control, Punctual, Started, InTime', Next
  PROVE  FileInTime'
<1>1. at \in Nat /\ (file # NoFile => file.at \in 0 .. at)
  BY DEF Control, Types
<1>2. Agree(log', log, at)
  BY LogKept
<1>3. CASE file' = file
  <2> SUFFICES ASSUME file # NoFile
               PROVE  /\ Clock(file.data) /\ Turns(file.data, log', file.at, FALSE)
                      /\ file.data.current # 0 => StepsExact(file.data)
    BY <1>3 DEF FileInTime
  <2>1. file.at \in Nat /\ Agree(log', log, file.at)
    <3>1. \A j \in 1 .. file.at : j \in 1 .. at
      BY <1>1
    <3> QED
      BY <1>1, <1>2, <3>1 DEF Agree
  <2>2. Turns(file.data, log, file.at, FALSE)
    BY DEF Punctual, FileInTime
  <2> DEFINE k == log'  l == log  n == file.at  d == file.data
  <2>3. n \in Nat /\ Agree(k, l, n) /\ Turns(d, l, n, FALSE)
    BY <2>1, <2>2
  <2> HIDE DEF k, l, n, d
  <2>4. Turns(d, k, n, FALSE)
    BY <2>3, SameTurns
  <2> QED
    BY <2>4 DEF Punctual, FileInTime, k, n, d
<1>4. CASE ~Restart /\ file' # file
  <2>1. CASE /\ file' = [at |-> at', data |-> data'] /\ phase' = phase /\ phase = "execute"
    <3>1. file'.at = at' /\ file'.data = data' /\ Collecting' = FALSE
      BY <2>1 DEF Collecting
    <3>2. /\ Clock(data') /\ Turns(data', log', at', FALSE)
          /\ data'.current # 0 => StepsExact(data')
      BY <3>1 DEF InTime
    <3> QED
      BY <3>1, <3>2 DEF FileInTime
  <2>2. CASE file' = [at |-> at, data |-> data] /\ phase' = "done" /\ UNCHANGED <<data, at>>
    <3>1. file'.at = at' /\ file'.data = data' /\ Collecting' = FALSE
      BY <2>2 DEF Collecting
    <3>2. /\ Clock(data') /\ Turns(data', log', at', FALSE)
          /\ data'.current # 0 => StepsExact(data')
      BY <3>1 DEF InTime
    <3> QED
      BY <3>1, <3>2 DEF FileInTime
  <2> QED
    BY <1>4, <2>1, <2>2, FileEffect
<1>5. CASE Restart
  BY <1>3, <1>5 DEF Restart
<1> QED
  BY <1>3, <1>4, <1>5

LEMMA PunctualStep ==
  ASSUME RestartsFromZero, Control, Punctual, [Next]_vars
  PROVE  Punctual'
<1>1. CASE UNCHANGED vars
  BY <1>1 DEF Punctual, Started, Fresh, InTime, FileInTime, Collecting, vars
<1> SUFFICES ASSUME Next PROVE Punctual'
  BY <1>1
<1>2. MinTime # 0 => file' = NoFile
  <2> SUFFICES ASSUME MinTime # 0 PROVE file' = NoFile
    OBVIOUS
  <2>1. file = NoFile /\ ~\E e \in Event : Target(e) = "restart"
    BY DEF Punctual, RestartsFromZero
  <2>2. ~Restart
    BY <2>1 DEF Restart
  <2> QED
    BY <2>1, <2>2, FileEffect
<1>3. CASE Restart
  <2>1. MinTime = 0 /\ Started'
    <3>1. MinTime = 0
      BY <1>3 DEF Restart, Punctual
    <3> QED
      BY <3>1 DEF Started
  <2>2. /\ file # NoFile /\ data' = file.data /\ at' = file.at
        /\ phase' = "ready" /\ UNCHANGED <<file, log>>
    BY <1>3, RestartEffect
  <2>3. Collecting' = FALSE
    BY <2>2 DEF Collecting
  <2>4. InTime'
    <3>1. /\ Clock(data') /\ Turns(data', log', at', FALSE)
          /\ data'.current # 0 => StepsExact(data')
      BY <2>2 DEF Punctual, FileInTime
    <3> QED
      BY <2>2, <2>3, <3>1 DEF InTime, Cycling
  <2>5. FileInTime'
    BY <2>2 DEF Punctual, FileInTime
  <2> QED
    BY <1>2, <2>1, <2>4, <2>5 DEF Punctual
<1>4. CASE Run
  <2>1. InTime' /\ Started'
    BY <1>4, RunInTime DEF Run, Started
  <2>2. FileInTime'
    <3>1. CASE Started
      BY <2>1, <3>1, FileInTimeKept
    <3>2. CASE ~Started
      <4>1. file' = NoFile
        BY <1>2, <3>2 DEF Started
      <4> QED
        BY <4>1 DEF FileInTime, NoFile
    <3> QED
      BY <3>1, <3>2
  <2> QED
    BY <1>2, <2>1, <2>2 DEF Punctual
<1>5. CASE ~Run /\ ~Restart
  <2>1. Started
    <3>1. phase # "ready"
      BY <1>5 DEF Next, Step, StartCycle, EndCycle, CollectExitFlag, Finish, CheckEvent,
                  ExecuteTarget, ExecuteSubEvent, ReturnFromExecute, Ended
    <3> QED
      BY <3>1 DEF Started
  <2>2. InTime'
    BY <1>5, <2>1, NextInTime DEF Punctual
  <2>3. Started'
    <3>1. phase' # "ready"
      <4>1. phase # "ready"
        BY <1>5 DEF Next, Step, StartCycle, EndCycle, CollectExitFlag, Finish, CheckEvent,
                    ExecuteTarget, ExecuteSubEvent, ReturnFromExecute, Ended
      <4> QED
        BY <1>5, <4>1 DEF Next, Step, StartCycle, EndCycle, CollectExitFlag, Finish, CheckEvent,
                    ExecuteTarget, ExecuteSubEvent, ReturnFromExecute, Ended, vars
    <3> QED
      BY <3>1 DEF Started
  <2>4. FileInTime'
    BY <2>1, <2>2, FileInTimeKept
  <2> QED
    BY <1>2, <2>2, <2>3, <2>4 DEF Punctual
<1> QED
  BY <1>3, <1>4, <1>5

LEMMA PunctualInitially ==
  ASSUME Init
  PROVE  Punctual
<1>1. /\ file = NoFile /\ phase = "ready" /\ at = 0 /\ data.time = 0 /\ data.cycle = 0
      /\ data.current = 0 /\ data.lastTime = [e \in Event |-> Never]
      /\ data.lastCycle = [e \in Event |-> Never] /\ data.executing = [e \in Event |-> FALSE]
      /\ data \in Data
  <2>1. data \in Data
    BY ControlInitially DEF Control, Types
  <2> QED
    BY <2>1 DEF Init
<1>2. Fresh
  BY <1>1 DEF Fresh
<1>3. FileInTime
  BY <1>1 DEF FileInTime
<1>4. ASSUME MinTime = 0 PROVE InTime
  <2>1. Clock(data)
    BY <1>1, <1>4 DEF Clock
  <2>2. Collecting = FALSE
    BY <1>1 DEF Collecting
  <2>3. ASSUME NEW i \in 1 .. Len(Main) PROVE OnTimeAt(i, data, log, at, FALSE)
    <3>1. /\ data.executing[Main[i]] = FALSE /\ data.lastTime[Main[i]] = Never
          /\ data.lastCycle[Main[i]] = Never /\ data.time = MinTime
      BY <1>1, <1>4, MainEvents
    <3> QED
      BY <1>1, <3>1, FirstTurn
  <2> QED
    BY <1>1, <2>1, <2>2, <2>3 DEF InTime, Turns, Cycling
<1> QED
  BY <1>1, <1>2, <1>3, <1>4 DEF Punctual, Started

(* The events of the main loop that target exact times execute at all of     *)
(* their due times and at no other (PeriodicEvent.cpp, SoloEvent.cpp),       *)
(* whatever the other events ask for, wherever processes end and resume.     *)
THEOREM ExecutesOnTime ==
  ASSUME RestartsFromZero
  PROVE  Spec => []OnTime
<1>1. Punctual => OnTime
  <2> SUFFICES ASSUME Punctual, BetweenCycles, NEW e \in Range(Main), Target(e) # "none"
               PROVE  /\ ExactPeriodic(e) => ExecutedWhenDue(e, DuePeriodic(e))
                      /\ ExactSolo(e) => ExecutedWhenDue(e, DueSolo(e))
    BY DEF OnTime
  <2>1. PICK i \in 1 .. Len(Main) : e = Main[i]
    BY MainEvents
  <2>2. phase \in {"loop", "done"} /\ data.current = 0 /\ e \in Event /\ ~data.executing[e]
    BY MainEvents DEF BetweenCycles
  <2>3. OnTimeAt(i, data, log, at, FALSE)
    <3>1. Started /\ Collecting = FALSE
      BY <2>2 DEF Started, Collecting
    <3> QED
      BY <3>1 DEF Punctual, InTime, Turns
  <2>4. ~Begun(i, data, FALSE)
    BY <2>1, <2>2 DEF Begun, Finished
  <2>5. Times(e) = TimesTo(log, at, e)
    BY DEF Times, TimesTo
  <2>6. ExactPeriodic(e) \/ ExactSolo(e) => Times(e) = {t \in Due(e) : t < data.time}
    BY <2>1, <2>3, <2>4, <2>5 DEF OnTimeAt, Exact
  <2> QED
    BY <2>2, <2>6, DueOf DEF ExecutedWhenDue
<1>2. Init => Punctual
  BY PunctualInitially
<1>3. Control /\ Punctual /\ [Next]_vars => Punctual'
  BY PunctualStep
<1> QED
  BY <1>1, <1>2, <1>3, ControlAlways, PTL DEF Spec
-----------------------------------------------------------------------------
(* Halt events.                                                              *)

\* An early return resets the exit flag of the loop, not those of the events:
\* run() begins again without it.
HaltsRunThrough == ~ /\ \E h \in Event : Attributes[h].kind = "halt"
                     /\ \E p \in Event : Target(p) = "python"

LEMMA CheckedBelow ==
  ASSUME NEW time
  PROVE  \A e \in Event : Checked(e, time) \subseteq Subtree[e]
<1> DEFINE P == {e \in Event : Checked(e, time) \subseteq Subtree[e]}
<1>1. ASSUME NEW e \in Event, Children(e) \subseteq P PROVE e \in P
  <2>1. UNION {Checked(s, time) : s \in Children(e)} \subseteq Subtree[e]
    BY <1>1, Subtrees
  <2>2. \/ Checked(e, time) = {e} \cup UNION {Checked(s, time) : s \in Children(e)}
        \/ Checked(e, time) = {e}
    BY CheckedEvents
  <2> QED
    BY <2>1, <2>2, SubtreesBelow
<1> HIDE DEF P
<1>2. Event \subseteq P
  BY <1>1, TreeInduction
<1> QED
  BY <1>2 DEF P

\* A flag is known to run(), or it is below the current event, whose flags
\* run() collects next.
Halting ==
    /\ \A x \in Event : exitFlags[x] =>
        /\ phase # "ready" /\ \E h \in Event : Attributes[h].kind = "halt"
        /\ exitFlag \/ (phase \in {"execute", "collect"} /\ x \in Subtree[Current])
    /\ early \/ phase = "returned" => \E p \in Event : Target(p) = "python"

LEMMA HaltingStep ==
  ASSUME HaltsRunThrough, Control, Halting, [Next]_vars
  PROVE  Halting'
<1>1. /\ data \in Data /\ plan \in [0 .. PlanLength - 1 -> Requests]
      /\ log \in Seq(Entry) /\ at \in 0 .. Len(log) /\ stack \in Seq(Event)
      /\ phase = "execute" => stack # << >>
      /\ phase = "collect" => data.current < Len(Main)
      /\ exitFlags \in [Event -> BOOLEAN]
  BY DEF Control, Types, Nest, Position
<1>2. CASE Run
  <2>1. /\ phase \in {"ready", "returned"} /\ phase' = "loop"
        /\ UNCHANGED <<exitFlags, early>>
    BY <1>1, <1>2, RunEffect
  <2>2. \A x \in Event : ~exitFlags[x]
    BY <2>1 DEF Halting, HaltsRunThrough
  <2> QED
    BY <2>1, <2>2 DEF Halting
<1>3. CASE StartCycle \/ EndCycle \/ Finish
  <2>1. /\ phase \in {"loop", "check"} /\ phase' \in {"loop", "check", "done"}
        /\ UNCHANGED <<exitFlags, exitFlag, early>>
    BY <1>3 DEF StartCycle, EndCycle, Finish
  <2> QED
    BY <2>1 DEF Halting
<1>4. CASE CollectExitFlag
  <2>1. /\ phase = "collect" /\ data.current < Len(Main)
    BY <1>1, <1>4 DEF CollectExitFlag
  <2>2. /\ exitFlags' = [x \in Event |-> IF x \in Subtree[Current] THEN ExitFlagBelow(x) ELSE exitFlags[x]]
        /\ exitFlag' = (exitFlag \/ ExitFlagBelow(Current))
        /\ phase' = IF early THEN "returned" ELSE "check"
        /\ early' = FALSE
    BY <1>1, <1>4, <2>1, CollectExitFlagEffect
  <2>3. /\ Subtree[Current] \subseteq Event /\ \A x \in Event : Subtree[x] \subseteq Event
    BY <1>1, <2>1, CurrentEvent, Subtrees
  <2>4. ASSUME NEW x \in Event, exitFlags'[x]
        PROVE  exitFlag' /\ \E h \in Event : Attributes[h].kind = "halt"
    <3>1. PICK d \in Event : exitFlags[d]
      BY <2>2, <2>3, <2>4 DEF ExitFlagBelow
    <3>2. \E h \in Event : Attributes[h].kind = "halt"
      BY <3>1 DEF Halting
    <3>3. PICK c \in Event : exitFlags[c] /\ (x \in Subtree[Current] \/ c = x)
      BY <2>2, <2>3, <2>4, <3>1
    <3>4. exitFlag \/ c \in Subtree[Current]
      BY <3>3 DEF Halting
    <3>5. exitFlag'
      BY <2>2, <3>3, <3>4 DEF ExitFlagBelow
    <3> QED
      BY <3>2, <3>5
  <2>5. early' \/ phase' = "returned" => \E p \in Event : Target(p) = "python"
    BY <2>2 DEF Halting
  <2> QED
    BY <2>2, <2>4, <2>5 DEF Halting
<1>5. CASE \E clock \in 0 .. 2 : CheckEvent(clock)
  <2>1. PICK clock \in 0 .. 2 : CheckEvent(clock)
    BY <1>5
  <2>2. clock \in Int
    OBVIOUS
  <2>3. /\ phase = "check" /\ data.current < Len(Main) /\ data'.current = data.current
        /\ exitFlags' = [x \in Event |-> exitFlags[x] \/
                /\ x \in CheckedNow /\ Attributes[x].kind = "halt"
                /\ IsActive(x, data.time) /\ IsReadyForExec(NewForecast(clock)[x])]
        /\ phase' \in {"execute", "collect"} /\ UNCHANGED <<exitFlag, early>>
    BY <1>1, <2>1, <2>2, CheckEventEffect DEF SameCycle
  <2>4. CheckedNow \subseteq Subtree[Current]
    BY <1>1, <2>3, CurrentEvent, CheckedBelow DEF CheckedNow
  <2>5. Current' = Current
    BY <2>3 DEF Current
  <2>6. ASSUME NEW x \in Event, exitFlags'[x]
        PROVE  /\ \E h \in Event : Attributes[h].kind = "halt"
               /\ exitFlag \/ x \in Subtree[Current]
    BY <2>3, <2>4, <2>6 DEF Halting
  <2> QED
    BY <2>3, <2>5, <2>6 DEF Halting
<1>6. CASE ExecuteTarget
  <2>1. phase = "execute"
    BY <1>6 DEF ExecuteTarget
  <2>2. /\ data'.current = data.current /\ early' = (Target(Executing) = "python")
        /\ UNCHANGED <<exitFlags, exitFlag, phase>>
    BY <1>1, <1>6, <2>1, ExecuteTargetEffect DEF SameCycle
  <2>3. Executing \in Event /\ Current' = Current
    BY <1>1, <2>1, <2>2, TopOfStack DEF Current
  <2> QED
    BY <2>1, <2>2, <2>3 DEF Halting
<1>7. CASE ExecuteSubEvent
  <2>1. phase = "execute"
    BY <1>7 DEF ExecuteSubEvent
  <2>2. /\ data' = data \/ SameCycle(data, data')
        /\ UNCHANGED <<exitFlags, exitFlag, phase, early>>
    BY <1>1, <1>7, <2>1, ExecuteSubEventEffect
  <2>3. Current' = Current
    BY <2>2 DEF Current, SameCycle
  <2> QED
    BY <2>2, <2>3 DEF Halting
<1>8. CASE ReturnFromExecute
  <2>1. phase = "execute" /\ stack # << >>
    BY <1>1, <1>8 DEF ReturnFromExecute
  <2>2. Len(stack) > 1 => Caller # Executing
    BY <2>1, Nested DEF Control
  <2>3. /\ data'.current = data.current /\ phase' \in {"execute", "collect"}
        /\ UNCHANGED <<exitFlags, exitFlag, early>>
    BY <1>1, <1>8, <2>1, <2>2, ReturnEffect DEF SameCycle
  <2>4. Current' = Current
    BY <2>3 DEF Current
  <2> QED
    BY <2>1, <2>3, <2>4 DEF Halting
<1>9. CASE Restart
  BY <1>9, RestartEffect DEF Halting
<1>10. CASE UNCHANGED vars
  BY <1>10 DEF Halting, Current, vars
<1> QED
  BY <1>2, <1>3, <1>4, <1>5, <1>6, <1>7, <1>8, <1>9, <1>10 DEF Next, Step, Ended

(* After a cycle in which a halt event has triggered, wherever it is in the  *)
(* tree of events, none begins (HaltEvent.cpp, EventBase::getExitFlag,       *)
(* EventManager::run).                                                       *)
THEOREM HaltEndsLoop ==
  ASSUME HaltsRunThrough
  PROVE  Spec => HaltsWithCycle
<1>1. Init => Halting
  BY DEF Init, Halting
<1>2. Control /\ Halting /\ [Next]_vars => Halting'
  BY HaltingStep
<1>3. Halting => (StartCycle /\ data.current = 0 => \A e \in Event : ~exitFlags[e])
  BY DEF Halting, StartCycle, Continues
<1>4. Halting /\ [Next]_vars => [StartCycle /\ data.current = 0 => \A e \in Event : ~exitFlags[e]]_vars
  BY <1>3
<1> QED
  BY <1>1, <1>2, <1>4, ControlAlways, PTL DEF Spec, HaltsWithCycle
-----------------------------------------------------------------------------
(* Events whose execution a restart file holds in the middle.                *)

\* Halt events stand alone, and no restart output is in the first event of the
\* loop: a process that resumes in that event begins the cycle again.
HaltsAlone == \A e \in Event : Attributes[e].kind = "halt" => Target(e) = "none" /\ Subs(e) = << >>
RestartsAfterFirst == Len(Main) > 0 => \A e \in Subtree[Main[1]] : Target(e) # "restart"

\* What the events whose execution has begun are, and above them; what the
\* events would forecast when they were checked again.
Half(d) == {e \in Event : d.executing[e] \/ d.sub[e] # 0}
Unfinished(e, d) == Subtree[e] \cap Half(d) # {}
Seen(d) == Checked(Main[d.current + 1], d.time)
TargetDone(e, d) == Target(e) = "none" \/ d.executing[e]

RemainsReady(e, d, a) ==
    /\ IsReadyForExec(d.forecast[e])
    /\ e \in Seen(d) => IsReadyForExec(Forecast(e, d, a, 1))

\* The unfinished events are one below the other, from the current event on,
\* and are entered again when the current event is executed again.
Path(d, a) ==
    /\ \A e \in Half(d) : d.current < Len(Main) /\ e \in Subtree[Main[d.current + 1]]
    /\ \A e \in Event : d.executing[e] => Target(e) # "none"
    /\ \A e \in Event : Unfinished(e, d) => RemainsReady(e, d, a)
    /\ \A p \in Event : \A c \in Children(p) :
          Unfinished(c, d) => Enters(p, d, c) /\ TargetDone(p, d)
PathKept(d, a) == Path(d, a) /\ (d.current = 0 => Half(d) = {})

\* An event that the sub-events of those in execution have left behind.
Behind(e, st, d) ==
    \E k \in 1 .. Len(st) : \E i \in 1 .. d.sub[st[k]] : e \in Subtree[Subs(st[k])[i]]

OnStack ==
    /\ \A i \in 1 .. Len(stack) - 1 : TargetDone(stack[i], data)
    /\ \A i \in 1 .. Len(stack) :
          Attributes[stack[i]].kind # "halt" => RemainsReady(stack[i], data, above)
    /\ \A e \in Seen(data) :
          \/ Attributes[e].kind = "halt" \/ Behind(e, stack, data)
          \/ data.forecast[e] = Forecast(e, data, above, 1)
    /\ early => \A c \in Children(Executing) : ~Unfinished(c, data)

Resumable ==
    /\ Path(data, above)
    /\ phase # "execute" /\ data.current = 0 => Half(data) = {}
    /\ phase \in {"collect", "returned"} => Half(data) = {}
    /\ phase = "execute" => OnStack
    /\ file # NoFile => PathKept(file.data, above)

LEMMA OneParent ==
  ASSUME NEW p \in Event, NEW q \in Event, NEW c, c \in Children(p), c \in Children(q)
  PROVE  p = q
BY EventsAssumption

\* What an event forecasts depends on the cycle and on its own last execution.
LEMMA SameForecast ==
  ASSUME NEW e, NEW d, NEW o, NEW a, NEW clock, o.time = d.time, o.dt = d.dt, o.cycle = d.cycle,
         o.lastTime[e] = d.lastTime[e], o.lastCycle[e] = d.lastCycle[e]
  PROVE  Forecast(e, o, a, clock) = Forecast(e, d, a, clock)
<1>1. PeriodicTiming(e, o) = PeriodicTiming(e, d)
  BY DEF PeriodicTiming
<1>2. ThresholdTiming(e, o, a) = ThresholdTiming(e, d, a)
  BY <1>1 DEF ThresholdTiming
<1>3. SoloTiming(e, o) = SoloTiming(e, d)
  BY DEF SoloTiming
<1>4. EventTiming(e, o, a, clock) = EventTiming(e, d, a, clock)
  BY <1>2, <1>3 DEF EventTiming
<1> QED
  BY <1>4 DEF Forecast

LEMMA AnyClock ==
  ASSUME NEW e \in Event, Attributes[e].kind # "halt", NEW d, NEW a, NEW k, NEW n
  PROVE  Forecast(e, d, a, k) = Forecast(e, d, a, n)
<1>1. EventTiming(e, d, a, k) = EventTiming(e, d, a, n)
  BY AttributeTypes DEF EventTiming
<1> QED
  BY <1>1 DEF Forecast

LEMMA NoneUnfinished ==
  ASSUME NEW d \in Data, NEW a, Half(d) = {}
  PROVE  Path(d, a) /\ PathKept(d, a)
BY DEF Path, PathKept, Half, Unfinished

LEMMA SameHalf ==
  ASSUME NEW d, NEW o, o.sub = d.sub, o.executing = d.executing
  PROVE  Half(o) = Half(d) /\ \A e : Unfinished(e, o) <=> Unfinished(e, d)
BY DEF Half, Unfinished

LEMMA SamePath ==
  ASSUME NEW d, NEW o, NEW a, SameCycle(d, o), SameEvents(d, o), Path(d, a)
  PROVE  Path(o, a)
<1>1. Half(o) = Half(d) /\ \A e : Unfinished(e, o) <=> Unfinished(e, d)
  BY SameHalf DEF SameEvents
<1>2. \A e : Forecast(e, o, a, 1) = Forecast(e, d, a, 1)
  BY SameForecast DEF SameEvents, SameCycle, SameClock
<1>3. Seen(o) = Seen(d)
  BY DEF Seen, SameCycle, SameClock
<1>4. \A e : RemainsReady(e, d, a) => RemainsReady(e, o, a)
  BY <1>2, <1>3 DEF RemainsReady, SameEvents
<1>5. \A p, c : Enters(p, d, c) /\ TargetDone(p, d) => Enters(p, o, c) /\ TargetDone(p, o)
  BY DEF Enters, TargetDone, SameEvents
<1> QED
  BY <1>1, <1>4, <1>5 DEF Path, SameEvents, SameCycle

\* An event above one with a target or sub-events is no halt event.
LEMMA AboveNoHalt ==
  ASSUME HaltsAlone, NEW c \in Event, NEW e \in Subtree[c],
         Target(e) # "none" \/ Len(Subs(e)) > 0
  PROVE  Attributes[c].kind # "halt"
<1> SUFFICES ASSUME Attributes[c].kind = "halt" PROVE FALSE
  OBVIOUS
<1>1. Target(c) = "none" /\ Subs(c) = << >>
  BY DEF HaltsAlone
<1>2. Len(Subs(c)) = 0
  BY <1>1, EmptySeq
<1>3. Children(c) = {}
  <2> SUFFICES ASSUME NEW s \in Children(c) PROVE FALSE
    OBVIOUS
  <2>1. PICK i \in 1 .. Len(Subs(c)) : s = Subs(c)[i]
    BY SubEvents
  <2> QED
    BY <1>2, <2>1
<1>4. e = c
  BY <1>3, Subtrees
<1> QED
  BY <1>1, <1>2, <1>4

LEMMA UnfinishedNoHalt ==
  ASSUME HaltsAlone, NEW d \in Data, SubsInRange(d), NEW a, Path(d, a),
         NEW e \in Event, Unfinished(e, d)
  PROVE  Attributes[e].kind # "halt"
<1>1. PICK x \in Subtree[e] : x \in Half(d)
  BY DEF Unfinished
<1>2. x \in Event /\ d.sub[x] \in Nat /\ d.sub[x] <= Len(Subs(x)) /\ Len(Subs(x)) \in Nat
  BY <1>1, DataFields, SubEvents DEF Half, SubsInRange
<1>3. \A m, n \in Nat : m # 0 /\ m <= n => n > 0
  OBVIOUS
<1>4. Target(x) # "none" \/ Len(Subs(x)) > 0
  BY <1>1, <1>2, <1>3 DEF Half, Path
<1> QED
  BY <1>1, <1>4, AboveNoHalt

\* The events above one on the stack are on the stack.
LEMMA StackTree ==
  ASSUME Nest, data \in Data, SubsInRange(data), stack # << >>
  PROVE  /\ Len(stack) \in Nat /\ Len(stack) >= 1 /\ \A i \in 1 .. Len(stack) : stack[i] \in Event
         /\ \A i, j \in 1 .. Len(stack) : stack[i] = stack[j] => i = j
         /\ \A i \in 1 .. Len(stack) - 1 :
               /\ i \in 1 .. Len(stack) /\ i + 1 \in 1 .. Len(stack)
               /\ Enters(stack[i], data, stack[i + 1]) /\ stack[i + 1] \in Children(stack[i])
<1>1. /\ Len(stack) \in Nat /\ Len(stack) >= 1
      /\ \A i \in 1 .. Len(stack) - 1 : Enters(stack[i], data, stack[i + 1])
      /\ \A i, j \in 1 .. Len(stack) : i < j => Height[stack[j]] < Height[stack[i]]
      /\ \A i \in 1 .. Len(stack) : stack[i] \in Event
  BY TopOfStack, ElementOfSeq DEF Nest
<1> DEFINE n == Len(stack)
<1> HIDE DEF n
<1>2. \A i \in 1 .. n - 1 : i \in 1 .. n /\ i + 1 \in 1 .. n
  BY <1>1 DEF n
<1>3. \A i, j \in 1 .. n : stack[i] = stack[j] => i = j
  <2>1. \A i \in 1 .. n : Height[stack[i]] \in Nat
    BY <1>1, EventTree DEF n
  <2>2. \A h \in Nat : ~(h < h)
    OBVIOUS
  <2>3. \A i, j \in 1 .. n : i < j => stack[i] # stack[j]
    BY <1>1, <2>1, <2>2 DEF n
  <2>4. \A i, j \in 1 .. n : i = j \/ i < j \/ j < i
    BY <1>1 DEF n
  <2> QED
    BY <2>3, <2>4
<1>4. ASSUME NEW p \in Event, NEW c, Enters(p, data, c) PROVE c \in Children(p)
  <2>1. data.sub[p] \in Nat /\ Len(Subs(p)) \in Nat /\ data.sub[p] < Len(Subs(p))
    BY <1>4, DataFields, SubEvents DEF Enters
  <2>2. data.sub[p] + 1 \in 1 .. Len(Subs(p))
    BY <2>1
  <2> QED
    BY <1>4, <2>2, SubEvents DEF Enters
<1>5. \A i \in 1 .. n - 1 : Enters(stack[i], data, stack[i + 1]) /\ stack[i] \in Event
  BY <1>1, <1>2 DEF n
<1> QED
  BY <1>1, <1>2, <1>3, <1>4, <1>5 DEF n

LEMMA AboveStack ==
  ASSUME Nest, data \in Data, SubsInRange(data), data.current < Len(Main), stack # << >>,
         NEW k \in 1 .. Len(stack), NEW e \in Event, stack[k] \in Subtree[e]
  PROVE  \E j \in 1 .. k : /\ e = stack[j]
                           /\ \A p \in Event : e \in Children(p) =>
                                 j - 1 \in 1 .. Len(stack) - 1 /\ p = stack[j - 1]
<1> DEFINE P == {x \in Event : stack[k] \in Subtree[x] => \E j \in 1 .. k : x = stack[j]}
<1>1. stack[1] = Current /\ \A p \in Event : Current \notin Children(p)
  BY Nested, CurrentEvent
<1>2. Len(stack) \in Nat
  BY StackTree
<1>3. ASSUME NEW j \in 1 .. k, NEW p \in Event, stack[j] \in Children(p)
      PROVE  j - 1 \in 1 .. Len(stack) - 1 /\ j - 1 \in 1 .. k /\ p = stack[j - 1]
  <2>1. j # 1
    BY <1>1, <1>3
  <2>2. j - 1 \in 1 .. Len(stack) - 1 /\ (j - 1) + 1 = j /\ j - 1 \in 1 .. k
    BY <1>2, <2>1
  <2>3. stack[j] \in Children(stack[j - 1]) /\ stack[j - 1] \in Event
    BY <2>2, StackTree
  <2> QED
    BY <1>3, <2>2, <2>3, OneParent
<1>4. ASSUME NEW x \in Event, Children(x) \subseteq P PROVE x \in P
  <2> SUFFICES ASSUME stack[k] \in Subtree[x] PROVE \E j \in 1 .. k : x = stack[j]
    OBVIOUS
  <2>1. CASE stack[k] = x
    BY <1>2, <2>1
  <2>2. CASE stack[k] # x
    <3>1. PICK s \in Children(x) : stack[k] \in Subtree[s]
      BY <2>2, Subtrees
    <3>2. PICK j \in 1 .. k : s = stack[j]
      BY <1>4, <3>1
    <3> QED
      BY <1>3, <3>1, <3>2
  <2> QED
    BY <2>1, <2>2
<1> HIDE DEF P
<1>5. Event \subseteq P
  BY <1>4, TreeInduction
<1> QED
  BY <1>3, <1>5 DEF P

LEMMA StackBelowCurrent ==
  ASSUME Nest, data \in Data, SubsInRange(data), data.current < Len(Main), stack # << >>
  PROVE  \A i \in 1 .. Len(stack) : stack[i] \in Subtree[Current]
<1> DEFINE P == {n \in Nat : n + 1 \in 1 .. Len(stack) => stack[n + 1] \in Subtree[Current]}
<1>1. Len(stack) \in Nat
  BY StackTree
<1>2. 0 \in P
  BY Nested, CurrentEvent, SubtreesBelow
<1>3. ASSUME NEW n \in Nat, n \in P PROVE n + 1 \in P
  <2> SUFFICES ASSUME (n + 1) + 1 \in 1 .. Len(stack) PROVE stack[(n + 1) + 1] \in Subtree[Current]
    OBVIOUS
  <2>1. n + 1 \in 1 .. Len(stack) - 1 /\ n + 1 \in 1 .. Len(stack)
    BY <1>1
  <2>2. stack[(n + 1) + 1] \in Children(stack[n + 1])
    BY <2>1, StackTree
  <2> QED
    BY <1>3, <2>1, <2>2, CurrentEvent, SubtreesBelow
<1> HIDE DEF P
<1>4. Nat \subseteq P
  BY <1>2, <1>3, SetInduction
<1>5. \A i \in 1 .. Len(stack) : i - 1 \in Nat /\ (i - 1) + 1 = i
  BY <1>1
<1> QED
  BY <1>4, <1>5 DEF P

\* Below an event, every other one is a sub-event of one there.
LEMMA ParentBelow ==
  \A m \in Event : \A e \in Subtree[m] : e # m =>
      \E p \in Event : p \in Subtree[m] /\ e \in Children(p)
<1> DEFINE P == {m \in Event : \A e \in Subtree[m] : e # m =>
                    \E p \in Event : p \in Subtree[m] /\ e \in Children(p)}
<1>1. ASSUME NEW m \in Event, Children(m) \subseteq P PROVE m \in P
  <2> SUFFICES ASSUME NEW e \in Subtree[m], e # m
               PROVE  \E p \in Event : p \in Subtree[m] /\ e \in Children(p)
    OBVIOUS
  <2>1. PICK s \in Children(m) : e \in Subtree[s]
    BY Subtrees
  <2>2. CASE e = s
    BY <2>1, <2>2, SubtreesBelow
  <2>3. CASE e # s
    <3>1. PICK p \in Event : p \in Subtree[s] /\ e \in Children(p)
      BY <1>1, <2>1, <2>3
    <3>2. p \in Subtree[m]
      BY <3>1, Subtrees
    <3> QED
      BY <3>1, <3>2
  <2> QED
    BY <2>2, <2>3
<1> HIDE DEF P
<1>2. Event \subseteq P
  BY <1>1, TreeInduction
<1> QED
  BY <1>2 DEF P

\* The next sub-event of the event on top of the stack is not behind: it is
\* checked, and has not executed yet.
LEMMA NotBehind ==
  ASSUME Nest, data \in Data, SubsInRange(data), data.current < Len(Main), stack # << >>,
         data.sub[Executing] < Len(Subs(Executing))
  PROVE  NextSub \in Event /\ ~Behind(NextSub, stack, data)
<1> DEFINE e == Executing
           n == Len(stack)
<1>1. n \in Nat /\ n \in 1 .. n /\ e \in Event /\ e = stack[n]
  BY TopOfStack DEF Nest, Executing
<1>2. /\ data.sub[e] \in Nat /\ Len(Subs(e)) \in Nat /\ data.sub[e] + 1 \in 1 .. Len(Subs(e))
  <2>1. data.sub[e] \in Nat /\ Len(Subs(e)) \in Nat
    BY <1>1, DataFields, SubEvents
  <2> QED
    BY <2>1
<1>3. NextSub \in Children(e) /\ NextSub \in Event
  BY <1>1, <1>2, SubEvents DEF NextSub
<1>4. SUFFICES ASSUME NEW k \in 1 .. n, NEW i \in 1 .. data.sub[stack[k]],
                      NextSub \in Subtree[Subs(stack[k])[i]]
               PROVE  FALSE
  BY <1>3 DEF Behind
<1> DEFINE p == stack[k]
           s == Subs(p)[i]
<1>5. /\ p \in Event /\ data.sub[p] \in Nat /\ Len(Subs(p)) \in Nat /\ data.sub[p] <= Len(Subs(p))
  BY <1>1, StackTree, DataFields, SubEvents DEF SubsInRange
<1>6. i \in 1 .. Len(Subs(p)) /\ i # data.sub[p] + 1
  BY <1>5
<1>7. s \in Children(p) /\ s \in Event
  BY <1>5, <1>6, SubEvents
<1>8. CASE s = NextSub
  <2>1. p = e
    BY <1>1, <1>3, <1>5, <1>7, <1>8, OneParent
  <2> QED
    BY <1>1, <1>2, <1>6, <1>8, <2>1, SubEvents DEF NextSub
<1>9. CASE s # NextSub
  <2>1. e \in Subtree[s]
    <3>1. PICK q \in Event : q \in Subtree[s] /\ NextSub \in Children(q)
      BY <1>4, <1>7, <1>9, ParentBelow
    <3> QED
      BY <1>1, <1>3, <3>1, OneParent
  <2>2. PICK j \in 1 .. n : s = stack[j] /\ j - 1 \in 1 .. n - 1 /\ p = stack[j - 1]
    <3> DEFINE top == s
    <3>1. top \in Event /\ stack[n] \in Subtree[top] /\ top \in Children(p)
      BY <1>1, <1>7, <2>1
    <3> HIDE DEF top
    <3>2. PICK j \in 1 .. n : /\ top = stack[j]
                              /\ \A q \in Event : top \in Children(q) =>
                                    j - 1 \in 1 .. n - 1 /\ q = stack[j - 1]
      BY <1>1, <3>1, AboveStack
    <3> QED
      BY <1>5, <3>1, <3>2 DEF top
  <2>3. j - 1 = k /\ (j - 1) + 1 = j
    <3>1. j - 1 \in 1 .. n /\ (j - 1) + 1 = j
      BY <1>1, <2>2
    <3> QED
      BY <2>2, <3>1, StackTree
  <2>4. Enters(p, data, s)
    BY <2>2, <2>3, StackTree
  <2> QED
    BY SMTT(40), <1>1, <1>5, <1>6, <2>4, SubEvents DEF Enters
<1> QED
  BY <1>8, <1>9

\* The steps of run() between the executions, and a new process.
LEMMA RunResumable ==
  ASSUME Control, Resumable, Run \/ StartCycle \/ EndCycle \/ Finish \/ CollectExitFlag
  PROVE  Resumable'
<1>1. /\ data \in Data /\ data.current \in Nat /\ plan \in [0 .. PlanLength - 1 -> Requests]
      /\ phase = "collect" => data.current < Len(Main)
  BY DataFields DEF Control, Types, Position
<1>2. ASSUME SameEvents(data, data'), Half(data) = {}, data' \in Data,
             phase' # "execute", UNCHANGED <<file, above>>
      PROVE  Resumable'
  <2>1. Half(data') = {}
    BY <1>2, SameHalf DEF SameEvents
  <2>2. Path(data', above)
    BY <1>2, <2>1, NoneUnfinished
  <2> QED
    BY <1>2, <2>1, <2>2 DEF Resumable
<1>3. ASSUME SameEvents(data, data'), SameCycle(data, data'), phase # "execute",
             phase' \notin {"execute", "collect", "returned"}, UNCHANGED above,
             file' = file \/ file' = [at |-> at, data |-> data]
      PROVE  Resumable'
  <2>1. Half(data') = Half(data) /\ data'.current = data.current
    BY <1>3, SameHalf DEF SameEvents, SameCycle
  <2>2. Path(data', above)
    BY <1>3, SamePath DEF Resumable
  <2>3. file' # NoFile => PathKept(file'.data, above)
    BY <1>3 DEF Resumable, PathKept
  <2> QED
    BY <1>3, <2>1, <2>2, <2>3 DEF Resumable
<1>4. CASE Run
  <2>1. /\ data' \in Data /\ data'.time = RunStart /\ data'.dt = data.dt
        /\ data'.cycle = data.cycle /\ data'.current = data.current /\ SameEvents(data, data')
        /\ phase \in {"ready", "returned"} /\ phase' = "loop" /\ UNCHANGED <<file, above>>
    BY <1>1, <1>4, RunEffect
  <2>2. CASE data.current = 0
    BY <1>2, <2>1, <2>2 DEF Resumable
  <2>3. CASE data.current # 0
    <3>1. SameCycle(data, data')
      BY <2>1, <2>3 DEF RunStart, SameCycle, SameClock
    <3> QED
      BY <1>3, <2>1, <3>1
  <2> QED
    BY <2>2, <2>3
<1>5. CASE StartCycle
  <2>1. /\ data' \in Data /\ data'.time = data.time
        /\ data'.dt = IF data.current = 0 THEN CycleDt ELSE data.dt
        /\ data'.cycle = data.cycle /\ data'.current = data.current /\ SameEvents(data, data')
        /\ phase = "loop" /\ phase' = "check" /\ UNCHANGED <<file, above>>
    BY <1>1, <1>5, StartCycleEffect
  <2>2. CASE data.current = 0
    BY <1>2, <2>1, <2>2 DEF Resumable
  <2>3. CASE data.current # 0
    <3>1. SameCycle(data, data')
      BY <2>1, <2>3 DEF SameCycle, SameClock
    <3> QED
      BY <1>3, <2>1, <3>1
  <2> QED
    BY <2>2, <2>3
<1>6. CASE EndCycle
  <2>1. /\ data' \in Data /\ SameEvents(data, data')
        /\ data.current = Len(Main) /\ phase' = "loop" /\ UNCHANGED <<file, above>>
    BY <1>1, <1>6, EndCycleEffect
  <2>2. Half(data) = {}
    BY <1>1, <2>1 DEF Resumable, Path
  <2> QED
    BY <1>2, <2>1, <2>2
<1>7. CASE Finish
  <2>1. /\ phase = "loop" /\ phase' = "done"
        /\ file' = file \/ file' = [at |-> at, data |-> data]
        /\ UNCHANGED <<data, above>>
    BY <1>7, FinishEffect
  <2>2. SameEvents(data, data') /\ SameCycle(data, data')
    BY <2>1 DEF SameEvents, SameCycle, SameClock
  <2> QED
    BY <1>3, <2>1, <2>2
<1>8. CASE CollectExitFlag
  <2>1. phase = "collect"
    BY <1>8 DEF CollectExitFlag
  <2>2. /\ data' \in Data /\ SameEvents(data, data')
        /\ phase' = IF early THEN "returned" ELSE "check"
        /\ UNCHANGED <<file, above>>
    BY <1>1, <1>8, <2>1, CollectExitFlagEffect
  <2> QED
    BY <1>2, <2>1, <2>2 DEF Resumable
<1> QED
  BY <1>4, <1>5, <1>6, <1>7, <1>8

LEMMA RestartResumable ==
  ASSUME Resumable, Restart
  PROVE  Resumable'
<1>1. /\ file # NoFile /\ data' = file.data /\ phase' = "ready" /\ UNCHANGED <<file, above>>
  BY RestartEffect
<1> QED
  BY <1>1 DEF Resumable, PathKept

LEMMA CheckResumable ==
  ASSUME HaltsAlone, Control, Resumable, NEW clock \in Int, CheckEvent(clock)
  PROVE  Resumable'
<1>1. data \in Data /\ SubsInRange(data) /\ (early => phase \in {"execute", "collect"})
  BY DEF Control, Types, Position
<1>2. /\ SameCycle(data, data')
      /\ data'.lastTime = data.lastTime /\ data'.lastCycle = data.lastCycle
      /\ data'.sub = data.sub /\ data'.executing = data.executing
      /\ data'.forecast = NewForecast(clock)
      /\ phase = "check" /\ data.current < Len(Main)
      /\ IF IsReadyForExec(NewForecast(clock)[Current])
         THEN stack' = <<Current>> /\ phase' = "execute"
         ELSE stack' = stack /\ phase' = "collect"
      /\ UNCHANGED <<early, file, above>>
  BY <1>1, CheckEventEffect
<1>3. Half(data') = Half(data) /\ \A e : Unfinished(e, data') <=> Unfinished(e, data)
  BY <1>2, SameHalf
<1>4. /\ Seen(data') = CheckedNow /\ Seen(data) = CheckedNow /\ data'.current = data.current
      /\ Current \in Event /\ Current \in CheckedNow /\ CheckedNow \subseteq Event
  BY <1>1, <1>2, CurrentEvent, CheckedEvents DEF Seen, CheckedNow, Current, SameCycle, SameClock
<1>5. \A e : Forecast(e, data', above, 1) = Forecast(e, data, above, 1)
  BY <1>2, SameForecast DEF SameCycle, SameClock
<1>6. \A e \in Event : Attributes[e].kind # "halt" =>
          Forecast(e, data, above, clock) = Forecast(e, data, above, 1)
  BY AnyClock
<1>7. \A e \in Event : data'.forecast[e] = IF e \in CheckedNow THEN Forecast(e, data, above, clock)
                                           ELSE data.forecast[e]
  BY <1>2 DEF NewForecast
<1>8. ASSUME NEW e \in Event, Unfinished(e, data) PROVE RemainsReady(e, data', above)
  <2>1. RemainsReady(e, data, above)
    BY <1>8 DEF Resumable, Path
  <2>2. Attributes[e].kind # "halt"
    BY <1>1, <1>8, UnfinishedNoHalt DEF Resumable
  <2> QED
    BY <1>4, <1>5, <1>6, <1>7, <2>1, <2>2 DEF RemainsReady
<1>9. Path(data', above)
  <2>1. \A p, c : Enters(p, data, c) /\ TargetDone(p, data) =>
                  Enters(p, data', c) /\ TargetDone(p, data')
    BY <1>2 DEF Enters, TargetDone
  <2> QED
    BY <1>2, <1>3, <1>4, <1>8, <2>1 DEF Resumable, Path
<1>10. CASE IsReadyForExec(NewForecast(clock)[Current])
  <2>1. stack' = <<Current>> /\ phase' = "execute" /\ ~early'
    BY <1>1, <1>2, <1>10
  <2>2. Len(stack') = 1 /\ stack'[1] = Current
    BY <2>1
  <2>3. 1 .. Len(stack') - 1 = {} /\ 1 .. Len(stack') = {1}
    BY <2>2
  <2>4. Attributes[Current].kind # "halt" => RemainsReady(Current, data', above)
    BY <1>2, <1>4, <1>5, <1>6, <1>7, <1>10 DEF RemainsReady
  <2>5. \A e \in CheckedNow : Attributes[e].kind = "halt" \/
            data'.forecast[e] = Forecast(e, data', above, 1)
    BY <1>4, <1>5, <1>6, <1>7
  <2>6. OnStack'
    BY <1>2, <1>4, <2>1, <2>2, <2>3, <2>4, <2>5 DEF OnStack
  <2> QED
    BY <1>2, <1>9, <2>1, <2>6 DEF Resumable
<1>11. CASE ~IsReadyForExec(NewForecast(clock)[Current])
  <2>1. Half(data) = {}
    <3> SUFFICES ASSUME NEW h \in Half(data) PROVE FALSE
      OBVIOUS
    <3>1. Unfinished(Current, data)
      BY DEF Resumable, Path, Unfinished, Current
    <3> QED
      BY <1>2, <1>4, <1>8, <1>11, <3>1 DEF RemainsReady
  <2> QED
    BY <1>2, <1>3, <1>9, <1>11, <2>1 DEF Resumable
<1> QED
  BY <1>10, <1>11

\* The events above one on the stack have been entered, and remain ready.
LEMMA AboveEntered ==
  ASSUME HaltsAlone, Nest, data \in Data, SubsInRange(data), data.current < Len(Main),
         stack # << >>, OnStack, NEW k \in 1 .. Len(stack),
         Target(stack[k]) # "none" \/ Len(Subs(stack[k])) > 0,
         NEW c \in Event, stack[k] \in Subtree[c]
  PROVE  /\ RemainsReady(c, data, above)
         /\ \E j \in 1 .. k : c = stack[j]
         /\ \A p \in Event : c \in Children(p) =>
               /\ Enters(p, data, c) /\ TargetDone(p, data)
               /\ \E i \in 1 .. Len(stack) - 1 : i + 1 \in 1 .. k /\ p = stack[i] /\ c = stack[i + 1]
<1>1. PICK j \in 1 .. k : /\ c = stack[j]
                          /\ \A p \in Event : c \in Children(p) =>
                                j - 1 \in 1 .. Len(stack) - 1 /\ p = stack[j - 1]
  BY AboveStack
<1>2. Len(stack) \in Nat
  BY StackTree
<1>3. j \in 1 .. Len(stack) /\ (j - 1) + 1 = j
  BY <1>2
<1>4. Attributes[c].kind # "halt"
  BY AboveNoHalt
<1>5. RemainsReady(c, data, above)
  BY <1>1, <1>3, <1>4 DEF OnStack
<1>6. ASSUME NEW p \in Event, c \in Children(p)
      PROVE  /\ Enters(p, data, c) /\ TargetDone(p, data)
             /\ \E i \in 1 .. Len(stack) - 1 : i + 1 \in 1 .. k /\ p = stack[i] /\ c = stack[i + 1]
  <2>1. j - 1 \in 1 .. Len(stack) - 1 /\ p = stack[j - 1]
    BY <1>1, <1>6
  <2>2. Enters(p, data, stack[(j - 1) + 1]) /\ TargetDone(p, data)
    BY <2>1, StackTree DEF OnStack
  <2> QED
    BY <1>1, <1>3, <2>1, <2>2
<1> QED
  BY <1>1, <1>5, <1>6

\* The event on top of the stack is not below its own sub-events.
LEMMA TopNotBelow ==
  ASSUME Nest, data \in Data, SubsInRange(data), data.current < Len(Main), stack # << >>,
         NEW c \in Children(Executing)
  PROVE  c \in Event /\ Executing \notin Subtree[c]
<1>1. /\ Len(stack) \in Nat /\ Len(stack) \in 1 .. Len(stack)
      /\ Executing \in Event /\ Executing = stack[Len(stack)]
  BY TopOfStack DEF Nest, Executing
<1>2. c \in Event
  BY <1>1, EventTree
<1>3. SUFFICES ASSUME stack[Len(stack)] \in Subtree[c] PROVE FALSE
  BY <1>1, <1>2
<1>4. PICK j \in 1 .. Len(stack) : /\ c = stack[j]
                                   /\ \A p \in Event : c \in Children(p) =>
                                         j - 1 \in 1 .. Len(stack) - 1 /\ p = stack[j - 1]
  BY <1>1, <1>2, <1>3, AboveStack
<1>5. j - 1 \in 1 .. Len(stack) - 1 /\ stack[Len(stack)] = stack[j - 1]
  BY <1>1, <1>4
<1>6. j - 1 \in 1 .. Len(stack) /\ j - 1 # Len(stack)
  BY <1>1, <1>5
<1> QED
  BY <1>1, <1>5, <1>6, StackTree

LEMMA TargetResumable ==
  ASSUME HaltsAlone, RestartsAfterFirst, Control, Resumable, ExecuteTarget
  PROVE  Resumable'
<1> DEFINE e == Executing
<1>1. /\ data \in Data /\ SubsInRange(data) /\ stack \in Seq(Event) /\ Nest
      /\ log \in Seq(Entry) /\ at \in 0 .. Len(log)
      /\ phase = "execute" /\ stack # << >> /\ data.current < Len(Main)
  BY DEF Control, Types, Position, Nest, ExecuteTarget
<1>2. /\ SameCycle(data, data') /\ data' \in Data
      /\ data'.lastTime = data.lastTime /\ data'.lastCycle = data.lastCycle
      /\ data'.forecast = data.forecast /\ data'.sub = data.sub
      /\ data'.executing = [data.executing EXCEPT ![e] = TRUE]
      /\ Target(e) # "none" /\ ~data.executing[e]
      /\ file' = IF Target(e) = "restart" THEN [at |-> at', data |-> data'] ELSE file
      /\ UNCHANGED <<phase, stack, above>>
  BY <1>1, ExecuteTargetEffect
<1>3. /\ Len(stack) \in Nat /\ Len(stack) \in 1 .. Len(stack) /\ e \in Event /\ e = stack[Len(stack)]
      /\ e \in Subtree[Current] /\ Subtree[Current] \subseteq Event
  BY <1>1, TopOfStack, StackBelowCurrent, CurrentEvent DEF Executing
<1> HIDE DEF e
<1>4. Path(data, above) /\ OnStack
  BY <1>1 DEF Resumable
<1>5. data.executing \in [Event -> BOOLEAN]
  BY <1>1, DataFields
<1>6. \A x \in Event : data'.executing[x] <=> (data.executing[x] \/ x = e)
  BY <1>2, <1>5
<1>7. Half(data') = Half(data) \cup {e}
  BY <1>2, <1>3, <1>6 DEF Half
<1>8. \A c : Unfinished(c, data') => Unfinished(c, data) \/ e \in Subtree[c]
  BY <1>7 DEF Unfinished
<1>9. Seen(data') = Seen(data) /\ data'.current = data.current /\ Current = Main[data.current + 1]
  BY <1>2 DEF Seen, SameCycle, SameClock, Current
<1>10. \A c : Forecast(c, data', above, 1) = Forecast(c, data, above, 1)
  BY <1>2, SameForecast DEF SameCycle, SameClock
<1>11. \A c : RemainsReady(c, data, above) => RemainsReady(c, data', above)
  BY <1>2, <1>9, <1>10 DEF RemainsReady
<1>12. \A p \in Event : \A c : Enters(p, data, c) /\ TargetDone(p, data) =>
                               Enters(p, data', c) /\ TargetDone(p, data')
  BY <1>2, <1>6 DEF Enters, TargetDone
<1>13. ASSUME NEW c \in Event, e \in Subtree[c]
       PROVE  /\ RemainsReady(c, data, above)
              /\ \A p \in Event : c \in Children(p) => Enters(p, data, c) /\ TargetDone(p, data)
  BY <1>1, <1>2, <1>3, <1>4, <1>13, AboveEntered
<1>14. Path(data', above)
  <2>1. \A x \in Half(data') : data'.current < Len(Main) /\ x \in Subtree[Main[data'.current + 1]]
    BY <1>1, <1>3, <1>4, <1>7, <1>9 DEF Path
  <2>2. \A x \in Event : data'.executing[x] => Target(x) # "none"
    BY <1>2, <1>4, <1>6 DEF Path
  <2>3. \A x \in Event : Unfinished(x, data') => RemainsReady(x, data', above)
    BY <1>4, <1>8, <1>11, <1>13 DEF Path
  <2>4. ASSUME NEW p \in Event, NEW c \in Children(p), Unfinished(c, data')
        PROVE  Enters(p, data', c) /\ TargetDone(p, data')
    <3>1. c \in Event
      BY EventTree
    <3>2. Enters(p, data, c) /\ TargetDone(p, data)
      BY <1>4, <1>8, <1>13, <2>4, <3>1 DEF Path
    <3> QED
      BY <1>12, <3>2
  <2> QED
    BY <2>1, <2>2, <2>3, <2>4 DEF Path
<1>15. OnStack'
  <2>1. ASSUME NEW i \in 1 .. Len(stack) - 1 PROVE TargetDone(stack[i], data')
    <3>1. stack[i] \in Event /\ TargetDone(stack[i], data)
      BY <1>1, <1>4, StackTree DEF OnStack
    <3> QED
      BY <1>6, <3>1 DEF TargetDone
  <2>2. \A i \in 1 .. Len(stack) :
            Attributes[stack[i]].kind # "halt" => RemainsReady(stack[i], data', above)
    BY <1>4, <1>11 DEF OnStack
  <2>3. \A x \in Seen(data') :
            \/ Attributes[x].kind = "halt" \/ Behind(x, stack, data')
            \/ data'.forecast[x] = Forecast(x, data', above, 1)
    <3>1. \A x : Behind(x, stack, data) => Behind(x, stack, data')
      BY <1>2 DEF Behind
    <3> QED
      BY <1>2, <1>4, <1>9, <1>10, <3>1 DEF OnStack
  <2>4. ASSUME NEW c \in Children(e) PROVE ~Unfinished(c, data')
    <3>1. c \in Event /\ e \notin Subtree[c]
      BY <1>1, <2>4, TopNotBelow DEF e
    <3>2. ~Unfinished(c, data)
      BY <1>2, <1>3, <1>4, <2>4 DEF Path, TargetDone
    <3> QED
      BY <1>8, <3>1, <3>2
  <2>5. Executing' = e
    BY <1>2 DEF Executing, e
  <2> QED
    BY <1>2, <2>1, <2>2, <2>3, <2>4, <2>5 DEF OnStack
<1>16. file' # NoFile => PathKept(file'.data, above)
  <2>1. CASE Target(e) # "restart"
    BY <1>2, <2>1 DEF Resumable
  <2>2. CASE Target(e) = "restart"
    <3>1. data.current # 0
      <4> SUFFICES ASSUME data.current = 0 PROVE FALSE
        OBVIOUS
      <4>1. Current = Main[1] /\ Len(Main) > 0
        BY <1>1 DEF Current
      <4> QED
        BY <1>3, <2>2, <4>1 DEF RestartsAfterFirst
    <3>2. file'.data = data'
      BY <1>2, <2>2
    <3> QED
      BY <1>9, <1>14, <3>1, <3>2 DEF PathKept
  <2> QED
    BY <2>1, <2>2
<1> QED
  BY <1>1, <1>2, <1>14, <1>15, <1>16 DEF Resumable

LEMMA SubEventResumable ==
  ASSUME HaltsAlone, Control, Resumable, ExecuteSubEvent
  PROVE  Resumable'
<1> DEFINE e == Executing
           n == Len(stack)
<1>1. /\ data \in Data /\ SubsInRange(data) /\ stack \in Seq(Event) /\ Nest
      /\ phase = "execute" /\ stack # << >> /\ data.current < Len(Main)
  BY DEF Control, Types, Position, Nest, ExecuteSubEvent
<1>2. /\ TargetExecuted(e) /\ data.sub[e] < Len(Subs(e))
      /\ NextSub \in Children(e) /\ NextSub \in Event
      /\ \/ /\ IsReadyForExec(data.forecast[NextSub]) /\ ~early
            /\ stack' = Append(stack, NextSub) /\ data' = data
         \/ /\ ~(IsReadyForExec(data.forecast[NextSub]) /\ ~early)
            /\ stack' = stack /\ data' \in Data /\ SameCycle(data, data')
            /\ data'.lastTime = data.lastTime /\ data'.lastCycle = data.lastCycle
            /\ data'.forecast = data.forecast /\ data'.executing = data.executing
            /\ data'.sub = [data.sub EXCEPT ![e] = data.sub[e] + 1]
      /\ UNCHANGED <<phase, early, file, above>>
  BY <1>1, ExecuteSubEventEffect
<1>3. /\ n \in Nat /\ n \in 1 .. n /\ e \in Event /\ e = stack[n]
      /\ e \in Subtree[Current] /\ Subtree[Current] \subseteq Event
      /\ \A i \in 1 .. n : stack[i] \in Event
  BY <1>1, TopOfStack, StackBelowCurrent, CurrentEvent, StackTree DEF Executing
<1>4. Path(data, above) /\ OnStack
  BY <1>1 DEF Resumable
<1>5. ~Behind(NextSub, stack, data)
  BY <1>1, <1>2, NotBehind
<1>6. NextSub = Subs(e)[data.sub[e] + 1] /\ data.sub[e] \in Nat /\ Len(Subs(e)) \in Nat
  BY <1>1, <1>3, DataFields, SubEvents DEF NextSub
<1>7. Len(Subs(e)) > 0
  BY <1>2, <1>6
<1>8. CASE /\ IsReadyForExec(data.forecast[NextSub]) /\ ~early
           /\ stack' = Append(stack, NextSub) /\ data' = data
  <2>1. /\ Len(stack') = n + 1 /\ stack'[n + 1] = NextSub
        /\ \A i \in 1 .. n : stack'[i] = stack[i]
    BY <1>1, <1>2, <1>8, AppendProperties
  <2>2. \A i \in 1 .. n + 1 : i \in 1 .. n \/ i = n + 1
    BY <1>3
  <2>3. (n + 1) - 1 = n /\ \A i \in 1 .. n : i \in 1 .. n - 1 \/ i = n
    BY <1>3
  <2>4. \A i \in 1 .. Len(stack') - 1 : TargetDone(stack'[i], data')
    <3>1. \A i \in 1 .. n - 1 : TargetDone(stack[i], data) /\ i \in 1 .. n
      BY <1>3, <1>4 DEF OnStack
    <3>2. TargetDone(stack[n], data)
      BY <1>2, <1>3 DEF TargetExecuted, TargetDone
    <3> HIDE DEF n
    <3> QED
      BY <1>8, <2>1, <2>3, <3>1, <3>2
  <2>5. Attributes[NextSub].kind # "halt" => RemainsReady(NextSub, data, above)
    BY <1>4, <1>5, <1>8 DEF OnStack, RemainsReady
  <2>6. \A i \in 1 .. Len(stack') :
            Attributes[stack'[i]].kind # "halt" => RemainsReady(stack'[i], data', above)
    BY <1>4, <1>8, <2>1, <2>2, <2>5 DEF OnStack
  <2>7. ASSUME NEW x, Behind(x, stack, data) PROVE Behind(x, stack', data)
    <3>1. PICK k \in 1 .. n : \E i \in 1 .. data.sub[stack[k]] : x \in Subtree[Subs(stack[k])[i]]
      BY <2>7 DEF Behind
    <3>2. k \in 1 .. Len(stack') /\ stack'[k] = stack[k]
      BY <1>3, <2>1
    <3> QED
      BY <3>1, <3>2 DEF Behind
  <2>8. Seen(data') = Seen(data) /\ ~early'
    BY <1>2, <1>8
  <2>9. OnStack'
    BY <1>2, <1>4, <1>8, <2>4, <2>6, <2>7, <2>8 DEF OnStack
  <2> QED
    BY <1>1, <1>2, <1>4, <1>8, <2>9 DEF Resumable
<1>9. CASE /\ ~(IsReadyForExec(data.forecast[NextSub]) /\ ~early)
           /\ stack' = stack /\ data' \in Data /\ SameCycle(data, data')
           /\ data'.lastTime = data.lastTime /\ data'.lastCycle = data.lastCycle
           /\ data'.forecast = data.forecast /\ data'.executing = data.executing
           /\ data'.sub = [data.sub EXCEPT ![e] = data.sub[e] + 1]
  <2> HIDE DEF e
  <2>1. /\ \A x \in Event : x # e => data'.sub[x] = data.sub[x]
        /\ data'.sub[e] = data.sub[e] + 1
    <3>1. data.sub \in [Event -> Nat]
      BY <1>1, DataFields
    <3> QED
      BY <1>3, <1>9, <3>1
  <2>2. Half(data') = Half(data) \cup {e}
    <3>1. data.sub[e] + 1 # 0
      BY <1>6
    <3> QED
      BY <1>3, <1>9, <2>1, <3>1 DEF Half
  <2>3. \A c : Unfinished(c, data') => Unfinished(c, data) \/ e \in Subtree[c]
    BY <2>2 DEF Unfinished
  <2>4. Seen(data') = Seen(data) /\ data'.current = data.current /\ Current = Main[data.current + 1]
    BY <1>9 DEF Seen, SameCycle, SameClock, Current
  <2>5. \A c : Forecast(c, data', above, 1) = Forecast(c, data, above, 1)
    BY <1>9, SameForecast DEF SameCycle, SameClock
  <2>6. \A c : RemainsReady(c, data, above) => RemainsReady(c, data', above)
    BY <1>9, <2>4, <2>5 DEF RemainsReady
  <2>7. \A p \in Event : \A c : p # e /\ Enters(p, data, c) /\ TargetDone(p, data) =>
                                Enters(p, data', c) /\ TargetDone(p, data')
    BY <1>9, <2>1 DEF Enters, TargetDone
  <2>8. ~Unfinished(NextSub, data)
    <3>1. CASE early
      BY <1>2, <1>4, <3>1 DEF OnStack, e
    <3>2. CASE ~early
      BY <1>2, <1>4, <1>9, <3>2 DEF Path, RemainsReady
    <3> QED
      BY <3>1, <3>2
  <2>9. ASSUME NEW c \in Event, e \in Subtree[c]
        PROVE  /\ RemainsReady(c, data, above)
               /\ \A p \in Event : c \in Children(p) =>
                     p # e /\ Enters(p, data, c) /\ TargetDone(p, data)
    <3>1. /\ RemainsReady(c, data, above)
          /\ \A p \in Event : c \in Children(p) => Enters(p, data, c) /\ TargetDone(p, data)
      BY <1>1, <1>3, <1>4, <1>7, <2>9, AboveEntered
    <3>2. c \notin Children(e)
      BY <1>1, <2>9, TopNotBelow DEF e
    <3> QED
      BY <3>1, <3>2
  <2>10. Path(data', above)
    <3>1. \A x \in Half(data') : data'.current < Len(Main) /\ x \in Subtree[Main[data'.current + 1]]
      BY <1>1, <1>3, <1>4, <2>2, <2>4 DEF Path
    <3>2. \A x \in Event : data'.executing[x] => Target(x) # "none"
      BY <1>4, <1>9 DEF Path
    <3>3. \A x \in Event : Unfinished(x, data') => RemainsReady(x, data', above)
      BY <1>4, <2>3, <2>6, <2>9 DEF Path
    <3>4. ASSUME NEW p \in Event, NEW c \in Children(p), Unfinished(c, data')
          PROVE  Enters(p, data', c) /\ TargetDone(p, data')
      <4>1. c \in Event
        BY EventTree
      <4>2. CASE e \in Subtree[c]
        BY <2>7, <2>9, <4>1, <4>2
      <4>3. CASE e \notin Subtree[c]
        <5>1. Unfinished(c, data) /\ Enters(p, data, c) /\ TargetDone(p, data)
          BY <1>4, <2>3, <3>4, <4>3 DEF Path
        <5>2. p # e
          BY <1>6, <2>8, <5>1 DEF Enters
        <5> QED
          BY <2>7, <5>1, <5>2
      <4> QED
        BY <4>2, <4>3
    <3> QED
      BY <3>1, <3>2, <3>3, <3>4 DEF Path
  <2>11. OnStack'
    <3>1. \A i \in 1 .. n - 1 : TargetDone(stack[i], data')
      BY <1>4, <1>9 DEF OnStack, TargetDone
    <3>2. \A i \in 1 .. n :
              Attributes[stack[i]].kind # "halt" => RemainsReady(stack[i], data', above)
      BY <1>4, <2>6 DEF OnStack
    <3>3. ASSUME NEW x, Behind(x, stack, data) PROVE Behind(x, stack, data')
      <4>0. PICK k \in 1 .. n : \E i \in 1 .. data.sub[stack[k]] : x \in Subtree[Subs(stack[k])[i]]
        BY <3>3 DEF Behind
      <4>1. PICK i \in 1 .. data.sub[stack[k]] : x \in Subtree[Subs(stack[k])[i]]
        BY <4>0
      <4>2. data.sub[stack[k]] \in Nat /\ stack[k] \in Event
        BY <1>1, <1>3, DataFields
      <4>3. data'.sub[stack[k]] = data.sub[stack[k]] \/ data'.sub[stack[k]] = data.sub[stack[k]] + 1
        BY <2>1, <4>2
      <4>4. \A m \in Nat : \A j \in 1 .. m : j \in 1 .. m + 1
        OBVIOUS
      <4>5. i \in 1 .. data'.sub[stack[k]]
        BY <4>2, <4>3, <4>4
      <4> QED
        BY <4>1, <4>5 DEF Behind
    <3>4. \A x \in Seen(data') :
              \/ Attributes[x].kind = "halt" \/ Behind(x, stack, data')
              \/ data'.forecast[x] = Forecast(x, data', above, 1)
      BY <1>4, <1>9, <2>4, <2>5, <3>3 DEF OnStack
    <3>5. ASSUME early, NEW c \in Children(e) PROVE ~Unfinished(c, data')
      <4>1. e \notin Subtree[c]
        BY <1>1, <3>5, TopNotBelow DEF e
      <4>2. ~Unfinished(c, data)
        BY <1>4, <3>5 DEF OnStack, e
      <4> QED
        BY <2>3, <4>1, <4>2
    <3>6. Executing' = e
      BY <1>9 DEF Executing, e
    <3> QED
      BY <1>2, <1>9, <3>1, <3>2, <3>4, <3>5, <3>6 DEF OnStack
  <2> QED
    BY <1>1, <1>2, <2>10, <2>11 DEF Resumable
<1> QED
  BY <1>2, <1>8, <1>9

LEMMA CallerNotBelow ==
  ASSUME Nest, data \in Data, SubsInRange(data), data.current < Len(Main), stack # << >>,
         Len(stack) > 1
  PROVE  Caller \notin Subtree[Executing]
<1>1. /\ Len(stack) \in Nat /\ Len(stack) \in 1 .. Len(stack)
      /\ Executing \in Event /\ Executing = stack[Len(stack)]
  BY TopOfStack DEF Nest, Executing
<1> DEFINE k == Len(stack) - 1
<1>2. k \in 1 .. Len(stack) /\ ~(Len(stack) \in 1 .. k) /\ \A j \in 1 .. k : j \in 1 .. Len(stack)
  BY <1>1
<1>3. Caller = stack[k]
  BY DEF Caller
<1> HIDE DEF k
<1>4. SUFFICES ASSUME stack[k] \in Subtree[Executing] PROVE FALSE
  BY <1>3
<1>5. PICK j \in 1 .. k : Executing = stack[j]
  BY <1>1, <1>2, <1>4, AboveStack
<1>6. j = Len(stack)
  BY <1>1, <1>2, <1>5, StackTree
<1> QED
  BY <1>2, <1>6

LEMMA ReturnResumable ==
  ASSUME HaltsAlone, Control, Resumable, ReturnFromExecute
  PROVE  Resumable'
<1> DEFINE e == Executing
           n == Len(stack)
<1>1. /\ data \in Data /\ SubsInRange(data) /\ stack \in Seq(Event) /\ Nest
      /\ phase = "execute" /\ stack # << >> /\ data.current < Len(Main)
  BY DEF Control, Types, Position, Nest, ReturnFromExecute
<1>2. n > 1 => /\ n - 1 \in 1 .. n - 1 /\ Caller # e /\ Enters(Caller, data, e)
  BY <1>1, Nested
<1>3. /\ data.sub[e] = Len(Subs(e)) /\ data' \in Data /\ SameCycle(data, data')
      /\ data'.forecast = data.forecast
      /\ data'.executing = [data.executing EXCEPT ![e] = FALSE]
      /\ data'.lastTime = [data.lastTime EXCEPT ![e] = data.time]
      /\ data'.lastCycle = [data.lastCycle EXCEPT ![e] = data.cycle]
      /\ \A x \in Event : data'.sub[x] = IF x = e THEN 0
                                         ELSE IF n > 1 /\ x = Caller
                                         THEN data.sub[x] + 1 ELSE data.sub[x]
      /\ stack' = SubSeq(stack, 1, n - 1)
      /\ phase' = IF n = 1 THEN "collect" ELSE phase
      /\ UNCHANGED <<early, file, above>>
  BY <1>1, <1>2, ReturnEffect
<1>4. /\ n \in Nat /\ n \in 1 .. n /\ e \in Event /\ e = stack[n] /\ e \in Subtree[Current]
      /\ Subtree[Current] \subseteq Event /\ Current \in Event /\ stack[1] = Current
      /\ \A i \in 1 .. n : stack[i] \in Event
  BY <1>1, TopOfStack, StackBelowCurrent, CurrentEvent, StackTree, Nested DEF Executing
<1>5. /\ Len(stack') = n - 1 /\ \A i \in 1 .. n - 1 : stack'[i] = stack[i]
  BY <1>1, <1>3, PopEffect
<1> HIDE DEF e
<1>6. Path(data, above) /\ OnStack
  BY <1>1 DEF Resumable
<1>7. /\ \A x \in Event : x # e => /\ data'.executing[x] = data.executing[x]
                                   /\ data'.lastTime[x] = data.lastTime[x]
                                   /\ data'.lastCycle[x] = data.lastCycle[x]
      /\ data'.executing[e] = FALSE /\ data'.sub[e] = 0
  <2>1. /\ data.executing \in [Event -> BOOLEAN] /\ data.lastTime \in [Event -> Int]
        /\ data.lastCycle \in [Event -> Int]
    BY <1>1, DataFields
  <2>2. e \in Event /\ data'.sub[e] = 0
    BY <1>3, <1>4
  <2>3. /\ data'.executing[e] = FALSE
        /\ \A x \in Event : x # e => data'.executing[x] = data.executing[x]
    BY ONLY <1>3, <2>1, <2>2
  <2>4. \A x \in Event : x # e => data'.lastTime[x] = data.lastTime[x]
    BY ONLY <1>3, <2>1, <2>2
  <2>5. \A x \in Event : x # e => data'.lastCycle[x] = data.lastCycle[x]
    BY ONLY <1>3, <2>1, <2>2
  <2> QED
    BY <2>2, <2>3, <2>4, <2>5
<1>8. \A c \in Children(e) : c \in Event /\ ~Unfinished(c, data)
  <2>1. \A c : ~Enters(e, data, c)
    <3>1. Len(Subs(e)) \in Nat /\ \A k \in Nat : ~(k < k)
      BY <1>4, SubEvents
    <3> QED
      BY <1>3, <3>1 DEF Enters
  <2> QED
    BY <1>4, <1>6, <2>1, EventTree DEF Path
<1>9. \A x \in Subtree[e] : x \in Half(data) => x = e
  <2> SUFFICES ASSUME NEW x \in Subtree[e], x \in Half(data), x # e PROVE FALSE
    OBVIOUS
  <2>1. PICK s \in Children(e) : x \in Subtree[s]
    BY <1>4, Subtrees
  <2> QED
    BY <1>8, <2>1 DEF Unfinished
<1>10. Seen(data') = Seen(data) /\ data'.current = data.current /\ Current = Main[data.current + 1]
  BY <1>3 DEF Seen, SameCycle, SameClock, Current
<1>11. CASE n = 1
  <2>1. e = Current
    BY <1>4, <1>11
  <2>2. Half(data') = {}
    <3> SUFFICES ASSUME NEW x \in Half(data') PROVE FALSE
      OBVIOUS
    <3>1. x \in Event /\ x # e
      BY <1>7 DEF Half
    <3>2. x \in Half(data)
      BY <1>3, <1>7, <1>11, <3>1 DEF Half
    <3> QED
      BY <1>6, <1>9, <1>10, <2>1, <3>1, <3>2 DEF Path
  <2>3. Path(data', above)
    BY <1>3, <2>2, NoneUnfinished
  <2> QED
    BY <1>3, <1>11, <2>2, <2>3 DEF Resumable
<1>12. CASE n > 1
  <2> DEFINE p == Caller
  <2>1. /\ n - 1 \in 1 .. n - 1 /\ n - 1 \in 1 .. n /\ (n - 1) + 1 = n
        /\ p # e /\ Enters(p, data, e) /\ p \in Event /\ p = stack[n - 1]
        /\ phase' = "execute"
    BY <1>1, <1>2, <1>3, <1>4, <1>12 DEF Caller
  <2>2. /\ data.sub[p] \in Nat /\ Len(Subs(p)) \in Nat /\ data.sub[p] < Len(Subs(p))
        /\ e = Subs(p)[data.sub[p] + 1]
    BY <1>1, <2>1, DataFields, SubEvents DEF Enters
  <2>3. Len(Subs(p)) > 0 /\ data.sub[p] + 1 # 0 /\ e \in Children(p)
    <3>1. data.sub[p] + 1 \in 1 .. Len(Subs(p)) /\ Len(Subs(p)) > 0 /\ data.sub[p] + 1 # 0
      BY <2>2
    <3> QED
      BY <2>1, <2>2, <3>1, SubEvents
  <2>4. data'.sub[p] = data.sub[p] + 1
    BY <1>3, <1>12, <2>1
  <2>5. \A x \in Event : x # e /\ x # p => data'.sub[x] = data.sub[x]
    BY <1>3
  <2> HIDE DEF p
  <2>6. p \in Half(data') /\ \A x \in Half(data') : x = p \/ (x \in Half(data) /\ x # e)
    BY <1>7, <2>1, <2>3, <2>4, <2>5 DEF Half
  <2>7. \A c : Unfinished(c, data') => Unfinished(c, data) \/ p \in Subtree[c]
    BY <2>6 DEF Unfinished
  <2>8. p \notin Subtree[e]
    BY <1>1, <1>12, CallerNotBelow DEF e, p
  <2>9. ~Unfinished(e, data')
    BY <1>9, <2>6, <2>8 DEF Unfinished
  <2>10. \A c \in Event : c # e => Forecast(c, data', above, 1) = Forecast(c, data, above, 1)
    <3> SUFFICES ASSUME NEW c \in Event, c # e
                 PROVE  Forecast(c, data', above, 1) = Forecast(c, data, above, 1)
      OBVIOUS
    <3>1. /\ data'.time = data.time /\ data'.dt = data.dt /\ data'.cycle = data.cycle
          /\ data'.lastTime[c] = data.lastTime[c] /\ data'.lastCycle[c] = data.lastCycle[c]
      BY <1>3, <1>7 DEF SameCycle, SameClock
    <3> QED
      BY <3>1, SameForecast
  <2>11. \A c \in Event : c # e /\ RemainsReady(c, data, above) => RemainsReady(c, data', above)
    BY <1>3, <1>10, <2>10 DEF RemainsReady
  <2>12. ASSUME NEW c \in Event, p \in Subtree[c]
         PROVE  /\ c # e /\ RemainsReady(c, data, above)
                /\ \A q \in Event : c \in Children(q) =>
                      q # e /\ q # p /\ Enters(q, data, c) /\ TargetDone(q, data)
    <3>1. /\ RemainsReady(c, data, above)
          /\ \A q \in Event : c \in Children(q) =>
                /\ Enters(q, data, c) /\ TargetDone(q, data)
                /\ \E i \in 1 .. n - 1 : i + 1 \in 1 .. n - 1 /\ q = stack[i] /\ c = stack[i + 1]
      <4>1. stack[n - 1] \in Subtree[c] /\ Len(Subs(stack[n - 1])) > 0
        BY <2>1, <2>3, <2>12
      <4> DEFINE k == n - 1
      <4>3. k \in 1 .. Len(stack) /\ stack[k] \in Subtree[c] /\ Len(Subs(stack[k])) > 0
        BY <2>1, <4>1
      <4> HIDE DEF k
      <4>4. /\ RemainsReady(c, data, above)
            /\ \A q \in Event : c \in Children(q) =>
                  /\ Enters(q, data, c) /\ TargetDone(q, data)
                  /\ \E i \in 1 .. Len(stack) - 1 : i + 1 \in 1 .. k /\ q = stack[i] /\ c = stack[i + 1]
        BY <1>1, <1>6, <4>3, AboveEntered
      <4> QED
        BY <4>4 DEF k
    <3>2. ASSUME NEW q \in Event, c \in Children(q) PROVE q # e /\ q # p
      <4>1. PICK i \in 1 .. n - 1 : i + 1 \in 1 .. n - 1 /\ q = stack[i]
        BY <3>1, <3>2
      <4>2. i \in 1 .. n /\ i # n /\ i # n - 1
        BY <1>4, <4>1
      <4> QED
        BY <1>1, <1>4, <2>1, <4>1, <4>2, StackTree
    <3> QED
      BY <2>8, <2>12, <3>1, <3>2
  <2>13. \A q \in Event : \A c : q # e /\ q # p /\ Enters(q, data, c) /\ TargetDone(q, data) =>
                                 Enters(q, data', c) /\ TargetDone(q, data')
    BY <1>7, <2>5 DEF Enters, TargetDone
  <2>14. ASSUME NEW q \in Event, NEW c \in Children(q), Unfinished(c, data')
         PROVE  q # e /\ q # p /\ Enters(q, data, c) /\ TargetDone(q, data)
    <3>1. c \in Event /\ c # e
      BY <2>9, <2>14, EventTree
    <3>2. CASE p \in Subtree[c]
      BY <2>12, <3>1, <3>2
    <3>3. CASE p \notin Subtree[c]
      <4>1. Unfinished(c, data) /\ Enters(q, data, c) /\ TargetDone(q, data)
        BY <1>6, <2>7, <2>14, <3>3 DEF Path
      <4>2. q # p
        BY <2>2, <3>1, <4>1 DEF Enters
      <4>3. q # e
        BY <1>8, <4>1
      <4> QED
        BY <4>1, <4>2, <4>3
    <3> QED
      BY <3>2, <3>3
  <2>15. Path(data', above)
    <3>1. \A x \in Half(data') : data'.current < Len(Main) /\ x \in Subtree[Main[data'.current + 1]]
      <4>1. p \in Subtree[Current]
        BY <1>1, <2>1, StackBelowCurrent
      <4> QED
        BY <1>1, <1>6, <1>10, <2>6, <4>1 DEF Path
    <3>2. \A x \in Event : data'.executing[x] => Target(x) # "none"
      BY <1>6, <1>7 DEF Path
    <3>3. \A x \in Event : Unfinished(x, data') => RemainsReady(x, data', above)
      BY <1>6, <2>7, <2>9, <2>11, <2>12 DEF Path
    <3>4. \A q \in Event : \A c \in Children(q) :
              Unfinished(c, data') => Enters(q, data', c) /\ TargetDone(q, data')
      BY <2>13, <2>14
    <3> QED
      BY <3>1, <3>2, <3>3, <3>4 DEF Path
  <2>16. \A i \in 1 .. n - 1 : i \in 1 .. n /\ i # n /\ stack[i] # e
    <3>1. \A i \in 1 .. n - 1 : i \in 1 .. n /\ i # n
      BY <1>4
    <3> QED
      BY <1>1, <1>4, <3>1, StackTree
  <2>17. OnStack'
    <3>1. \A i \in 1 .. (n - 1) - 1 : TargetDone(stack'[i], data')
      <4>1. \A i \in 1 .. (n - 1) - 1 : i \in 1 .. n - 1
        BY <1>4
      <4> QED
        BY <1>4, <1>5, <1>6, <1>7, <2>16, <4>1 DEF OnStack, TargetDone
    <3>2. \A i \in 1 .. n - 1 :
              Attributes[stack'[i]].kind # "halt" => RemainsReady(stack'[i], data', above)
      BY <1>4, <1>5, <1>6, <2>11, <2>16 DEF OnStack
    <3>3. ASSUME NEW x \in Subtree[e] PROVE Behind(x, stack', data')
      <4>1. data.sub[p] + 1 \in 1 .. data'.sub[p]
        BY <2>2, <2>4
      <4>2. n - 1 \in 1 .. Len(stack') /\ stack'[n - 1] = p
        BY <1>5, <2>1
      <4> QED
        BY <2>2, <4>1, <4>2 DEF Behind
    <3>4. ASSUME NEW x, Behind(x, stack, data) PROVE Behind(x, stack', data')
      <4>1. PICK k \in 1 .. n : \E i \in 1 .. data.sub[stack[k]] : x \in Subtree[Subs(stack[k])[i]]
        BY <3>4 DEF Behind
      <4>2. PICK i \in 1 .. data.sub[stack[k]] : x \in Subtree[Subs(stack[k])[i]]
        BY <4>1
      <4>3. CASE k = n
        <5>1. i \in 1 .. Len(Subs(e)) /\ x \in Subtree[Subs(e)[i]]
          BY <1>3, <1>4, <4>2, <4>3
        <5>2. x \in Subtree[e]
          BY <1>4, <5>1, SubEvents, Subtrees
        <5> QED
          BY <3>3, <5>2
      <4>4. CASE k # n
        <5>1. k \in 1 .. n - 1 /\ k \in 1 .. Len(stack') /\ stack'[k] = stack[k] /\ stack[k] # e
          BY <1>4, <1>5, <2>16, <4>4
        <5>2. data.sub[stack[k]] \in Nat /\ stack[k] \in Event
          BY <1>1, <1>4, DataFields
        <5>3. data'.sub[stack[k]] = data.sub[stack[k]] \/ data'.sub[stack[k]] = data.sub[stack[k]] + 1
          BY <2>4, <2>5, <5>1, <5>2
        <5>4. \A m \in Nat : \A j \in 1 .. m : j \in 1 .. m + 1
          OBVIOUS
        <5>5. i \in 1 .. data'.sub[stack[k]]
          BY <4>2, <5>2, <5>3, <5>4
        <5> QED
          BY <4>2, <5>1, <5>5 DEF Behind
      <4> QED
        BY <4>3, <4>4
    <3>5. \A x \in Seen(data') :
              \/ Attributes[x].kind = "halt" \/ Behind(x, stack', data')
              \/ data'.forecast[x] = Forecast(x, data', above, 1)
      <4>1. Seen(data) \subseteq Event /\ e \in Subtree[e]
        BY <1>4, <1>10, CheckedEvents, SubtreesBelow DEF Seen
      <4> QED
        BY <1>3, <1>6, <1>10, <2>10, <3>3, <3>4, <4>1 DEF OnStack
    <3>6. \A c \in Children(p) : ~Unfinished(c, data')
      BY <2>1, <2>14
    <3>7. Executing' = p
      <4>1. Executing' = stack'[Len(stack')]
        BY DEF Executing
      <4> QED
        BY <1>5, <2>1, <4>1
    <3> QED
      BY <1>3, <1>5, <3>1, <3>2, <3>5, <3>6, <3>7 DEF OnStack
  <2> QED
    BY <1>1, <1>3, <2>1, <2>15, <2>17 DEF Resumable
<1> QED
  BY <1>4, <1>11, <1>12

LEMMA ResumableStep ==
  ASSUME HaltsAlone, RestartsAfterFirst, Control, Resumable, [Next]_vars
  PROVE  Resumable'
<1>1. CASE \E clock \in 0 .. 2 : CheckEvent(clock)
  <2>1. PICK clock \in 0 .. 2 : CheckEvent(clock)
    BY <1>1
  <2>2. clock \in Int
    OBVIOUS
  <2> QED
    BY <2>1, <2>2, CheckResumable
<1>2. CASE UNCHANGED vars
  <2>1. OnStack' <=> OnStack
    BY <1>2 DEF OnStack, Executing, vars
  <2> QED
    BY <1>2, <2>1 DEF Resumable, vars
<1> QED
  BY <1>1, <1>2, RunResumable, RestartResumable, TargetResumable, SubEventResumable, ReturnResumable
     DEF Next, Step, Ended

LEMMA ResumableInitially ==
  ASSUME Init
  PROVE  Resumable
<1>1. data \in Data /\ Half(data) = {}
  BY ControlInitially DEF Init, Control, Types, Half
<1>2. Path(data, above)
  BY <1>1, NoneUnfinished
<1> QED
  BY <1>1, <1>2 DEF Init, Resumable

LEMMA ResumableAlways ==
  ASSUME HaltsAlone, RestartsAfterFirst
  PROVE  Spec => []Resumable
<1>1. Init => Resumable
  BY ResumableInitially
<1>2. Control /\ Resumable /\ [Next]_vars => Resumable'
  BY ResumableStep
<1> QED
  BY <1>1, <1>2, ControlAlways, PTL DEF Spec

(* Every variable keeps its type, the executions in progress are one below   *)
(* the other, and only events of the current one of the loop are half        *)
(* executed (EventBase::execute, EventManager::run), also in a process that  *)
(* resumes from a file that was written in the middle of them.               *)
THEOREM HalfExecutedOnPath ==
  ASSUME HaltsAlone, RestartsAfterFirst
  PROVE  Spec => []TypeOK
<1>1. Control /\ Resumable => TypeOK
  <2> SUFFICES ASSUME Control, Resumable PROVE TypeOK
    OBVIOUS
  <2>1. /\ data \in Data /\ SubsInRange(data) /\ Types /\ Position /\ Nest
    BY DEF Control, Types
  <2>2. /\ data.time \in Int /\ data.dt \in Int /\ data.cycle \in Nat
        /\ data.current \in 0 .. Len(Main)
        /\ \A e \in Event :
            /\ data.lastTime[e] \in Int /\ data.lastCycle[e] \in Int /\ data.forecast[e] \in Int
            /\ data.executing[e] \in BOOLEAN /\ data.steps[e] \in Nat /\ data.sub[e] \in Nat
    BY <2>1, DataFields
  <2>3. \A e \in Event : data.sub[e] \in 0 .. Len(Subs(e))
    <3>1. \A e \in Event : data.sub[e] \in Nat /\ Len(Subs(e)) \in Nat /\ data.sub[e] <= Len(Subs(e))
      BY <2>1, <2>2, SubEvents DEF SubsInRange
    <3> QED
      BY <3>1
  <2>4. \A e \in Event : data.executing[e] \/ data.sub[e] # 0 =>
            data.current < Len(Main) /\ e \in Subtree[Main[data.current + 1]]
    BY DEF Resumable, Path, Half
  <2>5. stack # << >> => phase = "execute" /\ stack[1] = Main[data.current + 1]
    BY <2>1 DEF Position, Nest
  <2>6. \A i \in 1 .. Len(stack) - 1 : stack[i + 1] = Subs(stack[i])[data.sub[stack[i]] + 1]
    BY <2>1 DEF Nest, Enters
  <2>7. \A i \in DOMAIN stack : stack[i] \in Event
    BY <2>1, ElementOfSeq DEF Nest
  <2>8. /\ \A e \in Event : exitFlags[e] \in BOOLEAN
        /\ exitFlag \in BOOLEAN /\ early \in BOOLEAN
        /\ phase \in {"ready", "loop", "check", "execute", "collect", "returned", "done"}
        /\ at \in 0 .. Len(log)
    BY <2>1 DEF Types, Phases
  <2> QED
    BY <2>2, <2>3, <2>4, <2>5, <2>6, <2>7, <2>8 DEF TypeOK
<1> QED
  BY <1>1, ControlAlways, ResumableAlways, PTL
-----------------------------------------------------------------------------
(* The sub-events of an event that has executed.                             *)

NoReturnsToPython == \A e \in Event : Target(e) # "python"

\* The target of an event has executed in this cycle, or is not to.
Served(e, d, a) ==
    \/ Target(e) = "none" \/ d.lastCycle[e] = d.cycle
    \/ /\ ~IsReadyForExec(d.forecast[e])
       /\ e \in Seen(d) => ~IsReadyForExec(Forecast(e, d, a, 1))
ServedBelow(d, a) == \A e \in Event : \A i \in 1 .. d.sub[e] : Served(Subs(e)[i], d, a)

Serving ==
    /\ ServedBelow(data, above) /\ ~early
    /\ file # NoFile => ServedBelow(file.data, above)

LEMMA NoneServed ==
  ASSUME NEW d \in Data, NEW a, Half(d) = {}
  PROVE  ServedBelow(d, a)
<1>1. \A e \in Event : 1 .. d.sub[e] = {}
  BY DEF Half
<1> QED
  BY <1>1 DEF ServedBelow

LEMMA SameServed ==
  ASSUME NEW e \in Event, NEW d, NEW o, NEW a, SameCycle(d, o), o.forecast[e] = d.forecast[e],
         o.lastTime[e] = d.lastTime[e], o.lastCycle[e] = d.lastCycle[e], Served(e, d, a)
  PROVE  Served(e, o, a)
<1>1. Forecast(e, o, a, 1) = Forecast(e, d, a, 1)
  BY SameForecast DEF SameCycle, SameClock
<1>2. Seen(o) = Seen(d) /\ o.cycle = d.cycle
  BY DEF Seen, SameCycle, SameClock
<1> QED
  BY <1>1, <1>2 DEF Served

LEMMA SubEvent ==
  ASSUME NEW d \in Data, SubsInRange(d), NEW e \in Event, NEW i \in 1 .. d.sub[e]
  PROVE  Subs(e)[i] \in Event /\ i \in 1 .. Len(Subs(e))
<1>1. d.sub[e] \in Nat /\ Len(Subs(e)) \in Nat /\ d.sub[e] <= Len(Subs(e))
  BY DataFields, SubEvents DEF SubsInRange
<1>2. i \in 1 .. Len(Subs(e))
  BY <1>1
<1> QED
  BY <1>2, SubEvents

LEMMA SameServedBelow ==
  ASSUME NEW d \in Data, SubsInRange(d), NEW o, NEW a, SameCycle(d, o), o.forecast = d.forecast,
         o.lastTime = d.lastTime, o.lastCycle = d.lastCycle, o.sub = d.sub, ServedBelow(d, a)
  PROVE  ServedBelow(o, a)
<1> SUFFICES ASSUME NEW e \in Event, NEW i \in 1 .. d.sub[e] PROVE Served(Subs(e)[i], o, a)
  BY DEF ServedBelow
<1>1. Subs(e)[i] \in Event /\ Served(Subs(e)[i], d, a)
  BY SubEvent DEF ServedBelow
<1> QED
  BY <1>1, SameServed

LEMMA RunServing ==
  ASSUME Control, Resumable, Serving, Run \/ StartCycle \/ EndCycle \/ Finish \/ CollectExitFlag
  PROVE  Serving'
<1>1. /\ data \in Data /\ SubsInRange(data) /\ plan \in [0 .. PlanLength - 1 -> Requests]
      /\ phase = "collect" => data.current < Len(Main)
      /\ data.current = 0 /\ phase # "execute" => Half(data) = {}
      /\ phase = "collect" \/ data.current = Len(Main) => Half(data) = {}
  BY DataFields, MainEvents DEF Control, Types, Position, Resumable, Path
<1>2. ASSUME SameEvents(data, data'), data' \in Data, Half(data) = {} \/ SameCycle(data, data')
      PROVE  ServedBelow(data', above)
  <2>1. CASE Half(data) = {}
    <3>1. Half(data') = {}
      BY <1>2, <2>1, SameHalf DEF SameEvents
    <3> QED
      BY <1>2, <3>1, NoneServed
  <2>2. CASE SameCycle(data, data')
    BY <1>1, <1>2, <2>2, SameServedBelow DEF Serving, SameEvents
  <2> QED
    BY <1>2, <2>1, <2>2
<1>3. CASE Run
  <2>1. /\ data' \in Data /\ data'.time = RunStart /\ data'.dt = data.dt
        /\ data'.cycle = data.cycle /\ data'.current = data.current /\ SameEvents(data, data')
        /\ phase \in {"ready", "returned"} /\ UNCHANGED <<file, early, above>>
    BY <1>1, <1>3, RunEffect
  <2>2. data.current # 0 => SameCycle(data, data')
    BY <2>1 DEF RunStart, SameCycle, SameClock
  <2> QED
    BY <1>1, <1>2, <2>1, <2>2 DEF Serving
<1>4. CASE StartCycle
  <2>1. /\ data' \in Data /\ data'.time = data.time
        /\ data'.dt = IF data.current = 0 THEN CycleDt ELSE data.dt
        /\ data'.cycle = data.cycle /\ data'.current = data.current /\ SameEvents(data, data')
        /\ phase = "loop" /\ UNCHANGED <<file, early, above>>
    BY <1>1, <1>4, StartCycleEffect
  <2>2. data.current # 0 => SameCycle(data, data')
    BY <2>1 DEF SameCycle, SameClock
  <2> QED
    BY <1>1, <1>2, <2>1, <2>2 DEF Serving
<1>5. CASE EndCycle
  <2>1. /\ data' \in Data /\ SameEvents(data, data')
        /\ data.current = Len(Main) /\ UNCHANGED <<file, early, above>>
    BY <1>1, <1>5, EndCycleEffect
  <2> QED
    BY <1>1, <1>2, <2>1 DEF Serving
<1>6. CASE Finish
  <2>1. /\ file' = file \/ file' = [at |-> at, data |-> data]
        /\ UNCHANGED <<data, early, above>>
    BY <1>6, FinishEffect
  <2> QED
    BY <2>1 DEF Serving
<1>7. CASE CollectExitFlag
  <2>1. phase = "collect"
    BY <1>7 DEF CollectExitFlag
  <2>2. /\ data' \in Data /\ SameEvents(data, data') /\ early' = FALSE /\ UNCHANGED <<file, above>>
    BY <1>1, <1>7, <2>1, CollectExitFlagEffect
  <2> QED
    BY <1>1, <1>2, <2>1, <2>2 DEF Serving
<1> QED
  BY <1>3, <1>4, <1>5, <1>6, <1>7

LEMMA CheckServing ==
  ASSUME HaltsAlone, Control, Serving, NEW clock \in Int, CheckEvent(clock)
  PROVE  Serving'
<1>1. data \in Data /\ SubsInRange(data)
  BY DEF Control, Types
<1>2. /\ SameCycle(data, data')
      /\ data'.lastTime = data.lastTime /\ data'.lastCycle = data.lastCycle
      /\ data'.sub = data.sub /\ data'.forecast = NewForecast(clock)
      /\ data.current < Len(Main) /\ UNCHANGED <<early, file, above>>
  BY <1>1, CheckEventEffect
<1>3. Seen(data') = CheckedNow /\ Seen(data) = CheckedNow /\ data'.cycle = data.cycle
  BY <1>2 DEF Seen, CheckedNow, Current, SameCycle, SameClock
<1>4. \A e : Forecast(e, data', above, 1) = Forecast(e, data, above, 1)
  BY <1>2, SameForecast DEF SameCycle, SameClock
<1>5. ASSUME NEW e \in Event, Served(e, data, above) PROVE Served(e, data', above)
  <2>1. Attributes[e].kind # "halt" => Forecast(e, data, above, clock) = Forecast(e, data, above, 1)
    BY AnyClock
  <2>2. Attributes[e].kind = "halt" => Target(e) = "none"
    BY DEF HaltsAlone
  <2>3. data'.forecast[e] = IF e \in CheckedNow THEN Forecast(e, data, above, clock)
                            ELSE data.forecast[e]
    BY <1>2 DEF NewForecast
  <2> QED
    BY <1>2, <1>3, <1>4, <1>5, <2>1, <2>2, <2>3 DEF Served
<1>6. ServedBelow(data', above)
  <2> SUFFICES ASSUME NEW e \in Event, NEW i \in 1 .. data.sub[e]
               PROVE  Served(Subs(e)[i], data', above)
    BY <1>2 DEF ServedBelow
  <2> QED
    BY <1>1, <1>5, SubEvent DEF Serving, ServedBelow
<1> QED
  BY <1>2, <1>6 DEF Serving

LEMMA TargetServing ==
  ASSUME NoReturnsToPython, Control, Serving, ExecuteTarget
  PROVE  Serving'
<1>1. /\ data \in Data /\ SubsInRange(data) /\ stack \in Seq(Event) /\ stack # << >>
      /\ log \in Seq(Entry) /\ at \in 0 .. Len(log)
  BY DEF Control, Types, Position, Nest, ExecuteTarget
<1>2. /\ SameCycle(data, data') /\ early' = (Target(Executing) = "python")
      /\ data'.lastTime = data.lastTime /\ data'.lastCycle = data.lastCycle
      /\ data'.forecast = data.forecast /\ data'.sub = data.sub
      /\ file' = IF Target(Executing) = "restart" THEN [at |-> at', data |-> data'] ELSE file
      /\ UNCHANGED above
  BY <1>1, ExecuteTargetEffect
<1>3. ServedBelow(data', above)
  BY <1>1, <1>2, SameServedBelow DEF Serving
<1>4. ~early'
  BY <1>1, <1>2, TopOfStack DEF NoReturnsToPython
<1> QED
  BY <1>2, <1>3, <1>4 DEF Serving

LEMMA SubEventServing ==
  ASSUME HaltsAlone, Control, Resumable, Serving, ExecuteSubEvent
  PROVE  Serving'
<1> DEFINE e == Executing
<1>1. /\ data \in Data /\ SubsInRange(data) /\ stack \in Seq(Event) /\ Nest
      /\ phase = "execute" /\ stack # << >> /\ data.current < Len(Main)
  BY DEF Control, Types, Position, Nest, ExecuteSubEvent
<1>2. /\ data.sub[e] < Len(Subs(e)) /\ NextSub \in Event
      /\ \/ data' = data
         \/ /\ ~(IsReadyForExec(data.forecast[NextSub]) /\ ~early)
            /\ SameCycle(data, data')
            /\ data'.lastTime = data.lastTime /\ data'.lastCycle = data.lastCycle
            /\ data'.forecast = data.forecast
            /\ data'.sub = [data.sub EXCEPT ![e] = data.sub[e] + 1]
      /\ UNCHANGED <<early, file, above>>
  BY <1>1, ExecuteSubEventEffect
<1>3. e \in Event /\ data.sub \in [Event -> Nat]
  BY <1>1, TopOfStack, DataFields
<1>4. CASE data' = data
  BY <1>2, <1>4 DEF Serving
<1>5. CASE /\ ~(IsReadyForExec(data.forecast[NextSub]) /\ ~early)
           /\ SameCycle(data, data')
           /\ data'.lastTime = data.lastTime /\ data'.lastCycle = data.lastCycle
           /\ data'.forecast = data.forecast
           /\ data'.sub = [data.sub EXCEPT ![e] = data.sub[e] + 1]
  <2>1. Served(NextSub, data, above)
    <3>1. ~Behind(NextSub, stack, data)
      BY <1>1, <1>2, NotBehind
    <3>2. NextSub \in Seen(data) =>
              \/ Attributes[NextSub].kind = "halt"
              \/ data.forecast[NextSub] = Forecast(NextSub, data, above, 1)
      BY <1>1, <3>1 DEF Resumable, OnStack
    <3>3. Attributes[NextSub].kind = "halt" => Target(NextSub) = "none"
      BY <1>2 DEF HaltsAlone
    <3> QED
      BY <1>5, <3>2, <3>3 DEF Served, Serving
  <2>2. NextSub = Subs(e)[data.sub[e] + 1]
    BY DEF NextSub
  <2> HIDE DEF e
  <2>3. ASSUME NEW x \in Event, NEW i \in 1 .. data'.sub[x] PROVE Served(Subs(x)[i], data, above)
    <3>1. data.sub[x] \in Nat
      BY <1>3
    <3>2. data'.sub[x] = IF x = e THEN data.sub[x] + 1 ELSE data.sub[x]
      BY <1>3, <1>5
    <3>3. i \in 1 .. data.sub[x] \/ (x = e /\ i = data.sub[e] + 1)
      BY <2>3, <3>1, <3>2
    <3> QED
      BY <2>1, <2>2, <3>3 DEF Serving, ServedBelow
  <2>4. SubsInRange(data') /\ data' \in Data
    BY SubEventControl DEF Control, Types
  <2>5. ServedBelow(data', above)
    <3> SUFFICES ASSUME NEW x \in Event, NEW i \in 1 .. data'.sub[x]
                 PROVE  Served(Subs(x)[i], data', above)
      BY DEF ServedBelow
    <3>1. Subs(x)[i] \in Event
      BY <2>4, SubEvent
    <3> QED
      BY <1>5, <2>3, <3>1, SameServed
  <2> QED
    BY <1>2, <2>5 DEF Serving
<1> QED
  BY <1>2, <1>4, <1>5

LEMMA ReturnServing ==
  ASSUME Control, Serving, ReturnFromExecute
  PROVE  Serving'
<1> DEFINE e == Executing
           n == Len(stack)
<1>1. /\ data \in Data /\ SubsInRange(data) /\ stack \in Seq(Event) /\ Nest /\ stack # << >>
  BY DEF Control, Types, Position, Nest, ReturnFromExecute
<1>2. n > 1 => Caller # e /\ Enters(Caller, data, e)
  BY <1>1, Nested
<1>3. /\ data' \in Data /\ SameCycle(data, data') /\ data'.forecast = data.forecast
      /\ data'.lastTime = [data.lastTime EXCEPT ![e] = data.time]
      /\ data'.lastCycle = [data.lastCycle EXCEPT ![e] = data.cycle]
      /\ \A x \in Event : data'.sub[x] = IF x = e THEN 0
                                         ELSE IF n > 1 /\ x = Caller
                                         THEN data.sub[x] + 1 ELSE data.sub[x]
      /\ UNCHANGED <<early, file, above>>
  BY <1>1, <1>2, ReturnEffect
<1>4. e \in Event
  BY <1>1, TopOfStack
<1> HIDE DEF e
<1>5. /\ \A x \in Event : x # e => /\ data'.lastTime[x] = data.lastTime[x]
                                   /\ data'.lastCycle[x] = data.lastCycle[x]
      /\ data'.lastCycle[e] = data.cycle /\ data'.cycle = data.cycle
  BY ZenonT(40), <1>1, <1>3, <1>4, DataFields DEF SameCycle, SameClock
<1>6. ASSUME NEW x \in Event, NEW i \in 1 .. data'.sub[x]
      PROVE  Subs(x)[i] = e \/ Served(Subs(x)[i], data, above)
  <2>1. data.sub[x] \in Nat
    BY <1>1, DataFields
  <2>2. x # e
    BY <1>3, <1>6
  <2>3. i \in 1 .. data.sub[x] \/ (n > 1 /\ x = Caller /\ i = data.sub[x] + 1)
    BY <1>3, <1>6, <2>1, <2>2
  <2> QED
    BY <1>2, <2>3 DEF Serving, ServedBelow, Enters
<1>7. SubsInRange(data')
  BY ReturnControl DEF Control
<1>8. ServedBelow(data', above)
  <2> SUFFICES ASSUME NEW x \in Event, NEW i \in 1 .. data'.sub[x]
               PROVE  Served(Subs(x)[i], data', above)
    BY DEF ServedBelow
  <2>1. Subs(x)[i] \in Event
    BY <1>3, <1>7, SubEvent
  <2>2. Served(e, data', above)
    BY <1>5 DEF Served
  <2> DEFINE s == Subs(x)[i]
  <2>3. s = e \/ Served(s, data, above)
    BY <1>6
  <2>4. s \in Event
    BY <2>1
  <2> HIDE DEF s
  <2>5. s # e => Served(s, data', above)
    BY <1>3, <1>5, <2>3, <2>4, SameServed
  <2>6. Served(s, data', above)
    BY <2>2, <2>5
  <2> QED
    BY <2>6 DEF s
<1> QED
  BY <1>3, <1>8 DEF Serving

LEMMA ServingStep ==
  ASSUME HaltsAlone, NoReturnsToPython, Control, Resumable, Serving, [Next]_vars
  PROVE  Serving'
<1>1. CASE \E clock \in 0 .. 2 : CheckEvent(clock)
  <2>1. PICK clock \in 0 .. 2 : CheckEvent(clock)
    BY <1>1
  <2>2. clock \in Int
    OBVIOUS
  <2> QED
    BY <2>1, <2>2, CheckServing
<1>2. CASE UNCHANGED vars
  BY <1>2 DEF Serving, vars
<1>3. CASE Restart
  <2>1. /\ file # NoFile /\ data' = file.data /\ early' = FALSE /\ UNCHANGED <<file, above>>
    BY <1>3, RestartEffect
  <2> QED
    BY <2>1 DEF Serving
<1> QED
  BY <1>1, <1>2, <1>3, RunServing, TargetServing, SubEventServing, ReturnServing
     DEF Next, Step, Ended

(* An event returns from its execution only when the targets of all its      *)
(* sub-events that were ready have executed in this cycle                    *)
(* (EventBase::execute), also when the process that began the execution      *)
(* ended in the middle of it.                                                *)
THEOREM ServesSubEvents ==
  ASSUME HaltsAlone, RestartsAfterFirst, NoReturnsToPython
  PROVE  Spec => SubEventsExecuted
<1> DEFINE A == ReturnFromExecute =>
                    \A s \in Children(Executing) :
                        IsReadyForExec(data.forecast[s]) /\ Target(s) # "none" =>
                            data.lastCycle[s] = data.cycle
<1>1. Init => Serving
  <2> SUFFICES ASSUME Init PROVE Serving
    OBVIOUS
  <2>1. data \in Data /\ Half(data) = {}
    BY ControlInitially DEF Init, Control, Types, Half
  <2>2. ServedBelow(data, above)
    BY <2>1, NoneServed
  <2> QED
    BY <2>2 DEF Init, Serving
<1>2. Control /\ Resumable /\ Serving /\ [Next]_vars => Serving'
  BY ServingStep
<1>3. Control /\ Serving /\ [Next]_vars => [A]_vars
  <2> SUFFICES ASSUME Control, Serving, ReturnFromExecute, NEW s \in Children(Executing),
                      IsReadyForExec(data.forecast[s]), Target(s) # "none"
               PROVE  data.lastCycle[s] = data.cycle
    OBVIOUS
  <2>1. /\ data \in Data /\ stack \in Seq(Event) /\ stack # << >>
        /\ data.sub[Executing] = Len(Subs(Executing))
    BY DEF Control, Types, Nest, Position, ReturnFromExecute
  <2>2. Executing \in Event
    BY <2>1, TopOfStack
  <2>3. PICK i \in 1 .. Len(Subs(Executing)) : s = Subs(Executing)[i]
    BY <2>2, SubEvents
  <2>4. Served(s, data, above)
    BY <2>1, <2>2, <2>3 DEF Serving, ServedBelow
  <2> QED
    BY <2>4 DEF Served
<1> QED
  BY <1>1, <1>2, <1>3, ControlAlways, ResumableAlways, PTL DEF Spec, SubEventsExecuted
-----------------------------------------------------------------------------
(* The time steps that solvers ask for.                                      *)

\* A solver of the main loop that counts cycles and may stretch its last step.
\* (validate() refuses one with a positive time frequency; one with a frequency of
\* 0, which it lets pass, is left out here.  Behind an optional function a solver
\* can be idle when the length of a cycle is taken and ready in that cycle: it is
\* given a step that it was not asked about.)
Steady(e) == Target(e) = "solver" /\ Attributes[e].forceDt <= 0
SteadySolvers ==
    \A e \in Range(Main) : Steady(e) =>
        /\ Attributes[e].kind = "periodic" /\ Attributes[e].timeFrequency < 0
        /\ ~Attributes[e].function /\ Attributes[e].finalDtStretch >= 0
        /\ Attributes[e].targetExactStartStop \/ Attributes[e].beginTime <= MinTime

\* A solver that was idle when it was last checked, so that it is not asked for
\* a time step, is not ready in the cycle that follows.
CyclesLeft(e, d, cycle) == Attributes[e].cycleFrequency - (cycle - d.lastCycle[e])
Pending(e, d) ==
    IsActive(e, d.time) => \/ ~IsIdle(d.forecast[e])
                           \/ d.cycle # 0 /\ CyclesLeft(e, d, d.cycle) > 0
PendingNext(e, d) ==
    IsActive(e, d.time + d.dt) => \/ ~IsIdle(d.forecast[e])
                                  \/ CyclesLeft(e, d, d.cycle + 1) > 0

StepAllowed(e, d, q) ==
    100 * d.dt <= q[d.steps[e] % PlanLength] * (100 + Attributes[e].finalDtStretch)

TurnPending(i, d, c) ==
    Steady(Main[i]) => IF Finished(i, d, c) THEN PendingNext(Main[i], d) ELSE Pending(Main[i], d)
StepKept(i, d, c, q) ==
    /\ Steady(Main[i]) /\ ~Finished(i, d, c) /\ ~d.executing[Main[i]]
    /\ IsActive(Main[i], d.time) /\ ~IsIdle(d.forecast[Main[i]])
    => StepAllowed(Main[i], d, q)
Pendings(d, c) == \A i \in 1 .. Len(Main) : TurnPending(i, d, c)
StepsKept(d, c, q) == \A i \in 1 .. Len(Main) : StepKept(i, d, c, q)

Keeping ==
    /\ Pendings(data, Collecting)
    /\ phase \in Cycling \/ data.current # 0 => StepsKept(data, Collecting, plan)
    /\ phase = "execute" =>
          /\ IsReadyForExec(data.forecast[Current])
          /\ Steady(Current) /\ ~data.executing[Current] => StepAllowed(Current, data, plan)
    /\ ~Started => \A e \in Event : data.forecast[e] = 0
    /\ file # NoFile => /\ Pendings(file.data, FALSE)
                        /\ file.data.current # 0 => StepsKept(file.data, FALSE, plan)

LEMMA MainApart ==
  \A i, j \in 1 .. Len(Main) : Main[i] \in Subtree[Main[j]] => i = j
<1> SUFFICES ASSUME NEW i \in 1 .. Len(Main), NEW j \in 1 .. Len(Main),
                    Main[i] \in Subtree[Main[j]]
             PROVE  Main[i] = Main[j]
  BY MainEvents
<1>1. SUFFICES ASSUME Main[i] # Main[j] PROVE FALSE
  OBVIOUS
<1>2. PICK p \in Event : Main[i] \in Children(p)
  BY <1>1, ParentBelow, MainEvents
<1> QED
  BY <1>2, MainEvents

LEMMA SteadyTypes ==
  ASSUME SteadySolvers, NEW i \in 1 .. Len(Main), Steady(Main[i])
  PROVE  /\ Main[i] \in Event /\ Attributes[Main[i]].kind = "periodic"
         /\ Attributes[Main[i]].timeFrequency < 0 /\ ~(Attributes[Main[i]].timeFrequency >= 0)
         /\ Attributes[Main[i]].function = FALSE /\ Attributes[Main[i]].finalDtStretch \in Nat
         /\ Attributes[Main[i]].targetExactStartStop \/ Attributes[Main[i]].beginTime <= MinTime
         /\ Attributes[Main[i]].beginTime \in Int /\ Attributes[Main[i]].endTime \in Int
         /\ Attributes[Main[i]].cycleFrequency \in Int
<1> DEFINE e == Main[i]
           a == Attributes[e]
<1>1. e \in Event /\ e \in Range(Main)
  BY MainEvents
<1>2. /\ a.timeFrequency \in Int /\ a.finalDtStretch \in Int /\ a.function \in BOOLEAN
      /\ a.beginTime \in Int /\ a.endTime \in Int /\ a.cycleFrequency \in Int
  BY <1>1, AttributeTypes
<1>3. /\ a.kind = "periodic" /\ a.timeFrequency < 0 /\ ~a.function /\ a.finalDtStretch >= 0
      /\ a.targetExactStartStop \/ a.beginTime <= MinTime
  BY <1>1 DEF SteadySolvers
<1> HIDE DEF a
<1>4. a.finalDtStretch \in Nat /\ ~(a.timeFrequency >= 0)
  BY <1>2, <1>3
<1> QED
  BY <1>1, <1>2, <1>3, <1>4 DEF a

\* A step that is cut to the request or stretched to the end of the window.
LEMMA StretchedStep ==
  ASSUME NEW time \in Int, NEW end \in Int, NEW dt \in Nat, NEW limit \in Nat, NEW request \in Nat,
         NEW stretch \in Nat, limit <= request,
         dt <= limit \/ (dt <= end - time /\ 100 * time + limit * (100 + stretch) > 100 * end)
  PROVE  100 * dt <= request * (100 + stretch)
<1> DEFINE more == limit * stretch
           rest == request - limit
<1>1. rest \in Nat /\ request = limit + rest
  OBVIOUS
<1>2. rest * stretch \in Nat /\ request * stretch = limit * stretch + rest * stretch
  BY <1>1
<1>3. more \in Nat /\ limit * (100 + stretch) = 100 * limit + more
  OBVIOUS
<1>4. request * (100 + stretch) = 100 * request + request * stretch
  OBVIOUS
<1>5. request * stretch \in Nat /\ more <= request * stretch
  BY <1>2, <1>3
<1> DEFINE all == request * stretch
<1>6. all \in Nat /\ more <= all /\ request * (100 + stretch) = 100 * request + all
  BY <1>4, <1>5
<1> HIDE DEF more, all, rest
<1>7. 100 * dt <= 100 * limit + more
  BY <1>3
<1>8. 100 * limit + more <= 100 * request + all
  BY <1>3, <1>6
<1> QED
  BY <1>3, <1>6, <1>7, <1>8

LEMMA PlannedStep ==
  ASSUME SteadySolvers, data \in Data, plan \in [0 .. PlanLength - 1 -> Requests], Continues,
         NEW i \in 1 .. Len(Main), Steady(Main[i]),
         IsActive(Main[i], data.time), ~IsIdle(data.forecast[Main[i]])
  PROVE  100 * CycleDt <= NextDt(Main[i], data.steps) * (100 + Attributes[Main[i]].finalDtStretch)
<1> DEFINE e == Main[i]
           r == NextDt(e, data.steps)
           dt == CycleDt
           end == Attributes[e].endTime
           stretch == Attributes[e].finalDtStretch
<1>1. e \in Event /\ stretch \in Nat /\ end \in Int /\ data.time \in Int
  BY SteadyTypes, DataFields
<1>2. /\ dt \in Positive /\ Asked \in [Event -> Positive]
      /\ dt <= TimestepRequest(data, Asked)[e]
  BY CycleDtLeast
<1>3. Asked[e] = r
  BY <1>1 DEF Asked, Steady
<1>4. PICK limit \in Positive : /\ Limit(e, data, Asked[e], limit)
                                /\ TimestepRequest(data, Asked)[e] = InWindow(e, data.time, limit)
  BY <1>1, <1>2, EventRequests
<1>5. r \in OwnRequests(e, data, Asked[e])
  BY <1>3 DEF OwnRequests
<1>6. limit <= r
  BY <1>4, <1>5 DEF Limit, Steady
<1>7. ~(data.time < Attributes[e].beginTime) /\ data.time < end
  <2>1. Attributes[e].beginTime <= data.time /\ data.time < end
    BY DEF IsActive
  <2>2. Attributes[e].beginTime \in Int
    BY SteadyTypes
  <2> QED
    BY <1>1, <2>1, <2>2
<1>8. InWindow(e, data.time, limit) =
        IF Attributes[e].targetExactStartStop /\ 100 * data.time + limit * (100 + stretch) > 100 * end
        THEN end - data.time ELSE limit
  BY <1>7 DEF InWindow
<1>9. r \in Nat /\ limit \in Nat /\ dt \in Nat
  BY <1>1, <1>2, <1>3 DEF Positive
<1>10. dt <= limit \/ (dt <= end - data.time
                       /\ 100 * data.time + limit * (100 + stretch) > 100 * end)
  BY <1>2, <1>4, <1>8
<1> HIDE DEF r, dt, end, stretch
<1>11. 100 * dt <= r * (100 + stretch)
  BY ZenonT(40), <1>1, <1>6, <1>9, <1>10, StretchedStep
<1> QED
  BY <1>11 DEF r, dt, end, stretch

LEMMA SameTurnPending ==
  ASSUME NEW i, NEW d, NEW o, NEW c, NEW k, SameClock(d, o),
         o.forecast[Main[i]] = d.forecast[Main[i]], o.lastCycle[Main[i]] = d.lastCycle[Main[i]],
         Finished(i, o, k) <=> Finished(i, d, c), TurnPending(i, d, c)
  PROVE  TurnPending(i, o, k)
BY DEF TurnPending, Pending, PendingNext, CyclesLeft, SameClock

LEMMA SameStepKept ==
  ASSUME NEW i, NEW d, NEW o, NEW c, NEW k, NEW q, SameClock(d, o),
         o.forecast[Main[i]] = d.forecast[Main[i]], o.steps[Main[i]] = d.steps[Main[i]],
         o.executing[Main[i]] <=> d.executing[Main[i]],
         Finished(i, o, k) <=> Finished(i, d, c), StepKept(i, d, c, q)
  PROVE  StepKept(i, o, k, q)
BY DEF StepKept, StepAllowed, SameClock

LEMMA StartKeeping ==
  ASSUME SteadySolvers, Control, Keeping, StartCycle
  PROVE  Keeping'
<1>1. /\ data \in Data /\ plan \in [0 .. PlanLength - 1 -> Requests] /\ Continues
      /\ phase = "loop" /\ data.current \in Nat
  BY DataFields DEF Control, Types, StartCycle
<1>2. /\ data' \in Data /\ data'.time = data.time
      /\ data'.dt = IF data.current = 0 THEN CycleDt ELSE data.dt
      /\ data'.cycle = data.cycle /\ data'.current = data.current /\ SameEvents(data, data')
      /\ phase' = "check" /\ UNCHANGED <<file, plan>>
  BY <1>1, StartCycleEffect
<1>3. Collecting = FALSE /\ Collecting' = FALSE
  BY <1>1, <1>2 DEF Collecting
<1>4. ASSUME data.current # 0
      PROVE  \A i \in 1 .. Len(Main) : TurnPending(i, data', FALSE) /\ StepKept(i, data', FALSE, plan)
  <2> SUFFICES ASSUME NEW i \in 1 .. Len(Main)
               PROVE  TurnPending(i, data', FALSE) /\ StepKept(i, data', FALSE, plan)
    OBVIOUS
  <2>1. TurnPending(i, data, FALSE) /\ StepKept(i, data, FALSE, plan)
    BY <1>3, <1>4 DEF Keeping, Pendings, StepsKept
  <2>2. SameClock(data, data') /\ (Finished(i, data', FALSE) <=> Finished(i, data, FALSE))
    BY <1>2, <1>4 DEF SameClock, Finished
  <2> QED
    BY <1>2, <2>1, <2>2, SameTurnPending, SameStepKept DEF SameEvents
<1>5. ASSUME data.current = 0
      PROVE  \A i \in 1 .. Len(Main) : TurnPending(i, data', FALSE) /\ StepKept(i, data', FALSE, plan)
  <2> SUFFICES ASSUME NEW i \in 1 .. Len(Main), Steady(Main[i])
               PROVE  TurnPending(i, data', FALSE) /\ StepKept(i, data', FALSE, plan)
    BY DEF TurnPending, StepKept
  <2>1. ~Finished(i, data, FALSE) /\ ~Finished(i, data', FALSE)
    BY <1>2, <1>5 DEF Finished
  <2>2. Pending(Main[i], data)
    BY <1>3, <2>1 DEF Keeping, Pendings, TurnPending
  <2>3. Pending(Main[i], data')
    BY <1>2, <2>2 DEF Pending, CyclesLeft, SameEvents
  <2>4. IsActive(Main[i], data.time) /\ ~IsIdle(data.forecast[Main[i]]) =>
            StepAllowed(Main[i], data', plan)
    <3> SUFFICES ASSUME IsActive(Main[i], data.time), ~IsIdle(data.forecast[Main[i]])
                 PROVE  StepAllowed(Main[i], data', plan)
      OBVIOUS
    <3>1. 100 * CycleDt <= NextDt(Main[i], data.steps) * (100 + Attributes[Main[i]].finalDtStretch)
      BY <1>1, PlannedStep
    <3>2. data'.dt = CycleDt /\ data'.steps = data.steps
      BY <1>2, <1>5 DEF SameEvents
    <3> QED
      BY <3>1, <3>2 DEF StepAllowed, NextDt
  <2> QED
    BY <1>2, <2>1, <2>3, <2>4 DEF TurnPending, StepKept, SameEvents
<1> QED
  BY <1>2, <1>3, <1>4, <1>5 DEF Keeping, Pendings, StepsKept, Started

LEMMA RunKeeping ==
  ASSUME Control, Punctual, Keeping, Run
  PROVE  Keeping'
<1>1. /\ data \in Data /\ (phase = "returned" => data.current > 0)
  BY DEF Control, Types, Position
<1>2. /\ data'.time = RunStart /\ data'.dt = data.dt
      /\ data'.cycle = data.cycle /\ data'.current = data.current /\ SameEvents(data, data')
      /\ phase \in {"ready", "returned"} /\ phase' = "loop" /\ UNCHANGED <<file, plan>>
  BY <1>1, RunEffect
<1>3. Collecting = FALSE /\ Collecting' = FALSE /\ phase' \notin Cycling /\ phase' # "execute"
  BY <1>2 DEF Collecting, Cycling
<1>4. CASE Started
  <2>1. SameClock(data, data')
    <3> DEFINE current == data.current
    <3>0. current \in Nat
      BY <1>1, DataFields
    <3>1. ~(current = 0 /\ MinTime # 0)
      <4>1. phase = "returned" => current > 0
        BY <1>1
      <4> HIDE DEF current
      <4>2. current > 0 => current # 0
        BY <3>0
      <4> QED
        BY <1>2, <1>4, <4>1, <4>2 DEF Started
    <3> QED
      BY <1>2, <3>1 DEF RunStart, SameClock
  <2>2. ASSUME NEW i \in 1 .. Len(Main)
        PROVE  /\ TurnPending(i, data', FALSE)
               /\ data'.current # 0 => StepKept(i, data', FALSE, plan)
    <3>1. TurnPending(i, data, FALSE) /\ (data.current # 0 => StepKept(i, data, FALSE, plan))
      BY <1>3 DEF Keeping, Pendings, StepsKept
    <3>2. Finished(i, data', FALSE) <=> Finished(i, data, FALSE)
      BY <1>2 DEF Finished
    <3> QED
      BY <1>2, <2>1, <3>1, <3>2, SameTurnPending, SameStepKept DEF SameEvents
  <2> QED
    BY <1>2, <1>3, <2>2 DEF Keeping, Pendings, StepsKept, Started
<1>5. CASE ~Started
  <2>1. data.current = 0 /\ \A e \in Event : data.forecast[e] = 0
    BY <1>5 DEF Punctual, Fresh, Keeping
  <2>2. ASSUME NEW i \in 1 .. Len(Main) PROVE TurnPending(i, data', FALSE)
    <3>1. ~Finished(i, data', FALSE)
      BY <1>2, <2>1 DEF Finished
    <3>2. data'.forecast[Main[i]] = 0
      BY <1>2, <2>1, MainEvents DEF SameEvents
    <3> QED
      BY <3>1, <3>2 DEF TurnPending, Pending, IsIdle
  <2> QED
    BY <1>2, <1>3, <2>1, <2>2 DEF Keeping, Pendings, Started
<1> QED
  BY <1>4, <1>5

LEMMA EndKeeping ==
  ASSUME Control, Keeping, EndCycle
  PROVE  Keeping'
<1>1. data \in Data
  BY DEF Control, Types
<1>2. /\ data'.time = data.time + data.dt /\ data'.cycle = data.cycle + 1
      /\ data'.current = 0 /\ SameEvents(data, data')
      /\ phase = "check" /\ data.current = Len(Main) /\ phase' = "loop" /\ UNCHANGED <<file, plan>>
  BY <1>1, EndCycleEffect
<1>3. Collecting = FALSE /\ Collecting' = FALSE /\ phase' \notin Cycling /\ phase' # "execute"
  BY <1>2 DEF Collecting, Cycling
<1>4. data.cycle + 1 # 0
  <2>1. data.cycle \in Nat
    BY <1>1, DataFields
  <2> QED
    BY <2>1
<1>5. ASSUME NEW i \in 1 .. Len(Main) PROVE TurnPending(i, data', FALSE)
  <2>1. ~Finished(i, data', FALSE) /\ Finished(i, data, FALSE)
    BY <1>2, MainEvents DEF Finished
  <2>2. SUFFICES ASSUME Steady(Main[i]) PROVE Pending(Main[i], data')
    BY <2>1 DEF TurnPending
  <2>3. PendingNext(Main[i], data)
    BY <1>3, <2>1, <2>2 DEF Keeping, Pendings, TurnPending
  <2> QED
    BY <1>2, <1>4, <2>3 DEF Pending, PendingNext, CyclesLeft, SameEvents
<1> QED
  BY <1>2, <1>3, <1>5 DEF Keeping, Pendings, Started

\* When a solver is not active, it is not ready; in the last cycle before its
\* window it is not idle.
LEMMA NotYetIdle ==
  ASSUME SteadySolvers, data \in Data, StepInWindows(data), Clock(data), NEW clock,
         NEW i \in 1 .. Len(Main), Steady(Main[i]), ~IsActive(Main[i], data.time)
  PROVE  /\ ~IsReadyForExec(Forecast(Main[i], data, above, clock))
         /\ IsActive(Main[i], data.time + data.dt) => ~IsIdle(Forecast(Main[i], data, above, clock))
<1> DEFINE e == Main[i]
           begin == Attributes[e].beginTime
           end == Attributes[e].endTime
           f == Forecast(e, data, above, clock)
           T == data.time
           dt == data.dt
<1>1. /\ begin \in Int /\ end \in Int /\ e \in Range(Main)
      /\ Attributes[e].targetExactStartStop \/ begin <= MinTime
  BY SteadyTypes, MainEvents
<1>2. T \in Int /\ dt \in Int /\ dt > 0 /\ MinTime \in Int /\ T >= MinTime /\ Idle > 1 /\ Idle \in Nat
  BY DataFields, AttributeTypes DEF StepInWindows, Clock
<1>3. ~(begin <= T /\ T < end)
  BY DEF IsActive
<1>4. IsActive(e, T + dt) <=> begin <= T + dt /\ T + dt < end
  BY DEF IsActive
<1>5. Attributes[e].targetExactStartStop => ~(T < begin /\ begin < T + dt)
  BY <1>1 DEF StepInWindows
<1>6. T < begin => f = Cycles(begin - T, dt)
  BY DEF Forecast
<1>7. ~(T < begin) => f = Idle
  BY DEF Forecast
<1> HIDE DEF begin, end, f, T, dt
<1>8. CASE T < begin
  <2>1. T + dt <= begin
    <3>1. Attributes[e].targetExactStartStop
      BY <1>1, <1>2, <1>8
    <3> QED
      BY <1>1, <1>2, <1>5, <1>8, <3>1
  <2> DEFINE left == begin - T
  <2>2. left \in Int /\ ~(left < dt) /\ dt \in Positive
    BY <1>1, <1>2, <2>1 DEF Positive
  <2>3. f = Cycles(left, dt)
    BY <1>6, <1>8
  <2>4. begin <= T + dt => left = dt
    BY <1>1, <1>2, <2>1
  <2> HIDE DEF left
  <2>5. ~IsReadyForExec(f)
    BY <2>2, <2>3, CyclesReady
  <2>6. Cycles(dt, dt) = 1
    <3>1. dt \div dt = 1 /\ ~(dt <= 0) /\ dt >= 0
      BY <1>2
    <3> QED
      BY <3>1 DEF Cycles
  <2> QED
    BY <1>4, <2>3, <2>4, <2>5, <2>6 DEF IsIdle, f, T, dt
<1>9. CASE ~(T < begin)
  <2>1. ~(T + dt < end)
    BY <1>1, <1>2, <1>3, <1>9
  <2>2. ~IsReadyForExec(f)
    <3>1. ~(Idle <= 0)
      BY <1>2
    <3> QED
      BY <1>7, <1>9, <3>1 DEF IsReadyForExec
  <2> QED
    BY <1>4, <2>1, <2>2 DEF f, T, dt
<1> QED
  BY <1>8, <1>9

\* When it is active, the cycles that are left are forecast.
LEMMA CyclesForecast ==
  ASSUME SteadySolvers, NEW i \in 1 .. Len(Main), Steady(Main[i]), NEW d, NEW a, NEW clock,
         IsActive(Main[i], d.time), d.time \in Int
  PROVE  Forecast(Main[i], d, a, clock) =
           IF d.cycle = 0 THEN 0 ELSE CyclesLeft(Main[i], d, d.cycle)
<1>1. /\ Attributes[Main[i]].kind = "periodic" /\ ~(Attributes[Main[i]].timeFrequency >= 0)
      /\ Attributes[Main[i]].function = FALSE /\ Attributes[Main[i]].beginTime \in Int
  BY SteadyTypes
<1>2. Attributes[Main[i]].beginTime <= d.time
  BY DEF IsActive
<1>3. ~(d.time < Attributes[Main[i]].beginTime)
  BY <1>1, <1>2
<1> QED
  BY <1>1, <1>3 DEF Forecast, EventTiming, ThresholdTiming, PeriodicTiming, CyclesLeft

LEMMA CheckKeeping ==
  ASSUME SteadySolvers, Control, Windows, InTime, Keeping, NEW clock \in 0 .. 2, CheckEvent(clock)
  PROVE  Keeping'
<1>1. data \in Data /\ clock \in Int
  BY DEF Control, Types
<1>2. /\ SameCycle(data, data') /\ SameClock(data, data') /\ data'.current = data.current
      /\ data'.lastCycle = data.lastCycle /\ data'.executing = data.executing
      /\ data'.steps = data.steps /\ data'.forecast = NewForecast(clock)
      /\ phase = "check" /\ data.current < Len(Main)
      /\ phase' = IF IsReadyForExec(NewForecast(clock)[Current]) THEN "execute" ELSE "collect"
      /\ UNCHANGED <<file, plan>>
  BY <1>1, CheckEventEffect DEF SameCycle
<1>3. Clock(data) /\ StepInWindows(data)
  BY <1>2 DEF InTime, Windows, Cycling
<1> DEFINE j == data.current + 1
<1>4. j \in 1 .. Len(Main) /\ Main[j] = Current /\ Current \in Event /\ data.current \in Nat
  BY <1>1, <1>2, CurrentEvent, DataFields DEF Current
<1>5. Current' = Current
  BY <1>2 DEF Current
<1> DEFINE f == NewForecast(clock)[Current]
<1>6. f = Forecast(Main[j], data, above, clock)
  <2>1. Current \in CheckedNow
    BY <1>4, CheckedEvents DEF CheckedNow
  <2> QED
    BY <1>4, <2>1 DEF NewForecast
<1>7. \A i \in 1 .. Len(Main) : i # j => NewForecast(clock)[Main[i]] = data.forecast[Main[i]]
  <2> SUFFICES ASSUME NEW i \in 1 .. Len(Main), i # j
               PROVE  NewForecast(clock)[Main[i]] = data.forecast[Main[i]]
    OBVIOUS
  <2>1. Main[i] \notin Subtree[Main[j]]
    BY <1>4, MainApart
  <2>2. Main[i] \notin CheckedNow /\ Main[i] \in Event
    BY <1>4, <2>1, CheckedBelow, MainEvents DEF CheckedNow
  <2> QED
    BY <2>2 DEF NewForecast
<1>8. /\ Collecting = FALSE
      /\ \A i \in 1 .. Len(Main) : TurnPending(i, data, FALSE) /\ StepKept(i, data, FALSE, plan)
  BY <1>2 DEF Collecting, Keeping, Pendings, StepsKept, Cycling
<1>9. \A i \in 1 .. Len(Main) : i # j =>
          \A c \in BOOLEAN : TurnPending(i, data', c) /\ StepKept(i, data', c, plan)
  <2> SUFFICES ASSUME NEW i \in 1 .. Len(Main), i # j, NEW c \in BOOLEAN
               PROVE  TurnPending(i, data', c) /\ StepKept(i, data', c, plan)
    OBVIOUS
  <2>1. Finished(i, data', c) <=> Finished(i, data, FALSE)
    BY <1>2 DEF Finished
  <2>2. data'.forecast[Main[i]] = data.forecast[Main[i]]
    BY <1>2, <1>7
  <2> QED
    BY <1>2, <1>8, <2>1, <2>2, SameTurnPending, SameStepKept
<1>10. ~Finished(j, data, FALSE) /\ ~Finished(j, data', FALSE) /\ Finished(j, data', TRUE)
  BY <1>2, <1>4 DEF Finished
<1>11. data.time \in Int /\ data.cycle \in Nat /\ data.lastCycle[Main[j]] \in Int
  BY <1>1, <1>4, DataFields
<1>12. data'.forecast[Main[j]] = f
  BY <1>2, <1>4
<1>13. Steady(Main[j]) => Pending(Main[j], data)
  BY <1>4, <1>8, <1>10 DEF TurnPending
<1>14. ASSUME Steady(Main[j]), IsActive(Main[j], data.time)
       PROVE  /\ f = IF data.cycle = 0 THEN 0 ELSE CyclesLeft(Main[j], data, data.cycle)
              /\ Attributes[Main[j]].cycleFrequency \in Int
  BY <1>4, <1>6, <1>11, <1>14, CyclesForecast, SteadyTypes
<1>15. Steady(Main[j]) /\ ~IsActive(Main[j], data.time) =>
           /\ ~IsReadyForExec(f)
           /\ IsActive(Main[j], data.time + data.dt) => ~IsIdle(f)
  BY <1>1, <1>3, <1>4, <1>6, NotYetIdle
<1> HIDE DEF f, j
<1>16. CASE IsReadyForExec(f)
  <2>1. phase' = "execute" /\ Collecting' = FALSE
    BY <1>2, <1>16 DEF Collecting, f
  <2>2. ASSUME Steady(Main[j]), ~data.executing[Main[j]]
        PROVE  StepAllowed(Main[j], data, plan)
    <3>1. IsActive(Main[j], data.time)
      BY <1>15, <1>16, <2>2
    <3>2. f = IF data.cycle = 0 THEN 0 ELSE CyclesLeft(Main[j], data, data.cycle)
      BY <1>14, <2>2, <3>1
    <3>3. ~IsIdle(data.forecast[Main[j]])
      <4> SUFFICES ASSUME data.cycle # 0, CyclesLeft(Main[j], data, data.cycle) > 0 PROVE FALSE
        BY <1>13, <2>2, <3>1 DEF Pending
      <4> DEFINE left == CyclesLeft(Main[j], data, data.cycle)
      <4>1. f = left /\ left > 0
        BY <3>2
      <4>2. left \in Int
        BY <1>11, <1>14, <2>2, <3>1 DEF CyclesLeft
      <4> HIDE DEF left
      <4> QED
        BY <1>16, <4>1, <4>2 DEF IsReadyForExec
    <3> QED
      BY <1>4, <1>8, <1>10, <2>2, <3>1, <3>3 DEF StepKept
  <2>3. Steady(Main[j]) /\ ~data'.executing[Main[j]] => StepAllowed(Main[j], data', plan)
    BY <1>2, <2>2 DEF StepAllowed, SameClock
  <2>4. TurnPending(j, data', FALSE)
    <3>1. ~IsIdle(f)
      <4>1. f <= 0 => ~(f > 1) \/ f \notin Int
        OBVIOUS
      <4>2. Steady(Main[j]) => f \in Int
        <5>1. clock \in Int /\ Main[j] \in Event
          BY <1>1, <1>4
        <5> QED
          BY <1>1, <1>6, <5>1, ForecastInt
      <4> QED
        BY <1>16, <4>1, <1>1, <1>4, <1>6, ForecastInt DEF IsReadyForExec, IsIdle
    <3> QED
      BY <1>10, <1>12, <3>1 DEF TurnPending, Pending
  <2>5. StepKept(j, data', FALSE, plan)
    BY <2>3 DEF StepKept
  <2>6. \A i \in 1 .. Len(Main) : TurnPending(i, data', FALSE) /\ StepKept(i, data', FALSE, plan)
    BY <1>9, <2>4, <2>5
  <2>7. IsReadyForExec(data'.forecast[Main[j]]) /\ Current' = Main[j]
    BY <1>4, <1>5, <1>12, <1>16
  <2> QED
    BY <1>2, <2>1, <2>3, <2>6, <2>7 DEF Keeping, Pendings, StepsKept, Started
<1>17. CASE ~IsReadyForExec(f)
  <2>1. phase' = "collect" /\ phase' # "execute" /\ Collecting' = TRUE
    BY <1>2, <1>17 DEF Collecting, f
  <2>2. ASSUME Steady(Main[j]), IsActive(Main[j], data.time + data.dt)
        PROVE  ~IsIdle(f) \/ CyclesLeft(Main[j], data, data.cycle + 1) > 0
    <3>1. CASE IsActive(Main[j], data.time)
      <4> DEFINE left == CyclesLeft(Main[j], data, data.cycle)
                 next == CyclesLeft(Main[j], data, data.cycle + 1)
      <4>1. f = IF data.cycle = 0 THEN 0 ELSE left
        BY <1>14, <2>2, <3>1
      <4>2. left \in Int /\ next = left - 1
        BY <1>11, <1>14, <2>2, <3>1 DEF CyclesLeft
      <4> HIDE DEF left, next
      <4>3. f > 1 => f # 0
        <5>1. ~(0 > 1)
          OBVIOUS
        <5> QED
          BY <5>1
      <4>4. left > 1 => next > 0
        BY <4>2
      <4>5. f > 1 => next > 0
        BY <4>1, <4>3, <4>4
      <4> QED
        BY <4>5 DEF IsIdle, next
    <3>2. CASE ~IsActive(Main[j], data.time)
      BY <1>15, <2>2, <3>2
    <3> QED
      BY <3>1, <3>2
  <2>3. TurnPending(j, data', TRUE)
    <3>1. Steady(Main[j]) => PendingNext(Main[j], data')
      BY <1>2, <1>12, <2>2 DEF PendingNext, CyclesLeft, SameClock
    <3> QED
      BY <1>10, <3>1 DEF TurnPending
  <2>4. StepKept(j, data', TRUE, plan)
    BY <1>10 DEF StepKept
  <2>5. \A i \in 1 .. Len(Main) : TurnPending(i, data', TRUE) /\ StepKept(i, data', TRUE, plan)
    BY <1>9, <2>3, <2>4
  <2> QED
    BY <1>2, <2>1, <2>5 DEF Keeping, Pendings, StepsKept, Started
<1> QED
  BY <1>16, <1>17

\* What the state keeps that is the state of a restart file.
LEMMA SameKeeping ==
  ASSUME NEW d, NEW o, NEW c, NEW k, NEW q, SameClock(d, o), Pendings(d, c), StepsKept(d, c, q),
         \A i \in 1 .. Len(Main) :
            /\ o.forecast[Main[i]] = d.forecast[Main[i]] /\ o.steps[Main[i]] = d.steps[Main[i]]
            /\ o.lastCycle[Main[i]] = d.lastCycle[Main[i]]
            /\ o.executing[Main[i]] <=> d.executing[Main[i]]
            /\ Finished(i, o, k) <=> Finished(i, d, c)
  PROVE  Pendings(o, k) /\ StepsKept(o, k, q)
BY SameTurnPending, SameStepKept DEF Pendings, StepsKept

LEMMA TargetKeeping ==
  ASSUME Control, Keeping, ExecuteTarget
  PROVE  Keeping'
<1>1. /\ data \in Data /\ log \in Seq(Entry) /\ at \in 0 .. Len(log)
      /\ stack \in Seq(Event) /\ stack # << >> /\ Nest /\ data.current < Len(Main)
  BY DEF Control, Types, Nest, Position, ExecuteTarget
<1>2. /\ SameClock(data, data') /\ data'.current = data.current
      /\ data'.lastCycle = data.lastCycle /\ data'.forecast = data.forecast
      /\ data'.executing = [data.executing EXCEPT ![Executing] = TRUE]
      /\ \A x \in Event : x # Executing => data'.steps[x] = data.steps[x]
      /\ phase = "execute" /\ phase' = phase
      /\ file' = IF Target(Executing) = "restart" THEN [at |-> at', data |-> data'] ELSE file
      /\ UNCHANGED plan
  BY <1>1, ExecuteTargetEffect DEF SameCycle
<1>3. Executing \in Event /\ data.executing \in [Event -> BOOLEAN]
  BY <1>1, TopOfStack, DataFields
<1>4. /\ \A x \in Event : x # Executing => (data'.executing[x] <=> data.executing[x])
      /\ data'.executing[Executing] = TRUE
  BY <1>2, <1>3
<1>5. Collecting = FALSE /\ Collecting' = FALSE
  BY <1>2 DEF Collecting
<1>6. ASSUME NEW i \in 1 .. Len(Main)
      PROVE  TurnPending(i, data', FALSE) /\ StepKept(i, data', FALSE, plan)
  <2>1. TurnPending(i, data, FALSE) /\ StepKept(i, data, FALSE, plan) /\ Main[i] \in Event
    BY <1>2, <1>5, MainEvents DEF Keeping, Pendings, StepsKept, Cycling
  <2>2. Finished(i, data', FALSE) <=> Finished(i, data, FALSE)
    BY <1>2 DEF Finished
  <2>3. TurnPending(i, data', FALSE)
    BY <1>2, <2>1, <2>2, SameTurnPending
  <2>4. StepKept(i, data', FALSE, plan)
    <3>1. CASE Main[i] = Executing
      BY <1>4, <3>1 DEF StepKept
    <3>2. CASE Main[i] # Executing
      BY <1>2, <1>4, <2>1, <2>2, <3>2, SameStepKept
    <3> QED
      BY <3>1, <3>2
  <2> QED
    BY <2>3, <2>4
<1>7. Pendings(data', FALSE) /\ StepsKept(data', FALSE, plan)
  BY <1>6 DEF Pendings, StepsKept
<1>8. /\ Current' = Current /\ IsReadyForExec(data'.forecast[Current])
      /\ Steady(Current) /\ ~data'.executing[Current] => StepAllowed(Current, data', plan)
  <2>1. Current' = Current /\ Current \in Event
    BY <1>1, <1>2, CurrentEvent DEF Current
  <2>2. /\ IsReadyForExec(data.forecast[Current])
        /\ Steady(Current) /\ ~data.executing[Current] => StepAllowed(Current, data, plan)
    BY <1>2 DEF Keeping
  <2>3. CASE Current = Executing
    BY <1>2, <1>4, <2>1, <2>2, <2>3
  <2>4. CASE Current # Executing
    <3>1. data'.steps[Current] = data.steps[Current] /\ data'.dt = data.dt
      BY <1>2, <2>1, <2>4 DEF SameClock
    <3> QED
      BY <1>2, <1>4, <2>1, <2>2, <2>4, <3>1 DEF StepAllowed
  <2> QED
    BY <2>3, <2>4
<1>9. file' # NoFile => /\ Pendings(file'.data, FALSE)
                        /\ file'.data.current # 0 => StepsKept(file'.data, FALSE, plan)
  <2>1. CASE file' = file
    BY <2>1 DEF Keeping
  <2>2. CASE file' = [at |-> at', data |-> data']
    BY <1>7, <2>2
  <2> QED
    BY <1>2, <2>1, <2>2
<1> QED
  BY <1>2, <1>5, <1>7, <1>8, <1>9 DEF Keeping, Started

LEMMA SubEventKeeping ==
  ASSUME Control, Keeping, ExecuteSubEvent
  PROVE  Keeping'
<1>1. /\ data \in Data /\ stack \in Seq(Event) /\ stack # << >> /\ phase = "execute"
  BY DEF Control, Types, Nest, Position, ExecuteSubEvent
<1>2. /\ SameClock(data, data') /\ data'.current = data.current
      /\ data'.lastCycle = data.lastCycle /\ data'.forecast = data.forecast
      /\ data'.executing = data.executing /\ data'.steps = data.steps
      /\ phase' = phase /\ UNCHANGED <<file, plan>>
  BY <1>1, ExecuteSubEventEffect DEF SameCycle, SameClock
<1>3. Collecting = FALSE /\ Collecting' = FALSE /\ Current' = Current /\ phase \in Cycling
  BY <1>1, <1>2 DEF Collecting, Current, Cycling
<1>4. Pendings(data, FALSE) /\ StepsKept(data, FALSE, plan)
  BY <1>3 DEF Keeping
<1>5. \A i \in 1 .. Len(Main) : Finished(i, data', FALSE) <=> Finished(i, data, FALSE)
  BY <1>2 DEF Finished
<1>6. Pendings(data', FALSE) /\ StepsKept(data', FALSE, plan)
  BY <1>2, <1>4, <1>5, SameKeeping
<1>7. /\ IsReadyForExec(data'.forecast[Current])
      /\ Steady(Current) /\ ~data'.executing[Current] => StepAllowed(Current, data', plan)
  BY <1>1, <1>2 DEF Keeping, StepAllowed, SameClock
<1> QED
  BY <1>1, <1>2, <1>3, <1>6, <1>7 DEF Keeping, Started

LEMMA ReturnKeeping ==
  ASSUME Control, Keeping, ReturnFromExecute
  PROVE  Keeping'
<1>1. /\ data \in Data /\ Nest /\ data.current < Len(Main)
      /\ stack \in Seq(Event) /\ stack # << >> /\ data.current \in Nat /\ Executing \in Event
  BY TopOfStack, DataFields DEF Control, Types, Nest, Position, ReturnFromExecute
<1>2. /\ SameClock(data, data') /\ data'.current = data.current
      /\ data'.forecast = data.forecast /\ data'.steps = data.steps
      /\ data'.executing = [data.executing EXCEPT ![Executing] = FALSE]
      /\ data'.lastCycle = [data.lastCycle EXCEPT ![Executing] = data.cycle]
      /\ phase = "execute" /\ phase' = IF Len(stack) = 1 THEN "collect" ELSE phase
      /\ UNCHANGED <<file, plan>>
  BY <1>1, Nested, ReturnEffect DEF SameCycle
<1>3. \A x \in Event : x # Executing => /\ data'.executing[x] <=> data.executing[x]
                                        /\ data'.lastCycle[x] = data.lastCycle[x]
  BY ZenonT(40), <1>1, <1>2, DataFields
<1>4. /\ Collecting = FALSE /\ Current' = Current
      /\ \A i \in 1 .. Len(Main) : TurnPending(i, data, FALSE) /\ StepKept(i, data, FALSE, plan)
      /\ Pendings(data, FALSE) /\ StepsKept(data, FALSE, plan)
      /\ IsReadyForExec(data.forecast[Current])
      /\ Steady(Current) /\ ~data.executing[Current] => StepAllowed(Current, data, plan)
  BY <1>2 DEF Collecting, Keeping, Pendings, StepsKept, Cycling, Current
<1>5. Current = Main[data.current + 1] /\ data.current + 1 \in 1 .. Len(Main)
  BY <1>1, CurrentEvent DEF Current
<1>6. CASE Len(stack) = 1
  <2>1. phase' = "collect" /\ phase' # "execute" /\ Collecting' = TRUE
    BY <1>2, <1>6 DEF Collecting
  <2>2. Executing = Current
    BY <1>1, <1>6, Nested DEF Executing
  <2>3. ASSUME NEW i \in 1 .. Len(Main)
        PROVE  TurnPending(i, data', TRUE) /\ StepKept(i, data', TRUE, plan)
    <3>1. CASE i = data.current + 1
      <4>1. Finished(i, data', TRUE)
        BY <1>2, <3>1 DEF Finished
      <4>2. ~IsIdle(data'.forecast[Main[i]])
        <5>1. data.forecast[Current] \in Int
          BY <1>1, <1>5, DataFields, MainEvents
        <5>2. \A n \in Int : n <= 0 => ~(n > 1)
          OBVIOUS
        <5> QED
          BY <1>2, <1>4, <1>5, <3>1, <5>1, <5>2 DEF IsReadyForExec, IsIdle
      <4> QED
        BY <4>1, <4>2 DEF TurnPending, PendingNext, StepKept
    <3>2. CASE i # data.current + 1
      <4>1. Main[i] # Executing /\ Main[i] \in Event
        BY <1>5, <2>2, <3>2, MainEvents
      <4>2. Finished(i, data', TRUE) <=> Finished(i, data, FALSE)
        BY <1>2, <3>2 DEF Finished
      <4> QED
        BY <1>2, <1>3, <1>4, <4>1, <4>2, SameTurnPending, SameStepKept
    <3> QED
      BY <3>1, <3>2
  <2> QED
    BY <1>2, <2>1, <2>3 DEF Keeping, Pendings, StepsKept, Started
<1>7. CASE Len(stack) # 1
  <2>1. phase' = "execute" /\ Collecting' = FALSE
    BY <1>2, <1>7 DEF Collecting
  <2>2. \A i \in 1 .. Len(Main) : Main[i] # Executing /\ Main[i] \in Event
    BY <1>1, <1>7, TopInMain, MainEvents
  <2>3. \A i \in 1 .. Len(Main) : Finished(i, data', FALSE) <=> Finished(i, data, FALSE)
    BY <1>2 DEF Finished
  <2>4. Pendings(data', FALSE) /\ StepsKept(data', FALSE, plan)
    BY <1>2, <1>3, <1>4, <2>2, <2>3, SameKeeping
  <2>5. Current # Executing /\ Current \in Event
    BY <1>5, <2>2
  <2>6. /\ IsReadyForExec(data'.forecast[Current])
        /\ Steady(Current) /\ ~data'.executing[Current] => StepAllowed(Current, data', plan)
    BY <1>2, <1>3, <1>4, <2>5 DEF StepAllowed, SameClock
  <2> QED
    BY <1>2, <1>4, <2>1, <2>4, <2>6 DEF Keeping, Started
<1> QED
  BY <1>6, <1>7

LEMMA CollectKeeping ==
  ASSUME Control, Keeping, CollectExitFlag
  PROVE  Keeping'
<1>1. /\ data \in Data /\ data.current < Len(Main) /\ data.current \in Nat /\ phase = "collect"
  BY DataFields DEF Control, Types, Position, CollectExitFlag
<1>2. /\ SameClock(data, data') /\ data'.current = data.current + 1 /\ SameEvents(data, data')
      /\ phase' = IF early THEN "returned" ELSE "check"
      /\ UNCHANGED <<file, plan>>
  BY <1>1, CollectExitFlagEffect
<1>3. /\ Collecting = TRUE /\ Collecting' = FALSE /\ phase' # "execute" /\ phase' # "ready"
  BY <1>1, <1>2 DEF Collecting
<1>4. Pendings(data, TRUE) /\ StepsKept(data, TRUE, plan)
  BY <1>1, <1>3 DEF Keeping, Cycling
<1>5. \A i \in 1 .. Len(Main) : Finished(i, data', FALSE) <=> Finished(i, data, TRUE)
  BY <1>1, <1>2 DEF Finished
<1>6. Pendings(data', FALSE) /\ StepsKept(data', FALSE, plan)
  BY <1>2, <1>4, <1>5, SameKeeping DEF SameEvents
<1> QED
  BY <1>2, <1>3, <1>6 DEF Keeping, Started

LEMMA FinishKeeping ==
  ASSUME Keeping, Finish
  PROVE  Keeping'
<1>1. /\ phase = "loop" /\ phase' = "done" /\ UNCHANGED <<data, plan>>
      /\ file' = file \/ file' = [at |-> at, data |-> data]
  BY FinishEffect
<1>2. Collecting = FALSE /\ Collecting' = FALSE /\ phase' \notin Cycling
  BY <1>1 DEF Collecting, Cycling
<1>3. Pendings(data, FALSE) /\ (data.current # 0 => StepsKept(data, FALSE, plan))
  BY <1>2 DEF Keeping
<1>4. file' # NoFile => /\ Pendings(file'.data, FALSE)
                        /\ file'.data.current # 0 => StepsKept(file'.data, FALSE, plan)
  <2>1. CASE file' = file
    BY <2>1 DEF Keeping
  <2>2. CASE file' = [at |-> at, data |-> data]
    BY <1>3, <2>2
  <2> QED
    BY <1>1, <2>1, <2>2
<1> QED
  BY <1>1, <1>2, <1>3, <1>4 DEF Keeping, Started

LEMMA RestartKeeping ==
  ASSUME Punctual, Keeping, Restart
  PROVE  Keeping'
<1>1. /\ file # NoFile /\ data' = file.data /\ phase' = "ready" /\ UNCHANGED <<file, plan>>
  BY RestartEffect
<1>2. Started' /\ Collecting' = FALSE /\ phase' \notin Cycling /\ phase' # "execute"
  BY <1>1 DEF Punctual, Started, Collecting, Cycling
<1> QED
  BY <1>1, <1>2 DEF Keeping

LEMMA KeepingStep ==
  ASSUME SteadySolvers, Control, Windows, Punctual, Keeping, [Next]_vars
  PROVE  Keeping'
<1>1. CASE \E clock \in 0 .. 2 : CheckEvent(clock)
  <2>1. PICK clock \in 0 .. 2 : CheckEvent(clock)
    BY <1>1
  <2>2. Started
    BY <2>1 DEF CheckEvent, Started
  <2> QED
    BY <2>1, <2>2, CheckKeeping DEF Punctual
<1>2. CASE UNCHANGED vars
  BY <1>2 DEF Keeping, Started, Collecting, Current, vars
<1> QED
  BY <1>1, <1>2, RunKeeping, StartKeeping, EndKeeping, TargetKeeping, SubEventKeeping, ReturnKeeping,
     CollectKeeping, FinishKeeping, RestartKeeping DEF Next, Step, Ended

LEMMA KeepingInitially ==
  ASSUME Init
  PROVE  Keeping
<1>1. /\ data.current = 0 /\ data.forecast = [e \in Event |-> 0]
      /\ phase = "ready" /\ file = NoFile
  BY DEF Init
<1>2. Collecting = FALSE /\ phase \notin Cycling
  BY <1>1 DEF Collecting, Cycling
<1>3. ASSUME NEW i \in 1 .. Len(Main) PROVE TurnPending(i, data, FALSE)
  <2>1. ~Finished(i, data, FALSE)
    BY <1>1 DEF Finished
  <2>2. data.forecast[Main[i]] = 0
    BY <1>1, MainEvents
  <2> QED
    BY <2>1, <2>2 DEF TurnPending, Pending, IsIdle
<1> QED
  BY <1>1, <1>2, <1>3 DEF Keeping, Pendings

\* A restart file holds no more steps of a solver than it has done.
Ahead == file # NoFile => \A e \in Event : file.data.steps[e] <= data.steps[e]

LEMMA StepsTaken ==
  ASSUME Control, Next, ~Restart
  PROVE  /\ \A e \in Event : data.steps[e] \in Nat
         /\ \A e \in Event : \/ data'.steps[e] = data.steps[e]
                             \/ /\ data'.steps[e] = data.steps[e] + 1
                                /\ ExecuteTarget /\ e = Executing
<1>1. /\ data \in Data /\ plan \in [0 .. PlanLength - 1 -> Requests] /\ at \in 0 .. Len(log)
      /\ log \in Seq(Entry) /\ Nest /\ stack \in Seq(Event)
      /\ phase \in {"execute", "collect"} => data.current < Len(Main)
      /\ phase = "execute" <=> stack # << >>
  BY DEF Control, Types, Position, Nest
<1>2. \A e \in Event : data.steps[e] \in Nat
  BY <1>1, DataFields
<1>3. CASE data'.steps = data.steps
  BY <1>2, <1>3
<1>4. CASE ExecuteTarget
  BY <1>1, <1>2, <1>4, ExecuteTargetEffect DEF ExecuteTarget
<1>5. CASE \E clock \in 0 .. 2 : CheckEvent(clock)
  <2>1. PICK clock \in 0 .. 2 : CheckEvent(clock)
    BY <1>5
  <2>2. clock \in Int
    OBVIOUS
  <2> QED
    BY <1>1, <1>3, <2>1, <2>2, CheckEventEffect
<1>6. CASE Run \/ StartCycle \/ EndCycle \/ CollectExitFlag
  <2>1. data'.steps = data.steps
    BY <1>1, <1>6, RunEffect, StartCycleEffect, EndCycleEffect, CollectExitFlagEffect
       DEF SameEvents, CollectExitFlag
  <2> QED
    BY <1>3, <2>1
<1>7. CASE Finish \/ Ended
  BY <1>3, <1>7, FinishEffect DEF Ended, vars
<1>8. CASE ExecuteSubEvent
  BY <1>1, <1>3, <1>8, ExecuteSubEventEffect DEF ExecuteSubEvent
<1>9. CASE ReturnFromExecute
  BY <1>1, <1>3, <1>9, Nested, ReturnEffect DEF ReturnFromExecute
<1> QED
  BY <1>2, <1>4, <1>5, <1>6, <1>7, <1>8, <1>9 DEF Next, Step

LEMMA AheadStep ==
  ASSUME Control, Ahead, [Next]_vars
  PROVE  Ahead'
<1>1. CASE UNCHANGED vars
  BY <1>1 DEF Ahead, vars
<1>2. CASE Restart
  <2>1. data' = file.data /\ file' = file
    BY <1>2, RestartEffect
  <2>2. file # NoFile => \A e \in Event : file.data.steps[e] \in Nat
    BY DataFields DEF Control, Types
  <2> QED
    BY <2>1, <2>2 DEF Ahead
<1>3. CASE Next /\ ~Restart
  <2>1. /\ \A e \in Event : data.steps[e] \in Nat
        /\ \A e \in Event : \/ data'.steps[e] = data.steps[e]
                            \/ data'.steps[e] = data.steps[e] + 1
    BY <1>3, StepsTaken
  <2>2. file # NoFile => \A e \in Event : file.data.steps[e] \in Nat
    BY DataFields DEF Control, Types
  <2>3. CASE file' = file
    <3> SUFFICES ASSUME file # NoFile, NEW e \in Event
                 PROVE  file.data.steps[e] <= data'.steps[e]
      BY <2>3 DEF Ahead
    <3>1. file.data.steps[e] <= data.steps[e]
      BY DEF Ahead
    <3> DEFINE f == file.data.steps[e]
               old == data.steps[e]
               new == data'.steps[e]
    <3>2. f \in Nat /\ old \in Nat /\ (new = old \/ new = old + 1) /\ f <= old
      BY <2>1, <2>2, <3>1
    <3> HIDE DEF f, old, new
    <3>3. f <= new
      BY <3>2
    <3> QED
      BY <3>3 DEF f, new
  <2>4. CASE file'.data = data'
    <3>1. \A e \in Event : data'.steps[e] \in Nat
      BY <2>1
    <3> QED
      BY <2>4, <3>1 DEF Ahead
  <2>5. file' = file \/ file'.data = data'
    BY <1>3, FileEffect
  <2> QED
    BY <2>3, <2>4, <2>5
<1> QED
  BY <1>1, <1>2, <1>3

(* No cycle is longer than a solver of the main loop asked for when it       *)
(* began, but for the stretch to the end of its window                       *)
(* (SolverBase::getTimestepRequest): what is ready was not idle when the     *)
(* length of the cycle was taken.                                            *)
THEOREM SolversGetTheirStep ==
  ASSUME SteadySolvers, ProperWindows, RestartsFromZero
  PROVE  Spec => SolverStepsKept
<1> DEFINE A == \A e \in Range(Main) : data'.steps[e] > data.steps[e] => SolverStepKept(e)
<1>1. Init => Keeping /\ Ahead
  BY KeepingInitially DEF Init, Ahead
<1>2. Control /\ Windows /\ Punctual /\ Keeping /\ [Next]_vars => Keeping'
  BY KeepingStep
<1>3. Control /\ Ahead /\ [Next]_vars => Ahead'
  BY AheadStep
<1>4. Init => Windows /\ Punctual
  BY WindowsInitially, PunctualInitially
<1>5. Control /\ Windows /\ [Next]_vars => Windows'
  BY WindowsStep
<1>6. Control /\ Punctual /\ [Next]_vars => Punctual'
  BY PunctualStep
<1>7. Control /\ Keeping /\ Ahead /\ [Next]_vars => [A]_vars
  <2> SUFFICES ASSUME Control, Keeping, Ahead, Next, NEW e \in Range(Main),
                      data'.steps[e] > data.steps[e]
               PROVE  SolverStepKept(e)
    OBVIOUS
  <2>1. /\ data \in Data /\ Nest /\ data.steps[e] \in Nat /\ e \in Event
    BY MainEvents, DataFields DEF Control, Types
  <2>2. ~Restart
    <3> SUFFICES ASSUME Restart PROVE FALSE
      OBVIOUS
    <3>1. data'.steps[e] = file.data.steps[e] /\ file.data.steps[e] <= data.steps[e]
      BY <2>1, RestartEffect DEF Ahead
    <3>2. file.data.steps[e] \in Nat
      BY <2>1, RestartEffect, DataFields DEF Control, Types
    <3> QED
      BY <2>1, <3>1, <3>2
  <2>3. ExecuteTarget /\ e = Executing
    <3>1. ~(data'.steps[e] = data.steps[e])
      BY <2>1
    <3> QED
      BY <2>1, <2>2, <3>1, StepsTaken
  <2>4. phase = "execute" /\ ~data.executing[e] /\ stack # << >> /\ data.current < Len(Main)
    BY <2>3 DEF ExecuteTarget, Control, Position
  <2>5. PICK i \in 1 .. Len(Main) : e = Main[i]
    BY MainEvents
  <2>6. i = data.current + 1
    BY <2>1, <2>3, <2>4, <2>5, TopInMain
  <2>7. Steady(e) => StepAllowed(e, data, plan)
    BY <2>4, <2>5, <2>6 DEF Keeping, Current
  <2> QED
    BY <2>7 DEF SolverStepKept, Steady, StepAllowed, NextDt
<1> QED
  BY <1>1, <1>2, <1>3, <1>4, <1>5, <1>6, <1>7, ControlAlways, PTL DEF Spec, SolverStepsKept
=============================================================================
