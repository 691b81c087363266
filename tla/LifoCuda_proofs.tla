--------------------------- MODULE LifoCuda_proofs ---------------------------
(***************************************************************************)
(* LifoStorageCuda implements LifoStack for every number of arrays and all *)
(* capacities of the device and the host queue.                            *)
(*                                                                         *)
(* The invariant of LifoCudaInvariant is inductive: each of its parts is   *)
(* kept by every step, first where the threads are and what they hold,     *)
(* then how far the buffers have gone, then what the memories hold.  From  *)
(* it follows where the buffers of the stack are in every state, and that  *)
(* a step pushes one, pops one, or leaves the stack.                       *)
(***************************************************************************)
EXTENDS LifoCudaInvariant, SequenceTheorems, FiniteSetTheorems, TLAPS

LEMMA Constants ==
  /\ MaxBuffers \in Nat /\ MaxBuffers > 0 /\ DeviceCapacity \in Nat /\ DeviceCapacity > 0
  /\ HostCapacity \in Nat /\ Moved \in Nat /\ Written \in Nat
  /\ Moved <= MaxBuffers /\ Written <= Moved
  /\ Moved = 0 \/ Moved = MaxBuffers - DeviceCapacity
  /\ Written >= Moved - HostCapacity
  /\ \A n \in Nat : MaxBuffers - n > DeviceCapacity <=> n < Moved
  /\ \A n \in Nat : MaxBuffers - n > DeviceCapacity + HostCapacity <=> n < Written
BY CudaAssumption DEF Moved, Written, AtLeast0

LEMMA ThreadNames ==
  /\ 0 \in Threads /\ 1 \in Threads /\ Owner \in Threads /\ 0 \in Workers /\ 1 \in Workers
  /\ Owner # 0 /\ Owner # 1 /\ Workers \subseteq Threads /\ Owner \notin Workers
  /\ \A t \in Threads : t = 0 \/ t = 1 \/ t = Owner
  /\ \A w \in Workers : w = 0 \/ w = 1
  /\ Free \notin Threads
BY DEF Threads, Workers, Owner, Free

\* What the types of the tasks say of their operations and numbers.
LEMMA TaskTypes ==
  ASSUME ControlTypes
  PROVE  /\ \A t \in Threads :
                /\ task[t].id \in BufferIds
                /\ Before(task[t]) \in Nat /\ After(task[t]) \in Nat
                /\ After(task[t]) <= MaxBuffers /\ Before(task[t]) <= MaxBuffers
                /\ Level(t) \in Nat /\ Level(t) <= MaxBuffers
         /\ task[0].op \in MoveOps \cup {"none"} /\ task[1].op \in DiskOps \cup {"none"}
         /\ task[Owner].op \in OwnerOps \cup {"none"}
         /\ Busy(0) => task[0].op \in MoveOps
         /\ Busy(1) => task[1].op \in DiskOps
         /\ Busy(Owner) => task[Owner].op \in OwnerOps
<1>1. ASSUME NEW t \in Threads
      PROVE  /\ task[t].id \in BufferIds
             /\ Before(task[t]) \in Nat /\ After(task[t]) \in Nat
             /\ After(task[t]) <= MaxBuffers /\ Before(task[t]) <= MaxBuffers
  <2>1. 0 \in BufferIds
    BY Constants DEF BufferIds
  <2>2. task[t].id \in BufferIds
    BY <1>1, <2>1, ThreadNames DEF ControlTypes, TaskOf, NoTask
  <2>3. task[t].op = "none" => task[t].id = 0 /\ task[t].op \notin Ups
    BY <1>1, ThreadNames DEF ControlTypes, TaskOf, NoTask, Ups, OwnerOps, MoveOps, DiskOps
  <2>4. /\ \A n \in BufferIds : n \in Nat /\ n + 1 \in Nat /\ n <= MaxBuffers /\ n + 1 <= MaxBuffers
    BY Constants DEF BufferIds
  <2> QED
    BY <2>2, <2>4 DEF Before, After
<1>2. /\ task[0].op \in MoveOps \cup {"none"} /\ task[1].op \in DiskOps \cup {"none"}
      /\ task[Owner].op \in OwnerOps \cup {"none"}
  BY DEF ControlTypes, TaskOf, NoTask
<1>3. /\ Busy(0) => task[0].op \in MoveOps
      /\ Busy(1) => task[1].op \in DiskOps
      /\ Busy(Owner) => task[Owner].op \in OwnerOps
  BY ThreadNames DEF ControlTypes, TaskOf
<1> QED
  BY <1>1, <1>2, <1>3 DEF Level

LEMMA MemoryFacts ==
  ASSUME MemoryTypes
  PROVE  /\ device.begin \in Int /\ device.end \in Int /\ device.slot \in [Device!Slots -> Int]
         /\ host.begin \in Int /\ host.end \in Int /\ host.slot \in [Host!Slots -> Int]
         /\ device = [begin |-> device.begin, end |-> device.end, slot |-> device.slot]
         /\ host = [begin |-> host.begin, end |-> host.end, slot |-> host.slot]
BY DEF MemoryTypes, DeviceType, HostType
-----------------------------------------------------------------------------
(* Steps that move no buffer and no task.                                    *)

OwnerPlaces == {"idle", "push", "drain0", "drain1", "pop", "stop", "join", "done"}

\* A thread that is in the same part of its operation, or outside of one
Stays(t) ==
    /\ Unfinished(t)' <=> Unfinished(t)
    /\ pc'[t] = "commit" <=> pc[t] = "commit"
    /\ pc'[t] \in Ending <=> pc[t] \in Ending
    /\ \A p \in OwnerPlaces : pc'[t] = p <=> pc[t] = p

LEMMA StaysBusy ==
  ASSUME NEW t, Stays(t)
  PROVE  Busy(t)' <=> Busy(t)
BY DEF Stays, Busy

LEMMA Unmoved ==
  ASSUME NEW t, pc'[t] = pc[t]
  PROVE  Stays(t)
BY DEF Stays, Unfinished

Quiet(t) ==
    \/ Acquire(t) \/ Test(t) \/ Block(t) \/ Unblock(t) \/ Notify(t)
    \/ t \in Workers /\ (Wait(t) \/ SpuriousWake(t))

LEMMA QuietPlaces ==
  ASSUME ControlTypes, NEW t \in Threads, Quiet(t)
  PROVE  /\ \A u \in Threads : Stays(u)
         /\ pc' \in [Threads -> Places]
         /\ UNCHANGED <<deques, queue, task, array, counters, failed>>
         /\ continue' = continue
<1>0. pc \in [Threads -> Places]
  BY DEF ControlTypes
<1>1. CASE Acquire(t)
  BY <1>0, <1>1 DEF Acquire, Stays, Unfinished, Begun, Ending, OwnerPlaces, Places
<1>2. CASE Test(t)
  BY <1>0, <1>2 DEF Test, Stays, Unfinished, Begun, Ending, OwnerPlaces, Places
<1>3. CASE Block(t)
  BY <1>0, <1>3 DEF Block, Stays, Unfinished, Begun, Ending, OwnerPlaces, Places
<1>4. CASE Unblock(t)
  BY <1>0, <1>4 DEF Unblock, Stays, Unfinished, Begun, Ending, OwnerPlaces, Places
<1>5. CASE Notify(t)
  <2>1. /\ pc[t] \in Ending /\ pc'[t] \in Ending
        /\ \A u \in Threads : u # t => pc'[u] = pc[u] \/ (pc[u] = "blocked" /\ pc'[u] = "acquire")
        /\ pc' \in [Threads -> Places]
        /\ UNCHANGED <<deques, queue, task, array, counters, failed, continue>>
    BY <1>0, <1>5 DEF Notify, Ending, Places, Begun
  <2> QED
    BY <1>0, <2>1 DEF Stays, Unfinished, Begun, Ending, OwnerPlaces
<1>6. CASE t \in Workers /\ Wait(t)
  <2>1. /\ pc[t] \in {"consume", "dozing"} /\ pc'[t] \in {"exited", "dozing", "asleep"}
        /\ \A u \in Threads : u # t => pc'[u] = pc[u]
        /\ pc' \in [Threads -> Places]
        /\ UNCHANGED <<deques, queue, task, array, counters, failed, continue>>
    BY <1>0, <1>6 DEF Wait, Places
  <2> QED
    BY <1>0, <2>1 DEF Stays, Unfinished, Begun, Ending, OwnerPlaces
<1>7. CASE t \in Workers /\ SpuriousWake(t)
  BY <1>0, <1>7 DEF SpuriousWake, Stays, Unfinished, Begun, Ending, OwnerPlaces, Places
<1> QED
  BY <1>1, <1>2, <1>3, <1>4, <1>5, <1>6, <1>7 DEF Quiet

\* Nothing of what the control and the memories hold changes.
LEMMA LevelStays ==
  ASSUME NEW t, task'[t] = task[t], Unfinished(t)' <=> Unfinished(t)
  PROVE  Level(t)' = Level(t)
BY DEF Level, Before, After

LEMMA StillControl ==
  ASSUME ControlTypes, ControlInv, UNCHANGED <<device, host, queue, task, array, counters, failed>>,
         \A u \in Threads : Stays(u)
  PROVE  ControlInv'
<1>1. /\ Stays(0) /\ Stays(1) /\ Stays(Owner)
      /\ (Busy(0)' <=> Busy(0)) /\ (Busy(1)' <=> Busy(1)) /\ (Busy(Owner)' <=> Busy(Owner))
  BY ThreadNames, StaysBusy
<1>2. Level(0)' = Level(0) /\ Level(1)' = Level(1) /\ Level(Owner)' = Level(Owner)
  BY <1>1, LevelStays DEF Stays
<1>3. Indices'
  BY <1>1, <1>2 DEF ControlInv, Indices, Stays, Moving
<1>4. Orders'
  BY DEF ControlInv, Orders, Follow, Before, After, counters
<1>5. Phase'
  <2>1. Accepted' = Accepted
    BY <1>1 DEF Accepted, counters
  <2>2. /\ \A p \in OwnerPlaces : pc'[Owner] = p <=> pc[Owner] = p
    BY <1>1 DEF Stays
  <2> QED
    BY <2>1, <2>2 DEF ControlInv, Phase, Pushing, Popping, After, counters, OwnerPlaces, Moved
<1>6. Writes'
  BY <1>1, <1>2 DEF ControlInv, Writes, Writing, Reading, After, Stays, counters
<1>7. HostUsed'
  BY <1>1 DEF ControlInv, HostUsed, counters
<1> QED
  BY <1>3, <1>4, <1>5, <1>6, <1>7 DEF ControlInv
-----------------------------------------------------------------------------
(* The queues of tasks.                                                      *)

LEMMA FollowAppend ==
  ASSUME NEW S, NEW q \in Seq(S), NEW from, NEW to, Follow(q, from, to),
         NEW t \in S, Before(t) = to
  PROVE  Follow(Append(q, t), from, After(t))
<1> DEFINE r == Append(q, t)
<1>1. /\ r \in Seq(S) /\ Len(r) = Len(q) + 1 /\ r[Len(q) + 1] = t /\ Len(q) \in Nat
      /\ \A i \in 1 .. Len(q) : r[i] = q[i]
  BY AppendProperties
<1> HIDE DEF r
<1>2. r # << >>
  BY <1>1
<1>3. CASE q = << >>
  <2>1. Len(r) = 1 /\ r[1] = t
    BY <1>1, <1>3
  <2>2. \A i \in 1 .. Len(r) - 1 : After(r[i]) = Before(r[i + 1])
    BY <2>1
  <2>3. from = to
    BY <1>3 DEF Follow
  <2> QED
    BY <1>2, <2>1, <2>2, <2>3 DEF Follow, r
<1>4. CASE q # << >>
  <2>1. Len(q) > 0 /\ r[1] = q[1] /\ r[Len(q)] = q[Len(q)]
    BY <1>1, <1>4
  <2>2. Before(q[1]) = from /\ After(q[Len(q)]) = to
    BY <1>4 DEF Follow
  <2>3. ASSUME NEW i \in 1 .. Len(r) - 1 PROVE After(r[i]) = Before(r[i + 1])
    <3>1. CASE i = Len(q)
      BY <1>1, <2>1, <2>2, <3>1
    <3>2. CASE i # Len(q)
      <4>1. i \in 1 .. Len(q) - 1 /\ i \in 1 .. Len(q) /\ i + 1 \in 1 .. Len(q)
        BY <1>1, <3>2
      <4>2. After(q[i]) = Before(q[i + 1])
        BY <4>1 DEF Follow
      <4> QED
        BY <1>1, <4>1, <4>2
    <3> QED
      BY <3>1, <3>2
  <2>4. r[Len(r)] = t
    BY <1>1
  <2> QED
    BY <1>2, <2>1, <2>2, <2>3, <2>4 DEF Follow, r
<1> QED
  BY <1>3, <1>4

LEMMA FollowTail ==
  ASSUME NEW S, NEW q \in Seq(S), NEW from, NEW to, Follow(q, from, to), q # << >>
  PROVE  /\ Before(Head(q)) = from
         /\ Follow(Tail(q), After(Head(q)), to)
<1> DEFINE r == Tail(q)
           h == Head(q)
<1>1. /\ r \in Seq(S) /\ Len(r) = Len(q) - 1 /\ Len(q) \in Nat /\ Len(q) > 0
      /\ \A i \in 1 .. Len(q) - 1 : r[i] = q[i + 1]
      /\ h = q[1]
  <2>1. r \in Seq(S) /\ Len(r) = Len(q) - 1 /\ \A i \in 1 .. Len(r) : r[i] = q[i + 1]
    BY HeadTailProperties
  <2> QED
    BY <2>1
<1> HIDE DEF r, h
<1>2. /\ Before(q[1]) = from /\ After(q[Len(q)]) = to
      /\ \A i \in 1 .. Len(q) - 1 : After(q[i]) = Before(q[i + 1])
  BY DEF Follow
<1>3. CASE r = << >>
  <2>1. Len(q) = 1
    BY <1>1, <1>3
  <2>2. After(h) = to
    BY <1>1, <1>2, <2>1
  <2>3. \A i \in 1 .. Len(r) - 1 : After(r[i]) = Before(r[i + 1])
    BY <1>1, <2>1
  <2> QED
    BY <1>1, <1>2, <1>3, <2>2, <2>3 DEF Follow, r, h
<1>4. CASE r # << >>
  <2>1. Len(r) > 0 /\ Len(r) \in Nat
    BY <1>1, <1>4
  <2>2. r[1] = q[2] /\ r[Len(r)] = q[Len(q)] /\ After(q[1]) = Before(q[2])
    BY <1>1, <1>2, <2>1
  <2>3. ASSUME NEW i \in 1 .. Len(r) - 1 PROVE After(r[i]) = Before(r[i + 1])
    <3>1. r[i] = q[i + 1] /\ r[i + 1] = q[i + 1 + 1] /\ i + 1 \in 1 .. Len(q) - 1
      BY <1>1
    <3> QED
      BY <1>2, <3>1
  <2> QED
    BY <1>1, <1>2, <1>4, <2>2, <2>3 DEF Follow, r, h
<1> QED
  BY <1>3, <1>4

LEMMA FollowBound ==
  ASSUME ControlTypes, Orders
  PROVE  count <= MaxBuffers /\ toHost <= MaxBuffers /\ toDisk <= MaxBuffers
<1>1. ASSUME NEW ops, NEW q \in Seq(TaskOf(ops)), NEW from, NEW to,
             from <= MaxBuffers, Follow(q, from, to)
      PROVE  to <= MaxBuffers
  <2>1. CASE q = << >>
    BY <1>1, <2>1 DEF Follow
  <2>2. CASE q # << >>
    <3>1. Len(q) \in 1 .. Len(q) /\ q[Len(q)] \in TaskOf(ops)
      BY <1>1, <2>2
    <3>2. q[Len(q)].id \in BufferIds
      BY <3>1 DEF TaskOf
    <3>3. After(q[Len(q)]) <= MaxBuffers
      BY <3>2, Constants DEF After, BufferIds
    <3> QED
      BY <1>1, <2>2, <3>3 DEF Follow
  <2> QED
    BY <2>1, <2>2
<1>2. After(task[0]) <= MaxBuffers /\ After(task[1]) <= MaxBuffers /\ After(task[Owner]) <= MaxBuffers
  BY TaskTypes, ThreadNames
<1>3. queue[0] \in Seq(TaskOf(MoveOps)) /\ queue[1] \in Seq(TaskOf(DiskOps))
  BY DEF ControlTypes
<1>4. /\ Follow(queue[0], After(task[0]), toHost) /\ Follow(queue[1], After(task[1]), toDisk)
  BY DEF Orders
<1>5. toHost <= MaxBuffers
  BY <1>1, <1>2, <1>3, <1>4
<1>6. toDisk <= MaxBuffers
  BY <1>1, <1>2, <1>3, <1>4
<1> QED
  BY <1>2, <1>5, <1>6 DEF Orders

OpsOf(w) == IF w = 0 THEN MoveOps ELSE DiskOps

LEMMA Enqueued ==
  ASSUME ControlTypes, NEW w \in Workers, NEW op \in OpsOf(w), NEW id \in BufferIds,
         NEW places \in [Threads -> Places], Enqueue(w, op, id, places)
  PROVE  /\ queue' = [v \in Workers |-> queue'[v]]
         /\ queue'[0] \in Seq(TaskOf(MoveOps)) /\ queue'[1] \in Seq(TaskOf(DiskOps))
         /\ queue'[w] = Append(queue[w], [op |-> op, id |-> id])
         /\ [op |-> op, id |-> id] \in TaskOf(OpsOf(w))
         /\ \A v \in Workers : v # w => queue'[v] = queue[v]
         /\ pc' \in [Threads -> Places]
         /\ \A u \in Threads : u # w => pc'[u] = places[u]
         /\ \/ pc'[w] = places[w]
            \/ places[w] = "asleep" /\ pc'[w] = "consume"
<1>1. /\ queue = [v \in Workers |-> queue[v]]
      /\ queue[0] \in Seq(TaskOf(MoveOps)) /\ queue[1] \in Seq(TaskOf(DiskOps))
  BY DEF ControlTypes
<1>2. [op |-> op, id |-> id] \in TaskOf(OpsOf(w))
  BY DEF TaskOf
<1> DEFINE t == [op |-> op, id |-> id]
<1> HIDE DEF t
<1>3. queue' = [queue EXCEPT ![w] = Append(queue[w], t)]
  BY DEF Enqueue, t
<1>4. /\ queue'[w] = Append(queue[w], t) /\ queue' = [v \in Workers |-> queue'[v]]
      /\ \A v \in Workers : v # w => queue'[v] = queue[v]
  BY <1>1, <1>3
<1>5. queue[w] \in Seq(TaskOf(OpsOf(w)))
  BY <1>1, ThreadNames DEF OpsOf
<1>6. queue'[w] \in Seq(TaskOf(OpsOf(w)))
  BY <1>2, <1>4, <1>5, AppendProperties DEF t
<1>7. queue'[0] \in Seq(TaskOf(MoveOps)) /\ queue'[1] \in Seq(TaskOf(DiskOps))
  <2>1. CASE w = 0
    <3>1. OpsOf(w) = MoveOps /\ 1 # w /\ 1 \in Workers
      BY <2>1, ThreadNames DEF OpsOf
    <3> QED
      BY <1>1, <1>4, <1>6, <2>1, <3>1
  <2>2. CASE w = 1
    <3>1. OpsOf(w) = DiskOps /\ 0 # w /\ 0 \in Workers
      BY <2>2, ThreadNames DEF OpsOf
    <3> QED
      BY <1>1, <1>4, <1>6, <2>2, <3>1
  <2> QED
    BY <2>1, <2>2, ThreadNames
<1>8. /\ pc' = [places EXCEPT ![w] = IF places[w] = "asleep" THEN "consume" ELSE places[w]]
      /\ w \in Threads
  BY ThreadNames DEF Enqueue
<1>9. "consume" \in Places
  BY DEF Places
<1> QED
  BY <1>2, <1>4, <1>7, <1>8, <1>9 DEF t
-----------------------------------------------------------------------------
(* Types.                                                                    *)

LEMMA TypesKept ==
  ASSUME ControlTypes, UNCHANGED <<queue, task, count, toHost, toDisk, popped>>,
         pushes' \in Nat, pc' \in [Threads -> Places], mutex' \in [Mutexes -> Threads \cup {Free}],
         waits' \in [Threads -> {"none", "room", "entry"}],
         continue' \in BOOLEAN, failed' \in BOOLEAN,
         \A t \in Threads : Busy(t)' => Busy(t)
  PROVE  ControlTypes'
BY DEF ControlTypes

LEMMA ReleaseType ==
  ASSUME ControlTypes, NEW t \in Threads, Release(t)
  PROVE  /\ mutex' \in [Mutexes -> Threads \cup {Free}]
         /\ \A m \in Mutexes : mutex'[m] = IF mutex[m] = t THEN Free ELSE mutex[m]
BY DEF ControlTypes, Release

LEMMA BeginType ==
  ASSUME ControlTypes, NEW t \in Threads, NEW op, NEW id, Begin(t, op, id)
  PROVE  /\ task' = [u \in Threads |-> task'[u]]
         /\ task'[t] = [op |-> op, id |-> id]
         /\ \A u \in Threads : u # t => task'[u] = task[u]
         /\ waits' \in [Threads -> {"none", "room", "entry"}]
BY DEF ControlTypes, Begin
-----------------------------------------------------------------------------
(* The slots of the two queues.                                              *)

DeviceFacts == INSTANCE FixedSizeDeque_proofs WITH Capacity <- DeviceCapacity
HostFacts   == INSTANCE FixedSizeDeque_proofs WITH Capacity <- HostCapacity

LEMMA DeviceSlots ==
  ASSUME NEW i \in Int
  PROVE  /\ Device!SlotOf(i) \in Device!Slots
         /\ \A j \in Int : i # j /\ -DeviceCapacity < i - j /\ i - j < DeviceCapacity
               => Device!SlotOf(i) # Device!SlotOf(j)
<1>1. DeviceFacts!CapacityAssumption
  BY Constants DEF DeviceFacts!CapacityAssumption
<1>2. \A k \in Int : DeviceFacts!SlotOf(k) = Device!SlotOf(k)
  BY DEF DeviceFacts!SlotOf, Device!SlotOf, DeviceFacts!PositiveModulo, Device!PositiveModulo,
         DeviceFacts!CRem, Device!CRem
<1>3. DeviceFacts!SlotOf(i) \in DeviceFacts!Slots
  BY <1>1, Constants, DeviceFacts!SlotOfInSlots
<1>4. \A j \in Int : i # j /\ -DeviceCapacity < i - j /\ i - j < DeviceCapacity
         => DeviceFacts!SlotOf(i) # DeviceFacts!SlotOf(j)
  BY <1>1, DeviceFacts!SlotOfDistinct
<1> QED
  BY <1>2, <1>3, <1>4 DEF DeviceFacts!Slots, Device!Slots

LEMMA HostSlots ==
  ASSUME NEW i \in Int
  PROVE  /\ HostCapacity > 0 => Host!SlotOf(i) \in Host!Slots
         /\ \A j \in Int : i # j /\ -HostCapacity < i - j /\ i - j < HostCapacity
               => Host!SlotOf(i) # Host!SlotOf(j)
<1>1. HostFacts!CapacityAssumption
  BY Constants DEF HostFacts!CapacityAssumption
<1>2. \A k \in Int : HostFacts!SlotOf(k) = Host!SlotOf(k)
  BY DEF HostFacts!SlotOf, Host!SlotOf, HostFacts!PositiveModulo, Host!PositiveModulo,
         HostFacts!CRem, Host!CRem
<1>3. HostCapacity > 0 => HostFacts!SlotOf(i) \in HostFacts!Slots
  BY <1>1, Constants, HostFacts!SlotOfInSlots
<1>4. \A j \in Int : i # j /\ -HostCapacity < i - j /\ i - j < HostCapacity
         => HostFacts!SlotOf(i) # HostFacts!SlotOf(j)
  BY <1>1, HostFacts!SlotOfDistinct
<1> QED
  BY <1>2, <1>3, <1>4 DEF HostFacts!Slots, Host!Slots

\* What an operation does to a queue, part by part.
LEMMA DeviceParts ==
  ASSUME MemoryTypes
  PROVE  /\ Device!IncFront(device) = [begin |-> device.begin - 1, end |-> device.end, slot |-> device.slot]
         /\ Device!PopFront(device) = [begin |-> device.begin + 1, end |-> device.end, slot |-> device.slot]
         /\ Device!IncBack(device) = [begin |-> device.begin, end |-> device.end + 1, slot |-> device.slot]
         /\ Device!PopBack(device) = [begin |-> device.begin, end |-> device.end - 1, slot |-> device.slot]
         /\ \A s \in Device!Slots, v \in Int : Device!Write(device, s, v) =
               [begin |-> device.begin, end |-> device.end, slot |-> [device.slot EXCEPT ![s] = v]]
BY DEF MemoryTypes, DeviceType, Device!IncFront, Device!PopFront, Device!IncBack, Device!PopBack, Device!Write

LEMMA HostParts ==
  ASSUME MemoryTypes
  PROVE  /\ Host!IncFront(host) = [begin |-> host.begin - 1, end |-> host.end, slot |-> host.slot]
         /\ Host!PopFront(host) = [begin |-> host.begin + 1, end |-> host.end, slot |-> host.slot]
         /\ Host!IncBack(host) = [begin |-> host.begin, end |-> host.end + 1, slot |-> host.slot]
         /\ Host!PopBack(host) = [begin |-> host.begin, end |-> host.end - 1, slot |-> host.slot]
         /\ \A s \in Host!Slots, v \in Int : Host!Write(host, s, v) =
               [begin |-> host.begin, end |-> host.end, slot |-> [host.slot EXCEPT ![s] = v]]
BY DEF MemoryTypes, HostType, Host!IncFront, Host!PopFront, Host!IncBack, Host!PopBack, Host!Write

\* Full and empty, read from the indices.
LEMMA SizeFacts ==
  ASSUME MemoryTypes, Sizes
  PROVE  /\ device.begin <= device.end + 1 /\ device.end - device.begin + 1 <= DeviceCapacity
         /\ host.begin <= host.end + 1 /\ host.end - host.begin + 1 <= HostCapacity
         /\ Device!Full(device) <=> device.end - device.begin + 1 = DeviceCapacity
         /\ Device!Empty(device) <=> device.end - device.begin + 1 = 0
         /\ Host!Full(host) <=> host.end - host.begin + 1 = HostCapacity
         /\ Host!Empty(host) <=> host.end - host.begin + 1 = 0
         /\ Device!Size(device) = device.end - device.begin + 1
         /\ Host!Size(host) = host.end - host.begin + 1
<1>1. /\ device.begin \in Int /\ device.end \in Int /\ host.begin \in Int /\ host.end \in Int
      /\ DeviceCapacity \in Nat /\ HostCapacity \in Nat
  BY MemoryFacts, Constants
<1>2. /\ Device!Size(device) = device.end - device.begin + 1
      /\ Host!Size(host) = host.end - host.begin + 1
  BY DEF Device!Size, Host!Size
<1>3. Device!Size(device) \in 0 .. DeviceCapacity /\ Host!Size(host) \in 0 .. HostCapacity
  BY DEF Sizes
<1>4. /\ Device!Full(device) <=> Device!Size(device) = DeviceCapacity
      /\ Host!Full(host) <=> Host!Size(host) = HostCapacity
      /\ Device!Empty(device) <=> device.begin > device.end
      /\ Host!Empty(host) <=> host.begin > host.end
  BY DEF Device!Full, Host!Full, Device!Empty, Host!Empty, Device!Size, Host!Size
<1> QED
  BY <1>1, <1>2, <1>3, <1>4
-----------------------------------------------------------------------------
(* The two effects of an operation, which are never in error.                *)

LEMMA LevelFacts ==
  ASSUME ControlTypes
  PROVE  /\ \A t \in Threads : Unfinished(t) => Level(t) = Before(task[t])
         /\ \A t \in Threads : ~Unfinished(t) => Level(t) = After(task[t])
         /\ \A t \in Threads :
               /\ task[t].op \in {"emplaceFront", "deviceToHost", "hostToDisk"} =>
                     Before(task[t]) = task[t].id /\ After(task[t]) = task[t].id + 1
               /\ task[t].op \in {"popFront", "hostToDevice", "diskToHost"} =>
                     Before(task[t]) = task[t].id + 1 /\ After(task[t]) = task[t].id
BY DEF Level, Before, After, Ups

LEMMA HostNeeded ==
  ASSUME Inv, Busy(0) \/ Busy(1)
  PROVE  HostCapacity > 0
BY Constants DEF Inv, ControlInv, HostUsed

\* Whoever is to write to disk finds a buffer in the host queue, and whoever is
\* to read from disk finds the file.
LEMMA DiskTaskReady ==
  ASSUME Inv, Unfinished(1)
  PROVE  /\ task[1].op = "hostToDisk" => ~Host!Empty(host)
         /\ pc[1] # "commit" /\ task[1].op = "diskToHost" =>
               disk[task[1].id] = task[1].id + 1 /\ disk[task[1].id] # Nothing
<1>1. /\ Level(1) = Before(task[1]) /\ host.end = -1 - Level(1) /\ task[1].id \in BufferIds
      /\ task[1].id \in Nat
  BY LevelFacts, TaskTypes, ThreadNames DEF Inv, ControlInv, Indices, BufferIds
<1>2. /\ task[1].op = "hostToDisk" => Before(task[1]) = task[1].id
      /\ task[1].op = "diskToHost" => Before(task[1]) = task[1].id + 1
  BY LevelFacts, ThreadNames DEF Inv
<1>3. ASSUME task[1].op = "hostToDisk" PROVE ~Host!Empty(host)
  <2>0. task[0].op # "hostToDevice" /\ task[1].id < Level(0)
    BY <1>3 DEF Inv, ControlInv, Writes, Writing, Reading
  <2>1. task[1].id < -host.begin
    <3>1. Level(0) \in Nat /\ task[0].id \in BufferIds
      BY TaskTypes, ThreadNames DEF Inv
    <3>2. CASE Moving
      <4>1. Busy(0) /\ Unfinished(0)
        BY <3>2 DEF Moving, Busy, Unfinished
      <4>2. task[0].op = "deviceToHost"
        BY <2>0, <4>1, TaskTypes DEF Inv, MoveOps
      <4>3. Level(0) = task[0].id
        BY <4>1, <4>2, LevelFacts, ThreadNames DEF Inv
      <4>4. host.begin = -(task[0].id + 1)
        BY <3>2 DEF Inv, ControlInv, Indices
      <4> QED
        BY <1>1, <2>0, <3>1, <4>3, <4>4 DEF BufferIds
    <3>3. CASE ~Moving
      <4>1. host.begin = -Level(0)
        BY <3>3 DEF Inv, ControlInv, Indices
      <4> QED
        BY <1>1, <2>0, <3>1, <4>1
    <3> QED
      BY <3>2, <3>3
  <2>2. host.end = -1 - task[1].id /\ host.begin \in Int
    BY <1>1, <1>2, <1>3, MemoryFacts DEF Inv
  <2>3. host.begin <= host.end
    BY <1>1, <2>1, <2>2
  <2> QED
    BY <2>2, <2>3, <1>1 DEF Host!Empty
<1>4. ASSUME pc[1] # "commit", task[1].op = "diskToHost"
      PROVE  disk[task[1].id] = task[1].id + 1 /\ disk[task[1].id] # Nothing
  <2>1. FilesBelow = task[1].id + 1
    BY <1>1, <1>2, <1>4 DEF FilesBelow, Committing
  <2>2. task[1].id < FilesBelow /\ task[1].id + 1 # 0
    BY <1>1, <2>1
  <2> QED
    BY <1>1, <2>2 DEF Inv, DataInv, DiskHolds, Nothing
<1> QED
  BY <1>3, <1>4

LEMMA Performers ==
  ASSUME ControlTypes, NEW t \in Threads, Busy(t)
  PROVE  /\ task[t].op \in {"emplaceFront", "popFront"} <=> t = Owner
         /\ task[t].op \in {"deviceToHost", "hostToDevice"} <=> t = 0
         /\ task[t].op \in {"hostToDisk", "diskToHost"} <=> t = 1
<1>1. t = 0 \/ t = 1 \/ t = Owner
  BY ThreadNames
<1>2. CASE t = 0
  BY <1>2, TaskTypes, ThreadNames DEF MoveOps
<1>3. CASE t = 1
  BY <1>3, TaskTypes, ThreadNames DEF DiskOps
<1>4. CASE t = Owner
  BY <1>4, TaskTypes, ThreadNames DEF OwnerOps
<1> QED
  BY <1>1, <1>2, <1>3, <1>4

LEMMA TransferEffect ==
  ASSUME Inv, NEW t \in Threads, Transfer(t)
  PROVE  /\ pc[t] = "transfer" /\ Busy(t) /\ Unfinished(t)
         /\ ~failed' /\ pc' = [pc EXCEPT ![t] = "commit"]
         /\ UNCHANGED <<mutex, queue, task, waits, array, counters, continue>>
         /\ \/ /\ t = Owner /\ task[t].op = "emplaceFront" /\ ~Device!Full(device)
               /\ stream' = Append(stream, [kind |-> "store", id |-> task[t].id,
                                            slot |-> Device!NextFrontSlot(device)])
               /\ UNCHANGED <<device, host, disk>>
            \/ /\ t = Owner /\ task[t].op = "popFront" /\ ~Device!Empty(device)
               /\ stream' = Append(stream, [kind |-> "load", id |-> task[t].id,
                                            slot |-> Device!FrontSlot(device)])
               /\ UNCHANGED <<device, host, disk>>
            \/ /\ t = 0 /\ task[t].op = "deviceToHost" /\ ~Host!Full(host) /\ ~Device!Empty(device)
               /\ host' = Host!IncFront(host)
               /\ UNCHANGED <<device, disk, stream>>
            \/ /\ t = 0 /\ task[t].op = "hostToDevice" /\ ~Device!Full(device) /\ ~Host!Empty(host)
               /\ stream' = Append(stream, [kind |-> "fill", id |-> task[t].id,
                                            slot |-> Device!NextBackSlot(device)])
               /\ device' = Device!IncBack(device)
               /\ UNCHANGED <<host, disk>>
            \/ /\ t = 1 /\ task[t].op = "hostToDisk" /\ ~Host!Empty(host)
               /\ disk' = [disk EXCEPT ![task[t].id] = Host!BackEntry(host)]
               /\ UNCHANGED <<device, host, stream>>
            \/ /\ t = 1 /\ task[t].op = "diskToHost" /\ ~Host!Full(host)
               /\ disk[task[t].id] = task[t].id + 1
               /\ host' = Host!Write(host, Host!NextBackSlot(host), disk[task[t].id])
               /\ disk' = [disk EXCEPT ![task[t].id] = Nothing]
               /\ UNCHANGED <<device, stream>>
<1>1. pc[t] = "transfer" /\ Busy(t) /\ Unfinished(t) /\ pc[t] # "commit"
  BY DEF Transfer, Busy, Unfinished, Begun
<1>2. /\ task[t].op \in {"emplaceFront", "popFront"} <=> t = Owner
      /\ task[t].op \in {"deviceToHost", "hostToDevice"} <=> t = 0
      /\ task[t].op \in {"hostToDisk", "diskToHost"} <=> t = 1
  BY <1>1, Performers DEF Inv
<1>3. ~NeedsRoom(task[t].op) /\ ~NeedsEntry(task[t].op)
  BY <1>1 DEF Inv, Sizes
<1>4. task[t].op = "hostToDisk" => ~Host!Empty(host)
  BY <1>1, <1>2, DiskTaskReady
<1>5. task[t].op = "diskToHost" => disk[task[t].id] # Nothing /\ disk[task[t].id] = task[t].id + 1
  BY <1>1, <1>2, DiskTaskReady
<1>6. /\ ~failed' /\ pc' = [pc EXCEPT ![t] = "commit"]
      /\ UNCHANGED <<mutex, queue, task, waits, array, counters, continue>>
  BY <1>3, <1>4, <1>5 DEF Transfer
<1>7. \/ /\ task[t].op = "emplaceFront"
         /\ stream' = Append(stream, [kind |-> "store", id |-> task[t].id,
                                      slot |-> Device!NextFrontSlot(device)])
         /\ UNCHANGED <<device, host, disk>>
      \/ /\ task[t].op = "popFront"
         /\ stream' = Append(stream, [kind |-> "load", id |-> task[t].id,
                                      slot |-> Device!FrontSlot(device)])
         /\ UNCHANGED <<device, host, disk>>
      \/ /\ task[t].op = "deviceToHost"
         /\ host' = Host!IncFront(host)
         /\ UNCHANGED <<device, disk, stream>>
      \/ /\ task[t].op = "hostToDevice"
         /\ stream' = Append(stream, [kind |-> "fill", id |-> task[t].id,
                                      slot |-> Device!NextBackSlot(device)])
         /\ device' = Device!IncBack(device)
         /\ UNCHANGED <<host, disk>>
      \/ /\ task[t].op = "hostToDisk"
         /\ disk' = [disk EXCEPT ![task[t].id] = Host!BackEntry(host)]
         /\ UNCHANGED <<device, host, stream>>
      \/ /\ task[t].op = "diskToHost"
         /\ host' = Host!Write(host, Host!NextBackSlot(host), disk[task[t].id])
         /\ disk' = [disk EXCEPT ![task[t].id] = Nothing]
         /\ UNCHANGED <<device, stream>>
  BY <1>3, <1>4, <1>5 DEF Transfer, Issue
<1>8. /\ task[t].op \in {"emplaceFront", "hostToDevice"} => ~Device!Full(device)
      /\ task[t].op \in {"deviceToHost", "diskToHost"} => ~Host!Full(host)
      /\ task[t].op \in {"popFront", "deviceToHost"} => ~Device!Empty(device)
      /\ task[t].op = "hostToDevice" => ~Host!Empty(host)
  BY <1>3 DEF NeedsRoom, NeedsEntry
<1> QED
  BY <1>1, <1>2, <1>4, <1>5, <1>6, <1>7, <1>8

LEMMA CommitEffect ==
  ASSUME Inv, NEW t \in Threads, Commit(t)
  PROVE  /\ pc[t] = "commit" /\ Busy(t) /\ Unfinished(t)
         /\ ~failed' /\ pc' = [pc EXCEPT ![t] = "notify"]
         /\ Release(t)
         /\ UNCHANGED <<disk, stream, queue, task, waits, array, counters, continue>>
         /\ \/ /\ t = Owner /\ task[t].op = "emplaceFront" /\ ~Device!Full(device)
               /\ device' = Device!IncFront(device) /\ host' = host
            \/ /\ t = Owner /\ task[t].op = "popFront" /\ ~Device!Empty(device)
               /\ device' = Device!PopFront(device) /\ host' = host
            \/ /\ t = 0 /\ task[t].op = "deviceToHost" /\ ~Device!Empty(device)
               /\ ~Pending("store", task[t].id)
               /\ device' = Device!PopBack(device)
               /\ host' = Host!Write(host, Host!FrontSlot(host), Device!BackEntry(device))
            \/ /\ t = 0 /\ task[t].op = "hostToDevice" /\ ~Host!Empty(host)
               /\ ~Pending("fill", task[t].id)
               /\ device' = device /\ host' = Host!PopFront(host)
            \/ /\ t = 1 /\ task[t].op = "hostToDisk" /\ ~Host!Empty(host)
               /\ device' = device /\ host' = Host!PopBack(host)
            \/ /\ t = 1 /\ task[t].op = "diskToHost" /\ ~Host!Full(host)
               /\ device' = device /\ host' = Host!IncBack(host)
<1>1. pc[t] = "commit" /\ Busy(t) /\ Unfinished(t)
  BY DEF Commit, Busy, Unfinished
<1>2. /\ task[t].op \in {"emplaceFront", "popFront"} <=> t = Owner
      /\ task[t].op \in {"deviceToHost", "hostToDevice"} <=> t = 0
      /\ task[t].op \in {"hostToDisk", "diskToHost"} <=> t = 1
  BY <1>1, Performers DEF Inv
<1>3. CommitSafe(task[t].op)
  BY <1>1 DEF Inv, Sizes
<1>4. task[t].op = "hostToDisk" => ~Host!Empty(host)
  BY <1>1, <1>2, DiskTaskReady
<1>5. /\ ~failed' /\ pc' = [pc EXCEPT ![t] = "notify"] /\ Release(t)
      /\ UNCHANGED <<disk, stream, queue, task, waits, array, counters, continue>>
  BY <1>3, <1>4 DEF Commit, CommitSafe
<1>6. /\ task[t].op = "emplaceFront" => device' = Device!IncFront(device) /\ host' = host
      /\ task[t].op = "popFront" => device' = Device!PopFront(device) /\ host' = host
      /\ task[t].op = "deviceToHost" =>
            /\ device' = Device!PopBack(device)
            /\ host' = Host!Write(host, Host!FrontSlot(host), Device!BackEntry(device))
      /\ task[t].op = "hostToDevice" => device' = device /\ host' = Host!PopFront(host)
      /\ task[t].op = "hostToDisk" => device' = device /\ host' = Host!PopBack(host)
      /\ task[t].op = "diskToHost" => device' = device /\ host' = Host!IncBack(host)
  BY DEF Commit
<1>7. /\ task[t].op = "deviceToHost" => ~Pending("store", task[t].id)
      /\ task[t].op = "hostToDevice" => ~Pending("fill", task[t].id)
  BY DEF Commit, CopyEnded
<1>8. t = 0 \/ t = 1 \/ t = Owner
  BY ThreadNames
<1> QED
  BY <1>1, <1>2, <1>3, <1>4, <1>5, <1>6, <1>7, <1>8 DEF CommitSafe
-----------------------------------------------------------------------------
(* Every step is one of the following.                                       *)

LEMMA StepCases ==
  ASSUME [Next]_vars
  PROVE  \/ UNCHANGED vars
         \/ /\ ~failed
            /\ \/ \E t \in Threads : Quiet(t) \/ Transfer(t) \/ Commit(t)
               \/ \E w \in Workers : TakeTask(w) \/ Finish(w)
               \/ DeviceCopies \/ ComputeArray \/ PushAsync \/ Pushed
               \/ PopPrelude \/ PopAsync \/ PopWait \/ Stop
<1>1. CASE ~failed /\ OwnerStep
  BY <1>1, ThreadNames DEF OwnerStep, OperationStep, Quiet
<1>2. CASE ~failed /\ \E w \in Workers : WorkerStep(w)
  <2>1. PICK w \in Workers : WorkerStep(w)
    BY <1>2
  <2>2. w \in Threads
    BY ThreadNames
  <2> QED
    BY <1>2, <2>1, <2>2 DEF WorkerStep, OperationStep, Quiet
<1>3. CASE ~failed /\ Spurious
  <2>1. CASE \E t \in Threads : Unblock(t)
    BY <1>3, <2>1 DEF Quiet
  <2>2. CASE \E w \in Workers : SpuriousWake(w)
    BY <1>3, <2>2, ThreadNames DEF Quiet
  <2> QED
    BY <1>3, <2>1, <2>2 DEF Spurious
<1>4. CASE ~failed /\ DeviceCopies
  BY <1>4
<1>5. CASE Ended
  BY <1>5 DEF Ended
<1>6. CASE UNCHANGED vars
  BY <1>6
<1> QED
  BY <1>1, <1>2, <1>3, <1>4, <1>5, <1>6 DEF Next

LEMMA QuietTypes ==
  ASSUME Inv, NEW t \in Threads, Quiet(t)
  PROVE  ControlTypes'
<1>1. ControlTypes
  BY DEF Inv
<1>2. /\ \A u \in Threads : Busy(u)' <=> Busy(u)
      /\ pc' \in [Threads -> Places]
      /\ UNCHANGED <<queue, task, counters, failed, continue>>
  BY <1>1, QuietPlaces, StaysBusy
<1>3. mutex' \in [Mutexes -> Threads \cup {Free}]
  <2>1. mutex \in [Mutexes -> Threads \cup {Free}]
    BY <1>1 DEF ControlTypes
  <2>2. CASE Acquire(t)
    BY <2>1, <2>2 DEF Acquire
  <2>3. CASE Block(t)
    BY <1>1, <2>3, ReleaseType DEF Block
  <2>4. CASE ~Acquire(t) /\ ~Block(t)
    BY <2>1, <2>4 DEF Quiet, Test, Unblock, Notify, Wait, SpuriousWake
  <2> QED
    BY <2>2, <2>3, <2>4
<1>4. waits' \in [Threads -> {"none", "room", "entry"}]
  <2>1. waits \in [Threads -> {"none", "room", "entry"}]
    BY <1>1 DEF ControlTypes
  <2>2. CASE Test(t)
    BY <2>1, <2>2 DEF Test
  <2>3. CASE ~Test(t)
    BY <2>1, <2>3 DEF Quiet, Acquire, Block, Unblock, Notify, Wait, SpuriousWake
  <2> QED
    BY <2>2, <2>3
<1> QED
  BY <1>1, <1>2, <1>3, <1>4, TypesKept DEF counters, ControlTypes

LEMMA OperationTypes ==
  ASSUME Inv, NEW t \in Threads, Transfer(t) \/ Commit(t)
  PROVE  ControlTypes'
<1>1. ControlTypes /\ pc \in [Threads -> Places]
  BY DEF Inv, ControlTypes
<1>2. CASE Transfer(t)
  <2>1. /\ Busy(t) /\ ~failed' /\ pc' = [pc EXCEPT ![t] = "commit"]
        /\ UNCHANGED <<mutex, queue, task, waits, array, counters, continue>>
    BY <1>2, TransferEffect
  <2>2. pc' \in [Threads -> Places] /\ \A u \in Threads : Busy(u)' => Busy(u)
    BY <1>1, <2>1 DEF Places, Busy, Unfinished
  <2> QED
    BY <1>1, <1>2, <2>1, <2>2, TypesKept DEF counters, ControlTypes, Transfer
<1>3. CASE Commit(t)
  <2>1. /\ Busy(t) /\ ~failed' /\ pc' = [pc EXCEPT ![t] = "notify"] /\ Release(t)
        /\ UNCHANGED <<queue, task, waits, array, counters, continue>>
    BY <1>3, CommitEffect
  <2>2. pc' \in [Threads -> Places] /\ \A u \in Threads : Busy(u)' => Busy(u)
    BY <1>1, <2>1 DEF Places, Busy, Unfinished, Ending
  <2>3. mutex' \in [Mutexes -> Threads \cup {Free}]
    BY <1>1, <2>1, ReleaseType
  <2>4. failed' \in BOOLEAN
    BY <1>3 DEF Commit
  <2> QED
    BY <1>1, <2>1, <2>2, <2>3, <2>4, TypesKept DEF counters, ControlTypes
<1> QED
  BY <1>2, <1>3

\* The steps of the owner and of the device that start no operation and end none.
LEMMA PlainTypes ==
  ASSUME Inv, DeviceCopies \/ ComputeArray \/ PopPrelude \/ PopWait \/ Stop
  PROVE  ControlTypes'
<1>1. ControlTypes /\ pc \in [Threads -> Places] /\ Owner \in Threads
  BY ThreadNames DEF Inv, ControlTypes
<1>2. /\ UNCHANGED <<queue, task, count, toHost, toDisk, popped, mutex, waits, failed>>
      /\ pushes' \in Nat /\ continue' \in BOOLEAN
  <2>1. CASE DeviceCopies
    BY <1>1, <2>1 DEF DeviceCopies, counters, ControlTypes
  <2>2. CASE ComputeArray
    BY <1>1, <2>2 DEF ComputeArray, ControlTypes
  <2>3. CASE PopPrelude
    BY <1>1, <2>3 DEF PopPrelude, counters, ControlTypes
  <2>4. CASE PopWait
    BY <1>1, <2>4 DEF PopWait, counters, ControlTypes
  <2>5. CASE Stop
    <3>1. /\ UNCHANGED <<queue, task, count, toHost, toDisk, popped, mutex, waits, failed>>
          /\ pushes' = pushes
      BY <2>5 DEF Stop, counters
    <3>2. continue' = FALSE \/ continue' = continue
      BY <2>5 DEF Stop
    <3> QED
      BY <1>1, <3>1, <3>2 DEF ControlTypes
  <2> QED
    BY <2>1, <2>2, <2>3, <2>4, <2>5
<1>3. pc' \in [Threads -> Places] /\ \A u \in Threads : Busy(u)' => Busy(u)
  <2>1. CASE DeviceCopies
    BY <1>1, <2>1 DEF DeviceCopies, Busy, Unfinished
  <2>2. CASE ComputeArray
    BY <1>1, <2>2 DEF ComputeArray, Busy, Unfinished, Places, Begun, Ending
  <2>3. CASE PopPrelude
    BY <1>1, <2>3 DEF PopPrelude, Busy, Unfinished, Places, Begun, Ending
  <2>4. CASE PopWait
    BY <1>1, <2>4 DEF PopWait, Busy, Unfinished, Places, Begun, Ending
  <2>5. CASE Stop
    <3>1. CASE pc' = [pc EXCEPT ![Owner] = "stop"]
      BY <1>1, <3>1 DEF Busy, Unfinished, Places, Begun, Ending
    <3>2. CASE pc' = [u \in Threads |-> IF u = Owner THEN "join"
                                        ELSE IF pc[u] = "asleep" THEN "consume" ELSE pc[u]]
      BY <1>1, <3>2 DEF Busy, Unfinished, Places, Begun, Ending
    <3>3. CASE pc' = [pc EXCEPT ![Owner] = "done"]
      BY <1>1, <3>3 DEF Busy, Unfinished, Places, Begun, Ending
    <3> QED
      BY <2>5, <3>1, <3>2, <3>3 DEF Stop
  <2> QED
    BY <2>1, <2>2, <2>3, <2>4, <2>5
<1> QED
  BY <1>1, <1>2, <1>3, TypesKept DEF ControlTypes

\* A step that starts an operation of thread t, or ends one of worker 0 or of
\* the owner with a task for a worker.
LEMMA BegunTypes ==
  ASSUME ControlTypes, NEW t \in Threads, NEW op, NEW id, Begin(t, op, id), id \in BufferIds,
         op \in (IF t = Owner THEN OwnerOps ELSE OpsOf(t)),
         pc' \in [Threads -> Places], \A u \in Threads : u # t /\ Busy(u)' => Busy(u),
         queue' = [v \in Workers |-> queue'[v]],
         queue'[0] \in Seq(TaskOf(MoveOps)), queue'[1] \in Seq(TaskOf(DiskOps)),
         mutex' = mutex, pushes' = pushes, count' \in Nat, toHost' \in Nat, toDisk' \in Nat,
         popped' \in BOOLEAN, continue' \in BOOLEAN, failed' \in BOOLEAN
  PROVE  ControlTypes'
<1>1. /\ task' = [u \in Threads |-> task'[u]]
      /\ task'[t] = [op |-> op, id |-> id]
      /\ \A u \in Threads : u # t => task'[u] = task[u]
      /\ waits' \in [Threads -> {"none", "room", "entry"}]
  BY BeginType
<1>2. /\ t = 0 => task'[t] \in TaskOf(MoveOps)
      /\ t = 1 => task'[t] \in TaskOf(DiskOps)
      /\ t = Owner => task'[t] \in TaskOf(OwnerOps)
      /\ task'[t] # NoTask
  BY <1>1, ThreadNames DEF OpsOf, TaskOf, NoTask, MoveOps, DiskOps, OwnerOps
<1>3. /\ task'[0] \in TaskOf(MoveOps) \cup {NoTask} /\ task'[1] \in TaskOf(DiskOps) \cup {NoTask}
      /\ task'[Owner] \in TaskOf(OwnerOps) \cup {NoTask}
  BY <1>1, <1>2, ThreadNames DEF ControlTypes
<1>4. \A u \in Threads : Busy(u)' => task'[u] # NoTask
  BY <1>1, <1>2 DEF ControlTypes
<1> QED
  BY <1>1, <1>3, <1>4 DEF ControlTypes

LEMMA EndedTypes ==
  ASSUME ControlTypes, UNCHANGED <<task, waits, mutex, pushes, count, popped, continue, failed>>,
         pc' \in [Threads -> Places], \A u \in Threads : Busy(u)' => Busy(u),
         queue' = [v \in Workers |-> queue'[v]],
         queue'[0] \in Seq(TaskOf(MoveOps)), queue'[1] \in Seq(TaskOf(DiskOps)),
         toHost' \in Nat, toDisk' \in Nat
  PROVE  ControlTypes'
BY DEF ControlTypes
-----------------------------------------------------------------------------
(* The mutexes.                                                              *)

LEMMA LockNames ==
  /\ \A op \in OwnerOps \cup MoveOps \cup DiskOps : Locks(op) \subseteq Mutexes
  /\ <<"device", "emplace">> \in Locks("emplaceFront") \cap Locks("hostToDevice")
  /\ <<"device", "pop">> \in Locks("popFront") \cap Locks("deviceToHost")
  /\ <<"host", "emplace">> \in Locks("deviceToHost") \cap Locks("diskToHost")
  /\ <<"host", "pop">> \in Locks("hostToDevice") \cap Locks("hostToDisk")
<1>1. \A op \in OwnerOps \cup MoveOps \cup DiskOps : Locks(op) \subseteq Mutexes
  <2> SUFFICES ASSUME NEW op \in OwnerOps \cup MoveOps \cup DiskOps PROVE Locks(op) \subseteq Mutexes
    OBVIOUS
  <2>1. CASE op = "emplaceFront"
    BY <2>1 DEF Locks, Mutexes
  <2>2. CASE op = "popFront"
    BY <2>2 DEF Locks, Mutexes
  <2>3. CASE op = "deviceToHost"
    BY <2>3 DEF Locks, Mutexes
  <2>4. CASE op = "hostToDevice"
    BY <2>4 DEF Locks, Mutexes
  <2>5. CASE op = "hostToDisk"
    BY <2>5 DEF Locks, Mutexes
  <2>6. CASE op = "diskToHost"
    BY <2>6 DEF Locks, Mutexes
  <2> QED
    BY <2>1, <2>2, <2>3, <2>4, <2>5, <2>6 DEF OwnerOps, MoveOps, DiskOps
<1>2. <<"device", "emplace">> \in Locks("emplaceFront") \cap Locks("hostToDevice")
  BY DEF Locks
<1>3. <<"device", "pop">> \in Locks("popFront") \cap Locks("deviceToHost")
  BY DEF Locks
<1>4. <<"host", "emplace">> \in Locks("deviceToHost") \cap Locks("diskToHost")
  BY DEF Locks
<1>5. <<"host", "pop">> \in Locks("hostToDevice") \cap Locks("hostToDisk")
  BY DEF Locks
<1> QED
  BY <1>1, <1>2, <1>3, <1>4, <1>5

\* Two operations that fill the same queue, or empty it, exclude one another.
LEMMA Excluded ==
  ASSUME Holds
  PROVE  /\ ~(Inside(Owner) /\ task[Owner].op = "emplaceFront" /\ Inside(0) /\ task[0].op = "hostToDevice")
         /\ ~(Inside(Owner) /\ task[Owner].op = "popFront" /\ Inside(0) /\ task[0].op = "deviceToHost")
         /\ ~(Inside(0) /\ task[0].op = "deviceToHost" /\ Inside(1) /\ task[1].op = "diskToHost")
         /\ ~(Inside(0) /\ task[0].op = "hostToDevice" /\ Inside(1) /\ task[1].op = "hostToDisk")
<1>1. ASSUME NEW t \in Threads, NEW u \in Threads, t # u, Inside(t), Inside(u),
             NEW m \in Locks(task[t].op) \cap Locks(task[u].op)
      PROVE  FALSE
  BY <1>1 DEF Holds
<1> QED
  BY <1>1, LockNames, ThreadNames

LEMMA HoldsKept ==
  ASSUME Holds, mutex' = mutex,
         \A t \in Threads : Inside(t)' <=> Inside(t),
         \A t \in Threads : Inside(t) => task'[t] = task[t]
  PROVE  Holds'
BY DEF Holds

LEMMA HoldsReleased ==
  ASSUME Holds, ControlTypes, NEW t \in Threads, Release(t), task' = task, ~Inside(t)',
         \A u \in Threads : u # t => (Inside(u)' <=> Inside(u)),
         Inside(t)
  PROVE  Holds'
<1>1. \A m \in Mutexes : mutex'[m] = IF mutex[m] = t THEN Free ELSE mutex[m]
  BY ReleaseType
<1>2. ASSUME NEW u \in Threads PROVE Inside(u)' => \A m \in Locks(task[u].op) : mutex'[m] = u
  <2> SUFFICES ASSUME Inside(u)', NEW m \in Locks(task[u].op) PROVE mutex'[m] = u
    OBVIOUS
  <2>1. u # t /\ Inside(u)
    OBVIOUS
  <2>2. task[u].op \in OwnerOps \cup MoveOps \cup DiskOps
    <3>1. Busy(u)
      BY <2>1, ThreadNames DEF Inside, Busy, Unfinished, Begun
    <3> QED
      BY <3>1, TaskTypes, ThreadNames
  <2>3. m \in Mutexes
    BY <2>2, LockNames
  <2>4. mutex[m] = u
    BY <2>1 DEF Holds
  <2> QED
    BY <1>1, <2>1, <2>3, <2>4
<1>3. ASSUME NEW u \in Threads, ~Inside(u)', NEW m \in Mutexes PROVE mutex'[m] # u
  BY <1>1, <1>3, ThreadNames DEF Holds
<1> QED
  BY <1>2, <1>3 DEF Holds

LEMMA HoldsStep ==
  ASSUME Inv, [Next]_vars
  PROVE  Holds'
<1>0. /\ ControlTypes /\ Holds /\ pc \in [Threads -> Places]
  BY DEF Inv, ControlTypes
<1>1. ASSUME NEW t \in Threads, Acquire(t) PROVE Holds'
  <2>1. /\ pc[t] = "acquire" /\ pc' = [pc EXCEPT ![t] = "test"] /\ task' = task
        /\ \A m \in Locks(task[t].op) : mutex[m] = Free
        /\ \A m \in Mutexes : mutex'[m] = IF m \in Locks(task[t].op) THEN t ELSE mutex[m]
    BY <1>1 DEF Acquire
  <2>2. Locks(task[t].op) \subseteq Mutexes
    <3>1. Busy(t)
      BY <2>1 DEF Busy, Unfinished, Begun
    <3>2. task[t].op \in OwnerOps \cup MoveOps \cup DiskOps
      BY <1>0, <3>1, TaskTypes, ThreadNames
    <3> QED
      BY <3>2, LockNames
  <2>3. /\ Inside(t)' /\ ~Inside(t)
        /\ \A u \in Threads : u # t => (Inside(u)' <=> Inside(u))
    BY <1>0, <2>1 DEF Inside
  <2>4. ASSUME NEW u \in Threads, Inside(u)', NEW m \in Locks(task[u].op) PROVE mutex'[m] = u
    <3>1. CASE u = t
      BY <2>1, <2>2, <2>4, <3>1
    <3>2. CASE u # t
      <4>1. Inside(u) /\ mutex[m] = u
        BY <1>0, <2>3, <2>4, <3>2 DEF Holds
      <4>2. m \notin Locks(task[t].op)
        BY <2>1, <4>1, ThreadNames
      <4>3. m \in Mutexes
        <5>1. Busy(u)
          BY <4>1 DEF Inside, Busy, Unfinished, Begun
        <5>2. task[u].op \in OwnerOps \cup MoveOps \cup DiskOps
          BY <1>0, <5>1, TaskTypes, ThreadNames
        <5> QED
          BY <2>4, <5>2, LockNames
      <4> QED
        BY <2>1, <4>1, <4>2, <4>3
    <3> QED
      BY <3>1, <3>2
  <2>5. ASSUME NEW u \in Threads, ~Inside(u)', NEW m \in Mutexes PROVE mutex'[m] # u
    BY <1>0, <2>1, <2>3, <2>5 DEF Holds
  <2> QED
    BY <2>1, <2>4, <2>5 DEF Holds
<1>2. ASSUME NEW t \in Threads, Block(t) PROVE Holds'
  <2>1. Release(t) /\ task' = task /\ Inside(t) /\ ~Inside(t)'
        /\ \A u \in Threads : u # t => (Inside(u)' <=> Inside(u))
    BY <1>0, <1>2 DEF Block, Inside
  <2> QED
    BY <1>0, <2>1, HoldsReleased
<1>3. ASSUME NEW t \in Threads, Commit(t) PROVE Holds'
  <2>1. /\ Release(t) /\ task' = task /\ Inside(t) /\ ~Inside(t)'
        /\ \A u \in Threads : u # t => (Inside(u)' <=> Inside(u))
    BY <1>0, <1>3, CommitEffect DEF Inside
  <2> QED
    BY <1>0, <2>1, HoldsReleased
<1>4. ASSUME NEW t \in Threads, Transfer(t) PROVE Holds'
  <2>1. mutex' = mutex /\ task' = task /\ \A u \in Threads : Inside(u)' <=> Inside(u)
    BY <1>0, <1>4, TransferEffect DEF Inside
  <2> QED
    BY <1>0, <2>1, HoldsKept
<1>5. ASSUME NEW t \in Threads, Quiet(t), ~Acquire(t), ~Block(t) PROVE Holds'
  <2>1. mutex' = mutex /\ task' = task
    BY <1>5 DEF Quiet, Test, Unblock, Notify, Wait, SpuriousWake
  <2>2. \A u \in Threads : Inside(u)' <=> Inside(u)
    <3>1. CASE Test(t)
      BY <1>0, <3>1 DEF Test, Inside
    <3>2. CASE Unblock(t)
      BY <1>0, <3>2 DEF Unblock, Inside
    <3>3. CASE Notify(t)
      BY <1>0, <3>3 DEF Notify, Inside
    <3>4. CASE Wait(t)
      BY <1>0, <3>4 DEF Wait, Inside
    <3>5. CASE SpuriousWake(t)
      BY <1>0, <3>5 DEF SpuriousWake, Inside
    <3> QED
      BY <1>5, <3>1, <3>2, <3>3, <3>4, <3>5 DEF Quiet
  <2> QED
    BY <1>0, <2>1, <2>2, HoldsKept
<1>6. ASSUME NEW t \in Threads, NEW op, NEW id, Begin(t, op, id), mutex' = mutex, ~Inside(t),
             \A u \in Threads : Inside(u)' <=> Inside(u)
      PROVE  Holds'
  <2>1. \A u \in Threads : Inside(u) => task'[u] = task[u]
    BY <1>0, <1>6, BeginType
  <2> QED
    BY <1>0, <1>6, <2>1, HoldsKept
<1>7. ASSUME NEW w \in Workers, NEW op, NEW id, NEW places, Enqueue(w, op, id, places),
             places \in [Threads -> Places]
      PROVE  \A u \in Threads : pc'[u] = places[u] \/ (places[u] = "asleep" /\ pc'[u] = "consume")
  BY <1>7, ThreadNames DEF Enqueue
<1>8. ASSUME NEW w \in Workers, TakeTask(w) PROVE Holds'
  <2>1. Begin(w, Head(queue[w]).op, Head(queue[w]).id) /\ mutex' = mutex /\ ~Inside(w)
        /\ w \in Threads
    BY <1>8, ThreadNames DEF TakeTask, Inside
  <2>2. \A u \in Threads : Inside(u)' <=> Inside(u)
    BY <1>0, <1>8, ThreadNames DEF TakeTask, Inside
  <2> QED
    BY <1>6, <2>1, <2>2
<1>9. ASSUME NEW w \in Workers, Finish(w) PROVE Holds'
  <2>1. mutex' = mutex /\ task' = task
    BY <1>9 DEF Finish
  <2>2. \A u \in Threads : Inside(u)' <=> Inside(u)
    BY <1>0, <1>9, ThreadNames DEF Finish, Enqueue, Inside
  <2> QED
    BY <1>0, <2>1, <2>2, HoldsKept
<1>10. CASE PushAsync
  <2>1. Begin(Owner, "emplaceFront", count) /\ mutex' = mutex /\ ~Inside(Owner)
    BY <1>10 DEF PushAsync, Inside
  <2>2. \A u \in Threads : Inside(u)' <=> Inside(u)
    BY <1>0, <1>10, ThreadNames DEF PushAsync, Inside
  <2> QED
    BY <1>6, <2>1, <2>2, ThreadNames
<1>11. CASE PopAsync
  <2>1. Begin(Owner, "popFront", count - 1) /\ mutex' = mutex /\ ~Inside(Owner)
    BY <1>11 DEF PopAsync, Inside
  <2>2. \A u \in Threads : Inside(u)' <=> Inside(u)
    BY <1>0, <1>11, ThreadNames DEF PopAsync, Enqueue, Inside
  <2> QED
    BY <1>6, <2>1, <2>2, ThreadNames
<1>12. CASE Pushed
  <2>1. mutex' = mutex /\ task' = task
    BY <1>12 DEF Pushed
  <2>2. \A u \in Threads : Inside(u)' <=> Inside(u)
    BY <1>0, <1>12, ThreadNames DEF Pushed, Enqueue, Inside
  <2> QED
    BY <1>0, <2>1, <2>2, HoldsKept
<1>13. CASE DeviceCopies
  BY <1>0, <1>13, HoldsKept DEF DeviceCopies, Inside
<1>14. CASE ComputeArray \/ PopPrelude \/ PopWait \/ Stop
  <2>1. mutex' = mutex /\ task' = task
    BY <1>14 DEF ComputeArray, PopPrelude, PopWait, Stop
  <2>2. \A u \in Threads : Inside(u)' <=> Inside(u)
    BY <1>0, <1>14, ThreadNames DEF ComputeArray, PopPrelude, PopWait, Stop, Inside
  <2> QED
    BY <1>0, <2>1, <2>2, HoldsKept
<1>15. CASE UNCHANGED vars
  BY <1>0, <1>15, HoldsKept DEF vars, Inside
<1> QED
  BY <1>1, <1>2, <1>3, <1>4, <1>5, <1>8, <1>9, <1>10, <1>11, <1>12, <1>13, <1>14, <1>15, StepCases
-----------------------------------------------------------------------------
(* The sizes of the queues.                                                  *)

LEMMA SizesKept ==
  ASSUME Sizes, device'.begin = device.begin, device'.end = device.end,
         host'.begin = host.begin, host'.end = host.end,
         \A t \in Threads : pc'[t] = "transfer" => pc[t] = "transfer" /\ task'[t] = task[t],
         \A t \in Threads : pc'[t] = "commit" => pc[t] = "commit" /\ task'[t] = task[t]
  PROVE  Sizes'
<1>1. Device!Size(device)' = Device!Size(device) /\ Host!Size(host)' = Host!Size(host)
  BY DEF Device!Size, Host!Size
<1>2. /\ Device!Full(device)' <=> Device!Full(device)
      /\ Host!Full(host)' <=> Host!Full(host)
      /\ Device!Empty(device)' <=> Device!Empty(device)
      /\ Host!Empty(host)' <=> Host!Empty(host)
  BY DEF Device!Full, Device!Size, Device!Empty, Host!Full, Host!Size, Host!Empty
<1>3. ASSUME NEW t \in Threads, pc'[t] = "transfer"
      PROVE  ~NeedsRoom(task[t].op)' /\ ~NeedsEntry(task[t].op)'
  BY <1>2, <1>3 DEF Sizes, NeedsRoom, NeedsEntry
<1>4. ASSUME NEW t \in Threads, pc'[t] = "commit"
      PROVE  CommitSafe(task[t].op)'
  BY <1>2, <1>4 DEF Sizes, CommitSafe
<1> QED
  BY <1>1, <1>3, <1>4 DEF Sizes

\* The sizes, read from the indices after a step.
NewSizes ==
    /\ device'.begin \in Int /\ device'.end \in Int /\ host'.begin \in Int /\ host'.end \in Int
    /\ device'.end - device'.begin + 1 \in 0 .. DeviceCapacity
    /\ host'.end - host'.begin + 1 \in 0 .. HostCapacity
NewSeen(t) ==
    LET d == device'.end - device'.begin + 1
        h == host'.end - host'.begin + 1
        op == task[t].op
    IN  /\ pc'[t] = "transfer" =>
              /\ op \in {"emplaceFront", "hostToDevice"} => d # DeviceCapacity
              /\ op \in {"deviceToHost", "diskToHost"} => h # HostCapacity
              /\ op \in {"popFront", "deviceToHost"} => d # 0
              /\ op = "hostToDevice" => h # 0
        /\ pc'[t] = "commit" =>
              /\ op = "emplaceFront" => d # DeviceCapacity
              /\ op \in {"popFront", "deviceToHost"} => d # 0
              /\ op = "hostToDevice" => h # 0
              /\ op = "diskToHost" => h # HostCapacity

LEMMA SizesAfter ==
  ASSUME NewSizes, task' = task, \A t \in Threads : NewSeen(t)
  PROVE  Sizes'
<1> DEFINE d == device'.end - device'.begin + 1
           h == host'.end - host'.begin + 1
<1>1. d \in 0 .. DeviceCapacity /\ h \in 0 .. HostCapacity
  BY DEF NewSizes
<1>2. /\ Device!Size(device)' = d /\ Host!Size(host)' = h
      /\ Device!Full(device)' <=> d = DeviceCapacity
      /\ Host!Full(host)' <=> h = HostCapacity
  BY DEF Device!Full, Device!Size, Host!Full, Host!Size
<1>3. /\ Device!Empty(device)' <=> d = 0
      /\ Host!Empty(host)' <=> h = 0
  <2>1. \A b, e \in Int : e - b + 1 >= 0 => (b > e <=> e - b + 1 = 0)
    OBVIOUS
  <2>2. d >= 0 /\ h >= 0
    BY <1>1, Constants
  <2> QED
    BY <2>1, <2>2 DEF NewSizes, Device!Empty, Host!Empty
<1> HIDE DEF d, h
<1>4. ASSUME NEW t \in Threads
      PROVE  /\ pc'[t] = "transfer" => ~NeedsRoom(task[t].op)' /\ ~NeedsEntry(task[t].op)'
             /\ pc'[t] = "commit" => CommitSafe(task[t].op)'
  <2>1. NewSeen(t)
    OBVIOUS
  <2>2. /\ pc'[t] = "transfer" =>
              /\ task[t].op \in {"emplaceFront", "hostToDevice"} => d # DeviceCapacity
              /\ task[t].op \in {"deviceToHost", "diskToHost"} => h # HostCapacity
              /\ task[t].op \in {"popFront", "deviceToHost"} => d # 0
              /\ task[t].op = "hostToDevice" => h # 0
        /\ pc'[t] = "commit" =>
              /\ task[t].op = "emplaceFront" => d # DeviceCapacity
              /\ task[t].op \in {"popFront", "deviceToHost"} => d # 0
              /\ task[t].op = "hostToDevice" => h # 0
              /\ task[t].op = "diskToHost" => h # HostCapacity
    BY <2>1 DEF NewSeen, d, h
  <2> QED
    BY <1>2, <1>3, <2>2 DEF NeedsRoom, NeedsEntry, CommitSafe
<1> QED
  BY <1>1, <1>2, <1>4 DEF Sizes

\* What the thread has seen, read from the indices before the step.
LEMMA SeenBefore ==
  ASSUME Inv
  PROVE  /\ device.begin \in Int /\ device.end \in Int /\ host.begin \in Int /\ host.end \in Int
         /\ device.end - device.begin + 1 \in 0 .. DeviceCapacity
         /\ host.end - host.begin + 1 \in 0 .. HostCapacity
         /\ \A t \in Threads :
               /\ pc[t] = "transfer" =>
                     /\ task[t].op \in {"emplaceFront", "hostToDevice"} => device.end - device.begin + 1 # DeviceCapacity
                     /\ task[t].op \in {"deviceToHost", "diskToHost"} => host.end - host.begin + 1 # HostCapacity
                     /\ task[t].op \in {"popFront", "deviceToHost"} => device.end - device.begin + 1 # 0
                     /\ task[t].op = "hostToDevice" => host.end - host.begin + 1 # 0
               /\ pc[t] = "commit" =>
                     /\ task[t].op = "emplaceFront" => device.end - device.begin + 1 # DeviceCapacity
                     /\ task[t].op \in {"popFront", "deviceToHost"} => device.end - device.begin + 1 # 0
                     /\ task[t].op = "hostToDevice" => host.end - host.begin + 1 # 0
                     /\ task[t].op = "diskToHost" => host.end - host.begin + 1 # HostCapacity
<1>1. /\ device.begin \in Int /\ device.end \in Int /\ host.begin \in Int /\ host.end \in Int
  BY MemoryFacts DEF Inv
<1>2. /\ device.end - device.begin + 1 \in 0 .. DeviceCapacity
      /\ host.end - host.begin + 1 \in 0 .. HostCapacity
  BY DEF Inv, Sizes, Device!Size, Host!Size
<1>3. /\ Device!Full(device) <=> device.end - device.begin + 1 = DeviceCapacity
      /\ Device!Empty(device) <=> device.end - device.begin + 1 = 0
      /\ Host!Full(host) <=> host.end - host.begin + 1 = HostCapacity
      /\ Host!Empty(host) <=> host.end - host.begin + 1 = 0
  BY SizeFacts DEF Inv
<1>4. \A t \in Threads :
        /\ pc[t] = "transfer" => ~NeedsRoom(task[t].op) /\ ~NeedsEntry(task[t].op)
        /\ pc[t] = "commit" => CommitSafe(task[t].op)
  BY DEF Inv, Sizes
<1>5. ASSUME NEW t \in Threads
      PROVE  /\ pc[t] = "transfer" =>
                     /\ task[t].op \in {"emplaceFront", "hostToDevice"} => device.end - device.begin + 1 # DeviceCapacity
                     /\ task[t].op \in {"deviceToHost", "diskToHost"} => host.end - host.begin + 1 # HostCapacity
                     /\ task[t].op \in {"popFront", "deviceToHost"} => device.end - device.begin + 1 # 0
                     /\ task[t].op = "hostToDevice" => host.end - host.begin + 1 # 0
             /\ pc[t] = "commit" =>
                     /\ task[t].op = "emplaceFront" => device.end - device.begin + 1 # DeviceCapacity
                     /\ task[t].op \in {"popFront", "deviceToHost"} => device.end - device.begin + 1 # 0
                     /\ task[t].op = "hostToDevice" => host.end - host.begin + 1 # 0
                     /\ task[t].op = "diskToHost" => host.end - host.begin + 1 # HostCapacity
  BY <1>3, <1>4 DEF NeedsRoom, NeedsEntry, CommitSafe
<1> QED
  BY <1>1, <1>2, <1>5

\* Nobody who relies on a size of a queue sees it change while he is inside.
LEMMA SizesTransfer ==
  ASSUME Inv, NEW t \in Threads, Transfer(t)
  PROVE  Sizes'
<1> DEFINE d == device.end - device.begin + 1
           h == host.end - host.begin + 1
<1>1. /\ ControlTypes /\ Holds /\ MemoryTypes /\ Sizes /\ pc \in [Threads -> Places]
  BY DEF Inv, ControlTypes
<1>2. /\ device.begin \in Int /\ device.end \in Int /\ host.begin \in Int /\ host.end \in Int
      /\ d \in 0 .. DeviceCapacity /\ h \in 0 .. HostCapacity
      /\ DeviceCapacity \in Nat /\ HostCapacity \in Nat
  BY SeenBefore, Constants
<1>3. /\ pc[t] = "transfer" /\ Busy(t) /\ pc'[t] = "commit"
      /\ \A u \in Threads : u # t => pc'[u] = pc[u]
      /\ task' = task
  BY ZenonT(40), <1>1, TransferEffect
<1>4. \A u \in Threads : /\ pc[u] \in {"transfer", "commit"} => Inside(u) /\ Busy(u)
  BY DEF Inside, Busy, Unfinished, Begun
<1>5. /\ ~(pc[Owner] \in {"transfer", "commit"} /\ task[Owner].op = "emplaceFront" /\ Inside(0) /\ task[0].op = "hostToDevice")
      /\ ~(pc[1] \in {"transfer", "commit"} /\ task[1].op = "diskToHost" /\ Inside(0) /\ task[0].op = "deviceToHost")
  BY <1>1, <1>4, Excluded, ThreadNames
<1>6. Inside(t)
  BY <1>3, <1>4
<1>7. /\ Device!Full(device) <=> d = DeviceCapacity
      /\ Device!Empty(device) <=> d = 0
      /\ Host!Full(host) <=> h = HostCapacity
      /\ Host!Empty(host) <=> h = 0
  BY <1>1, SizeFacts
<1>8. \A u \in Threads :
         /\ pc[u] = "transfer" =>
               /\ task[u].op \in {"emplaceFront", "hostToDevice"} => d # DeviceCapacity
               /\ task[u].op \in {"deviceToHost", "diskToHost"} => h # HostCapacity
               /\ task[u].op \in {"popFront", "deviceToHost"} => d # 0
               /\ task[u].op = "hostToDevice" => h # 0
         /\ pc[u] = "commit" =>
               /\ task[u].op = "emplaceFront" => d # DeviceCapacity
               /\ task[u].op \in {"popFront", "deviceToHost"} => d # 0
               /\ task[u].op = "hostToDevice" => h # 0
               /\ task[u].op = "diskToHost" => h # HostCapacity
  BY SeenBefore
<1>9. \A u \in Threads : pc[u] \in {"transfer", "commit"} =>
         /\ task[u].op \in {"emplaceFront", "popFront"} <=> u = Owner
         /\ task[u].op \in {"deviceToHost", "hostToDevice"} <=> u = 0
         /\ task[u].op \in {"hostToDisk", "diskToHost"} <=> u = 1
  BY <1>1, <1>4, Performers
<1>10. ASSUME device'.begin = device.begin, device'.end = device.end,
              host'.begin = host.begin, host'.end = host.end
       PROVE  Sizes'
  <2>1. NewSizes
    BY <1>2, <1>10 DEF NewSizes
  <2>2. ASSUME NEW u \in Threads PROVE NewSeen(u)
    <3> HIDE DEF d, h
    <3>1. device'.end - device'.begin + 1 = d /\ host'.end - host'.begin + 1 = h
      BY <1>10 DEF d, h
    <3>2. CASE u = t
      BY <1>3, <1>8, <3>1, <3>2 DEF NewSeen
    <3>3. CASE u # t
      BY <1>3, <1>8, <3>1, <3>3 DEF NewSeen
    <3> QED
      BY <3>2, <3>3
  <2> QED
    BY <1>3, <2>1, <2>2, SizesAfter
<1>11. CASE t = 0 /\ task[t].op = "deviceToHost" /\ ~Host!Full(host) /\ ~Device!Empty(device)
            /\ host' = Host!IncFront(host) /\ device' = device
  <2>1. /\ device'.begin = device.begin /\ device'.end = device.end
        /\ host'.begin = host.begin - 1 /\ host'.end = host.end
    BY <1>1, <1>11, HostParts
  <2>2. device'.end - device'.begin + 1 = d /\ host'.end - host'.begin + 1 = h + 1
    BY <1>2, <2>1
  <2>3. h # HostCapacity /\ d # 0
    BY <1>7, <1>11
  <2>4. NewSizes
    BY <1>2, <2>1, <2>2, <2>3 DEF NewSizes
  <2>5. ASSUME NEW u \in Threads PROVE NewSeen(u)
    <3> HIDE DEF d, h
    <3>1. h + 1 # 0
      BY <1>2
    <3>2. CASE u = 0
      BY <1>3, <1>11, <2>2, <2>3, <3>2 DEF NewSeen
    <3>3. CASE u = 1
      <4>1. pc'[1] = pc[1]
        BY <1>3, <1>11, ThreadNames
      <4>2. pc[1] \in {"transfer", "commit"} => task[1].op = "hostToDisk"
        BY <1>5, <1>6, <1>9, <1>11, ThreadNames
      <4> QED
        BY <3>3, <4>1, <4>2 DEF NewSeen
    <3>4. CASE u = Owner
      <4>1. pc'[Owner] = pc[Owner]
        BY <1>3, <1>11, ThreadNames
      <4>2. pc[Owner] \in {"transfer", "commit"} => task[Owner].op \in {"emplaceFront", "popFront"}
        BY <1>9, ThreadNames
      <4> QED
        BY <1>8, <2>2, <3>4, <4>1, <4>2, ThreadNames DEF NewSeen
    <3> QED
      BY <3>2, <3>3, <3>4, ThreadNames
  <2> QED
    BY <1>3, <2>4, <2>5, SizesAfter
<1>12. CASE t = 0 /\ task[t].op = "hostToDevice" /\ ~Device!Full(device) /\ ~Host!Empty(host)
            /\ device' = Device!IncBack(device) /\ host' = host
  <2>1. /\ device'.begin = device.begin /\ device'.end = device.end + 1
        /\ host'.begin = host.begin /\ host'.end = host.end
    BY <1>1, <1>12, DeviceParts
  <2>2. device'.end - device'.begin + 1 = d + 1 /\ host'.end - host'.begin + 1 = h
    BY <1>2, <2>1
  <2>3. d # DeviceCapacity /\ h # 0
    BY <1>7, <1>12
  <2>4. NewSizes
    BY <1>2, <2>1, <2>2, <2>3 DEF NewSizes
  <2>5. ASSUME NEW u \in Threads PROVE NewSeen(u)
    <3> HIDE DEF d, h
    <3>1. d + 1 # 0
      BY <1>2
    <3>2. CASE u = 0
      BY <1>3, <1>12, <2>2, <2>3, <3>2 DEF NewSeen
    <3>3. CASE u = 1
      <4>1. pc'[1] = pc[1]
        BY <1>3, <1>12, ThreadNames
      <4>2. pc[1] \in {"transfer", "commit"} => task[1].op \in {"hostToDisk", "diskToHost"}
        BY <1>9, ThreadNames
      <4> QED
        BY <1>8, <2>2, <3>3, <4>1, <4>2, ThreadNames DEF NewSeen
    <3>4. CASE u = Owner
      <4>1. pc'[Owner] = pc[Owner]
        BY <1>3, <1>12, ThreadNames
      <4>2. pc[Owner] \in {"transfer", "commit"} => task[Owner].op = "popFront"
        BY <1>5, <1>6, <1>9, <1>12, ThreadNames
      <4> QED
        BY <2>2, <3>1, <3>4, <4>1, <4>2 DEF NewSeen
    <3> QED
      BY <3>2, <3>3, <3>4, ThreadNames
  <2> QED
    BY <1>3, <2>4, <2>5, SizesAfter
<1>13. CASE t = 1 /\ task[t].op = "diskToHost" /\ device' = device
            /\ host' = Host!Write(host, Host!NextBackSlot(host), disk[task[t].id])
            /\ disk[task[t].id] = task[t].id + 1
  <2>1. HostCapacity > 0
    BY <1>3, <1>13, HostNeeded
  <2>2. Host!NextBackSlot(host) \in Host!Slots
    <3>1. host.end + 1 \in Int
      BY <1>2
    <3> QED
      BY <2>1, <3>1, HostSlots DEF Host!NextBackSlot
  <2>3. disk[task[t].id] \in Int
    <3>1. task[t].id \in BufferIds
      BY <1>1, TaskTypes
    <3> QED
      BY <1>1, <3>1 DEF MemoryTypes
  <2>4. host'.begin = host.begin /\ host'.end = host.end
    BY <1>1, <1>13, <2>2, <2>3, HostParts
  <2> QED
    BY <1>10, <1>13, <2>4
<1> QED
  BY <1>1, <1>10, <1>11, <1>12, <1>13, TransferEffect

LEMMA SizesCommit ==
  ASSUME Inv, NEW t \in Threads, Commit(t)
  PROVE  Sizes'
<1> DEFINE d == device.end - device.begin + 1
           h == host.end - host.begin + 1
           e == device'.end - device'.begin + 1
           g == host'.end - host'.begin + 1
<1>1. /\ ControlTypes /\ Holds /\ MemoryTypes /\ Sizes /\ pc \in [Threads -> Places]
  BY DEF Inv, ControlTypes
<1>2. /\ device.begin \in Int /\ device.end \in Int /\ host.begin \in Int /\ host.end \in Int
      /\ d \in 0 .. DeviceCapacity /\ h \in 0 .. HostCapacity
      /\ DeviceCapacity \in Nat /\ HostCapacity \in Nat
  BY SeenBefore, Constants
<1>3. /\ pc[t] = "commit" /\ Busy(t) /\ pc'[t] = "notify"
      /\ \A u \in Threads : u # t => pc'[u] = pc[u]
      /\ task' = task
  BY <1>1, CommitEffect
<1>4. \A u \in Threads : /\ pc[u] \in {"transfer", "commit"} => Inside(u) /\ Busy(u)
  BY DEF Inside, Busy, Unfinished, Begun
<1>5. /\ ~(pc[Owner] \in {"transfer", "commit"} /\ task[Owner].op = "popFront" /\ Inside(0) /\ task[0].op = "deviceToHost")
      /\ ~(pc[0] \in {"transfer", "commit"} /\ task[0].op = "deviceToHost" /\ Inside(Owner) /\ task[Owner].op = "popFront")
      /\ ~(pc[0] \in {"transfer", "commit"} /\ task[0].op = "hostToDevice" /\ Inside(Owner) /\ task[Owner].op = "emplaceFront")
      /\ ~(pc[0] \in {"transfer", "commit"} /\ task[0].op = "hostToDevice" /\ Inside(1) /\ task[1].op = "hostToDisk")
      /\ ~(pc[0] \in {"transfer", "commit"} /\ task[0].op = "deviceToHost" /\ Inside(1) /\ task[1].op = "diskToHost")
  BY <1>1, <1>4, Excluded, ThreadNames
<1>6. Inside(t)
  BY <1>3, <1>4
<1>7. /\ Device!Full(device) <=> d = DeviceCapacity
      /\ Device!Empty(device) <=> d = 0
      /\ Host!Full(host) <=> h = HostCapacity
      /\ Host!Empty(host) <=> h = 0
  BY <1>1, SizeFacts
<1>8. \A u \in Threads :
         /\ pc[u] = "transfer" =>
               /\ task[u].op \in {"emplaceFront", "hostToDevice"} => d # DeviceCapacity
               /\ task[u].op \in {"deviceToHost", "diskToHost"} => h # HostCapacity
               /\ task[u].op \in {"popFront", "deviceToHost"} => d # 0
               /\ task[u].op = "hostToDevice" => h # 0
         /\ pc[u] = "commit" =>
               /\ task[u].op = "emplaceFront" => d # DeviceCapacity
               /\ task[u].op \in {"popFront", "deviceToHost"} => d # 0
               /\ task[u].op = "hostToDevice" => h # 0
               /\ task[u].op = "diskToHost" => h # HostCapacity
  BY SeenBefore
<1>9. \A u \in Threads : pc[u] \in {"transfer", "commit"} =>
         /\ task[u].op \in {"emplaceFront", "popFront"} <=> u = Owner
         /\ task[u].op \in {"deviceToHost", "hostToDevice"} <=> u = 0
         /\ task[u].op \in {"hostToDisk", "diskToHost"} <=> u = 1
  BY <1>1, <1>4, Performers
<1>10. /\ NewSeen(t)
       /\ \A u \in Threads : u # t => (pc'[u] \in {"transfer", "commit"} <=> pc[u] \in {"transfer", "commit"})
       /\ \A u \in Threads : ~(pc'[u] \in {"transfer", "commit"}) => NewSeen(u)
  BY <1>3 DEF NewSeen
<1>20. CASE t = Owner /\ task[t].op = "emplaceFront" /\ ~Device!Full(device)
            /\ device' = Device!IncFront(device) /\ host' = host
  <2>1. /\ device'.begin = device.begin - 1 /\ device'.end = device.end
        /\ host'.begin = host.begin /\ host'.end = host.end
    BY <1>1, <1>20, DeviceParts
  <2>2. e = d + 1 /\ g = h /\ d + 1 # 0
    BY <1>2, <2>1
  <2>3. NewSizes
    <3>1. d # DeviceCapacity
      BY <1>7, <1>20
    <3> QED
      BY <1>2, <2>1, <2>2, <3>1 DEF NewSizes
  <2>4. ASSUME NEW u \in Threads, u # t, pc[u] \in {"transfer", "commit"} PROVE NewSeen(u)
    <3> HIDE DEF d, h
    <3>1. u = 0 => task[0].op = "deviceToHost"
      BY <1>5, <1>6, <1>9, <1>20, <2>4
    <3>2. u = 0 \/ task[u].op \in {"hostToDisk", "diskToHost"}
      BY <1>9, <1>20, <2>4, ThreadNames
    <3> QED
      BY <1>3, <1>8, <2>2, <2>4, <3>1, <3>2 DEF NewSeen, e, g
  <2> QED
    BY <1>3, <1>10, <2>3, <2>4, SizesAfter
<1>21. CASE t = Owner /\ task[t].op = "popFront" /\ ~Device!Empty(device)
            /\ device' = Device!PopFront(device) /\ host' = host
  <2>1. /\ device'.begin = device.begin + 1 /\ device'.end = device.end
        /\ host'.begin = host.begin /\ host'.end = host.end
    BY <1>1, <1>21, DeviceParts
  <2>2. e = d - 1 /\ g = h /\ d - 1 # DeviceCapacity
    BY <1>2, <2>1
  <2>3. NewSizes
    <3>1. d # 0
      BY <1>7, <1>21
    <3> QED
      BY <1>2, <2>1, <2>2, <3>1 DEF NewSizes
  <2>4. ASSUME NEW u \in Threads, u # t, pc[u] \in {"transfer", "commit"} PROVE NewSeen(u)
    <3> HIDE DEF d, h
    <3>1. u = 0 => task[0].op = "hostToDevice"
      BY <1>5, <1>6, <1>9, <1>21, <2>4
    <3>2. u = 0 \/ task[u].op \in {"hostToDisk", "diskToHost"}
      BY <1>9, <1>21, <2>4, ThreadNames
    <3> QED
      BY <1>3, <1>8, <2>2, <2>4, <3>1, <3>2 DEF NewSeen, e, g
  <2> QED
    BY <1>3, <1>10, <2>3, <2>4, SizesAfter
<1>22. CASE t = 0 /\ task[t].op = "deviceToHost" /\ ~Device!Empty(device)
            /\ device' = Device!PopBack(device)
            /\ host' = Host!Write(host, Host!FrontSlot(host), Device!BackEntry(device))
  <2>0. /\ host'.begin = host.begin /\ host'.end = host.end
    <3>1. HostCapacity > 0
      BY <1>3, <1>22, HostNeeded
    <3>2. Host!FrontSlot(host) \in Host!Slots
      BY <1>2, <3>1, HostSlots DEF Host!FrontSlot
    <3>3. Device!BackEntry(device) \in Int
      BY <1>1, <1>2, MemoryFacts, DeviceSlots DEF Device!BackEntry, Device!BackSlot
    <3> QED
      BY <1>1, <1>22, <3>2, <3>3, HostParts
  <2>1. /\ device'.begin = device.begin /\ device'.end = device.end - 1
    BY <1>1, <1>22, DeviceParts
  <2>2. e = d - 1 /\ g = h /\ d - 1 # DeviceCapacity
    BY <1>2, <2>0, <2>1
  <2>3. NewSizes
    <3>1. d # 0
      BY <1>7, <1>22
    <3> QED
      BY <1>2, <2>0, <2>1, <2>2, <3>1 DEF NewSizes
  <2>4. ASSUME NEW u \in Threads, u # t, pc[u] \in {"transfer", "commit"} PROVE NewSeen(u)
    <3> HIDE DEF d, h
    <3>1. u = Owner => task[u].op = "emplaceFront"
      BY <1>5, <1>6, <1>9, <1>22, <2>4
    <3>2. u = Owner \/ task[u].op \in {"hostToDisk", "diskToHost"}
      BY <1>9, <1>22, <2>4, ThreadNames
    <3> QED
      BY <1>3, <1>8, <2>2, <2>4, <3>1, <3>2 DEF NewSeen, e, g
  <2> QED
    BY <1>3, <1>10, <2>3, <2>4, SizesAfter
<1>23. CASE t = 0 /\ task[t].op = "hostToDevice" /\ ~Host!Empty(host)
            /\ device' = device /\ host' = Host!PopFront(host)
  <2>1. /\ device'.begin = device.begin /\ device'.end = device.end
        /\ host'.begin = host.begin + 1 /\ host'.end = host.end
    BY <1>1, <1>23, HostParts
  <2>2. e = d /\ g = h - 1 /\ h - 1 # HostCapacity
    BY <1>2, <2>1
  <2>3. NewSizes
    <3>1. h # 0
      BY <1>7, <1>23
    <3> QED
      BY <1>2, <2>1, <2>2, <3>1 DEF NewSizes
  <2>4. ASSUME NEW u \in Threads, u # t, pc[u] \in {"transfer", "commit"} PROVE NewSeen(u)
    <3> HIDE DEF d, h
    <3>1. task[u].op \in {"emplaceFront", "popFront", "hostToDisk", "diskToHost"}
      BY <1>9, <1>23, <2>4, ThreadNames
    <3> QED
      BY <1>3, <1>8, <2>2, <2>4, <3>1 DEF NewSeen, e, g
  <2> QED
    BY <1>3, <1>10, <2>3, <2>4, SizesAfter
<1>24. CASE t = 1 /\ task[t].op = "hostToDisk" /\ ~Host!Empty(host)
            /\ device' = device /\ host' = Host!PopBack(host)
  <2>1. /\ device'.begin = device.begin /\ device'.end = device.end
        /\ host'.begin = host.begin /\ host'.end = host.end - 1
    BY <1>1, <1>24, HostParts
  <2>2. e = d /\ g = h - 1 /\ h - 1 # HostCapacity
    BY <1>2, <2>1
  <2>3. NewSizes
    <3>1. h # 0
      BY <1>7, <1>24
    <3> QED
      BY <1>2, <2>1, <2>2, <3>1 DEF NewSizes
  <2>4. ASSUME NEW u \in Threads, u # t, pc[u] \in {"transfer", "commit"} PROVE NewSeen(u)
    <3> HIDE DEF d, h
    <3>1. u = 0 => task[0].op = "deviceToHost"
      BY <1>5, <1>6, <1>9, <1>24, <2>4
    <3>2. u = 0 \/ task[u].op \in {"emplaceFront", "popFront"}
      BY <1>9, <1>24, <2>4, ThreadNames
    <3> QED
      BY <1>3, <1>8, <2>2, <2>4, <3>1, <3>2 DEF NewSeen, e, g
  <2> QED
    BY <1>3, <1>10, <2>3, <2>4, SizesAfter
<1>25. CASE t = 1 /\ task[t].op = "diskToHost" /\ ~Host!Full(host)
            /\ device' = device /\ host' = Host!IncBack(host)
  <2>1. /\ device'.begin = device.begin /\ device'.end = device.end
        /\ host'.begin = host.begin /\ host'.end = host.end + 1
    BY <1>1, <1>25, HostParts
  <2>2. e = d /\ g = h + 1 /\ h + 1 # 0
    BY <1>2, <2>1
  <2>3. NewSizes
    <3>1. h # HostCapacity
      BY <1>7, <1>25
    <3> QED
      BY <1>2, <2>1, <2>2, <3>1 DEF NewSizes
  <2>4. ASSUME NEW u \in Threads, u # t, pc[u] \in {"transfer", "commit"} PROVE NewSeen(u)
    <3> HIDE DEF d, h
    <3>1. u = 0 => task[0].op = "hostToDevice"
      BY <1>5, <1>6, <1>9, <1>25, <2>4
    <3>2. u = 0 \/ task[u].op \in {"emplaceFront", "popFront"}
      BY <1>9, <1>25, <2>4, ThreadNames
    <3> QED
      BY <1>3, <1>8, <2>2, <2>4, <3>1, <3>2 DEF NewSeen, e, g
  <2> QED
    BY <1>3, <1>10, <2>3, <2>4, SizesAfter
<1> QED
  BY <1>20, <1>21, <1>22, <1>23, <1>24, <1>25, CommitEffect

LEMMA SizesStep ==
  ASSUME Inv, [Next]_vars
  PROVE  Sizes'
<1>0. /\ ControlTypes /\ MemoryTypes /\ Sizes /\ pc \in [Threads -> Places] /\ Owner \in Threads
  BY ThreadNames DEF Inv, ControlTypes
<1>1. ASSUME NEW t \in Threads, Transfer(t) PROVE Sizes'
  BY <1>1, SizesTransfer
<1>2. ASSUME NEW t \in Threads, Commit(t) PROVE Sizes'
  BY <1>2, SizesCommit
<1>3. ASSUME NEW t \in Threads, Test(t) PROVE Sizes'
  <2>1. UNCHANGED <<device, host, task>>
    BY <1>3 DEF Test, deques
  <2>2. pc' = [pc EXCEPT ![t] = pc'[t]]
    BY <1>0, <1>3 DEF Test
  <2>3. pc'[t] # "commit"
    BY <1>0, <1>3 DEF Test
  <2>4. pc'[t] = "transfer" => ~NeedsRoom(task[t].op) /\ ~NeedsEntry(task[t].op)
    BY <1>0, <1>3 DEF Test
  <2>5. ASSUME NEW u \in Threads
        PROVE  /\ pc'[u] = "transfer" => ~NeedsRoom(task[u].op) /\ ~NeedsEntry(task[u].op)
               /\ pc'[u] = "commit" => CommitSafe(task[u].op)
    BY <1>0, <2>2, <2>3, <2>4 DEF Sizes
  <2>6. ASSUME NEW u \in Threads
        PROVE  /\ NeedsRoom(task[u].op)' <=> NeedsRoom(task[u].op)
               /\ NeedsEntry(task[u].op)' <=> NeedsEntry(task[u].op)
               /\ CommitSafe(task[u].op)' <=> CommitSafe(task[u].op)
    BY <2>1 DEF NeedsRoom, NeedsEntry, CommitSafe
  <2> QED
    BY <1>0, <2>1, <2>5, <2>6 DEF Sizes
<1>4. ASSUME UNCHANGED <<device, host>>,
             \A u \in Threads : pc'[u] \in {"transfer", "commit"} => pc'[u] = pc[u] /\ task'[u] = task[u]
      PROVE  Sizes'
  BY <1>0, <1>4, SizesKept
<1>5. ASSUME NEW t \in Threads, Quiet(t), ~Test(t) PROVE Sizes'
  <2>1. UNCHANGED <<device, host, task>>
    BY <1>0, <1>5, QuietPlaces DEF deques
  <2>2. \A u \in Threads : pc'[u] \in {"transfer", "commit"} => pc'[u] = pc[u]
    BY <1>0, <1>5, QuietPlaces DEF Quiet, Acquire, Block, Unblock, Notify, Wait, SpuriousWake
  <2> QED
    BY <1>4, <2>1, <2>2
<1>6. ASSUME NEW w \in Workers, TakeTask(w) PROVE Sizes'
  <2>1. UNCHANGED <<device, host>> /\ w \in Threads
    BY <1>6, ThreadNames DEF TakeTask, deques
  <2>2. Begin(w, Head(queue[w]).op, Head(queue[w]).id)
    BY <1>6 DEF TakeTask
  <2>3. \A u \in Threads : u # w => task'[u] = task[u]
    BY <1>0, <2>1, <2>2, BeginType
  <2>4. \A u \in Threads : pc'[u] \in {"transfer", "commit"} => pc'[u] = pc[u] /\ u # w
    BY <1>0, <1>6, <2>1 DEF TakeTask
  <2> QED
    BY <1>4, <2>1, <2>3, <2>4
<1>7. ASSUME NEW w \in Workers, Finish(w) PROVE Sizes'
  <2>1. UNCHANGED <<device, host, task>>
    BY <1>7 DEF Finish, deques
  <2>2. \A u \in Threads : pc'[u] \in {"transfer", "commit"} => pc'[u] = pc[u]
    BY <1>0, <1>7, ThreadNames DEF Finish, Enqueue
  <2> QED
    BY <1>4, <2>1, <2>2
<1>8. CASE PushAsync \/ PopAsync
  <2>1. UNCHANGED <<device, host>>
    BY <1>8 DEF PushAsync, PopAsync, deques
  <2>2. \E op, id : Begin(Owner, op, id)
    BY <1>8 DEF PushAsync, PopAsync
  <2>3. \A u \in Threads : u # Owner => task'[u] = task[u]
    BY <1>0, <2>2, BeginType
  <2>4. pc'[Owner] = "acquire"
    BY <1>0, <1>8, ThreadNames DEF PushAsync, PopAsync, Enqueue
  <2>5. \A u \in Threads : pc'[u] \in {"transfer", "commit"} => pc'[u] = pc[u]
    BY <1>0, <1>8, ThreadNames DEF PushAsync, PopAsync, Enqueue
  <2> QED
    BY <1>4, <2>1, <2>3, <2>4, <2>5
<1>9. CASE Pushed \/ ComputeArray \/ PopPrelude \/ PopWait \/ Stop
  <2>1. UNCHANGED <<device, host, task>>
    BY <1>9 DEF Pushed, ComputeArray, PopPrelude, PopWait, Stop, deques
  <2>2. \A u \in Threads : pc'[u] \in {"transfer", "commit"} => pc'[u] = pc[u]
    BY <1>0, <1>9, ThreadNames DEF Pushed, Enqueue, ComputeArray, PopPrelude, PopWait, Stop
  <2> QED
    BY <1>4, <2>1, <2>2
<1>10. CASE DeviceCopies
  <2>1. UNCHANGED <<host, pc, task>> /\ device'.begin = device.begin /\ device'.end = device.end
    BY <1>0, <1>10 DEF DeviceCopies, Device!Write, MemoryTypes, DeviceType
  <2> QED
    BY <1>0, <2>1, SizesKept
<1>11. CASE UNCHANGED vars
  BY <1>4, <1>11 DEF vars, deques
<1> QED
  BY <1>1, <1>2, <1>3, <1>5, <1>6, <1>7, <1>8, <1>9, <1>10, <1>11, StepCases
-----------------------------------------------------------------------------
(* How far the buffers have gone: the two effects of an operation.           *)

LEMMA RestKept ==
  ASSUME ControlTypes, MemoryTypes, ControlInv, UNCHANGED <<queue, task, array, counters>>,
         failed => failed',
         Level(0)' \in Nat, Level(0) <= Level(0)' \/ task[0].op = "hostToDevice",
         Unfinished(1)' => Unfinished(1),
         Busy(0)' <=> Busy(0), Busy(1)' <=> Busy(1), Busy(Owner)' <=> Busy(Owner),
         \A p \in OwnerPlaces : pc'[Owner] = p <=> pc[Owner] = p
  PROVE  Orders' /\ Phase' /\ Writes' /\ HostUsed'
<1>1. Orders'
  BY DEF ControlInv, Orders, Follow, Before, After, counters
<1>2. Phase'
  <2>1. Accepted' = Accepted
    BY DEF Accepted, counters
  <2> QED
    BY <2>1 DEF ControlInv, Phase, Pushing, Popping, After, counters, OwnerPlaces, Moved
<1>3. Writes'
  <2>1. CASE task[0].op = "hostToDevice"
    BY <2>1 DEF ControlInv, Writes, Reading, counters
  <2>2. CASE task[0].op # "hostToDevice"
    <3>1. \A n \in Nat : n < Level(0) => n < Level(0)'
      <4>1. \A n, b, c \in Nat : b <= c /\ n < b => n < c
        OBVIOUS
      <4>2. Level(0) \in Nat
        BY TaskTypes, ThreadNames
      <4> QED
        BY <2>2, <4>1, <4>2
    <3>2. /\ task[1].id \in Nat
          /\ \A i \in 1 .. Len(queue[1]) : queue[1][i].id \in Nat
      <4>1. BufferIds \subseteq Nat
        BY Constants DEF BufferIds
      <4>2. task[1].id \in BufferIds
        BY TaskTypes, ThreadNames
      <4>3. ASSUME NEW i \in 1 .. Len(queue[1]) PROVE queue[1][i].id \in BufferIds
        <5>1. queue[1] \in Seq(TaskOf(DiskOps))
          BY DEF ControlTypes
        <5>2. queue[1][i] \in TaskOf(DiskOps)
          BY <4>3, <5>1
        <5> QED
          BY <5>2 DEF TaskOf
      <4> QED
        BY <4>1, <4>2, <4>3
    <3>3. Writing /\ toDisk <= Written
      BY <2>2 DEF ControlInv, Writes
    <3>4. Writing'
      BY <3>1, <3>2, <3>3 DEF Writing, After, counters, Written
    <3> QED
      BY <2>2, <3>3, <3>4 DEF Writes, counters, Written
  <2> QED
    BY <2>1, <2>2
<1>4. HostUsed'
  BY DEF ControlInv, HostUsed, counters
<1> QED
  BY <1>1, <1>2, <1>3, <1>4

\* Indices, for the numbers they are made of.
LEMMA IndexFacts ==
  ASSUME ControlTypes, MemoryTypes, Indices
  PROVE  /\ device.begin = -Level(Owner)
         /\ pc[0] = "commit" => device.end = -1 - task[0].id /\ host.begin = -(task[0].id + 1)
         /\ pc[0] # "commit" => device.end = -1 - Level(0) /\ host.begin = -Level(0)
         /\ host.end = -1 - Level(1)
         /\ Level(0) \in Nat /\ Level(1) \in Nat /\ Level(Owner) \in Nat
         /\ \A t \in Threads : task[t].id \in Nat
<1>1. /\ Level(0) \in Nat /\ Level(1) \in Nat /\ Level(Owner) \in Nat
      /\ \A t \in Threads : task[t].id \in Nat
  BY TaskTypes, ThreadNames DEF BufferIds
<1> QED
  BY <1>1 DEF Indices, Moving

LEMMA NewIndices ==
  ASSUME device'.begin = -Level(Owner)',
         device'.end = -1 - (IF pc'[0] = "commit" THEN task'[0].id ELSE Level(0)'),
         host'.begin = -(IF pc'[0] = "commit" THEN task'[0].id + 1 ELSE Level(0)'),
         host'.end = -1 - Level(1)'
  PROVE  Indices'
BY DEF Indices, Moving

LEMMA OperationControl ==
  ASSUME Inv, ~failed, NEW t \in Threads, Transfer(t) \/ Commit(t)
  PROVE  ControlInv'
<1>1. /\ ControlTypes /\ MemoryTypes /\ ControlInv /\ Indices /\ pc \in [Threads -> Places]
  BY DEF Inv, ControlTypes, ControlInv
<1>2. /\ device.begin \in Int /\ device.end \in Int /\ host.begin \in Int /\ host.end \in Int
      /\ Level(0) \in Nat /\ Level(1) \in Nat /\ Level(Owner) \in Nat
      /\ task[0].id \in Nat /\ task[1].id \in Nat /\ task[Owner].id \in Nat
      /\ device.begin = -Level(Owner)
      /\ pc[0] = "commit" => device.end = -1 - task[0].id /\ host.begin = -(task[0].id + 1)
      /\ pc[0] # "commit" => device.end = -1 - Level(0) /\ host.begin = -Level(0)
      /\ host.end = -1 - Level(1)
  BY <1>1, IndexFacts, MemoryFacts, ThreadNames
<1>3. /\ Unfinished(t) /\ Busy(t)
      /\ UNCHANGED <<queue, task, array, counters>> /\ ~failed'
      /\ pc' = [pc EXCEPT ![t] = pc'[t]] /\ pc'[t] \in {"commit", "notify"}
  BY ZenonT(40), <1>1, TransferEffect, CommitEffect
<1>4. /\ \A u \in Threads : u # t => (Unfinished(u)' <=> Unfinished(u)) /\ Level(u)' = Level(u) /\ pc'[u] = pc[u]
      /\ \A u \in Threads : Busy(u)' <=> Busy(u)
      /\ Unfinished(t)' <=> pc'[t] = "commit"
      /\ pc'[t] = "commit" => Level(t)' = Level(t)
      /\ pc'[t] # "commit" => Level(t)' = After(task[t])
      /\ Level(t) = Before(task[t])
  <2>1. \A u \in Threads : u # t => pc'[u] = pc[u]
    BY <1>1, <1>3
  <2>2. \A u \in Threads : u # t => (Unfinished(u)' <=> Unfinished(u)) /\ Level(u)' = Level(u)
    BY <1>3, <2>1, LevelStays DEF Unfinished
  <2>3. Unfinished(t)' <=> pc'[t] = "commit"
    BY <1>3 DEF Unfinished, Begun
  <2>4. \A u \in Threads : Busy(u)' <=> Busy(u)
    BY <1>3, <2>1, <2>3 DEF Busy, Unfinished, Ending
  <2>5. After(task[t])' = After(task[t]) /\ Before(task[t])' = Before(task[t])
    BY <1>3 DEF After, Before
  <2> QED
    BY <1>3, <2>1, <2>2, <2>3, <2>4, <2>5 DEF Level
<1>5. \A p \in OwnerPlaces : pc'[Owner] = p <=> pc[Owner] = p
  BY <1>3, <1>4, ThreadNames DEF Unfinished, Begun, OwnerPlaces
<1>6. /\ task[t].op \in {"emplaceFront", "popFront"} <=> t = Owner
      /\ task[t].op \in {"deviceToHost", "hostToDevice"} <=> t = 0
      /\ task[t].op \in {"hostToDisk", "diskToHost"} <=> t = 1
  BY <1>1, <1>3, Performers
<1>8. /\ task[t].op \in {"emplaceFront", "deviceToHost", "hostToDisk"} =>
            Before(task[t]) = task[t].id /\ After(task[t]) = task[t].id + 1
      /\ task[t].op \in {"popFront", "hostToDevice", "diskToHost"} =>
            Before(task[t]) = task[t].id + 1 /\ After(task[t]) = task[t].id
  BY <1>1, LevelFacts
<1>9. Indices'
  <2>1. CASE Transfer(t)
    <3>1. pc[t] = "transfer" /\ pc'[t] = "commit"
      BY <1>1, <2>1, TransferEffect
    <3>2. CASE t = Owner
      <4>1. device' = device /\ host' = host
        BY <2>1, <3>2, TransferEffect, ThreadNames
      <4> QED
        BY <1>2, <1>3, <1>4, <3>1, <3>2, <4>1, NewIndices, ThreadNames
    <3>3. CASE t = 0 /\ task[t].op = "deviceToHost"
      <4>1. device' = device /\ host' = Host!IncFront(host)
        BY <2>1, <3>3, TransferEffect, ThreadNames
      <4>2. host'.begin = host.begin - 1 /\ host'.end = host.end
        BY <1>1, <4>1, HostParts
      <4>3. host.begin = -task[0].id /\ device.end = -1 - task[0].id
        BY <1>2, <1>4, <1>8, <3>1, <3>3
      <4>4. host'.begin = -(task[0].id + 1)
        BY <1>2, <4>2, <4>3
      <4>5. host'.begin \in Int /\ host'.begin <= host.begin
        BY <1>2, <4>2
      <4> QED
        BY <1>2, <1>3, <1>4, <3>1, <3>3, <4>1, <4>2, <4>3, <4>4, <4>5, NewIndices, ThreadNames
    <3>4. CASE t = 0 /\ task[t].op = "hostToDevice"
      <4>1. device' = Device!IncBack(device) /\ host' = host
        BY <2>1, <3>4, TransferEffect, ThreadNames
      <4>2. device'.begin = device.begin /\ device'.end = device.end + 1
        BY <1>1, <4>1, DeviceParts
      <4>3. host.begin = -(task[0].id + 1) /\ device.end = -1 - (task[0].id + 1)
        BY <1>2, <1>4, <1>8, <3>1, <3>4
      <4>4. device'.end = -1 - task[0].id
        BY <1>2, <4>2, <4>3
      <4> QED
        BY <1>2, <1>3, <1>4, <3>1, <3>4, <4>1, <4>2, <4>3, <4>4, NewIndices, ThreadNames
    <3>5. CASE t = 1
      <4>1. device' = device /\ host'.begin = host.begin /\ host'.end = host.end
        <5>1. CASE task[t].op = "hostToDisk"
          BY <2>1, <3>5, <5>1, TransferEffect, ThreadNames
        <5>2. CASE task[t].op = "diskToHost"
          <6>1. /\ device' = device /\ disk[task[t].id] = task[t].id + 1
                /\ host' = Host!Write(host, Host!NextBackSlot(host), disk[task[t].id])
            BY <2>1, <3>5, <5>2, TransferEffect, ThreadNames
          <6>2. HostCapacity > 0
            BY <1>3, <3>5, HostNeeded
          <6>3. Host!NextBackSlot(host) \in Host!Slots
            <7>1. host.end + 1 \in Int
              BY <1>2
            <7> QED
              BY <6>2, <7>1, HostSlots DEF Host!NextBackSlot
          <6>4. disk[task[t].id] \in Int
            BY <1>2, <3>5, <6>1
          <6> QED
            BY <1>1, <6>1, <6>3, <6>4, HostParts
        <5> QED
          BY <1>6, <3>5, <5>1, <5>2
      <4> QED
        BY <1>2, <1>3, <1>4, <3>1, <3>5, <4>1, NewIndices, ThreadNames
    <3> QED
      BY <2>1, <3>2, <3>3, <3>4, <3>5, TransferEffect
  <2>2. CASE Commit(t)
    <3>1. pc[t] = "commit" /\ pc'[t] = "notify"
      BY <1>1, <2>2, CommitEffect
    <3>2. Level(t)' = After(task[t]) /\ Level(t) = Before(task[t])
      BY <1>4, <3>1
    <3>3. CASE t = Owner
      <4>1. host' = host /\ device'.end = device.end /\ device'.begin = -After(task[t])
        <5>1. CASE task[t].op = "emplaceFront"
          <6>1. host' = host /\ device' = Device!IncFront(device)
            BY <2>2, <3>3, <5>1, CommitEffect, ThreadNames
          <6>2. device'.begin = device.begin - 1 /\ device'.end = device.end
            BY <1>1, <6>1, DeviceParts
          <6>3. device.begin = -task[t].id /\ After(task[t]) = task[t].id + 1
            BY <1>2, <1>8, <3>2, <3>3, <5>1
          <6> QED
            BY <1>2, <3>3, <6>1, <6>2, <6>3
        <5>2. CASE task[t].op = "popFront"
          <6>1. host' = host /\ device' = Device!PopFront(device)
            BY <2>2, <3>3, <5>2, CommitEffect, ThreadNames
          <6>2. device'.begin = device.begin + 1 /\ device'.end = device.end
            BY <1>1, <6>1, DeviceParts
          <6>3. device.begin = -(task[t].id + 1) /\ After(task[t]) = task[t].id
            BY <1>2, <1>8, <3>2, <3>3, <5>2
          <6> QED
            BY <1>2, <3>3, <6>1, <6>2, <6>3
        <5> QED
          BY <2>2, <3>3, <5>1, <5>2, CommitEffect, ThreadNames
      <4> QED
        BY <1>2, <1>3, <1>4, <3>1, <3>2, <3>3, <4>1, NewIndices, ThreadNames
    <3>4. CASE t = 0 /\ task[t].op = "deviceToHost"
      <4>0. host'.begin = host.begin /\ host'.end = host.end
        <5>1. host' = Host!Write(host, Host!FrontSlot(host), Device!BackEntry(device))
          BY <2>2, <3>4, CommitEffect, ThreadNames
        <5>2. HostCapacity > 0
          BY <1>3, <3>4, HostNeeded
        <5>3. Host!FrontSlot(host) \in Host!Slots
          BY <1>2, <5>2, HostSlots DEF Host!FrontSlot
        <5>4. Device!BackEntry(device) \in Int
          BY <1>1, <1>2, MemoryFacts, DeviceSlots DEF Device!BackEntry, Device!BackSlot
        <5> QED
          BY <1>1, <5>1, <5>3, <5>4, HostParts
      <4>1. device' = Device!PopBack(device)
        BY <2>2, <3>4, CommitEffect, ThreadNames
      <4>2. device'.begin = device.begin /\ device'.end = device.end - 1
        BY <1>1, <4>1, DeviceParts
      <4>3. device.end = -1 - task[0].id /\ host.begin = -(task[0].id + 1) /\ Level(0)' = task[0].id + 1
        BY <1>2, <1>8, <3>1, <3>2, <3>4
      <4>4. device'.end = -1 - Level(0)' /\ host'.begin = -Level(0)'
        BY <1>2, <4>0, <4>2, <4>3
      <4> QED
        BY <1>2, <1>3, <1>4, <3>1, <3>4, <4>0, <4>2, <4>4, NewIndices, ThreadNames
    <3>5. CASE t = 0 /\ task[t].op = "hostToDevice"
      <4>1. device' = device /\ host' = Host!PopFront(host)
        BY <2>2, <3>5, CommitEffect, ThreadNames
      <4>2. host'.begin = host.begin + 1 /\ host'.end = host.end
        BY <1>1, <4>1, HostParts
      <4>3. device.end = -1 - task[0].id /\ host.begin = -(task[0].id + 1) /\ Level(0)' = task[0].id
        BY <1>2, <1>8, <3>1, <3>2, <3>5
      <4>4. device'.end = -1 - Level(0)' /\ host'.begin = -Level(0)' /\ host'.begin \in Int
        BY <1>2, <4>1, <4>2, <4>3
      <4> QED
        BY <1>2, <1>3, <1>4, <3>1, <3>5, <4>1, <4>2, <4>4, NewIndices, ThreadNames
    <3>6. CASE t = 1
      <4>1. device' = device /\ host'.begin = host.begin /\ host'.end = -1 - After(task[t])
        <5>1. CASE task[t].op = "hostToDisk"
          <6>1. device' = device /\ host' = Host!PopBack(host)
            BY <2>2, <3>6, <5>1, CommitEffect, ThreadNames
          <6>2. host'.begin = host.begin /\ host'.end = host.end - 1
            BY <1>1, <6>1, HostParts
          <6>3. host.end = -1 - task[t].id /\ After(task[t]) = task[t].id + 1
            BY <1>2, <1>8, <3>2, <3>6, <5>1
          <6> QED
            BY <1>2, <3>6, <6>1, <6>2, <6>3
        <5>2. CASE task[t].op = "diskToHost"
          <6>1. device' = device /\ host' = Host!IncBack(host)
            BY <2>2, <3>6, <5>2, CommitEffect, ThreadNames
          <6>2. host'.begin = host.begin /\ host'.end = host.end + 1
            BY <1>1, <6>1, HostParts
          <6>3. host.end = -1 - (task[t].id + 1) /\ After(task[t]) = task[t].id
            BY <1>2, <1>8, <3>2, <3>6, <5>2
          <6> QED
            BY <1>2, <3>6, <6>1, <6>2, <6>3
        <5> QED
          BY <2>2, <3>6, <5>1, <5>2, CommitEffect, ThreadNames
      <4>2. /\ Level(0)' = Level(0) /\ Level(Owner)' = Level(Owner) /\ Level(1)' = After(task[t])
            /\ (pc'[0] = "commit" <=> pc[0] = "commit") /\ task'[0] = task[0]
        BY <1>3, <1>4, <3>2, <3>6, ThreadNames
      <4> QED
        BY <1>2, <4>1, <4>2, NewIndices
    <3> QED
      BY <2>2, <3>3, <3>4, <3>5, <3>6, CommitEffect
  <2> QED
    BY <2>1, <2>2
<1>10. /\ Unfinished(1)' => Unfinished(1)
       /\ Level(0)' \in Nat /\ (Level(0) <= Level(0)' \/ task[0].op = "hostToDevice")
  <2>1. Unfinished(1)' => Unfinished(1)
    BY <1>3, <1>4, ThreadNames
  <2>2. Level(0)' \in Nat /\ (Level(0) <= Level(0)' \/ task[0].op = "hostToDevice")
    <3>1. CASE t # 0 \/ pc'[t] = "commit"
      BY <1>2, <1>4, <3>1, ThreadNames
    <3>2. CASE t = 0 /\ pc'[t] # "commit"
      BY <1>2, <1>4, <1>6, <1>8, <3>2
    <3> QED
      BY <3>1, <3>2
  <2> QED
    BY <2>1, <2>2
<1>11. Orders' /\ Phase' /\ Writes' /\ HostUsed'
  BY <1>1, <1>3, <1>4, <1>5, <1>9, <1>10, RestKept, ThreadNames
<1> QED
  BY <1>9, <1>11 DEF ControlInv
-----------------------------------------------------------------------------
(* The other steps that begin no operation and ask for none.                 *)

LEMMA MostKept ==
  ASSUME ControlInv, UNCHANGED <<queue, task, count, toHost, toDisk>>, failed => failed',
         device'.begin = device.begin, device'.end = device.end,
         host'.begin = host.begin, host'.end = host.end,
         \A u \in Threads : Unfinished(u)' <=> Unfinished(u),
         pc'[0] = "commit" <=> pc[0] = "commit",
         \A w \in Workers : Busy(w)' <=> Busy(w)
  PROVE  Indices' /\ Orders' /\ Writes' /\ HostUsed'
<1>1. Level(0)' = Level(0) /\ Level(1)' = Level(1) /\ Level(Owner)' = Level(Owner)
  BY LevelStays, ThreadNames
<1>2. Indices'
  BY <1>1 DEF ControlInv, Indices, Moving
<1>3. Orders'
  BY DEF ControlInv, Orders, Follow, Before, After
<1>4. /\ (Unfinished(1)' <=> Unfinished(1)) /\ (Busy(0)' <=> Busy(0)) /\ (Busy(1)' <=> Busy(1))
  BY ThreadNames
<1>5. Writes'
  <2>1. Reading' <=> Reading
    BY <1>4 DEF Reading
  <2>2. Writing' <=> Writing
    BY <1>1, <1>4 DEF Writing, After, Written
  <2> QED
    BY <2>1, <2>2 DEF ControlInv, Writes, Written
<1>6. HostUsed'
  BY <1>4 DEF ControlInv, HostUsed
<1> QED
  BY <1>2, <1>3, <1>5, <1>6

\* Only a pop has the device copy into the array of the owner.
LEMMA LoadsArePops ==
  ASSUME Inv, stream # << >>
  PROVE  Head(stream).kind = "load" => popped
<1>1. \/ StorePending \/ LoadPending \/ FillPending
  BY DEF Inv, DataInv, StreamInv
<1>2. LoadPending => popped
  BY DEF Inv, DataInv, StreamInv
<1>3. CASE StorePending
  BY <1>3 DEF StorePending, Store
<1>4. CASE FillPending /\ ~LoadPending
  BY <1>4 DEF FillPending, LoadPending, Fill
<1> QED
  BY <1>1, <1>2, <1>3, <1>4

LEMMA PlainControl ==
  ASSUME Inv, ~failed, DeviceCopies \/ ComputeArray \/ PopPrelude \/ PopWait \/ Stop
  PROVE  ControlInv'
<1>0. /\ ControlTypes /\ MemoryTypes /\ ControlInv /\ Phase /\ pc \in [Threads -> Places]
      /\ Owner \in Threads /\ Owner # 0 /\ Owner # 1
  BY ThreadNames DEF Inv, ControlTypes, ControlInv
<1>1. CASE DeviceCopies
  <2>1. /\ UNCHANGED <<host, queue, task, pc, count, toHost, toDisk, failed, pushes, popped>>
        /\ device'.begin = device.begin /\ device'.end = device.end
    BY <1>0, <1>1 DEF DeviceCopies, Device!Write, MemoryTypes, DeviceType, counters
  <2>2. \A u \in Threads : (Unfinished(u)' <=> Unfinished(u)) /\ (Busy(u)' <=> Busy(u))
    BY <2>1 DEF Unfinished, Busy
  <2>3. Indices' /\ Orders' /\ Writes' /\ HostUsed'
    BY <1>0, <2>1, <2>2, MostKept, ThreadNames
  <2>4. popped \/ array' = array
    BY <1>1, LoadsArePops DEF DeviceCopies
  <2>5. Accepted' = Accepted
    BY <2>1, <2>2, <1>0 DEF Accepted
  <2>6. Phase'
    BY <1>0, <2>1, <2>4, <2>5 DEF Phase, Pushing, Popping, After, Moved
  <2> QED
    BY <2>3, <2>6 DEF ControlInv
<1>2. ASSUME pc' = [pc EXCEPT ![Owner] = pc'[Owner]], ~Unfinished(Owner), ~Unfinished(Owner)',
             UNCHANGED <<deques, queue, task, count, toHost, toDisk, failed>>
      PROVE  Indices' /\ Orders' /\ Writes' /\ HostUsed'
  <2>1. \A u \in Threads : u # Owner => pc'[u] = pc[u]
    BY <1>0, <1>2
  <2>2. \A u \in Threads : u # Owner => (Unfinished(u)' <=> Unfinished(u)) /\ (Busy(u)' <=> Busy(u))
    BY <2>1 DEF Unfinished, Busy
  <2> QED
    BY <1>0, <1>2, <2>1, <2>2, MostKept, ThreadNames DEF deques
<1>3. CASE ComputeArray
  <2>1. /\ pc[Owner] = "idle" /\ pc'[Owner] = "push" /\ pushes < MaxBuffers
        /\ pc' = [pc EXCEPT ![Owner] = pc'[Owner]]
        /\ UNCHANGED <<deques, queue, task, count, toHost, toDisk, failed, popped>>
        /\ pushes' = pushes + 1 /\ array' = pushes + 1
    BY <1>0, <1>3 DEF ComputeArray
  <2>2. ~Unfinished(Owner) /\ ~Unfinished(Owner)' /\ ~Busy(Owner) /\ ~Busy(Owner)'
    BY <2>1 DEF Unfinished, Begun, Busy, Ending
  <2>3. Indices' /\ Orders' /\ Writes' /\ HostUsed'
    BY <1>2, <2>1, <2>2
  <2>4. ~popped /\ Pushing
    <3>1. pushes \in Nat /\ MaxBuffers \in Nat
      BY <1>0, Constants DEF ControlTypes
    <3>2. pushes # MaxBuffers
      BY <2>1, <3>1
    <3> QED
      BY <1>0, <3>2 DEF Phase, Popping
  <2>5. Accepted' = Accepted
    BY <2>1, <2>2 DEF Accepted
  <2>6. pushes + 1 <= MaxBuffers /\ pushes = count
    <3>1. pushes \in Nat /\ MaxBuffers \in Nat
      BY <1>0, Constants DEF ControlTypes
    <3> QED
      BY <2>1, <2>4, <3>1 DEF Pushing
  <2>7. Pushing'
    BY <2>1, <2>4, <2>5, <2>6, <1>0 DEF Pushing, Moved
  <2> QED
    BY <2>1, <2>3, <2>4, <2>7 DEF ControlInv, Phase
<1>4. CASE PopPrelude
  <2>1. /\ pc' = [pc EXCEPT ![Owner] = pc'[Owner]]
        /\ UNCHANGED <<deques, queue, task, array, counters, failed>>
        /\ \/ /\ pc[Owner] = "idle" /\ count > 0 /\ pushes = MaxBuffers
              /\ pc'[Owner] = IF popped THEN "pop" ELSE "drain0"
           \/ pc[Owner] = "drain0" /\ queue[0] = << >> /\ pc'[Owner] = "drain1"
           \/ pc[Owner] = "drain1" /\ pc'[Owner] = "pop"
    BY <1>0, <1>4 DEF PopPrelude
  <2>2. ~Unfinished(Owner) /\ ~Unfinished(Owner)' /\ ~Busy(Owner) /\ ~Busy(Owner)'
    BY <2>1 DEF Unfinished, Begun, Busy, Ending
  <2>3. Indices' /\ Orders' /\ Writes' /\ HostUsed'
    BY <1>2, <2>1, <2>2 DEF counters
  <2>5. Accepted' = Accepted
    BY <2>1, <2>2 DEF Accepted, counters
  <2>6. Phase'
    <3>1. CASE popped
      BY <1>0, <2>1, <2>5, <3>1 DEF Phase, Popping, After, Moved, counters
    <3>2. CASE ~popped
      BY <1>0, <2>1, <2>5, <3>2 DEF Phase, Pushing, Moved, counters
    <3> QED
      BY <3>1, <3>2
  <2> QED
    BY <2>3, <2>6 DEF ControlInv
<1>5. CASE PopWait
  <2>1. /\ pc' = [pc EXCEPT ![Owner] = pc'[Owner]]
        /\ UNCHANGED <<deques, queue, task, array, counters, failed>>
        /\ pc[Owner] = "finish" /\ pc'[Owner] = "idle" /\ task[Owner].op = "popFront"
    BY <1>0, <1>5 DEF PopWait
  <2>2. ~Unfinished(Owner) /\ ~Unfinished(Owner)'
    BY <2>1 DEF Unfinished, Begun
  <2>3. Indices' /\ Orders' /\ Writes' /\ HostUsed'
    BY <1>2, <2>1, <2>2 DEF counters
  <2>4. Phase'
    BY <1>0, <2>1 DEF Phase, Pushing, Popping, After, Moved, counters
  <2> QED
    BY <2>3, <2>4 DEF ControlInv
<1>6. CASE Stop
  <2>1. /\ UNCHANGED <<deques, queue, task, array, counters, failed>>
        /\ \/ pc[Owner] = "idle" /\ count = 0 /\ pushes = MaxBuffers /\ pc'[Owner] = "stop"
           \/ pc[Owner] = "stop" /\ pc'[Owner] = "join"
           \/ pc[Owner] = "join" /\ pc'[Owner] = "done"
        /\ \A u \in Threads : u # Owner => pc'[u] = pc[u] \/ (pc[u] = "asleep" /\ pc'[u] = "consume")
    BY <1>0, <1>6 DEF Stop
  <2>2. /\ ~Unfinished(Owner) /\ ~Unfinished(Owner)'
        /\ \A u \in Threads : Unfinished(u)' <=> Unfinished(u)
        /\ \A w \in Workers : Busy(w)' <=> Busy(w)
        /\ pc'[0] = "commit" <=> pc[0] = "commit"
    BY <1>0, <2>1, ThreadNames DEF Unfinished, Begun, Busy, Ending
  <2>3. Indices' /\ Orders' /\ Writes' /\ HostUsed'
    BY <1>0, <2>1, <2>2, MostKept DEF counters, deques
  <2>4. popped
    <3>1. ASSUME pc[Owner] = "idle", count = 0, pushes = MaxBuffers, Pushing PROVE FALSE
      <4>1. pushes = count
        BY <3>1 DEF Pushing
      <4> QED
        BY <3>1, <4>1, Constants
    <3> QED
      BY <1>0, <2>1, <3>1 DEF Phase, Pushing
  <2>5. Phase'
    BY <1>0, <2>1, <2>4 DEF Phase, Popping, After, Moved, counters
  <2> QED
    BY <2>3, <2>5 DEF ControlInv
<1> QED
  BY <1>1, <1>3, <1>4, <1>5, <1>6

LEMMA QuietControl ==
  ASSUME Inv, NEW t \in Threads, Quiet(t)
  PROVE  ControlInv'
BY QuietPlaces, StillControl DEF Inv, deques
-----------------------------------------------------------------------------
(* The owner begins a push or a pop, or ends a push.                         *)

\* What worker 1 has to do does not change when nothing of it, nor of the host
\* queue, does.
LEMMA WritesKept ==
  ASSUME Writes, task'[0] = task[0], task'[1] = task[1], queue'[1] = queue[1], toDisk' = toDisk,
         Unfinished(0)' <=> Unfinished(0), Unfinished(1)' => Unfinished(1), Busy(0)' <=> Busy(0)
  PROVE  Writes'
<1>1. Reading => Reading'
  BY DEF Reading
<1>2. Writing => Writing'
  BY LevelStays DEF Writing, After, Written
<1> QED
  BY <1>1, <1>2 DEF Writes, Written

LEMMA OwnerMoves ==
  ASSUME ControlTypes, Indices, UNCHANGED <<device, host>>, task'[0] = task[0], task'[1] = task[1],
         Level(Owner)' = Level(Owner), pc'[0] = "commit" <=> pc[0] = "commit",
         Unfinished(0)' <=> Unfinished(0), Unfinished(1)' <=> Unfinished(1)
  PROVE  Indices'
<1>1. Level(0)' = Level(0) /\ Level(1)' = Level(1)
  BY LevelStays
<1> QED
  BY <1>1 DEF Indices, Moving

LEMMA PushAsyncStep ==
  ASSUME Inv, ~failed, PushAsync
  PROVE  ControlTypes' /\ ControlInv'
<1>0. /\ ControlTypes /\ MemoryTypes /\ ControlInv /\ Phase /\ pc \in [Threads -> Places]
      /\ Orders /\ Writes /\ HostUsed /\ Indices
  BY DEF Inv, ControlTypes, ControlInv
<1>1. /\ pc[Owner] = "push" /\ count' = count + 1 /\ Begin(Owner, "emplaceFront", count)
      /\ pc' = [pc EXCEPT ![Owner] = "acquire"]
      /\ UNCHANGED <<device, host, queue, mutex, array, pushes, toHost, toDisk, popped, continue>>
      /\ failed' = (HostCapacity = 0 /\ DeviceCapacity < MaxBuffers)
  BY <1>0 DEF PushAsync, deques
<1>2. ~popped /\ Pushing
  BY <1>0, <1>1 DEF Phase, Popping
<1>3. /\ pushes = count + 1 /\ pushes <= MaxBuffers /\ count \in Nat /\ toHost \in Nat /\ toDisk \in Nat
  BY <1>0, <1>1, <1>2 DEF Pushing, ControlTypes
<1>4. count \in BufferIds /\ count + 1 \in Nat
  BY <1>3, Constants DEF BufferIds
<1>5. /\ task'[Owner] = [op |-> "emplaceFront", id |-> count]
      /\ task'[0] = task[0] /\ task'[1] = task[1]
      /\ task'[Owner].op = "emplaceFront" /\ task'[Owner].id = count
  <2>1. /\ task'[Owner] = [op |-> "emplaceFront", id |-> count]
        /\ \A u \in Threads : u # Owner => task'[u] = task[u]
    BY <1>0, <1>1, BeginType, ThreadNames
  <2> QED
    BY <2>1, ThreadNames
<1>6. /\ pc'[Owner] = "acquire" /\ pc'[0] = pc[0] /\ pc'[1] = pc[1]
      /\ \A u \in Threads : u # Owner => pc'[u] = pc[u]
      /\ pc' \in [Threads -> Places]
  BY <1>0, <1>1, ThreadNames DEF Places, Begun
<1>7. /\ (Unfinished(0)' <=> Unfinished(0)) /\ (Unfinished(1)' <=> Unfinished(1))
      /\ (Busy(0)' <=> Busy(0)) /\ (Busy(1)' <=> Busy(1))
      /\ ~Busy(Owner) /\ ~Unfinished(Owner) /\ Unfinished(Owner)' /\ Busy(Owner)'
  BY <1>1, <1>6 DEF Unfinished, Busy, Begun, Ending
<1>8. ControlTypes'
  <2>1. \A u \in Threads : u # Owner /\ Busy(u)' => Busy(u)
    BY <1>6 DEF Busy, Unfinished
  <2>2. "emplaceFront" \in OwnerOps /\ failed' \in BOOLEAN
    BY <1>1 DEF OwnerOps
  <2>3. /\ queue' = [v \in Workers |-> queue'[v]]
        /\ queue'[0] \in Seq(TaskOf(MoveOps)) /\ queue'[1] \in Seq(TaskOf(DiskOps))
        /\ popped' \in BOOLEAN /\ continue' \in BOOLEAN /\ toHost' \in Nat /\ toDisk' \in Nat
    BY <1>0, <1>1 DEF ControlTypes
  <2> QED
    BY <1>0, <1>1, <1>4, <1>6, <2>1, <2>2, <2>3, BegunTypes, ThreadNames
<1>9. Level(Owner) = count /\ Level(Owner)' = count
  <2>1. Level(Owner) = count
    BY <1>0, <1>7 DEF Level, Orders
  <2>2. Level(Owner)' = count
    BY <1>5, <1>7 DEF Level, Before, Ups
  <2> QED
    BY <2>1, <2>2
<1>10. Indices'
  <2>1. UNCHANGED <<device, host>> /\ (pc'[0] = "commit" <=> pc[0] = "commit")
        /\ Level(Owner)' = Level(Owner)
    BY <1>1, <1>6, <1>9
  <2> QED
    BY <1>0, <1>5, <1>7, <2>1, OwnerMoves
<1>11. Orders'
  <2>1. After(task[Owner])' = count + 1 /\ After(task[0])' = After(task[0]) /\ After(task[1])' = After(task[1])
    BY <1>5 DEF After, Ups
  <2>2. \A q, a, b : Follow(q, a, b)' <=> Follow(q, a, b)'
    OBVIOUS
  <2> QED
    BY <1>0, <1>1, <2>1 DEF Orders
<1>12. Phase'
  <2>1. Accepted = count /\ Accepted' = count
    BY <1>1, <1>3, <1>7 DEF Accepted
  <2>2. Pushing'
    BY <1>1, <1>2, <1>3, <1>5, <1>6, <2>1 DEF Pushing, Moved
  <2> QED
    BY <1>1, <1>2, <2>2 DEF Phase
<1>13. Writes'
  BY <1>0, <1>1, <1>5, <1>7, WritesKept
<1>14. HostUsed'
  <2>1. ~(DeviceCapacity < MaxBuffers) => DeviceCapacity >= MaxBuffers
    BY Constants
  <2>2. HostCapacity = 0 => failed' \/ DeviceCapacity >= MaxBuffers
    BY <1>1, <2>1
  <2> QED
    BY <1>0, <1>1, <1>7, <2>2 DEF HostUsed
<1> QED
  BY <1>8, <1>10, <1>11, <1>12, <1>13, <1>14 DEF ControlInv

LEMMA PushedStep ==
  ASSUME Inv, ~failed, Pushed
  PROVE  ControlTypes' /\ ControlInv'
<1>0. /\ ControlTypes /\ MemoryTypes /\ ControlInv /\ Phase /\ pc \in [Threads -> Places]
      /\ Orders /\ Writes /\ HostUsed /\ Indices
  BY DEF Inv, ControlTypes, ControlInv
<1>1. /\ pc[Owner] = "finish" /\ task[Owner].op = "emplaceFront"
      /\ UNCHANGED <<device, host, mutex, task, waits, array, pushes, count, toDisk, popped, continue, failed>>
      /\ \/ /\ MaxBuffers - task[Owner].id > DeviceCapacity
            /\ Enqueue(0, "deviceToHost", toHost, [pc EXCEPT ![Owner] = "idle"])
            /\ toHost' = toHost + 1
         \/ /\ ~(MaxBuffers - task[Owner].id > DeviceCapacity)
            /\ pc' = [pc EXCEPT ![Owner] = "idle"] /\ UNCHANGED <<queue, toHost>>
  BY DEF Pushed, deques
<1>2. ~popped /\ Pushing
  BY <1>0, <1>1 DEF Phase, Popping
<1>3. /\ Busy(Owner) /\ ~Unfinished(Owner)
  BY <1>1 DEF Unfinished, Busy, Begun, Ending
<1>4. /\ task[Owner].id \in BufferIds /\ task[Owner].id \in Nat /\ count = task[Owner].id + 1
      /\ count \in Nat /\ toHost \in Nat /\ toDisk \in Nat /\ Moved \in Nat
  <2>1. task[Owner].id \in BufferIds
    BY <1>0, TaskTypes, ThreadNames
  <2>2. count = task[Owner].id + 1
    BY <1>0, <1>1 DEF Orders, After, Ups
  <2>3. count \in Nat /\ toHost \in Nat /\ toDisk \in Nat
    BY <1>0 DEF ControlTypes
  <2> QED
    BY <2>1, <2>2, <2>3, Constants DEF BufferIds
<1>5. /\ MaxBuffers - task[Owner].id > DeviceCapacity <=> task[Owner].id < Moved
      /\ Accepted = task[Owner].id
      /\ toHost = IF task[Owner].id <= Moved THEN task[Owner].id ELSE Moved
  <2>1. MaxBuffers - task[Owner].id > DeviceCapacity <=> task[Owner].id < Moved
    BY <1>4, Constants
  <2>2. Accepted = task[Owner].id
    BY <1>3, <1>4 DEF Accepted
  <2> QED
    BY <1>2, <2>1, <2>2 DEF Pushing
<1>6. /\ pc'[Owner] = "idle" /\ pc' \in [Threads -> Places]
      /\ \A u \in Threads : u # Owner => pc'[u] = pc[u] \/ (pc[u] = "asleep" /\ pc'[u] = "consume")
  BY <1>0, <1>1, ThreadNames DEF Places, Enqueue
<1>7. /\ (Unfinished(0)' <=> Unfinished(0)) /\ (Unfinished(1)' <=> Unfinished(1))
      /\ (Busy(0)' <=> Busy(0)) /\ (Busy(1)' <=> Busy(1))
      /\ ~Busy(Owner)' /\ ~Unfinished(Owner)'
      /\ pc'[0] = "commit" <=> pc[0] = "commit"
  <2>1. /\ pc'[0] = pc[0] \/ (pc[0] = "asleep" /\ pc'[0] = "consume")
        /\ pc'[1] = pc[1] \/ (pc[1] = "asleep" /\ pc'[1] = "consume")
    BY <1>6, ThreadNames
  <2> QED
    BY <1>6, <2>1 DEF Unfinished, Busy, Begun, Ending
<1>8. Level(Owner)' = Level(Owner)
  BY <1>1, <1>3, <1>7 DEF Level, After
<1>9. Indices'
  BY <1>0, <1>1, <1>7, <1>8, OwnerMoves
<1>10. \A u \in Threads : Busy(u)' => Busy(u)
  BY <1>7, ThreadNames
<1>11. Accepted' = task[Owner].id + 1
  BY <1>1, <1>4, <1>7 DEF Accepted
<1>12. CASE task[Owner].id < Moved
  <2>1. toHost = task[Owner].id /\ toHost \in BufferIds
    BY <1>4, <1>5, <1>12
  <2>2. /\ Enqueue(0, "deviceToHost", toHost, [pc EXCEPT ![Owner] = "idle"]) /\ toHost' = toHost + 1
    BY <1>1, <1>5, <1>12
  <2>3. [pc EXCEPT ![Owner] = "idle"] \in [Threads -> Places]
    BY <1>0 DEF Places
  <2>4. "deviceToHost" \in OpsOf(0)
    BY DEF OpsOf, MoveOps
  <2> DEFINE t == [op |-> "deviceToHost", id |-> toHost]
  <2>5. /\ queue' = [v \in Workers |-> queue'[v]]
        /\ queue'[0] \in Seq(TaskOf(MoveOps)) /\ queue'[1] \in Seq(TaskOf(DiskOps))
        /\ queue'[0] = Append(queue[0], t) /\ t \in TaskOf(OpsOf(0))
        /\ queue'[1] = queue[1]
    BY <1>0, <2>1, <2>2, <2>3, <2>4, Enqueued, ThreadNames
  <2>6. ControlTypes'
    <3>1. toHost' \in Nat /\ toDisk' \in Nat
      BY <1>1, <1>4, <2>2
    <3> QED
      BY <1>0, <1>1, <1>6, <1>10, <2>5, <3>1, EndedTypes
  <2>7. Before(t) = toHost /\ After(t) = toHost + 1 /\ t.op = "deviceToHost"
    BY DEF Before, After, Ups
  <2> HIDE DEF t
  <2>8. Orders'
    <3>1. Follow(queue'[0], After(task[0]), toHost + 1)
      <4>1. queue[0] \in Seq(TaskOf(MoveOps)) /\ t \in TaskOf(MoveOps)
        BY <1>0, <2>5 DEF ControlTypes, OpsOf
      <4>2. Follow(queue[0], After(task[0]), toHost)
        BY <1>0 DEF Orders
      <4>3. Follow(Append(queue[0], t), After(task[0]), After(t))
        BY <2>7, <4>1, <4>2, FollowAppend
      <4> QED
        BY <2>5, <2>7, <4>3
    <3> QED
      BY <1>0, <1>1, <2>2, <2>5, <3>1 DEF Orders
  <2>9. \A i \in 1 .. Len(queue'[0]) : queue'[0][i].op = "deviceToHost"
    <3>1. queue[0] \in Seq(TaskOf(MoveOps)) /\ t \in TaskOf(MoveOps)
      BY <1>0, <2>5 DEF ControlTypes, OpsOf
    <3>2. /\ Len(queue'[0]) = Len(queue[0]) + 1 /\ Len(queue[0]) \in Nat
          /\ queue'[0][Len(queue[0]) + 1] = t
          /\ \A i \in 1 .. Len(queue[0]) : queue'[0][i] = queue[0][i]
      BY <2>5, <3>1, AppendProperties
    <3>3. \A i \in 1 .. Len(queue[0]) : queue[0][i].op = "deviceToHost"
      BY <1>2 DEF Pushing
    <3> SUFFICES ASSUME NEW i \in 1 .. Len(queue'[0]) PROVE queue'[0][i].op = "deviceToHost"
      OBVIOUS
    <3>4. i \in 1 .. Len(queue[0]) \/ i = Len(queue[0]) + 1
      BY <3>2
    <3> QED
      BY <2>7, <3>2, <3>3, <3>4
  <2>10. Phase'
    <3>1. toHost' = IF Accepted' <= Moved THEN Accepted' ELSE Moved
      BY <1>4, <1>11, <1>12, <2>1, <2>2
    <3>2. pushes = count
      BY <1>1, <1>2 DEF Pushing
    <3>3. Pushing'
      BY <1>1, <1>2, <1>6, <2>9, <3>1, <3>2 DEF Pushing, Moved
    <3> QED
      BY <1>1, <1>2, <3>3 DEF Phase
  <2>11. Writes'
    BY <1>0, <1>1, <1>7, <2>5, WritesKept
  <2>12. HostUsed'
    <3>1. Moved # 0 /\ count # 0
      BY <1>4, <1>12
    <3>2. ~(DeviceCapacity >= MaxBuffers)
      BY <3>1, Constants DEF Moved, AtLeast0
    <3> QED
      BY <1>0, <3>1, <3>2 DEF HostUsed
  <2> QED
    BY <1>9, <2>6, <2>8, <2>10, <2>11, <2>12 DEF ControlInv
<1>13. CASE ~(task[Owner].id < Moved)
  <2>1. UNCHANGED <<queue, toHost>>
    BY <1>1, <1>5, <1>13
  <2>2. ControlTypes'
    <3>1. /\ queue' = [v \in Workers |-> queue'[v]]
          /\ queue'[0] \in Seq(TaskOf(MoveOps)) /\ queue'[1] \in Seq(TaskOf(DiskOps))
          /\ toHost' \in Nat /\ toDisk' \in Nat
      BY <1>0, <1>1, <2>1 DEF ControlTypes
    <3> QED
      BY <1>0, <1>1, <1>6, <1>10, <3>1, EndedTypes
  <2>3. Orders'
    BY <1>0, <1>1, <2>1 DEF Orders
  <2>4. Phase'
    <3>1. toHost' = IF Accepted' <= Moved THEN Accepted' ELSE Moved
      BY <1>4, <1>5, <1>11, <1>13, <2>1
    <3>2. pushes = count
      BY <1>1, <1>2 DEF Pushing
    <3>3. Pushing'
      BY <1>1, <1>2, <1>6, <2>1, <3>1, <3>2 DEF Pushing, Moved
    <3> QED
      BY <1>1, <1>2, <3>3 DEF Phase
  <2>5. Writes'
    BY <1>0, <1>1, <1>7, <2>1, WritesKept
  <2>6. HostUsed'
    BY <1>0, <1>1, <1>7, <2>1 DEF HostUsed
  <2> QED
    BY <1>9, <2>2, <2>3, <2>4, <2>5, <2>6 DEF ControlInv
<1> QED
  BY <1>12, <1>13

LEMMA PopAsyncStep ==
  ASSUME Inv, ~failed, PopAsync
  PROVE  ControlTypes' /\ ControlInv'
<1>0. /\ ControlTypes /\ MemoryTypes /\ ControlInv /\ Phase /\ pc \in [Threads -> Places]
      /\ Orders /\ Writes /\ HostUsed /\ Indices
  BY DEF Inv, ControlTypes, ControlInv
<1>1. /\ pc[Owner] = "pop" /\ popped' = TRUE /\ count' = count - 1
      /\ Begin(Owner, "popFront", count - 1)
      /\ UNCHANGED <<device, host, mutex, array, pushes, toDisk, continue, failed>>
      /\ \/ /\ toHost > 0
            /\ Enqueue(0, "hostToDevice", toHost - 1, [pc EXCEPT ![Owner] = "acquire"])
            /\ toHost' = toHost - 1
         \/ /\ ~(toHost > 0)
            /\ pc' = [pc EXCEPT ![Owner] = "acquire"] /\ UNCHANGED <<queue, toHost>>
  BY DEF PopAsync, deques
<1>2. /\ count \in Nat /\ toHost \in Nat /\ toDisk \in Nat /\ pushes \in Nat
      /\ count <= MaxBuffers /\ toHost <= MaxBuffers /\ MaxBuffers \in Nat /\ MaxBuffers > 0
      /\ Moved \in Nat /\ Moved <= MaxBuffers
  <2>1. count <= MaxBuffers /\ toHost <= MaxBuffers
    BY <1>0, FollowBound
  <2> QED
    BY <1>0, <2>1, Constants DEF ControlTypes
<1>3. /\ ~Busy(Owner) /\ ~Unfinished(Owner)
  BY <1>1 DEF Unfinished, Busy, Begun, Ending
<1>4. /\ count > 0 /\ pushes = MaxBuffers
      /\ task[0].op # "hostToDevice" => After(task[0]) = Moved
      /\ \A i \in 1 .. Len(queue[0]) : queue[0][i].op = "hostToDevice"
  <2>1. CASE popped
    BY <1>0, <1>1, <2>1 DEF Phase, Popping
  <2>2. CASE ~popped
    <3>1. Pushing
      BY <1>0, <2>2 DEF Phase
    <3>2. pushes = count /\ pushes = MaxBuffers /\ queue[0] = << >>
      BY <1>1, <3>1 DEF Pushing
    <3>3. Accepted = MaxBuffers
      BY <1>3, <3>2 DEF Accepted
    <3>4. toHost = IF MaxBuffers <= Moved THEN MaxBuffers ELSE Moved
      BY <3>1, <3>3 DEF Pushing
    <3>5. toHost = Moved
      BY <1>2, <3>4
    <3>6. After(task[0]) = toHost
      BY <1>0, <3>2 DEF Orders, Follow
    <3> QED
      BY <1>2, <3>2, <3>5, <3>6
  <2> QED
    BY <2>1, <2>2
<1>5. count - 1 \in BufferIds /\ count - 1 \in Nat
  BY <1>2, <1>4 DEF BufferIds
<1>6. /\ task'[Owner] = [op |-> "popFront", id |-> count - 1]
      /\ task'[0] = task[0] /\ task'[1] = task[1]
      /\ task'[Owner].op = "popFront" /\ task'[Owner].id = count - 1
  <2>1. /\ task'[Owner] = [op |-> "popFront", id |-> count - 1]
        /\ \A u \in Threads : u # Owner => task'[u] = task[u]
    BY <1>0, <1>1, BeginType, ThreadNames
  <2> QED
    BY <2>1, ThreadNames
<1>7. /\ pc'[Owner] = "acquire" /\ pc' \in [Threads -> Places]
      /\ \A u \in Threads : u # Owner => pc'[u] = pc[u] \/ (pc[u] = "asleep" /\ pc'[u] = "consume")
  BY <1>0, <1>1, ThreadNames DEF Places, Begun, Enqueue
<1>8. /\ (Unfinished(0)' <=> Unfinished(0)) /\ (Unfinished(1)' <=> Unfinished(1))
      /\ (Busy(0)' <=> Busy(0)) /\ (Busy(1)' <=> Busy(1))
      /\ Unfinished(Owner)' /\ (pc'[0] = "commit" <=> pc[0] = "commit")
      /\ \A u \in Threads : u # Owner /\ Busy(u)' => Busy(u)
  <2>1. /\ pc'[0] = pc[0] \/ (pc[0] = "asleep" /\ pc'[0] = "consume")
        /\ pc'[1] = pc[1] \/ (pc[1] = "asleep" /\ pc'[1] = "consume")
    BY <1>7, ThreadNames
  <2>2. /\ (Unfinished(0)' <=> Unfinished(0)) /\ (Unfinished(1)' <=> Unfinished(1))
        /\ (Busy(0)' <=> Busy(0)) /\ (Busy(1)' <=> Busy(1))
        /\ Unfinished(Owner)' /\ (pc'[0] = "commit" <=> pc[0] = "commit")
    BY <1>7, <2>1 DEF Unfinished, Busy, Begun, Ending
  <2> QED
    BY <2>2, ThreadNames
<1>9. Level(Owner)' = Level(Owner)
  <2>1. Level(Owner) = count
    BY <1>0, <1>3 DEF Level, Orders
  <2>2. Level(Owner)' = count - 1 + 1
    BY <1>6, <1>8 DEF Level, Before, Ups
  <2> QED
    BY <1>2, <2>1, <2>2
<1>10. Indices'
  BY <1>0, <1>1, <1>6, <1>8, <1>9, OwnerMoves
<1>11. "popFront" \in OwnerOps
  BY DEF OwnerOps
<1>12. After(task[Owner])' = count - 1 /\ After(task[0])' = After(task[0]) /\ After(task[1])' = After(task[1])
  BY <1>6 DEF After, Ups
<1>13. ASSUME \A i \in 1 .. Len(queue'[0]) : queue'[0][i].op = "hostToDevice"
       PROVE  Phase'
  <2>1. Popping'
    BY <1>1, <1>4, <1>6, <1>7, <1>12, <1>13 DEF Popping, Moved
  <2> QED
    BY <1>1, <2>1 DEF Phase
<1>14. CASE toHost > 0
  <2>1. toHost - 1 \in BufferIds /\ toHost - 1 \in Nat
    BY <1>2, <1>14 DEF BufferIds
  <2>2. /\ Enqueue(0, "hostToDevice", toHost - 1, [pc EXCEPT ![Owner] = "acquire"]) /\ toHost' = toHost - 1
    BY <1>1, <1>14
  <2>3. [pc EXCEPT ![Owner] = "acquire"] \in [Threads -> Places]
    BY <1>0 DEF Places, Begun
  <2>4. "hostToDevice" \in OpsOf(0)
    BY DEF OpsOf, MoveOps
  <2> DEFINE t == [op |-> "hostToDevice", id |-> toHost - 1]
  <2>5. /\ queue' = [v \in Workers |-> queue'[v]]
        /\ queue'[0] \in Seq(TaskOf(MoveOps)) /\ queue'[1] \in Seq(TaskOf(DiskOps))
        /\ queue'[0] = Append(queue[0], t) /\ t \in TaskOf(OpsOf(0))
        /\ queue'[1] = queue[1]
    <3> DEFINE n == toHost - 1
               places == [pc EXCEPT ![Owner] = "acquire"]
    <3>1. n \in BufferIds /\ places \in [Threads -> Places] /\ Enqueue(0, "hostToDevice", n, places)
      BY <2>1, <2>2, <2>3
    <3> HIDE DEF n, places
    <3>2. /\ queue' = [v \in Workers |-> queue'[v]]
          /\ queue'[0] \in Seq(TaskOf(MoveOps)) /\ queue'[1] \in Seq(TaskOf(DiskOps))
          /\ queue'[0] = Append(queue[0], [op |-> "hostToDevice", id |-> n])
          /\ [op |-> "hostToDevice", id |-> n] \in TaskOf(OpsOf(0))
          /\ \A v \in Workers : v # 0 => queue'[v] = queue[v]
      BY <1>0, <2>4, <3>1, Enqueued, ThreadNames
    <3> QED
      BY <3>2, ThreadNames DEF n
  <2>6. ControlTypes'
    <3>1. /\ toHost' \in Nat /\ toDisk' \in Nat /\ count' \in Nat /\ popped' \in BOOLEAN
          /\ continue' \in BOOLEAN /\ failed' \in BOOLEAN
      BY <1>0, <1>1, <1>5, <2>1, <2>2 DEF ControlTypes
    <3> QED
      BY <1>0, <1>1, <1>5, <1>7, <1>8, <1>11, <2>5, <3>1, BegunTypes, ThreadNames
  <2>7. Before(t) = toHost /\ After(t) = toHost - 1 /\ t.op = "hostToDevice"
    <3>1. Before(t) = toHost - 1 + 1 /\ After(t) = toHost - 1
      BY DEF Before, After, Ups
    <3> QED
      BY <1>2, <3>1
  <2> HIDE DEF t
  <2>8. Orders'
    <3>1. Follow(queue'[0], After(task[0]), toHost - 1)
      <4>1. queue[0] \in Seq(TaskOf(MoveOps)) /\ t \in TaskOf(MoveOps)
        BY <1>0, <2>5 DEF ControlTypes, OpsOf
      <4>2. Follow(queue[0], After(task[0]), toHost)
        BY <1>0 DEF Orders
      <4>3. Follow(Append(queue[0], t), After(task[0]), After(t))
        BY <2>7, <4>1, <4>2, FollowAppend
      <4> QED
        BY <2>5, <2>7, <4>3
    <3> QED
      BY <1>0, <1>1, <1>12, <2>2, <2>5, <3>1 DEF Orders
  <2>9. \A i \in 1 .. Len(queue'[0]) : queue'[0][i].op = "hostToDevice"
    <3>1. queue[0] \in Seq(TaskOf(MoveOps)) /\ t \in TaskOf(MoveOps)
      BY <1>0, <2>5 DEF ControlTypes, OpsOf
    <3>2. /\ Len(queue'[0]) = Len(queue[0]) + 1 /\ Len(queue[0]) \in Nat
          /\ queue'[0][Len(queue[0]) + 1] = t
          /\ \A i \in 1 .. Len(queue[0]) : queue'[0][i] = queue[0][i]
      BY <2>5, <3>1, AppendProperties
    <3> SUFFICES ASSUME NEW i \in 1 .. Len(queue'[0]) PROVE queue'[0][i].op = "hostToDevice"
      OBVIOUS
    <3>4. i \in 1 .. Len(queue[0]) \/ i = Len(queue[0]) + 1
      BY <3>2
    <3> QED
      BY <1>4, <2>7, <3>2, <3>4
  <2>10. Phase'
    BY <1>13, <2>9
  <2>11. Writes'
    BY <1>0, <1>1, <1>6, <1>8, <2>5, WritesKept
  <2>12. HostUsed'
    BY <1>0, <1>2, <1>14 DEF HostUsed
  <2> QED
    BY <1>10, <2>6, <2>8, <2>10, <2>11, <2>12 DEF ControlInv
<1>15. CASE ~(toHost > 0)
  <2>1. UNCHANGED <<queue, toHost>>
    BY <1>1, <1>15
  <2>2. ControlTypes'
    <3>1. /\ queue' = [v \in Workers |-> queue'[v]]
          /\ queue'[0] \in Seq(TaskOf(MoveOps)) /\ queue'[1] \in Seq(TaskOf(DiskOps))
          /\ toHost' \in Nat /\ toDisk' \in Nat /\ count' \in Nat /\ popped' \in BOOLEAN
          /\ continue' \in BOOLEAN /\ failed' \in BOOLEAN
      BY <1>0, <1>1, <1>5, <2>1 DEF ControlTypes
    <3> QED
      BY <1>0, <1>1, <1>5, <1>7, <1>8, <1>11, <3>1, BegunTypes, ThreadNames
  <2>3. Orders'
    BY <1>0, <1>1, <1>12, <2>1 DEF Orders
  <2>4. Phase'
    BY <1>4, <1>13, <2>1
  <2>5. Writes'
    BY <1>0, <1>1, <1>6, <1>8, <2>1, WritesKept
  <2>6. HostUsed'
    <3>1. count # 0
      BY <1>2, <1>4
    <3> QED
      BY <1>0, <1>1, <1>8, <2>1, <3>1 DEF HostUsed
  <2> QED
    BY <1>10, <2>2, <2>3, <2>4, <2>5, <2>6 DEF ControlInv
<1> QED
  BY <1>14, <1>15

LEMMA FinishStep ==
  ASSUME Inv, ~failed, NEW w \in Workers, Finish(w)
  PROVE  ControlTypes' /\ ControlInv'
<1>0. /\ ControlTypes /\ MemoryTypes /\ ControlInv /\ Phase /\ pc \in [Threads -> Places]
      /\ Orders /\ Writes /\ HostUsed /\ Indices /\ w \in Threads
  BY ThreadNames DEF Inv, ControlTypes, ControlInv
<1>1. /\ pc[w] = "finish"
      /\ UNCHANGED <<device, host, mutex, task, waits, array, pushes, count, toHost, popped, continue, failed>>
      /\ \/ /\ task[w].op = "deviceToHost" /\ MaxBuffers - task[w].id > DeviceCapacity + HostCapacity
            /\ Enqueue(1, "hostToDisk", toDisk, [pc EXCEPT ![w] = "consume"])
            /\ toDisk' = toDisk + 1
         \/ /\ ~(task[w].op = "deviceToHost" /\ MaxBuffers - task[w].id > DeviceCapacity + HostCapacity)
            /\ pc' = [pc EXCEPT ![w] = "consume"] /\ UNCHANGED <<queue, toDisk>>
  BY DEF Finish, deques
<1>2. Busy(w) /\ ~Unfinished(w) /\ HostCapacity > 0
  <2>1. Busy(w) /\ ~Unfinished(w)
    BY <1>1 DEF Unfinished, Busy, Begun, Ending
  <2> QED
    BY <2>1, HostNeeded, ThreadNames
<1>3. /\ count \in Nat /\ toHost \in Nat /\ toDisk \in Nat /\ MaxBuffers \in Nat
      /\ Moved \in Nat /\ Moved <= MaxBuffers /\ Written \in Nat /\ Written <= Moved
      /\ task[w].id \in BufferIds /\ task[w].id \in Nat
  <2>1. task[w].id \in BufferIds
    BY <1>0, TaskTypes
  <2> QED
    BY <1>0, <2>1, Constants DEF ControlTypes, BufferIds
<1>4. /\ pc'[w] = "consume" /\ pc' \in [Threads -> Places]
      /\ \A u \in Threads : u # w => pc'[u] = pc[u] \/ (pc[u] = "asleep" /\ pc'[u] = "consume")
  BY <1>0, <1>1, ThreadNames DEF Places, Enqueue
<1>5. /\ \A u \in Threads : Unfinished(u)' <=> Unfinished(u)
      /\ \A u \in Threads : u # w => (Busy(u)' <=> Busy(u))
      /\ ~Busy(w)' /\ ~Unfinished(w)'
      /\ \A u \in Threads : Busy(u)' => Busy(u)
      /\ \A u \in Threads : pc'[u] = "commit" <=> pc[u] = "commit"
  <2>1. ASSUME NEW u \in Threads, u # w
        PROVE  /\ (Unfinished(u)' <=> Unfinished(u)) /\ (Busy(u)' <=> Busy(u))
               /\ (pc'[u] = "commit" <=> pc[u] = "commit")
    BY <1>4, <2>1 DEF Unfinished, Busy, Begun, Ending
  <2>2. ~Busy(w)' /\ ~Unfinished(w)' /\ pc'[w] # "commit" /\ pc[w] # "commit"
    BY <1>1, <1>4 DEF Unfinished, Busy, Begun, Ending
  <2> QED
    BY <1>2, <2>1, <2>2
<1>6. pc'[Owner] = pc[Owner] \/ (pc[Owner] = "asleep" /\ pc'[Owner] = "consume")
  BY <1>4, ThreadNames
<1>7. Indices'
  <2>1. Level(Owner)' = Level(Owner)
    BY <1>1, <1>5, LevelStays, ThreadNames
  <2> QED
    BY <1>0, <1>1, <1>5, <2>1, OwnerMoves, ThreadNames
<1>8. ASSUME queue'[0] = queue[0] PROVE Phase'
  <2>1. Accepted' = Accepted
    BY <1>1, <1>5, ThreadNames DEF Accepted
  <2>2. \A p \in OwnerPlaces : pc'[Owner] = p <=> pc[Owner] = p
    BY <1>6 DEF OwnerPlaces
  <2> QED
    BY <1>0, <1>1, <1>8, <2>1, <2>2 DEF Phase, Pushing, Popping, After, OwnerPlaces, Moved
<1>9. CASE task[w].op = "deviceToHost" /\ MaxBuffers - task[w].id > DeviceCapacity + HostCapacity
  <2>1. w = 0
    BY <1>0, <1>2, <1>9, Performers
  <2>2. task[0].id < Written
    BY <1>3, <1>9, <2>1, Constants
  <2>3. Writing /\ toDisk <= task[0].id
    <3>1. Writing /\ Busy(0)
      BY <1>0, <1>2, <1>9, <2>1 DEF Writes
    <3> QED
      BY <3>1 DEF Writing
  <2>4. toDisk < Written /\ toDisk \in BufferIds
    BY <1>3, <2>1, <2>2, <2>3 DEF BufferIds
  <2>5. Level(0) = task[0].id + 1 /\ Level(0)' = Level(0)
    BY <1>1, <1>2, <1>5, <1>9, <2>1, LevelStays, ThreadNames DEF Level, After, Ups
  <2>6. toDisk < Level(0)
    BY <1>3, <2>1, <2>3, <2>5
  <2>7. Enqueue(1, "hostToDisk", toDisk, [pc EXCEPT ![w] = "consume"]) /\ toDisk' = toDisk + 1
    BY <1>1, <1>9
  <2>8. [pc EXCEPT ![w] = "consume"] \in [Threads -> Places]
    BY <1>0 DEF Places
  <2>9. "hostToDisk" \in OpsOf(1)
    BY DEF OpsOf, DiskOps
  <2> DEFINE t == [op |-> "hostToDisk", id |-> toDisk]
  <2>10. /\ queue' = [v \in Workers |-> queue'[v]]
         /\ queue'[0] \in Seq(TaskOf(MoveOps)) /\ queue'[1] \in Seq(TaskOf(DiskOps))
         /\ queue'[1] = Append(queue[1], t) /\ t \in TaskOf(OpsOf(1))
         /\ queue'[0] = queue[0]
    BY <1>0, <2>4, <2>7, <2>8, <2>9, Enqueued, ThreadNames
  <2>11. ControlTypes'
    <3>1. toHost' \in Nat /\ toDisk' \in Nat
      BY <1>1, <1>3, <2>7
    <3> QED
      BY <1>0, <1>1, <1>4, <1>5, <2>10, <3>1, EndedTypes
  <2>12. Before(t) = toDisk /\ After(t) = toDisk + 1 /\ t.op = "hostToDisk" /\ t.id = toDisk
    BY DEF Before, After, Ups
  <2> HIDE DEF t
  <2>13. queue[1] \in Seq(TaskOf(DiskOps)) /\ t \in TaskOf(DiskOps)
    BY <1>0, <2>10 DEF ControlTypes, OpsOf
  <2>14. Orders'
    <3>1. Follow(queue'[1], After(task[1]), toDisk + 1)
      <4>2. Follow(queue[1], After(task[1]), toDisk)
        BY <1>0 DEF Orders
      <4>3. Follow(Append(queue[1], t), After(task[1]), After(t))
        BY <2>12, <2>13, <4>2, FollowAppend
      <4> QED
        BY <2>10, <2>12, <4>3
    <3> QED
      BY <1>0, <1>1, <2>7, <2>10, <3>1 DEF Orders
  <2>15. Phase'
    BY <1>8, <2>10
  <2>16. Writes'
    <3>1. /\ Len(queue'[1]) = Len(queue[1]) + 1 /\ Len(queue[1]) \in Nat
          /\ queue'[1][Len(queue[1]) + 1] = t
          /\ \A i \in 1 .. Len(queue[1]) : queue'[1][i] = queue[1][i]
      BY <2>10, <2>13, AppendProperties
    <3>2. ASSUME NEW i \in 1 .. Len(queue'[1])
          PROVE  queue'[1][i].op = "hostToDisk" /\ queue'[1][i].id < Written /\ queue'[1][i].id < Level(0)
      <4>1. i \in 1 .. Len(queue[1]) \/ i = Len(queue[1]) + 1
        BY <3>1
      <4> QED
        BY <2>3, <2>4, <2>6, <2>12, <3>1, <4>1 DEF Writing
    <3>3. toDisk' <= After(task[0])
      <4>1. After(task[0]) = task[0].id + 1
        BY <1>9, <2>1 DEF After, Ups
      <4>2. toDisk + 1 <= task[0].id + 1
        BY <1>3, <2>1, <2>3
      <4> QED
        BY <2>7, <4>1, <4>2
    <3>4. Writing'
      BY <1>1, <1>5, <2>1, <2>3, <2>5, <3>2, <3>3, ThreadNames DEF Writing, After, Written
    <3>5. toDisk' <= Written
      BY <1>3, <2>4, <2>7
    <3> QED
      BY <1>1, <1>9, <2>1, <3>4, <3>5 DEF Writes, Written
  <2>17. HostUsed'
    BY <1>2, Constants DEF HostUsed
  <2> QED
    BY <1>7, <2>11, <2>14, <2>15, <2>16, <2>17 DEF ControlInv
<1>10. CASE ~(task[w].op = "deviceToHost" /\ MaxBuffers - task[w].id > DeviceCapacity + HostCapacity)
  <2>1. UNCHANGED <<queue, toDisk>>
    BY <1>1, <1>10
  <2>2. ControlTypes'
    <3>1. /\ queue' = [v \in Workers |-> queue'[v]]
          /\ queue'[0] \in Seq(TaskOf(MoveOps)) /\ queue'[1] \in Seq(TaskOf(DiskOps))
          /\ toHost' \in Nat /\ toDisk' \in Nat
      BY <1>0, <1>1, <2>1 DEF ControlTypes
    <3> QED
      BY <1>0, <1>1, <1>4, <1>5, <3>1, EndedTypes
  <2>3. Orders'
    BY <1>0, <1>1, <2>1 DEF Orders
  <2>4. Phase'
    BY <1>8, <2>1
  <2>5. Writes'
    <3>1. CASE task[0].op = "hostToDevice"
      BY <1>0, <1>1, <1>5, <2>1, <3>1, ThreadNames DEF Writes, Reading, Written
    <3>2. CASE task[0].op # "hostToDevice"
      <4>1. Writing
        BY <1>0, <3>2 DEF Writes
      <4>2. toDisk <= IF Busy(0)' THEN task[0].id ELSE After(task[0])
        <5>1. CASE w = 0
          <6>1. task[0].op = "deviceToHost"
            BY <1>0, <1>2, <3>2, <5>1, Performers
          <6>2. After(task[0]) = task[0].id + 1
            BY <6>1 DEF After, Ups
          <6>3. toDisk <= task[0].id
            BY <1>2, <4>1, <5>1 DEF Writing
          <6>4. toDisk <= task[0].id + 1
            BY <1>3, <5>1, <6>3
          <6> QED
            BY <1>5, <5>1, <6>2, <6>4
        <5>2. CASE w # 0
          BY <1>5, <4>1, <5>2, ThreadNames DEF Writing
        <5> QED
          BY <5>1, <5>2
      <4>4. Level(0)' = Level(0)
        BY <1>1, <1>5, LevelStays, ThreadNames
      <4>3. Writing'
        BY <1>1, <1>5, <2>1, <4>1, <4>2, <4>4, ThreadNames DEF Writing, After, Written
      <4> QED
        BY <1>0, <1>1, <2>1, <3>2, <4>3 DEF Writes, Written
    <3> QED
      BY <3>1, <3>2
  <2>6. HostUsed'
    BY <1>2, Constants DEF HostUsed
  <2> QED
    BY <1>7, <2>2, <2>3, <2>4, <2>5, <2>6 DEF ControlInv
<1> QED
  BY <1>9, <1>10

\* The first buffer that is moved back to the device finds that worker 1 has
\* written all it had to: the host queue would hold too many buffers otherwise.
LEMMA WritesAreDone ==
  ASSUME Inv, ~Busy(0), queue[0] # << >>, Head(queue[0]).op = "hostToDevice"
  PROVE  Reading
<1>0. /\ ControlTypes /\ MemoryTypes /\ Sizes /\ ControlInv /\ Phase /\ Orders /\ Writes /\ Indices
  BY DEF Inv, ControlInv
<1>1. Head(queue[0]) = queue[0][1] /\ 1 \in 1 .. Len(queue[0])
  <2>1. queue[0] \in Seq(TaskOf(MoveOps))
    BY <1>0 DEF ControlTypes
  <2> QED
    BY <2>1
<1>2. Popping
  BY <1>0, <1>1 DEF Phase, Pushing
<1>3. CASE task[0].op = "hostToDevice"
  BY <1>0, <1>3 DEF Writes
<1>4. CASE task[0].op # "hostToDevice"
  <2>1. Writing /\ After(task[0]) = Moved
    BY <1>0, <1>2, <1>4 DEF Writes, Popping
  <2>2. /\ host.end = -1 - Level(1) /\ host.begin = -Level(0) /\ Level(1) \in Nat /\ Level(0) = Moved
    <3>1. ~Unfinished(0) /\ pc[0] # "commit"
      BY DEF Busy, Unfinished
    <3> QED
      BY <1>0, <2>1, <3>1, IndexFacts DEF Level
  <2>3. host.end - host.begin + 1 <= HostCapacity /\ Moved \in Nat /\ HostCapacity \in Nat
    BY <1>0, SizeFacts, Constants
  <2>4. Moved - HostCapacity <= Level(1)
    BY <2>2, <2>3
  <2>5. Written <= Level(1) /\ Written \in Nat
    <3>1. Written = 0 \/ Written = Moved - HostCapacity
      BY Constants DEF Written, Moved, AtLeast0
    <3> QED
      BY <2>2, <2>4, <3>1, Constants
  <2>6. ~Unfinished(1)
    <3> SUFFICES ASSUME Unfinished(1) PROVE FALSE
      OBVIOUS
    <3>1. task[1].op = "hostToDisk" /\ task[1].id < Written
      BY <2>1 DEF Writing
    <3>2. Level(1) = task[1].id
      BY <3>1 DEF Level, Before, Ups
    <3> QED
      BY <2>2, <2>5, <3>1, <3>2
  <2>7. Level(1) = After(task[1])
    BY <2>6 DEF Level
  <2>8. queue[1] = << >>
    <3> SUFFICES ASSUME queue[1] # << >> PROVE FALSE
      OBVIOUS
    <3>1. queue[1] \in Seq(TaskOf(DiskOps)) /\ 1 \in 1 .. Len(queue[1])
      <4>1. queue[1] \in Seq(TaskOf(DiskOps))
        BY <1>0 DEF ControlTypes
      <4> QED
        BY <4>1
    <3>2. queue[1][1].op = "hostToDisk" /\ queue[1][1].id < Written
      BY <2>1, <3>1 DEF Writing
    <3>3. Before(queue[1][1]) = After(task[1])
      BY <1>0 DEF Orders, Follow
    <3>4. Before(queue[1][1]) = queue[1][1].id
      BY <3>2 DEF Before, Ups
    <3> QED
      BY <2>2, <2>5, <2>7, <3>2, <3>3, <3>4
  <2>9. Len(queue[1]) = 0
    BY <2>8
  <2> QED
    BY <2>6, <2>9 DEF Reading
<1> QED
  BY <1>3, <1>4

LEMMA TakeTaskStep ==
  ASSUME Inv, ~failed, NEW w \in Workers, TakeTask(w)
  PROVE  ControlTypes' /\ ControlInv' /\ Level(1)' = Level(1)
<1> DEFINE h == Head(queue[w])
           r == Tail(queue[w])
<1>0. /\ ControlTypes /\ MemoryTypes /\ ControlInv /\ Phase /\ pc \in [Threads -> Places]
      /\ Orders /\ Writes /\ HostUsed /\ Indices /\ w \in Threads
      /\ queue = [v \in Workers |-> queue[v]]
      /\ queue[0] \in Seq(TaskOf(MoveOps)) /\ queue[1] \in Seq(TaskOf(DiskOps))
      /\ 0 \in Workers /\ 1 \in Workers
  BY ThreadNames DEF Inv, ControlTypes, ControlInv
<1>1. /\ pc[w] = "consume" /\ queue[w] # << >> /\ Begin(w, h.op, h.id)
      /\ UNCHANGED <<device, host, mutex, array, pushes, count, toHost, popped, continue, failed>>
      /\ \/ /\ h.op = "hostToDevice" /\ toDisk > 0
            /\ queue' = [[queue EXCEPT ![w] = r] EXCEPT ![1] = Append(@, [op |-> "diskToHost", id |-> toDisk - 1])]
            /\ pc' = [pc EXCEPT ![w] = "acquire", ![1] = IF @ = "asleep" THEN "consume" ELSE @]
            /\ toDisk' = toDisk - 1
         \/ /\ ~(h.op = "hostToDevice" /\ toDisk > 0)
            /\ queue' = [queue EXCEPT ![w] = r] /\ pc' = [pc EXCEPT ![w] = "acquire"]
            /\ toDisk' = toDisk
  BY DEF TakeTask, CallsBack, deques
<1>2. /\ queue[w] \in Seq(TaskOf(OpsOf(w))) /\ h \in TaskOf(OpsOf(w)) /\ r \in Seq(TaskOf(OpsOf(w)))
      /\ h = queue[w][1] /\ 1 \in 1 .. Len(queue[w])
      /\ Len(r) = Len(queue[w]) - 1 /\ Len(queue[w]) \in Nat
      /\ \A i \in 1 .. Len(r) : r[i] = queue[w][i + 1] /\ i + 1 \in 1 .. Len(queue[w])
  <2>1. queue[w] \in Seq(TaskOf(OpsOf(w)))
    BY <1>0, ThreadNames DEF OpsOf
  <2>2. r \in Seq(TaskOf(OpsOf(w))) /\ Len(r) = Len(queue[w]) - 1 /\ \A i \in 1 .. Len(r) : r[i] = queue[w][i + 1]
    BY <1>1, <2>1, HeadTailProperties
  <2>3. h = queue[w][1] /\ 1 \in 1 .. Len(queue[w]) /\ Len(queue[w]) \in Nat
    BY <1>1, <2>1
  <2>4. h \in TaskOf(OpsOf(w))
    BY <2>1, <2>3
  <2> QED
    BY <2>1, <2>2, <2>3, <2>4
<1> HIDE DEF r, h
<1>3. h.op \in OpsOf(w) /\ h.id \in BufferIds /\ h = [op |-> h.op, id |-> h.id] /\ h.id \in Nat
  <2>1. h.op \in OpsOf(w) /\ h.id \in BufferIds /\ h = [op |-> h.op, id |-> h.id]
    BY <1>2 DEF TaskOf
  <2> QED
    BY <2>1 DEF BufferIds
<1>4. /\ count \in Nat /\ toHost \in Nat /\ toDisk \in Nat /\ toDisk <= MaxBuffers /\ MaxBuffers \in Nat
      /\ Written \in Nat
  BY <1>0, FollowBound, Constants DEF ControlTypes
<1>5. task'[w] = h /\ \A u \in Threads : u # w => task'[u] = task[u]
  BY <1>0, <1>1, <1>3, BeginType
<1>6. /\ pc'[w] = "acquire" /\ pc' \in [Threads -> Places]
      /\ \A u \in Threads : u # w => pc'[u] = pc[u] \/ (pc[u] = "asleep" /\ pc'[u] = "consume")
  <2>1. h.op = "hostToDevice" => w = 0
    BY <1>3, ThreadNames DEF OpsOf, DiskOps
  <2>2. CASE w = 0 /\ pc' = [pc EXCEPT ![0] = "acquire", ![1] = IF @ = "asleep" THEN "consume" ELSE @]
    <3> DEFINE p == [pc EXCEPT ![0] = "acquire"]
    <3>1. /\ p \in [Threads -> Places] /\ p[0] = "acquire" /\ \A u \in Threads : u # 0 => p[u] = pc[u]
      BY <1>0, ThreadNames DEF Places, Begun
    <3>2. pc' = [p EXCEPT ![1] = IF p[1] = "asleep" THEN "consume" ELSE p[1]]
      BY <2>2
    <3> HIDE DEF p
    <3>3. /\ pc'[1] = IF p[1] = "asleep" THEN "consume" ELSE p[1]
          /\ \A u \in Threads : u # 1 => pc'[u] = p[u]
      BY <3>1, <3>2, ThreadNames
    <3>4. pc' \in [Threads -> Places]
      BY <3>1, <3>2, ThreadNames DEF Places
    <3> QED
      BY <2>2, <3>1, <3>3, <3>4, ThreadNames
  <2>3. CASE pc' = [pc EXCEPT ![w] = "acquire"]
    BY <1>0, <2>3 DEF Places, Begun
  <2> QED
    BY <1>1, <2>1, <2>2, <2>3
<1>7. /\ ~Busy(w) /\ ~Unfinished(w) /\ Busy(w)' /\ Unfinished(w)' /\ pc[w] # "commit" /\ pc'[w] # "commit"
      /\ \A u \in Threads : u # w =>
            /\ (Unfinished(u)' <=> Unfinished(u)) /\ (Busy(u)' <=> Busy(u))
            /\ (pc'[u] = "commit" <=> pc[u] = "commit")
            /\ \A p \in OwnerPlaces : pc'[u] = p <=> pc[u] = p
  <2>1. /\ ~Busy(w) /\ ~Unfinished(w) /\ Busy(w)' /\ Unfinished(w)' /\ pc[w] # "commit" /\ pc'[w] # "commit"
    BY <1>1, <1>6 DEF Unfinished, Busy, Begun, Ending
  <2>2. ASSUME NEW u \in Threads, u # w
        PROVE  /\ (Unfinished(u)' <=> Unfinished(u)) /\ (Busy(u)' <=> Busy(u))
               /\ (pc'[u] = "commit" <=> pc[u] = "commit")
               /\ \A p \in OwnerPlaces : pc'[u] = p <=> pc[u] = p
    BY <1>6, <2>2 DEF Unfinished, Busy, Begun, Ending, OwnerPlaces
  <2> QED
    BY <2>1, <2>2
<1>8. HostUsed'
  BY <1>0, <1>1, ThreadNames DEF HostUsed
<1>9. Before(h) = After(task[w]) /\ Level(w)' = Level(w)
  <2>1. PICK to : Follow(queue[w], After(task[w]), to)
    BY <1>0, ThreadNames DEF Orders
  <2>2. Before(h) = After(task[w])
    BY <1>1, <1>2, <2>1 DEF Follow
  <2>3. Level(w) = After(task[w])
    BY <1>7 DEF Level
  <2>4. Level(w)' = Before(h)
    BY <1>5, <1>7 DEF Level, Before
  <2> QED
    BY <2>2, <2>3, <2>4
<1>10. Indices' /\ Level(1)' = Level(1) /\ Level(0)' = Level(0)
  <2>1. \A u \in Threads : Level(u)' = Level(u)
    BY <1>5, <1>7, <1>9, LevelStays
  <2>2. /\ Level(0)' = Level(0) /\ Level(1)' = Level(1) /\ Level(Owner)' = Level(Owner)
        /\ (pc'[0] = "commit" <=> pc[0] = "commit")
        /\ task'[0].id = task[0].id \/ pc[0] # "commit"
    BY <1>5, <1>7, <2>1, ThreadNames
  <2> QED
    BY <1>0, <1>1, <2>2 DEF Indices, Moving
<1>11. \A to : Follow(queue[w], After(task[w]), to) => Follow(r, After(h), to)
  <2> SUFFICES ASSUME NEW to, Follow(queue[w], After(task[w]), to) PROVE Follow(r, After(h), to)
    OBVIOUS
  <2> QED
    BY <1>1, <1>2, FollowTail DEF r, h
<1>12. After(task[Owner])' = After(task[Owner]) /\ After(task[w])' = After(h)
  BY <1>5, ThreadNames DEF After
<1>13. Accepted' = Accepted /\ \A p \in OwnerPlaces : pc'[Owner] = p <=> pc[Owner] = p
  BY <1>1, <1>7, ThreadNames DEF Accepted
<1>14. ASSUME w = 0, queue'[0] = r PROVE Phase'
  <2>1. \A i \in 1 .. Len(r) : r[i] = queue[0][i + 1] /\ i + 1 \in 1 .. Len(queue[0])
    BY <1>2, <1>14
  <2>2. task'[0] = queue[0][1] /\ 1 \in 1 .. Len(queue[0]) /\ task'[Owner] = task[Owner]
    BY <1>2, <1>5, <1>14, ThreadNames
  <2>3. Pushing /\ ~popped => Pushing'
    <3> SUFFICES ASSUME Pushing, ~popped PROVE Pushing'
      OBVIOUS
    <3>1. \A i \in 1 .. Len(queue[0]) : queue[0][i].op = "deviceToHost"
      BY DEF Pushing
    <3>2. task'[0].op # "hostToDevice" /\ \A i \in 1 .. Len(queue'[0]) : queue'[0][i].op = "deviceToHost"
      BY <1>14, <2>1, <2>2, <3>1
    <3>3. pc'[Owner] \notin {"drain1", "pop"}
      <4>1. queue[0] # << >>
        BY <1>1, <1>14
      <4>2. pc[Owner] \notin {"drain1", "pop"}
        BY <4>1 DEF Pushing
      <4> QED
        BY <1>13, <4>2 DEF OwnerPlaces
    <3> QED
      BY <1>1, <1>13, <2>2, <3>2, <3>3 DEF Pushing, OwnerPlaces, Moved
  <2>4. Popping /\ popped => Popping'
    <3> SUFFICES ASSUME Popping, popped PROVE Popping'
      OBVIOUS
    <3>1. \A i \in 1 .. Len(queue[0]) : queue[0][i].op = "hostToDevice"
      BY DEF Popping
    <3>2. task'[0].op = "hostToDevice" /\ \A i \in 1 .. Len(queue'[0]) : queue'[0][i].op = "hostToDevice"
      BY <1>14, <2>1, <2>2, <3>1
    <3> QED
      BY <1>1, <1>13, <2>2, <3>2 DEF Popping, OwnerPlaces
  <2> QED
    BY <1>0, <1>1, <2>3, <2>4 DEF Phase
<1>15. ASSUME w = 1, queue'[0] = queue[0] PROVE Phase'
  <2>1. task'[0] = task[0] /\ task'[Owner] = task[Owner]
    BY <1>5, <1>15, ThreadNames
  <2> QED
    BY <1>0, <1>1, <1>13, <1>15, <2>1 DEF Phase, Pushing, Popping, After, OwnerPlaces, Moved
<1>16. ASSUME queue' = [v \in Workers |-> queue'[v]],
              queue'[0] \in Seq(TaskOf(MoveOps)), queue'[1] \in Seq(TaskOf(DiskOps)), toDisk' \in Nat
       PROVE  ControlTypes'
  <2>1. \A u \in Threads : u # w /\ Busy(u)' => Busy(u)
    BY <1>7
  <2>2. h.op \in (IF w = Owner THEN OwnerOps ELSE OpsOf(w))
    BY <1>3, ThreadNames
  <2>3. count' \in Nat /\ toHost' \in Nat /\ popped' \in BOOLEAN /\ continue' \in BOOLEAN /\ failed' \in BOOLEAN
    BY <1>0, <1>1 DEF ControlTypes
  <2> QED
    BY <1>0, <1>1, <1>3, <1>6, <1>16, <2>1, <2>2, <2>3, BegunTypes
<1>17. CASE ~(h.op = "hostToDevice" /\ toDisk > 0)
  <2>1. queue' = [queue EXCEPT ![w] = r] /\ toDisk' = toDisk
    BY <1>1, <1>17
  <2>2. /\ queue'[w] = r /\ queue' = [v \in Workers |-> queue'[v]]
        /\ \A v \in Workers : v # w => queue'[v] = queue[v]
    BY <1>0, <2>1
  <2>3. CASE w = 0
    <3>1. queue'[0] = r /\ queue'[1] = queue[1] /\ task'[1] = task[1] /\ task'[0] = h
      BY <1>0, <1>5, <2>2, <2>3, ThreadNames
    <3>2. ControlTypes'
      BY <1>0, <1>2, <1>4, <1>16, <2>1, <2>2, <2>3, <3>1 DEF OpsOf
    <3>3. Orders'
      <4>1. Follow(r, After(h), toHost)
        BY <1>0, <1>11, <2>3 DEF Orders
      <4>2. After(task[1])' = After(task[1])
        BY <3>1 DEF After
      <4> QED
        BY <1>0, <1>1, <1>12, <2>1, <2>3, <3>1, <4>1, <4>2 DEF Orders
    <3>4. Phase'
      BY <1>14, <2>3, <3>1
    <3>5. Writes'
      <4>1. Unfinished(1)' <=> Unfinished(1)
        BY <1>7, <2>3, ThreadNames
      <4>2. CASE h.op = "hostToDevice"
        <5>1. Reading
          BY <1>1, <1>7, <2>3, <4>2, WritesAreDone DEF h
        <5>2. Reading'
          BY <3>1, <4>1, <5>1 DEF Reading
        <5> QED
          BY <1>0, <2>1, <3>1, <4>2, <5>2 DEF Writes, Written
      <4>3. CASE h.op # "hostToDevice"
        <5>1. h.op = "deviceToHost"
          BY <1>3, <2>3, <4>3 DEF OpsOf, MoveOps
        <5>2. ~popped /\ task[0].op # "hostToDevice"
          BY <1>0, <1>2, <2>3, <5>1 DEF Phase, Pushing, Popping
        <5>3. Writing
          BY <1>0, <5>2 DEF Writes
        <5>4. toDisk <= h.id
          <6>1. toDisk <= After(task[0])
            BY <1>7, <2>3, <5>3 DEF Writing
          <6>2. Before(h) = h.id
            BY <5>1 DEF Before, Ups
          <6> QED
            BY <1>9, <2>3, <6>1, <6>2
        <5>5. Writing'
          BY <1>1, <1>7, <1>10, <2>1, <2>3, <3>1, <4>1, <5>3, <5>4 DEF Writing, Written
        <5> QED
          BY <1>0, <2>1, <3>1, <4>3, <5>5 DEF Writes, Written
      <4> QED
        BY <4>2, <4>3
    <3> QED
      BY <1>8, <1>10, <3>2, <3>3, <3>4, <3>5 DEF ControlInv
  <2>4. CASE w = 1
    <3>1. queue'[1] = r /\ queue'[0] = queue[0] /\ task'[0] = task[0] /\ task'[1] = h
      BY <1>0, <1>5, <2>2, <2>4, ThreadNames
    <3>2. ControlTypes'
      BY <1>0, <1>2, <1>4, <1>16, <2>1, <2>2, <2>4, <3>1 DEF OpsOf
    <3>3. Orders'
      <4>1. Follow(r, After(h), toDisk)
        BY <1>0, <1>11, <2>4 DEF Orders
      <4>2. After(task[0])' = After(task[0])
        BY <3>1 DEF After
      <4> QED
        BY <1>0, <1>1, <1>12, <2>1, <2>4, <3>1, <4>1, <4>2 DEF Orders
    <3>4. Phase'
      BY <1>15, <2>4, <3>1
    <3>5. Writes'
      <4>1. /\ h = queue[1][1] /\ 1 \in 1 .. Len(queue[1])
            /\ \A i \in 1 .. Len(r) : r[i] = queue[1][i + 1] /\ i + 1 \in 1 .. Len(queue[1])
        BY <1>2, <2>4
      <4>2. Reading => Reading'
        BY <3>1, <4>1 DEF Reading
      <4>3. Busy(0)' <=> Busy(0)
        BY <1>7, <2>4, ThreadNames
      <4>4. Writing => Writing'
        <5> SUFFICES ASSUME Writing PROVE Writing'
          OBVIOUS
        <5>1. \A i \in 1 .. Len(queue[1]) :
                queue[1][i].op = "hostToDisk" /\ queue[1][i].id < Written /\ queue[1][i].id < Level(0)
          BY DEF Writing
        <5>2. /\ h.op = "hostToDisk" /\ h.id < Written /\ h.id < Level(0)'
              /\ \A i \in 1 .. Len(queue'[1]) :
                    queue'[1][i].op = "hostToDisk" /\ queue'[1][i].id < Written /\ queue'[1][i].id < Level(0)'
          BY <1>10, <3>1, <4>1, <5>1
        <5>3. After(task[0])' = After(task[0])
          BY <3>1 DEF After
        <5>4. toDisk' <= IF Busy(0)' THEN task'[0].id ELSE After(task[0])'
          BY <2>1, <3>1, <4>3, <5>3 DEF Writing
        <5> QED
          BY <3>1, <5>2, <5>4 DEF Writing, Written
      <4> QED
        BY <1>0, <2>1, <3>1, <4>2, <4>4 DEF Writes, Written
    <3> QED
      BY <1>8, <1>10, <3>2, <3>3, <3>4, <3>5 DEF ControlInv
  <2> QED
    BY <2>3, <2>4, ThreadNames
<1>18. CASE h.op = "hostToDevice" /\ toDisk > 0
  <2>1. w = 0
    BY <1>3, <1>18, ThreadNames DEF OpsOf, DiskOps
  <2> DEFINE n == toDisk - 1
             b == [op |-> "diskToHost", id |-> n]
  <2>2. /\ queue' = [[queue EXCEPT ![0] = r] EXCEPT ![1] = Append(@, b)] /\ toDisk' = n
    BY <1>1, <1>18, <2>1
  <2>3. n \in Nat /\ n \in BufferIds /\ n + 1 = toDisk
    BY <1>4, <1>18 DEF BufferIds
  <2> HIDE DEF n
  <2>4. b \in TaskOf(DiskOps) /\ Before(b) = toDisk /\ After(b) = n /\ b.op = "diskToHost"
    BY <2>3 DEF TaskOf, DiskOps, Before, After, Ups
  <2> HIDE DEF b
  <2>5. /\ queue'[0] = r /\ queue'[1] = Append(queue[1], b)
        /\ queue' = [v \in Workers |-> queue'[v]]
    <3> DEFINE q == [queue EXCEPT ![0] = r]
    <3>1. q = [v \in Workers |-> q[v]] /\ q[0] = r /\ q[1] = queue[1]
      BY <1>0
    <3>2. queue' = [q EXCEPT ![1] = Append(q[1], b)]
      BY <2>2
    <3> HIDE DEF q
    <3> DEFINE a == Append(q[1], b)
    <3> HIDE DEF a
    <3>3. queue' = [q EXCEPT ![1] = a]
      BY <3>2 DEF a
    <3>4. queue'[0] = q[0] /\ queue'[1] = a /\ queue' = [v \in Workers |-> queue'[v]]
      BY <1>0, <3>1, <3>3
    <3> QED
      BY <3>1, <3>4 DEF a
  <2>6. task'[0] = h /\ task'[1] = task[1]
    BY <1>5, <2>1, ThreadNames
  <2>7. queue'[0] \in Seq(TaskOf(MoveOps)) /\ queue'[1] \in Seq(TaskOf(DiskOps))
    BY <1>0, <1>2, <2>1, <2>4, <2>5, AppendProperties DEF OpsOf
  <2>8. ControlTypes'
    BY <1>16, <2>2, <2>3, <2>5, <2>7
  <2>9. Orders'
    <3>1. Follow(r, After(h), toHost)
      BY <1>0, <1>11, <2>1 DEF Orders
    <3>2. After(task[1])' = After(task[1])
      BY <2>6 DEF After
    <3>3. Follow(queue'[1], After(task[1]), n)
      <4>1. Follow(queue[1], After(task[1]), toDisk)
        BY <1>0 DEF Orders
      <4>2. Follow(Append(queue[1], b), After(task[1]), After(b))
        BY <1>0, <2>4, <4>1, FollowAppend
      <4> QED
        BY <2>4, <2>5, <4>2
    <3>4. After(task[0])' = After(h) /\ queue'[0] = r /\ toDisk' = n
      BY <1>12, <2>1, <2>2, <2>5
    <3>5. count' = After(task[Owner])'
      BY <1>0, <1>1, <1>12 DEF Orders
    <3>6. Follow(queue[0], After(task[0]), toHost)'
      BY <1>1, <3>1, <3>4 DEF Follow, Before, After
    <3>7. Follow(queue[1], After(task[1]), toDisk)'
      BY <3>2, <3>3, <3>4 DEF Follow, Before, After
    <3> QED
      BY <3>5, <3>6, <3>7 DEF Orders
  <2>10. Phase'
    BY <1>14, <2>1, <2>5
  <2>11. Writes'
    <3>1. Unfinished(1)' <=> Unfinished(1)
      BY <1>7, <2>1, ThreadNames
    <3>2. Reading
      BY <1>1, <1>7, <1>18, <2>1, WritesAreDone DEF h
    <3>3. /\ Len(queue'[1]) = Len(queue[1]) + 1 /\ Len(queue[1]) \in Nat
          /\ queue'[1][Len(queue[1]) + 1] = b
          /\ \A i \in 1 .. Len(queue[1]) : queue'[1][i] = queue[1][i]
      BY <1>0, <2>4, <2>5, AppendProperties
    <3>4. ASSUME NEW i \in 1 .. Len(queue'[1]) PROVE queue'[1][i].op = "diskToHost"
      <4>1. i \in 1 .. Len(queue[1]) \/ i = Len(queue[1]) + 1
        BY <3>3
      <4> QED
        BY <2>4, <3>2, <3>3, <4>1 DEF Reading
    <3>5. Reading'
      BY <2>6, <3>1, <3>2, <3>4 DEF Reading
    <3>6. toDisk' <= Written
      <4>1. toDisk <= Written
        BY <1>0 DEF Writes
      <4> QED
        BY <1>4, <2>2, <2>3, <4>1
    <3> QED
      BY <1>18, <2>6, <3>5, <3>6 DEF Writes, Written
  <2> QED
    BY <1>8, <1>10, <2>8, <2>9, <2>10, <2>11 DEF ControlInv
<1> QED
  BY <1>17, <1>18
-----------------------------------------------------------------------------
(* What the memories hold: the steps that change none of them.               *)

LEMMA StreamKinds ==
  ASSUME StreamInv
  PROVE  /\ ~StorePending /\ ~LoadPending => stream = << >> \/ stream = << Fill >>
         /\ ~FillPending => stream = << >> \/ stream = << Store >> \/ stream = << Load >>
BY DEF StreamInv, StorePending, LoadPending, FillPending

\* Sequences of one or two copies tell their kinds.
LEMMA KindsDiffer ==
  ASSUME NEW S, NEW L, NEW F, S.kind = "store", L.kind = "load", F.kind = "fill"
  PROVE  /\ << >> # << S >> /\ << >> # << L >> /\ << >> # << F >>
         /\ << >> # << L, F >> /\ << >> # << F, L >>
         /\ << S >> # << L >> /\ << S >> # << F >> /\ << L >> # << F >>
         /\ << S >> # << L, F >> /\ << S >> # << F, L >>
         /\ << L >> # << L, F >> /\ << L >> # << F, L >>
         /\ << F >> # << L, F >> /\ << F >> # << F, L >> /\ << L, F >> # << F, L >>
<1>1. S # L /\ S # F /\ L # F
  OBVIOUS
<1>2. /\ Len(<< >>) = 0 /\ Len(<< S >>) = 1 /\ Len(<< L >>) = 1 /\ Len(<< F >>) = 1
      /\ Len(<< L, F >>) = 2 /\ Len(<< F, L >>) = 2
  OBVIOUS
<1>3. << S >>[1] = S /\ << L >>[1] = L /\ << F >>[1] = F /\ << L, F >>[1] = L /\ << F, L >>[1] = F
  OBVIOUS
<1> QED
  BY <1>1, <1>2, <1>3

LEMMA PendingKept ==
  ASSUME StreamInv, stream' = stream,
         count' = count \/ (~StorePending /\ ~LoadPending),
         task'[0] = task[0] \/ ~FillPending,
         device' = device
  PROVE  /\ (StorePending' <=> StorePending) /\ (LoadPending' <=> LoadPending)
         /\ (FillPending' <=> FillPending)
         /\ (stream' = << Fill, Load >>') <=> (stream = << Fill, Load >>)
         /\ StorePending => Store' = Store
         /\ LoadPending => Load' = Load
         /\ FillPending => Fill' = Fill /\ task'[0] = task[0]
<1> DEFINE S == Store
           L == Load
           F == Fill
<1>1. /\ S.kind = "store" /\ L.kind = "load" /\ F.kind = "fill"
      /\ Store'.kind = "store" /\ Load'.kind = "load" /\ Fill'.kind = "fill"
  BY DEF Store, Load, Fill
<1>2. count' = count => Store' = Store /\ Load' = Load
  BY DEF Store, Load
<1>3. task'[0] = task[0] => Fill' = Fill
  BY DEF Fill
<1>4. CASE count' = count /\ task'[0] = task[0]
  BY <1>2, <1>3, <1>4 DEF StorePending, LoadPending, FillPending
<1>5. CASE count' # count /\ task'[0] = task[0]
  <2>1. ~StorePending /\ ~LoadPending /\ Fill' = Fill
    BY <1>3, <1>5
  <2>2. stream = << >> \/ stream = << Fill >>
    BY <2>1, StreamKinds
  <2>3. /\ << >> # << Store' >> /\ << >> # << Load' >> /\ << >> # << Load', Fill >> /\ << >> # << Fill, Load' >>
        /\ << Fill >> # << Store' >> /\ << Fill >> # << Load' >> /\ << Fill >> # << Load', Fill >>
        /\ << Fill >> # << Fill, Load' >>
    <3> DEFINE s == Store'
               l == Load'
               f == Fill
    <3>1. s.kind = "store" /\ l.kind = "load" /\ f.kind = "fill"
      BY <1>1
    <3> HIDE DEF s, l, f
    <3>2. /\ << >> # << s >> /\ << >> # << l >> /\ << >> # << l, f >> /\ << >> # << f, l >>
          /\ << f >> # << s >> /\ << f >> # << l >> /\ << f >> # << l, f >> /\ << f >> # << f, l >>
      BY <3>1, KindsDiffer
    <3> QED
      BY <3>2 DEF s, l, f
  <2>4. ~(StorePending') /\ ~(LoadPending')
    BY <2>1, <2>2, <2>3 DEF StorePending, LoadPending
  <2>5. (FillPending' <=> FillPending) /\ ~(stream' = << Fill, Load >>') /\ stream # << Fill, Load >>
    BY <1>5, <2>1, <2>2, <2>3 DEF FillPending, LoadPending
  <2> QED
    BY <1>5, <2>1, <2>4, <2>5
<1>6. CASE task'[0] # task[0]
  <2>1. ~FillPending
    BY <1>6
  <2>2. stream = << >> \/ stream = << Store >> \/ stream = << Load >>
    BY <2>1, StreamKinds
  <2>3. /\ << >> # << Store >> /\ << >> # << Load >>
    <3> DEFINE s == Store
               l == Load
               f == Fill
    <3>1. s.kind = "store" /\ l.kind = "load" /\ f.kind = "fill"
      BY <1>1
    <3> HIDE DEF s, l, f
    <3>2. /\ << >> # << s >> /\ << >> # << l >>
      BY <3>1, KindsDiffer
    <3> QED
      BY <3>2 DEF s, l, f
  <2>4. /\ << >> # << Store' >> /\ << >> # << Load' >> /\ << >> # << Fill' >>
        /\ << >> # << Load', Fill' >> /\ << >> # << Fill', Load' >>
        /\ << Store' >> # << Fill' >> /\ << Store' >> # << Load', Fill' >> /\ << Store' >> # << Fill', Load' >>
        /\ << Load' >> # << Fill' >> /\ << Load' >> # << Load', Fill' >> /\ << Load' >> # << Fill', Load' >>
        /\ << Store' >> # << Load' >>
    <3> DEFINE s == Store'
               l == Load'
               f == Fill'
    <3>1. s.kind = "store" /\ l.kind = "load" /\ f.kind = "fill"
      BY <1>1
    <3> HIDE DEF s, l, f
    <3>2. /\ << >> # << s >> /\ << >> # << l >> /\ << >> # << f >> /\ << >> # << l, f >> /\ << >> # << f, l >>
          /\ << s >> # << f >> /\ << s >> # << l, f >> /\ << s >> # << f, l >>
          /\ << l >> # << f >> /\ << l >> # << l, f >> /\ << l >> # << f, l >> /\ << s >> # << l >>
      BY <3>1, KindsDiffer
    <3> QED
      BY <3>2 DEF s, l, f
  <2>5. CASE stream = << >>
    BY <2>1, <2>3, <2>4, <2>5 DEF StorePending, LoadPending, FillPending
  <2>6. CASE stream = << Store >>
    <3>1. StorePending /\ count' = count
      BY <2>6 DEF StorePending
    <3>2. Store' = Store /\ Load' = Load
      BY <1>2, <3>1
    <3> QED
      BY <2>1, <2>4, <2>6, <3>1, <3>2 DEF StorePending, LoadPending, FillPending
  <2>7. CASE stream = << Load >>
    <3>1. LoadPending /\ count' = count
      BY <2>7 DEF LoadPending
    <3>2. Store' = Store /\ Load' = Load
      BY <1>2, <3>1
    <3> QED
      BY <2>1, <2>4, <2>7, <3>1, <3>2 DEF StorePending, LoadPending, FillPending
  <2> QED
    BY <2>2, <2>5, <2>6, <2>7
<1> QED
  BY <1>4, <1>5, <1>6

LEMMA DataKept ==
  ASSUME DataInv, UNCHANGED <<device, host, disk, stream>>,
         \A op : Committing(0, op)' <=> Committing(0, op),
         \A op : Committing(1, op)' <=> Committing(1, op),
         Committing(Owner, "emplaceFront")' <=> Committing(Owner, "emplaceFront"),
         task'[1] = task[1] \/ pc[1] # "commit",
         Level(1)' = Level(1),
         (count' = count /\ popped' = popped) \/ (~StorePending /\ ~LoadPending),
         task'[0] = task[0] \/ ~FillPending,
         StorePending => pc'[Owner] \in {"commit", "idle"} \cup Ending,
         LoadPending => pc'[Owner] \in {"commit"} \cup Ending
  PROVE  DataInv'
<1>1. StreamInv
  BY DEF DataInv
<1>2. /\ (StorePending' <=> StorePending) /\ (LoadPending' <=> LoadPending)
      /\ (FillPending' <=> FillPending)
      /\ (stream' = << Fill, Load >>') <=> (stream = << Fill, Load >>)
      /\ LoadPending => Load' = Load
      /\ FillPending => task'[0] = task[0]
  BY <1>1, PendingKept
<1>3. StreamInv'
  <2>1. stream' = << >> \/ StorePending' \/ LoadPending' \/ FillPending'
    BY <1>1, <1>2 DEF StreamInv
  <2>2. StorePending' => ~popped' /\ count' > 0 /\ pc'[Owner] \in {"commit", "idle"} \cup Ending
    BY <1>1, <1>2 DEF StreamInv
  <2>3. FillPending' => Committing(0, "hostToDevice")'
    BY <1>1, <1>2 DEF StreamInv
  <2>4. ASSUME LoadPending'
        PROVE  /\ popped' /\ pc'[Owner] \in {"commit"} \cup Ending
               /\ stream' = << Fill, Load >>' =>
                     task'[0].id <= count' /\ count' - task'[0].id < DeviceCapacity
               /\ ~(stream' = << Fill, Load >>' /\ task'[0].id = count') =>
                     device'.slot[Device!SlotOf(-(count' + 1))] = count' + 1
    <3>1. LoadPending /\ count' = count /\ popped' = popped
      BY <1>2, <2>4
    <3>2. /\ popped
          /\ stream = << Fill, Load >> =>
                task[0].id <= count /\ count - task[0].id < DeviceCapacity
          /\ ~(stream = << Fill, Load >> /\ task[0].id = count) =>
                device.slot[Device!SlotOf(-(count + 1))] = count + 1
      BY <1>1, <3>1 DEF StreamInv
    <3>3. stream = << Fill, Load >> => task'[0] = task[0]
      BY <1>2 DEF FillPending
    <3> QED
      BY <1>2, <3>1, <3>2, <3>3
  <2> QED
    BY <2>1, <2>2, <2>3, <2>4 DEF StreamInv
<1>4. DeviceHolds'
  <2> SUFFICES ASSUME NEW i \in (device.begin - 1) .. device.end, OnDeviceAt(i)'
               PROVE  \/ device.slot[Device!SlotOf(i)] = -i
                      \/ StorePending' /\ i = -count'
                      \/ FillPending' /\ i = device.end
    BY DEF DeviceHolds
  <2>1. OnDeviceAt(i)
    BY DEF OnDeviceAt
  <2>2. \/ device.slot[Device!SlotOf(i)] = -i
        \/ StorePending /\ i = -count
        \/ FillPending /\ i = device.end
    BY <2>1 DEF DataInv, DeviceHolds
  <2> QED
    BY <1>2, <2>2
<1>5. HostHolds'
  BY DEF DataInv, HostHolds, OnHostAt
<1>6. DiskHolds'
  <2>1. FilesBelow' = FilesBelow
    BY DEF FilesBelow, Committing
  <2> QED
    BY <2>1 DEF DataInv, DiskHolds
<1> QED
  BY <1>3, <1>4, <1>5, <1>6 DEF DataInv

LEMMA WorkersKept ==
  ASSUME UNCHANGED <<device, host, disk, stream>>, task'[0] = task[0], task'[1] = task[1],
         \A w \in Workers : (Unfinished(w)' <=> Unfinished(w)) /\ (pc'[w] = "commit" <=> pc[w] = "commit")
  PROVE  /\ \A op : Committing(0, op)' <=> Committing(0, op)
         /\ \A op : Committing(1, op)' <=> Committing(1, op)
         /\ Level(1)' = Level(1)
BY LevelStays, ThreadNames DEF Committing

LEMMA QuietData ==
  ASSUME Inv, NEW t \in Threads, Quiet(t)
  PROVE  DataInv' /\ MemoryTypes'
<1>1. /\ UNCHANGED <<device, host, disk, stream, task, array, count, popped>>
      /\ \A u \in Threads : Stays(u)
  BY QuietPlaces DEF Inv, deques, counters
<1>2. /\ Stays(0) /\ Stays(1) /\ Stays(Owner)
  BY <1>1, ThreadNames
<1>3. /\ \A op : Committing(0, op)' <=> Committing(0, op)
      /\ \A op : Committing(1, op)' <=> Committing(1, op)
      /\ Level(1)' = Level(1)
      /\ Committing(Owner, "emplaceFront")' <=> Committing(Owner, "emplaceFront")
  BY <1>1, <1>2, LevelStays DEF Stays, Committing
<1>4. /\ pc[Owner] \in {"commit", "idle"} \cup Ending => pc'[Owner] \in {"commit", "idle"} \cup Ending
      /\ pc[Owner] \in {"commit"} \cup Ending => pc'[Owner] \in {"commit"} \cup Ending
  BY <1>2 DEF Stays, OwnerPlaces
<1>5. /\ StorePending => pc'[Owner] \in {"commit", "idle"} \cup Ending
      /\ LoadPending => pc'[Owner] \in {"commit"} \cup Ending
  BY <1>4 DEF Inv, DataInv, StreamInv
<1>6. DataInv'
  BY <1>1, <1>3, <1>5, DataKept DEF Inv
<1> QED
  BY <1>1, <1>6 DEF Inv, MemoryTypes

\* What the waits for the copies of a push and of a pop say.
LEMMA WaitsReturn ==
  ASSUME Inv
  PROVE  /\ PushWaitReturns => ~StorePending
         /\ count < MaxBuffers /\ PopWaitReturns => ~LoadPending
<1>1. ASSUME PushWaitReturns, StorePending PROVE FALSE
  <2>1. count > 0
    BY <1>1 DEF Inv, DataInv, StreamInv
  <2>2. stream = << Store >> /\ Store.kind = "store" /\ Store.id = count - 1
    BY <1>1 DEF StorePending, Store
  <2>3. 1 \in DOMAIN stream /\ stream[1] = Store
    BY <2>2
  <2> QED
    BY <1>1, <2>1, <2>2, <2>3 DEF PushWaitReturns, Pending
<1>2. ASSUME count < MaxBuffers, PopWaitReturns, LoadPending PROVE FALSE
  <2>1. Load.kind = "load" /\ Load.id = count
    BY DEF Load
  <2>2. PICK i \in DOMAIN stream : stream[i] = Load
    <3>1. stream = << Load >> \/ stream = << Load, Fill >> \/ stream = << Fill, Load >>
      BY <1>2 DEF LoadPending
    <3>2. CASE stream = << Load >> \/ stream = << Load, Fill >>
      <4>1. 1 \in DOMAIN stream /\ stream[1] = Load
        BY <3>2
      <4> QED
        BY <4>1
    <3>3. CASE stream = << Fill, Load >>
      <4>1. 2 \in DOMAIN stream /\ stream[2] = Load
        BY <3>3
      <4> QED
        BY <4>1
    <3> QED
      BY <3>1, <3>2, <3>3
  <2> QED
    BY <1>2, <2>1, <2>2 DEF PopWaitReturns, Pending
<1> QED
  BY <1>1, <1>2

\* The steps of the owner between its operations, and those of a worker that
\* takes a task or has ended one.
LEMMA OwnerData ==
  ASSUME Inv, ~failed, ComputeArray \/ PushAsync \/ Pushed \/ PopPrelude \/ PopAsync \/ PopWait \/ Stop
  PROVE  DataInv' /\ MemoryTypes'
<1>0. /\ ControlTypes /\ ControlInv /\ Phase /\ DataInv /\ StreamInv /\ pc \in [Threads -> Places]
      /\ MemoryTypes
  BY DEF Inv, ControlTypes, ControlInv, DataInv
<1>1. UNCHANGED <<device, host, disk, stream>>
  BY DEF ComputeArray, PushAsync, Pushed, PopPrelude, PopAsync, PopWait, Stop, deques
<1>2. array' \in Int
  <2>1. CASE ComputeArray
    BY <1>0, <2>1 DEF ComputeArray, ControlTypes
  <2>2. CASE ~ComputeArray
    BY <1>0, <2>2 DEF PushAsync, Pushed, PopPrelude, PopAsync, PopWait, Stop, MemoryTypes
  <2> QED
    BY <2>1, <2>2
<1>3. MemoryTypes'
  BY <1>0, <1>1, <1>2 DEF MemoryTypes
<1>4. task'[0] = task[0] /\ task'[1] = task[1]
  <2>1. CASE PushAsync \/ PopAsync
    <3>1. \E op, id : Begin(Owner, op, id)
      BY <2>1 DEF PushAsync, PopAsync
    <3> QED
      BY <1>0, <3>1, BeginType, ThreadNames
  <2>2. CASE ~(PushAsync \/ PopAsync)
    BY <2>2 DEF ComputeArray, Pushed, PopPrelude, PopWait, Stop
  <2> QED
    BY <2>1, <2>2
<1>5. \A w \in Workers : pc'[w] = pc[w] \/ (pc[w] = "asleep" /\ pc'[w] = "consume")
  <2>1. CASE ComputeArray \/ PopPrelude \/ PopWait \/ PushAsync
    BY <1>0, <2>1, ThreadNames DEF ComputeArray, PopPrelude, PopWait, PushAsync
  <2>2. CASE Pushed \/ PopAsync
    BY <1>0, <2>2, ThreadNames DEF Pushed, PopAsync, Enqueue
  <2>3. CASE Stop
    BY <1>0, <2>3, ThreadNames DEF Stop
  <2> QED
    BY <2>1, <2>2, <2>3
<1>6. /\ \A op : Committing(0, op)' <=> Committing(0, op)
      /\ \A op : Committing(1, op)' <=> Committing(1, op)
      /\ Level(1)' = Level(1)
  <2>1. \A w \in Workers : (Unfinished(w)' <=> Unfinished(w)) /\ (pc'[w] = "commit" <=> pc[w] = "commit")
    BY <1>5 DEF Unfinished, Begun
  <2> QED
    BY <1>1, <1>4, <2>1, WorkersKept
<1>7. /\ StorePending => pc[Owner] \in {"commit", "idle"} \cup Ending /\ ~popped
      /\ LoadPending => pc[Owner] \in {"commit"} \cup Ending /\ popped
  BY <1>0 DEF StreamInv
<1>8. CASE ComputeArray \/ PopPrelude
  <2>1. /\ pc[Owner] \in {"idle", "drain0", "drain1"} /\ pc'[Owner] \in {"push", "pop", "drain0", "drain1"}
        /\ UNCHANGED <<count, popped>>
    BY <1>0, <1>8, ThreadNames DEF ComputeArray, PopPrelude, counters
  <2>2. pc[Owner] = "idle" => PushWaitReturns
    BY <1>8 DEF ComputeArray, PopPrelude
  <2>3. ~StorePending /\ ~LoadPending
    BY <1>7, <2>1, <2>2, WaitsReturn DEF Ending
  <2>4. ~Committing(Owner, "emplaceFront") /\ ~(Committing(Owner, "emplaceFront")')
    BY <2>1 DEF Committing
  <2> QED
    BY <1>0, <1>1, <1>3, <1>4, <1>6, <2>1, <2>3, <2>4, DataKept
<1>9. CASE PushAsync
  <2>1. pc[Owner] = "push" /\ pc'[Owner] = "acquire" /\ PushWaitReturns
    BY <1>0, <1>9, ThreadNames DEF PushAsync
  <2>2. ~StorePending /\ ~LoadPending
    BY <1>7, <2>1, WaitsReturn DEF Ending
  <2>4. ~Committing(Owner, "emplaceFront") /\ ~(Committing(Owner, "emplaceFront")')
    BY <2>1 DEF Committing
  <2> QED
    BY <1>0, <1>1, <1>3, <1>4, <1>6, <2>2, <2>4, DataKept
<1>10. CASE PopAsync
  <2>1. pc[Owner] = "pop" /\ pc'[Owner] = "acquire"
    BY <1>0, <1>10, ThreadNames DEF PopAsync, Enqueue
  <2>2. ~StorePending /\ ~LoadPending
    BY <1>7, <2>1 DEF Ending
  <2>4. ~Committing(Owner, "emplaceFront") /\ ~(Committing(Owner, "emplaceFront")')
    BY <2>1 DEF Committing
  <2> QED
    BY <1>0, <1>1, <1>3, <1>4, <1>6, <2>2, <2>4, DataKept
<1>11. CASE Pushed
  <2>1. /\ pc[Owner] = "finish" /\ pc'[Owner] = "idle" /\ UNCHANGED <<count, popped>>
        /\ task[Owner].op = "emplaceFront"
    BY <1>0, <1>11, ThreadNames DEF Pushed, Enqueue
  <2>2. ~popped
    BY <1>0, <2>1 DEF Phase, Popping
  <2>3. ~LoadPending
    BY <1>7, <2>2
  <2>4. ~Committing(Owner, "emplaceFront") /\ ~(Committing(Owner, "emplaceFront")')
    BY <2>1 DEF Committing
  <2> QED
    BY <1>0, <1>1, <1>3, <1>4, <1>6, <2>1, <2>3, <2>4, DataKept
<1>12. CASE PopWait
  <2>1. /\ pc[Owner] = "finish" /\ pc'[Owner] = "idle" /\ UNCHANGED <<count, popped>>
        /\ task[Owner].op = "popFront" /\ PopWaitReturns
    BY <1>0, <1>12, ThreadNames DEF PopWait, counters
  <2>2. popped
    BY <1>0, <2>1 DEF Phase, Pushing
  <2>3. count < MaxBuffers
    <3>1. count = task[Owner].id
      BY <1>0, <2>1 DEF ControlInv, Orders, After, Ups
    <3>2. task[Owner].id \in BufferIds
      BY <1>0, TaskTypes, ThreadNames
    <3> QED
      BY <3>1, <3>2, Constants DEF BufferIds
  <2>4. ~LoadPending /\ ~StorePending
    BY <1>7, <2>1, <2>2, <2>3, WaitsReturn
  <2>5. ~Committing(Owner, "emplaceFront") /\ ~(Committing(Owner, "emplaceFront")')
    BY <2>1 DEF Committing
  <2> QED
    BY <1>0, <1>1, <1>3, <1>4, <1>6, <2>4, <2>5, DataKept
<1>13. CASE Stop
  <2>1. /\ (pc[Owner] = "idle" /\ count = 0) \/ pc[Owner] \in {"stop", "join"}
        /\ pc'[Owner] \in {"stop", "join", "done"} /\ UNCHANGED <<count, popped>>
    BY <1>0, <1>13, ThreadNames DEF Stop, counters
  <2>2. ~LoadPending /\ ~StorePending
    BY <1>0, <1>7, <2>1 DEF StreamInv, Ending
  <2>3. ~Committing(Owner, "emplaceFront") /\ ~(Committing(Owner, "emplaceFront")')
    BY <2>1 DEF Committing
  <2> QED
    BY <1>0, <1>1, <1>3, <1>4, <1>6, <2>2, <2>3, DataKept
<1> QED
  BY <1>8, <1>9, <1>10, <1>11, <1>12, <1>13

LEMMA WorkerData ==
  ASSUME Inv, ~failed, NEW w \in Workers, TakeTask(w) \/ Finish(w)
  PROVE  DataInv' /\ MemoryTypes'
<1>0. /\ ControlTypes /\ DataInv /\ StreamInv /\ pc \in [Threads -> Places] /\ MemoryTypes
      /\ w \in Threads /\ w # Owner
  BY ThreadNames DEF Inv, ControlTypes, DataInv
<1>1. /\ UNCHANGED <<device, host, disk, stream, array, count, popped>>
      /\ pc[w] \in {"consume", "finish"} /\ pc'[w] \in {"consume", "acquire"}
  BY <1>0, ThreadNames DEF TakeTask, Finish, Enqueue, deques
<1>2. \A u \in Threads : u # w => pc'[u] = pc[u] \/ (pc[u] = "asleep" /\ pc'[u] = "consume")
  BY <1>0, ThreadNames DEF TakeTask, Finish, Enqueue
<1>3. \A u \in Threads : u # w => task'[u] = task[u]
  <2>1. CASE TakeTask(w)
    <3>1. Begin(w, Head(queue[w]).op, Head(queue[w]).id)
      BY <2>1 DEF TakeTask
    <3> QED
      BY <1>0, <3>1, BeginType
  <2>2. CASE Finish(w)
    BY <2>2 DEF Finish
  <2> QED
    BY <2>1, <2>2
<1>4. \A u \in Threads : \A op : Committing(u, op)' <=> Committing(u, op)
  BY <1>1, <1>2, <1>3 DEF Committing
<1>5. Level(1)' = Level(1)
  <2>1. CASE TakeTask(w)
    BY <2>1, TakeTaskStep
  <2>2. CASE Finish(w)
    <3>1. Unfinished(1)' <=> Unfinished(1)
      BY <1>0, <1>2, <2>2, ThreadNames DEF Finish, Enqueue, Unfinished, Begun
    <3>2. task' = task
      BY <2>2 DEF Finish
    <3> QED
      BY <3>1, <3>2, LevelStays
  <2> QED
    BY <2>1, <2>2
<1>6. task'[1] = task[1] \/ pc[1] # "commit"
  BY <1>1, <1>3, ThreadNames
<1>7. task'[0] = task[0] \/ ~FillPending
  <2>1. CASE w = 0
    BY <1>0, <1>1, <2>1 DEF StreamInv, Committing
  <2>2. CASE w # 0
    BY <1>3, <2>2, ThreadNames
  <2> QED
    BY <2>1, <2>2
<1>8. /\ StorePending => pc'[Owner] \in {"commit", "idle"} \cup Ending
      /\ LoadPending => pc'[Owner] \in {"commit"} \cup Ending
  <2>1. pc'[Owner] = pc[Owner] \/ pc[Owner] = "asleep"
    BY <1>0, <1>2, ThreadNames
  <2> QED
    BY <1>0, <2>1 DEF StreamInv, Ending
<1>9. /\ \A op : Committing(0, op)' <=> Committing(0, op)
      /\ \A op : Committing(1, op)' <=> Committing(1, op)
      /\ Committing(Owner, "emplaceFront")' <=> Committing(Owner, "emplaceFront")
  BY <1>4, ThreadNames
<1> QED
  BY <1>0, <1>1, <1>5, <1>6, <1>7, <1>8, <1>9, DataKept DEF MemoryTypes
-----------------------------------------------------------------------------
(* The device executes its copies.                                           *)

\* Where the index of a push or a pop is, for its count.
LEMMA OwnerIndex ==
  ASSUME Inv
  PROVE  /\ count \in Nat /\ device.begin \in Int /\ device.end \in Int
         /\ ~Unfinished(Owner) => device.begin = -count
         /\ Unfinished(Owner) /\ task[Owner].op = "emplaceFront" =>
               device.begin - 1 = -count /\ count = task[Owner].id + 1
         /\ Unfinished(Owner) /\ task[Owner].op = "popFront" =>
               device.begin = -(count + 1) /\ count = task[Owner].id
<1>1. /\ ControlTypes /\ MemoryTypes /\ Indices /\ Orders
  BY DEF Inv, ControlInv
<1>2. /\ count \in Nat /\ device.begin \in Int /\ device.end \in Int
      /\ device.begin = -Level(Owner) /\ Level(Owner) \in Nat /\ task[Owner].id \in Nat
      /\ count = After(task[Owner])
  BY <1>1, IndexFacts, MemoryFacts, ThreadNames DEF ControlTypes, Orders
<1>3. ~Unfinished(Owner) => device.begin = -count
  BY <1>2 DEF Level
<1>4. Unfinished(Owner) /\ task[Owner].op = "emplaceFront" =>
               device.begin - 1 = -count /\ count = task[Owner].id + 1
  <2> SUFFICES ASSUME Unfinished(Owner), task[Owner].op = "emplaceFront"
               PROVE  device.begin - 1 = -count /\ count = task[Owner].id + 1
    OBVIOUS
  <2>1. Level(Owner) = task[Owner].id /\ count = task[Owner].id + 1
    BY <1>1, <1>2, LevelFacts, ThreadNames
  <2> QED
    BY <1>2, <2>1
<1>5. Unfinished(Owner) /\ task[Owner].op = "popFront" =>
               device.begin = -(count + 1) /\ count = task[Owner].id
  <2> SUFFICES ASSUME Unfinished(Owner), task[Owner].op = "popFront"
               PROVE  device.begin = -(count + 1) /\ count = task[Owner].id
    OBVIOUS
  <2>1. Level(Owner) = task[Owner].id + 1 /\ count = task[Owner].id
    BY <1>1, <1>2, LevelFacts, ThreadNames
  <2> QED
    BY <1>2, <2>1
<1> QED
  BY <1>2, <1>3, <1>4, <1>5

\* The copies of the stream, one by one.
LEMMA StreamParts ==
  ASSUME StreamInv
  PROVE  /\ stream = << >> => ~StorePending /\ ~LoadPending /\ ~FillPending
         /\ StorePending => stream = << Store >> /\ ~LoadPending /\ ~FillPending
         /\ stream # << >> => Head(stream) \in {Store, Load, Fill}
         /\ stream # << >> /\ Head(stream).kind = "store" => StorePending
         /\ stream # << >> /\ Head(stream).kind = "load" =>
               /\ LoadPending /\ Head(stream) = Load
               /\ Tail(stream) = IF FillPending THEN << Fill >> ELSE << >>
         /\ stream # << >> /\ Head(stream).kind = "fill" =>
               /\ FillPending /\ Head(stream) = Fill /\ ~StorePending
               /\ Tail(stream) = IF LoadPending THEN << Load >> ELSE << >>
               /\ LoadPending => stream = << Fill, Load >>
<1> DEFINE s == Store
           l == Load
           f == Fill
<1>1. s.kind = "store" /\ l.kind = "load" /\ f.kind = "fill"
  BY DEF Store, Load, Fill
<1>2. /\ (StorePending <=> stream = << s >>)
      /\ (LoadPending <=> stream = << l >> \/ stream = << l, f >> \/ stream = << f, l >>)
      /\ (FillPending <=> stream = << f >> \/ stream = << l, f >> \/ stream = << f, l >>)
      /\ stream = << >> \/ StorePending \/ LoadPending \/ FillPending
  BY DEF StreamInv, StorePending, LoadPending, FillPending
<1> HIDE DEF s, l, f
<1>3. /\ << >> # << s >> /\ << >> # << l >> /\ << >> # << f >>
      /\ << >> # << l, f >> /\ << >> # << f, l >>
      /\ << s >> # << l >> /\ << s >> # << f >> /\ << l >> # << f >>
      /\ << s >> # << l, f >> /\ << s >> # << f, l >>
      /\ << l >> # << l, f >> /\ << l >> # << f, l >>
      /\ << f >> # << l, f >> /\ << f >> # << f, l >> /\ << l, f >> # << f, l >>
  BY <1>1, KindsDiffer
<1>4. /\ Head(<< s >>) = s /\ Head(<< l >>) = l /\ Head(<< f >>) = f
      /\ Head(<< l, f >>) = l /\ Head(<< f, l >>) = f
  OBVIOUS
<1>5. /\ Tail(<< s >>) = << >> /\ Tail(<< l >>) = << >> /\ Tail(<< f >>) = << >>
      /\ Tail(<< l, f >>) = << f >> /\ Tail(<< f, l >>) = << l >>
  OBVIOUS
<1>6. stream = << >> \/ stream = << s >> \/ stream = << l >> \/ stream = << f >>
      \/ stream = << l, f >> \/ stream = << f, l >>
  BY <1>2
<1>7. /\ stream = << >> => ~StorePending /\ ~LoadPending /\ ~FillPending
      /\ StorePending => stream = << s >> /\ ~LoadPending /\ ~FillPending
      /\ stream # << >> => Head(stream) \in {s, l, f}
      /\ stream # << >> /\ Head(stream).kind = "store" => StorePending
      /\ stream # << >> /\ Head(stream).kind = "load" =>
            /\ LoadPending /\ Head(stream) = l
            /\ Tail(stream) = IF FillPending THEN << f >> ELSE << >>
      /\ stream # << >> /\ Head(stream).kind = "fill" =>
            /\ FillPending /\ Head(stream) = f /\ ~StorePending
            /\ Tail(stream) = IF LoadPending THEN << l >> ELSE << >>
            /\ LoadPending => stream = << f, l >>
  <2>1. CASE stream = << >>
    BY <1>2, <1>3, <2>1
  <2>2. CASE stream = << s >>
    BY <1>1, <1>2, <1>3, <1>4, <1>5, <2>2
  <2>3. CASE stream = << l >>
    BY <1>1, <1>2, <1>3, <1>4, <1>5, <2>3
  <2>4. CASE stream = << f >>
    BY <1>1, <1>2, <1>3, <1>4, <1>5, <2>4
  <2>5. CASE stream = << l, f >>
    BY <1>1, <1>2, <1>3, <1>4, <1>5, <2>5
  <2>6. CASE stream = << f, l >>
    BY <1>1, <1>2, <1>3, <1>4, <1>5, <2>6
  <2> QED
    BY <1>6, <2>1, <2>2, <2>3, <2>4, <2>5, <2>6
<1> QED
  BY <1>7 DEF s, l, f

\* What is pending when the stream is empty, or holds one copy.
LEMMA StreamIs ==
  /\ stream = << >> => ~StorePending /\ ~LoadPending /\ ~FillPending
  /\ stream = << Store >> => StorePending /\ ~LoadPending /\ ~FillPending
  /\ stream = << Load >> => LoadPending /\ ~StorePending /\ ~FillPending /\ stream # << Fill, Load >>
  /\ stream = << Fill >> => FillPending /\ ~StorePending /\ ~LoadPending
  /\ stream = << Load, Fill >> => LoadPending /\ ~StorePending /\ FillPending /\ stream # << Fill, Load >>
  /\ stream = << Fill, Load >> => LoadPending /\ ~StorePending /\ FillPending
<1> DEFINE s == Store
           l == Load
           f == Fill
<1>1. s.kind = "store" /\ l.kind = "load" /\ f.kind = "fill"
  BY DEF Store, Load, Fill
<1>2. /\ (StorePending <=> stream = << s >>)
      /\ (LoadPending <=> stream = << l >> \/ stream = << l, f >> \/ stream = << f, l >>)
      /\ (FillPending <=> stream = << f >> \/ stream = << l, f >> \/ stream = << f, l >>)
  BY DEF StorePending, LoadPending, FillPending
<1> HIDE DEF s, l, f
<1>3. /\ << >> # << s >> /\ << >> # << l >> /\ << >> # << f >>
      /\ << >> # << l, f >> /\ << >> # << f, l >>
      /\ << s >> # << l >> /\ << s >> # << f >> /\ << l >> # << f >>
      /\ << s >> # << l, f >> /\ << s >> # << f, l >>
      /\ << l >> # << l, f >> /\ << l >> # << f, l >>
      /\ << f >> # << l, f >> /\ << f >> # << f, l >> /\ << l, f >> # << f, l >>
  BY <1>1, KindsDiffer
<1>4. /\ stream = << >> => ~StorePending /\ ~LoadPending /\ ~FillPending
      /\ stream = << s >> => StorePending /\ ~LoadPending /\ ~FillPending
      /\ stream = << l >> => LoadPending /\ ~StorePending /\ ~FillPending /\ stream # << f, l >>
      /\ stream = << f >> => FillPending /\ ~StorePending /\ ~LoadPending
      /\ stream = << l, f >> => LoadPending /\ ~StorePending /\ FillPending /\ stream # << f, l >>
      /\ stream = << f, l >> => LoadPending /\ ~StorePending /\ FillPending
  BY <1>2, <1>3
<1> QED
  BY <1>4 DEF s, l, f
-----------------------------------------------------------------------------
(* What is pending after a step, for the stream it leaves.                   *)

LEMMA StreamBecomes ==
  /\ stream' = << >> => ~StorePending' /\ ~LoadPending' /\ ~FillPending'
  /\ stream' = << Store' >> => StorePending' /\ ~LoadPending' /\ ~FillPending'
  /\ stream' = << Load' >> =>
        LoadPending' /\ ~StorePending' /\ ~FillPending' /\ stream' # << Fill', Load' >>
  /\ stream' = << Fill' >> => FillPending' /\ ~StorePending' /\ ~LoadPending'
  /\ stream' = << Load', Fill' >> =>
        LoadPending' /\ ~StorePending' /\ FillPending' /\ stream' # << Fill', Load' >>
  /\ stream' = << Fill', Load' >> => LoadPending' /\ ~StorePending' /\ FillPending'
<1> DEFINE s == Store'
           l == Load'
           f == Fill'
<1>1. s.kind = "store" /\ l.kind = "load" /\ f.kind = "fill"
  BY DEF Store, Load, Fill
<1>2. /\ (StorePending' <=> stream' = << s >>)
      /\ (LoadPending' <=> stream' = << l >> \/ stream' = << l, f >> \/ stream' = << f, l >>)
      /\ (FillPending' <=> stream' = << f >> \/ stream' = << l, f >> \/ stream' = << f, l >>)
  BY DEF StorePending, LoadPending, FillPending
<1> HIDE DEF s, l, f
<1>3. /\ << >> # << s >> /\ << >> # << l >> /\ << >> # << f >>
      /\ << >> # << l, f >> /\ << >> # << f, l >>
      /\ << s >> # << l >> /\ << s >> # << f >> /\ << l >> # << f >>
      /\ << s >> # << l, f >> /\ << s >> # << f, l >>
      /\ << l >> # << l, f >> /\ << l >> # << f, l >>
      /\ << f >> # << l, f >> /\ << f >> # << f, l >> /\ << l, f >> # << f, l >>
  BY <1>1, KindsDiffer
<1>4. /\ stream' = << >> => ~StorePending' /\ ~LoadPending' /\ ~FillPending'
      /\ stream' = << s >> => StorePending' /\ ~LoadPending' /\ ~FillPending'
      /\ stream' = << l >> => LoadPending' /\ ~StorePending' /\ ~FillPending' /\ stream' # << f, l >>
      /\ stream' = << f >> => FillPending' /\ ~StorePending' /\ ~LoadPending'
      /\ stream' = << l, f >> => LoadPending' /\ ~StorePending' /\ FillPending' /\ stream' # << f, l >>
      /\ stream' = << f, l >> => LoadPending' /\ ~StorePending' /\ FillPending'
  BY <1>2, <1>3
<1> QED
  BY <1>4 DEF s, l, f

\* The buffer worker 0 brings back: the front of the host queue, to be the back
\* of the device queue.
LEMMA FillFacts ==
  ASSUME Inv, Committing(0, "hostToDevice")
  PROVE  /\ device.end = -(task[0].id + 1) /\ host.begin = -(task[0].id + 1)
         /\ host.begin <= host.end /\ task[0].id \in Nat
         /\ Host!FrontEntry(host) = task[0].id + 1
         /\ ~Committing(Owner, "emplaceFront")
<1>1. /\ ControlTypes /\ MemoryTypes /\ Indices /\ Sizes /\ HostHolds /\ Holds
      /\ pc[0] = "commit" /\ task[0].op = "hostToDevice"
  BY DEF Inv, ControlInv, DataInv, Committing
<1>2. device.end = -1 - task[0].id /\ host.begin = -(task[0].id + 1) /\ task[0].id \in Nat
  BY <1>1, IndexFacts, ThreadNames
<1>3. ~Host!Empty(host)
  BY <1>1, ThreadNames DEF Sizes, CommitSafe
<1>4. host.begin \in Int /\ host.end \in Int
  BY <1>1, MemoryFacts
<1>5. host.begin <= host.end
  BY <1>3, <1>4 DEF Host!Empty
<1>6. host.begin \in host.begin .. host.end + 1 /\ host.begin \in host.begin .. host.end
  BY <1>4, <1>5
<1>7. OnHostAt(host.begin)
  BY <1>1, <1>6 DEF OnHostAt, Committing
<1>8. host.slot[Host!SlotOf(host.begin)] = -host.begin
  BY <1>1, <1>6, <1>7 DEF HostHolds
<1>9. Host!FrontEntry(host) = -host.begin
  BY <1>8 DEF Host!FrontEntry, Host!FrontSlot
<1>10. ~Committing(Owner, "emplaceFront")
  BY <1>1, Excluded DEF Committing, Inside
<1>11. -1 - task[0].id = -(task[0].id + 1) /\ -(-(task[0].id + 1)) = task[0].id + 1
  BY <1>2
<1> QED
  BY <1>2, <1>5, <1>9, <1>10, <1>11

\* A copy that the device executes writes the slot it names, or reads it.
LEMMA CopyEffect ==
  ASSUME Inv, DeviceCopies
  PROVE  /\ stream # << >> /\ stream' = Tail(stream)
         /\ UNCHANGED <<host, disk, task, pc, count, popped>>
         /\ Head(stream).kind = "load" => device' = device /\ array' = device.slot[Head(stream).slot]
         /\ Head(stream).kind = "store" =>
               array' = array /\ device' = Device!Write(device, Head(stream).slot, array)
         /\ Head(stream).kind = "fill" =>
               /\ array' = array
               /\ device' = Device!Write(device, Head(stream).slot, Host!FrontEntry(host))
BY DEF DeviceCopies, counters

\* d is the device queue with v written at index i, and nothing else changed within a capacity of i.
DeviceWritten(d, i, v) ==
  /\ d.begin = device.begin /\ d.end = device.end /\ d \in DeviceType
  /\ d.slot[Device!SlotOf(i)] = v
  /\ \A j \in Int : i # j /\ -DeviceCapacity < i - j /\ i - j < DeviceCapacity
        => d.slot[Device!SlotOf(j)] = device.slot[Device!SlotOf(j)]

\* A write to the slot of an index of the device queue.
LEMMA DeviceWriteEffect ==
  ASSUME MemoryTypes, NEW i \in Int, NEW v \in Int,
         NEW d, d = Device!Write(device, Device!SlotOf(i), v)
  PROVE  DeviceWritten(d, i, v)
<1>1. /\ device.begin \in Int /\ device.end \in Int /\ device.slot \in [Device!Slots -> Int]
  BY MemoryFacts
<1>2. /\ Device!SlotOf(i) \in Device!Slots
      /\ \A j \in Int : Device!SlotOf(j) \in Device!Slots
      /\ \A j \in Int : i # j /\ -DeviceCapacity < i - j /\ i - j < DeviceCapacity
               => Device!SlotOf(i) # Device!SlotOf(j)
  BY DeviceSlots
<1> DEFINE s == Device!SlotOf(i)
<1> HIDE DEF s
<1>3. d = [begin |-> device.begin, end |-> device.end, slot |-> [device.slot EXCEPT ![s] = v]]
  BY <1>2, DeviceParts DEF s
<1>4. [device.slot EXCEPT ![s] = v] \in [Device!Slots -> Int]
  BY <1>1
<1>5. d \in DeviceType
  BY <1>1, <1>3, <1>4 DEF DeviceType
<1>6. d.slot = [device.slot EXCEPT ![s] = v]
  BY <1>3
<1>7. /\ d.slot[s] = v
      /\ \A r \in Device!Slots : r # s => d.slot[r] = device.slot[r]
  BY <1>1, <1>2, <1>6 DEF s
<1>8. d.slot[Device!SlotOf(i)] = v
  BY <1>7 DEF s
<1>9. \A j \in Int : i # j /\ -DeviceCapacity < i - j /\ i - j < DeviceCapacity
        => d.slot[Device!SlotOf(j)] = device.slot[Device!SlotOf(j)]
  BY <1>2, <1>7 DEF s
<1> QED
  BY <1>3, <1>5, <1>8, <1>9 DEF DeviceWritten

LEMMA StoreExecuted ==
  ASSUME Inv, DeviceCopies, Head(stream).kind = "store"
  PROVE  DataInv' /\ MemoryTypes'
<1>1. /\ ControlTypes /\ MemoryTypes /\ Phase /\ Sizes /\ Holds
      /\ StreamInv /\ DeviceHolds /\ HostHolds /\ DiskHolds
  BY DEF Inv, ControlInv, DataInv
<1>2. /\ stream # << >> /\ stream' = Tail(stream)
      /\ UNCHANGED <<host, disk, task, pc, count, popped>>
      /\ array' = array /\ device' = Device!Write(device, Head(stream).slot, array)
  BY CopyEffect
<1>3. StorePending /\ stream = << Store >> /\ ~LoadPending /\ ~FillPending
  BY <1>1, <1>2, StreamParts
<1>4. ~popped /\ count > 0 /\ pc[Owner] \in {"commit", "idle"} \cup Ending
  BY <1>1, <1>3 DEF StreamInv
<1>5. Pushing
  BY <1>1, <1>4 DEF Phase
<1>6. array = count /\ task[Owner].op # "popFront"
  BY <1>4, <1>5 DEF Pushing, Ending
<1>7. count \in Nat /\ device.begin \in Int /\ device.end \in Int /\ -count \in Int /\ count \in Int
  <2>1. count \in Nat /\ device.begin \in Int /\ device.end \in Int
    BY OwnerIndex
  <2> QED
    BY <2>1
<1>8. device' = Device!Write(device, Device!SlotOf(-count), count)
  BY <1>2, <1>3, <1>6 DEF Store
<1> DEFINE m == -count
<1>9. m \in Int
  BY <1>7
<1>10. /\ device'.begin = device.begin /\ device'.end = device.end /\ device' \in DeviceType
       /\ device'.slot[Device!SlotOf(m)] = count
       /\ \A j \in Int : m # j /\ -DeviceCapacity < m - j /\ m - j < DeviceCapacity
             => device'.slot[Device!SlotOf(j)] = device.slot[Device!SlotOf(j)]
  <2> DEFINE d == device'
  <2>1. d = Device!Write(device, Device!SlotOf(m), count)
    BY <1>8
  <2> HIDE DEF m, d
  <2>2. MemoryTypes /\ m \in Int /\ count \in Int
    BY <1>1, <1>7, <1>9
  <2>3. DeviceWritten(d, m, count)
    BY ONLY <2>1, <2>2, DeviceWriteEffect
  <2> QED
    BY <2>3 DEF d, DeviceWritten
<1>11. MemoryTypes'
  BY <1>1, <1>2, <1>10 DEF MemoryTypes
<1>12. stream' = << >> /\ ~StorePending' /\ ~LoadPending' /\ ~FillPending'
  <2>1. stream' = << >>
    BY <1>2, <1>3
  <2> QED
    BY <2>1, StreamBecomes
<1>13. \/ Unfinished(Owner) /\ m = device.begin - 1 /\ device.end - device.begin + 1 < DeviceCapacity
       \/ /\ ~Unfinished(Owner) /\ m = device.begin /\ device.end - device.begin + 1 <= DeviceCapacity
          /\ ~Committing(Owner, "emplaceFront")
  <2>1. CASE Unfinished(Owner)
    <3>1. task[Owner].op = "emplaceFront" /\ pc[Owner] = "commit"
      <4>1. Busy(Owner)
        BY <2>1 DEF Busy
      <4>2. task[Owner].op \in OwnerOps
        BY <1>1, <4>1, TaskTypes
      <4> QED
        BY <1>4, <1>6, <2>1, <4>2 DEF OwnerOps, Unfinished, Begun, Ending
    <3>2. m = device.begin - 1
      BY <2>1, <3>1, OwnerIndex
    <3>3. ~Device!Full(device)
      BY <1>1, <3>1, ThreadNames DEF Sizes, CommitSafe
    <3>4. device.end - device.begin + 1 <= DeviceCapacity /\ device.end - device.begin + 1 # DeviceCapacity
      BY <1>1, <3>3, SizeFacts
    <3>5. \A a, b \in Int : \A c \in Nat : a - b + 1 <= c /\ a - b + 1 # c => a - b + 1 < c
      OBVIOUS
    <3> QED
      BY <1>7, <2>1, <3>2, <3>4, <3>5, Constants
  <2>2. CASE ~Unfinished(Owner)
    BY <1>1, <2>2, OwnerIndex, SizeFacts DEF Committing, Unfinished
  <2> QED
    BY <2>1, <2>2
<1>14. DeviceHolds'
  <2> SUFFICES ASSUME NEW i \in (device.begin - 1) .. device.end, OnDeviceAt(i)'
               PROVE  device'.slot[Device!SlotOf(i)] = -i
    BY <1>10 DEF DeviceHolds
  <2>1. OnDeviceAt(i) /\ i \in Int
    BY <1>2, <1>7, <1>10 DEF OnDeviceAt, Committing
  <2>2. device.slot[Device!SlotOf(i)] = -i \/ i = m
    BY <1>1, <1>3, <2>1 DEF DeviceHolds
  <2>3. CASE i = m
    <3>1. -m = count
      BY <1>7
    <3> QED
      BY <1>10, <2>3, <3>1
  <2>4. CASE i # m
    <3>1. device.begin - 1 <= i /\ i <= device.end
      BY <1>7
    <3>2. ~Unfinished(Owner) => device.begin <= i
      BY <1>7, <1>13, <2>1 DEF OnDeviceAt
    <3>3. -DeviceCapacity < m - i /\ m - i < DeviceCapacity
      <4>1. \A a, b, c, d \in Int : \A e \in Nat :
               /\ e > 0 /\ a - 1 <= d /\ d <= b
               /\ \/ c = a - 1 /\ b - a + 1 < e
                  \/ c = a /\ b - a + 1 <= e /\ a <= d
               => -e < c - d /\ c - d < e
        OBVIOUS
      <4> HIDE DEF m
      <4> QED
        BY <1>7, <1>9, <1>13, <2>1, <3>1, <3>2, <4>1, Constants
    <3> HIDE DEF m
    <3> QED
      BY <1>10, <2>1, <2>2, <2>4, <3>3
  <2> QED
    BY <2>3, <2>4
<1>15. StreamInv'
  BY <1>12 DEF StreamInv
<1>16. HostHolds' /\ DiskHolds'
  BY <1>1, <1>2 DEF HostHolds, DiskHolds, OnHostAt, Committing, FilesBelow, Level, Unfinished, Before, After
<1> QED
  BY <1>11, <1>14, <1>15, <1>16 DEF DataInv

LEMMA LoadExecuted ==
  ASSUME Inv, DeviceCopies, Head(stream).kind = "load"
  PROVE  DataInv' /\ MemoryTypes'
<1>1. /\ ControlTypes /\ MemoryTypes
      /\ StreamInv /\ DeviceHolds /\ HostHolds /\ DiskHolds
  BY DEF Inv, DataInv
<1>2. /\ stream # << >> /\ stream' = Tail(stream)
      /\ UNCHANGED <<host, disk, task, pc, count, popped>>
      /\ device' = device /\ array' = device.slot[Head(stream).slot]
  BY CopyEffect
<1>3. /\ LoadPending /\ Head(stream) = Load /\ ~StorePending
      /\ stream' = IF FillPending THEN << Fill >> ELSE << >>
  BY <1>1, <1>2, StreamParts
<1>4. MemoryTypes'
  <2>1. count \in Nat /\ device.slot \in [Device!Slots -> Int]
    BY <1>1, MemoryFacts, OwnerIndex
  <2>2. Device!SlotOf(-(count + 1)) \in Device!Slots
    <3>1. -(count + 1) \in Int
      BY <2>1
    <3> QED
      BY <3>1, DeviceSlots
  <2>3. Head(stream).slot = Device!SlotOf(-(count + 1))
    BY <1>3 DEF Load
  <2>4. array' \in Int
    BY <1>2, <2>1, <2>2, <2>3
  <2> QED
    BY <1>1, <1>2, <2>4 DEF MemoryTypes
<1>5. Fill' = Fill
  BY <1>2 DEF Fill
<1>6. ~StorePending' /\ ~LoadPending' /\ (FillPending' <=> FillPending)
  BY <1>3, <1>5, StreamBecomes
<1>7. StreamInv'
  <2>1. FillPending' => Committing(0, "hostToDevice")'
    BY <1>1, <1>2, <1>6 DEF StreamInv, Committing
  <2>2. stream' = << >> \/ FillPending'
    BY <1>3, <1>6
  <2> QED
    BY <1>6, <2>1, <2>2 DEF StreamInv
<1>8. DeviceHolds'
  BY <1>1, <1>2, <1>3, <1>6 DEF DeviceHolds, OnDeviceAt, Committing
<1>9. HostHolds' /\ DiskHolds'
  BY <1>1, <1>2 DEF HostHolds, DiskHolds, OnHostAt, Committing, FilesBelow, Level, Unfinished, Before, After
<1> QED
  BY <1>4, <1>7, <1>8, <1>9 DEF DataInv

LEMMA FillExecuted ==
  ASSUME Inv, DeviceCopies, Head(stream).kind = "fill"
  PROVE  DataInv' /\ MemoryTypes'
<1>1. /\ ControlTypes /\ MemoryTypes /\ Sizes
      /\ StreamInv /\ DeviceHolds /\ HostHolds /\ DiskHolds
  BY DEF Inv, DataInv
<1>2. /\ stream # << >> /\ stream' = Tail(stream)
      /\ UNCHANGED <<host, disk, task, pc, count, popped>>
      /\ array' = array
      /\ device' = Device!Write(device, Head(stream).slot, Host!FrontEntry(host))
  BY CopyEffect
<1>3. /\ FillPending /\ Head(stream) = Fill /\ ~StorePending
      /\ stream' = IF LoadPending THEN << Load >> ELSE << >>
      /\ LoadPending => stream = << Fill, Load >>
  BY <1>1, <1>2, StreamParts
<1>4. Committing(0, "hostToDevice")
  BY <1>1, <1>3 DEF StreamInv
<1> DEFINE id == task[0].id
           m == -(id + 1)
<1>5. /\ device.end = m /\ id \in Nat /\ Host!FrontEntry(host) = id + 1
      /\ ~Committing(Owner, "emplaceFront")
  BY <1>4, FillFacts
<1>6. /\ count \in Nat /\ device.begin \in Int /\ device.end \in Int
      /\ device.end - device.begin + 1 <= DeviceCapacity
  BY <1>1, OwnerIndex, SizeFacts
<1>7. m \in Int /\ id + 1 \in Int
  BY <1>5
<1>8. device' = Device!Write(device, Device!SlotOf(m), id + 1)
  BY <1>2, <1>3, <1>5 DEF Fill
<1>9. /\ device'.begin = device.begin /\ device'.end = device.end /\ device' \in DeviceType
      /\ device'.slot[Device!SlotOf(m)] = id + 1
      /\ \A j \in Int : m # j /\ -DeviceCapacity < m - j /\ m - j < DeviceCapacity
             => device'.slot[Device!SlotOf(j)] = device.slot[Device!SlotOf(j)]
  <2> DEFINE v == id + 1
             d == device'
  <2>1. d = Device!Write(device, Device!SlotOf(m), v) /\ v \in Int
    BY <1>7, <1>8
  <2> HIDE DEF m, v, d
  <2>2. MemoryTypes /\ m \in Int
    BY <1>1, <1>7
  <2>3. DeviceWritten(d, m, v)
    BY ONLY <2>1, <2>2, DeviceWriteEffect
  <2> QED
    BY <2>3 DEF v, d, DeviceWritten
<1>10. MemoryTypes'
  BY <1>1, <1>2, <1>9 DEF MemoryTypes
<1>11. Load' = Load
  BY <1>2 DEF Load
<1>12. /\ ~StorePending' /\ ~FillPending' /\ (LoadPending' <=> LoadPending)
       /\ stream' # << Fill', Load' >>
  <2>1. CASE LoadPending
    BY <1>3, <1>11, <2>1, StreamBecomes
  <2>2. CASE ~LoadPending
    <3>1. << >> # << Fill', Load' >>
      <4> DEFINE f == Fill'
                 l == Load'
      <4> HIDE DEF f, l
      <4>1. Len(<< f, l >>) = 2 /\ Len(<< >>) = 0
        OBVIOUS
      <4>2. << >> # << f, l >>
        BY <4>1
      <4> QED
        BY <4>2 DEF f, l
    <3> QED
      BY <1>3, <2>2, <3>1, StreamBecomes
  <2> QED
    BY <2>1, <2>2
<1>13. LoadPending => device'.slot[Device!SlotOf(-(count + 1))] = count + 1
  <2> SUFFICES ASSUME LoadPending PROVE device'.slot[Device!SlotOf(-(count + 1))] = count + 1
    OBVIOUS
  <2>1. id <= count /\ count - id < DeviceCapacity
    BY <1>1, <1>3 DEF StreamInv
  <2>2. CASE id = count
    BY <1>9, <2>2
  <2>3. CASE id # count
    <3> DEFINE j == -(count + 1)
    <3>1. device.slot[Device!SlotOf(j)] = count + 1
      BY <1>1, <1>3, <2>3 DEF StreamInv
    <3>2. j \in Int /\ m # j /\ -DeviceCapacity < m - j /\ m - j < DeviceCapacity
      <4>1. \A a, b, c \in Nat : a <= b /\ b - a < c /\ a # b =>
               /\ -(b + 1) \in Int /\ -(a + 1) # -(b + 1)
               /\ -c < -(a + 1) - (-(b + 1)) /\ -(a + 1) - (-(b + 1)) < c
        OBVIOUS
      <4> QED
        BY <1>5, <1>6, <2>1, <2>3, <4>1, Constants
    <3> HIDE DEF j, m
    <3>3. device'.slot[Device!SlotOf(j)] = count + 1
      BY <1>9, <3>1, <3>2
    <3> QED
      BY <3>3 DEF j
  <2> QED
    BY <2>2, <2>3
<1>14. StreamInv'
  <2>1. LoadPending => popped /\ pc[Owner] \in {"commit"} \cup Ending
    BY <1>1 DEF StreamInv
  <2>2. stream' = << >> \/ LoadPending'
    BY <1>3, <1>12
  <2> QED
    BY <1>2, <1>12, <1>13, <2>1, <2>2 DEF StreamInv
<1>15. DeviceHolds'
  <2> SUFFICES ASSUME NEW i \in (device.begin - 1) .. device.end, OnDeviceAt(i)'
               PROVE  device'.slot[Device!SlotOf(i)] = -i
    BY <1>9 DEF DeviceHolds
  <2>1. OnDeviceAt(i) /\ i \in Int
    BY <1>2, <1>6, <1>9 DEF OnDeviceAt, Committing
  <2>2. device.begin <= i /\ i <= device.end
    BY <1>5, <1>6, <2>1 DEF OnDeviceAt
  <2>3. CASE i = m
    <3>1. -m = id + 1
      BY <1>5
    <3> QED
      BY <1>9, <2>3, <3>1
  <2>4. CASE i # m
    <3>1. device.slot[Device!SlotOf(i)] = -i
      BY <1>1, <1>3, <1>5, <2>1, <2>4 DEF DeviceHolds
    <3> HIDE DEF m
    <3>2. -DeviceCapacity < m - i /\ m - i < DeviceCapacity
      <4>1. \A a, b, d \in Int : \A e \in Nat :
               e > 0 /\ a <= d /\ d <= b /\ b - a + 1 <= e => -e < b - d /\ b - d < e
        OBVIOUS
      <4> QED
        BY <1>5, <1>6, <2>1, <2>2, <4>1, Constants
    <3> QED
      BY <1>7, <1>9, <2>1, <2>4, <3>1, <3>2
  <2> QED
    BY <2>3, <2>4
<1>16. HostHolds' /\ DiskHolds'
  BY <1>1, <1>2 DEF HostHolds, DiskHolds, OnHostAt, Committing, FilesBelow, Level, Unfinished, Before, After
<1> QED
  BY <1>10, <1>14, <1>15, <1>16 DEF DataInv

LEMMA CopyData ==
  ASSUME Inv, DeviceCopies
  PROVE  DataInv' /\ MemoryTypes'
<1>1. stream # << >> /\ StreamInv
  BY CopyEffect DEF Inv, DataInv
<1>2. Head(stream) \in {Store, Load, Fill}
  BY <1>1, StreamParts
<1>3. Head(stream).kind \in {"store", "load", "fill"}
  BY <1>2 DEF Store, Load, Fill
<1> QED
  BY <1>3, StoreExecuted, LoadExecuted, FillExecuted
-----------------------------------------------------------------------------
(* What the two effects of an operation do to the memories.                  *)

\* One thread moves on.
LEMMA StepFrame ==
  ASSUME NEW t \in Threads, NEW p, pc \in [Threads -> Places], pc' = [pc EXCEPT ![t] = p], task' = task
  PROVE  /\ pc'[t] = p
         /\ \A u \in Threads : u # t =>
               /\ pc'[u] = pc[u]
               /\ \A op : Committing(u, op)' <=> Committing(u, op)
               /\ Level(u)' = Level(u)
<1>1. pc'[t] = p /\ \A u \in Threads : u # t => pc'[u] = pc[u]
  OBVIOUS
<1>2. ASSUME NEW u \in Threads, u # t
      PROVE  /\ \A op : Committing(u, op)' <=> Committing(u, op)
             /\ Level(u)' = Level(u)
  <2>1. pc'[u] = pc[u]
    BY <1>1, <1>2
  <2>2. Level(u)' = Level(u)
    BY <2>1, LevelStays DEF Unfinished
  <2> QED
    BY <2>1, <2>2 DEF Committing
<1> QED
  BY <1>1, <1>2

\* The stream and its copies, for a step that changes neither.
LEMMA StreamKept ==
  ASSUME StreamInv, UNCHANGED <<stream, task, count, popped>>, device'.slot = device.slot,
         FillPending => Committing(0, "hostToDevice")',
         pc'[Owner] = pc[Owner] \/ (pc[Owner] = "commit" /\ pc'[Owner] = "notify")
  PROVE  /\ StreamInv' /\ (StorePending' <=> StorePending) /\ (LoadPending' <=> LoadPending)
         /\ (FillPending' <=> FillPending)
<1>1. Store' = Store /\ Load' = Load /\ Fill' = Fill
  BY DEF Store, Load, Fill
<1>2. /\ (StorePending' <=> StorePending) /\ (LoadPending' <=> LoadPending)
      /\ (FillPending' <=> FillPending)
  BY <1>1 DEF StorePending, LoadPending, FillPending
<1>3. /\ pc[Owner] \in {"commit", "idle"} \cup Ending => pc'[Owner] \in {"commit", "idle"} \cup Ending
      /\ pc[Owner] \in {"commit"} \cup Ending => pc'[Owner] \in {"commit"} \cup Ending
  BY DEF Ending
<1>4. StorePending' => ~popped' /\ count' > 0 /\ pc'[Owner] \in {"commit", "idle"} \cup Ending
  BY <1>2, <1>3 DEF StreamInv
<1>5. ASSUME LoadPending'
      PROVE  /\ popped' /\ pc'[Owner] \in {"commit"} \cup Ending
             /\ stream' = << Fill, Load >>' =>
                   task'[0].id <= count' /\ count' - task'[0].id < DeviceCapacity
             /\ ~(stream' = << Fill, Load >>' /\ task'[0].id = count') =>
                   device'.slot[Device!SlotOf(-(count' + 1))] = count' + 1
  BY <1>1, <1>2, <1>3, <1>5 DEF StreamInv
<1>6. stream' = << >> \/ StorePending' \/ LoadPending' \/ FillPending'
  BY <1>2 DEF StreamInv
<1> QED
  BY <1>2, <1>4, <1>5, <1>6 DEF StreamInv

\* What no thread but t can see of the step of t in the host queue and on disk.
LEMMA HostKept ==
  ASSUME HostHolds, host' = host,
         Committing(0, "deviceToHost")' <=> Committing(0, "deviceToHost"),
         Committing(1, "diskToHost")' <=> Committing(1, "diskToHost")
  PROVE  HostHolds'
BY DEF HostHolds, OnHostAt

LEMMA DiskKept ==
  ASSUME DiskHolds, disk' = disk, task' = task, Level(1)' = Level(1),
         \A op : Committing(1, op)' <=> Committing(1, op)
  PROVE  DiskHolds'
BY DEF DiskHolds, FilesBelow

\* What a stream of at most one copy becomes.
LEMMA AppendCopies ==
  /\ \A c : Append(<< >>, c) = << c >>
  /\ \A c, f : Append(<< f >>, c) = << f, c >>
<1>1. \A c : Append(<< >>, c) = << c >>
  OBVIOUS
<1>2. ASSUME NEW c, NEW f PROVE Append(<< f >>, c) = << f, c >>
  <2> DEFINE S == {c, f}
             p == Append(<< f >>, c)
             q == << f, c >>
  <2>1. << f >> \in Seq(S) /\ c \in S /\ q \in Seq(S) /\ Len(q) = 2 /\ q[1] = f /\ q[2] = c
    OBVIOUS
  <2>2. /\ p \in Seq(S) /\ Len(p) = Len(<< f >>) + 1 /\ p[1] = << f >>[1] /\ p[Len(<< f >>) + 1] = c
    <3> HIDE DEF S
    <3>1. Len(<< f >>) = 1 /\ 1 \in 1 .. Len(<< f >>)
      OBVIOUS
    <3> QED
      BY <2>1, <3>1, AppendProperties
  <2>3. Len(<< f >>) = 1 /\ << f >>[1] = f
    OBVIOUS
  <2> HIDE DEF p, q, S
  <2>4. Len(p) = 2 /\ p[1] = f /\ p[2] = c
    BY <2>2, <2>3
  <2>5. \A i \in 1 .. 2 : p[i] = q[i]
    <3>1. \A i \in 1 .. 2 : i = 1 \/ i = 2
      OBVIOUS
    <3> QED
      BY <2>1, <2>4, <3>1
  <2>6. p = q
    BY <2>1, <2>2, <2>4, <2>5, SeqEqual
  <2> QED
    BY <2>6 DEF p, q
<1> QED
  BY <1>1, <1>2

LEMMA TransferStore ==
  ASSUME Inv, Transfer(Owner), task[Owner].op = "emplaceFront",
         stream' = Append(stream, [kind |-> "store", id |-> task[Owner].id,
                                   slot |-> Device!NextFrontSlot(device)]),
         UNCHANGED <<device, host, disk>>
  PROVE  DataInv' /\ MemoryTypes'
<1>1. /\ ControlTypes /\ MemoryTypes /\ Holds /\ Phase /\ pc \in [Threads -> Places]
      /\ StreamInv /\ DeviceHolds /\ HostHolds /\ DiskHolds
  BY DEF Inv, ControlTypes, ControlInv, DataInv
<1>2. /\ pc[Owner] = "transfer" /\ pc' = [pc EXCEPT ![Owner] = "commit"]
      /\ UNCHANGED <<task, array, count, popped>> /\ Unfinished(Owner)
  BY TransferEffect, ThreadNames DEF counters
<1>3. /\ pc'[Owner] = "commit"
      /\ \A op : Committing(0, op)' <=> Committing(0, op)
      /\ \A op : Committing(1, op)' <=> Committing(1, op)
      /\ Level(1)' = Level(1)
  BY <1>1, <1>2, StepFrame, ThreadNames
<1>4. stream = << >>
  <2>1. ~StorePending /\ ~LoadPending
    BY <1>1, <1>2 DEF StreamInv, Ending
  <2>2. ~FillPending
    BY <1>1, <1>2, Excluded DEF StreamInv, Committing, Inside
  <2> QED
    BY <1>1, <2>1, <2>2 DEF StreamInv
<1>5. /\ device.begin - 1 = -count /\ count = task[Owner].id + 1 /\ count \in Nat
      /\ device.begin \in Int /\ device.end \in Int /\ task[Owner].id \in Nat
  <2>1. /\ device.begin - 1 = -count /\ count = task[Owner].id + 1 /\ count \in Nat
        /\ device.begin \in Int /\ device.end \in Int
    BY <1>2, OwnerIndex
  <2>2. task[Owner].id \in Nat
    BY <1>1, IndexFacts, ThreadNames DEF Inv, ControlInv
  <2> QED
    BY <2>1, <2>2
<1>6. stream' = << Store' >>
  <2>1. task[Owner].id = count - 1
    BY <1>5
  <2>2. Device!NextFrontSlot(device) = Device!SlotOf(-count)
    BY <1>5 DEF Device!NextFrontSlot
  <2>3. Store' = [kind |-> "store", id |-> task[Owner].id, slot |-> Device!NextFrontSlot(device)]
    BY <1>2, <2>1, <2>2 DEF Store
  <2> DEFINE c == [kind |-> "store", id |-> task[Owner].id, slot |-> Device!NextFrontSlot(device)]
  <2>4. stream' = Append(<< >>, c) /\ Store' = c
    BY <1>4, <2>3
  <2> HIDE DEF c
  <2> QED
    BY <2>4, AppendCopies
<1>7. StorePending' /\ ~LoadPending' /\ ~FillPending'
  BY <1>6, StreamBecomes
<1>8. StreamInv'
  <2>1. ~popped
    BY <1>1 DEF Phase, Popping
  <2>2. count > 0
    BY <1>5
  <2> QED
    BY <1>2, <1>3, <1>7, <2>1, <2>2 DEF StreamInv
<1>9. DeviceHolds'
  <2> SUFFICES ASSUME NEW i \in (device.begin - 1) .. device.end, OnDeviceAt(i)', i # -count
               PROVE  device.slot[Device!SlotOf(i)] = -i
    BY <1>2, <1>7 DEF DeviceHolds
  <2>1. OnDeviceAt(i)
    BY <1>5 DEF OnDeviceAt
  <2>2. ~StorePending /\ ~FillPending
    BY <1>4, StreamIs
  <2> QED
    BY <1>1, <2>1, <2>2 DEF DeviceHolds
<1>10. HostHolds'
  BY <1>1, <1>3, HostKept
<1>11. DiskHolds'
  BY <1>1, <1>2, <1>3, DiskKept
<1> QED
  BY <1>1, <1>2, <1>8, <1>9, <1>10, <1>11 DEF DataInv, MemoryTypes

LEMMA TransferLoad ==
  ASSUME Inv, Transfer(Owner), task[Owner].op = "popFront", ~Device!Empty(device),
         stream' = Append(stream, [kind |-> "load", id |-> task[Owner].id,
                                   slot |-> Device!FrontSlot(device)]),
         UNCHANGED <<device, host, disk>>
  PROVE  DataInv' /\ MemoryTypes'
<1>1. /\ ControlTypes /\ MemoryTypes /\ Phase /\ pc \in [Threads -> Places] /\ Sizes
      /\ StreamInv /\ DeviceHolds /\ HostHolds /\ DiskHolds
  BY DEF Inv, ControlTypes, ControlInv, DataInv
<1>2. /\ pc[Owner] = "transfer" /\ pc' = [pc EXCEPT ![Owner] = "commit"]
      /\ UNCHANGED <<task, array, count, popped>> /\ Unfinished(Owner)
  BY TransferEffect, ThreadNames DEF counters
<1>3. /\ pc'[Owner] = "commit"
      /\ \A op : Committing(0, op)' <=> Committing(0, op)
      /\ \A op : Committing(1, op)' <=> Committing(1, op)
      /\ Level(1)' = Level(1)
  BY <1>1, <1>2, StepFrame, ThreadNames
<1>4. /\ ~StorePending /\ ~LoadPending
      /\ (stream = << >> /\ ~FillPending) \/ (stream = << Fill >> /\ FillPending)
  <2>1. ~StorePending /\ ~LoadPending
    BY <1>1, <1>2 DEF StreamInv, Ending
  <2>2. stream = << >> \/ stream = << Fill >>
    BY <1>1, <2>1, StreamKinds
  <2>3. (stream = << >> => ~FillPending) /\ (stream = << Fill >> => FillPending)
    BY StreamIs
  <2> QED
    BY <2>1, <2>2, <2>3
<1>5. /\ device.begin = -(count + 1) /\ count = task[Owner].id /\ count \in Nat
      /\ device.begin \in Int /\ device.end \in Int
      /\ device.begin <= device.end /\ device.end - device.begin + 1 <= DeviceCapacity
  <2>1. /\ device.begin = -(count + 1) /\ count = task[Owner].id /\ count \in Nat
        /\ device.begin \in Int /\ device.end \in Int
    BY <1>2, OwnerIndex
  <2>2. device.begin <= device.end
    BY <2>1 DEF Device!Empty
  <2> QED
    BY <1>1, <2>1, <2>2, SizeFacts
<1>6. stream' = IF FillPending THEN << Fill', Load' >> ELSE << Load' >>
  <2> DEFINE c == [kind |-> "load", id |-> task[Owner].id, slot |-> Device!FrontSlot(device)]
             f == Fill
  <2>1. Device!FrontSlot(device) = Device!SlotOf(-(count + 1))
    BY <1>5 DEF Device!FrontSlot
  <2>2. Load' = c /\ Fill' = f
    BY <1>2, <1>5, <2>1 DEF Load, Fill
  <2>3. stream' = Append(stream, c) /\ ((stream = << >> /\ ~FillPending) \/ (stream = << f >> /\ FillPending))
    BY <1>4
  <2> HIDE DEF c, f
  <2>4. Append(<< >>, c) = << c >> /\ Append(<< f >>, c) = << f, c >>
    BY AppendCopies
  <2> QED
    BY <2>2, <2>3, <2>4
<1>7. /\ LoadPending' /\ ~StorePending' /\ (FillPending' <=> FillPending)
      /\ ~FillPending => stream' # << Fill', Load' >>
  BY <1>6, StreamBecomes
<1>8. StreamInv'
  <2>1. popped
    BY <1>1 DEF Phase, Pushing
  <2>2. FillPending' => Committing(0, "hostToDevice")'
    BY <1>1, <1>3, <1>7 DEF StreamInv
  <2>3. FillPending => /\ device.end = -(task[0].id + 1) /\ task[0].id \in Nat
                       /\ task[0].id <= count /\ count - task[0].id < DeviceCapacity
    <3> SUFFICES ASSUME FillPending
                 PROVE  /\ device.end = -(task[0].id + 1) /\ task[0].id \in Nat
                        /\ task[0].id <= count /\ count - task[0].id < DeviceCapacity
      OBVIOUS
    <3>1. device.end = -(task[0].id + 1) /\ task[0].id \in Nat
      BY <1>1, FillFacts DEF StreamInv
    <3>2. \A a, b, c \in Nat : -(b + 1) <= -(a + 1) /\ -(a + 1) - (-(b + 1)) + 1 <= c =>
             a <= b /\ b - a < c
      OBVIOUS
    <3> QED
      BY <1>5, <3>1, <3>2, Constants
  <2>4. ~(FillPending /\ task[0].id = count) => device.slot[Device!SlotOf(-(count + 1))] = count + 1
    <3> SUFFICES ASSUME ~(FillPending /\ task[0].id = count)
                 PROVE  device.slot[Device!SlotOf(-(count + 1))] = count + 1
      OBVIOUS
    <3>1. device.begin \in device.begin - 1 .. device.end /\ OnDeviceAt(device.begin)
      BY <1>5 DEF OnDeviceAt
    <3>2. ~(FillPending /\ device.begin = device.end)
      <4>1. \A a, b \in Nat : -(a + 1) = -(b + 1) => b = a
        OBVIOUS
      <4>2. CASE FillPending
        <5>1. task[0].id # count /\ device.end = -(task[0].id + 1) /\ task[0].id \in Nat
          BY <2>3, <4>2
        <5> QED
          BY <1>5, <4>1, <5>1
      <4> QED
        BY <4>2
    <3>3. device.slot[Device!SlotOf(device.begin)] = -device.begin
      BY <1>1, <1>4, <3>1, <3>2 DEF DeviceHolds
    <3>4. -(-(count + 1)) = count + 1
      BY <1>5
    <3> QED
      BY <1>5, <3>3, <3>4
  <2>5. ~(stream' = << Fill', Load' >> /\ task'[0].id = count') =>
             device'.slot[Device!SlotOf(-(count' + 1))] = count' + 1
    <3>1. FillPending => stream' = << Fill', Load' >>
      BY <1>6
    <3> QED
      BY <1>2, <2>4, <3>1
  <2>6. stream' = << Fill', Load' >> => task'[0].id <= count' /\ count' - task'[0].id < DeviceCapacity
    BY <1>2, <1>7, <2>3
  <2> QED
    BY <1>2, <1>3, <1>7, <2>1, <2>2, <2>5, <2>6 DEF StreamInv
<1>9. DeviceHolds'
  <2>1. /\ \A i : OnDeviceAt(i)' => OnDeviceAt(i)
    BY <1>2, <1>5 DEF OnDeviceAt, Committing
  <2> QED
    BY <1>1, <1>2, <1>4, <1>7, <2>1 DEF DeviceHolds
<1>10. HostHolds'
  BY <1>1, <1>3, HostKept
<1>11. DiskHolds'
  BY <1>1, <1>2, <1>3, DiskKept
<1> QED
  BY <1>1, <1>2, <1>8, <1>9, <1>10, <1>11 DEF DataInv, MemoryTypes

LEMMA TransferDown ==
  ASSUME Inv, Transfer(0), task[0].op = "deviceToHost",
         host' = Host!IncFront(host), UNCHANGED <<device, disk, stream>>
  PROVE  DataInv' /\ MemoryTypes'
<1>1. /\ ControlTypes /\ MemoryTypes /\ Holds /\ pc \in [Threads -> Places] /\ Sizes
      /\ StreamInv /\ DeviceHolds /\ HostHolds /\ DiskHolds
  BY DEF Inv, ControlTypes, DataInv
<1>2. /\ pc[0] = "transfer" /\ pc' = [pc EXCEPT ![0] = "commit"]
      /\ UNCHANGED <<task, array, count, popped>>
  BY TransferEffect, ThreadNames DEF counters
<1>3. /\ pc'[0] = "commit" /\ pc'[Owner] = pc[Owner]
      /\ \A op : Committing(Owner, op)' <=> Committing(Owner, op)
      /\ \A op : Committing(1, op)' <=> Committing(1, op)
      /\ Level(1)' = Level(1)
  <2>1. /\ pc'[0] = "commit"
        /\ \A u \in Threads : u # 0 =>
              /\ pc'[u] = pc[u]
              /\ \A op : Committing(u, op)' <=> Committing(u, op)
              /\ Level(u)' = Level(u)
    BY <1>1, <1>2, StepFrame, ThreadNames
  <2>2. 1 # 0
    OBVIOUS
  <2> QED
    BY <2>1, <2>2, ThreadNames
<1>4. ~FillPending
  BY <1>1, <1>2 DEF StreamInv, Committing
<1>5. /\ StreamInv' /\ (StorePending' <=> StorePending) /\ (LoadPending' <=> LoadPending)
      /\ (FillPending' <=> FillPending)
  BY <1>1, <1>2, <1>3, <1>4, StreamKept
<1>6. DeviceHolds'
  BY <1>1, <1>2, <1>3, <1>5 DEF DeviceHolds, OnDeviceAt
<1>7. /\ host' = [begin |-> host.begin - 1, end |-> host.end, slot |-> host.slot]
      /\ host.begin \in Int /\ host.end \in Int /\ host.slot \in [Host!Slots -> Int]
      /\ host.begin <= host.end + 1
  BY <1>1, HostParts, MemoryFacts, SizeFacts
<1>8. Committing(0, "deviceToHost")'
  BY <1>2, <1>3 DEF Committing
<1>9. HostHolds'
  <2> SUFFICES ASSUME NEW i \in (host.begin - 1) .. (host.end + 1), OnHostAt(i)'
               PROVE  host.slot[Host!SlotOf(i)] = -i
    BY <1>7 DEF HostHolds
  <2>1. i \in host.begin .. host.end \/ (i = host.end + 1 /\ Committing(1, "diskToHost"))
    <3>1. \/ i \in (host.begin - 1) .. host.end /\ i # host.begin - 1
          \/ i = host.end + 1 /\ Committing(1, "diskToHost")
      BY <1>3, <1>7, <1>8 DEF OnHostAt
    <3> QED
      BY <1>7, <3>1
  <2>2. i \in host.begin .. host.end + 1
    BY <1>7, <2>1
  <2>3. OnHostAt(i)
    BY <1>2, <2>1 DEF OnHostAt, Committing
  <2> QED
    BY <1>1, <2>2, <2>3 DEF HostHolds
<1>10. DiskHolds'
  BY <1>1, <1>2, <1>3, DiskKept
<1>11. MemoryTypes'
  BY <1>1, <1>2, <1>7 DEF MemoryTypes, HostType
<1> QED
  BY <1>5, <1>6, <1>9, <1>10, <1>11 DEF DataInv

LEMMA TransferUp ==
  ASSUME Inv, Transfer(0), task[0].op = "hostToDevice",
         stream' = Append(stream, [kind |-> "fill", id |-> task[0].id,
                                   slot |-> Device!NextBackSlot(device)]),
         device' = Device!IncBack(device), UNCHANGED <<host, disk>>
  PROVE  DataInv' /\ MemoryTypes'
<1>1. /\ ControlTypes /\ MemoryTypes /\ Indices /\ Phase /\ pc \in [Threads -> Places]
      /\ StreamInv /\ DeviceHolds /\ HostHolds /\ DiskHolds
  BY DEF Inv, ControlTypes, ControlInv, DataInv
<1>2. /\ pc[0] = "transfer" /\ pc' = [pc EXCEPT ![0] = "commit"]
      /\ UNCHANGED <<task, array, count, popped>> /\ Unfinished(0)
  BY TransferEffect, ThreadNames DEF counters
<1>3. /\ pc'[0] = "commit" /\ pc'[Owner] = pc[Owner]
      /\ \A op : Committing(Owner, op)' <=> Committing(Owner, op)
      /\ \A op : Committing(1, op)' <=> Committing(1, op)
      /\ Level(1)' = Level(1)
  <2>1. /\ pc'[0] = "commit"
        /\ \A u \in Threads : u # 0 =>
              /\ pc'[u] = pc[u]
              /\ \A op : Committing(u, op)' <=> Committing(u, op)
              /\ Level(u)' = Level(u)
    BY <1>1, <1>2, StepFrame, ThreadNames
  <2>2. 1 # 0
    OBVIOUS
  <2> QED
    BY <2>1, <2>2, ThreadNames
<1>4. Committing(0, "hostToDevice")' /\ ~Committing(0, "deviceToHost")' /\ ~Committing(0, "deviceToHost")
  BY <1>2, <1>3 DEF Committing
<1>5. /\ ~StorePending /\ ~FillPending
      /\ (stream = << >> /\ ~LoadPending) \/ (stream = << Load >> /\ LoadPending)
  <2>1. ~FillPending
    BY <1>1, <1>2 DEF StreamInv, Committing
  <2>2. ~StorePending
    BY <1>1 DEF StreamInv, Phase, Pushing
  <2>3. stream = << >> \/ stream = << Load >>
    BY <1>1, <2>1, <2>2, StreamKinds DEF StorePending
  <2>4. (stream = << >> => ~LoadPending) /\ (stream = << Load >> => LoadPending)
    BY StreamIs
  <2> QED
    BY <2>1, <2>2, <2>3, <2>4
<1>6. /\ device' = [begin |-> device.begin, end |-> device.end + 1, slot |-> device.slot]
      /\ device.begin \in Int /\ device.end \in Int /\ device.slot \in [Device!Slots -> Int]
      /\ device.end + 1 = -(task[0].id + 1)
  <2>1. device.end = -1 - Level(0) /\ task[0].id \in Nat /\ Level(0) = task[0].id + 1
    BY <1>1, <1>2, IndexFacts, LevelFacts, ThreadNames
  <2>2. device.end + 1 = -(task[0].id + 1)
    BY <2>1
  <2> QED
    BY <1>1, <2>2, DeviceParts, MemoryFacts
<1>7. stream' = IF LoadPending THEN << Load', Fill' >> ELSE << Fill' >>
  <2> DEFINE c == [kind |-> "fill", id |-> task[0].id, slot |-> Device!NextBackSlot(device)]
             l == Load
  <2>1. Device!NextBackSlot(device) = Device!SlotOf(-(task[0].id + 1))
    BY <1>6 DEF Device!NextBackSlot
  <2>2. Fill' = c /\ Load' = l
    BY <1>2, <2>1 DEF Load, Fill
  <2>3. stream' = Append(stream, c) /\ ((stream = << >> /\ ~LoadPending) \/ (stream = << l >> /\ LoadPending))
    BY <1>5
  <2> HIDE DEF c, l
  <2>4. Append(<< >>, c) = << c >> /\ Append(<< l >>, c) = << l, c >>
    BY AppendCopies
  <2> QED
    BY <2>2, <2>3, <2>4
<1>8. /\ FillPending' /\ ~StorePending' /\ (LoadPending' <=> LoadPending)
      /\ LoadPending => stream' # << Fill', Load' >>
  BY <1>7, StreamBecomes
<1>9. StreamInv'
  <2> SUFFICES ASSUME LoadPending
               PROVE  /\ popped' /\ pc'[Owner] \in {"commit"} \cup Ending
                      /\ device'.slot[Device!SlotOf(-(count' + 1))] = count' + 1
    BY <1>4, <1>8 DEF StreamInv
  <2>1. stream # << Fill, Load >>
    <3>1. stream = << Load >>
      BY <1>5
    <3> QED
      BY <3>1, StreamIs
  <2> QED
    BY <1>1, <1>2, <1>3, <1>6, <2>1 DEF StreamInv
<1>10. DeviceHolds'
  <2> SUFFICES ASSUME NEW i \in (device.begin - 1) .. (device.end + 1), OnDeviceAt(i)', i # device.end + 1
               PROVE  device.slot[Device!SlotOf(i)] = -i
    BY <1>6, <1>8 DEF DeviceHolds
  <2>1. i \in (device.begin - 1) .. device.end
    BY <1>6
  <2>2. OnDeviceAt(i)
    BY <1>3, <1>6, <2>1 DEF OnDeviceAt
  <2> QED
    BY <1>1, <1>5, <2>1, <2>2 DEF DeviceHolds
<1>11. HostHolds'
  BY <1>1, <1>3, <1>4, HostKept
<1>12. DiskHolds'
  BY <1>1, <1>2, <1>3, DiskKept
<1>13. MemoryTypes'
  BY <1>1, <1>2, <1>6 DEF MemoryTypes, DeviceType
<1> QED
  BY <1>9, <1>10, <1>11, <1>12, <1>13 DEF DataInv

LEMMA TransferWrite ==
  ASSUME Inv, Transfer(1), task[1].op = "hostToDisk", ~Host!Empty(host),
         disk' = [disk EXCEPT ![task[1].id] = Host!BackEntry(host)],
         UNCHANGED <<device, host, stream>>
  PROVE  DataInv' /\ MemoryTypes'
<1>1. /\ ControlTypes /\ MemoryTypes /\ Indices /\ Writes /\ Sizes /\ pc \in [Threads -> Places] /\ Holds
      /\ StreamInv /\ DeviceHolds /\ HostHolds /\ DiskHolds
  BY DEF Inv, ControlTypes, ControlInv, DataInv
<1>2. /\ pc[1] = "transfer" /\ pc' = [pc EXCEPT ![1] = "commit"]
      /\ UNCHANGED <<task, array, count, popped>> /\ Unfinished(1)
  BY TransferEffect, ThreadNames DEF counters
<1>3. /\ pc'[1] = "commit" /\ pc'[Owner] = pc[Owner]
      /\ \A op : Committing(Owner, op)' <=> Committing(Owner, op)
      /\ \A op : Committing(0, op)' <=> Committing(0, op)
  <2>1. /\ pc'[1] = "commit"
        /\ \A u \in Threads : u # 1 =>
              /\ pc'[u] = pc[u]
              /\ \A op : Committing(u, op)' <=> Committing(u, op)
              /\ Level(u)' = Level(u)
    BY <1>1, <1>2, StepFrame, ThreadNames
  <2>2. 1 # 0
    OBVIOUS
  <2> QED
    BY <2>1, <2>2, ThreadNames
<1>4. /\ Committing(1, "hostToDisk")' /\ ~Committing(1, "diskToHost")'
      /\ \A op : ~Committing(1, op)
  BY <1>2, <1>3 DEF Committing
<1>5. /\ StreamInv' /\ (StorePending' <=> StorePending) /\ (LoadPending' <=> LoadPending)
      /\ (FillPending' <=> FillPending)
  <2>1. FillPending => Committing(0, "hostToDevice")'
    BY <1>1, <1>3 DEF StreamInv
  <2> QED
    BY <1>1, <1>2, <1>3, <2>1, StreamKept
<1>6. DeviceHolds'
  BY <1>1, <1>2, <1>3, <1>5 DEF DeviceHolds, OnDeviceAt
<1>7. HostHolds'
  BY <1>1, <1>3, <1>4, HostKept
<1> DEFINE id == task[1].id
<1>8. /\ id \in Nat /\ id \in BufferIds /\ host.end = -(id + 1) /\ Level(1) = id
      /\ host.begin \in Int /\ host.end \in Int /\ host.begin <= host.end
  <2>1. /\ host.end = -1 - Level(1) /\ id \in Nat /\ Level(1) = id
    BY <1>1, <1>2, IndexFacts, LevelFacts, ThreadNames
  <2>2. host.end = -(id + 1)
    BY <2>1
  <2>3. host.begin \in Int /\ host.end \in Int
    BY <1>1, MemoryFacts
  <2>4. host.begin <= host.end
    BY <2>3 DEF Host!Empty
  <2>5. id \in BufferIds
    BY <1>1, TaskTypes, ThreadNames
  <2> QED
    BY <2>1, <2>2, <2>3, <2>4, <2>5
<1>9. Host!BackEntry(host) = id + 1
  <2>1. ~(host.end = host.begin /\ Committing(0, "deviceToHost"))
    <3> SUFFICES ASSUME Committing(0, "deviceToHost") PROVE host.end # host.begin
      OBVIOUS
    <3>1. pc[0] = "commit" /\ task[0].op = "deviceToHost" /\ Unfinished(0)
      BY DEF Committing, Unfinished
    <3>2. id < Level(0)
      BY <1>1, <1>2, <3>1 DEF Writes, Writing
    <3>3. Level(0) = task[0].id /\ host.begin = -(task[0].id + 1) /\ task[0].id \in Nat
      BY <1>1, <3>1, IndexFacts, LevelFacts, ThreadNames
    <3>4. \A a, b \in Nat : a < b => -(a + 1) # -(b + 1)
      OBVIOUS
    <3> QED
      BY <1>8, <3>2, <3>3, <3>4
  <2>2. host.end \in host.begin .. host.end /\ host.end \in host.begin .. host.end + 1
    BY <1>8
  <2>3. OnHostAt(host.end)
    BY <2>1, <2>2 DEF OnHostAt
  <2>4. host.slot[Host!SlotOf(host.end)] = -host.end
    BY <1>1, <2>2, <2>3 DEF HostHolds
  <2>5. -host.end = id + 1
    BY <1>8
  <2> QED
    BY <2>4, <2>5 DEF Host!BackEntry, Host!BackSlot
<1>10. disk' = [disk EXCEPT ![id] = id + 1] /\ disk \in [BufferIds -> Int]
  BY <1>1, <1>9 DEF MemoryTypes
<1>11. MemoryTypes'
  <2>1. id + 1 \in Int
    BY <1>8
  <2>2. disk' \in [BufferIds -> Int]
    BY <1>10, <2>1
  <2> QED
    BY <1>1, <1>2, <2>2 DEF MemoryTypes
<1>12. DiskHolds'
  <2>1. FilesBelow' = id + 1 /\ FilesBelow = id
    BY <1>2, <1>4, <1>8 DEF FilesBelow
  <2> SUFFICES ASSUME NEW d \in BufferIds
               PROVE  disk'[d] = IF d < id + 1 THEN d + 1 ELSE Nothing
    BY <2>1 DEF DiskHolds
  <2>2. disk[d] = IF d < id THEN d + 1 ELSE Nothing
    BY <1>1, <2>1 DEF DiskHolds
  <2>3. d \in Nat
    BY Constants DEF BufferIds
  <2>4. CASE d = id
    <3>1. disk'[d] = d + 1 /\ d < id + 1
      BY <1>8, <1>10, <2>4
    <3> QED
      BY <3>1
  <2>5. CASE d # id
    <3>1. disk'[d] = disk[d]
      BY <1>10, <2>5
    <3>2. d < id + 1 <=> d < id
      BY <1>8, <2>3, <2>5
    <3> QED
      BY <2>2, <3>1, <3>2
  <2> QED
    BY <2>4, <2>5
<1> QED
  BY <1>5, <1>6, <1>7, <1>11, <1>12 DEF DataInv

\* h is the host queue with v written at index i, and nothing else changed within a capacity of i.
HostWritten(h, i, v) ==
  /\ h.begin = host.begin /\ h.end = host.end /\ h \in HostType
  /\ h.slot[Host!SlotOf(i)] = v
  /\ \A j \in Int : i # j /\ -HostCapacity < i - j /\ i - j < HostCapacity
        => h.slot[Host!SlotOf(j)] = host.slot[Host!SlotOf(j)]

\* A write to the slot of an index of the host queue.
LEMMA HostWriteEffect ==
  ASSUME MemoryTypes, HostCapacity > 0, NEW i \in Int, NEW v \in Int,
         NEW h, h = Host!Write(host, Host!SlotOf(i), v)
  PROVE  HostWritten(h, i, v)
<1>1. /\ host.begin \in Int /\ host.end \in Int /\ host.slot \in [Host!Slots -> Int]
  BY MemoryFacts
<1>2. /\ Host!SlotOf(i) \in Host!Slots
      /\ \A j \in Int : Host!SlotOf(j) \in Host!Slots
      /\ \A j \in Int : i # j /\ -HostCapacity < i - j /\ i - j < HostCapacity
               => Host!SlotOf(i) # Host!SlotOf(j)
  BY HostSlots
<1> DEFINE s == Host!SlotOf(i)
<1> HIDE DEF s
<1>3. h = [begin |-> host.begin, end |-> host.end, slot |-> [host.slot EXCEPT ![s] = v]]
  BY <1>2, HostParts DEF s
<1>4. [host.slot EXCEPT ![s] = v] \in [Host!Slots -> Int]
  BY <1>1
<1>5. h \in HostType
  BY <1>1, <1>3, <1>4 DEF HostType
<1>6. h.slot = [host.slot EXCEPT ![s] = v]
  BY <1>3
<1>7. /\ h.slot[s] = v
      /\ \A r \in Host!Slots : r # s => h.slot[r] = host.slot[r]
  BY <1>1, <1>2, <1>6 DEF s
<1>8. h.slot[Host!SlotOf(i)] = v
  BY <1>7 DEF s
<1>9. \A j \in Int : i # j /\ -HostCapacity < i - j /\ i - j < HostCapacity
        => h.slot[Host!SlotOf(j)] = host.slot[Host!SlotOf(j)]
  BY <1>2, <1>7 DEF s
<1> QED
  BY <1>3, <1>5, <1>8, <1>9 DEF HostWritten

LEMMA TransferRead ==
  ASSUME Inv, Transfer(1), task[1].op = "diskToHost", ~Host!Full(host),
         disk[task[1].id] = task[1].id + 1,
         host' = Host!Write(host, Host!NextBackSlot(host), disk[task[1].id]),
         disk' = [disk EXCEPT ![task[1].id] = Nothing],
         UNCHANGED <<device, stream>>
  PROVE  DataInv' /\ MemoryTypes'
<1>1. /\ ControlTypes /\ MemoryTypes /\ Indices /\ Sizes /\ pc \in [Threads -> Places]
      /\ StreamInv /\ DeviceHolds /\ HostHolds /\ DiskHolds
  BY DEF Inv, ControlTypes, ControlInv, DataInv
<1>2. /\ pc[1] = "transfer" /\ pc' = [pc EXCEPT ![1] = "commit"]
      /\ UNCHANGED <<task, array, count, popped>> /\ Unfinished(1) /\ Busy(1)
  BY TransferEffect, ThreadNames DEF counters
<1>3. /\ pc'[1] = "commit" /\ pc'[Owner] = pc[Owner]
      /\ \A op : Committing(Owner, op)' <=> Committing(Owner, op)
      /\ \A op : Committing(0, op)' <=> Committing(0, op)
  <2>1. /\ pc'[1] = "commit"
        /\ \A u \in Threads : u # 1 =>
              /\ pc'[u] = pc[u]
              /\ \A op : Committing(u, op)' <=> Committing(u, op)
    BY <1>1, <1>2, StepFrame, ThreadNames
  <2>2. 1 # 0
    OBVIOUS
  <2> QED
    BY <2>1, <2>2, ThreadNames
<1>4. /\ Committing(1, "diskToHost")' /\ ~Committing(1, "hostToDisk")'
      /\ \A op : ~Committing(1, op)
  BY <1>2, <1>3 DEF Committing
<1>5. /\ StreamInv' /\ (StorePending' <=> StorePending) /\ (LoadPending' <=> LoadPending)
      /\ (FillPending' <=> FillPending)
  <2>1. FillPending => Committing(0, "hostToDevice")'
    BY <1>1, <1>3 DEF StreamInv
  <2> QED
    BY <1>1, <1>2, <1>3, <2>1, StreamKept
<1>6. DeviceHolds'
  BY <1>1, <1>2, <1>3, <1>5 DEF DeviceHolds, OnDeviceAt
<1> DEFINE id == task[1].id
           m  == -(id + 1)
<1>7. /\ id \in Nat /\ id \in BufferIds /\ host.end + 1 = m /\ Level(1) = id + 1
      /\ host.begin \in Int /\ host.end \in Int
      /\ host.end - host.begin + 1 <= HostCapacity /\ host.end - host.begin + 1 # HostCapacity
      /\ HostCapacity > 0 /\ HostCapacity \in Nat
  <2>1. /\ host.end = -1 - Level(1) /\ id \in Nat /\ Level(1) = id + 1
    BY <1>1, <1>2, IndexFacts, LevelFacts, ThreadNames
  <2>2. host.end + 1 = m
    BY <2>1
  <2>3. host.begin \in Int /\ host.end \in Int
    BY <1>1, MemoryFacts
  <2>4. host.end - host.begin + 1 <= HostCapacity /\ host.end - host.begin + 1 # HostCapacity
    BY <1>1, SizeFacts
  <2>5. id \in BufferIds
    BY <1>1, TaskTypes, ThreadNames
  <2> HIDE DEF m, id
  <2> QED
    BY <1>2, <2>1, <2>2, <2>3, <2>4, <2>5, HostNeeded, Constants
<1>8. m \in Int /\ id + 1 \in Int /\ -m = id + 1
  BY <1>7
<1>9. /\ host'.begin = host.begin /\ host'.end = host.end /\ host' \in HostType
      /\ host'.slot[Host!SlotOf(m)] = id + 1
      /\ \A j \in Int : m # j /\ -HostCapacity < m - j /\ m - j < HostCapacity
             => host'.slot[Host!SlotOf(j)] = host.slot[Host!SlotOf(j)]
  <2> DEFINE v == id + 1
             h == host'
  <2>1. h = Host!Write(host, Host!SlotOf(m), v) /\ v \in Int
    BY <1>7, <1>8 DEF Host!NextBackSlot
  <2> HIDE DEF m, v, h
  <2>2. MemoryTypes /\ HostCapacity > 0 /\ m \in Int
    BY <1>1, <1>7, <1>8
  <2>3. HostWritten(h, m, v)
    BY ONLY <2>1, <2>2, HostWriteEffect
  <2> QED
    BY <2>3 DEF v, h, HostWritten
<1>10. HostHolds'
  <2> SUFFICES ASSUME NEW i \in host.begin .. (host.end + 1), OnHostAt(i)'
               PROVE  host'.slot[Host!SlotOf(i)] = -i
    BY <1>9 DEF HostHolds
  <2>1. CASE i = m
    BY <1>8, <1>9, <2>1
  <2>2. CASE i # m
    <3>1. i \in host.begin .. host.end
      BY <1>7, <2>2
    <3>2. ~(i = host.begin /\ Committing(0, "deviceToHost"))
      BY <1>3, <1>7, <1>9, <2>2 DEF OnHostAt
    <3>3. OnHostAt(i)
      BY <3>1, <3>2 DEF OnHostAt
    <3>4. host.slot[Host!SlotOf(i)] = -i
      BY <1>1, <3>3 DEF HostHolds
    <3>5. -HostCapacity < m - i /\ m - i < HostCapacity
      <4>1. \A a, b, d \in Int : \A e \in Nat :
               a <= d /\ d <= b /\ b - a + 1 <= e /\ b - a + 1 # e /\ e > 0 => -e < b + 1 - d /\ b + 1 - d < e
        OBVIOUS
      <4> HIDE DEF m
      <4>2. host.begin <= i /\ i <= host.end /\ i \in Int
        BY <1>7, <3>1
      <4> QED
        BY <1>7, <4>1, <4>2
    <3> HIDE DEF m
    <3>6. i \in Int
      BY <1>7
    <3> QED
      BY <1>9, <2>2, <3>4, <3>5, <3>6
  <2> QED
    BY <2>1, <2>2
<1>11. disk' = [disk EXCEPT ![id] = Nothing] /\ disk \in [BufferIds -> Int]
  BY <1>1 DEF MemoryTypes
<1>12. MemoryTypes'
  <2>1. disk' \in [BufferIds -> Int]
    <3>1. Nothing \in Int
      BY DEF Nothing
    <3> QED
      BY <1>11, <3>1
  <2> QED
    BY <1>1, <1>2, <1>9, <2>1 DEF MemoryTypes
<1>13. DiskHolds'
  <2>1. FilesBelow' = id /\ FilesBelow = id + 1
    BY <1>2, <1>4, <1>7 DEF FilesBelow
  <2> SUFFICES ASSUME NEW d \in BufferIds
               PROVE  disk'[d] = IF d < id THEN d + 1 ELSE Nothing
    BY <2>1 DEF DiskHolds
  <2>2. disk[d] = IF d < id + 1 THEN d + 1 ELSE Nothing
    BY <1>1, <2>1 DEF DiskHolds
  <2>3. d \in Nat
    BY Constants DEF BufferIds
  <2>4. CASE d = id
    <3>1. disk'[d] = Nothing /\ ~(d < id)
      BY <1>7, <1>11, <2>4
    <3> QED
      BY <3>1
  <2>5. CASE d # id
    <3>1. disk'[d] = disk[d]
      BY <1>11, <2>5
    <3>2. d < id + 1 <=> d < id
      BY <1>7, <2>3, <2>5
    <3> QED
      BY <2>2, <3>1, <3>2
  <2> QED
    BY <2>4, <2>5
<1> QED
  BY <1>5, <1>6, <1>10, <1>12, <1>13 DEF DataInv

LEMMA TransferData ==
  ASSUME Inv, NEW t \in Threads, Transfer(t)
  PROVE  DataInv' /\ MemoryTypes'
<1>1. CASE t = Owner
  <2>1. \/ /\ task[Owner].op = "emplaceFront"
           /\ stream' = Append(stream, [kind |-> "store", id |-> task[Owner].id,
                                        slot |-> Device!NextFrontSlot(device)])
           /\ UNCHANGED <<device, host, disk>>
        \/ /\ task[Owner].op = "popFront" /\ ~Device!Empty(device)
           /\ stream' = Append(stream, [kind |-> "load", id |-> task[Owner].id,
                                        slot |-> Device!FrontSlot(device)])
           /\ UNCHANGED <<device, host, disk>>
    BY <1>1, TransferEffect, ThreadNames
  <2> QED
    BY <1>1, <2>1, TransferStore, TransferLoad
<1>2. CASE t = 0
  <2>1. \/ /\ task[0].op = "deviceToHost"
           /\ host' = Host!IncFront(host)
           /\ UNCHANGED <<device, disk, stream>>
        \/ /\ task[0].op = "hostToDevice"
           /\ stream' = Append(stream, [kind |-> "fill", id |-> task[0].id,
                                        slot |-> Device!NextBackSlot(device)])
           /\ device' = Device!IncBack(device)
           /\ UNCHANGED <<host, disk>>
    <3>1. Transfer(0) /\ 0 \in Threads /\ 0 # Owner /\ 0 # 1
      BY <1>2, ThreadNames
    <3> QED
      BY <3>1, TransferEffect
  <2> QED
    BY <1>2, <2>1, TransferDown, TransferUp
<1>3. CASE t = 1
  <2>1. \/ /\ task[1].op = "hostToDisk" /\ ~Host!Empty(host)
           /\ disk' = [disk EXCEPT ![task[1].id] = Host!BackEntry(host)]
           /\ UNCHANGED <<device, host, stream>>
        \/ /\ task[1].op = "diskToHost" /\ ~Host!Full(host)
           /\ disk[task[1].id] = task[1].id + 1
           /\ host' = Host!Write(host, Host!NextBackSlot(host), disk[task[1].id])
           /\ disk' = [disk EXCEPT ![task[1].id] = Nothing]
           /\ UNCHANGED <<device, stream>>
    <3>1. Transfer(1) /\ 1 \in Threads /\ 1 # Owner /\ 1 # 0
      BY <1>3, ThreadNames
    <3> QED
      BY <3>1, TransferEffect
  <2> QED
    BY <1>3, <2>1, TransferWrite, TransferRead
<1> QED
  BY <1>1, <1>2, <1>3, ThreadNames

LEMMA CommitStore ==
  ASSUME Inv, Commit(Owner), task[Owner].op = "emplaceFront",
         device' = Device!IncFront(device), host' = host
  PROVE  DataInv' /\ MemoryTypes'
<1>1. /\ ControlTypes /\ MemoryTypes /\ pc \in [Threads -> Places]
      /\ StreamInv /\ DeviceHolds /\ HostHolds /\ DiskHolds
  BY DEF Inv, ControlTypes, DataInv
<1>2. /\ pc[Owner] = "commit" /\ pc' = [pc EXCEPT ![Owner] = "notify"]
      /\ UNCHANGED <<disk, stream, task, array, count, popped>>
  BY CommitEffect, ThreadNames DEF counters
<1>3. /\ pc'[Owner] = "notify"
      /\ \A op : Committing(0, op)' <=> Committing(0, op)
      /\ \A op : Committing(1, op)' <=> Committing(1, op)
      /\ Level(1)' = Level(1)
  BY <1>1, <1>2, StepFrame, ThreadNames
<1>4. /\ device' = [begin |-> device.begin - 1, end |-> device.end, slot |-> device.slot]
      /\ device.begin \in Int /\ device.end \in Int /\ device.slot \in [Device!Slots -> Int]
  BY <1>1, DeviceParts, MemoryFacts
<1>5. /\ StreamInv' /\ (StorePending' <=> StorePending) /\ (LoadPending' <=> LoadPending)
      /\ (FillPending' <=> FillPending)
  <2>1. FillPending => Committing(0, "hostToDevice")'
    BY <1>1, <1>3 DEF StreamInv
  <2> QED
    BY <1>1, <1>2, <1>3, <1>4, <2>1, StreamKept
<1>6. DeviceHolds'
  <2> SUFFICES ASSUME NEW i \in (device.begin - 2) .. device.end, OnDeviceAt(i)'
               PROVE  \/ device.slot[Device!SlotOf(i)] = -i
                      \/ StorePending /\ i = -count
                      \/ FillPending /\ i = device.end
    <3>1. \A i : i \in ((device.begin - 1) - 1) .. device.end => i \in (device.begin - 2) .. device.end
      BY <1>4
    <3> QED
      BY <1>2, <1>4, <1>5, <3>1 DEF DeviceHolds
  <2>1. i \in (device.begin - 1) .. device.end
    BY <1>3, <1>4 DEF OnDeviceAt, Committing
  <2>2. OnDeviceAt(i)
    BY <1>2, <1>4, <2>1 DEF OnDeviceAt, Committing
  <2> QED
    BY <1>1, <2>1, <2>2 DEF DeviceHolds
<1>7. HostHolds' /\ DiskHolds'
  BY <1>1, <1>2, <1>3, HostKept, DiskKept
<1>8. MemoryTypes'
  BY <1>1, <1>2, <1>4 DEF MemoryTypes, DeviceType
<1> QED
  BY <1>5, <1>6, <1>7, <1>8 DEF DataInv

LEMMA CommitLoad ==
  ASSUME Inv, Commit(Owner), task[Owner].op = "popFront",
         device' = Device!PopFront(device), host' = host
  PROVE  DataInv' /\ MemoryTypes'
<1>1. /\ ControlTypes /\ MemoryTypes /\ pc \in [Threads -> Places]
      /\ StreamInv /\ DeviceHolds /\ HostHolds /\ DiskHolds
  BY DEF Inv, ControlTypes, DataInv
<1>2. /\ pc[Owner] = "commit" /\ pc' = [pc EXCEPT ![Owner] = "notify"]
      /\ UNCHANGED <<disk, stream, task, array, count, popped>>
  BY CommitEffect, ThreadNames DEF counters
<1>3. /\ pc'[Owner] = "notify"
      /\ \A op : Committing(0, op)' <=> Committing(0, op)
      /\ \A op : Committing(1, op)' <=> Committing(1, op)
      /\ Level(1)' = Level(1)
  BY <1>1, <1>2, StepFrame, ThreadNames
<1>4. /\ device' = [begin |-> device.begin + 1, end |-> device.end, slot |-> device.slot]
      /\ device.begin \in Int /\ device.end \in Int /\ device.slot \in [Device!Slots -> Int]
  BY <1>1, DeviceParts, MemoryFacts
<1>5. /\ StreamInv' /\ (StorePending' <=> StorePending) /\ (LoadPending' <=> LoadPending)
      /\ (FillPending' <=> FillPending)
  <2>1. FillPending => Committing(0, "hostToDevice")'
    BY <1>1, <1>3 DEF StreamInv
  <2> QED
    BY <1>1, <1>2, <1>3, <1>4, <2>1, StreamKept
<1>6. DeviceHolds'
  <2> SUFFICES ASSUME NEW i, OnDeviceAt(i)'
               PROVE  \/ device.slot[Device!SlotOf(i)] = -i
                      \/ StorePending /\ i = -count
                      \/ FillPending /\ i = device.end
    BY <1>2, <1>4, <1>5 DEF DeviceHolds
  <2>1. i \in (device.begin + 1) .. device.end
    BY <1>3, <1>4 DEF OnDeviceAt, Committing
  <2>2. i \in (device.begin - 1) .. device.end /\ i \in device.begin .. device.end
    BY <1>4, <2>1
  <2>3. OnDeviceAt(i)
    BY <2>2 DEF OnDeviceAt
  <2> QED
    BY <1>1, <2>2, <2>3 DEF DeviceHolds
<1>7. HostHolds' /\ DiskHolds'
  BY <1>1, <1>2, <1>3, HostKept, DiskKept
<1>8. MemoryTypes'
  BY <1>1, <1>2, <1>4 DEF MemoryTypes, DeviceType
<1> QED
  BY <1>5, <1>6, <1>7, <1>8 DEF DataInv

\* What the worker moves to the host has arrived in the device queue.
LEMMA BackHasArrived ==
  ASSUME Inv, Committing(0, "deviceToHost"), ~Pending("store", task[0].id), ~Device!Empty(device)
  PROVE  Device!BackEntry(device) = task[0].id + 1 /\ ~FillPending
<1>1. MemoryTypes /\ Indices /\ ControlTypes /\ StreamInv /\ DeviceHolds
  BY DEF Inv, ControlInv, DataInv
<1>2. ~FillPending
  BY <1>1 DEF StreamInv, Committing
<1>3. /\ device.end = -1 - task[0].id /\ task[0].id \in Nat /\ device.begin \in Int /\ device.end \in Int
      /\ device.begin <= device.end /\ count \in Nat
  <2>1. device.end = -1 - task[0].id /\ task[0].id \in Nat
    BY <1>1, IndexFacts, ThreadNames DEF Committing
  <2>2. device.begin \in Int /\ device.end \in Int
    BY <1>1, MemoryFacts
  <2>3. device.begin <= device.end
    BY <2>2 DEF Device!Empty
  <2> QED
    BY <2>1, <2>2, <2>3, OwnerIndex
<1>4. ~(StorePending /\ device.end = -count)
  <2> SUFFICES ASSUME StorePending, device.end = -count PROVE FALSE
    OBVIOUS
  <2>1. count - 1 = task[0].id
    BY <1>3
  <2>2. stream = << Store >> /\ Store.kind = "store" /\ Store.id = task[0].id
    BY <2>1 DEF StorePending, Store
  <2>3. 1 \in DOMAIN stream /\ stream[1] = Store
    BY <2>2
  <2> QED
    BY <2>2, <2>3 DEF Pending
<1>5. device.end \in (device.begin - 1) .. device.end /\ OnDeviceAt(device.end)
  BY <1>3 DEF OnDeviceAt
<1>6. device.slot[Device!SlotOf(device.end)] = -device.end
  BY <1>1, <1>2, <1>4, <1>5 DEF DeviceHolds
<1>7. -device.end = task[0].id + 1
  BY <1>3
<1> QED
  BY <1>2, <1>6, <1>7 DEF Device!BackEntry, Device!BackSlot

LEMMA CommitDown ==
  ASSUME Inv, Commit(0), task[0].op = "deviceToHost", ~Device!Empty(device),
         ~Pending("store", task[0].id),
         device' = Device!PopBack(device),
         host' = Host!Write(host, Host!FrontSlot(host), Device!BackEntry(device))
  PROVE  DataInv' /\ MemoryTypes'
<1>1. /\ ControlTypes /\ MemoryTypes /\ Indices /\ Sizes /\ Holds /\ pc \in [Threads -> Places]
      /\ StreamInv /\ DeviceHolds /\ HostHolds /\ DiskHolds
  BY DEF Inv, ControlTypes, ControlInv, DataInv
<1>2. /\ pc[0] = "commit" /\ pc' = [pc EXCEPT ![0] = "notify"] /\ Busy(0)
      /\ UNCHANGED <<disk, stream, task, array, count, popped>>
  BY CommitEffect, ThreadNames DEF counters
<1>3. /\ pc'[0] = "notify" /\ pc'[Owner] = pc[Owner]
      /\ \A op : Committing(Owner, op)' <=> Committing(Owner, op)
      /\ \A op : Committing(1, op)' <=> Committing(1, op)
      /\ Level(1)' = Level(1)
  <2>1. /\ pc'[0] = "notify"
        /\ \A u \in Threads : u # 0 =>
              /\ pc'[u] = pc[u]
              /\ \A op : Committing(u, op)' <=> Committing(u, op)
              /\ Level(u)' = Level(u)
    BY <1>1, <1>2, StepFrame, ThreadNames
  <2>2. 1 # 0
    OBVIOUS
  <2> QED
    BY <2>1, <2>2, ThreadNames
<1>4. /\ Committing(0, "deviceToHost") /\ ~Committing(0, "deviceToHost")'
      /\ ~Committing(1, "diskToHost")
  BY <1>1, <1>2, <1>3, Excluded DEF Committing, Inside
<1>5. Device!BackEntry(device) = task[0].id + 1 /\ ~FillPending
  BY <1>4, BackHasArrived
<1>6. /\ device' = [begin |-> device.begin, end |-> device.end - 1, slot |-> device.slot]
      /\ device.begin \in Int /\ device.end \in Int /\ device.slot \in [Device!Slots -> Int]
  BY <1>1, DeviceParts, MemoryFacts
<1>7. /\ StreamInv' /\ (StorePending' <=> StorePending) /\ (LoadPending' <=> LoadPending)
      /\ (FillPending' <=> FillPending)
  BY <1>1, <1>2, <1>3, <1>5, <1>6, StreamKept
<1>8. DeviceHolds'
  <2> SUFFICES ASSUME NEW i \in (device.begin - 1) .. (device.end - 1), OnDeviceAt(i)'
               PROVE  \/ device.slot[Device!SlotOf(i)] = -i
                      \/ StorePending /\ i = -count
    BY <1>2, <1>6, <1>7 DEF DeviceHolds
  <2>1. i \in (device.begin - 1) .. device.end
    BY <1>6
  <2>2. OnDeviceAt(i)
    BY <1>3, <1>6 DEF OnDeviceAt
  <2> QED
    BY <1>1, <1>5, <2>1, <2>2 DEF DeviceHolds
<1> DEFINE id == task[0].id
           m  == -(id + 1)
<1>9. /\ id \in Nat /\ host.begin = m /\ host.begin \in Int /\ host.end \in Int
      /\ host.end - host.begin + 1 <= HostCapacity /\ HostCapacity > 0 /\ HostCapacity \in Nat
  <2>1. id \in Nat /\ host.begin = m
    BY <1>1, <1>2, IndexFacts, ThreadNames
  <2>2. host.begin \in Int /\ host.end \in Int
    BY <1>1, MemoryFacts
  <2>3. host.end - host.begin + 1 <= HostCapacity
    BY <1>1, SizeFacts
  <2> HIDE DEF m, id
  <2> QED
    BY <1>2, <2>1, <2>2, <2>3, HostNeeded, Constants
<1>10. m \in Int /\ id + 1 \in Int /\ -m = id + 1
  BY <1>9
<1>11. /\ host'.begin = host.begin /\ host'.end = host.end /\ host' \in HostType
       /\ host'.slot[Host!SlotOf(m)] = id + 1
       /\ \A j \in Int : m # j /\ -HostCapacity < m - j /\ m - j < HostCapacity
             => host'.slot[Host!SlotOf(j)] = host.slot[Host!SlotOf(j)]
  <2> DEFINE v == id + 1
             h == host'
  <2>1. h = Host!Write(host, Host!SlotOf(m), v) /\ v \in Int
    BY <1>5, <1>9, <1>10 DEF Host!FrontSlot
  <2> HIDE DEF m, v, h
  <2>2. MemoryTypes /\ HostCapacity > 0 /\ m \in Int
    BY <1>1, <1>9, <1>10
  <2>3. HostWritten(h, m, v)
    BY ONLY <2>1, <2>2, HostWriteEffect
  <2> QED
    BY <2>3 DEF v, h, HostWritten
<1>12. HostHolds'
  <2> SUFFICES ASSUME NEW i \in host.begin .. (host.end + 1), OnHostAt(i)'
               PROVE  host'.slot[Host!SlotOf(i)] = -i
    BY <1>11 DEF HostHolds
  <2>1. CASE i = m
    BY <1>10, <1>11, <2>1
  <2>2. CASE i # m
    <3>1. i \in host.begin .. host.end
      BY <1>3, <1>4, <1>11 DEF OnHostAt
    <3>2. OnHostAt(i)
      BY <1>9, <2>2, <3>1 DEF OnHostAt
    <3>3. host.slot[Host!SlotOf(i)] = -i
      BY <1>1, <3>2 DEF HostHolds
    <3>4. -HostCapacity < m - i /\ m - i < HostCapacity /\ i \in Int
      <4>1. \A a, b, d \in Int : \A e \in Nat :
               a <= d /\ d <= b /\ b - a + 1 <= e /\ e > 0 => -e < a - d /\ a - d < e
        OBVIOUS
      <4> HIDE DEF m
      <4>2. host.begin <= i /\ i <= host.end /\ i \in Int
        BY <1>9, <3>1
      <4> QED
        BY <1>9, <4>1, <4>2
    <3> HIDE DEF m
    <3> QED
      BY <1>11, <2>2, <3>3, <3>4
  <2> QED
    BY <2>1, <2>2
<1>13. DiskHolds'
  BY <1>1, <1>2, <1>3, DiskKept
<1>14. MemoryTypes'
  BY <1>1, <1>2, <1>6, <1>11 DEF MemoryTypes, DeviceType
<1> QED
  BY <1>7, <1>8, <1>12, <1>13, <1>14 DEF DataInv

LEMMA CommitUp ==
  ASSUME Inv, Commit(0), task[0].op = "hostToDevice", ~Pending("fill", task[0].id),
         ~Host!Empty(host), device' = device, host' = Host!PopFront(host)
  PROVE  DataInv' /\ MemoryTypes'
<1>1. /\ ControlTypes /\ MemoryTypes /\ pc \in [Threads -> Places]
      /\ StreamInv /\ DeviceHolds /\ HostHolds /\ DiskHolds
  BY DEF Inv, ControlTypes, DataInv
<1>2. /\ pc[0] = "commit" /\ pc' = [pc EXCEPT ![0] = "notify"]
      /\ UNCHANGED <<disk, stream, task, array, count, popped>>
  BY CommitEffect, ThreadNames DEF counters
<1>3. /\ pc'[0] = "notify" /\ pc'[Owner] = pc[Owner]
      /\ \A op : Committing(Owner, op)' <=> Committing(Owner, op)
      /\ \A op : Committing(1, op)' <=> Committing(1, op)
      /\ Level(1)' = Level(1)
  <2>1. /\ pc'[0] = "notify"
        /\ \A u \in Threads : u # 0 =>
              /\ pc'[u] = pc[u]
              /\ \A op : Committing(u, op)' <=> Committing(u, op)
              /\ Level(u)' = Level(u)
    BY <1>1, <1>2, StepFrame, ThreadNames
  <2>2. 1 # 0
    OBVIOUS
  <2> QED
    BY <2>1, <2>2, ThreadNames
<1>4. ~FillPending
  <2> SUFFICES ASSUME FillPending PROVE FALSE
    OBVIOUS
  <2>1. Fill.kind = "fill" /\ Fill.id = task[0].id
    BY DEF Fill
  <2>2. \E i \in DOMAIN stream : stream[i] = Fill
    <3>1. CASE stream = << Fill >> \/ stream = << Fill, Load >>
      <4>1. 1 \in DOMAIN stream /\ stream[1] = Fill
        BY <3>1
      <4> QED
        BY <4>1
    <3>2. CASE stream = << Load, Fill >>
      <4>1. 2 \in DOMAIN stream /\ stream[2] = Fill
        BY <3>2
      <4> QED
        BY <4>1
    <3> QED
      BY <3>1, <3>2 DEF FillPending
  <2> QED
    BY <2>1, <2>2 DEF Pending
<1>5. /\ StreamInv' /\ (StorePending' <=> StorePending) /\ (LoadPending' <=> LoadPending)
      /\ (FillPending' <=> FillPending)
  BY <1>1, <1>2, <1>3, <1>4, StreamKept
<1>6. DeviceHolds'
  BY <1>1, <1>2, <1>3, <1>5 DEF DeviceHolds, OnDeviceAt
<1>7. /\ host' = [begin |-> host.begin + 1, end |-> host.end, slot |-> host.slot]
      /\ host.begin \in Int /\ host.end \in Int /\ host.slot \in [Host!Slots -> Int]
  BY <1>1, HostParts, MemoryFacts
<1>8. HostHolds'
  <2> SUFFICES ASSUME NEW i \in (host.begin + 1) .. (host.end + 1), OnHostAt(i)'
               PROVE  host.slot[Host!SlotOf(i)] = -i
    BY <1>7 DEF HostHolds
  <2>1. i \in host.begin .. host.end + 1
    BY <1>7
  <2>2. OnHostAt(i)
    BY <1>3, <1>7 DEF OnHostAt
  <2> QED
    BY <1>1, <2>1, <2>2 DEF HostHolds
<1>9. DiskHolds'
  BY <1>1, <1>2, <1>3, DiskKept
<1>10. MemoryTypes'
  BY <1>1, <1>2, <1>7 DEF MemoryTypes, HostType
<1> QED
  BY <1>5, <1>6, <1>8, <1>9, <1>10 DEF DataInv

LEMMA CommitDisk ==
  ASSUME Inv, Commit(1), device' = device,
         \/ task[1].op = "hostToDisk" /\ host' = Host!PopBack(host)
         \/ task[1].op = "diskToHost" /\ host' = Host!IncBack(host)
  PROVE  DataInv' /\ MemoryTypes'
<1>1. /\ ControlTypes /\ MemoryTypes /\ pc \in [Threads -> Places] /\ Sizes
      /\ StreamInv /\ DeviceHolds /\ HostHolds /\ DiskHolds
  BY DEF Inv, ControlTypes, DataInv
<1>2. /\ pc[1] = "commit" /\ pc' = [pc EXCEPT ![1] = "notify"]
      /\ UNCHANGED <<disk, stream, task, array, count, popped>>
  BY CommitEffect, ThreadNames DEF counters
<1>3. /\ pc'[1] = "notify" /\ pc'[Owner] = pc[Owner]
      /\ \A op : Committing(Owner, op)' <=> Committing(Owner, op)
      /\ \A op : Committing(0, op)' <=> Committing(0, op)
  <2>1. /\ pc'[1] = "notify"
        /\ \A u \in Threads : u # 1 =>
              /\ pc'[u] = pc[u]
              /\ \A op : Committing(u, op)' <=> Committing(u, op)
    BY <1>1, <1>2, StepFrame, ThreadNames
  <2>2. 1 # 0
    OBVIOUS
  <2> QED
    BY <2>1, <2>2, ThreadNames
<1>4. \A op : ~Committing(1, op)'
  BY <1>3 DEF Committing
<1>5. /\ StreamInv' /\ (StorePending' <=> StorePending) /\ (LoadPending' <=> LoadPending)
      /\ (FillPending' <=> FillPending)
  <2>1. FillPending => Committing(0, "hostToDevice")'
    BY <1>1, <1>3 DEF StreamInv
  <2> QED
    BY <1>1, <1>2, <1>3, <2>1, StreamKept
<1>6. DeviceHolds'
  BY <1>1, <1>2, <1>3, <1>5 DEF DeviceHolds, OnDeviceAt
<1>7. /\ host.begin \in Int /\ host.end \in Int /\ host.slot \in [Host!Slots -> Int]
      /\ host' \in HostType /\ host'.begin = host.begin /\ host'.slot = host.slot
      /\ \/ host'.end = host.end - 1
         \/ host'.end = host.end + 1 /\ task[1].op = "diskToHost"
  <2>1. /\ host.begin \in Int /\ host.end \in Int /\ host.slot \in [Host!Slots -> Int]
        /\ Host!IncBack(host) = [begin |-> host.begin, end |-> host.end + 1, slot |-> host.slot]
        /\ Host!PopBack(host) = [begin |-> host.begin, end |-> host.end - 1, slot |-> host.slot]
    BY <1>1, HostParts, MemoryFacts
  <2>2. CASE task[1].op = "hostToDisk" /\ host' = Host!PopBack(host)
    BY <2>1, <2>2 DEF HostType
  <2>3. CASE task[1].op = "diskToHost" /\ host' = Host!IncBack(host)
    BY <2>1, <2>3 DEF HostType
  <2> QED
    BY <2>2, <2>3
<1>8. HostHolds'
  <2> SUFFICES ASSUME NEW i, OnHostAt(i)'
               PROVE  host.slot[Host!SlotOf(i)] = -i
    BY <1>7 DEF HostHolds
  <2>1. /\ i \in host.begin .. host'.end
        /\ ~(i = host.begin /\ Committing(0, "deviceToHost"))
    BY <1>3, <1>4, <1>7 DEF OnHostAt
  <2>2. \/ i \in host.begin .. host.end
        \/ i = host.end + 1 /\ task[1].op = "diskToHost" /\ host.begin <= i
    BY <1>7, <2>1
  <2>3. OnHostAt(i)
    BY <1>2, <2>1, <2>2 DEF OnHostAt, Committing
  <2>4. i \in host.begin .. host.end + 1
    BY <1>7, <2>2
  <2> QED
    BY <1>1, <2>3, <2>4 DEF HostHolds
<1>9. DiskHolds'
  <2>1. Level(1)' = After(task[1])
    BY <1>2, <1>3 DEF Level, Unfinished, Begun, After
  <2>2. FilesBelow' = After(task[1])
    BY <1>4, <2>1 DEF FilesBelow
  <2>3. FilesBelow = After(task[1])
    <3>1. \/ task[1].op = "hostToDisk" /\ After(task[1]) = task[1].id + 1
          \/ task[1].op = "diskToHost" /\ After(task[1]) = task[1].id
      BY <1>1, LevelFacts, ThreadNames
    <3> QED
      BY <1>2, <3>1 DEF FilesBelow, Committing
  <2> QED
    BY <1>1, <1>2, <2>2, <2>3 DEF DiskHolds
<1>10. MemoryTypes'
  BY <1>1, <1>2, <1>7 DEF MemoryTypes
<1> QED
  BY <1>5, <1>6, <1>8, <1>9, <1>10 DEF DataInv

LEMMA CommitData ==
  ASSUME Inv, NEW t \in Threads, Commit(t)
  PROVE  DataInv' /\ MemoryTypes'
<1>1. CASE t = Owner
  <2>1. \/ task[Owner].op = "emplaceFront" /\ device' = Device!IncFront(device) /\ host' = host
        \/ task[Owner].op = "popFront" /\ device' = Device!PopFront(device) /\ host' = host
    BY <1>1, CommitEffect, ThreadNames
  <2> QED
    BY <1>1, <2>1, CommitStore, CommitLoad
<1>2. CASE t = 0
  <2>1. \/ /\ task[0].op = "deviceToHost" /\ ~Device!Empty(device)
           /\ ~Pending("store", task[0].id)
           /\ device' = Device!PopBack(device)
           /\ host' = Host!Write(host, Host!FrontSlot(host), Device!BackEntry(device))
        \/ /\ task[0].op = "hostToDevice" /\ ~Host!Empty(host)
           /\ ~Pending("fill", task[0].id)
           /\ device' = device /\ host' = Host!PopFront(host)
    <3>1. Commit(0) /\ 0 \in Threads /\ 0 # Owner /\ 0 # 1
      BY <1>2, ThreadNames
    <3> QED
      BY <3>1, CommitEffect
  <2> QED
    BY <1>2, <2>1, CommitDown, CommitUp
<1>3. CASE t = 1
  <2>1. \/ task[1].op = "hostToDisk" /\ device' = device /\ host' = Host!PopBack(host)
        \/ task[1].op = "diskToHost" /\ device' = device /\ host' = Host!IncBack(host)
    <3>1. Commit(1) /\ 1 \in Threads /\ 1 # Owner /\ 1 # 0
      BY <1>3, ThreadNames
    <3> QED
      BY <3>1, CommitEffect
  <2> QED
    BY <1>3, <2>1, CommitDisk
<1> QED
  BY <1>1, <1>2, <1>3, ThreadNames
-----------------------------------------------------------------------------
(* The invariant.                                                            *)

LEMMA InitInv == Init => Inv
<1> SUFFICES ASSUME Init PROVE Inv
  OBVIOUS
<1>1. /\ device = Device!NewDeque(Nothing) /\ host = Host!NewDeque(Nothing)
      /\ disk = [id \in BufferIds |-> Nothing] /\ stream = << >> /\ array = Nothing
      /\ mutex = [m \in Mutexes |-> Free] /\ queue = [w \in Workers |-> << >>]
      /\ task = [t \in Threads |-> [op |-> "none", id |-> 0]]
      /\ pc = [t \in Threads |-> IF t = Owner THEN "idle" ELSE "consume"]
      /\ waits = [t \in Threads |-> "none"]
      /\ pushes = 0 /\ count = 0 /\ toHost = 0 /\ toDisk = 0
      /\ popped = FALSE /\ continue = TRUE /\ failed = FALSE
  BY DEF Init
<1>2. /\ device.begin = 0 /\ device.end = -1 /\ device.slot = [s \in Device!Slots |-> 0]
      /\ device = [begin |-> 0, end |-> -1, slot |-> [s \in Device!Slots |-> 0]]
      /\ host.begin = 0 /\ host.end = -1 /\ host.slot = [s \in Host!Slots |-> 0]
      /\ host = [begin |-> 0, end |-> -1, slot |-> [s \in Host!Slots |-> 0]]
  BY <1>1 DEF Device!NewDeque, Host!NewDeque, Nothing
<1>3. MemoryTypes
  <2>1. [s \in Device!Slots |-> 0] \in [Device!Slots -> Int] /\ [s \in Host!Slots |-> 0] \in [Host!Slots -> Int]
    OBVIOUS
  <2>2. device \in DeviceType /\ host \in HostType
    BY <1>2, <2>1 DEF DeviceType, HostType
  <2>3. disk \in [BufferIds -> Int] /\ array \in Int
    BY <1>1 DEF Nothing
  <2> QED
    BY <2>2, <2>3 DEF MemoryTypes
<1>4. /\ task[0] = NoTask /\ task[1] = NoTask /\ task[Owner] = NoTask
      /\ queue[0] = << >> /\ queue[1] = << >>
      /\ \A t \in Threads : pc[t] \in {"idle", "consume"} /\ ~Busy(t) /\ ~Unfinished(t) /\ ~Inside(t)
      /\ pc[Owner] = "idle" /\ pc[0] = "consume" /\ pc[1] = "consume"
  BY <1>1, ThreadNames DEF NoTask, Busy, Unfinished, Begun, Ending, Inside
<1>5. ControlTypes
  <2>1. pc \in [Threads -> Places]
    BY <1>1 DEF Places
  <2>2. mutex \in [Mutexes -> Threads \cup {Free}] /\ waits \in [Threads -> {"none", "room", "entry"}]
    BY <1>1
  <2>3. queue = [w \in Workers |-> queue[w]] /\ task = [t \in Threads |-> task[t]]
    BY <1>1
  <2> QED
    <3>1. queue[0] \in Seq(TaskOf(MoveOps)) /\ queue[1] \in Seq(TaskOf(DiskOps))
      BY <1>4
    <3>2. /\ task[0] \in TaskOf(MoveOps) \cup {NoTask} /\ task[1] \in TaskOf(DiskOps) \cup {NoTask}
          /\ task[Owner] \in TaskOf(OwnerOps) \cup {NoTask}
      BY <1>4
    <3>3. \A t \in Threads : Busy(t) => task[t] # NoTask
      BY <1>4
    <3>4. /\ pushes \in Nat /\ count \in Nat /\ toHost \in Nat /\ toDisk \in Nat
          /\ popped \in BOOLEAN /\ continue \in BOOLEAN /\ failed \in BOOLEAN
      BY <1>1
    <3> QED
      BY <2>1, <2>2, <2>3, <3>1, <3>2, <3>3, <3>4 DEF ControlTypes
<1>6. Holds
  BY <1>1, <1>4, ThreadNames DEF Holds
<1>7. Sizes
  <2>1. Device!Size(device) = 0 /\ Host!Size(host) = 0
    BY <1>2 DEF Device!Size, Host!Size
  <2>2. 0 \in 0 .. DeviceCapacity /\ 0 \in 0 .. HostCapacity
    BY Constants
  <2> QED
    BY <1>4, <2>1, <2>2 DEF Sizes
<1>8. /\ After(NoTask) = 0 /\ Level(0) = 0 /\ Level(1) = 0 /\ Level(Owner) = 0
      /\ NoTask.op = "none"
  BY <1>4, ThreadNames DEF Level, After, NoTask, Ups
<1>9. Indices
  <2>1. \A n \in Nat : n < 1 => -n = 0 /\ -1 - n = -1
    OBVIOUS
  <2>2. ~Moving
    BY <1>4 DEF Moving
  <2>3. \A t \in Threads : Level(t) \in Nat /\ Level(t) < 1
    BY <1>8, ThreadNames
  <2>4. \A t \in Threads : -Level(t) = 0 /\ -1 - Level(t) = -1
    BY <2>1, <2>3
  <2> QED
    BY <1>2, <2>2, <2>4, ThreadNames DEF Indices
<1>10. Orders
  <2>1. Len(<< >>) = 0
    OBVIOUS
  <2> QED
    BY <1>1, <1>4, <1>8, <2>1 DEF Orders, Follow
<1>11. Phase
  <2>1. Accepted = 0
    BY <1>1, <1>4, ThreadNames DEF Accepted
  <2>2. Pushing
    BY <1>1, <1>4, <1>8, <2>1, Constants DEF Pushing, Nothing
  <2> QED
    BY <1>1, <2>2 DEF Phase
<1>12. Writes
  BY <1>1, <1>4, <1>8, ThreadNames, Constants DEF Writes, Writing
<1>13. HostUsed
  BY <1>1, <1>4, ThreadNames DEF HostUsed
<1>14. StreamInv
  BY <1>1, StreamIs DEF StreamInv
<1>15. DeviceHolds
  <2>1. \A i : ~OnDeviceAt(i)
    BY <1>2, <1>4 DEF OnDeviceAt, Committing
  <2> QED
    BY <2>1 DEF DeviceHolds
<1>16. HostHolds
  <2>1. \A i : ~OnHostAt(i)
    BY <1>2, <1>4 DEF OnHostAt, Committing
  <2> QED
    BY <2>1 DEF HostHolds
<1>17. DiskHolds
  <2>1. FilesBelow = 0
    BY <1>4, <1>8 DEF FilesBelow, Committing
  <2>2. \A id \in BufferIds : ~(id < 0)
    BY Constants DEF BufferIds
  <2> QED
    BY <1>1, <2>1, <2>2 DEF DiskHolds
<1> QED
  BY <1>3, <1>5, <1>6, <1>7, <1>9, <1>10, <1>11, <1>12, <1>13, <1>14, <1>15, <1>16, <1>17
     DEF Inv, ControlInv, DataInv

\* A step that changes nothing.
LEMMA StutterInv ==
  ASSUME Inv, UNCHANGED vars
  PROVE  Inv'
<1>1. /\ UNCHANGED <<device, host, disk, stream, mutex, queue, task, pc, waits, array>>
      /\ UNCHANGED <<pushes, count, toHost, toDisk, popped, continue, failed>>
  BY DEF vars, deques, counters
<1>2. MemoryTypes' /\ ControlTypes' /\ Holds' /\ Sizes'
  BY <1>1 DEF Inv, MemoryTypes, ControlTypes, Holds, Sizes, CommitSafe, Inside, Busy, Unfinished,
              NeedsRoom, NeedsEntry
<1>3. /\ \A t : Unfinished(t)' <=> Unfinished(t)
      /\ \A t : Busy(t)' <=> Busy(t)
      /\ \A t : Level(t)' = Level(t)
      /\ \A t : \A op : Committing(t, op)' <=> Committing(t, op)
  BY <1>1 DEF Unfinished, Busy, Level, Committing, Before, After
<1>4. ControlInv'
  BY <1>1, <1>3 DEF Inv, ControlInv, Indices, Moving, Orders, Follow, Phase, Pushing, Popping, Accepted,
                    Writes, Writing, Reading, HostUsed, Before, After, Moved, Written
<1>5. Store' = Store /\ Load' = Load /\ Fill' = Fill
  BY <1>1 DEF Store, Load, Fill
<1>6. /\ (StorePending' <=> StorePending) /\ (LoadPending' <=> LoadPending)
      /\ (FillPending' <=> FillPending)
  BY <1>1, <1>5 DEF StorePending, LoadPending, FillPending
<1>7. StreamInv'
  BY <1>1, <1>3, <1>5, <1>6 DEF Inv, DataInv, StreamInv
<1>8. DeviceHolds' /\ HostHolds' /\ DiskHolds'
  BY <1>1, <1>3, <1>6 DEF Inv, DataInv, DeviceHolds, OnDeviceAt, HostHolds, OnHostAt, DiskHolds, FilesBelow
<1> QED
  BY <1>2, <1>4, <1>7, <1>8 DEF Inv, DataInv

LEMMA StepInv == Inv /\ [Next]_vars => Inv'
<1> SUFFICES ASSUME Inv, [Next]_vars PROVE Inv'
  OBVIOUS
<1>1. Holds' /\ Sizes'
  BY HoldsStep, SizesStep
<1>2. CASE UNCHANGED vars
  BY <1>2, StutterInv
<1>3. ASSUME ~failed, NEW t \in Threads, Quiet(t)
      PROVE  Inv'
  BY <1>1, <1>3, QuietTypes, QuietControl, QuietData DEF Inv
<1>4. ASSUME ~failed, NEW t \in Threads, Transfer(t) \/ Commit(t)
      PROVE  Inv'
  <2>1. ControlTypes' /\ ControlInv'
    BY <1>4, OperationTypes, OperationControl
  <2>2. DataInv' /\ MemoryTypes'
    BY <1>4, TransferData, CommitData
  <2> QED
    BY <1>1, <2>1, <2>2 DEF Inv
<1>5. ASSUME ~failed, NEW w \in Workers, TakeTask(w) \/ Finish(w)
      PROVE  Inv'
  <2>1. ControlTypes' /\ ControlInv'
    BY <1>5, TakeTaskStep, FinishStep
  <2>2. DataInv' /\ MemoryTypes'
    BY <1>5, WorkerData
  <2> QED
    BY <1>1, <2>1, <2>2 DEF Inv
<1>6. ASSUME ~failed, DeviceCopies
      PROVE  Inv'
  BY <1>1, <1>6, PlainTypes, PlainControl, CopyData DEF Inv
<1>7. ASSUME ~failed, ComputeArray \/ PushAsync \/ Pushed \/ PopPrelude \/ PopAsync \/ PopWait \/ Stop
      PROVE  Inv'
  <2>1. DataInv' /\ MemoryTypes'
    BY <1>7, OwnerData
  <2>2. CASE ComputeArray \/ PopPrelude \/ PopWait \/ Stop
    BY <1>1, <1>7, <2>1, <2>2, PlainTypes, PlainControl DEF Inv
  <2>3. CASE PushAsync
    BY <1>1, <1>7, <2>1, <2>3, PushAsyncStep DEF Inv
  <2>4. CASE Pushed
    BY <1>1, <1>7, <2>1, <2>4, PushedStep DEF Inv
  <2>5. CASE PopAsync
    BY <1>1, <1>7, <2>1, <2>5, PopAsyncStep DEF Inv
  <2> QED
    BY <1>7, <2>2, <2>3, <2>4, <2>5
<1> QED
  BY <1>2, <1>3, <1>4, <1>5, <1>6, <1>7, StepCases

\* Wherever the owner, the two workers and the device are: no thread is inside
\* an operation without its mutexes, no queue is overfull, the tasks of a worker
\* follow one another, and every buffer is in the queue or the file, and in the
\* slot, that its number says.
THEOREM InvHolds == Spec => []Inv
<1>1. Init => Inv
  BY InitInv
<1>2. Inv /\ [Next]_vars => Inv'
  BY StepInv
<1> QED
  BY <1>1, <1>2, PTL DEF Spec

\* The only GEOS_ERROR ever reached is that of pushAsync(), which needs a host
\* queue unless the device holds all buffers.  No operation finds a queue full or
\* empty once it has started, and none a file missing.
THEOREM OnlyErrorIsNoRoom ==
  Spec => [](failed => HostCapacity = 0 /\ DeviceCapacity < MaxBuffers)
<1> DEFINE NoRoom == HostCapacity = 0 /\ DeviceCapacity < MaxBuffers
           Fine   == failed => NoRoom
<1>1. Init => Inv /\ Fine
  BY InitInv DEF Init
<1>2. ASSUME Inv, Fine, [Next]_vars PROVE Fine'
  <2>1. CASE UNCHANGED vars
    BY <1>2, <2>1 DEF vars
  <2>2. ASSUME NEW t \in Threads, Quiet(t) \/ Transfer(t) \/ Commit(t) PROVE Fine'
    <3>1. CASE Quiet(t)
      <4>1. ControlTypes
        BY <1>2 DEF Inv
      <4>2. failed' = failed
        BY <3>1, <4>1, QuietPlaces
      <4> QED
        BY <1>2, <4>2
    <3>2. CASE Transfer(t)
      BY <1>2, <3>2, TransferEffect
    <3>3. CASE Commit(t)
      BY <1>2, <3>3, CommitEffect
    <3> QED
      BY <2>2, <3>1, <3>2, <3>3
  <2>3. CASE PushAsync
    BY <2>3 DEF PushAsync
  <2>4. CASE DeviceCopies \/ ComputeArray \/ Pushed \/ PopPrelude \/ PopAsync \/ PopWait \/ Stop
    <3>1. failed' = failed
      BY <2>4 DEF DeviceCopies, ComputeArray, Pushed, PopPrelude, PopAsync, PopWait, Stop
    <3> QED
      BY <1>2, <3>1
  <2>5. ASSUME NEW w \in Workers, TakeTask(w) \/ Finish(w) PROVE Fine'
    <3>1. failed' = failed
      BY <2>5 DEF TakeTask, Finish
    <3> QED
      BY <1>2, <3>1
  <2> QED
    BY <1>2, <2>1, <2>2, <2>3, <2>4, <2>5, StepCases
<1>3. Inv /\ Fine /\ [Next]_vars => Inv' /\ Fine'
  BY <1>2, StepInv
<1> QED
  BY <1>1, <1>3, PTL DEF Spec
-----------------------------------------------------------------------------
(* The stack of CudaProperties holds Depth, Depth - 1, ... 1: its parts are  *)
(* descending runs that meet.                                                *)

Down(a, b) == DeviceFacts!Down(a, b)

LEMMA RunIs ==
  ASSUME NEW a \in Nat, NEW b \in Nat, b <= a, NEW s,
         DOMAIN s = 1 .. a - b, s = [i \in DOMAIN s |-> s[i]],
         \A i \in 1 .. a - b : s[i] = a + 1 - i
  PROVE  s = Down(a, b)
BY DEF Down, DeviceFacts!Down

LEMMA Runs ==
  /\ \A a \in Nat : << >> = Down(a, a)
  /\ \A a, b, c \in Nat : c <= b /\ b <= a => Down(a, b) \o Down(b, c) = Down(a, c)
  /\ \A a, b \in Nat : b < a =>
        /\ Down(a, b) # << >> /\ Head(Down(a, b)) = a /\ Tail(Down(a, b)) = Down(a - 1, b)
        /\ << a >> = Down(a, a - 1)
        /\ << a >> \o Down(a - 1, b) = Down(a, b)
<1>1. DeviceFacts!CapacityAssumption
  BY Constants DEF DeviceFacts!CapacityAssumption
<1>2. \A a \in Nat : << >> = Down(a, a)
  BY <1>1, DeviceFacts!DownNothing DEF Down
<1>3. ASSUME NEW a \in Nat, NEW b \in Nat, NEW c \in Nat, c <= b, b <= a
      PROVE  Down(a, b) \o Down(b, c) = Down(a, c)
  BY <1>1, <1>3, DeviceFacts!DownMeets DEF Down
<1>4. ASSUME NEW a \in Nat, NEW b \in Nat, b < a
      PROVE  /\ Down(a, b) # << >> /\ Head(Down(a, b)) = a /\ Tail(Down(a, b)) = Down(a - 1, b)
             /\ << a >> = Down(a, a - 1)
             /\ << a >> \o Down(a - 1, b) = Down(a, b)
  BY <1>1, <1>4, DeviceFacts!DownEnds DEF Down
<1> QED
  BY <1>2, <1>3, <1>4

\* What the copies of the stream write.
LEMMA StreamWrites ==
  ASSUME StreamInv, NEW slot
  PROVE  /\ (\E i \in 1 .. Len(stream) : stream[i].kind = "store" /\ stream[i].slot = slot)
               <=> StorePending /\ slot = Store.slot
         /\ (\E i \in 1 .. Len(stream) : stream[i].kind = "fill" /\ stream[i].slot = slot)
               <=> FillPending /\ slot = Fill.slot
<1> DEFINE s == Store
           l == Load
           f == Fill
<1>1. s.kind = "store" /\ l.kind = "load" /\ f.kind = "fill"
  BY DEF Store, Load, Fill
<1>2. stream = << >> \/ stream = << s >> \/ stream = << l >> \/ stream = << f >>
      \/ stream = << l, f >> \/ stream = << f, l >>
  BY DEF StreamInv, StorePending, LoadPending, FillPending
<1>3. /\ stream = << >> => ~StorePending /\ ~FillPending
      /\ stream = << s >> => StorePending /\ ~FillPending
      /\ stream = << l >> => ~StorePending /\ ~FillPending
      /\ stream = << f >> => FillPending /\ ~StorePending
      /\ stream = << l, f >> => ~StorePending /\ FillPending
      /\ stream = << f, l >> => ~StorePending /\ FillPending
  BY StreamIs
<1> HIDE DEF s, l, f
<1> DEFINE Copied(kind) == \E i \in 1 .. Len(stream) : stream[i].kind = kind /\ stream[i].slot = slot
<1>4. (Copied("store") <=> StorePending /\ slot = s.slot) /\ (Copied("fill") <=> FillPending /\ slot = f.slot)
  <2>1. CASE stream = << >>
    <3>1. 1 .. Len(stream) = {}
      BY <2>1
    <3> QED
      BY <1>3, <2>1, <3>1
  <2>2. CASE stream = << s >> \/ stream = << l >> \/ stream = << f >>
    <3>1. \A i \in 1 .. Len(stream) : i = 1
      BY <2>2
    <3>2. 1 \in 1 .. Len(stream)
      BY <2>2
    <3>3. \A kind : Copied(kind) <=> stream[1].kind = kind /\ stream[1].slot = slot
      BY <3>1, <3>2
    <3>4. CASE stream = << s >>
      <4>1. stream[1] = s
        BY <3>4
      <4> QED
        BY <1>1, <1>3, <3>3, <3>4, <4>1
    <3>5. CASE stream = << l >>
      <4>1. stream[1] = l
        BY <3>5
      <4> QED
        BY <1>1, <1>3, <3>3, <3>5, <4>1
    <3>6. CASE stream = << f >>
      <4>1. stream[1] = f
        BY <3>6
      <4> QED
        BY <1>1, <1>3, <3>3, <3>6, <4>1
    <3> QED
      BY <2>2, <3>4, <3>5, <3>6
  <2>3. CASE stream = << l, f >> \/ stream = << f, l >>
    <3>0. Len(stream) = 2
      <4>1. Len(<< l, f >>) = 2 /\ Len(<< f, l >>) = 2
        OBVIOUS
      <4> QED
        BY <2>3, <4>1
    <3>1. \A i \in 1 .. Len(stream) : i = 1 \/ i = 2
      BY <3>0
    <3>2. 1 \in 1 .. Len(stream) /\ 2 \in 1 .. Len(stream)
      BY <3>0
    <3>3. \A kind : Copied(kind) <=> \/ stream[1].kind = kind /\ stream[1].slot = slot
                                     \/ stream[2].kind = kind /\ stream[2].slot = slot
      BY <3>1, <3>2
    <3>4. CASE stream = << l, f >>
      <4>1. stream[1] = l /\ stream[2] = f
        BY <3>4
      <4> QED
        BY <1>1, <1>3, <3>3, <3>4, <4>1
    <3>5. CASE stream = << f, l >>
      <4>1. stream[1] = f /\ stream[2] = l
        BY <3>5
      <4> QED
        BY <1>1, <1>3, <3>3, <3>5, <4>1
    <3> QED
      BY <2>3, <3>4, <3>5
  <2> QED
    BY <1>2, <2>1, <2>2, <2>3
<1> QED
  BY <1>4 DEF s, f

\* A copy to the array waits in the stream.
Loads == \E i \in DOMAIN stream : stream[i].kind = "load"

LEMMA LoadsWait ==
  ASSUME StreamInv
  PROVE  /\ Loads <=> LoadPending
         /\ LoadPending =>
              \E j \in DOMAIN stream :
                 /\ stream[j] = Load
                 /\ \A i \in DOMAIN stream : stream[i].kind = "load" => i = j
                 /\ IF stream = << Fill, Load >> THEN j = 2 /\ stream[1] = Fill ELSE j = 1
<1> DEFINE s == Store
           l == Load
           f == Fill
<1>1. s.kind = "store" /\ l.kind = "load" /\ f.kind = "fill"
  BY DEF Store, Load, Fill
<1>2. stream = << >> \/ stream = << s >> \/ stream = << l >> \/ stream = << f >>
      \/ stream = << l, f >> \/ stream = << f, l >>
  BY DEF StreamInv, StorePending, LoadPending, FillPending
<1>3. /\ stream = << >> => ~LoadPending
      /\ stream = << s >> => ~LoadPending
      /\ stream = << l >> => LoadPending /\ stream # << f, l >>
      /\ stream = << f >> => ~LoadPending
      /\ stream = << l, f >> => LoadPending /\ stream # << f, l >>
      /\ stream = << f, l >> => LoadPending
  BY StreamIs
<1> HIDE DEF s, l, f
<1> DEFINE Only(j) == /\ stream[j] = l
                      /\ \A i \in DOMAIN stream : stream[i].kind = "load" => i = j
                      /\ IF stream = << f, l >> THEN j = 2 /\ stream[1] = f ELSE j = 1
<1>4. (Loads <=> LoadPending) /\ (LoadPending => \E j \in DOMAIN stream : Only(j))
  <2>1. CASE stream = << >> \/ stream = << s >> \/ stream = << f >>
    <3>1. \A i \in DOMAIN stream : stream[i] = s \/ stream[i] = f
      <4>1. CASE stream = << >>
        <5>1. DOMAIN stream = {}
          BY <4>1
        <5> QED
          BY <5>1
      <4>2. CASE stream = << s >>
        <5>1. \A i \in DOMAIN stream : i = 1
          BY <4>2
        <5>2. stream[1] = s
          BY <4>2
        <5> QED
          BY <5>1, <5>2
      <4>3. CASE stream = << f >>
        <5>1. \A i \in DOMAIN stream : i = 1
          BY <4>3
        <5>2. stream[1] = f
          BY <4>3
        <5> QED
          BY <5>1, <5>2
      <4> QED
        BY <2>1, <4>1, <4>2, <4>3
    <3> QED
      BY <1>1, <1>3, <2>1, <3>1 DEF Loads
  <2>2. CASE stream = << l >>
    <3>1. (\A i \in DOMAIN stream : i = 1) /\ 1 \in DOMAIN stream /\ stream[1] = l
      BY <2>2
    <3>2. LoadPending /\ Only(1)
      BY <1>3, <2>2, <3>1
    <3> HIDE DEF Only
    <3>3. Loads
      BY <1>1, <3>1 DEF Loads
    <3> QED
      BY <3>1, <3>2, <3>3
  <2>3. CASE stream = << l, f >>
    <3>1. /\ \A i \in DOMAIN stream : i = 1 \/ i = 2
          /\ 1 \in DOMAIN stream /\ stream[1] = l /\ stream[2] = f
      BY <2>3
    <3>2. LoadPending /\ Only(1)
      BY <1>1, <1>3, <2>3, <3>1
    <3> HIDE DEF Only
    <3>3. Loads
      BY <1>1, <3>1 DEF Loads
    <3> QED
      BY <3>1, <3>2, <3>3
  <2>4. CASE stream = << f, l >>
    <3>1. /\ \A i \in DOMAIN stream : i = 1 \/ i = 2
          /\ 2 \in DOMAIN stream /\ stream[1] = f /\ stream[2] = l
      BY <2>4
    <3>2. LoadPending /\ Only(2)
      BY <1>1, <1>3, <2>4, <3>1
    <3> HIDE DEF Only
    <3>3. Loads
      BY <1>1, <3>1 DEF Loads
    <3> QED
      BY <3>1, <3>2, <3>3
  <2> QED
    BY <1>2, <2>1, <2>2, <2>3, <2>4
<1>5. (Loads <=> LoadPending) /\ (LoadPending => \E j \in DOMAIN stream :
                 /\ stream[j] = l
                 /\ \A i \in DOMAIN stream : stream[i].kind = "load" => i = j
                 /\ IF stream = << f, l >> THEN j = 2 /\ stream[1] = f ELSE j = 1)
  BY <1>4
<1> QED
  BY <1>5 DEF l, f
-----------------------------------------------------------------------------
(* The parts of the stack.                                                   *)

\* The last array that is on the device but for a pop that is being executed,
\* and the last one below the device
Top    == IF Committing(Owner, "popFront") THEN Level(Owner) - 1 ELSE Level(Owner)
Bottom == IF Moving THEN task[0].id ELSE Level(0)

LEMMA Ranges ==
  ASSUME Inv
  PROVE  /\ Level(Owner) \in Nat /\ Top \in Nat /\ Bottom \in Nat /\ Level(1) \in Nat
         /\ Level(1) <= Bottom /\ Bottom <= Top /\ Top <= Level(Owner) /\ Bottom <= Level(Owner)
         /\ device.begin = -Level(Owner) /\ device.end = -1 - Bottom /\ host.end = -1 - Level(1)
         /\ Committing(Owner, "popFront") => Bottom < Level(Owner) /\ Top = Level(Owner) - 1
         /\ ~Committing(Owner, "popFront") => Top = Level(Owner)
         /\ Moving => host.begin = -(Bottom + 1) /\ Bottom = task[0].id
         /\ ~Moving => host.begin = -Bottom
<1>1. ControlTypes /\ MemoryTypes /\ Indices /\ Orders /\ Writes /\ Sizes
  BY DEF Inv, ControlInv
<1> DEFINE h == Level(Owner)
           b == Bottom
           l == Level(1)
<1>2. /\ h \in Nat /\ b \in Nat /\ l \in Nat
      /\ device.begin = -h /\ device.end = -1 - b /\ host.end = -1 - l
  <2>1. /\ Level(0) \in Nat /\ Level(1) \in Nat /\ Level(Owner) \in Nat /\ task[0].id \in Nat
    BY <1>1, IndexFacts, ThreadNames
  <2> QED
    BY <1>1, <2>1 DEF Indices, Bottom
<1>3. /\ Moving => host.begin = -(b + 1) /\ b = task[0].id
      /\ ~Moving => host.begin = -b
  BY <1>1 DEF Indices, Bottom
<1> HIDE DEF h, b, l
<1>4. b <= h
  <2>1. device.begin <= device.end + 1
    BY <1>1, SizeFacts
  <2> QED
    BY <1>2, <2>1
<1>5. Committing(Owner, "popFront") => b < h
  <2> SUFFICES ASSUME Committing(Owner, "popFront") PROVE b < h
    OBVIOUS
  <2>1. ~Device!Empty(device)
    BY <1>1, ThreadNames DEF Sizes, CommitSafe, Committing
  <2>2. device.end - device.begin + 1 # 0
    BY <1>1, <2>1, SizeFacts
  <2>3. b # h
    BY <1>2, <2>2
  <2> QED
    BY <1>2, <1>4, <2>3
<1>6. l <= b
  <2>0. host.begin <= host.end + 1
    BY <1>1, SizeFacts
  <2>1. CASE ~Moving
    BY <1>2, <1>3, <2>0, <2>1
  <2>2. CASE Moving /\ task[0].op = "hostToDevice"
    <3>1. Committing(0, "hostToDevice")
      BY <2>2 DEF Moving, Committing
    <3>2. host.begin <= host.end
      BY <3>1, FillFacts
    <3> QED
      BY <1>2, <1>3, <2>2, <3>2
  <2>3. CASE Moving /\ task[0].op # "hostToDevice"
    <3>1. Unfinished(0) /\ Busy(0)
      BY <2>3 DEF Moving, Unfinished, Busy
    <3>2. task[0].op = "deviceToHost"
      <4>1. task[0].op \in MoveOps
        BY <1>1, <3>1, TaskTypes
      <4> QED
        BY <2>3, <4>1 DEF MoveOps
    <3>3. Writing /\ toDisk <= task[0].id
      BY <1>1, <2>3, <3>1 DEF Writes, Writing
    <3>4. Level(0) = b
      <4>1. Level(0) = task[0].id
        BY <1>1, <3>1, <3>2, LevelFacts, ThreadNames
      <4> QED
        BY <1>3, <2>3, <4>1
    <3>5. CASE Unfinished(1)
      <4>1. task[1].op = "hostToDisk" /\ task[1].id < Level(0)
        BY <3>3, <3>5 DEF Writing
      <4>2. Level(1) = task[1].id
        BY <1>1, <3>5, <4>1, LevelFacts, ThreadNames
      <4> QED
        BY <1>2, <3>4, <4>1, <4>2 DEF l
    <3>6. CASE ~Unfinished(1)
      <4>1. Level(1) = After(task[1]) /\ Follow(queue[1], After(task[1]), toDisk)
        BY <1>1, <3>6, LevelFacts, ThreadNames DEF Orders
      <4>2. CASE queue[1] = << >>
        <5>1. Level(1) = toDisk
          BY <4>1, <4>2 DEF Follow
        <5> QED
          BY <1>2, <1>3, <2>3, <3>3, <5>1 DEF l
      <4>3. CASE queue[1] # << >>
        <5>1. queue[1] \in Seq(TaskOf(DiskOps))
          BY <1>1 DEF ControlTypes
        <5>2. 1 \in 1 .. Len(queue[1])
          BY <4>3, <5>1
        <5>3. queue[1][1].op = "hostToDisk" /\ queue[1][1].id < Level(0)
          BY <3>3, <5>2 DEF Writing
        <5>4. Before(queue[1][1]) = Level(1)
          BY <4>1, <4>3 DEF Follow
        <5>5. Level(1) = queue[1][1].id
          BY <5>3, <5>4 DEF Before, Ups
        <5> QED
          BY <1>2, <3>4, <5>3, <5>5 DEF l
      <4> QED
        BY <4>2, <4>3
    <3> QED
      BY <3>5, <3>6
  <2> QED
    BY <2>1, <2>2, <2>3
<1>7. /\ Committing(Owner, "popFront") => Top = h - 1
      /\ ~Committing(Owner, "popFront") => Top = h
  BY DEF Top, h
<1>8. Top \in Nat /\ b <= Top /\ Top <= h
  <2>1. CASE Committing(Owner, "popFront")
    BY <1>2, <1>5, <1>7, <2>1
  <2>2. CASE ~Committing(Owner, "popFront")
    BY <1>2, <1>4, <1>7, <2>2
  <2> QED
    BY <2>1, <2>2
<1> QED
  BY <1>2, <1>3, <1>4, <1>5, <1>6, <1>7, <1>8 DEF h, b, l

\* Once the stream has been executed, the slot of every entry of the device
\* queue holds the array that belongs there.
LEMMA SlotHolds ==
  ASSUME Inv, NEW i \in Int, device.begin <= i, i <= device.end
  PROVE  InSlot(Device!SlotOf(i), Len(stream)) = -i
<1> DEFINE slot == Device!SlotOf(i)
<1>1. /\ ControlTypes /\ MemoryTypes /\ Phase /\ Sizes /\ StreamInv /\ DeviceHolds
  BY DEF Inv, ControlInv, DataInv
<1>2. InSlot(slot, Len(stream)) =
        IF StorePending /\ slot = Store.slot THEN array
        ELSE IF FillPending /\ slot = Fill.slot THEN Host!FrontEntry(host) ELSE device.slot[slot]
  <2> HIDE DEF slot
  <2>1. /\ (\E n \in 1 .. Len(stream) : stream[n].kind = "store" /\ stream[n].slot = slot)
              <=> StorePending /\ slot = Store.slot
        /\ (\E n \in 1 .. Len(stream) : stream[n].kind = "fill" /\ stream[n].slot = slot)
              <=> FillPending /\ slot = Fill.slot
    BY <1>1, StreamWrites
  <2> QED
    BY <2>1 DEF InSlot
<1>3. /\ count \in Nat /\ device.begin \in Int /\ device.end \in Int
      /\ device.end - device.begin + 1 <= DeviceCapacity
  BY <1>1, OwnerIndex, SizeFacts
<1>4. device.slot[slot] = -i \/ (StorePending /\ i = -count) \/ (FillPending /\ i = device.end)
  <2>1. i \in device.begin - 1 .. device.end /\ OnDeviceAt(i)
    BY <1>3 DEF OnDeviceAt
  <2> QED
    BY <1>1, <2>1 DEF DeviceHolds
<1>5. CASE StorePending
  <2>1. ~popped /\ pc[Owner] \in {"commit", "idle"} \cup Ending /\ ~FillPending
    BY <1>1, <1>5, StreamParts DEF StreamInv
  <2>2. array = count /\ Store.slot = Device!SlotOf(-count)
    BY <1>1, <2>1 DEF Phase, Pushing, Ending, Store
  <2>3. CASE i = -count
    <3>1. slot = Store.slot /\ -i = count
      BY <1>3, <2>2, <2>3
    <3> QED
      BY <1>2, <1>5, <2>2, <3>1
  <2>4. CASE i # -count
    <3>1. device.slot[slot] = -i
      BY <1>4, <2>1, <2>4
    <3>2. slot # Store.slot
      <4> DEFINE m == -count
      <4>1. m \in Int /\ (m = device.begin \/ (m = device.begin - 1 /\ device.end - device.begin + 1 # DeviceCapacity))
        <5>1. CASE Unfinished(Owner)
          <6>1. Busy(Owner) /\ pc[Owner] = "commit"
            BY <2>1, <5>1 DEF Busy, Unfinished, Begun, Ending
          <6>2. task[Owner].op \in OwnerOps
            BY <1>1, <6>1, TaskTypes
          <6>3. task[Owner].op = "emplaceFront"
            BY <1>1, <2>1, <6>2 DEF Phase, Pushing, OwnerOps
          <6>4. ~Device!Full(device)
            BY <1>1, <6>1, <6>3, ThreadNames DEF Sizes, CommitSafe
          <6>5. device.end - device.begin + 1 # DeviceCapacity
            BY <1>1, <6>4, SizeFacts
          <6> QED
            BY <1>3, <5>1, <6>3, <6>5, OwnerIndex
        <5>2. CASE ~Unfinished(Owner)
          BY <1>3, <5>2, OwnerIndex
        <5> QED
          BY <5>1, <5>2
      <4>2. i # m
        BY <2>4
      <4> HIDE DEF m
      <4>3. -DeviceCapacity < m - i /\ m - i < DeviceCapacity
        <5>1. \A a, b, c, d \in Int : \A e \in Nat :
                 /\ e > 0 /\ a <= d /\ d <= b /\ b - a + 1 <= e
                 /\ c = a \/ (c = a - 1 /\ b - a + 1 # e)
                 => -e < c - d /\ c - d < e
          OBVIOUS
        <5> QED
          BY <1>3, <4>1, <5>1, Constants
      <4>4. Device!SlotOf(m) # slot
        BY <4>1, <4>2, <4>3, DeviceSlots
      <4> QED
        BY <2>2, <4>4 DEF m
    <3> QED
      BY <1>2, <2>1, <3>1, <3>2
  <2> QED
    BY <2>3, <2>4
<1>6. CASE ~StorePending /\ FillPending
  <2>1. Committing(0, "hostToDevice")
    BY <1>1, <1>6 DEF StreamInv
  <2> DEFINE m == -(task[0].id + 1)
  <2>2. device.end = m /\ Host!FrontEntry(host) = -m /\ Fill.slot = Device!SlotOf(m) /\ m \in Int
    <3>1. device.end = -(task[0].id + 1) /\ Host!FrontEntry(host) = task[0].id + 1 /\ task[0].id \in Nat
      BY <2>1, FillFacts
    <3> QED
      BY <3>1 DEF Fill
  <2> HIDE DEF m
  <2>3. CASE i = m
    BY <1>2, <1>6, <2>2, <2>3
  <2>4. CASE i # m
    <3>1. device.slot[slot] = -i
      BY <1>4, <1>6, <2>2, <2>4
    <3>2. -DeviceCapacity < m - i /\ m - i < DeviceCapacity
      <4>1. \A a, b, d \in Int : \A e \in Nat :
               e > 0 /\ a <= d /\ d <= b /\ b - a + 1 <= e => -e < b - d /\ b - d < e
        OBVIOUS
      <4> QED
        BY <1>3, <2>2, <4>1, Constants
    <3>3. Device!SlotOf(m) # slot
      BY <2>2, <2>4, <3>2, DeviceSlots
    <3> QED
      BY <1>2, <1>6, <2>2, <3>1, <3>3
  <2> QED
    BY <2>3, <2>4
<1>7. CASE ~StorePending /\ ~FillPending
  BY <1>2, <1>4, <1>7
<1> QED
  BY <1>5, <1>6, <1>7

LEMMA DeviceRun ==
  ASSUME Inv
  PROVE  OnDevice = Down(Top, Bottom)
<1> DEFINE all == [i \in 1 .. Device!Size(device) |->
                    InSlot(Device!SlotOf(device.begin + i - 1), Len(stream))]
           h == Level(Owner)
           b == Bottom
<1>1. /\ h \in Nat /\ b \in Nat /\ b <= h /\ device.begin = -h /\ device.end = -1 - b
      /\ Committing(Owner, "popFront") => b < h /\ Top = h - 1
      /\ ~Committing(Owner, "popFront") => Top = h
  BY Ranges
<1>2. Device!Size(device) = h - b
  <2>1. Device!Size(device) = device.end - device.begin + 1
    BY DEF Device!Size
  <2> HIDE DEF h, b
  <2> QED
    BY <1>1, <2>1
<1>3. ASSUME NEW i \in 1 .. h - b
      PROVE  InSlot(Device!SlotOf(device.begin + i - 1), Len(stream)) = h + 1 - i
  <2> DEFINE j == device.begin + i - 1
  <2> HIDE DEF h, b
  <2>1. j \in Int /\ device.begin <= j /\ j <= device.end /\ -j = h + 1 - i
    BY <1>1
  <2> HIDE DEF j
  <2>2. InSlot(Device!SlotOf(j), Len(stream)) = -j
    BY <2>1, SlotHolds
  <2> QED
    BY <2>1, <2>2 DEF j
<1>4. all = Down(h, b)
  <2>1. DOMAIN all = 1 .. h - b /\ all = [i \in DOMAIN all |-> all[i]]
    BY <1>2
  <2>2. \A i \in 1 .. h - b : all[i] = h + 1 - i
    BY <1>2, <1>3
  <2> HIDE DEF all, h, b
  <2> QED
    BY ONLY <1>1, <2>1, <2>2, RunIs
<1>5. OnDevice = IF Committing(Owner, "popFront") THEN Tail(all) ELSE all
  BY DEF OnDevice
<1> HIDE DEF all, h
<1>6. CASE Committing(Owner, "popFront")
  <2>1. Tail(Down(h, b)) = Down(h - 1, b)
    <3> HIDE DEF b
    <3> QED
      BY <1>1, <1>6, Runs
  <2> QED
    BY <1>1, <1>4, <1>5, <1>6, <2>1
<1>7. CASE ~Committing(Owner, "popFront")
  BY <1>1, <1>4, <1>5, <1>7
<1> QED
  BY <1>6, <1>7

LEMMA HostRun ==
  ASSUME Inv
  PROVE  OnHost = Down(Bottom, Level(1))
<1> DEFINE all == Host!Contents(host)
           b == Bottom
           l == Level(1)
<1>1. ControlTypes /\ MemoryTypes /\ HostHolds /\ host.begin \in Int /\ host.end \in Int
  BY MemoryFacts DEF Inv, DataInv
<1>2. /\ b \in Nat /\ l \in Nat /\ l <= b /\ host.end = -1 - l
      /\ Moving => host.begin = -(b + 1)
      /\ ~Moving => host.begin = -b
  BY Ranges
<1>3. ASSUME NEW i \in Int, host.begin <= i, i <= host.end, i # host.begin \/ ~Moving
      PROVE  host.slot[Host!SlotOf(i)] = -i
  <2>1. i \in host.begin .. host.end + 1 /\ OnHostAt(i)
    BY <1>1, <1>3 DEF OnHostAt, Committing, Moving
  <2> QED
    BY <1>1, <2>1 DEF HostHolds
<1>4. all = [i \in 1 .. host.end - host.begin + 1 |-> host.slot[Host!SlotOf(host.begin + i - 1)]]
  BY DEF Host!Contents, Host!Size
<1> HIDE DEF b, l, all
<1>5. CASE ~Moving
  <2>1. OnHost = all
    BY <1>5 DEF OnHost, Committing, Moving, all
  <2>2. host.end - host.begin + 1 = b - l
    BY <1>1, <1>2, <1>5
  <2>3. DOMAIN all = 1 .. b - l /\ all = [i \in DOMAIN all |-> all[i]]
    BY <1>4, <2>2
  <2>4. ASSUME NEW i \in 1 .. b - l PROVE all[i] = b + 1 - i
    <3> DEFINE j == host.begin + i - 1
    <3>1. j \in Int /\ host.begin <= j /\ j <= host.end /\ -j = b + 1 - i
      BY <1>1, <1>2, <1>5
    <3>2. all[i] = host.slot[Host!SlotOf(j)]
      BY <1>4, <2>2
    <3> HIDE DEF j
    <3> QED
      BY <1>3, <1>5, <3>1, <3>2
  <2>5. all = Down(b, l)
    BY ONLY <1>2, <2>3, <2>4, RunIs
  <2> QED
    BY <2>1, <2>5 DEF b, l
<1>6. CASE Moving
  <2>1. OnHost = Tail(all)
    <3>1. pc[0] = "commit" /\ task[0].op \in MoveOps
      <4>1. Busy(0)
        BY <1>6 DEF Moving, Busy, Unfinished
      <4> QED
        BY <1>1, <1>6, <4>1, TaskTypes DEF Moving
    <3> QED
      BY <3>1 DEF OnHost, Committing, MoveOps, all
  <2>2. host.end - host.begin + 1 = b - l + 1
    BY <1>1, <1>2, <1>6
  <2>3. HostCapacity > 0
    <3>1. Busy(0)
      BY <1>6 DEF Moving, Busy, Unfinished
    <3> QED
      BY <3>1, HostNeeded
  <2> DEFINE n == b - l
  <2>4. n \in Nat
    BY <1>2
  <2>5. \A i \in 1 .. n + 1 : all[i] = host.slot[Host!SlotOf(host.begin + i - 1)]
    BY <1>4, <2>2
  <2>6. \A i \in 1 .. n + 1 : all[i] \in Int
    <3> SUFFICES ASSUME NEW i \in 1 .. n + 1 PROVE all[i] \in Int
      OBVIOUS
    <3> DEFINE j == host.begin + i - 1
    <3>1. j \in Int
      BY <1>1, <2>4
    <3>2. all[i] = host.slot[Host!SlotOf(j)]
      BY <2>5
    <3> HIDE DEF j
    <3>3. Host!SlotOf(j) \in Host!Slots
      BY <2>3, <3>1, HostSlots
    <3>4. host.slot \in [Host!Slots -> Int]
      BY <1>1, MemoryFacts
    <3> QED
      BY <3>2, <3>3, <3>4
  <2>7. all = [i \in 1 .. n + 1 |-> all[i]]
    BY <1>4, <2>2
  <2> HIDE DEF n
  <2>8. all \in Seq(Int) /\ Len(all) = n + 1
    BY <2>4, <2>6, <2>7
  <2>9. Tail(all) \in Seq(Int) /\ Len(Tail(all)) = n /\ \A i \in 1 .. n : Tail(all)[i] = all[i + 1]
    <3>1. all # << >> /\ Len(all) - 1 = n
      BY <2>4, <2>8
    <3> QED
      BY <2>8, <3>1, HeadTailProperties
  <2> DEFINE rest == Tail(all)
  <2>10. DOMAIN rest = 1 .. n /\ rest = [i \in DOMAIN rest |-> rest[i]]
    <3> HIDE DEF rest
    <3>1. rest \in Seq(Int) /\ Len(rest) = n
      BY <2>9 DEF rest
    <3> QED
      BY <3>1
  <2>11. ASSUME NEW i \in 1 .. n PROVE rest[i] = b + 1 - i
    <3> DEFINE j == host.begin + i
    <3>0. i \in Int /\ 1 <= i /\ i <= b - l
      BY <2>4 DEF n
    <3>1. j \in Int /\ host.begin <= j /\ j <= host.end /\ -j = b + 1 - i /\ j # host.begin
      BY <1>1, <1>2, <1>6, <3>0
    <3>2. all[i + 1] = host.slot[Host!SlotOf(j)]
      <4>1. i + 1 \in 1 .. n + 1 /\ host.begin + (i + 1) - 1 = j
        BY <1>1, <2>4
      <4> HIDE DEF j
      <4> QED
        BY <2>5, <4>1
    <3>3. rest[i] = all[i + 1]
      BY <2>9
    <3> HIDE DEF j, rest
    <3> QED
      BY <1>3, <3>1, <3>2, <3>3
  <2>12. rest = Down(b, l)
    <3>1. n = b - l
      BY DEF n
    <3> HIDE DEF rest
    <3> QED
      BY ONLY <1>2, <2>10, <2>11, <3>1, RunIs
  <2> QED
    BY <2>1, <2>12 DEF b, l
<1> QED
  BY <1>5, <1>6

\* The files are those of the ids below Level(1), less the one being written,
\* or read.
LEMMA DiskRun ==
  ASSUME Inv
  PROVE  OnDisk = Down(Level(1), 0)
<1> DEFINE n == IF Committing(1, "diskToHost") THEN task[1].id ELSE Level(1)
           files == [i \in 1 .. Cardinality(Files) |-> disk[Cardinality(Files) - i]]
<1>1. /\ ControlTypes /\ MemoryTypes /\ DiskHolds /\ HostHolds
      /\ Level(1) \in Nat /\ Level(1) <= MaxBuffers /\ MaxBuffers \in Nat
      /\ task[1].id \in BufferIds /\ task[1].id \in Nat /\ task[1].id < MaxBuffers
  <2>1. /\ ControlTypes /\ MemoryTypes /\ DiskHolds /\ HostHolds
    BY DEF Inv, DataInv
  <2>2. Level(1) \in Nat /\ Level(1) <= MaxBuffers /\ task[1].id \in BufferIds
    BY <2>1, TaskTypes, ThreadNames
  <2> QED
    BY <2>1, <2>2, Constants DEF BufferIds
<1>2. /\ Committing(1, "hostToDisk") => Level(1) = task[1].id
      /\ Committing(1, "diskToHost") => Level(1) = task[1].id + 1
  <2>1. \A op : Committing(1, op) => Unfinished(1) /\ task[1].op = op
    BY DEF Committing, Unfinished
  <2> QED
    BY <1>1, <2>1, LevelFacts, ThreadNames
<1>3. n \in Nat /\ n <= MaxBuffers
  BY <1>1
<1>4. /\ Committing(1, "hostToDisk") => FilesBelow = task[1].id + 1 /\ n = task[1].id
      /\ ~Committing(1, "hostToDisk") => FilesBelow = n
  BY <1>2 DEF FilesBelow, Committing
<1>5. \A id \in BufferIds : disk[id] = IF id < FilesBelow THEN id + 1 ELSE 0
  BY <1>1 DEF DiskHolds, Nothing
<1>6. Files = 0 .. n - 1
  <2>1. \A id \in BufferIds : disk[id] # Nothing <=> id < FilesBelow
    BY <1>5, Constants DEF BufferIds, Nothing
  <2> HIDE DEF n
  <2>2. CASE Committing(1, "hostToDisk")
    <3>1. \A id \in BufferIds : id \in Files <=> id < task[1].id + 1 /\ id # task[1].id
      BY <1>4, <2>1, <2>2 DEF Files
    <3>2. n = task[1].id
      BY <1>4, <2>2
    <3> QED
      BY <1>1, <1>3, <3>1, <3>2 DEF Files, BufferIds
  <2>3. CASE ~Committing(1, "hostToDisk")
    <3>1. \A id \in BufferIds : id \in Files <=> id < n
      BY <1>4, <2>1, <2>3 DEF Files
    <3> QED
      BY <1>1, <1>3, <3>1 DEF Files, BufferIds
  <2> QED
    BY <2>2, <2>3
<1>7. \A id \in BufferIds : id < n => disk[id] = id + 1
  <2>1. n <= FilesBelow
    BY <1>1, <1>4
  <2>2. FilesBelow \in Nat
    BY <1>1, <1>3, <1>4
  <2> HIDE DEF n
  <2>3. \A id \in BufferIds : id < n => id < FilesBelow
    BY <1>1, <1>3, <2>1, <2>2 DEF BufferIds
  <2> QED
    BY <1>5, <2>3
<1> HIDE DEF n
<1>8. Cardinality(Files) = n
  <2>1. 0 \in Int /\ n - 1 \in Int
    BY <1>3
  <2>2. Cardinality(0 .. n - 1) = IF 0 > n - 1 THEN 0 ELSE n - 1 - 0 + 1
    BY <2>1, FS_Interval
  <2> QED
    BY <1>3, <1>6, <2>2
<1>9. files = Down(n, 0)
  <2>1. files = [i \in 1 .. n |-> disk[n - i]]
    BY <1>8
  <2>2. ASSUME NEW i \in 1 .. n PROVE disk[n - i] = n + 1 - i
    <3>1. n - i \in BufferIds /\ n - i < n /\ n - i + 1 = n + 1 - i
      BY <1>1, <1>3 DEF BufferIds
    <3> QED
      BY <1>7, <3>1
  <2>3. n - 0 = n /\ 0 \in Nat /\ 0 <= n
    BY <1>3
  <2> HIDE DEF files
  <2>4. DOMAIN files = 1 .. n - 0 /\ files = [i \in DOMAIN files |-> files[i]]
    BY <2>1, <2>3
  <2>5. \A i \in 1 .. n - 0 : files[i] = n + 1 - i
    BY <2>1, <2>2, <2>3
  <2> QED
    BY ONLY <1>3, <2>3, <2>4, <2>5, RunIs
<1> HIDE DEF files
<1>10. CASE Committing(1, "diskToHost")
  <2> DEFINE l == Level(1)
  <2>1. n = task[1].id /\ l = n + 1
    BY <1>2, <1>10 DEF n
  <2>2. host.begin \in Int /\ host.end = -1 - l /\ host.begin <= host.end + 1 /\ l \in Nat
    <3>1. Sizes
      BY DEF Inv
    <3> QED
      BY <1>1, <3>1, Ranges, MemoryFacts, SizeFacts
  <2>3. host.slot[Host!NextBackSlot(host)] = l
    <3> HIDE DEF l
    <3>1. host.end + 1 \in host.begin .. host.end + 1 /\ -(host.end + 1) = l
      BY <2>2
    <3>2. OnHostAt(host.end + 1)
      BY <1>10 DEF OnHostAt
    <3>3. host.slot[Host!SlotOf(host.end + 1)] = -(host.end + 1)
      BY <1>1, <3>1, <3>2 DEF HostHolds
    <3> QED
      BY <3>1, <3>3 DEF Host!NextBackSlot
  <2>4. << l >> \o Down(l - 1, 0) = Down(l, 0) /\ l - 1 = n
    <3> HIDE DEF l
    <3>1. 0 \in Nat /\ 0 < l /\ l - 1 = n
      BY <1>3, <2>1, <2>2
    <3> QED
      BY <2>2, <3>1, Runs
  <2>5. OnDisk = << host.slot[Host!NextBackSlot(host)] >> \o files
    BY <1>10 DEF OnDisk, files
  <2> QED
    BY <1>9, <2>3, <2>4, <2>5
<1>11. CASE ~Committing(1, "diskToHost")
  <2>1. n = Level(1) /\ OnDisk = << >> \o files
    BY <1>11 DEF n, OnDisk, files
  <2>2. << >> \o Down(n, 0) = Down(n, 0)
    <3>1. n \in Nat /\ 0 \in Nat /\ 0 <= n /\ n <= n
      BY <1>3
    <3>2. << >> = Down(n, n) /\ Down(n, n) \o Down(n, 0) = Down(n, 0)
      BY <3>1, Runs
    <3> QED
      BY <3>2
  <2> QED
    BY <1>9, <2>1, <2>2
<1> QED
  BY <1>10, <1>11
-----------------------------------------------------------------------------
(* How many arrays there are on the stack: those of the owner's count, but   *)
(* a push counts when its index has moved, a pop until its copy has been     *)
(* executed.                                                                 *)

InHand == pc[Owner] \in Begun \/ Committing(Owner, "emplaceFront")

Depth == IF Loads THEN count + 1 ELSE IF InHand THEN Before(task[Owner]) ELSE count

LEMMA DepthIs ==
  ASSUME Inv
  PROVE  /\ Depth \in Nat
         /\ LoadPending => Depth = count + 1 /\ Top = count
         /\ ~LoadPending => Depth = Top
<1>1. /\ ControlTypes /\ Orders /\ Phase /\ StreamInv /\ count \in Nat /\ (Loads <=> LoadPending)
      /\ task[Owner].id \in Nat
  <2>1. ControlTypes /\ Orders /\ Phase /\ StreamInv
    BY DEF Inv, ControlInv, DataInv
  <2>2. task[Owner].id \in BufferIds
    BY <2>1, TaskTypes, ThreadNames
  <2>3. Loads <=> LoadPending
    BY <2>1, LoadsWait
  <2>4. task[Owner].id \in Nat
    BY <2>2, Constants DEF BufferIds
  <2>5. count \in Nat
    BY <2>1 DEF ControlTypes
  <2> QED
    BY <2>1, <2>3, <2>4, <2>5
<1>2. count = After(task[Owner]) /\ Before(task[Owner]) \in Nat
  BY <1>1, TaskTypes, ThreadNames DEF Orders
<1>3. /\ Unfinished(Owner) => Level(Owner) = Before(task[Owner])
      /\ ~Unfinished(Owner) => Level(Owner) = count
  BY <1>1, <1>2, LevelFacts, ThreadNames
<1>4. Committing(Owner, "popFront") => Top = count /\ ~InHand
  <2> SUFFICES ASSUME Committing(Owner, "popFront") PROVE Top = count /\ ~InHand
    OBVIOUS
  <2>1. Unfinished(Owner) /\ task[Owner].op = "popFront" /\ pc[Owner] = "commit"
    BY DEF Committing, Unfinished
  <2>2. Level(Owner) = task[Owner].id + 1 /\ count = task[Owner].id
    BY <1>1, <1>2, <1>3, <2>1 DEF Before, After, Ups
  <2>3. Top = Level(Owner) - 1
    BY DEF Top
  <2>4. ~InHand
    BY <2>1 DEF InHand, Begun, Committing
  <2> QED
    BY <1>1, <2>2, <2>3, <2>4
<1>5. ~Committing(Owner, "popFront") => Top = Level(Owner)
  BY DEF Top
<1>6. LoadPending => Top = count
  <2> SUFFICES ASSUME LoadPending, ~Committing(Owner, "popFront") PROVE Top = count
    BY <1>4
  <2>1. popped /\ pc[Owner] \in {"commit"} \cup Ending
    BY <1>1 DEF StreamInv
  <2>2. task[Owner].op = "popFront"
    BY <1>1, <2>1 DEF Phase, Popping
  <2>3. ~Unfinished(Owner)
    BY <2>1, <2>2 DEF Committing, Unfinished, Begun, Ending
  <2> QED
    BY <1>3, <1>5, <2>3
<1>7. ~LoadPending => Depth = Top
  <2> SUFFICES ASSUME ~LoadPending, ~Committing(Owner, "popFront") PROVE Depth = Top
    BY <1>1, <1>4 DEF Depth
  <2>1. CASE InHand
    BY <1>1, <1>3, <1>5, <2>1 DEF Depth, InHand, Unfinished, Committing
  <2>2. CASE ~InHand
    <3>1. ~Unfinished(Owner)
      <4> SUFFICES ASSUME Unfinished(Owner) PROVE FALSE
        OBVIOUS
      <4>1. pc[Owner] = "commit" /\ Busy(Owner)
        BY <2>2 DEF InHand, Unfinished, Busy
      <4>2. task[Owner].op \in OwnerOps
        BY <1>1, <4>1, TaskTypes
      <4> QED
        BY <2>2, <4>1, <4>2 DEF InHand, Committing, OwnerOps
    <3> QED
      BY <1>1, <1>3, <1>5, <2>2, <3>1 DEF Depth
  <2> QED
    BY <2>1, <2>2
<1>8. LoadPending => Depth = count + 1
  BY <1>1 DEF Depth
<1>9. Depth \in Nat
  BY <1>1, <1>2 DEF Depth
<1> QED
  BY <1>6, <1>7, <1>8, <1>9

\* The copy of a pop will deliver the array that belongs to its count.
LEMMA PendingRun ==
  ASSUME Inv
  PROVE  PendingPop = Down(Depth, Top)
<1>1. /\ StreamInv /\ (Loads <=> LoadPending) /\ count \in Nat /\ Depth \in Nat /\ Top \in Nat
      /\ LoadPending => Depth = count + 1 /\ Top = count
      /\ ~LoadPending => Depth = Top
  BY DepthIs, LoadsWait, Ranges DEF Inv, DataInv, ControlTypes
<1>2. CASE ~LoadPending
  <2>1. PendingPop = << >>
    BY <1>1, <1>2 DEF PendingPop, Loads
  <2> QED
    BY <1>1, <1>2, <2>1, Runs
<1>3. CASE LoadPending
  <2>1. PICK j \in DOMAIN stream :
                 /\ stream[j] = Load
                 /\ \A i \in DOMAIN stream : stream[i].kind = "load" => i = j
                 /\ IF stream = << Fill, Load >> THEN j = 2 /\ stream[1] = Fill ELSE j = 1
    BY <1>1, <1>3, LoadsWait
  <2>2. stream[j].kind = "load" /\ Load.slot = Device!SlotOf(-(count + 1))
    BY <2>1 DEF Load
  <2>3. (CHOOSE i \in DOMAIN stream : stream[i].kind = "load") = j
    BY <2>1, <2>2
  <2>4. PendingPop = << InSlot(stream[j].slot, j - 1) >>
    BY <2>2, <2>3 DEF PendingPop
  <2> DEFINE slot == Load.slot
  <2>5. PendingPop = << InSlot(slot, j - 1) >>
    BY <2>1, <2>4
  <2>6. InSlot(slot, j - 1) = count + 1
    <3>1. CASE stream # << Fill, Load >>
      <4>1. j - 1 = 0 /\ 1 .. 0 = {}
        BY <2>1, <3>1
      <4>2. InSlot(slot, 0) = device.slot[slot]
        BY <4>1 DEF InSlot
      <4>3. device.slot[Device!SlotOf(-(count + 1))] = count + 1
        BY <1>1, <1>3, <3>1 DEF StreamInv
      <4> QED
        BY <2>2, <4>1, <4>2, <4>3
    <3>2. CASE stream = << Fill, Load >>
      <4>1. j - 1 = 1 /\ 1 .. 1 = {1} /\ stream[1] = Fill
        BY <2>1, <3>2
      <4>2. Fill.kind = "fill" /\ Fill.slot = Device!SlotOf(-(task[0].id + 1))
        BY DEF Fill
      <4>3. InSlot(slot, 1) = IF Fill.slot = slot THEN Host!FrontEntry(host) ELSE device.slot[slot]
        BY <4>1, <4>2 DEF InSlot
      <4>4. /\ task[0].id <= count /\ count - task[0].id < DeviceCapacity
            /\ task[0].id # count => device.slot[Device!SlotOf(-(count + 1))] = count + 1
        BY <1>1, <1>3, <3>2 DEF StreamInv
      <4>5. Committing(0, "hostToDevice")
        BY <1>1, <3>2 DEF StreamInv, FillPending
      <4>6. Host!FrontEntry(host) = task[0].id + 1 /\ task[0].id \in Nat
        BY <4>5, FillFacts
      <4>7. CASE task[0].id = count
        <5>1. Fill.slot = slot
          BY <2>2, <4>2, <4>7
        <5> QED
          BY <4>1, <4>3, <4>6, <4>7, <5>1
      <4>8. CASE task[0].id # count
        <5> DEFINE m == -(task[0].id + 1)
                   k == -(count + 1)
        <5>1. /\ m \in Int /\ k \in Int /\ m # k
              /\ -DeviceCapacity < m - k /\ m - k < DeviceCapacity
          <6>1. \A a, b, c \in Nat : a <= b /\ b - a < c /\ a # b /\ c > 0 =>
                  LET x == -(a + 1)
                      y == -(b + 1)
                  IN  x \in Int /\ y \in Int /\ x # y /\ -c < x - y /\ x - y < c
            OBVIOUS
          <6> QED
            BY <1>1, <4>4, <4>6, <4>8, <6>1, Constants
        <5>2. Device!SlotOf(m) # Device!SlotOf(k)
          <6> HIDE DEF m, k
          <6> QED
            BY <5>1, DeviceSlots
        <5>3. Fill.slot # slot
          BY <2>2, <4>2, <5>2
        <5> QED
          BY <2>2, <4>1, <4>3, <4>4, <4>8, <5>3
      <4> QED
        BY <4>7, <4>8
    <3> QED
      BY <3>1, <3>2
  <2>7. << count + 1 >> = Down(count + 1, count)
    <3> DEFINE n == count + 1
    <3>1. n \in Nat /\ count < n /\ n - 1 = count /\ count \in Nat
      BY <1>1
    <3> HIDE DEF n
    <3>2. << n >> = Down(n, n - 1)
      BY ONLY <3>1, Runs
    <3> QED
      BY <3>1, <3>2 DEF n
  <2> HIDE DEF slot
  <2> QED
    BY <1>1, <1>3, <2>5, <2>6, <2>7
<1> QED
  BY <1>2, <1>3

LEMMA StackRun ==
  ASSUME Inv
  PROVE  PendingPop \o OnDevice \o OnHost \o OnDisk = Down(Depth, 0) /\ Depth \in Nat
<1> DEFINE d == Depth
           a == Top
           b == Bottom
           c == Level(1)
<1>1. /\ d \in Nat /\ a \in Nat /\ b \in Nat /\ c \in Nat /\ 0 \in Nat
      /\ 0 <= c /\ c <= b /\ b <= a /\ a <= d /\ c <= d /\ b <= d
  <2>1. d \in Nat /\ a \in Nat /\ b \in Nat /\ c \in Nat /\ c <= b /\ b <= a
    BY DepthIs, Ranges
  <2>2. a <= d
    <3>1. d = a \/ (d = count + 1 /\ a = count)
      BY DepthIs
    <3> HIDE DEF d, a
    <3> QED
      BY <2>1, <3>1
  <2> HIDE DEF a, b, c, d
  <2> QED
    BY <2>1, <2>2
<1>2. PendingPop = Down(d, a) /\ OnDevice = Down(a, b) /\ OnHost = Down(b, c) /\ OnDisk = Down(c, 0)
  BY PendingRun, DeviceRun, HostRun, DiskRun
<1> HIDE DEF a, b, c, d
<1>3. Down(d, a) \o Down(a, b) = Down(d, b)
  BY <1>1, Runs
<1>4. Down(d, b) \o Down(b, c) = Down(d, c)
  BY <1>1, Runs
<1>5. Down(d, c) \o Down(c, 0) = Down(d, 0)
  BY ZenonT(40), <1>1, Runs
<1> QED
  BY <1>1, <1>2, <1>3, <1>4, <1>5 DEF d
-----------------------------------------------------------------------------
(* What a step does to the stack.                                            *)

HasLoad(copies) == \E i \in DOMAIN copies : copies[i].kind = "load"

LEMMA LoadsIn ==
  /\ ~HasLoad(<< >>)
  /\ \A c : HasLoad(<< c >>) <=> c.kind = "load"
  /\ \A c, d : HasLoad(<< c, d >>) <=> c.kind = "load" \/ d.kind = "load"
<1>1. ~HasLoad(<< >>)
  <2>1. DOMAIN << >> = {}
    OBVIOUS
  <2> QED
    BY <2>1 DEF HasLoad
<1>2. ASSUME NEW c PROVE HasLoad(<< c >>) <=> c.kind = "load"
  <2> DEFINE s == << c >>
  <2>1. s[1] = c /\ DOMAIN s = {1}
    OBVIOUS
  <2> HIDE DEF s
  <2>2. HasLoad(s) <=> c.kind = "load"
    BY <2>1 DEF HasLoad
  <2> QED
    BY <2>2 DEF s
<1>3. ASSUME NEW c, NEW d PROVE HasLoad(<< c, d >>) <=> c.kind = "load" \/ d.kind = "load"
  <2> DEFINE s == << c, d >>
  <2>1. s[1] = c /\ s[2] = d /\ DOMAIN s = {1, 2}
    OBVIOUS
  <2> HIDE DEF s
  <2>2. HasLoad(s) <=> c.kind = "load" \/ d.kind = "load"
    BY <2>1 DEF HasLoad
  <2> QED
    BY <2>2 DEF s
<1> QED
  BY <1>1, <1>2, <1>3

\* A step that appends a copy.
LEMMA LoadsIssued ==
  ASSUME StreamInv, ~FillPending \/ ~LoadPending, NEW c, stream' = Append(stream, c)
  PROVE  Loads' <=> Loads \/ c.kind = "load"
<1>1. stream = << >> \/ \E f : stream = << f >>
  BY DEF StreamInv, StorePending, LoadPending, FillPending
<1>2. (Loads <=> HasLoad(stream)) /\ (Loads' <=> HasLoad(stream'))
  BY DEF Loads, HasLoad
<1>3. CASE stream = << >>
  <2>1. stream' = << c >>
    BY <1>3, AppendCopies
  <2> QED
    BY <1>2, <1>3, <2>1, LoadsIn
<1>4. CASE \E f : stream = << f >>
  <2>1. PICK f : stream = << f >>
    BY <1>4
  <2>2. stream' = << f, c >>
    BY <2>1, AppendCopies
  <2>3. (HasLoad(stream) <=> f.kind = "load") /\ (HasLoad(stream') <=> f.kind = "load" \/ c.kind = "load")
    BY <2>1, <2>2, LoadsIn
  <2> QED
    BY <1>2, <2>3
<1> QED
  BY <1>1, <1>3, <1>4

LEMMA DepthKept ==
  ASSUME Loads' <=> Loads, count' = count, task'[Owner] = task[Owner], InHand' <=> InHand
  PROVE  Depth' = Depth
<1>1. CASE Loads
  BY <1>1 DEF Depth
<1>2. CASE ~Loads /\ InHand
  BY <1>2 DEF Depth, Before
<1>3. CASE ~Loads /\ ~InHand
  BY <1>3 DEF Depth
<1> QED
  BY <1>1, <1>2, <1>3

\* A step that leaves the stream and the owner's place in its operation leaves
\* the stack.
LEMMA OwnerStays ==
  ASSUME stream' = stream, count' = count, task'[Owner] = task[Owner], Stays(Owner)
  PROVE  Depth' = Depth
<1>1. Loads' <=> Loads
  BY DEF Loads
<1>2. pc'[Owner] \in Begun <=> pc[Owner] \in Begun
  BY DEF Stays, Unfinished, Begun
<1>3. InHand' <=> InHand
  BY <1>2 DEF InHand, Committing, Stays
<1> QED
  BY <1>1, <1>3, DepthKept

LEMMA TransferDepth ==
  ASSUME Inv, NEW t \in Threads, Transfer(t)
  PROVE  Depth' = Depth /\ array' = array
<1>1. /\ ControlTypes /\ StreamInv /\ Phase /\ pc \in [Threads -> Places]
  BY DEF Inv, DataInv, ControlInv, ControlTypes
<1>2. /\ pc[t] = "transfer" /\ pc' = [pc EXCEPT ![t] = "commit"]
      /\ task' = task /\ array' = array /\ count' = count
  BY TransferEffect DEF counters
<1>3. pc'[t] = "commit" /\ (t # Owner => pc'[Owner] = pc[Owner])
  BY <1>1, <1>2, ThreadNames
<1>4. CASE t # Owner /\ stream' = stream
  BY <1>2, <1>3, <1>4, OwnerStays, Unmoved
<1>5. CASE t = 0 /\ task[t].op = "hostToDevice" /\
           stream' = Append(stream, [kind |-> "fill", id |-> task[t].id, slot |-> Device!NextBackSlot(device)])
  <2>1. ~FillPending
    BY <1>1, <1>2, <1>5 DEF StreamInv, Committing
  <2> DEFINE c == [kind |-> "fill", id |-> task[t].id, slot |-> Device!NextBackSlot(device)]
  <2>2. c.kind = "fill" /\ stream' = Append(stream, c)
    BY <1>5
  <2> HIDE DEF c
  <2>3. Loads' <=> Loads
    BY <1>1, <2>1, <2>2, LoadsIssued
  <2>4. InHand' <=> InHand
    BY <1>2, <1>3, <1>5, ThreadNames DEF InHand, Committing
  <2> QED
    BY <1>2, <2>3, <2>4, DepthKept
<1>6. CASE t = Owner
  <2>1. ~StorePending /\ ~LoadPending
    BY <1>1, <1>2, <1>6 DEF StreamInv, Ending
  <2>2. ~Loads
    BY <1>1, <2>1, LoadsWait
  <2>3. InHand
    BY <1>2, <1>6 DEF InHand, Begun
  <2>4. CASE task[Owner].op = "emplaceFront" /\
             stream' = Append(stream, [kind |-> "store", id |-> task[t].id, slot |-> Device!NextFrontSlot(device)])
    <3> DEFINE c == [kind |-> "store", id |-> task[t].id, slot |-> Device!NextFrontSlot(device)]
    <3>1. c.kind = "store" /\ stream' = Append(stream, c)
      BY <2>4
    <3> HIDE DEF c
    <3>2. Loads' <=> Loads
      BY <1>1, <2>1, <3>1, LoadsIssued
    <3>3. InHand'
      BY <1>2, <1>3, <1>6, <2>4 DEF InHand, Committing
    <3> QED
      BY <1>2, <2>3, <3>2, <3>3, DepthKept
  <2>5. CASE task[Owner].op = "popFront" /\
             stream' = Append(stream, [kind |-> "load", id |-> task[t].id, slot |-> Device!FrontSlot(device)])
    <3> DEFINE c == [kind |-> "load", id |-> task[t].id, slot |-> Device!FrontSlot(device)]
    <3>1. c.kind = "load" /\ stream' = Append(stream, c)
      BY <2>5
    <3> HIDE DEF c
    <3>2. Loads'
      BY <1>1, <2>1, <3>1, LoadsIssued
    <3>3. Depth' = count + 1
      BY <1>2, <3>2 DEF Depth
    <3>4. Depth = task[Owner].id + 1
      BY <2>2, <2>3, <2>5 DEF Depth, Before, Ups
    <3>5. count = task[Owner].id
      BY <1>2, <1>6, <2>5, OwnerIndex DEF Unfinished, Begun
    <3> QED
      BY <1>2, <3>3, <3>4, <3>5
  <2>6. \/ task[Owner].op = "emplaceFront" /\
             stream' = Append(stream, [kind |-> "store", id |-> task[t].id, slot |-> Device!NextFrontSlot(device)])
        \/ task[Owner].op = "popFront" /\
             stream' = Append(stream, [kind |-> "load", id |-> task[t].id, slot |-> Device!FrontSlot(device)])
    BY <1>6, TransferEffect, ThreadNames
  <2> QED
    BY <2>4, <2>5, <2>6
<1>7. \/ t # Owner /\ stream' = stream
      \/ t = Owner
      \/ t = 0 /\ task[t].op = "hostToDevice" /\
           stream' = Append(stream, [kind |-> "fill", id |-> task[t].id, slot |-> Device!NextBackSlot(device)])
  BY TransferEffect, ThreadNames
<1> QED
  BY <1>2, <1>4, <1>5, <1>6, <1>7

\* A push is done when its index has moved.
LEMMA CommitDepth ==
  ASSUME Inv, NEW t \in Threads, Commit(t)
  PROVE  /\ array' = array
         /\ Depth' = Depth \/ (Depth' = Depth + 1 /\ array = Depth + 1)
<1>1. /\ ControlTypes /\ StreamInv /\ Phase /\ pc \in [Threads -> Places]
  BY DEF Inv, DataInv, ControlInv, ControlTypes
<1>2. /\ pc[t] = "commit" /\ pc' = [pc EXCEPT ![t] = "notify"] /\ Busy(t)
      /\ stream' = stream /\ task' = task /\ array' = array /\ count' = count
  BY CommitEffect DEF counters
<1>3. pc'[t] = "notify" /\ (t # Owner => pc'[Owner] = pc[Owner])
  BY <1>1, <1>2, ThreadNames
<1>4. CASE t # Owner
  BY <1>2, <1>3, <1>4, OwnerStays, Unmoved
<1>5. CASE t = Owner
  <2>1. ~InHand'
    BY <1>3, <1>5 DEF InHand, Begun, Committing
  <2>2. Loads' <=> Loads
    BY <1>2 DEF Loads
  <2>3. CASE task[Owner].op = "popFront"
    <3>1. ~InHand
      BY <1>2, <1>5, <2>3 DEF InHand, Begun, Committing
    <3> QED
      BY <1>2, <2>1, <2>2, <3>1, DepthKept
  <2>4. CASE task[Owner].op # "popFront"
    <3>1. task[Owner].op = "emplaceFront"
      <4>1. task[Owner].op \in OwnerOps
        BY <1>1, <1>2, <1>5, TaskTypes
      <4> QED
        BY <2>4, <4>1 DEF OwnerOps
    <3>2. ~popped /\ Pushing
      BY <1>1, <2>4 DEF Phase, Popping
    <3>3. array = count
      BY <1>2, <1>5, <3>2 DEF Pushing
    <3>4. ~LoadPending
      BY <1>1, <3>2 DEF StreamInv
    <3>5. ~Loads
      BY <1>1, <3>4, LoadsWait
    <3>6. InHand
      BY <1>2, <1>5, <3>1 DEF InHand, Committing
    <3>7. Depth = task[Owner].id
      BY <3>1, <3>5, <3>6 DEF Depth, Before, Ups
    <3>8. count = task[Owner].id + 1
      BY <1>2, <1>5, <3>1, OwnerIndex DEF Unfinished
    <3>9. Depth' = count
      BY <1>2, <2>1, <2>2, <3>5 DEF Depth
    <3> QED
      BY <1>2, <3>3, <3>7, <3>8, <3>9
  <2> QED
    BY <2>3, <2>4
<1> QED
  BY <1>2, <1>4, <1>5

\* A pop takes the top off the stack when its copy is executed.
LEMMA CopyDepth ==
  ASSUME Inv, DeviceCopies
  PROVE  \/ Depth' = Depth /\ array' = array
         \/ Depth > 0 /\ Depth' = Depth - 1 /\ array' = Depth
<1>1. /\ ControlTypes /\ StreamInv /\ Phase /\ count \in Nat
      /\ (Loads <=> HasLoad(stream)) /\ (Loads' <=> HasLoad(stream'))
  BY DEF Inv, DataInv, ControlInv, ControlTypes, Loads, HasLoad
<1>2. /\ stream # << >> /\ stream' = Tail(stream) /\ Head(stream) \in {Store, Load, Fill}
      /\ UNCHANGED <<task, pc, count, popped>>
  BY <1>1, CopyEffect, StreamParts
<1>3. InHand' <=> InHand
  BY <1>2 DEF InHand, Committing
<1>4. Store.kind = "store" /\ Load.kind = "load" /\ Fill.kind = "fill"
  BY DEF Store, Load, Fill
<1>5. CASE Head(stream).kind = "store"
  <2>1. stream = << Store >> /\ array' = array
    BY <1>1, <1>2, <1>5, CopyEffect, StreamParts
  <2>2. stream' = << >>
    BY <1>2, <2>1
  <2>3. ~Loads /\ ~Loads'
    BY <1>1, <1>4, <2>1, <2>2, LoadsIn
  <2> QED
    BY <1>2, <1>3, <2>1, <2>3, DepthKept
<1>6. CASE Head(stream).kind = "fill"
  <2>1. /\ array' = array
        /\ stream' = IF LoadPending THEN << Load >> ELSE << >>
    BY <1>1, <1>2, <1>6, CopyEffect, StreamParts
  <2>2. Loads' <=> LoadPending
    BY <1>1, <1>4, <2>1, LoadsIn
  <2>3. Loads <=> LoadPending
    BY <1>1, LoadsWait
  <2> QED
    BY <1>2, <1>3, <2>1, <2>2, <2>3, DepthKept
<1>7. CASE Head(stream).kind = "load"
  <2>1. /\ LoadPending /\ Head(stream) = Load /\ array' = device.slot[Head(stream).slot]
        /\ stream' = IF FillPending THEN << Fill >> ELSE << >>
    BY <1>1, <1>2, <1>7, CopyEffect, StreamParts
  <2>2. stream # << Fill, Load >>
    <3>1. Head(<< Fill, Load >>) = Fill
      OBVIOUS
    <3> QED
      BY <1>4, <1>7, <3>1
  <2>3. device.slot[Device!SlotOf(-(count + 1))] = count + 1
    BY <1>1, <2>1, <2>2 DEF StreamInv
  <2>4. array' = count + 1
    BY <2>1, <2>3 DEF Load
  <2>5. ~Loads'
    BY <1>1, <1>4, <2>1, LoadsIn
  <2>6. ~InHand
    <3>1. popped /\ pc[Owner] \in {"commit"} \cup Ending
      BY <1>1, <2>1 DEF StreamInv
    <3>2. task[Owner].op = "popFront"
      BY <1>1, <3>1 DEF Phase, Popping
    <3> QED
      BY <3>1, <3>2 DEF InHand, Begun, Ending, Committing
  <2>7. Depth' = count
    BY <1>2, <1>3, <2>5, <2>6 DEF Depth
  <2>8. Depth = count + 1
    BY <2>1, DepthIs
  <2> QED
    BY <1>1, <2>4, <2>7, <2>8
<1> QED
  BY <1>2, <1>4, <1>5, <1>6, <1>7

\* The steps of the owner outside of its operations.
LEMMA OwnerDepth ==
  ASSUME Inv, ComputeArray \/ PushAsync \/ Pushed \/ PopPrelude \/ PopAsync \/ PopWait \/ Stop
  PROVE  Depth' = Depth /\ (array' = array \/ array' \in Values)
<1>1. /\ ControlTypes /\ StreamInv /\ Phase /\ pc \in [Threads -> Places] /\ count \in Nat
      /\ pushes \in Nat /\ task = [u \in Threads |-> task[u]]
  BY DEF Inv, DataInv, ControlInv, ControlTypes
<1>2. stream' = stream
  BY DEF ComputeArray, PushAsync, Pushed, PopPrelude, PopAsync, PopWait, Stop, deques
<1>3. Loads' <=> Loads
  BY <1>2 DEF Loads
<1>4. pc[Owner] \notin {"commit"} \cup Ending => ~Loads
  BY <1>1, LoadsWait DEF StreamInv
<1>5. CASE ComputeArray \/ PopPrelude \/ PopWait \/ Stop
  <2>1. task' = task /\ count' = count
    BY <1>5 DEF ComputeArray, PopPrelude, PopWait, Stop, counters
  <2>2. pc[Owner] \in {"idle", "drain0", "drain1", "finish", "stop", "join"}
    BY <1>5 DEF ComputeArray, PopPrelude, PopWait, Stop
  <2>3. pc'[Owner] \in {"idle", "push", "drain0", "drain1", "pop", "stop", "join", "done"}
    BY <1>1, <1>5, ThreadNames DEF ComputeArray, PopPrelude, PopWait, Stop
  <2>4. ~InHand /\ ~InHand'
    BY <2>2, <2>3 DEF InHand, Begun, Committing
  <2>5. array' = array \/ array' \in Values
    <3>1. CASE ComputeArray
      <4>1. array' = pushes + 1 /\ pushes < MaxBuffers
        BY <3>1 DEF ComputeArray
      <4> QED
        BY <1>1, <4>1, Constants DEF Values
    <3>2. CASE ~ComputeArray
      BY <1>5, <3>2 DEF PopPrelude, PopWait, Stop
    <3> QED
      BY <3>1, <3>2
  <2> QED
    BY <1>3, <2>1, <2>4, <2>5, DepthKept
<1>6. CASE Pushed
  <2>1. task' = task /\ count' = count /\ array' = array /\ pc[Owner] = "finish"
    BY <1>6 DEF Pushed
  <2>2. pc'[Owner] = "idle"
    BY <1>1, <1>6, ThreadNames DEF Pushed, Enqueue
  <2>3. ~InHand /\ ~InHand'
    BY <2>1, <2>2 DEF InHand, Begun, Committing
  <2> QED
    BY <1>3, <2>1, <2>3, DepthKept
<1>7. CASE PushAsync
  <2>1. count' = count + 1 /\ array' = array /\ pc[Owner] = "push" /\ Begin(Owner, "emplaceFront", count)
    BY <1>7 DEF PushAsync
  <2>2. pc'[Owner] = "acquire"
    BY <1>1, <1>7, ThreadNames DEF PushAsync
  <2>3. task'[Owner] = [op |-> "emplaceFront", id |-> count]
    BY <1>1, <2>1, BeginType, ThreadNames
  <2>4. ~Loads /\ ~InHand
    BY <1>4, <2>1 DEF InHand, Begun, Ending, Committing
  <2>5. InHand'
    BY <2>2 DEF InHand, Begun
  <2>6. Depth = count
    BY <2>4 DEF Depth
  <2>7. Depth' = Before(task'[Owner])
    BY <1>3, <2>4, <2>5 DEF Depth, Before
  <2>8. Before(task'[Owner]) = count
    BY <2>3 DEF Before, Ups
  <2> QED
    BY <2>1, <2>6, <2>7, <2>8
<1>8. CASE PopAsync
  <2>1. count' = count - 1 /\ array' = array /\ pc[Owner] = "pop" /\ Begin(Owner, "popFront", count - 1)
    BY <1>8 DEF PopAsync
  <2>2. pc'[Owner] = "acquire"
    BY <1>1, <1>8, ThreadNames DEF PopAsync, Enqueue
  <2>3. task'[Owner] = [op |-> "popFront", id |-> count - 1]
    BY <1>1, <2>1, BeginType, ThreadNames
  <2>4. ~Loads /\ ~InHand
    BY <1>4, <2>1 DEF InHand, Begun, Ending, Committing
  <2>5. InHand'
    BY <2>2 DEF InHand, Begun
  <2>6. Depth = count
    BY <2>4 DEF Depth
  <2>7. Depth' = Before(task'[Owner])
    BY <1>3, <2>4, <2>5 DEF Depth, Before
  <2>8. Before(task'[Owner]) = count - 1 + 1
    BY <2>3 DEF Before, Ups
  <2>9. count - 1 + 1 = count
    BY <1>1
  <2> QED
    BY <2>1, <2>6, <2>7, <2>8, <2>9
<1> QED
  BY <1>5, <1>6, <1>7, <1>8

\* Where an array goes on the stack or off it.
LEMMA DepthStep ==
  ASSUME Inv, [Next]_vars
  PROVE  \/ Depth' = Depth /\ (array' = array \/ array' \in Values)
         \/ Depth' = Depth + 1 /\ array = Depth + 1 /\ array' = array
         \/ Depth > 0 /\ Depth' = Depth - 1 /\ array' = Depth
<1>0. /\ ControlTypes /\ pc \in [Threads -> Places] /\ task = [u \in Threads |-> task[u]]
  BY DEF Inv, ControlTypes
<1>1. CASE UNCHANGED vars
  <2>1. stream' = stream /\ count' = count /\ task' = task /\ pc' = pc /\ array' = array
    BY <1>1 DEF vars, deques, counters
  <2> QED
    BY <2>1, OwnerStays, Unmoved
<1>2. ASSUME NEW t \in Threads, Quiet(t) PROVE Depth' = Depth /\ array' = array
  <2>1. Stays(Owner) /\ UNCHANGED <<deques, task, array, counters>>
    BY <1>0, <1>2, QuietPlaces, ThreadNames
  <2> QED
    BY <2>1, OwnerStays DEF deques, counters
<1>3. ASSUME NEW t \in Threads, Transfer(t) PROVE Depth' = Depth /\ array' = array
  BY <1>3, TransferDepth
<1>4. ASSUME NEW t \in Threads, Commit(t)
      PROVE  /\ array' = array
             /\ Depth' = Depth \/ (Depth' = Depth + 1 /\ array = Depth + 1)
  BY <1>4, CommitDepth
<1>5. ASSUME NEW w \in Workers, TakeTask(w) \/ Finish(w) PROVE Depth' = Depth /\ array' = array
  <2>1. stream' = stream /\ count' = count /\ array' = array
    BY <1>5 DEF TakeTask, Finish, deques
  <2>2. w # Owner /\ 1 # Owner
    BY ThreadNames
  <2>3. task'[Owner] = task[Owner]
    BY <1>0, <1>5, <2>2, ThreadNames DEF TakeTask, Finish, Begin
  <2>4. pc'[Owner] = pc[Owner]
    <3>1. CASE TakeTask(w)
      BY <1>0, <2>2, <3>1, ThreadNames DEF TakeTask
    <3>2. CASE Finish(w)
      BY <1>0, <2>2, <3>2, ThreadNames DEF Finish, Enqueue
    <3> QED
      BY <1>5, <3>1, <3>2
  <2> QED
    BY <2>1, <2>3, <2>4, OwnerStays, Unmoved
<1> QED
  BY <1>1, <1>2, <1>3, <1>4, <1>5, StepCases, CopyDepth, OwnerDepth
-----------------------------------------------------------------------------
(* The theorem.                                                              *)

\* Through the copies of the device and all transfers between device, host and
\* disk the storage is a stack for the owner: a push puts the array as it was
\* when pushed on top, a pop delivers the top, and no buffer is lost,
\* duplicated, overtaken or read before it has been copied, whatever the number
\* of arrays and the capacities of the two queues.
THEOREM DeviceAlwaysAStack == Spec => IsDeviceStack
<1> DEFINE stack == PendingPop \o OnDevice \o OnHost \o OnDisk
<1>1. Init => Inv
  BY InitInv
<1>2. Inv /\ [Next]_vars => Inv'
  BY StepInv
<1>3. Inv => stack = Down(Depth, 0) /\ Depth \in Nat
  BY StackRun
<1>4. (Inv => stack = Down(Depth, 0) /\ Depth \in Nat)'
  BY <1>3, PTL
<1>5. Init => stack = << >> /\ array \notin Values
  <2> SUFFICES ASSUME Init PROVE stack = << >> /\ array \notin Values
    OBVIOUS
  <2>1. stack = Down(Depth, 0)
    BY <1>1, <1>3
  <2>2. Depth = 0
    <3>1. count = 0 /\ stream = << >> /\ pc[Owner] = "idle"
      BY ThreadNames DEF Init
    <3>2. ~Loads
      BY <3>1, LoadsIn DEF Loads, HasLoad
    <3>3. ~InHand
      BY <3>1 DEF InHand, Begun, Committing
    <3> QED
      BY <3>1, <3>2, <3>3 DEF Depth
  <2>3. array \notin Values
    BY DEF Init, Nothing, Values
  <2>4. << >> = Down(0, 0)
    <3>1. 0 \in Nat
      OBVIOUS
    <3> QED
      BY <3>1, Runs
  <2> QED
    BY <2>1, <2>2, <2>3, <2>4
<1>6. ASSUME Inv, [Next]_vars
      PROVE  [Stack!Next]_<<stack, array>>
  <2> DEFINE n == Depth
             m == Depth'
  <2>1. stack = Down(n, 0) /\ n \in Nat /\ stack' = Down(m, 0) /\ m \in Nat
    <3>1. Inv'
      BY <1>2, <1>6
    <3>2. stack = Down(n, 0) /\ n \in Nat
      BY <1>3, <1>6
    <3>3. Down(Depth, 0)' = Down(m, 0)
      BY DEF Down, DeviceFacts!Down
    <3>4. stack' = Down(m, 0) /\ m \in Nat
      BY <1>4, <3>1, <3>3
    <3> QED
      BY <3>2, <3>4
  <2>2. \/ m = n /\ (array' = array \/ array' \in Values)
        \/ m = n + 1 /\ array = n + 1 /\ array' = array
        \/ n > 0 /\ m = n - 1 /\ array' = n
    BY <1>6, DepthStep
  <2> HIDE DEF n, m, stack
  <2>3. CASE m = n /\ array' = array
    BY <2>1, <2>3
  <2>4. CASE m = n /\ array' \in Values
    <3>1. stack' = stack
      BY <2>1, <2>4
    <3> QED
      BY <2>4, <3>1 DEF Stack!Next, Stack!Compute, stack
  <2>5. CASE m = n + 1 /\ array = n + 1 /\ array' = array
    <3>1. m \in Nat /\ 0 \in Nat /\ 0 < m /\ m - 1 = n
      BY <2>1, <2>5
    <3>2. << m >> \o Down(m - 1, 0) = Down(m, 0)
      BY <3>1, Runs
    <3>3. stack' = << array >> \o stack
      BY <2>1, <2>5, <3>1, <3>2
    <3> QED
      BY <2>5, <3>3 DEF Stack!Next, Stack!Push, stack
  <2>6. CASE n > 0 /\ m = n - 1 /\ array' = n
    <3>1. n \in Nat /\ 0 \in Nat /\ 0 < n
      BY <2>1, <2>6
    <3>2. Down(n, 0) # << >> /\ Head(Down(n, 0)) = n /\ Tail(Down(n, 0)) = Down(n - 1, 0)
      BY <3>1, Runs
    <3>3. stack # << >> /\ array' = Head(stack) /\ stack' = Tail(stack)
      BY <2>1, <2>6, <3>2
    <3> QED
      BY <3>3 DEF Stack!Next, Stack!Pop, stack
  <2> QED
    BY <2>2, <2>3, <2>4, <2>5, <2>6
<1>7. Init => Stack!Init
  BY <1>5 DEF Stack!Init
<1>8. Inv /\ [Next]_vars => [Stack!Next]_<<stack, array>>
  BY <1>6
<1> QED
  BY <1>1, <1>2, <1>7, <1>8, PTL DEF Spec, IsDeviceStack, Stack!Spec
=============================================================================
