--------------------------- MODULE LifoHost_proofs ---------------------------
(***************************************************************************)
(* TypeOK and TransfersApart hold of LifoStorageHost for every capacity,   *)
(* every number of buffers and every order of pushes and pops.             *)
(*                                                                         *)
(* When the owner pushes all arrays it announced and then pops them, the   *)
(* storage reaches no error, accepts a pop only when all transfers to disk *)
(* are done, and is a stack.                                               *)
(***************************************************************************)
EXTENDS LifoHostInvariant, FixedSizeDeque_proofs, SequenceTheorems, FiniteSetTheorems, TLAPS

LEMMA Constants == /\ MaxBuffers \in Nat /\ MaxBuffers > 0
                   /\ PushCount \in Nat /\ PushCount > 0 /\ PushCount <= MaxBuffers
                   /\ Capacity \in Nat
BY MaxBuffersAssumption, PushCountAssumption, CapacityAssumption

(* The requests of the owner: TypeOK and what makes it inductive. *)

LEMMA InitRequest == Init => RequestInv
<1> SUFFICES ASSUME Init PROVE RequestInv
  OBVIOUS
<1> USE DEF Init, InitCommon
<1>1. TypeOKCommon
  <2>1. deque \in DequeType
    BY DEF NewDeque, DequeType, Arrays
  <2>2. mutex \in [Mutexes -> Workers \cup {Free}]
    OBVIOUS
  <2>3. disk \in [BufferIds -> Arrays]
    BY DEF Arrays
  <2>4. queue \in [Workers -> Seq(Task)]
    OBVIOUS
  <2>5. task \in [Workers -> Task]
    BY Constants DEF Task, Operations, BufferIds
  <2>6. pc \in [Workers -> PcStates]
    BY DEF PcStates
  <2> QED
    BY <2>1, <2>2, <2>3, <2>4, <2>5, <2>6 DEF TypeOKCommon
<1>2. TypeOK
  <2>1. owner \in OwnerStates /\ array \in Arrays
    BY DEF OwnerStates, Arrays
  <2>2. pushes \in 0 .. PushCount /\ count \in 0 .. MaxBuffers /\ toDisk \in 0 .. MaxBuffers
    BY Constants
  <2>3. popped \in BOOLEAN
    OBVIOUS
  <2>4. pushFuture \in [BufferIds -> Futures] /\ popFuture \in [BufferIds -> Futures]
    BY DEF Futures
  <2> QED
    BY <1>1, <2>1, <2>2, <2>3, <2>4 DEF TypeOK
<1>3. Counts /\ OneRequest /\ DiskCount
  BY DEF Counts, OneRequest, DiskCount, Idle0, Busy, Workers
<1>4. Worker1Tasks
  BY Constants DEF Worker1Tasks, DiskTask, BufferIds, Workers
<1> QED
  BY <1>2, <1>3, <1>4 DEF RequestInv

\* A step that leaves the queues, the tasks and the owner's counters alone and
\* neither starts nor ends a task of worker 0 leaves the requests as they are.
LEMMA Undisturbed ==
  ASSUME RequestInv, ~failed,
         UNCHANGED <<queue, task, owner, pushes, count, toDisk, pushFuture, popFuture>>,
         Busy(0)' <=> Busy(0)
  PROVE  (Counts /\ OneRequest /\ DiskCount /\ Worker1Tasks)'
<1>1. Idle0' <=> Idle0
  BY DEF Idle0
<1>2. \A op, id : Outstanding(op, id)' <=> Outstanding(op, id)
  BY DEF Outstanding
<1>3. Counts'
  BY DEF RequestInv, Counts
<1>4. OneRequest'
  BY <1>1, <1>2 DEF RequestInv, OneRequest
<1>5. DiskCount'
  BY <1>1 DEF RequestInv, DiskCount
<1>6. Worker1Tasks'
  BY DEF RequestInv, Worker1Tasks
<1> QED
  BY <1>3, <1>4, <1>5, <1>6

\* While worker 0 is busy its task is one of the owner's two.
LEMMA Worker0Task ==
  ASSUME RequestInv, Busy(0)
  PROVE  /\ task[0].op \in {"emplaceFront", "popFront"}
         /\ queue[0] = << >>
         /\ task[0].op = "emplaceFront" =>
               owner = "idle" /\ count > 0 /\ task[0].id = count - 1
         /\ task[0].op = "popFront" =>
               owner = "popWait" /\ count < MaxBuffers /\ task[0].id = count
BY SMTT(40) DEF RequestInv, OneRequest, Idle0, Outstanding
-----------------------------------------------------------------------------
(* Type correctness, action by action. *)

\* What moving an index and copying an array do to the type of the queue.
LEMMA DequeTypes ==
  ASSUME NEW d \in DequeType
  PROVE  /\ d.begin \in Int /\ d.end \in Int /\ d.slot \in [Slots -> Arrays]
         /\ PopFront(d) \in DequeType /\ PopBack(d) \in DequeType
         /\ IncFront(d) \in DequeType /\ IncBack(d) \in DequeType
BY DEF DequeType, PopFront, PopBack, IncFront, IncBack

LEMMA WriteType ==
  ASSUME NEW d \in DequeType, NEW s, NEW v \in Arrays
  PROVE  Write(d, s, v) \in DequeType
BY DEF DequeType, Write

\* The entry at an end of a queue with room for some is an array.
LEMMA EntryType ==
  ASSUME NEW d \in DequeType, Capacity > 0
  PROVE  FrontEntry(d) \in Arrays /\ BackEntry(d) \in Arrays
BY DequeTypes, SlotOfInSlots DEF FrontEntry, BackEntry, FrontSlot, BackSlot
\* A queue that is not empty has slots.
LEMMA RoomForSome ==
  ASSUME IInv
  PROVE  /\ Size(deque) \in 0 .. Capacity
         /\ ~Empty(deque) => Capacity > 0 /\ Size(deque) > 0
         /\ ~Full(deque) => Capacity > 0 /\ Size(deque) < Capacity
<1>1. deque \in DequeType /\ Size(deque) \in 0 .. Capacity
  BY DEF IInv, RequestInv, TypeOK, TypeOKCommon, SizeKept
<1> QED
  BY <1>1, DequeTypes, Constants DEF Empty, Full, Size

LEMMA WorkerRequest ==
  ASSUME IInv, ~failed, NEW w \in Workers, CommonStep(w) \/ SpuriousWake(w),
         UNCHANGED <<ownerVars, toDisk, pushFuture, popFuture>>
  PROVE  RequestInv'
<1> USE DEF ownerVars
<1>0. RequestInv /\ TypeOK /\ TypeOKCommon
  BY DEF IInv, RequestInv, TypeOK
<1>a. w = 0 \/ w = 1
  BY DEF Workers
<1>b. 0 \in Workers /\ 1 \in Workers
  BY DEF Workers
<1>1. ASSUME TypeOKCommon' PROVE TypeOK'
  BY <1>0, <1>1 DEF TypeOK
<1>2. ASSUME TypeOKCommon', UNCHANGED <<queue, task>>, Busy(0)' <=> Busy(0)
      PROVE  RequestInv'
  BY <1>0, <1>1, <1>2, Undisturbed DEF RequestInv
<1>3. ASSUME UNCHANGED <<deque, mutex, disk, queue, task, continue, failed>>,
             NEW next \in PcStates, pc' = [pc EXCEPT ![w] = next],
             w = 0 => (next \in {"consume", "dozing", "asleep", "exited"} <=> ~Busy(0))
      PROVE  RequestInv'
  <2>1. TypeOKCommon'
    BY <1>0, <1>3 DEF TypeOKCommon
  <2>2. Busy(0)' <=> Busy(0)
    BY <1>0, <1>3, <1>a, <1>b DEF Busy, TypeOKCommon
  <2> QED
    BY <1>2, <1>3, <2>1, <2>2
<1>4. CASE Exit(w)
  BY <1>3, <1>4 DEF Exit, PcStates, Busy
<1>5. CASE Doze(w)
  BY <1>3, <1>5 DEF Doze, PcStates, Busy
<1>6. CASE FallAsleep(w)
  BY <1>3, <1>6 DEF FallAsleep, PcStates, Busy
<1>7. CASE Test(w)
  BY <1>3, <1>7 DEF Test, PcStates, Busy
<1>8. CASE FinishDisk(w)
  <2>1. w # 0
    BY <1>0, <1>8, Worker0Task DEF FinishDisk, Busy
  <2> QED
    BY <1>3, <1>8, <2>1 DEF FinishDisk, PcStates
<1>9. CASE SpuriousWake(w)
  BY <1>3, <1>9 DEF SpuriousWake, PcStates, Busy
<1>10. CASE Acquire(w)
  <2>1. TypeOKCommon'
    BY <1>0, <1>10 DEF TypeOKCommon, Acquire, PcStates
  <2> QED
    BY <1>0, <1>2, <1>10, <1>b, <2>1 DEF Acquire, Busy, TypeOKCommon
<1>11. CASE Block(w)
  <2>1. TypeOKCommon'
    BY <1>0, <1>11 DEF TypeOKCommon, Block, Release, PcStates, Free
  <2> QED
    BY <1>0, <1>2, <1>11, <1>b, <2>1 DEF Block, Busy, TypeOKCommon
<1>12. CASE Notify(w)
  <2>1. TypeOKCommon'
    BY <1>0, <1>12 DEF TypeOKCommon, Notify, PcStates
  <2> QED
    BY <1>0, <1>2, <1>12, <1>b, <2>1 DEF Notify, Busy, TypeOKCommon
<1>13. CASE Commit(w)
  <2>1. deque' \in DequeType
    BY <1>0, <1>13, DequeTypes DEF Commit, TypeOKCommon, Poppers, Task, Operations
  <2>2. TypeOKCommon'
    BY <1>0, <1>13, <2>1 DEF TypeOKCommon, Commit, Release, PcStates, Free
  <2> QED
    BY <1>0, <1>2, <1>13, <1>b, <2>2 DEF Commit, Busy, TypeOKCommon
<1>14. CASE TransferToDisk(w)
  <2>1. disk' \in [BufferIds -> Arrays]
    BY <1>0, <1>14, EntryType, RoomForSome DEF TransferToDisk, TypeOKCommon
  <2>2. failed' \in BOOLEAN
    BY <1>14 DEF TransferToDisk, Empty
  <2>3. TypeOKCommon'
    BY <1>0, <1>14, <2>1, <2>2 DEF TypeOKCommon, TransferToDisk, PcStates
  <2> QED
    BY <1>0, <1>2, <1>14, <1>b, <2>3 DEF TransferToDisk, Busy, TypeOKCommon
<1>15. CASE TransferFromDisk(w)
  <2>1. disk[task[w].id] \in Arrays
    BY <1>0 DEF TypeOKCommon, Task
  <2>2. deque' \in DequeType
    BY <1>0, <1>15, <2>1, WriteType DEF TransferFromDisk, TypeOKCommon
  <2>3. disk' \in [BufferIds -> Arrays]
    BY <1>0, <1>15 DEF TransferFromDisk, TypeOKCommon, Removed, Arrays
  <2>4. TypeOKCommon'
    BY <1>0, <1>15, <2>2, <2>3 DEF TypeOKCommon, TransferFromDisk, PcStates
  <2> QED
    BY <1>0, <1>2, <1>15, <1>b, <2>4 DEF TransferFromDisk, Busy, TypeOKCommon
<1>16. CASE TakeTask(w)
  <2>1. Head(queue[w]) \in Task /\ Tail(queue[w]) \in Seq(Task) /\ queue[w] \in Seq(Task)
    BY <1>0, <1>16 DEF TakeTask, TypeOKCommon
  <2>2. TypeOKCommon'
    BY <1>0, <1>16, <2>1 DEF TypeOKCommon, TakeTask, PcStates
  <2>3. CASE w = 0
    <3>1. ~Idle0 /\ ~Busy(0) /\ queue[0] # << >> /\ Busy(0)'
      BY <1>0, <1>16, <2>3, <1>b DEF TakeTask, Idle0, Busy, TypeOKCommon
    <3>2. queue'[0] = << >> /\ queue'[1] = queue[1] /\ task'[1] = task[1]
          /\ \A op, id : Outstanding(op, id) => task'[0] = [op |-> op, id |-> id]
      BY <1>0, <1>16, <2>3, <1>b, <3>1
         DEF TakeTask, RequestInv, OneRequest, Outstanding, TypeOKCommon
    <3>3. OneRequest'
      BY <1>0, <1>16, <3>1, <3>2 DEF TakeTask, RequestInv, OneRequest, Outstanding, Idle0
    <3>4. DiskCount' /\ Counts' /\ Worker1Tasks'
      BY <1>0, <1>16, <3>1, <3>2 DEF TakeTask, RequestInv, DiskCount, Idle0, Counts, Worker1Tasks
    <3> QED
      BY <1>1, <2>2, <3>3, <3>4 DEF RequestInv
  <2>4. CASE w = 1
    <3>1. queue'[0] = queue[0] /\ task'[0] = task[0] /\ Busy(0)' = Busy(0)
      BY <1>0, <1>16, <2>4, <1>b DEF TakeTask, Busy, TypeOKCommon
    <3>2. Idle0' = Idle0 /\ \A op, id : Outstanding(op, id)' = Outstanding(op, id)
      BY <3>1 DEF Idle0, Outstanding
    <3>3. OneRequest' /\ DiskCount' /\ Counts'
      BY <1>0, <1>16, <3>1, <3>2 DEF TakeTask, RequestInv, OneRequest, DiskCount, Counts
    <3>4. Worker1Tasks'
      BY <1>0, <1>16, <2>4, <1>b DEF TakeTask, RequestInv, Worker1Tasks, TypeOKCommon
    <3> QED
      BY <1>1, <2>2, <3>3, <3>4 DEF RequestInv
  <2> QED
    BY <1>a, <2>3, <2>4
<1> QED
  BY <1>4, <1>5, <1>6, <1>7, <1>8, <1>9, <1>10, <1>11, <1>12, <1>13, <1>14, <1>15, <1>16
     DEF CommonStep
-----------------------------------------------------------------------------
(* The tasks of worker 0 and the steps of the owner. *)

\* Notifying workers keeps the types, and disturbs no worker but a sleeper.
LEMMA AwokenType ==
  ASSUME TypeOKCommon, NEW S
  PROVE  Awoken(pc, S) \in [Workers -> PcStates]
BY DEF TypeOKCommon, Awoken, PcStates, Workers

\* Worker 1 is only given transfers to and from disk.
LEMMA EnqueueDisk ==
  ASSUME RequestInv, NEW t \in DiskTask
  PROVE  /\ Enqueued(1, t) \in [Workers -> Seq(Task)]
         /\ Enqueued(1, t)[0] = queue[0]
         /\ Enqueued(1, t)[1] \in Seq(DiskTask)
<1>1. TypeOKCommon /\ t \in Task /\ 0 \in Workers /\ 1 \in Workers /\ queue[1] \in Seq(DiskTask)
  BY DEF RequestInv, TypeOK, Worker1Tasks, DiskTask, Task, Operations, Workers
<1>2. Append(queue[1], t) \in Seq(DiskTask)
  BY <1>1
<1> QED
  BY <1>1, <1>2 DEF Enqueued, TypeOKCommon

LEMMA BusyAwoken ==
  ASSUME TypeOKCommon, NEW S, NEW w \in Workers,
         pc' = Awoken(pc, S)
  PROVE  Busy(w)' <=> Busy(w)
BY DEF TypeOKCommon, Awoken, Busy

LEMMA TransferRequest ==
  ASSUME IInv, ~failed, TransferPushed \/ TransferPopped
  PROVE  RequestInv'
<1>0. RequestInv /\ TypeOK /\ TypeOKCommon /\ 0 \in Workers
  BY DEF IInv, RequestInv, TypeOK, Workers
<1>1. CASE TransferPushed
  <2>1. deque' \in DequeType /\ failed' \in BOOLEAN
    BY <1>0, <1>1, WriteType DEF TransferPushed, TypeOKCommon, TypeOK, Full
  <2>2. TypeOKCommon'
    BY <1>0, <1>1, <2>1 DEF TypeOKCommon, TransferPushed, PcStates
  <2>3. TypeOK'
    BY <1>0, <1>1, <2>2 DEF TypeOK, TransferPushed, ownerVars
  <2>4. Busy(0)' <=> Busy(0)
    BY <1>0, <1>1 DEF TransferPushed, Busy, TypeOKCommon
  <2> QED
    BY <1>0, <1>1, <2>3, <2>4, Undisturbed DEF TransferPushed, RequestInv, ownerVars
<1>2. CASE TransferPopped
  <2>1. array' \in Arrays /\ failed' \in BOOLEAN
    BY <1>0, <1>2, EntryType, RoomForSome DEF TransferPopped, TypeOKCommon, TypeOK, Empty
  <2>2. TypeOKCommon'
    BY <1>0, <1>2, <2>1 DEF TypeOKCommon, TransferPopped, PcStates
  <2>3. TypeOK'
    BY <1>0, <1>2, <2>1, <2>2 DEF TypeOK, TransferPopped
  <2>4. Busy(0)' <=> Busy(0)
    BY <1>0, <1>2 DEF TransferPopped, Busy, TypeOKCommon
  <2> QED
    BY <1>0, <1>2, <2>3, <2>4, Undisturbed DEF TransferPopped, RequestInv
<1> QED
  BY <1>1, <1>2

\* A task of worker 0 that ends leaves no request; it may leave one to worker 1.
LEMMA FinishRequest ==
  ASSUME IInv, ~failed, FinishPush \/ FinishPop
  PROVE  RequestInv'
<1> USE Constants
<1>0. RequestInv /\ TypeOK /\ TypeOKCommon /\ 0 \in Workers /\ 1 \in Workers
  BY DEF IInv, RequestInv, TypeOK, Workers
<1>1. CASE FinishPush
  <2>1. Busy(0) /\ owner = "idle" /\ count > 0 /\ queue[0] = << >> /\ ~Idle0
    BY <1>0, <1>1, Worker0Task DEF FinishPush, Busy, Idle0
  <2>2. toDisk < count /\ count <= MaxBuffers /\ toDisk \in Nat /\ count \in Nat
    BY <1>0, <2>1 DEF RequestInv, DiskCount, TypeOK
  <2> DEFINE t == [op |-> "hostToDisk", id |-> toDisk]
  <2>3. t \in DiskTask /\ t \in Task
    BY <2>2 DEF DiskTask, Task, Operations, BufferIds
  <2>4. /\ queue' \in [Workers -> Seq(Task)] /\ queue'[0] = << >>
        /\ queue'[1] \in Seq(DiskTask)
    BY <1>0, <1>1, <2>1, <2>3, EnqueueDisk
       DEF FinishPush, RequestInv, Worker1Tasks, TypeOKCommon
  <2>5. pc' \in [Workers -> PcStates] /\ pc'[0] = "consume"
    BY <1>0, <1>1 DEF FinishPush, PcStates, TypeOKCommon, Awoken
  <2>6. TypeOKCommon'
    BY <1>0, <1>1, <2>4, <2>5 DEF TypeOKCommon, FinishPush
  <2>7. toDisk' <= count /\ toDisk' \in 0 .. MaxBuffers
    BY <1>1, <2>2 DEF FinishPush
  <2>8. TypeOK'
    BY <1>0, <1>1, <2>6, <2>7 DEF TypeOK, FinishPush, Futures, ownerVars
  <2>9. Idle0'
    BY <2>4, <2>5 DEF Idle0, Busy
  <2> QED
    BY <1>0, <1>1, <2>4, <2>7, <2>8, <2>9
       DEF RequestInv, Counts, OneRequest, DiskCount, Worker1Tasks, FinishPush, ownerVars, Idle0
<1>2. CASE FinishPop
  <2>1. Busy(0) /\ owner = "popWait" /\ queue[0] = << >> /\ ~Idle0 /\ count < MaxBuffers
    BY <1>0, <1>2, Worker0Task DEF FinishPop, Busy, Idle0
  <2>2. toDisk <= count + 1 /\ toDisk \in Nat /\ toDisk <= MaxBuffers /\ count \in Nat
    BY <1>0, <2>1 DEF RequestInv, DiskCount, TypeOK
  <2> DEFINE t == [op |-> "diskToHost", id |-> toDisk - 1]
  <2>3. MayCallBack => t \in DiskTask /\ t \in Task
    BY <2>2 DEF DiskTask, Task, Operations, BufferIds, MayCallBack
  <2>4. /\ queue' \in [Workers -> Seq(Task)] /\ queue'[0] = << >>
        /\ queue'[1] \in Seq(DiskTask)
    BY <1>0, <1>2, <2>1, <2>3, EnqueueDisk
       DEF FinishPop, RequestInv, Worker1Tasks, TypeOKCommon
  <2>5. pc' \in [Workers -> PcStates] /\ pc'[0] = "consume"
    BY <1>0, <1>2 DEF FinishPop, PcStates, TypeOKCommon, Awoken
  <2>6. TypeOKCommon'
    BY <1>0, <1>2, <2>4, <2>5 DEF TypeOKCommon, FinishPop
  <2>7. toDisk' <= count /\ toDisk' \in 0 .. MaxBuffers
    BY <1>2, <2>2 DEF FinishPop, MayCallBack
  <2>8. TypeOK'
    BY <1>0, <1>2, <2>6, <2>7 DEF TypeOK, FinishPop, Futures, ownerVars
  <2>9. Idle0'
    BY <2>4, <2>5 DEF Idle0, Busy
  <2> QED
    BY <1>0, <1>2, <2>4, <2>7, <2>8, <2>9
       DEF RequestInv, Counts, OneRequest, DiskCount, Worker1Tasks, FinishPop, ownerVars, Idle0
<1> QED
  BY <1>1, <1>2
LEMMA OwnerRequest ==
  ASSUME IInv, ~failed, OwnerStep
  PROVE  RequestInv'
<1> USE Constants DEF ownerVars
<1>0. RequestInv /\ TypeOK /\ TypeOKCommon /\ 0 \in Workers /\ 1 \in Workers
  BY DEF IInv, RequestInv, TypeOK, Workers
<1>a. pushes \in Nat /\ count \in Nat /\ count <= pushes /\ pushes <= PushCount
  BY <1>0 DEF TypeOK, RequestInv, Counts
\* The owner goes on only when nothing is pending.
<1>b. \/ owner \notin {"idle", "popWait"}
      \/ owner = "idle" /\ PushWaitReturns
      \/ owner = "idle" /\ count = 0
      \/ owner = "popWait" /\ (count < MaxBuffers => popFuture[count] = "ready")
      => Idle0
  BY <1>0 DEF RequestInv, OneRequest, PushWaitReturns
<1>1. ASSUME UNCHANGED <<deque, mutex, disk, queue, task, pc, toDisk, pushFuture, popFuture>>,
             continue' \in BOOLEAN, failed' \in BOOLEAN, array' \in Arrays, popped' \in BOOLEAN,
             count' = count, pushes' \in 0 .. PushCount, owner' \in OwnerStates,
             Idle0, Counts'
      PROVE  RequestInv'
  <2>1. TypeOK'
    BY <1>0, <1>1 DEF TypeOK, TypeOKCommon
  <2>2. Idle0'
    BY <1>1 DEF Idle0, Busy
  <2>3. OneRequest' /\ DiskCount' /\ Worker1Tasks'
    BY <1>0, <1>1, <2>2 DEF OneRequest, Idle0, DiskCount, Worker1Tasks, RequestInv
  <2> QED
    BY <1>1, <2>1, <2>3 DEF RequestInv
<1>2. CASE ComputeArray
  <2>1. array' \in Arrays
    BY <1>2, <1>a, ArrayAssumption DEF ComputeArray, Arrays
  <2> QED
    BY <1>0, <1>1, <1>2, <1>a, <1>b, <2>1
       DEF ComputeArray, commonVars, TypeOK, TypeOKCommon, Counts, OwnerStates
<1>3. CASE PopPrelude
  <2>1. failed' \in BOOLEAN
    BY <1>3, <1>0 DEF PopPrelude, TypeOK
  <2> QED
    BY <1>0, <1>1, <1>3, <1>a, <1>b, <2>1
       DEF PopPrelude, TypeOK, TypeOKCommon, Counts, OwnerStates
<1>4. ASSUME NEW w \in Workers, NEW here \in {"drain0", "drain1"}, NEW next \in {"drain1", "pop"},
             DrainQueue(w, here, next)
      PROVE  RequestInv'
  BY <1>0, <1>1, <1>4, <1>a, <1>b
     DEF DrainQueue, commonVars, TypeOK, TypeOKCommon, Counts, OwnerStates, RequestInv
<1>5. CASE PopWait
  BY <1>0, <1>1, <1>5, <1>a, <1>b
     DEF PopWait, commonVars, TypeOK, TypeOKCommon, Counts, OwnerStates
<1>6. CASE Stop
  BY <1>0, <1>1, <1>6, <1>a, <1>b DEF Stop, TypeOK, TypeOKCommon, Counts, OwnerStates
<1>7. CASE Join
  BY <1>0, <1>1, <1>7, <1>a, <1>b DEF Join, commonVars, TypeOK, TypeOKCommon, Counts, OwnerStates
<1>8. CASE NotifyWorkers
  <2>1. TypeOKCommon'
    BY <1>0, <1>8, AwokenType DEF NotifyWorkers, TypeOKCommon
  <2>2. TypeOK'
    BY <1>0, <1>8, <2>1 DEF NotifyWorkers, TypeOK, OwnerStates
  <2>3. Idle0'
    BY <1>0, <1>8, <1>b, BusyAwoken DEF NotifyWorkers, Idle0
  <2> QED
    BY <1>0, <1>8, <1>b, <2>2, <2>3
       DEF NotifyWorkers, RequestInv, Counts, OneRequest, DiskCount, Idle0, Worker1Tasks
<1>9. CASE PushAsync /\ Capacity = 0
  <2>0. count < pushes /\ failed' = TRUE
    BY <1>0, <1>9 DEF PushAsync, RequestInv, Counts
  <2>1. TypeOK'
    BY <1>0, <1>9, <1>a, <2>0 DEF PushAsync, TypeOK, TypeOKCommon, RequestInv, Counts
  <2>2. Idle0' /\ Counts'
    BY <1>0, <1>9, <1>a, <1>b, <2>0 DEF PushAsync, Idle0, Busy, Counts, RequestInv
  <2> QED
    BY <1>0, <1>9, <1>a, <1>b, <2>1, <2>2
       DEF PushAsync, RequestInv, OneRequest, DiskCount, Idle0, Worker1Tasks, TypeOK
<1>10. CASE PushAsync /\ Capacity # 0
  <2> DEFINE t == [op |-> "emplaceFront", id |-> count]
  <2>1. count < pushes /\ count \in BufferIds /\ t \in Task
    BY <1>0, <1>10, <1>a DEF PushAsync, RequestInv, Counts, BufferIds, Task, Operations
  <2>2. /\ queue' \in [Workers -> Seq(Task)] /\ queue'[1] = queue[1]
        /\ queue'[0] = << t >>
    <3>1. queue' = Enqueued(0, t) /\ queue[0] = << >>
      BY <1>0, <1>10, <1>b DEF PushAsync, Idle0
    <3> HIDE DEF t
    <3>2. Append(queue[0], t) = << t >>
      BY <2>1, <3>1
    <3> QED
      BY <1>0, <2>1, <3>1, <3>2 DEF Enqueued, TypeOKCommon
  <2>3. TypeOKCommon' /\ (Busy(0)' <=> Busy(0))
    BY <1>0, <1>10, <2>2, AwokenType, BusyAwoken DEF PushAsync, TypeOKCommon
  <2>4. pushFuture' \in [BufferIds -> Futures] /\ pushFuture'[count] = "pending"
    BY <1>0, <1>10, <2>1 DEF PushAsync, TypeOK, Futures
  <2>5. TypeOK'
    BY <1>0, <1>10, <1>a, <2>1, <2>3, <2>4 DEF PushAsync, TypeOK, OwnerStates
  <2>6. OneRequest'
    BY <1>0, <1>10, <1>a, <1>b, <2>1, <2>2, <2>3, <2>4
       DEF PushAsync, OneRequest, Outstanding, Idle0
  <2>7. DiskCount' /\ Counts' /\ Worker1Tasks'
    BY <1>0, <1>10, <1>a, <1>b, <2>1, <2>2
       DEF PushAsync, DiskCount, Counts, Worker1Tasks, RequestInv, Idle0, TypeOK
  <2> QED
    BY <2>5, <2>6, <2>7 DEF RequestInv
<1>11. CASE PopAsync
  <2> DEFINE t == [op |-> "popFront", id |-> count - 1]
  <2>1. count > 0 /\ count <= MaxBuffers /\ count - 1 \in BufferIds /\ t \in Task
    BY <1>0, <1>11, <1>a DEF PopAsync, RequestInv, Counts, BufferIds, Task, Operations
  <2>2. /\ queue' \in [Workers -> Seq(Task)] /\ queue'[1] = queue[1]
        /\ queue'[0] = << t >>
    <3>1. queue' = Enqueued(0, t) /\ queue[0] = << >>
      BY <1>0, <1>11, <1>b DEF PopAsync, Idle0
    <3> HIDE DEF t
    <3>2. Append(queue[0], t) = << t >>
      BY <2>1, <3>1
    <3> QED
      BY <1>0, <2>1, <3>1, <3>2 DEF Enqueued, TypeOKCommon
  <2>3. TypeOKCommon' /\ (Busy(0)' <=> Busy(0))
    BY <1>0, <1>11, <2>2, AwokenType, BusyAwoken DEF PopAsync, TypeOKCommon
  <2>4. popFuture' \in [BufferIds -> Futures] /\ popFuture'[count - 1] = "pending"
    BY <1>0, <1>11, <2>1 DEF PopAsync, TypeOK, Futures
  <2>5. TypeOK'
    BY <1>0, <1>11, <1>a, <2>1, <2>3, <2>4 DEF PopAsync, TypeOK, OwnerStates
  <2>6. OneRequest'
    BY <1>0, <1>11, <1>a, <1>b, <2>1, <2>2, <2>3, <2>4
       DEF PopAsync, OneRequest, Outstanding, Idle0
  <2>7. toDisk <= count /\ toDisk \in Nat
    BY <1>0, <1>11, <1>b DEF PopAsync, RequestInv, DiskCount, TypeOK
  <2>8. DiskCount'
    <3>1. ~Idle0'
      BY <2>2 DEF Idle0
    <3>2. owner' = "popWait" /\ toDisk' <= count' + 1
      BY <1>11, <1>a, <2>7 DEF PopAsync
    <3> QED
      BY <3>1, <3>2 DEF DiskCount
  <2>9. Counts' /\ Worker1Tasks'
    BY <1>0, <1>11, <1>a, <2>1, <2>2 DEF PopAsync, Counts, Worker1Tasks, RequestInv
  <2> QED
    BY <2>5, <2>6, <2>8, <2>9 DEF RequestInv
<1> QED
  BY <1>0, <1>2, <1>3, <1>4, <1>5, <1>6, <1>7, <1>8, <1>9, <1>10, <1>11 DEF OwnerStep
-----------------------------------------------------------------------------
(* The mutexes. *)

\* The steps of one worker, on either side of the split into modules.
AnyWorkerStep(w) == WorkerStep(w) \/ Spurious(w)

LEMMA LockNames ==
  ASSUME NEW op \in Operations
  PROVE  /\ Locks(op) \subseteq Mutexes /\ Locks(op) # {}
         /\ op \in Emplacers <=> "emplace" \in Locks(op)
         /\ op \in Poppers <=> "pop" \in Locks(op)
         /\ op \in Emplacers \/ op \in Poppers
BY DEF Operations, Locks, Mutexes, Emplacers, Poppers

\* Two workers inside their operations hold different mutexes.
LEMMA Apart ==
  ASSUME IInv, NEW v \in Workers, NEW w \in Workers, v # w, Inside(v), Inside(w)
  PROVE  /\ ~(task[v].op \in Emplacers /\ task[w].op \in Emplacers)
         /\ ~(task[v].op \in Poppers /\ task[w].op \in Poppers)
<1>1. task[v].op \in Operations /\ task[w].op \in Operations
  BY DEF IInv, RequestInv, TypeOK, TypeOKCommon, Task
<1>2. /\ \A m \in Locks(task[v].op) : mutex[m] = v
      /\ \A m \in Locks(task[w].op) : mutex[m] = w
  BY DEF IInv, Holds
<1> QED
  BY <1>1, <1>2, LockNames

\* A step that takes or releases no mutex, starts no task inside an operation
\* and moves no worker into or out of one keeps what is held.
LEMMA HoldsKept ==
  ASSUME Holds, mutex' = mutex,
         \A w \in Workers : Inside(w)' <=> Inside(w),
         \A w \in Workers : Inside(w) => task'[w] = task[w]
  PROVE  Holds'
BY DEF Holds

LEMMA HoldsStep ==
  ASSUME IInv, ~failed,
         OwnerStep \/ \E w \in Workers : AnyWorkerStep(w)
  PROVE  Holds'
<1>0. TypeOKCommon /\ Holds /\ RequestInv /\ 0 \in Workers
  BY DEF IInv, RequestInv, TypeOK, Workers
<1>1. CASE OwnerStep
  <2>1. mutex' = mutex /\ task' = task
    BY <1>1 DEF OwnerStep, ComputeArray, PushAsync, PopPrelude, DrainQueue, PopAsync, PopWait,
                Stop, NotifyWorkers, Join, commonVars
  <2>2. \A w \in Workers : Inside(w)' <=> Inside(w)
    <3>1. \A w \in Workers : pc'[w] = pc[w] \/ (pc[w] = "asleep" /\ pc'[w] = "consume")
      BY <1>0, <1>1 DEF OwnerStep, ComputeArray, PushAsync, PopPrelude, DrainQueue, PopAsync,
                PopWait, Stop, NotifyWorkers, Join, commonVars, Awoken, TypeOKCommon
    <3> QED
      BY <3>1 DEF Inside
  <2> QED
    BY <1>0, <2>1, <2>2, HoldsKept
<1>2. ASSUME NEW w \in Workers, AnyWorkerStep(w)
      PROVE  Holds'
  <2>0. task[w].op \in Operations /\ Locks(task[w].op) \subseteq Mutexes
    BY <1>0, LockNames DEF TypeOKCommon, Task
  <2>1. CASE Acquire(w)
    <3>1. mutex' = [m \in Mutexes |-> IF m \in Locks(task[w].op) THEN w ELSE mutex[m]]
          /\ task' = task /\ pc' = [pc EXCEPT ![w] = "test"] /\ pc[w] = "acquire"
          /\ \A m \in Locks(task[w].op) : mutex[m] = Free
      BY <2>1 DEF Acquire
    <3>2. Inside(w)' /\ \A m \in Locks(task[w].op) : mutex'[m] = w
      BY <1>0, <2>0, <3>1 DEF Inside, TypeOKCommon
    <3>3. ASSUME NEW v \in Workers \ {w}
          PROVE  /\ Inside(v)' <=> Inside(v)
                 /\ Inside(v) => \A m \in Locks(task[v].op) : mutex'[m] = v
                 /\ ~Inside(v) => \A m \in Mutexes : mutex'[m] # v
      <4>1. Inside(v)' <=> Inside(v)
        BY <1>0, <3>1 DEF Inside, TypeOKCommon
      <4>2. v # Free /\ v # w /\ task[v].op \in Operations
        BY <1>0 DEF Free, Workers, TypeOKCommon, Task
      <4>3. Inside(v) => \A m \in Locks(task[v].op) : mutex'[m] = v
        BY <1>0, <3>1, <4>2, LockNames DEF Holds
      <4>4. ~Inside(v) => \A m \in Mutexes : mutex'[m] # v
        BY <1>0, <3>1, <4>2 DEF Holds
      <4> QED
        BY <4>1, <4>3, <4>4
    <3> QED
      BY <3>1, <3>2, <3>3 DEF Holds
  <2>2. ASSUME mutex' = Release(w), task' = task, ~Inside(w)',
               \A v \in Workers \ {w} : Inside(v)' <=> Inside(v)
        PROVE  Holds'
    <3>1. \A m \in Mutexes : mutex'[m] # w
      BY <1>0, <2>2 DEF Release, Free, Workers
    <3>2. ASSUME NEW v \in Workers \ {w}, Inside(v), NEW m \in Locks(task[v].op)
          PROVE  mutex'[m] = v
      <4>1. m \in Mutexes /\ mutex[m] = v /\ v # w
        BY <1>0, <3>2, LockNames DEF Holds, TypeOKCommon, Task
      <4> QED
        BY <2>2, <4>1 DEF Release
    <3>3. ASSUME NEW v \in Workers \ {w}, ~Inside(v), NEW m \in Mutexes
          PROVE  mutex'[m] # v
      <4>1. mutex[m] # v /\ v # Free
        BY <1>0, <3>3 DEF Holds, Free, Workers
      <4> QED
        BY <2>2, <4>1 DEF Release
    <3> QED
      BY <2>2, <3>1, <3>2, <3>3 DEF Holds
  <2>3. CASE Block(w)
    BY <1>0, <2>2, <2>3 DEF Block, Inside, TypeOKCommon
  <2>4. CASE Commit(w)
    <3>1. CASE failed'
      BY <1>0, <2>4, <3>1, HoldsKept DEF Commit, Inside
    <3>2. CASE ~failed'
      BY <1>0, <2>2, <2>4, <3>2 DEF Commit, Inside, TypeOKCommon
    <3> QED
      BY <3>1, <3>2
  <2>5. CASE Exit(w) \/ Doze(w) \/ FallAsleep(w) \/ TakeTask(w) \/ FinishDisk(w) \/ Spurious(w)
    BY <1>0, <2>5, HoldsKept
       DEF Exit, Doze, FallAsleep, TakeTask, FinishDisk, Spurious, SpuriousWake, Inside, TypeOKCommon
  <2>6. CASE Test(w) \/ Notify(w) \/ TransferToDisk(w) \/ TransferFromDisk(w)
    BY <1>0, <2>6, HoldsKept
       DEF Test, Notify, TransferToDisk, TransferFromDisk, Inside, TypeOKCommon
  <2>7. CASE TransferPushed \/ TransferPopped
    BY <1>0, <2>7, HoldsKept DEF TransferPushed, TransferPopped, Inside, TypeOKCommon
  <2>8. CASE FinishPush \/ FinishPop
    BY <1>0, <2>8, HoldsKept DEF FinishPush, FinishPop, Awoken, Inside, TypeOKCommon
  <2> QED
    BY <1>2, <2>1, <2>3, <2>4, <2>5, <2>6, <2>7, <2>8 DEF AnyWorkerStep, WorkerStep, CommonStep
<1> QED
  BY <1>1, <1>2
-----------------------------------------------------------------------------
(* The size of the queue. *)

\* A step that moves no index, changes no task of a worker inside its operation
\* and lets no worker past its test keeps what the operations have seen.
LEMMA SizeUnchanged ==
  ASSUME SizeKept, deque'.begin = deque.begin, deque'.end = deque.end,
         \A w \in Workers : Inside(w) => task'[w] = task[w],
         \A w \in Workers : \/ pc'[w] = pc[w]
                            \/ ~Inside(w) /\ pc'[w] \notin {"transfer", "commit"}
                            \/ pc'[w] \notin {"transfer", "commit"}
                            \/ pc[w] = "transfer" /\ task[w].op # "hostToDisk"
                               /\ pc'[w] = "commit"
  PROVE  SizeKept'
BY DEF SizeKept, Size, Filling, Inside

LEMMA SizeStep ==
  ASSUME IInv, ~failed,
         OwnerStep \/ \E w \in Workers : AnyWorkerStep(w)
  PROVE  SizeKept'
<1>0. TypeOKCommon /\ SizeKept /\ 0 \in Workers /\ Capacity \in Nat
  BY Constants DEF IInv, RequestInv, TypeOK, Workers
<1>d. deque.begin \in Int /\ deque.end \in Int /\ Size(deque) = deque.end - deque.begin + 1
      /\ Size(deque) \in 0 .. Capacity
  BY <1>0, DequeTypes DEF TypeOKCommon, Size, SizeKept
<1>1. CASE OwnerStep
  <2>1. deque' = deque /\ task' = task
    BY <1>1 DEF OwnerStep, ComputeArray, PushAsync, PopPrelude, DrainQueue, PopAsync, PopWait,
                Stop, NotifyWorkers, Join, commonVars
  <2>2. \A w \in Workers : pc'[w] = pc[w] \/ (pc[w] = "asleep" /\ pc'[w] = "consume")
    BY <1>0, <1>1 DEF OwnerStep, ComputeArray, PushAsync, PopPrelude, DrainQueue, PopAsync,
              PopWait, Stop, NotifyWorkers, Join, commonVars, Awoken, TypeOKCommon
  <2> QED
    BY <1>0, <2>1, <2>2, SizeUnchanged
<1>2. ASSUME NEW w \in Workers, AnyWorkerStep(w)
      PROVE  SizeKept'
  <2>0. task[w].op \in Operations
    BY <1>0 DEF TypeOKCommon, Task
  <2>1. CASE Test(w)
    <3>1. /\ deque' = deque /\ task' = task
          /\ \A v \in Workers \ {w} : pc'[v] = pc[v]
          /\ pc'[w] = "blocking" \/ (pc'[w] = "transfer" /\ MayProceed(task[w].op))
      BY <1>0, <2>1 DEF Test, TypeOKCommon
    <3>2. CASE pc'[w] = "blocking"
      BY <1>0, <3>1, <3>2, SizeUnchanged
    <3>3. CASE pc'[w] = "transfer" /\ MayProceed(task[w].op)
      <4>1. task[w].op \in Emplacers => Size(deque) < Capacity
        <5>1. ASSUME task[w].op \in Emplacers PROVE ~Full(deque)
          BY <3>3, <5>1 DEF MayProceed, Emplacers
        <5> QED
          BY <1>0, <1>d, <5>1 DEF Full
      <4>2. task[w].op = "popFront" => Size(deque) > 0
        BY <1>d, <3>3 DEF MayProceed, Empty, Emplacers
      <4> QED
        BY <1>0, <3>1, <3>3, <4>1, <4>2 DEF SizeKept, Filling, Size
    <3> QED
      BY <3>1, <3>2, <3>3
  <2>2. CASE TransferToDisk(w)
    <3>1. /\ deque' = deque /\ task' = task
          /\ \A v \in Workers \ {w} : pc'[v] = pc[v]
          /\ task[w].op = "hostToDisk"
          /\ pc'[w] = pc[w] \/ (pc'[w] = "commit" /\ ~Empty(deque))
      BY <1>0, <2>2 DEF TransferToDisk, TypeOKCommon
    <3>2. CASE pc'[w] = pc[w]
      BY <1>0, <3>1, <3>2, SizeUnchanged
    <3>3. CASE pc'[w] = "commit" /\ ~Empty(deque)
      <4>1. Size(deque) > 0
        BY <1>d, <3>3 DEF Empty
      <4> QED
        BY <1>0, <3>1, <3>3, <4>1 DEF SizeKept, Filling, Size, Emplacers
    <3> QED
      BY <3>1, <3>2, <3>3
  <2>3. CASE Commit(w) /\ failed'
    BY <1>0, <2>3, SizeUnchanged DEF Commit
  <2>4. CASE Commit(w) /\ ~failed'
    <3>1. task' = task /\ pc[w] = "commit" /\ pc'[w] = "notify"
          /\ \A v \in Workers \ {w} : pc'[v] = pc[v]
      BY <1>0, <2>4 DEF Commit, TypeOKCommon
    <3>2. ASSUME NEW v \in Workers \ {w}, pc[v] \in {"transfer", "commit"}
          PROVE  /\ task[w].op \in Emplacers => task[v].op \notin Emplacers
                 /\ task[w].op \in Poppers => task[v].op \notin Poppers
      BY <3>1, <3>2, Apart DEF Inside
    <3>3. CASE task[w].op \in Emplacers
      <4>1. Size(deque)' = Size(deque) + 1 /\ Size(deque) < Capacity
        <5>1. deque' = IncFront(deque) \/ deque' = IncBack(deque)
          BY <2>0, <2>4, <3>3 DEF Commit, Emplacers
        <5>2. Size(IncFront(deque)) = Size(deque) + 1 /\ Size(IncBack(deque)) = Size(deque) + 1
          BY <1>0, <1>d DEF Size, IncFront, IncBack, TypeOKCommon, DequeType
        <5>3. Size(deque)' = Size(deque')
          BY DEF Size
        <5> QED
          BY <1>0, <3>1, <3>3, <5>1, <5>2, <5>3 DEF SizeKept, Filling
      <4>2. \A v \in Workers : ~Filling(v)'
        BY <3>1, <3>2, <3>3 DEF Filling
      <4> QED
        BY <1>0, <1>d, <3>1, <4>1, <4>2 DEF SizeKept
    <3>4. CASE task[w].op \in Poppers
      <4>1. Size(deque)' = Size(deque) - 1 /\ Size(deque) > 0
        <5>1. deque' = PopFront(deque) \/ deque' = PopBack(deque)
          BY <2>0, <2>4, <3>4 DEF Commit, Poppers
        <5>2. Size(PopFront(deque)) = Size(deque) - 1 /\ Size(PopBack(deque)) = Size(deque) - 1
          BY <1>0, <1>d DEF Size, PopFront, PopBack, TypeOKCommon, DequeType
        <5>3. Size(deque)' = Size(deque')
          BY DEF Size
        <5> QED
          BY <1>0, <3>1, <3>4, <5>1, <5>2, <5>3 DEF SizeKept, Poppers
      <4>2. \A v \in Workers : pc'[v] \in {"transfer", "commit"} => task[v].op \notin Poppers
        BY <3>1, <3>2, <3>4
      <4>3. \A v \in Workers : Filling(v)' => Filling(v)
        BY <3>1 DEF Filling
      <4>4. Size(deque)' \in 0 .. Capacity
        BY <1>0, <1>d, <4>1
      <4>5. \A v \in Workers : Filling(v)' => Size(deque)' < Capacity
        BY <1>0, <1>d, <4>1, <4>3 DEF SizeKept
      <4>6. \A v \in Workers : pc'[v] \in {"transfer", "commit"} =>
                task'[v].op # "popFront" /\ task'[v].op # "hostToDisk"
        BY <3>1, <4>2 DEF Poppers
      <4> QED
        BY <4>4, <4>5, <4>6 DEF SizeKept
    <3> QED
      BY <2>0, <3>3, <3>4, LockNames
  <2>5. CASE Exit(w) \/ Doze(w) \/ FallAsleep(w) \/ TakeTask(w) \/ FinishDisk(w) \/ Spurious(w)
    BY <1>0, <2>5, SizeUnchanged
       DEF Exit, Doze, FallAsleep, TakeTask, FinishDisk, Spurious, SpuriousWake, Inside, TypeOKCommon
  <2>6. CASE Acquire(w) \/ Block(w) \/ Notify(w)
    BY <1>0, <2>6, SizeUnchanged DEF Acquire, Block, Notify, Inside, TypeOKCommon
  <2>7. CASE TransferFromDisk(w) \/ TransferPushed
    <3>1. deque'.begin = deque.begin /\ deque'.end = deque.end /\ task' = task
      BY <1>0, <2>7 DEF TransferFromDisk, TransferPushed, Write, TypeOKCommon, DequeType
    <3> QED
      BY <1>0, <2>7, <3>1, SizeUnchanged DEF TransferFromDisk, TransferPushed, TypeOKCommon
  <2>8. CASE TransferPopped
    BY <1>0, <2>8, SizeUnchanged DEF TransferPopped, TypeOKCommon
  <2>9. CASE FinishPush \/ FinishPop
    BY <1>0, <2>9, SizeUnchanged DEF FinishPush, FinishPop, Awoken, Inside, TypeOKCommon
  <2> QED
    BY <1>2, <2>1, <2>2, <2>3, <2>4, <2>5, <2>6, <2>7, <2>8, <2>9
       DEF AnyWorkerStep, WorkerStep, CommonStep
<1> QED
  BY <1>1, <1>2
-----------------------------------------------------------------------------
(* The theorems. *)

LEMMA InitIInv == Init => IInv
<1> SUFFICES ASSUME Init PROVE IInv
  OBVIOUS
<1>1. Holds
  BY DEF Init, InitCommon, Holds, Inside, Free, Workers
<1>2. SizeKept
  BY Constants DEF Init, InitCommon, SizeKept, Filling, Size, NewDeque
<1> QED
  BY <1>1, <1>2, InitRequest DEF IInv

LEMMA StepIInv == IInv /\ [Next]_vars => IInv'
<1> SUFFICES ASSUME IInv, [Next]_vars PROVE IInv'
  OBVIOUS
<1>1. CASE UNCHANGED vars
  BY <1>1 DEF vars, commonVars, ownerVars, IInv, RequestInv, TypeOK, TypeOKCommon, Counts,
     OneRequest, Outstanding, Idle0, Busy, DiskCount, Worker1Tasks, Holds, Inside, SizeKept,
     Filling, Size
<1>2. CASE ~failed /\ OwnerStep
  BY <1>2, OwnerRequest, HoldsStep, SizeStep DEF IInv
<1>3. CASE ~failed /\ \E w \in Workers : WorkerStep(w) \/ Spurious(w)
  <2>1. PICK w \in Workers : WorkerStep(w) \/ Spurious(w)
    BY <1>3
  <2>2. Holds' /\ SizeKept'
    BY <1>3, HoldsStep, SizeStep DEF AnyWorkerStep
  <2>3. RequestInv'
    BY <1>3, <2>1, WorkerRequest, TransferRequest, FinishRequest DEF WorkerStep, Spurious
  <2> QED
    BY <2>2, <2>3 DEF IInv
<1> QED
  BY <1>1, <1>2, <1>3 DEF Next, Ended

\* Every variable keeps its type: no task is given a buffer id out of range,
\* however pushes and pops interleave with the workers.
THEOREM TypeCorrect == Spec => []TypeOK
<1>1. IInv => TypeOK
  BY DEF IInv, RequestInv
<1> QED
  BY <1>1, InitIInv, StepIInv, PTL DEF Spec
\* The slot before the front and the slot after the back of a queue that is not
\* full are not live.
LEMMA NextSlotsFree ==
  ASSUME IInv, Size(deque) < Capacity
  PROVE  NextFrontSlot(deque) \notin LiveSlots /\ NextBackSlot(deque) \notin LiveSlots
<1>1. deque.begin \in Int /\ deque.end \in Int /\ deque.end - deque.begin + 1 < Capacity
      /\ Capacity \in Nat
  BY DequeTypes, Constants DEF IInv, RequestInv, TypeOK, TypeOKCommon, Size
<1>2. ASSUME NEW i \in deque.begin .. deque.end
      PROVE  SlotOf(deque.begin - 1) # SlotOf(i) /\ SlotOf(deque.end + 1) # SlotOf(i)
  <2>1. i \in Int /\ deque.begin <= i /\ i <= deque.end
    BY <1>1, <1>2
  <2>2. SlotOf(deque.begin - 1) # SlotOf(i)
    BY <1>1, <2>1, SlotOfDistinct
  <2>3. SlotOf(deque.end + 1) # SlotOf(i)
    BY <1>1, <2>1, SlotOfDistinct
  <2> QED
    BY <2>2, <2>3
<1> QED
  BY <1>2 DEF NextFrontSlot, NextBackSlot, LiveSlots

\* The two workers never touch the same slot: the one that fills a slot is
\* alone to fill one, and fills one that no entry of the queue lives in.
THEOREM TransfersAlwaysApart == Spec => []TransfersApart
<1>1. ASSUME IInv PROVE TransfersApart
  <2>1. Size(deque) \in 0 .. Capacity
    BY <1>1 DEF IInv, SizeKept
  <2>2. ASSUME NEW w \in Workers, Filling(w)
        PROVE  FilledSlot(w) \notin LiveSlots
    <3>1. Size(deque) < Capacity
      BY <1>1, <2>2 DEF IInv, SizeKept
    <3> QED
      BY <1>1, <3>1, NextSlotsFree DEF FilledSlot
  <2>3. ASSUME NEW w \in Workers, NEW v \in Workers \ {w}, Filling(w), Filling(v)
        PROVE  FALSE
    BY <1>1, <2>3, Apart DEF Filling, Inside
  <2> QED
    BY <2>1, <2>2, <2>3 DEF TransfersApart
<1> QED
  BY <1>1, InitIInv, StepIInv, PTL DEF Spec
-----------------------------------------------------------------------------
(* The order of the arrays, for an owner that does as announced.             *)

LEMMA StateTypes ==
  ASSUME IInv
  PROVE  /\ TypeOK /\ TypeOKCommon /\ RequestInv /\ OneRequest /\ Counts
         /\ 0 \in Workers /\ 1 \in Workers
         /\ deque \in DequeType /\ deque.begin \in Int /\ deque.end \in Int
         /\ deque.slot \in [Slots -> Arrays]
         /\ count \in Nat /\ count <= MaxBuffers /\ toDisk \in Nat /\ pushes \in Nat
         /\ queue[0] \in Seq(Task) /\ queue[1] \in Seq(DiskTask) /\ Len(queue[1]) \in Nat
         /\ task[1] \in DiskTask /\ DiskLeft \in Nat
<1>1. TypeOK /\ TypeOKCommon /\ RequestInv /\ OneRequest /\ Counts /\ Worker1Tasks
  BY DEF IInv, RequestInv, TypeOK
<1>2. 0 \in Workers /\ 1 \in Workers
  BY DEF Workers
<1>3. deque \in DequeType /\ deque.begin \in Int /\ deque.end \in Int
      /\ deque.slot \in [Slots -> Arrays]
  BY <1>1, DequeTypes DEF TypeOKCommon
<1>4. count \in Nat /\ count <= MaxBuffers /\ toDisk \in Nat /\ pushes \in Nat
  BY <1>1, Constants DEF TypeOK
<1>5. queue[0] \in Seq(Task) /\ queue[1] \in Seq(DiskTask) /\ task[1] \in DiskTask
  BY <1>1, <1>2 DEF TypeOKCommon, Worker1Tasks
<1>6. Len(queue[1]) \in Nat
  BY <1>5, LenProperties
<1>7. DiskLeft \in Nat
  <2>1. CASE Unfinished(1)
    BY <1>6, <2>1 DEF DiskLeft
  <2>2. CASE ~Unfinished(1)
    BY <1>6, <2>2 DEF DiskLeft
  <2> QED
    BY <2>1, <2>2
<1> QED
  BY <1>1, <1>2, <1>3, <1>4, <1>5, <1>6, <1>7

\* An operation is unfinished only while its worker is busy with it.
LEMMA UnfinishedBusy ==
  ASSUME NEW w, Unfinished(w)
  PROVE  Busy(w)
BY DEF Unfinished, Busy, Started

LEMMA InitOrder ==
  ASSUME AsAnnounced, Init
  PROVE  OrderInv
<1>0. /\ deque.begin = 0 /\ deque.end = -1 /\ pc[0] = "consume" /\ pc[1] = "consume"
      /\ queue[0] = << >> /\ queue[1] = << >> /\ Len(queue[1]) = 0
      /\ count = 0 /\ toDisk = 0 /\ pushes = 0 /\ array = 0 /\ ~popped /\ ~failed
      /\ owner = "idle" /\ disk = [id \in BufferIds |-> Nothing]
  BY DEF Init, InitCommon, NewDeque, Workers, Nothing
<1>1. ~Unfinished(0) /\ ~Unfinished(1) /\ Idle0
      /\ \A op : ~Committing(0, op) /\ ~Committing(1, op)
  BY <1>0 DEF Unfinished, Started, Idle0, Busy, Committing
<1>2. Held = 0 /\ DiskLeft = 0 /\ Below = 0
  <2>1. Held = 0
    BY <1>0, <1>1 DEF Held, RequestLeft
  <2>2. DiskLeft = 0
    BY <1>0, <1>1 DEF DiskLeft
  <2> QED
    BY <1>0, <2>1, <2>2 DEF Below
<1>3. Indices
  BY <1>0, <1>2 DEF Indices
<1>4. SlotsHold
  BY <1>0, <1>1 DEF SlotsHold, Filled
<1>5. DiskHolds
  BY <1>0, <1>1, <1>2 DEF OnDisk, DiskHolds, BufferIds
<1>6. DiskOrder
  BY <1>0, <1>1 DEF DiskOrder
<1>7. Phase
  BY <1>0, <1>1 DEF Phase, Pushing
<1> QED
  BY <1>0, <1>3, <1>4, <1>5, <1>6, <1>7 DEF OrderInv
-----------------------------------------------------------------------------
(* Steps that move no array and no index.                                    *)

\* What does not depend on the owner.
Storage == Indices /\ SlotsHold /\ DiskHolds /\ DiskOrder

LEMMA StorageKept ==
  ASSUME Storage, UNCHANGED <<deque, disk, toDisk, popped>>, Held' = Held,
         queue'[1] = queue[1], Unfinished(1) => task'[1] = task[1],
         Unfinished(1)' <=> Unfinished(1),
         Committing(0, "emplaceFront")' <=> Committing(0, "emplaceFront"),
         \A op : Committing(1, op)' <=> Committing(1, op)
  PROVE  Storage'
<1>1. DiskLeft' = DiskLeft /\ Below' = Below
  BY DEF DiskLeft, Below
<1>3. Indices'
  BY <1>1 DEF Storage, Indices
<1>4. SlotsHold'
  BY DEF Storage, SlotsHold, Filled
<1>5. DiskHolds'
  BY <1>1 DEF Storage, DiskHolds, OnDisk
<1>6. DiskOrder'
  BY DEF Storage, DiskOrder, TaskAt
<1> QED
  BY <1>3, <1>4, <1>5, <1>6 DEF Storage

LEMMA PhaseKept ==
  ASSUME Phase, UNCHANGED <<owner, pushes, array, count, toDisk, popped, popFuture>>,
         Idle0' <=> Idle0
  PROVE  Phase'
BY DEF Phase, Pushing, Popping

\* What worker 0 and worker 1 are busy with in the two phases.
LEMMA Worker0Busy ==
  ASSUME IInv, OrderInv, Busy(0)
  PROVE  /\ queue[0] = << >> /\ ~Idle0
         /\ \/ /\ task[0].op = "emplaceFront" /\ ~popped /\ owner = "idle" /\ count > 0
               /\ task[0].id = count - 1
            \/ /\ task[0].op = "popFront" /\ popped /\ owner = "popWait" /\ count < MaxBuffers
               /\ task[0].id = count
<1>1. RequestInv /\ ~Idle0
  BY StateTypes DEF Idle0
<1>2. Phase /\ (popped \in BOOLEAN)
  BY StateTypes DEF OrderInv, TypeOK
<1> QED
  BY <1>1, <1>2, Worker0Task DEF Phase, Pushing, Popping

LEMMA Worker1Unfinished ==
  ASSUME IInv, OrderInv, Unfinished(1)
  PROVE  /\ Below \in Nat /\ DiskLeft = Len(queue[1]) + 1
         /\ popped => task[1].op = "diskToHost" /\ task[1].id = Below - 1 /\ Below > 0
         /\ ~popped => task[1].op = "hostToDisk" /\ task[1].id = Below /\ Below < toDisk
<1>1. task[1] = TaskAt(0) /\ Below \in Nat
  BY DEF OrderInv, DiskOrder, Indices
<1>2. toDisk \in Nat /\ Len(queue[1]) \in Nat /\ DiskLeft = Len(queue[1]) + 1
  BY StateTypes DEF DiskLeft
<1>3. CASE popped
  <2>1. Below = toDisk + DiskLeft /\ TaskAt(0) = [op |-> "diskToHost", id |-> toDisk + Len(queue[1]) - 0]
    BY <1>3 DEF Below, TaskAt
  <2> QED
    BY <1>1, <1>2, <1>3, <2>1
<1>4. CASE ~popped
  <2>1. Below = toDisk - DiskLeft
        /\ TaskAt(0) = [op |-> "hostToDisk", id |-> toDisk - Len(queue[1]) + 0 - 1]
    BY <1>4 DEF Below, TaskAt
  <2>2. task[1].op = "hostToDisk" /\ task[1].id = toDisk - Len(queue[1]) + 0 - 1
    BY <1>1, <2>1
  <2>3. Below = toDisk - (Len(queue[1]) + 1)
    BY <1>2, <2>1
  <2>4. task[1].id = Below /\ Below < toDisk
    BY <1>2, <2>2, <2>3
  <2> QED
    BY <1>1, <1>2, <1>4, <2>2, <2>4
<1> QED
  BY <1>1, <1>2, <1>3, <1>4

\* Everything below memory was in memory before.
LEMMA HeldType ==
  ASSUME IInv, OrderInv
  PROVE  /\ Held \in Int
         /\ ~popped => toDisk <= Held
<1>1. count \in Nat /\ toDisk \in Nat
  BY StateTypes
<1>2. Held \in Int
  BY <1>1 DEF Held
<1>3. ASSUME ~popped PROVE toDisk <= Held
  <2>1. toDisk <= IF Idle0 THEN count ELSE count - 1
    BY <1>3 DEF OrderInv, Phase, Pushing
  <2>2. RequestLeft => ~Idle0
    BY UnfinishedBusy DEF RequestLeft, Idle0
  <2>3. CASE RequestLeft
    BY <1>1, <1>3, <2>1, <2>2, <2>3 DEF Held
  <2>4. CASE ~RequestLeft
    BY <1>1, <1>3, <2>1, <2>4 DEF Held
  <2> QED
    BY <2>3, <2>4
<1> QED
  BY <1>2, <1>3
-----------------------------------------------------------------------------
(* The steps of the workers.                                                 *)

LEMMA QuietStep ==
  ASSUME IInv, OrderInv, NEW w \in Workers,
         UNCHANGED <<deque, disk, queue, task, failed>>,
         UNCHANGED <<ownerVars, toDisk, pushFuture, popFuture>>,
         \A v \in Workers : Unfinished(v)' <=> Unfinished(v),
         \A v \in Workers : Busy(v)' <=> Busy(v),
         \A v \in Workers : pc'[v] = "commit" <=> pc[v] = "commit"
  PROVE  OrderInv'
<1>0. 0 \in Workers /\ 1 \in Workers
  BY StateTypes
<1>1. Held' = Held /\ (Idle0' <=> Idle0)
  BY <1>0 DEF Held, RequestLeft, Idle0, ownerVars
<1>2. \A op : /\ Committing(0, op)' <=> Committing(0, op)
              /\ Committing(1, op)' <=> Committing(1, op)
  BY <1>0 DEF Committing
<1>3. Storage'
  BY <1>0, <1>1, <1>2, StorageKept DEF OrderInv, Storage, ownerVars
<1>4. Phase'
  BY <1>1, PhaseKept DEF OrderInv, ownerVars
<1> QED
  BY <1>3, <1>4 DEF OrderInv, Storage

LEMMA QuietSteps ==
  ASSUME IInv, OrderInv, NEW w \in Workers,
         \/ Exit(w) \/ Doze(w) \/ FallAsleep(w) \/ Acquire(w) \/ Test(w) \/ Block(w)
         \/ Notify(w) \/ FinishDisk(w) \/ SpuriousWake(w),
         UNCHANGED <<ownerVars, toDisk, pushFuture, popFuture>>
  PROVE  OrderInv'
<1>0. pc \in [Workers -> PcStates] /\ 0 \in Workers /\ 1 \in Workers
  BY StateTypes DEF TypeOKCommon
<1>1. ASSUME UNCHANGED <<deque, disk, queue, task, failed>>, NEW next,
             pc' = [pc EXCEPT ![w] = next],
             \/ /\ pc[w] \in {"consume", "dozing", "asleep", "exited"}
                /\ next \in {"consume", "dozing", "asleep", "exited"}
             \/ /\ pc[w] \in {"acquire", "test", "blocking", "blocked"}
                /\ next \in {"acquire", "test", "blocking", "blocked", "transfer"}
      PROVE  OrderInv'
  <2>1. \A v \in Workers : /\ Unfinished(v)' <=> Unfinished(v)
                           /\ Busy(v)' <=> Busy(v)
                           /\ pc'[v] = "commit" <=> pc[v] = "commit"
    BY <1>0, <1>1 DEF Unfinished, Started, Busy
  <2> QED
    BY <1>1, <2>1, QuietStep
<1>2. CASE Exit(w) \/ Doze(w) \/ FallAsleep(w) \/ SpuriousWake(w)
  BY <1>1, <1>2 DEF Exit, Doze, FallAsleep, SpuriousWake
<1>3. CASE Acquire(w) \/ Test(w) \/ Block(w)
  BY <1>1, <1>3 DEF Acquire, Test, Block
<1>4. CASE Notify(w)
  <2>1. \A v \in Workers : /\ Unfinished(v)' <=> Unfinished(v)
                           /\ Busy(v)' <=> Busy(v)
                           /\ pc'[v] = "commit" <=> pc[v] = "commit"
    BY <1>0, <1>4 DEF Notify, Unfinished, Started, Busy
  <2> QED
    BY <1>4, <2>1, QuietStep DEF Notify
<1>5. CASE FinishDisk(w)
  <2>1. w = 1
    <3>1. w = 0 => Busy(0) /\ task[0].op \in {"hostToDisk", "diskToHost"}
      BY <1>5 DEF FinishDisk, Busy
    <3> QED
      BY <3>1, Worker0Busy DEF Workers
  <2>2. Unfinished(0)' = Unfinished(0) /\ Busy(0)' = Busy(0) /\ ~Unfinished(1) /\ ~Unfinished(1)'
        /\ (pc'[0] = "commit" <=> pc[0] = "commit") /\ pc[1] # "commit" /\ pc'[1] # "commit"
    BY <1>0, <1>5, <2>1 DEF FinishDisk, Unfinished, Started, Busy
  <2>3. Held' = Held /\ (Idle0' <=> Idle0)
    BY <1>5, <2>2 DEF FinishDisk, Held, RequestLeft, Idle0, ownerVars
  <2>4. Storage'
    BY <1>5, <2>2, <2>3, StorageKept DEF FinishDisk, OrderInv, Storage, ownerVars, Committing
  <2>5. Phase'
    BY <1>5, <2>3, PhaseKept DEF FinishDisk, OrderInv, ownerVars
  <2> QED
    BY <1>5, <2>4, <2>5 DEF FinishDisk, OrderInv, Storage
<1> QED
  BY <1>2, <1>3, <1>4, <1>5

LEMMA TakeTaskStep ==
  ASSUME IInv, OrderInv, NEW w \in Workers, TakeTask(w),
         UNCHANGED <<ownerVars, toDisk, pushFuture, popFuture>>
  PROVE  OrderInv'
<1>0. /\ pc \in [Workers -> PcStates] /\ 0 \in Workers /\ 1 \in Workers
      /\ queue \in [Workers -> Seq(Task)] /\ task \in [Workers -> Task]
      /\ toDisk \in Nat /\ Len(queue[1]) \in Nat /\ queue[1] \in Seq(DiskTask)
  BY StateTypes DEF TypeOKCommon
<1>1. /\ pc[w] = "consume" /\ queue[w] # << >> /\ pc' = [pc EXCEPT ![w] = "acquire"]
      /\ task' = [task EXCEPT ![w] = Head(queue[w])]
      /\ queue' = [queue EXCEPT ![w] = Tail(queue[w])]
      /\ UNCHANGED <<deque, disk, failed, owner, array, pushes, count, popped, toDisk, popFuture>>
  BY DEF TakeTask, ownerVars
<1>2. \A v \in Workers : ~Committing(v, "emplaceFront")' <=> ~Committing(v, "emplaceFront")
  BY <1>0, <1>1 DEF Committing
<1>3. CASE w = 0
  <2>1. /\ RequestLeft /\ RequestLeft' /\ ~Idle0 /\ ~Idle0'
        /\ queue'[1] = queue[1] /\ task'[1] = task[1] /\ pc'[1] = pc[1]
    BY <1>0, <1>1, <1>3 DEF RequestLeft, Unfinished, Started, Idle0, Busy
  <2>2. Held' = Held /\ Unfinished(1)' = Unfinished(1)
        /\ \A op : Committing(1, op)' <=> Committing(1, op)
    BY <1>1, <2>1 DEF Held, Unfinished, Committing
  <2>3. Storage'
    BY <1>0, <1>1, <1>2, <2>1, <2>2, StorageKept DEF OrderInv, Storage
  <2> QED
    BY <1>1, <2>1, <2>3, PhaseKept DEF OrderInv, Storage
<1>4. CASE w = 1
  <2>1. /\ queue'[0] = queue[0] /\ task'[0] = task[0] /\ pc'[0] = pc[0]
        /\ queue'[1] = Tail(queue[1]) /\ task'[1] = Head(queue[1]) /\ pc'[1] = "acquire"
        /\ queue[1] # << >>
    BY <1>0, <1>1, <1>4
  <2>2. Held' = Held /\ (Idle0' <=> Idle0)
    BY <1>1, <2>1 DEF Held, RequestLeft, Unfinished, Idle0, Busy
  <2>3. /\ Len(queue'[1]) = Len(queue[1]) - 1 /\ Len(queue[1]) > 0
        /\ task'[1] = queue[1][1]
        /\ \A i \in 1 .. Len(queue[1]) - 1 : queue'[1][i] = queue[1][i + 1]
    BY <1>0, <2>1, HeadTailProperties, EmptySeq, LenProperties
  <2>4. DiskLeft' = DiskLeft
    <3>1. ~Unfinished(1) /\ Unfinished(1)'
      BY <1>1, <1>4, <2>1 DEF Unfinished, Started
    <3>2. DiskLeft = Len(queue[1]) + 0 /\ DiskLeft' = Len(queue'[1]) + 1
      BY <3>1 DEF DiskLeft
    <3> QED
      BY <1>0, <2>3, <3>2
  <2>5. Below' = Below
    BY <1>1, <2>4 DEF Below
  <2>6. \A op : ~Committing(1, op) /\ ~Committing(1, op)'
    BY <1>1, <1>4, <2>1 DEF Committing
  <2>7. Indices' /\ SlotsHold' /\ DiskHolds'
    BY <1>0, <1>1, <1>2, <2>2, <2>5, <2>6
       DEF OrderInv, Indices, SlotsHold, Filled, DiskHolds, OnDisk
  <2>8. DiskOrder'
    <3>1. \A i \in 0 .. Len(queue[1]) - 1 : TaskAt(i)' = TaskAt(i + 1)
      <4> SUFFICES ASSUME NEW i \in 0 .. Len(queue[1]) - 1 PROVE TaskAt(i)' = TaskAt(i + 1)
        OBVIOUS
      <4>1. /\ toDisk - (Len(queue[1]) - 1) + i - 1 = toDisk - Len(queue[1]) + (i + 1) - 1
            /\ toDisk + (Len(queue[1]) - 1) - i = toDisk + Len(queue[1]) - (i + 1)
        BY <1>0
      <4>2. Len(queue[1])' = Len(queue[1]) - 1
        BY <2>3
      <4> QED
        BY <1>1, <4>1, <4>2 DEF TaskAt
    <3>2. \A i \in 1 .. Len(queue[1]) : queue[1][i] = TaskAt(i)
      BY DEF OrderInv, DiskOrder
    <3>3. task'[1] = TaskAt(0)'
      <4>1. 0 \in 0 .. Len(queue[1]) - 1 /\ 1 \in 1 .. Len(queue[1]) /\ 0 + 1 = 1
        BY <1>0, <2>3
      <4>2. TaskAt(0)' = TaskAt(0 + 1)
        BY ONLY <3>1, <4>1
      <4>3. TaskAt(0 + 1) = queue[1][1]
        BY ONLY <3>2, <4>1
      <4> QED
        BY ONLY <2>3, <4>2, <4>3
    <3>4. ASSUME NEW i \in 1 .. Len(queue'[1]) PROVE queue'[1][i] = TaskAt(i)'
      <4>1. i \in 0 .. Len(queue[1]) - 1 /\ i + 1 \in 1 .. Len(queue[1])
            /\ i \in 1 .. Len(queue[1]) - 1
        BY <1>0, <2>3
      <4> QED
        BY <2>3, <3>1, <3>2, <4>1
    <3> QED
      BY <3>3, <3>4 DEF DiskOrder
  <2> QED
    BY <1>1, <2>2, <2>7, <2>8, PhaseKept DEF OrderInv
<1> QED
  BY <1>3, <1>4 DEF Workers

\* The slots a transfer fills, and the values it finds.
LEMMA Ends ==
  ASSUME IInv, OrderInv
  PROVE  /\ \A i \in deque.begin .. deque.end : deque.slot[SlotOf(i)] = -i
         /\ ~Empty(deque) => FrontEntry(deque) = Held /\ BackEntry(deque) = Below + 1
         /\ Size(deque) = Held - Below
<1>1. deque.begin \in Int /\ deque.end \in Int /\ Held \in Int /\ Below \in Nat
      /\ deque.begin + Held = 0 /\ deque.end + Below = -1
  BY StateTypes, HeldType DEF OrderInv, Indices
<1>2. \A i \in deque.begin .. deque.end : deque.slot[SlotOf(i)] = -i
  BY <1>1 DEF OrderInv, SlotsHold, Filled
<1>3. ASSUME ~Empty(deque) PROVE FrontEntry(deque) = Held /\ BackEntry(deque) = Below + 1
  <2>1. deque.begin \in deque.begin .. deque.end /\ deque.end \in deque.begin .. deque.end
    BY <1>1, <1>3 DEF Empty
  <2>2. FrontEntry(deque) = -deque.begin /\ BackEntry(deque) = -deque.end
    BY <1>2, <2>1 DEF FrontEntry, BackEntry, FrontSlot, BackSlot
  <2> QED
    BY <1>1, <2>2
<1>4. Size(deque) = Held - Below
  BY <1>1 DEF Size
<1> QED
  BY <1>2, <1>3, <1>4

LEMMA ToDiskStep ==
  ASSUME IInv, OrderInv, NEW w \in Workers, TransferToDisk(w),
         UNCHANGED <<ownerVars, toDisk, pushFuture, popFuture>>
  PROVE  OrderInv'
<1>0. /\ pc \in [Workers -> PcStates] /\ 0 \in Workers /\ 1 \in Workers
      /\ toDisk \in Nat /\ disk \in [BufferIds -> Arrays] /\ task[1] \in DiskTask
  BY StateTypes DEF TypeOKCommon
<1>1. w = 1
  <2>1. w = 0 => Busy(0) /\ task[0].op = "hostToDisk"
    BY DEF TransferToDisk, Busy
  <2> QED
    BY <2>1, Worker0Busy DEF Workers
<1>2. Unfinished(1) /\ ~Committing(1, "hostToDisk") /\ ~Committing(1, "diskToHost")
      /\ task[1].op = "hostToDisk"
  BY <1>1 DEF TransferToDisk, Unfinished, Started, Committing
<1>3. ~popped /\ task[1].id = Below /\ Below < toDisk /\ Below \in Nat
  BY <1>2, Worker1Unfinished
<1>4. ~Empty(deque) /\ BackEntry(deque) = Below + 1
  <2>1. toDisk <= Held /\ Held \in Int
    BY <1>3, HeldType
  <2>2. deque.begin <= deque.end
    BY <1>0, <1>3, <2>1, StateTypes DEF OrderInv, Indices
  <2> QED
    BY <2>2, Ends, StateTypes DEF Empty
<1>5. /\ ~failed' /\ disk' = [disk EXCEPT ![Below] = Below + 1]
      /\ pc' = [pc EXCEPT ![1] = "commit"]
      /\ UNCHANGED <<deque, queue, task, owner, array, pushes, count, popped, toDisk, popFuture>>
  BY <1>1, <1>3, <1>4 DEF TransferToDisk, ownerVars
<1>6. /\ pc'[0] = pc[0] /\ Unfinished(1)' /\ Committing(1, "hostToDisk")'
      /\ ~Committing(1, "diskToHost")' /\ Held' = Held /\ (Idle0' <=> Idle0)
      /\ (Committing(0, "emplaceFront")' <=> Committing(0, "emplaceFront"))
  BY <1>0, <1>2, <1>5 DEF Unfinished, Started, Committing, Held, RequestLeft, Idle0, Busy
<1>7. Below' = Below
  BY <1>2, <1>5, <1>6 DEF Below, DiskLeft
<1>8. Indices' /\ SlotsHold' /\ DiskOrder'
  BY <1>2, <1>5, <1>6, <1>7 DEF OrderInv, Indices, SlotsHold, Filled, DiskOrder, TaskAt
<1>9. DiskHolds'
  <2>1. OnDisk = Below /\ OnDisk' = Below + 1
    BY <1>2, <1>6, <1>7 DEF OnDisk
  <2>2. Below \in BufferIds
    BY <1>0, <1>3 DEF DiskTask
  <2>3. ASSUME NEW id \in BufferIds
        PROVE  disk'[id] = IF id < Below + 1 THEN id + 1 ELSE Nothing
    <3>0. id \in Nat /\ disk[id] = IF id < Below THEN id + 1 ELSE Nothing
      BY <2>1 DEF OrderInv, DiskHolds, BufferIds
    <3>1. CASE id = Below
      <4>1. disk'[id] = Below + 1 /\ id < Below + 1
        BY <1>0, <1>3, <1>5, <2>2, <3>1
      <4> QED
        BY <3>1, <4>1
    <3>2. CASE id # Below
      BY <1>0, <1>3, <1>5, <3>0, <3>2
    <3> QED
      BY <3>1, <3>2
  <2> QED
    BY <2>1, <2>3 DEF DiskHolds
<1> QED
  BY <1>5, <1>6, <1>8, <1>9, PhaseKept DEF OrderInv

\* A transfer fills a free slot of the queue with the value its index stands for.
LEMMA FillStep ==
  ASSUME IInv, OrderInv, NEW w \in Workers, pc[w] = "transfer", NEW v,
         \/ w = 0 /\ task[0].op = "emplaceFront" /\ v = Held + 1
            /\ deque' = Write(deque, NextFrontSlot(deque), v)
         \/ w = 1 /\ task[1].op = "diskToHost" /\ v = Below
            /\ deque' = Write(deque, NextBackSlot(deque), v),
         pc' = [pc EXCEPT ![w] = "commit"], ~failed', failed = FALSE,
         UNCHANGED <<queue, task, owner, array, pushes, count, popped, toDisk, popFuture>>
  PROVE  /\ Indices' /\ SlotsHold' /\ DiskOrder' /\ Phase' /\ Below' = Below
         /\ \A op : Committing(1 - w, op)' <=> Committing(1 - w, op)
<1>0. /\ pc \in [Workers -> PcStates] /\ 0 \in Workers /\ 1 \in Workers
      /\ deque \in DequeType /\ deque.begin \in Int /\ deque.end \in Int
      /\ deque.slot \in [Slots -> Arrays] /\ Capacity \in Nat
  BY StateTypes, Constants DEF TypeOKCommon
<1>1. Filling(w) /\ Size(deque) < Capacity /\ \A u \in Workers \ {w} : ~Filling(u)
  <2>1. Filling(w) /\ Inside(w)
    BY DEF Filling, Emplacers, Inside
  <2>2. Size(deque) < Capacity
    BY <2>1 DEF IInv, SizeKept
  <2>3. ASSUME NEW u \in Workers \ {w}, Filling(u) PROVE FALSE
    <3>1. Inside(u)
      BY <2>3 DEF Filling, Inside
    <3> QED
      BY <2>1, <2>3, <3>1, Apart DEF Filling
  <2> QED
    BY <2>1, <2>2, <2>3
<1>2. /\ Unfinished(0)' = Unfinished(0) /\ Unfinished(1)' = Unfinished(1)
      /\ (Idle0' <=> Idle0) /\ Held' = Held
      /\ \A op : Committing(1 - w, op)' <=> Committing(1 - w, op)
  BY <1>0 DEF Unfinished, Started, Idle0, Busy, Held, RequestLeft, Committing, Workers
<1>3. DiskLeft' = DiskLeft /\ Below' = Below
  BY <1>2 DEF DiskLeft, Below
<1> DEFINE j == IF w = 0 THEN deque.begin - 1 ELSE deque.end + 1
<1>4. /\ deque'.begin = deque.begin /\ deque'.end = deque.end
      /\ deque'.slot = [deque.slot EXCEPT ![SlotOf(j)] = v] /\ j \in Int
      /\ SlotOf(j) \in Slots /\ j \in {deque.begin - 1, deque.end + 1}
  <2>0. j \in Int /\ Capacity > 0
    <3>1. Size(deque) \in 0 .. Capacity
      BY DEF IInv, SizeKept
    <3> QED
      BY <1>0, <1>1, <3>1
  <2>1. j \in Int /\ SlotOf(j) \in Slots
    BY <2>0, SlotOfInSlots
  <2> QED
    BY <1>0, <2>1 DEF Write, DequeType, NextFrontSlot, NextBackSlot
<1>5. v = -j
  <2>1. /\ deque.begin \in Int /\ deque.begin + Held = 0 /\ Held \in Int
        /\ deque.end \in Int /\ deque.end + Below = -1 /\ Below \in Int
    BY <1>0, HeldType DEF OrderInv, Indices
  <2>2. \A b, h \in Int : b + h = 0 => h + 1 = -(b - 1)
    OBVIOUS
  <2>3. \A e, h \in Int : e + h = -1 => h = -(e + 1)
    OBVIOUS
  <2>4. Held + 1 = -(deque.begin - 1)
    BY <2>1, <2>2
  <2>5. Below = -(deque.end + 1)
    BY <2>1, <2>3
  <2>6. CASE w = 0
    <3>1. v = Held + 1 /\ j = deque.begin - 1
      BY <2>6
    <3> QED
      BY <2>4, <3>1
  <2>7. CASE w # 0
    <3>1. v = Below /\ j = deque.end + 1
      BY <2>7
    <3> QED
      BY <2>5, <3>1
  <2> QED
    BY <2>6, <2>7
<1>6. \A i \in deque.begin - 1 .. deque.end + 1 : Filled(i)' => Filled(i) \/ i = j
  <2>1. Committing(0, "emplaceFront")' => Committing(0, "emplaceFront") \/ w = 0
    BY <1>2 DEF Workers
  <2>2. Committing(1, "diskToHost")' => Committing(1, "diskToHost") \/ w = 1
    BY <1>2 DEF Workers
  <2> QED
    BY <1>4, <2>1, <2>2 DEF Filled, Workers
<1>7. \A i \in deque.begin - 1 .. deque.end + 1 : Filled(i) => i \in deque.begin .. deque.end
  <2>1. Committing(0, "emplaceFront") => w = 1 /\ Filling(0)
    BY DEF Committing, Filling, Emplacers, Workers
  <2>2. Committing(1, "diskToHost") => w = 0 /\ Filling(1)
    BY DEF Committing, Filling, Emplacers, Workers
  <2> QED
    BY <1>0, <1>1, <2>1, <2>2 DEF Filled
<1>8. SlotsHold'
  <2> SUFFICES ASSUME NEW i \in deque.begin - 1 .. deque.end + 1, Filled(i)'
               PROVE  deque'.slot[SlotOf(i)] = -i
    BY <1>4 DEF SlotsHold
  <2>1. CASE i = j
    BY <1>0, <1>4, <1>5, <2>1
  <2>2. CASE i # j
    <3>1. i \in deque.begin .. deque.end /\ Filled(i)
      BY <1>6, <1>7, <2>2
    <3>2. SlotOf(i) # SlotOf(j)
      <4>1. NextFrontSlot(deque) \notin LiveSlots /\ NextBackSlot(deque) \notin LiveSlots
        BY <1>1, NextSlotsFree
      <4> QED
        BY <3>1, <4>1 DEF NextFrontSlot, NextBackSlot, LiveSlots
    <3>3. deque.slot[SlotOf(i)] = -i
      BY <3>1 DEF OrderInv, SlotsHold
    <3>4. SlotOf(i) \in Slots
      BY <1>0, <1>1, <3>1, SlotOfInSlots DEF Size
    <3> QED
      BY <1>0, <1>4, <3>2, <3>3, <3>4
  <2> QED
    BY <2>1, <2>2
<1>9. Indices'
  BY <1>2, <1>3, <1>4 DEF OrderInv, Indices
<1>10. DiskOrder'
  BY <1>2 DEF OrderInv, DiskOrder, TaskAt
<1> QED
  BY <1>2, <1>3, <1>8, <1>9, <1>10, PhaseKept DEF OrderInv

LEMMA FromDiskStep ==
  ASSUME IInv, OrderInv, NEW w \in Workers, TransferFromDisk(w),
         UNCHANGED <<ownerVars, toDisk, pushFuture, popFuture>>
  PROVE  OrderInv'
<1>0. /\ pc \in [Workers -> PcStates] /\ 0 \in Workers /\ 1 \in Workers /\ failed = FALSE
      /\ disk \in [BufferIds -> Arrays] /\ task[1] \in DiskTask /\ Capacity \in Nat
  BY StateTypes, Constants DEF TypeOKCommon, OrderInv
<1>1. w = 1
  <2>1. w = 0 => Busy(0) /\ task[0].op = "diskToHost"
    BY DEF TransferFromDisk, Busy
  <2> QED
    BY <2>1, Worker0Busy DEF Workers
<1>2. Unfinished(1) /\ ~Committing(1, "hostToDisk") /\ ~Committing(1, "diskToHost")
      /\ task[1].op = "diskToHost" /\ Filling(1) /\ pc[1] = "transfer"
  BY <1>1 DEF TransferFromDisk, Unfinished, Started, Committing, Filling, Emplacers
<1>3. popped /\ task[1].id = Below - 1 /\ Below > 0 /\ Below \in Nat
  BY <1>2, Worker1Unfinished
<1>4. OnDisk = Below /\ Below - 1 \in BufferIds /\ disk[Below - 1] = Below
  <2>1. OnDisk = Below
    BY <1>2 DEF OnDisk
  <2>2. Below - 1 \in BufferIds
    BY <1>0, <1>3 DEF DiskTask
  <2>3. disk[Below - 1] = IF Below - 1 < Below THEN (Below - 1) + 1 ELSE Nothing
    BY <2>1, <2>2 DEF OrderInv, DiskHolds
  <2> QED
    BY <1>3, <2>1, <2>2, <2>3
<1>5. ~Full(deque)
  BY <1>0, <1>2 DEF IInv, SizeKept, Full
<1>6. /\ ~failed' /\ deque' = Write(deque, NextBackSlot(deque), Below)
      /\ disk' = [disk EXCEPT ![Below - 1] = Nothing]
      /\ pc' = [pc EXCEPT ![1] = "commit"]
      /\ UNCHANGED <<queue, task, owner, array, pushes, count, popped, toDisk, popFuture>>
  <2>1. disk[task[1].id] = Below /\ Below # Nothing
    BY <1>3, <1>4 DEF Nothing
  <2>2. ~failed'
    BY <1>1, <1>5, <2>1 DEF TransferFromDisk
  <2> QED
    BY <1>1, <1>3, <2>1, <2>2 DEF TransferFromDisk, ownerVars, Removed
<1>7. Indices' /\ SlotsHold' /\ DiskOrder' /\ Phase' /\ Below' = Below
  BY <1>0, <1>2, <1>6, FillStep
<1>8. DiskHolds'
  <2>1. OnDisk' = Below - 1
    <3>1. ~Committing(1, "hostToDisk")' /\ Committing(1, "diskToHost")'
      BY <1>0, <1>2, <1>6 DEF Committing
    <3> QED
      BY <1>7, <3>1 DEF OnDisk
  <2>2. ASSUME NEW id \in BufferIds
        PROVE  disk'[id] = IF id < Below - 1 THEN id + 1 ELSE Nothing
    <3>0. id \in Nat /\ disk[id] = IF id < Below THEN id + 1 ELSE Nothing
      BY <1>4 DEF OrderInv, DiskHolds, BufferIds
    <3>1. CASE id = Below - 1
      <4>1. disk'[id] = Nothing /\ ~(id < Below - 1)
        BY <1>0, <1>3, <1>4, <1>6, <3>1
      <4> QED
        BY <4>1
    <3>2. CASE id # Below - 1
      BY <1>0, <1>3, <1>6, <3>0, <3>2
    <3> QED
      BY <3>1, <3>2
  <2> QED
    BY <2>1, <2>2 DEF DiskHolds
<1> QED
  BY <1>6, <1>7, <1>8 DEF OrderInv

LEMMA PushedStep ==
  ASSUME IInv, OrderInv, TransferPushed
  PROVE  OrderInv'
<1>0. /\ pc \in [Workers -> PcStates] /\ 0 \in Workers /\ 1 \in Workers /\ failed = FALSE
      /\ Capacity \in Nat /\ count \in Nat
  BY StateTypes, Constants DEF TypeOKCommon, OrderInv
<1>1. pc[0] = "transfer" /\ Busy(0) /\ Unfinished(0) /\ Filling(0) /\ task[0].op = "emplaceFront"
  BY DEF TransferPushed, Busy, Unfinished, Started, Filling, Emplacers
<1>2. ~popped /\ owner = "idle" /\ count > 0
  BY <1>1, Worker0Busy
<1>3. array = Held + 1
  <2>1. array = count
    BY <1>2 DEF OrderInv, Phase, Pushing
  <2>2. Held = count - 1
    BY <1>1, <1>2 DEF Held, RequestLeft
  <2> QED
    BY <1>0, <2>1, <2>2
<1>4. ~Full(deque)
  BY <1>0, <1>1 DEF IInv, SizeKept, Full
<1>5. /\ ~failed' /\ deque' = Write(deque, NextFrontSlot(deque), array)
      /\ pc' = [pc EXCEPT ![0] = "commit"]
      /\ UNCHANGED <<disk, queue, task, owner, array, pushes, count, popped, toDisk, popFuture>>
  BY <1>4 DEF TransferPushed, ownerVars
<1>6. Indices' /\ SlotsHold' /\ DiskOrder' /\ Phase' /\ Below' = Below
      /\ \A op : Committing(1, op)' <=> Committing(1, op)
  <2>1. 1 - 0 = 1
    OBVIOUS
  <2> QED
    BY <1>0, <1>1, <1>3, <1>5, <2>1, FillStep
<1>7. DiskHolds'
  BY <1>5, <1>6 DEF OrderInv, DiskHolds, OnDisk
<1> QED
  BY <1>5, <1>6, <1>7 DEF OrderInv

LEMMA PoppedStep ==
  ASSUME IInv, OrderInv, TransferPopped
  PROVE  OrderInv' /\ popped /\ ~Empty(deque) /\ array' = Held
<1>0. /\ pc \in [Workers -> PcStates] /\ 0 \in Workers /\ 1 \in Workers /\ Capacity \in Nat
  BY StateTypes, Constants DEF TypeOKCommon
<1>1. pc[0] = "transfer" /\ Busy(0) /\ task[0].op = "popFront"
  BY DEF TransferPopped, Busy
<1>2. popped
  BY <1>1, Worker0Busy
<1>3. ~Empty(deque)
  <2>1. Size(deque) > 0
    BY <1>0, <1>1 DEF IInv, SizeKept
  <2> QED
    BY <2>1, RoomForSome, StateTypes DEF Size, Empty
<1>4. /\ ~failed' /\ array' = Held /\ pc' = [pc EXCEPT ![0] = "commit"]
      /\ UNCHANGED <<deque, disk, queue, task, owner, pushes, count, popped, toDisk, popFuture>>
  BY <1>3, Ends DEF TransferPopped
<1>5. /\ Unfinished(0)' = Unfinished(0) /\ Unfinished(1)' = Unfinished(1) /\ (Idle0' <=> Idle0)
      /\ \A op : Committing(1, op)' <=> Committing(1, op)
      /\ Committing(0, "emplaceFront")' = Committing(0, "emplaceFront")
  BY <1>0, <1>1, <1>4 DEF Unfinished, Started, Idle0, Busy, Committing
<1>6. Held' = Held
  BY <1>4, <1>5 DEF Held, RequestLeft
<1>7. Storage'
  BY <1>4, <1>5, <1>6, StorageKept DEF OrderInv, Storage
<1>8. Phase'
  BY <1>2, <1>4, <1>5 DEF OrderInv, Phase, Popping
<1> QED
  BY <1>2, <1>3, <1>4, <1>7, <1>8 DEF OrderInv, Storage

\* An index moves: what was half done is done, and the counts say so.
LEMMA CommitStep ==
  ASSUME IInv, OrderInv, NEW w \in Workers, Commit(w),
         UNCHANGED <<ownerVars, toDisk, pushFuture, popFuture>>
  PROVE  OrderInv'
<1>0. /\ pc \in [Workers -> PcStates] /\ 0 \in Workers /\ 1 \in Workers /\ Capacity \in Nat
      /\ deque \in DequeType /\ deque.begin \in Int /\ deque.end \in Int
      /\ Size(deque) = deque.end - deque.begin + 1 /\ Len(queue[1]) \in Nat
      /\ count \in Nat /\ toDisk \in Nat /\ Held \in Int /\ Below \in Nat
      /\ deque.begin + Held = 0 /\ deque.end + Below = -1
  BY StateTypes, Constants, HeldType DEF TypeOKCommon, Size, OrderInv, Indices
<1>1. pc[w] = "commit" /\ Unfinished(w) /\ Busy(w)
  BY DEF Commit, Unfinished, Busy
<1>2. /\ task[w].op \in Poppers => Size(deque) > 0
      /\ task[w].op \in Emplacers => Size(deque) < Capacity
  BY <1>1 DEF IInv, SizeKept, Filling, Poppers
<1>3. ~failed'
  <2>1. task[w].op \in Poppers => ~Empty(deque)
    BY <1>0, <1>2 DEF Empty
  <2>2. task[w].op = "diskToHost" => ~Full(deque)
    BY <1>0, <1>2 DEF Full, Emplacers
  <2> QED
    BY <2>1, <2>2 DEF Commit
<1>4. /\ pc' = [pc EXCEPT ![w] = "notify"]
      /\ UNCHANGED <<disk, queue, task, owner, array, pushes, count, popped, toDisk, popFuture>>
      /\ deque' = CASE task[w].op = "emplaceFront" -> IncFront(deque)
                    [] task[w].op = "popFront"     -> PopFront(deque)
                    [] task[w].op = "hostToDisk"   -> PopBack(deque)
                    [] task[w].op = "diskToHost"   -> IncBack(deque)
  BY <1>3 DEF Commit, ownerVars
<1>5. (Idle0' <=> Idle0) /\ ~Unfinished(w)' /\ \A op : ~Committing(w, op)'
  BY <1>0, <1>1, <1>4 DEF Idle0, Busy, Unfinished, Started, Committing
<1>6. Phase'
  BY <1>4, <1>5, PhaseKept DEF OrderInv
<1>7. DiskOrder'
  <2>1. Unfinished(1)' => Unfinished(1)
    BY <1>0, <1>4, <1>5 DEF Unfinished, Workers
  <2> QED
    BY <1>4, <2>1 DEF OrderInv, DiskOrder, TaskAt
<1>8. \A i \in deque.begin - 1 .. deque.end + 1 : Filled(i) => deque.slot[SlotOf(i)] = -i
  BY DEF OrderInv, SlotsHold
<1>9. CASE w = 0
  <2>1. /\ Unfinished(1)' = Unfinished(1)
        /\ \A op : Committing(1, op)' <=> Committing(1, op)
        /\ queue[0] = << >> /\ RequestLeft /\ ~RequestLeft'
    <3>1. /\ Unfinished(1)' = Unfinished(1)
          /\ \A op : Committing(1, op)' <=> Committing(1, op)
      BY <1>0, <1>4, <1>9 DEF Unfinished, Committing
    <3>2. queue[0] = << >>
      BY <1>1, <1>9, Worker0Busy
    <3> QED
      BY <1>1, <1>4, <1>5, <1>9, <3>1, <3>2 DEF RequestLeft
  <2>2. Below' = Below
    BY <1>4, <2>1 DEF Below, DiskLeft
  <2>3. DiskHolds'
    BY <1>4, <2>1, <2>2 DEF OrderInv, DiskHolds, OnDisk
  <2>4. CASE task[0].op = "emplaceFront"
    <3>1. /\ ~popped /\ deque'.begin = deque.begin - 1 /\ deque'.end = deque.end
          /\ deque'.slot = deque.slot
      BY <1>0, <1>1, <1>4, <1>9, <2>4, Worker0Busy DEF IncFront, DequeType
    <3>2. Held' = Held + 1
      BY <1>0, <1>4, <2>1, <3>1 DEF Held
    <3>3. Indices'
      BY SMTT(40), <1>0, <2>2, <3>1, <3>2 DEF Indices
    <3>4. SlotsHold'
      <4> SUFFICES ASSUME NEW i \in deque'.begin - 1 .. deque'.end + 1, Filled(i)'
                   PROVE  i \in deque.begin - 1 .. deque.end + 1 /\ Filled(i)
        BY <1>8, <3>1 DEF SlotsHold
      <4>1. Committing(0, "emplaceFront")
        BY <1>1, <1>9, <2>4 DEF Committing
      <4>2. ~Committing(0, "emplaceFront")'
        BY <1>5, <1>9
      <4>3. \/ i \in deque.begin - 1 .. deque.end
            \/ i = deque.end + 1 /\ Committing(1, "diskToHost")
        BY <2>1, <3>1, <4>2 DEF Filled
      <4>4. i \in deque.begin .. deque.end \/ i = deque.begin - 1
            \/ (i = deque.end + 1 /\ Committing(1, "diskToHost"))
        BY <1>0, <4>3
      <4>5. i \in deque.begin - 1 .. deque.end + 1
        <5>1. Size(deque) >= 0
          BY <1>0 DEF IInv, SizeKept
        <5> QED
          BY SMTT(40), <1>0, <4>4, <5>1
      <4> QED
        BY <4>1, <4>4, <4>5 DEF Filled
    <3> QED
      BY <1>3, <1>6, <1>7, <2>3, <3>3, <3>4 DEF OrderInv
  <2>5. CASE task[0].op = "popFront"
    <3>1. /\ popped /\ deque'.begin = deque.begin + 1 /\ deque'.end = deque.end
          /\ deque'.slot = deque.slot
      BY <1>0, <1>1, <1>4, <1>9, <2>5, Worker0Busy DEF PopFront, DequeType
    <3>2. Held' = Held - 1
      BY <1>0, <1>4, <2>1, <3>1 DEF Held
    <3>3. Indices'
      BY <1>0, <2>2, <3>1, <3>2 DEF Indices
    <3>4. SlotsHold'
      <4> SUFFICES ASSUME NEW i \in deque'.begin - 1 .. deque'.end + 1, Filled(i)'
                   PROVE  i \in deque.begin - 1 .. deque.end + 1 /\ Filled(i)
        BY <1>8, <3>1 DEF SlotsHold
      <4> QED
        BY <1>0, <1>5, <1>9, <2>1, <3>1 DEF Filled
    <3> QED
      BY <1>3, <1>6, <1>7, <2>3, <3>3, <3>4 DEF OrderInv
  <2> QED
    BY <1>1, <1>9, <2>4, <2>5, Worker0Busy
<1>10. CASE w = 1
  <2>1. /\ Unfinished(0)' = Unfinished(0)
        /\ \A op : Committing(0, op)' <=> Committing(0, op)
        /\ Held' = Held
    BY <1>0, <1>4, <1>10 DEF Unfinished, Committing, RequestLeft, Held
  <2>2. DiskLeft = Len(queue[1]) + 1 /\ DiskLeft' = Len(queue[1]) + 0
    BY <1>1, <1>4, <1>5, <1>10 DEF DiskLeft
  <2>3. CASE task[1].op = "hostToDisk"
    <3>1. /\ ~popped /\ deque'.begin = deque.begin /\ deque'.end = deque.end - 1
          /\ deque'.slot = deque.slot
      BY <1>0, <1>1, <1>4, <1>10, <2>3, Worker1Unfinished DEF PopBack, DequeType
    <3>2. Below' = Below + 1
      <4>1. Below = toDisk - DiskLeft /\ Below' = toDisk - DiskLeft'
        BY <1>4, <3>1 DEF Below
      <4> QED
        BY <1>0, <2>2, <4>1
    <3>3. Indices'
      <4>1. deque'.end + Below' = -1 /\ Below' \in Nat
        <5>1. \A e \in Int, b \in Nat : e + b = -1 => (e - 1) + (b + 1) = -1 /\ b + 1 \in Nat
          OBVIOUS
        <5>2. deque.end \in Int /\ Below \in Nat /\ deque.end + Below = -1
          BY <1>0
        <5>3. (deque.end - 1) + (Below + 1) = -1 /\ Below + 1 \in Nat
          BY <5>1, <5>2
        <5> QED
          BY <3>1, <3>2, <5>3
      <4> QED
        BY <1>0, <2>1, <3>1, <4>1 DEF Indices
    <3>4. SlotsHold'
      <4> SUFFICES ASSUME NEW i \in deque'.begin - 1 .. deque'.end + 1, Filled(i)'
                   PROVE  i \in deque.begin - 1 .. deque.end + 1 /\ Filled(i)
        BY <1>8, <3>1 DEF SlotsHold
      <4>1. ~Committing(1, "diskToHost")'
        BY <1>5, <1>10
      <4>2. \/ i \in deque.begin .. deque.end - 1
            \/ i = deque.begin - 1 /\ Committing(0, "emplaceFront")
        BY <2>1, <3>1, <4>1 DEF Filled
      <4>3. deque.begin \in Int /\ deque.end \in Int
        BY <1>0
      <4>4. i \in deque.begin - 1 .. deque.end
        BY <3>1, <4>3
      <4>5. \A b, e \in Int : \A j \in b - 1 .. e :
              /\ j \in b - 1 .. e + 1
              /\ j \in b .. e - 1 => j \in b .. e
        OBVIOUS
      <4>6. i \in deque.begin - 1 .. deque.end + 1
            /\ (i \in deque.begin .. deque.end - 1 => i \in deque.begin .. deque.end)
        BY <4>3, <4>4, <4>5
      <4> QED
        BY <4>2, <4>6 DEF Filled
    <3>5. OnDisk' = OnDisk
      <4>1. Committing(1, "hostToDisk") /\ \A op : ~Committing(1, op)'
        BY <1>1, <1>5, <1>10, <2>3 DEF Committing
      <4> QED
        BY <3>2, <4>1 DEF OnDisk
    <3>6. DiskHolds'
      BY <1>4, <3>5 DEF OrderInv, DiskHolds
    <3> QED
      BY <1>3, <1>6, <1>7, <3>3, <3>4, <3>6 DEF OrderInv
  <2>4. CASE task[1].op = "diskToHost"
    <3>1. /\ popped /\ deque'.begin = deque.begin /\ deque'.end = deque.end + 1
          /\ deque'.slot = deque.slot /\ Below > 0
      BY <1>0, <1>1, <1>4, <1>10, <2>4, Worker1Unfinished DEF IncBack, DequeType
    <3>2. Below' = Below - 1
      <4>1. Below = toDisk + DiskLeft /\ Below' = toDisk + DiskLeft'
        BY <1>4, <3>1 DEF Below
      <4> QED
        BY <1>0, <2>2, <4>1
    <3>3. Indices'
      BY <1>0, <2>1, <3>1, <3>2 DEF Indices
    <3>0. Committing(1, "diskToHost") /\ ~Committing(1, "hostToDisk")
      BY <1>1, <1>10, <2>4 DEF Committing
    <3>4. SlotsHold'
      <4> SUFFICES ASSUME NEW i \in deque'.begin - 1 .. deque'.end + 1, Filled(i)'
                   PROVE  i \in deque.begin - 1 .. deque.end + 1 /\ Filled(i)
        BY <1>8, <3>1 DEF SlotsHold
      <4>2. ~Committing(1, "diskToHost")'
        BY <1>5, <1>10
      <4>3. \/ i \in deque.begin .. deque.end + 1
            \/ i = deque.begin - 1 /\ Committing(0, "emplaceFront")
        BY <2>1, <3>1, <4>2 DEF Filled
      <4>4. i \in deque.begin .. deque.end \/ i = deque.end + 1
            \/ (i = deque.begin - 1 /\ Committing(0, "emplaceFront"))
        BY <1>0, <4>3
      <4>5. Size(deque) >= 0
        BY <1>0 DEF IInv, SizeKept
      <4>6. i \in deque.begin - 1 .. deque.end + 1
        BY SMTT(40), <1>0, <4>4, <4>5
      <4> QED
        BY <3>0, <4>4, <4>6 DEF Filled
    <3>5. OnDisk' = OnDisk
      BY <1>5, <1>10, <3>0, <3>2 DEF OnDisk
    <3>6. DiskHolds'
      BY <1>4, <3>5 DEF OrderInv, DiskHolds
    <3> QED
      BY <1>3, <1>6, <1>7, <3>3, <3>4, <3>6 DEF OrderInv
  <2> QED
    BY <1>1, <1>10, <2>3, <2>4, Worker1Unfinished
<1> QED
  BY <1>9, <1>10 DEF Workers

\* A task handed to worker 1 goes to the end of its queue.
LEMMA EnqueuedTask ==
  ASSUME IInv, OrderInv, NEW t \in DiskTask, queue' = Enqueued(1, t), popped' = popped,
         \/ ~popped /\ t = [op |-> "hostToDisk", id |-> toDisk] /\ toDisk' = toDisk + 1
         \/ popped /\ t = [op |-> "diskToHost", id |-> toDisk - 1] /\ toDisk' = toDisk - 1,
         task'[1] = task[1], Unfinished(1)' <=> Unfinished(1)
  PROVE  /\ DiskOrder' /\ Below' = Below /\ queue'[0] = queue[0]
<1>0. /\ queue \in [Workers -> Seq(Task)] /\ 0 \in Workers /\ 1 \in Workers
      /\ toDisk \in Nat /\ Len(queue[1]) \in Nat /\ queue[1] \in Seq(DiskTask) /\ DiskLeft \in Nat
  BY StateTypes DEF TypeOKCommon
<1>1. /\ queue'[0] = queue[0] /\ queue'[1] = Append(queue[1], t)
  BY <1>0 DEF Enqueued
<1>2. /\ Len(queue'[1]) = Len(queue[1]) + 1
      /\ \A i \in 1 .. Len(queue[1]) : queue'[1][i] = queue[1][i]
      /\ queue'[1][Len(queue[1]) + 1] = t
  <2> DEFINE q == queue[1]
  <2>1. q \in Seq(DiskTask)
    BY <1>0
  <2> HIDE DEF q
  <2>2. /\ Len(Append(q, t)) = Len(q) + 1
        /\ \A i \in 1 .. Len(q) : Append(q, t)[i] = q[i]
        /\ Append(q, t)[Len(q) + 1] = t
    BY <2>1, AppendProperties
  <2> QED
    BY <1>1, <2>2 DEF q
<1>3. DiskLeft' = DiskLeft + 1
  <2>1. CASE Unfinished(1)
    BY <1>0, <1>2, <2>1 DEF DiskLeft
  <2>2. CASE ~Unfinished(1)
    <3>1. DiskLeft = Len(queue[1]) + 0 /\ DiskLeft' = Len(queue'[1]) + 0
      BY <2>2 DEF DiskLeft
    <3> QED
      BY <1>0, <1>2, <3>1
  <2> QED
    BY <2>1, <2>2
<1>4. Below' = Below
  BY <1>0, <1>3 DEF Below
<1>5. \A i \in Int : TaskAt(i)' = TaskAt(i)
  <2> SUFFICES ASSUME NEW i \in Int PROVE TaskAt(i)' = TaskAt(i)
    OBVIOUS
  <2> DEFINE n == Len(queue[1])
  <2>1. Len(queue'[1]) = n + 1 /\ n \in Nat
    BY <1>0, <1>2
  <2> HIDE DEF n
  <2>2. CASE popped
    <3>1. toDisk' + (n + 1) - i = toDisk + n - i
      BY <1>0, <2>1, <2>2
    <3> QED
      BY <2>1, <2>2, <3>1 DEF TaskAt, n
  <2>3. CASE ~popped
    <3>1. toDisk' - (n + 1) + i - 1 = toDisk - n + i - 1
      BY <1>0, <2>1, <2>3
    <3> QED
      BY <2>1, <2>3, <3>1 DEF TaskAt, n
  <2> QED
    BY <2>2, <2>3
<1>6. t = TaskAt(Len(queue[1]) + 1)
  <2> DEFINE n == Len(queue[1])
  <2>1. n \in Nat
    BY <1>0
  <2> HIDE DEF n
  <2>2. toDisk + n - (n + 1) = toDisk - 1 /\ toDisk - n + (n + 1) - 1 = toDisk
    BY <1>0, <2>1
  <2> QED
    BY <2>2 DEF TaskAt, n
<1>7. DiskOrder'
  <2>1. \A i \in 1 .. Len(queue[1]) : queue[1][i] = TaskAt(i)
    BY DEF OrderInv, DiskOrder
  <2>2. ASSUME NEW i \in 1 .. Len(queue'[1]) PROVE queue'[1][i] = TaskAt(i)'
    <3>1. i \in Int /\ (i \in 1 .. Len(queue[1]) \/ i = Len(queue[1]) + 1)
      BY <1>0, <1>2
    <3> QED
      BY <1>2, <1>5, <1>6, <2>1, <3>1
  <2>3. Unfinished(1)' => task'[1] = TaskAt(0)'
    BY <1>5 DEF OrderInv, DiskOrder
  <2> QED
    BY <2>2, <2>3 DEF DiskOrder
<1> QED
  BY <1>1, <1>4, <1>7

\* Waking a sleeper, or ending a task, finishes and commits nothing.
LEMMA WokenStep ==
  ASSUME IInv, NEW S,
         \/ pc' = Awoken(pc, S)
         \/ pc[0] = "finish" /\ pc' = [Awoken(pc, S) EXCEPT ![0] = "consume"]
         \/ pc[0] = "finish" /\ pc' = [pc EXCEPT ![0] = "consume"]
  PROVE  /\ Unfinished(0)' <=> Unfinished(0)
         /\ Unfinished(1)' <=> Unfinished(1)
         /\ \A w \in Workers : pc'[w] = "commit" <=> pc[w] = "commit"
         /\ pc'[1] = pc[1] \/ (pc[1] = "asleep" /\ pc'[1] = "consume")
<1>1. pc \in [Workers -> PcStates] /\ 0 \in Workers /\ 1 \in Workers
  BY StateTypes DEF TypeOKCommon
<1>2. \A w \in Workers : pc'[w] = pc[w] \/ (pc[w] \in {"asleep", "finish"} /\ pc'[w] = "consume")
  BY <1>1 DEF Awoken
<1>3. pc'[1] = pc[1] \/ (pc[1] = "asleep" /\ pc'[1] = "consume")
  <2>1. Awoken(pc, S)[1] = IF 1 \in S /\ pc[1] = "asleep" THEN "consume" ELSE pc[1]
    BY <1>1 DEF Awoken
  <2>2. pc'[1] = Awoken(pc, S)[1] \/ pc'[1] = pc[1]
    <3>1. Awoken(pc, S) \in [Workers -> PcStates]
      BY StateTypes, AwokenType
    <3> QED
      BY <1>1, <3>1
  <2> QED
    BY <2>1, <2>2
<1> QED
  BY <1>1, <1>2, <1>3 DEF Unfinished, Started

LEMMA FinishSteps ==
  ASSUME AsAnnounced, IInv, OrderInv, FinishPush \/ FinishPop
  PROVE  OrderInv'
<1>0. /\ pc \in [Workers -> PcStates] /\ 0 \in Workers /\ 1 \in Workers /\ Capacity \in Nat
      /\ count \in Nat /\ toDisk \in Nat /\ MaxBuffers \in Nat /\ queue[0] \in Seq(Task)
      /\ Held \in Int
  BY StateTypes, Constants, HeldType DEF TypeOKCommon
<1>1. pc[0] = "finish" /\ Busy(0) /\ ~Unfinished(0) /\ ~Committing(0, "emplaceFront")
      /\ ~Committing(0, "emplaceFront")'
  <2>1. pc[0] = "finish" /\ pc'[0] = "consume"
    BY <1>0 DEF FinishPush, FinishPop, Awoken
  <2> QED
    BY <2>1 DEF Busy, Unfinished, Started, Committing
<1>2. queue[0] = << >> /\ ~Idle0
  BY <1>1, Worker0Busy
<1>3. UNCHANGED <<deque, disk, task, failed, owner, array, pushes, count, popped>>
  BY DEF FinishPush, FinishPop, ownerVars
<1>4. /\ Unfinished(1)' <=> Unfinished(1)
      /\ ~Unfinished(0)' /\ ~Busy(0)'
      /\ \A op : Committing(1, op)' <=> Committing(1, op)
  <2>1. pc'[0] = "consume"
    BY <1>0 DEF FinishPush, FinishPop, Awoken
  <2>2. \A w \in Workers : pc'[w] = "commit" <=> pc[w] = "commit"
    BY <1>0, WokenStep DEF FinishPush, FinishPop
  <2>3. Unfinished(1)' <=> Unfinished(1)
    BY <1>0, WokenStep DEF FinishPush, FinishPop
  <2> QED
    BY <1>0, <1>3, <2>1, <2>2, <2>3 DEF Unfinished, Started, Busy, Committing
<1>5. ASSUME queue'[0] = << >>, DiskOrder', Below' = Below PROVE Storage' /\ Idle0'
  <2>1. Held' = Held
    BY <1>1, <1>2, <1>3, <1>4, <1>5 DEF Held, RequestLeft
  <2>2. Indices' /\ SlotsHold' /\ DiskHolds'
    BY <1>1, <1>3, <1>4, <1>5, <2>1
       DEF OrderInv, Indices, SlotsHold, Filled, DiskHolds, OnDisk
  <2>3. Idle0'
    BY <1>4, <1>5 DEF Idle0
  <2> QED
    BY <1>5, <2>2, <2>3 DEF Storage
\* No task for worker 1.
<1>6. ASSUME UNCHANGED <<queue, toDisk>> PROVE DiskOrder' /\ Below' = Below
  <2>1. DiskOrder'
    BY <1>3, <1>4, <1>6 DEF OrderInv, DiskOrder, TaskAt
  <2>2. Below' = Below
    BY <1>3, <1>4, <1>6 DEF Below, DiskLeft
  <2> QED
    BY <2>1, <2>2
<1>7. CASE FinishPush
  <2>1. ~popped /\ count > 0 /\ task[0].id = count - 1 /\ owner = "idle"
    BY <1>1, <1>7, Worker0Busy DEF FinishPush
  <2>2. Pushing /\ toDisk <= count - 1
    BY <1>2, <2>1 DEF OrderInv, Phase, Pushing
  <2> DEFINE t == [op |-> "hostToDisk", id |-> toDisk]
  <2>3. CASE Displaces(count - 1)
    <3>1. queue' = Enqueued(1, t) /\ toDisk' = toDisk + 1
      BY <1>7, <2>1, <2>3 DEF FinishPush
    <3>2. t \in DiskTask
      BY <1>0, <2>2, StateTypes DEF DiskTask, BufferIds
    <3> HIDE DEF t
    <3>3. t = [op |-> "hostToDisk", id |-> toDisk]
      BY DEF t
    <3>4. DiskOrder' /\ Below' = Below /\ queue'[0] = << >>
      BY <1>2, <1>3, <1>4, <2>1, <3>1, <3>2, <3>3, EnqueuedTask
    <3>5. toDisk' <= MaxBuffers - Capacity /\ toDisk' <= count
      BY <1>0, <2>2, <2>3, <3>1 DEF Displaces
    <3>6. Phase'
      BY <1>3, <1>5, <2>1, <2>2, <3>4, <3>5 DEF Phase, Pushing
    <3> QED
      BY <1>3, <1>5, <3>4, <3>6 DEF OrderInv, Storage
  <2>4. CASE ~Displaces(count - 1)
    <3>1. UNCHANGED <<queue, toDisk>>
      BY <1>7, <2>1, <2>4 DEF FinishPush
    <3>2. Storage' /\ Idle0'
      BY <1>2, <1>5, <1>6, <3>1
    <3>3. toDisk' <= count
      BY <1>0, <2>2, <3>1
    <3>4. Phase'
      BY <1>3, <2>1, <2>2, <3>1, <3>2, <3>3 DEF Phase, Pushing
    <3> QED
      BY <1>3, <3>2, <3>4 DEF OrderInv, Storage
  <2> QED
    BY <2>3, <2>4
<1>8. CASE FinishPop
  <2>1. popped /\ count < MaxBuffers /\ task[0].id = count /\ owner = "popWait"
    BY <1>1, <1>8, Worker0Busy DEF FinishPop
  <2>2. \A id \in count .. MaxBuffers - 1 : popFuture'[id] # "invalid"
    <3>1. popFuture \in [BufferIds -> Futures]
      BY StateTypes DEF TypeOK
    <3>2. \A id \in count .. MaxBuffers - 1 : id \in BufferIds /\ popFuture[id] # "invalid"
      BY <1>0, <2>1 DEF OrderInv, Phase, Popping, BufferIds
    <3> QED
      BY <1>8, <3>1, <3>2 DEF FinishPop
  <2>3. ASSUME Idle0' PROVE Phase'
    BY <1>3, <2>1, <2>2, <2>3 DEF OrderInv, Phase, Popping
  <2> DEFINE t == [op |-> "diskToHost", id |-> toDisk - 1]
  <2>4. CASE MayCallBack
    <3>1. queue' = Enqueued(1, t) /\ toDisk' = toDisk - 1
      BY <1>8, <2>4 DEF FinishPop
    <3>2. t \in DiskTask
      <4>1. toDisk \in 0 .. MaxBuffers
        BY StateTypes DEF TypeOK
      <4> QED
        BY <1>0, <2>4, <4>1 DEF DiskTask, BufferIds, MayCallBack
    <3> HIDE DEF t
    <3>3. t = [op |-> "diskToHost", id |-> toDisk - 1]
      BY DEF t
    <3>4. DiskOrder' /\ Below' = Below /\ queue'[0] = << >>
      BY <1>2, <1>3, <1>4, <2>1, <3>1, <3>2, <3>3, EnqueuedTask
    <3> QED
      BY <1>3, <1>5, <2>3, <3>4 DEF OrderInv, Storage
  <2>5. CASE ~MayCallBack
    <3>1. UNCHANGED <<queue, toDisk>>
      BY <1>8, <2>5 DEF FinishPop
    <3>2. Storage' /\ Idle0'
      BY <1>2, <1>5, <1>6, <3>1
    <3> QED
      BY <1>3, <2>3, <3>2 DEF OrderInv, Storage
  <2> QED
    BY <2>4, <2>5
<1> QED
  BY <1>7, <1>8

-----------------------------------------------------------------------------
(* The steps of the owner.                                                   *)

\* When all arrays are pushed and none is on its way to the queue, the queue
\* could not hold them unless all transfers to disk were done.
LEMMA AllPushed ==
  ASSUME AsAnnounced, IInv, OrderInv, ~popped, Idle0, count = MaxBuffers
  PROVE  DiskLeft = 0
<1>0. /\ Capacity \in Nat /\ Capacity > 0 /\ MaxBuffers \in Nat /\ toDisk \in Nat /\ DiskLeft \in Nat
      /\ Below \in Nat
  BY StateTypes, Constants DEF AsAnnounced, OrderInv, Indices
<1>1. ~RequestLeft
  BY UnfinishedBusy DEF Idle0, RequestLeft
<1>2. Held = MaxBuffers /\ Below = toDisk - DiskLeft
  BY <1>1 DEF Held, Below
<1>3. Held - Below <= Capacity
  BY <1>0, Ends DEF IInv, SizeKept
<1>4. toDisk > 0 => toDisk <= MaxBuffers - Capacity
  BY DEF OrderInv, Phase, Pushing
<1> QED
  BY <1>0, <1>2, <1>3, <1>4

LEMMA OwnerSteps ==
  ASSUME AsAnnounced, IInv, OrderInv, OwnerStep
  PROVE  OrderInv'
<1>0. /\ pc \in [Workers -> PcStates] /\ 0 \in Workers /\ 1 \in Workers /\ Capacity \in Nat
      /\ count \in Nat /\ count <= MaxBuffers /\ toDisk \in Nat /\ pushes \in Nat
      /\ MaxBuffers \in Nat /\ MaxBuffers > 0 /\ PushCount = MaxBuffers
      /\ queue \in [Workers -> Seq(Task)] /\ popFuture \in [BufferIds -> Futures]
      /\ ~Interleaved /\ Capacity > 0 /\ ~failed /\ Phase /\ Storage
  BY StateTypes, Constants DEF TypeOKCommon, TypeOK, AsAnnounced, OrderInv, Storage
\* The owner goes on only when nothing is pending.
<1>1. \/ owner \notin {"idle", "popWait"}
      \/ owner = "idle" /\ PushWaitReturns
      \/ owner = "idle" /\ count = 0
      \/ owner = "popWait" /\ (count < MaxBuffers => popFuture[count] = "ready")
      => Idle0
  BY <1>0, StateTypes DEF OneRequest, PushWaitReturns
<1>2. ASSUME UNCHANGED <<deque, disk, queue, task, toDisk, popped, count>>, pc' = pc,
             ~failed', Phase'
      PROVE  OrderInv'
  <2>1. Held' = Held /\ (Unfinished(1)' <=> Unfinished(1))
        /\ \A op : /\ Committing(0, op)' <=> Committing(0, op)
                   /\ Committing(1, op)' <=> Committing(1, op)
    BY <1>2 DEF Held, RequestLeft, Unfinished, Committing
  <2>2. Storage'
    BY <1>0, <1>2, <2>1, StorageKept
  <2> QED
    BY <1>2, <2>2 DEF OrderInv, Storage
<1>3. CASE ComputeArray
  <2>1. ~popped
    BY <1>0, <1>3 DEF ComputeArray, Phase, Popping
  <2>2. Phase'
    BY <1>0, <1>3, <2>1 DEF ComputeArray, Phase, Pushing, commonVars, Idle0, Busy
  <2> QED
    BY <1>0, <1>2, <1>3, <2>2 DEF ComputeArray, commonVars
<1>4. CASE PopPrelude
  <2>1. Idle0
    BY <1>1, <1>4 DEF PopPrelude
  <2>2. ~failed'
    <3>1. popped /\ count < MaxBuffers => count \in count .. MaxBuffers - 1
      BY <1>0
    <3>2. popped => \A id \in count .. MaxBuffers - 1 : popFuture[id] # "invalid"
      BY <1>0 DEF Phase, Popping
    <3> QED
      BY <1>4, <3>1, <3>2 DEF PopPrelude
  <2>3. Phase'
    <3>1. Idle0'
      BY <1>4, <2>1 DEF PopPrelude, Idle0, Busy
    <3>2. CASE popped
      BY <1>0, <1>4, <3>1, <3>2 DEF PopPrelude, Phase, Popping
    <3>3. CASE ~popped
      BY <1>0, <1>4, <2>1, <3>1, <3>3 DEF PopPrelude, Phase, Pushing
    <3> QED
      BY <3>2, <3>3
  <2> QED
    BY <1>2, <1>4, <2>2, <2>3 DEF PopPrelude, TypeOK
<1>5. ASSUME NEW w \in Workers, NEW here \in {"drain0", "drain1"}, NEW next \in {"drain1", "pop"},
             DrainQueue(w, here, next)
      PROVE  OrderInv'
  <2>1. ~popped /\ owner = here
    BY <1>0, <1>5 DEF DrainQueue, Phase, Popping
  <2>2. Phase'
    BY <1>0, <1>5, <2>1 DEF DrainQueue, Phase, Pushing, commonVars, Idle0, Busy
  <2> QED
    BY <1>0, <1>2, <1>5, <2>2 DEF DrainQueue, commonVars
<1>6. CASE PopWait
  <2>1. popped /\ Idle0
    BY <1>0, <1>1, <1>6 DEF PopWait, Phase, Pushing
  <2>2. Phase'
    BY <1>0, <1>6, <2>1 DEF PopWait, Phase, Popping, commonVars, Idle0, Busy
  <2> QED
    BY <1>0, <1>2, <1>6, <2>2 DEF PopWait, commonVars
<1>7. CASE Stop
  <2>1. popped /\ Idle0
    BY <1>0, <1>1, <1>7 DEF Stop, Phase, Pushing
  <2>2. Phase'
    BY <1>0, <1>7, <2>1 DEF Stop, Phase, Popping, Idle0, Busy
  <2> QED
    BY <1>0, <1>2, <1>7, <2>2 DEF Stop
<1>8. CASE Join
  <2>1. popped
    BY <1>0, <1>8 DEF Join, Phase, Pushing
  <2>2. Phase'
    BY <1>0, <1>8, <2>1 DEF Join, Phase, Popping, commonVars, Idle0, Busy
  <2> QED
    BY <1>0, <1>2, <1>8, <2>2 DEF Join, commonVars
<1>9. CASE NotifyWorkers
  <2>1. popped /\ Idle0
    BY <1>0, <1>1, <1>9 DEF NotifyWorkers, Phase, Pushing
  <2>2. /\ Unfinished(0)' <=> Unfinished(0)
        /\ Unfinished(1)' <=> Unfinished(1)
        /\ \A w \in Workers : pc'[w] = "commit" <=> pc[w] = "commit"
        /\ Busy(0)' <=> Busy(0)
    BY <1>9, WokenStep, BusyAwoken, StateTypes DEF NotifyWorkers
  <2>3. Held' = Held /\ Idle0'
        /\ \A op : /\ Committing(0, op)' <=> Committing(0, op)
                   /\ Committing(1, op)' <=> Committing(1, op)
    BY <1>0, <1>9, <2>1, <2>2 DEF NotifyWorkers, Held, RequestLeft, Committing, Idle0
  <2>4. Storage'
    BY <1>0, <1>9, <2>2, <2>3, StorageKept DEF NotifyWorkers
  <2>5. Phase'
    BY <1>0, <1>9, <2>1, <2>3 DEF NotifyWorkers, Phase, Popping
  <2> QED
    BY <1>0, <1>9, <2>4, <2>5 DEF NotifyWorkers, OrderInv, Storage
\* A request: the owner gives worker 0 a task, which changes no buffer yet.
<1>10. ASSUME NEW t \in Task, Idle0, queue' = Enqueued(0, t), pc' = Awoken(pc, {0}),
              UNCHANGED <<deque, disk, task, toDisk>>, ~failed'
       PROVE  /\ ~Idle0' /\ RequestLeft' /\ ~RequestLeft /\ Held = count
              /\ DiskLeft' = DiskLeft
              /\ Held' = Held /\ Below' = Below /\ DiskOrder' => Storage'
  <2>1. queue'[0] # << >> /\ queue'[1] = queue[1]
    <3>1. queue'[0] = Append(queue[0], t) /\ queue'[1] = queue[1]
      BY <1>0, <1>10 DEF Enqueued
    <3>2. queue[0] = << >> /\ Append(<< >>, t) # << >>
      BY <1>10 DEF Idle0
    <3> QED
      BY <3>1, <3>2
  <2>2. /\ Unfinished(0)' <=> Unfinished(0)
        /\ Unfinished(1)' <=> Unfinished(1)
        /\ \A w \in Workers : pc'[w] = "commit" <=> pc[w] = "commit"
    BY <1>10, WokenStep
  <2>3. ~RequestLeft /\ Held = count /\ ~Idle0' /\ RequestLeft'
    BY <1>10, <2>1, UnfinishedBusy DEF Idle0, RequestLeft, Held
  <2>4. DiskLeft' = DiskLeft
    BY <2>1, <2>2 DEF DiskLeft
  <2>5. ASSUME Held' = Held, Below' = Below, DiskOrder' PROVE Storage'
    <3>1. \A op : /\ Committing(0, op)' <=> Committing(0, op)
                  /\ Committing(1, op)' <=> Committing(1, op)
      BY <1>0, <1>10, <2>2 DEF Committing
    <3>2. Indices' /\ SlotsHold' /\ DiskHolds'
      BY <1>0, <1>10, <2>5, <3>1
         DEF Storage, Indices, SlotsHold, Filled, DiskHolds, OnDisk
    <3> QED
      BY <2>5, <3>2 DEF Storage
  <2> QED
    BY <2>3, <2>4, <2>5
<1>11. CASE PushAsync
  <2>1. owner = "push" /\ ~popped /\ Idle0 /\ count < pushes
    BY <1>0, <1>1, <1>11 DEF PushAsync, Phase, Popping, Pushing
  <2> DEFINE t == [op |-> "emplaceFront", id |-> count]
  <2>2. t \in Task
    <3>1. pushes <= MaxBuffers
      BY <1>0, StateTypes DEF TypeOK
    <3> QED
      BY <1>0, <2>1, <3>1 DEF Task, Operations, BufferIds
  <2>3. /\ queue' = Enqueued(0, t) /\ pc' = Awoken(pc, {0}) /\ ~failed' /\ count' = count + 1
        /\ owner' = "idle"
        /\ UNCHANGED <<deque, disk, task, array, pushes, popped, toDisk, popFuture>>
    <3>1. Capacity # 0
      BY <1>0
    <3>2. ~failed'
      BY <1>11, <3>1 DEF PushAsync
    <3> QED
      BY <1>11, <3>1, <3>2 DEF PushAsync
  <2> HIDE DEF t
  <2>4. /\ ~Idle0' /\ RequestLeft' /\ Held = count /\ DiskLeft' = DiskLeft
        /\ Held' = Held /\ Below' = Below /\ DiskOrder' => Storage'
    BY <1>10, <2>1, <2>2, <2>3
  <2>5. Held' = Held /\ Below' = Below
    BY <1>0, <2>1, <2>3, <2>4 DEF Held, Below
  <2>6. DiskOrder'
    <3>1. queue'[1] = queue[1]
      BY <1>0, <2>3 DEF Enqueued
    <3>2. Unfinished(1)' <=> Unfinished(1)
      BY <2>3, WokenStep
    <3> QED
      BY <1>0, <2>3, <3>1, <3>2 DEF Storage, DiskOrder, TaskAt
  <2>7. Phase'
    BY <1>0, <2>1, <2>3, <2>4 DEF Phase, Pushing
  <2> QED
    BY <2>3, <2>4, <2>5, <2>6, <2>7 DEF OrderInv, Storage
<1>12. CASE PopAsync
  <2>1. owner = "pop" /\ Idle0 /\ count > 0
    BY <1>0, <1>1, <1>12, StateTypes DEF PopAsync, Counts
  <2> DEFINE t == [op |-> "popFront", id |-> count - 1]
  <2>2. t \in Task
    BY <1>0, <2>1 DEF Task, Operations, BufferIds
  <2>3. /\ queue' = Enqueued(0, t) /\ pc' = Awoken(pc, {0}) /\ ~failed' /\ count' = count - 1
        /\ owner' = "popWait" /\ popped'
        /\ popFuture' = [popFuture EXCEPT ![count - 1] = "pending"]
        /\ UNCHANGED <<deque, disk, task, array, pushes, toDisk>>
    BY <1>0, <1>12 DEF PopAsync
  <2> HIDE DEF t
  <2>4. /\ ~Idle0' /\ RequestLeft' /\ Held = count /\ DiskLeft' = DiskLeft
        /\ Held' = Held /\ Below' = Below /\ DiskOrder' => Storage'
    BY <1>10, <2>1, <2>2, <2>3
  <2>5. Held' = Held
    BY <1>0, <2>1, <2>3, <2>4 DEF Held
  <2>6. queue'[1] = queue[1] /\ (Unfinished(1)' <=> Unfinished(1))
    <3>1. queue'[1] = queue[1]
      BY <1>0, <2>3 DEF Enqueued
    <3>2. Unfinished(1)' <=> Unfinished(1)
      BY <2>3, WokenStep
    <3> QED
      BY <3>1, <3>2
  <2>7. pushes = MaxBuffers /\ (~popped => DiskLeft = 0 /\ count = MaxBuffers)
    BY <1>0, <2>1, AllPushed DEF Phase, Pushing, Popping
  <2>8. Below' = Below /\ DiskOrder'
    <3>1. CASE popped
      BY <1>0, <2>3, <2>4, <2>6, <3>1 DEF Below, Storage, DiskOrder, TaskAt
    <3>2. CASE ~popped
      <4>1. DiskLeft = 0 /\ DiskLeft' = 0
        BY <2>4, <2>7, <3>2
      <4>2. ~Unfinished(1) /\ Len(queue[1]) = 0
        <5>1. Len(queue[1]) \in Nat
          BY StateTypes
        <5>2. CASE Unfinished(1)
          BY <4>1, <5>1, <5>2 DEF DiskLeft
        <5>3. CASE ~Unfinished(1)
          <6>1. DiskLeft = Len(queue[1]) + 0
            BY <5>3 DEF DiskLeft
          <6> QED
            BY <4>1, <5>1, <5>3, <6>1
        <5> QED
          BY <5>2, <5>3
      <4>3. Below' = Below
        BY <1>0, <2>3, <3>2, <4>1 DEF Below
      <4>4. DiskOrder'
        BY <2>6, <4>2 DEF DiskOrder
      <4> QED
        BY <4>3, <4>4
    <3> QED
      BY <3>1, <3>2
  <2>9. Phase'
    <3>1. \A id \in count' .. MaxBuffers - 1 : popFuture'[id] # "invalid"
      <4> SUFFICES ASSUME NEW id \in count - 1 .. MaxBuffers - 1
                   PROVE  popFuture'[id] # "invalid"
        BY <2>3
      <4>1. id \in BufferIds
        BY <1>0, <2>1 DEF BufferIds
      <4>2. CASE id = count - 1
        BY <1>0, <2>3, <4>1, <4>2
      <4>3. CASE id # count - 1
        <5>1. id \in count .. MaxBuffers - 1 /\ popped
          BY <1>0, <2>1, <2>7, <4>3
        <5>2. popFuture[id] # "invalid"
          BY <1>0, <5>1 DEF Phase, Popping
        <5> QED
          BY <1>0, <2>3, <4>1, <4>3, <5>2
      <4> QED
        BY <4>2, <4>3
    <3> QED
      BY <1>0, <2>1, <2>3, <2>7, <3>1 DEF Phase, Popping
  <2> QED
    BY <2>3, <2>4, <2>5, <2>8, <2>9 DEF OrderInv, Storage
<1> QED
  BY <1>0, <1>3, <1>4, <1>5, <1>6, <1>7, <1>8, <1>9, <1>11, <1>12 DEF OwnerStep

-----------------------------------------------------------------------------
(* The theorems. *)

LEMMA StepOrder ==
  ASSUME AsAnnounced, IInv, OrderInv, [Next]_vars
  PROVE  OrderInv'
<1>1. CASE UNCHANGED vars
  BY <1>1 DEF vars, commonVars, ownerVars, OrderInv, Indices, SlotsHold, Filled, DiskHolds,
     OnDisk, DiskOrder, TaskAt, Phase, Pushing, Popping, Held, Below, DiskLeft, RequestLeft,
     Unfinished, Committing, Idle0, Busy
<1>2. CASE OwnerStep
  BY <1>2, OwnerSteps
<1>3. ASSUME NEW w \in Workers, WorkerStep(w) \/ Spurious(w)
      PROVE  OrderInv'
  BY <1>3, QuietSteps, TakeTaskStep, ToDiskStep, FromDiskStep, CommitStep, PushedStep,
     PoppedStep, FinishSteps DEF WorkerStep, CommonStep, Spurious
<1> QED
  BY <1>1, <1>2, <1>3 DEF Next, Ended

\* No GEOS_ERROR of the queue or of the files and no exception of a future is
\* reached: the reverse order of the transfers back from disk always finds the
\* file it opens, and the queue is never popped empty.
THEOREM NoErrorEver ==
  ASSUME AsAnnounced
  PROVE  Spec => []NoError
<1>1. Init => IInv /\ OrderInv
  BY InitIInv, InitOrder
<1>2. IInv /\ OrderInv /\ [Next]_vars => IInv' /\ OrderInv'
  BY StepIInv, StepOrder
<1>3. OrderInv => NoError
  BY DEF OrderInv, NoError
<1> QED
  BY <1>1, <1>2, <1>3, PTL DEF Spec

\* Once the first pop is asked for, no transfer to disk that a push started is
\* left: when all arrays are pushed and the last one is in the queue, the queue
\* could not hold them unless all transfers to disk were done.
THEOREM PushStepsAlwaysEnded ==
  ASSUME AsAnnounced
  PROVE  Spec => []PushStepsEnded
<1>1. Init => IInv /\ OrderInv
  BY InitIInv, InitOrder
<1>2. IInv /\ OrderInv /\ [Next]_vars => IInv' /\ OrderInv'
  BY StepIInv, StepOrder
<1>3. ASSUME IInv, OrderInv, popped, NEW w \in Workers
      PROVE  /\ \A i \in 1 .. Len(queue[w]) : queue[w][i].op # "hostToDisk"
             /\ ~Running(w, "hostToDisk", Started \cup {"commit"})
  <2>1. CASE w = 0
    <3>1. queue[0] = << >> \/ (Len(queue[0]) = 1 /\ queue[0][1].op \in {"emplaceFront", "popFront"})
      <4>1. CASE queue[0] = << >>
        BY <4>1
      <4>2. CASE queue[0] # << >>
        <5>1. ~Busy(0) /\ ~Idle0
          BY <1>3, <4>2, StateTypes DEF OneRequest, Idle0
        <5>2. \/ queue[0] = << [op |-> "emplaceFront", id |-> count - 1] >>
              \/ queue[0] = << [op |-> "popFront", id |-> count] >>
          BY <1>3, <5>1, StateTypes DEF OneRequest, Outstanding
        <5>3. ASSUME NEW t, queue[0] = << t >> PROVE Len(queue[0]) = 1 /\ queue[0][1] = t
          BY <5>3
        <5>4. CASE queue[0] = << [op |-> "emplaceFront", id |-> count - 1] >>
          BY <5>3, <5>4
        <5>5. CASE queue[0] = << [op |-> "popFront", id |-> count] >>
          BY <5>3, <5>5
        <5> QED
          BY <5>2, <5>4, <5>5
      <4> QED
        BY <4>1, <4>2
    <3>2. Unfinished(0) => task[0].op # "hostToDisk"
      BY <1>3, Worker0Busy, UnfinishedBusy
    <3>3. Len(<< >>) = 0
      OBVIOUS
    <3> QED
      BY <2>1, <3>1, <3>2, <3>3 DEF Running, Unfinished
  <2>2. CASE w = 1
    <3>1. \A i \in 1 .. Len(queue[1]) : queue[1][i].op = "diskToHost"
      <4> SUFFICES ASSUME NEW i \in 1 .. Len(queue[1]) PROVE queue[1][i].op = "diskToHost"
        OBVIOUS
      <4>1. queue[1][i] = TaskAt(i)
        BY <1>3 DEF OrderInv, DiskOrder
      <4> QED
        BY <1>3, <4>1 DEF TaskAt
    <3>2. Unfinished(1) => task[1].op = "diskToHost"
      BY <1>3, Worker1Unfinished
    <3> QED
      BY <2>2, <3>1, <3>2 DEF Running, Unfinished
  <2> QED
    BY <2>1, <2>2 DEF Workers
<1>4. IInv /\ OrderInv => PushStepsEnded
  BY <1>3 DEF PushStepsEnded
<1> QED
  BY <1>1, <1>2, <1>4, PTL DEF Spec

-----------------------------------------------------------------------------
(* The stack of LifoHostProperties holds Depth, Depth - 1, ... 1: its parts    *)
(* are descending runs that meet (Down in FixedSizeDeque_proofs).             *)

\* How many arrays the owner believes are stored: a push counts at once, and a
\* pop as soon as it has delivered the array; and how many of them have left
\* the hands of worker 0.
Asked == RequestLeft /\ ~Committing(0, "popFront")
Depth == IF popped /\ Asked THEN count + 1 ELSE count
Top   == IF Committing(0, "popFront") THEN Held - 1 ELSE Held

LEMMA DepthBounds ==
  ASSUME IInv, OrderInv
  PROVE  /\ Depth \in Nat /\ Top \in Nat /\ Below \in Nat /\ Held \in Nat
         /\ Below <= Top /\ Top <= Depth /\ Held <= MaxBuffers
         /\ Depth = IF ~popped /\ RequestLeft THEN Top + 1 ELSE Top
         /\ ~popped => Depth = count /\ Top = Held
<1>0. /\ count \in Nat /\ count <= MaxBuffers /\ MaxBuffers \in Nat /\ Held \in Int /\ Below \in Nat
      /\ Size(deque) = Held - Below /\ Size(deque) \in Nat
  BY StateTypes, Constants, HeldType, Ends DEF OrderInv, Indices, IInv, SizeKept
<1>1. Committing(0, "popFront") => RequestLeft /\ popped /\ Size(deque) > 0
  <2>1. SUFFICES ASSUME Committing(0, "popFront") PROVE RequestLeft /\ popped /\ Size(deque) > 0
    OBVIOUS
  <2>2. Busy(0) /\ Unfinished(0) /\ task[0].op = "popFront" /\ pc[0] = "commit"
    BY <2>1 DEF Committing, Busy, Unfinished
  <2>3. popped
    BY <2>2, Worker0Busy
  <2>4. Size(deque) > 0
    BY <2>2, StateTypes DEF IInv, SizeKept
  <2> QED
    BY <2>2, <2>3, <2>4 DEF RequestLeft
<1>2. Below <= Held /\ (Committing(0, "popFront") => Below <= Held - 1)
  BY <1>0, <1>1
<1>3. CASE popped /\ RequestLeft
  <2>1. count < MaxBuffers /\ Held = count + 1
    BY <1>3 DEF OrderInv, Phase, Popping, Held
  <2> QED
    BY <1>0, <1>2, <1>3, <2>1 DEF Depth, Asked, Top
<1>4. CASE popped /\ ~RequestLeft
  <2>1. Held = count /\ ~Committing(0, "popFront")
    BY <1>1, <1>4 DEF Held
  <2> QED
    BY <1>0, <1>2, <1>4, <2>1 DEF Depth, Asked, Top
<1>5. CASE ~popped /\ RequestLeft
  <2>1. Held = count - 1 /\ ~Committing(0, "popFront")
    BY <1>1, <1>5 DEF Held
  <2> QED
    BY <1>0, <1>2, <1>5, <2>1 DEF Depth, Top
<1>6. CASE ~popped /\ ~RequestLeft
  <2>1. Held = count /\ ~Committing(0, "popFront")
    BY <1>1, <1>6 DEF Held
  <2> QED
    BY <1>0, <1>2, <1>6, <2>1 DEF Depth, Top
<1> QED
  BY <1>3, <1>4, <1>5, <1>6

LEMMA PendingRun ==
  ASSUME IInv, OrderInv
  PROVE  PendingPushes = Down(Depth, Top)
<1> DEFINE inQueue == {i \in DOMAIN queue[0] : IsPush(queue[0][i])}
           waiting == Cardinality(inQueue)
                      + (IF Running(0, "emplaceFront", Started) THEN 1 ELSE 0)
           copied == IF Running(0, "emplaceFront", {"commit"})
                     THEN << deque.slot[NextFrontSlot(deque)] >> ELSE << >>
<1>0. PendingPushes = [i \in 1 .. waiting |-> array] \o copied
  BY DEF PendingPushes
<1> DEFINE run == [i \in 1 .. waiting |-> array]
<1>1. /\ Depth \in Nat /\ Top \in Nat /\ Top <= Depth /\ (~popped => Depth = count)
      /\ Depth = IF ~popped /\ RequestLeft THEN Top + 1 ELSE Top
  BY DepthBounds
<1>2. Cardinality({}) = 0 /\ Cardinality({1}) = 1
  BY FS_EmptySet, FS_Singleton
<1>3. Running(0, "emplaceFront", {"commit"}) => ~Running(0, "emplaceFront", Started)
  BY DEF Running, Started
\* The runs of no array and of one.
<1>4. ASSUME waiting = 0 PROVE run = << >>
  <2>1. run \in Seq({array}) /\ Len(run) = 0
    BY <1>4
  <2> HIDE DEF run
  <2> QED
    BY <2>1, EmptySeq
<1>5. ASSUME waiting = 1 PROVE run = << array >>
  <2>1. run \in Seq({array}) /\ Len(run) = 1 /\ run[1] = array
    BY <1>5
  <2>2. << array >> \in Seq({array}) /\ Len(<< array >>) = 1 /\ << array >>[1] = array
    OBVIOUS
  <2> HIDE DEF run
  <2>3. \A i \in 1 .. Len(run) : run[i] = << array >>[i]
    <3>1. \A i \in 1 .. Len(run) : i = 1
      BY <2>1
    <3> QED
      BY <2>1, <2>2, <3>1
  <2> QED
    BY <2>1, <2>2, <2>3, SeqEqual
<1>6. CASE popped \/ ~RequestLeft
  <2>1. inQueue = {}
    <3>1. CASE queue[0] = << >>
      BY <3>1
    <3>2. CASE queue[0] # << >>
      <4>1. popped /\ ~Idle0
        BY <1>6, <3>2 DEF RequestLeft, Idle0
      <4>2. Outstanding("popFront", count) /\ ~Busy(0)
        BY <3>2, <4>1, StateTypes DEF OneRequest, OrderInv, Phase, Popping
      <4>3. queue[0] = << [op |-> "popFront", id |-> count] >>
        BY <4>2 DEF Outstanding
      <4>4. DOMAIN queue[0] = 1 .. 1 /\ queue[0][1].op = "popFront"
        BY <4>3
      <4> QED
        BY <4>4 DEF IsPush
    <3> QED
      BY <3>1, <3>2
  <2>2. ~Running(0, "emplaceFront", Started) /\ ~Running(0, "emplaceFront", {"commit"})
    <3>1. CASE Unfinished(0)
      <4>1. popped /\ Busy(0)
        BY <1>6, <3>1, UnfinishedBusy DEF RequestLeft
      <4> QED
        BY <4>1, Worker0Busy DEF Running
    <3>2. CASE ~Unfinished(0)
      BY <3>2 DEF Running, Unfinished
    <3> QED
      BY <3>1, <3>2
  <2>3. run = << >> /\ copied = << >>
    <3>1. Cardinality(inQueue) = 0
      BY <1>2, <2>1
    <3> HIDE DEF inQueue
    <3>2. waiting = 0
      BY <2>2, <3>1
    <3>3. copied = << >>
      BY <2>2
    <3> QED
      BY <1>4, <3>2, <3>3
  <2>4. << >> \in Seq(Int)
    OBVIOUS
  <2>5. run \o copied = << >>
    BY <2>3, <2>4, ConcatEmptySeq
  <2>6. << >> = Down(Top, Top)
    BY <1>1, DownNothing
  <2> QED
    BY <1>0, <1>1, <1>6, <2>5, <2>6
<1>7. CASE ~popped /\ RequestLeft
  <2>1. /\ Depth = Top + 1 /\ Depth = count /\ Top = Depth - 1
        /\ Depth > 0 /\ << Depth >> = Down(Depth, Top)
    <3>1. Depth = Top + 1 /\ Depth = count
      BY <1>1, <1>7
    <3>2. Depth > 0 /\ Top = Depth - 1
      BY <1>1, <3>1
    <3>3. << Depth >> = Down(Depth, Depth - 1)
      <4>1. Depth \in Nat /\ 0 \in Nat /\ 0 < Depth
        BY <1>1, <3>2
      <4> QED
        BY <4>1, DownEnds
    <3> QED
      BY <3>1, <3>2, <3>3
  <2>2. ~Idle0 /\ owner = "idle" /\ array = count
    <3>1. ~Idle0
      BY <1>7, UnfinishedBusy DEF RequestLeft, Idle0
    <3>2. owner = "idle"
      BY <1>7, <3>1, StateTypes DEF OneRequest, OrderInv, Phase, Pushing
    <3> QED
      BY <1>7, <3>1, <3>2 DEF OrderInv, Phase, Pushing
  <2>3. Outstanding("emplaceFront", count - 1)
    BY <2>2, StateTypes DEF OneRequest
  <2>4. ASSUME run = << array >>, copied = << >> PROVE PendingPushes = Down(Depth, Top)
    <3>1. << array >> \in Seq(Int)
      BY <1>1, <2>1, <2>2
    <3>2. << array >> \o << >> = << array >>
      BY <3>1, ConcatEmptySeq
    <3> QED
      BY <1>0, <2>1, <2>2, <2>4, <3>2
  <2>5. CASE queue[0] # << >>
    <3>1. ~Busy(0) /\ queue[0] = << [op |-> "emplaceFront", id |-> count - 1] >>
      BY <2>3, <2>5, StateTypes DEF OneRequest, Outstanding
    <3>2. DOMAIN queue[0] = 1 .. 1 /\ queue[0][1].op = "emplaceFront"
      BY <3>1
    <3>3. inQueue = {1}
      BY <3>2 DEF IsPush
    <3>4. ~Running(0, "emplaceFront", Started) /\ ~Running(0, "emplaceFront", {"commit"})
      BY <3>1 DEF Running, Busy, Started
    <3>5. waiting = 1 /\ copied = << >>
      BY <1>2, <3>3, <3>4
    <3> QED
      BY <1>5, <2>4, <3>5
  <2>6. CASE queue[0] = << >>
    <3>1. inQueue = {} /\ Unfinished(0) /\ task[0].op = "emplaceFront"
      BY <1>7, <2>6, Worker0Busy, UnfinishedBusy DEF RequestLeft
    <3>2. CASE pc[0] # "commit"
      <4>1. Running(0, "emplaceFront", Started) /\ ~Running(0, "emplaceFront", {"commit"})
        BY <3>1, <3>2 DEF Running, Unfinished
      <4>2. waiting = 1 /\ copied = << >>
        BY <1>2, <3>1, <4>1
      <4> QED
        BY <1>5, <2>4, <4>2
    <3>3. CASE pc[0] = "commit"
      <4>1. ~Running(0, "emplaceFront", Started) /\ Running(0, "emplaceFront", {"commit"})
        BY <3>1, <3>3 DEF Running, Started
      <4>2. run = << >>
        <5>1. Cardinality(inQueue) = 0
          BY <1>2, <3>1
        <5> HIDE DEF inQueue
        <5>2. waiting = 0
          BY <4>1, <5>1
        <5> QED
          BY <1>4, <5>2
      <4>3. deque.begin \in Int /\ deque.end \in Int /\ deque.begin + Top = 0
            /\ deque.begin <= deque.end + 1
        <5>1. deque.begin \in Int /\ deque.end \in Int /\ Top = Held /\ Size(deque) >= 0
          BY <1>7, StateTypes, DepthBounds DEF IInv, SizeKept
        <5> QED
          BY <5>1 DEF OrderInv, Indices, Size
      <4>4. deque.slot[SlotOf(deque.begin - 1)] = -(deque.begin - 1)
        <5>1. deque.begin - 1 \in deque.begin - 1 .. deque.end + 1
          BY <4>3
        <5>2. Filled(deque.begin - 1)
          BY <3>1, <3>3 DEF Filled, Committing
        <5> QED
          BY <5>1, <5>2 DEF OrderInv, SlotsHold
      <4>5. copied = << Depth >>
        <5>1. -(deque.begin - 1) = Depth
          BY <1>1, <2>1, <4>3
        <5> QED
          BY <4>1, <4>4, <5>1 DEF NextFrontSlot
      <4>6. << >> \o << Depth >> = << Depth >>
        <5>1. << Depth >> \in Seq(Int)
          BY <1>1
        <5> QED
          BY <5>1, ConcatEmptySeq
      <4> QED
        BY <1>0, <2>1, <4>2, <4>5, <4>6
    <3> QED
      BY <3>2, <3>3
  <2> QED
    BY <2>5, <2>6
<1> QED
  BY <1>6, <1>7

LEMMA MemoryRun ==
  ASSUME IInv, OrderInv
  PROVE  InMemory = Down(Top, Below)
<1> DEFINE c == Contents(deque)
           n == Size(deque)
<1>1. /\ Held \in Nat /\ Below \in Nat /\ Top \in Nat /\ Below <= Held /\ n = Held - Below
      /\ Below <= Top
  <2>1. Held - Below \in Nat /\ n = Held - Below
    BY Ends, DepthBounds DEF IInv, SizeKept
  <2> QED
    BY <2>1, DepthBounds
<1>2. /\ deque.begin \in Int /\ deque.end \in Int /\ deque.begin + Held = 0
      /\ n = deque.end - deque.begin + 1
  BY StateTypes DEF OrderInv, Indices, Size
<1>3. /\ Down(Held, Below) \in Seq(Int) /\ Len(Down(Held, Below)) = n
      /\ \A i \in 1 .. n : Down(Held, Below)[i] = Held + 1 - i
  BY <1>1, DownRuns
<1>4. ASSUME NEW i \in 1 .. n PROVE deque.slot[SlotOf(deque.begin + i - 1)] = Held + 1 - i
  <2>1. deque.begin + i - 1 \in deque.begin .. deque.end
    BY <1>1, <1>2
  <2>2. deque.slot[SlotOf(deque.begin + i - 1)] = -(deque.begin + i - 1)
    BY <2>1, Ends
  <2>3. -(deque.begin + i - 1) = Held + 1 - i
    <3>1. i \in Int /\ deque.begin \in Int /\ Held \in Int /\ deque.begin + Held = 0
      BY <1>1, <1>2
    <3> QED
      BY <3>1
  <2> QED
    BY <2>2, <2>3
<1> HIDE DEF n
<1>5. c = Down(Held, Below)
  <2>1. \A i \in 1 .. n : deque.slot[SlotOf(deque.begin + i - 1)] \in Int
    BY <1>1, <1>4
  <2>2. c = [i \in 1 .. n |-> deque.slot[SlotOf(deque.begin + i - 1)]]
    BY DEF Contents, n
  <2>3. n \in Nat
    BY <1>1
  <2> HIDE DEF c
  <2>4. c \in Seq(Int) /\ Len(c) = n
    BY <2>1, <2>2, <2>3
  <2>5. \A i \in 1 .. Len(c) : c[i] = Down(Held, Below)[i]
    BY <1>3, <1>4, <2>2, <2>4
  <2> QED
    BY <1>3, <2>4, <2>5, SeqEqual
<1>6. CASE Committing(0, "popFront")
  <2>1. Top = Held - 1 /\ Running(0, "popFront", {"commit"})
    BY <1>6 DEF Top, Committing, Running
  <2>2. Below < Held
    BY <1>1, <2>1
  <2>3. Tail(c) = Down(Held - 1, Below)
    <3>1. Tail(Down(Held, Below)) = Down(Held - 1, Below)
      BY <1>1, <2>2, DownEnds
    <3> QED
      BY <1>5, <3>1
  <2> QED
    BY <2>1, <2>3 DEF InMemory
<1>7. CASE ~Committing(0, "popFront")
  <2>1. Top = Held /\ ~Running(0, "popFront", {"commit"})
    BY <1>7 DEF Top, Committing, Running
  <2> QED
    BY <1>5, <2>1 DEF InMemory
<1> QED
  BY <1>6, <1>7

\* The files are those of the ids below OnDisk, less the one being written.
LEMMA BelowRun ==
  ASSUME IInv, OrderInv
  PROVE  BelowMemory = Down(Below, 0)
<1> DEFINE n == IF Committing(1, "diskToHost") THEN Below - 1 ELSE Below
           files == [i \in 1 .. Cardinality(Files) |-> disk[Cardinality(Files) - i]]
<1>1. Below \in Nat /\ Held \in Nat /\ Held <= MaxBuffers /\ Below <= MaxBuffers
      /\ MaxBuffers \in Nat
  <2>1. Below <= Top /\ Top <= Held /\ Top \in Nat /\ Below \in Nat /\ Held \in Nat
        /\ Held <= MaxBuffers
    BY DepthBounds DEF Top
  <2> QED
    BY <2>1, Constants
<1>2. Committing(1, "hostToDisk") => task[1].id = Below /\ Below < MaxBuffers
  <2>1. SUFFICES ASSUME Committing(1, "hostToDisk") PROVE task[1].id = Below /\ Below < MaxBuffers
    OBVIOUS
  <2>2. Unfinished(1) /\ task[1].op = "hostToDisk"
    BY <2>1 DEF Committing, Unfinished
  <2>3. task[1].id = Below
    BY <2>2, Worker1Unfinished
  <2>4. task[1].id \in BufferIds
    BY StateTypes DEF TypeOKCommon, Task
  <2> QED
    BY <1>1, <2>3, <2>4 DEF BufferIds
<1>3. Committing(1, "diskToHost") => Below > 0
  <2>1. SUFFICES ASSUME Committing(1, "diskToHost") PROVE Below > 0
    OBVIOUS
  <2>2. Unfinished(1) /\ task[1].op = "diskToHost"
    BY <2>1 DEF Committing, Unfinished
  <2> QED
    BY <2>2, Worker1Unfinished
<1>4. n \in Nat /\ n <= MaxBuffers /\ n <= Below
  BY <1>1, <1>3
<1>5. \A id \in BufferIds : id < n => disk[id] = id + 1
  <2> SUFFICES ASSUME NEW id \in BufferIds, id < n PROVE disk[id] = id + 1
    OBVIOUS
  <2>1. id < OnDisk
    BY <1>1, <1>4 DEF OnDisk, Committing, BufferIds
  <2> QED
    BY <2>1 DEF OrderInv, DiskHolds
<1>6. Files = 0 .. n - 1
  <2>1. \A id \in BufferIds : disk[id] # Nothing <=> id < OnDisk
    BY <1>1 DEF OrderInv, DiskHolds, BufferIds, Nothing
  <2>2. CASE Committing(1, "hostToDisk")
    <3>1. OnDisk = Below + 1 /\ n = Below /\ Running(1, "hostToDisk", {"commit"})
      BY <2>2 DEF OnDisk, Committing, Running
    <3>2. \A id \in BufferIds : id \in Files <=> id < Below + 1 /\ id # Below
      BY <1>2, <2>1, <2>2, <3>1 DEF Files
    <3> QED
      BY <1>1, <1>2, <2>2, <3>1, <3>2 DEF Files, BufferIds
  <2>3. CASE ~Committing(1, "hostToDisk")
    <3>1. OnDisk = n /\ ~Running(1, "hostToDisk", {"commit"})
      BY <2>3 DEF OnDisk, Committing, Running
    <3>2. \A id \in BufferIds : id \in Files <=> id < n
      BY <2>1, <3>1 DEF Files
    <3> QED
      BY <1>4, <1>1, <3>2 DEF Files, BufferIds
  <2> QED
    BY <2>2, <2>3
<1> HIDE DEF n
<1>7. Cardinality(Files) = n
  <2>1. 0 \in Int /\ n - 1 \in Int
    BY <1>4
  <2>2. Cardinality(0 .. n - 1) = IF 0 > n - 1 THEN 0 ELSE n - 1 - 0 + 1
    BY <2>1, FS_Interval
  <2> QED
    BY <1>4, <1>6, <2>2
<1>8. files = Down(n, 0)
  <2>1. files = [i \in 1 .. n |-> disk[n - i]]
    BY <1>7
  <2>2. ASSUME NEW i \in 1 .. n PROVE disk[n - i] = n + 1 - i
    <3>1. n - i \in BufferIds /\ n - i < n /\ n - i + 1 = n + 1 - i
      BY <1>1, <1>4 DEF BufferIds
    <3> QED
      BY <1>5, <3>1
  <2>3. /\ Down(n, 0) \in Seq(Int) /\ Len(Down(n, 0)) = n
        /\ \A i \in 1 .. n : Down(n, 0)[i] = n + 1 - i
    <3>1. n - 0 = n /\ 0 \in Nat /\ 0 <= n
      BY <1>4
    <3> QED
      BY <1>4, <3>1, DownRuns
  <2> HIDE DEF files
  <2>4. files \in Seq(Int) /\ Len(files) = n
    <3>1. \A i \in 1 .. n : disk[n - i] \in Int
      BY <1>4, <2>2
    <3> QED
      BY <1>4, <2>1, <3>1
  <2>5. \A i \in 1 .. Len(files) : files[i] = Down(n, 0)[i]
    BY <2>1, <2>2, <2>3, <2>4
  <2> QED
    BY <2>3, <2>4, <2>5, SeqEqual
<1> HIDE DEF files
<1>9. CASE Committing(1, "diskToHost")
  <2>1. Running(1, "diskToHost", {"commit"}) /\ n = Below - 1 /\ Below > 0
    BY <1>3, <1>9 DEF Committing, Running, n
  <2>2. deque.slot[NextBackSlot(deque)] = Below
    <3>1. deque.begin \in Int /\ deque.end \in Int /\ deque.end + Below = -1 /\ Size(deque) >= 0
      BY StateTypes DEF OrderInv, Indices, IInv, SizeKept
    <3>2. deque.end + 1 \in deque.begin - 1 .. deque.end + 1
      BY <3>1 DEF Size
    <3>3. Filled(deque.end + 1)
      BY <1>9 DEF Filled
    <3>4. deque.slot[SlotOf(deque.end + 1)] = -(deque.end + 1)
      BY <3>2, <3>3 DEF OrderInv, SlotsHold
    <3>5. -(deque.end + 1) = Below
      BY <1>1, <3>1
    <3> QED
      BY <3>4, <3>5 DEF NextBackSlot
  <2>3. << Below >> \o Down(Below - 1, 0) = Down(Below, 0)
    <3>1. 0 \in Nat /\ 0 < Below
      BY <2>1
    <3> QED
      BY <1>1, <3>1, DownEnds
  <2>4. BelowMemory = << deque.slot[NextBackSlot(deque)] >> \o files
    BY <2>1 DEF BelowMemory, files
  <2> QED
    BY <1>8, <2>1, <2>2, <2>3, <2>4
<1>10. CASE ~Committing(1, "diskToHost")
  <2>1. ~Running(1, "diskToHost", {"commit"}) /\ n = Below
    BY <1>10 DEF Committing, Running, n
  <2>2. BelowMemory = << >> \o files
    BY <2>1 DEF BelowMemory, files
  <2>3. files \in Seq(Int)
    <3>1. 0 \in Nat /\ 0 <= n
      BY <1>4
    <3> QED
      BY <1>4, <1>8, <3>1, DownRuns
  <2>4. << >> \o files = files
    BY <2>3, ConcatEmptySeq
  <2> QED
    BY <1>8, <2>1, <2>2, <2>4
<1> QED
  BY <1>9, <1>10

LEMMA StackRun ==
  ASSUME IInv, OrderInv
  PROVE  PendingPushes \o InMemory \o BelowMemory = Down(Depth, 0)
<1>1. /\ Depth \in Nat /\ Top \in Nat /\ Below \in Nat /\ 0 \in Nat
      /\ Below <= Top /\ Top <= Depth /\ Below <= Depth /\ 0 <= Below
  <2>1. /\ Depth \in Nat /\ Top \in Nat /\ Below \in Nat /\ Below <= Top /\ Top <= Depth
    BY DepthBounds
  <2> QED
    BY <2>1
<1>2. Down(Depth, Top) \o Down(Top, Below) = Down(Depth, Below)
  BY <1>1, DownMeets
<1>3. Down(Depth, Below) \o Down(Below, 0) = Down(Depth, 0)
  BY <1>1, DownMeets
<1> QED
  BY <1>2, <1>3, PendingRun, MemoryRun, BelowRun

\* A step that leaves the requests of the owner as they are leaves the stack.
LEMMA DepthKept ==
  ASSUME count' = count, popped' = popped, popped => (Asked' <=> Asked)
  PROVE  Depth' = Depth
<1>1. CASE popped
  BY <1>1 DEF Depth
<1>2. CASE ~popped
  BY <1>2 DEF Depth
<1> QED
  BY <1>1, <1>2

LEMMA AskedKept ==
  ASSUME queue'[0] = queue[0], Unfinished(0)' <=> Unfinished(0),
         Committing(0, "popFront")' <=> Committing(0, "popFront")
  PROVE  Asked' <=> Asked
BY DEF Asked, RequestLeft

\* What a worker does on its own moves arrays between memory and disk, and
\* between a slot and a file, but never on or off the stack.
LEMMA CommonDepth ==
  ASSUME IInv, OrderInv, NEW w \in Workers, CommonStep(w) \/ SpuriousWake(w), UNCHANGED ownerVars
  PROVE  Depth' = Depth /\ array' = array
<1>0. /\ pc \in [Workers -> PcStates] /\ task \in [Workers -> Task] /\ queue \in [Workers -> Seq(Task)]
      /\ 0 \in Workers /\ 1 \in Workers /\ w \in {0, 1}
      /\ count' = count /\ popped' = popped /\ array' = array
  BY StateTypes DEF TypeOKCommon, ownerVars, Workers
<1>1. ASSUME Asked' <=> Asked PROVE Depth' = Depth
  BY <1>0, <1>1, DepthKept
<1>2. CASE Exit(w) \/ Doze(w) \/ FallAsleep(w) \/ Acquire(w) \/ Test(w) \/ Block(w)
           \/ Notify(w) \/ FinishDisk(w) \/ SpuriousWake(w)
  <2>1. queue' = queue /\ task' = task
    BY <1>2 DEF Exit, Doze, FallAsleep, Acquire, Test, Block, Notify, FinishDisk, SpuriousWake
  <2>2. /\ Unfinished(0)' <=> Unfinished(0)
        /\ pc'[0] = "commit" <=> pc[0] = "commit"
    <3>1. CASE Notify(w)
      BY <1>0, <3>1 DEF Notify, Unfinished, Started
    <3>2. CASE ~Notify(w)
      BY <1>0, <1>2, <3>2
         DEF Exit, Doze, FallAsleep, Acquire, Test, Block, FinishDisk, SpuriousWake, Unfinished, Started
    <3> QED
      BY <3>1, <3>2
  <2>3. Asked' <=> Asked
    BY <2>1, <2>2, AskedKept DEF Committing
  <2> QED
    BY <1>0, <1>1, <2>3
<1>3. CASE TakeTask(w)
  <2>1. CASE w = 0
    <3>1. RequestLeft /\ ~Committing(0, "popFront")
      BY <1>3, <2>1 DEF TakeTask, RequestLeft, Committing
    <3>2. pc'[0] = "acquire"
      BY <1>0, <1>3, <2>1 DEF TakeTask
    <3>3. RequestLeft' /\ ~Committing(0, "popFront")'
      BY <3>2 DEF RequestLeft, Unfinished, Started, Committing
    <3> QED
      BY <1>0, <1>1, <3>1, <3>3 DEF Asked
  <2>2. CASE w = 1
    <3>1. queue'[0] = queue[0] /\ pc'[0] = pc[0] /\ task'[0] = task[0]
      BY <1>0, <1>3, <2>2 DEF TakeTask
    <3>2. Asked' <=> Asked
      BY <3>1, AskedKept DEF Unfinished, Committing
    <3> QED
      BY <1>0, <1>1, <3>2
  <2> QED
    BY <1>0, <2>1, <2>2
<1>4. CASE TransferToDisk(w) \/ TransferFromDisk(w)
  <2>1. queue' = queue /\ task' = task /\ pc[w] = "transfer"
        /\ task[w].op \in {"hostToDisk", "diskToHost"}
        /\ (pc' = pc \/ pc' = [pc EXCEPT ![w] = "commit"])
    BY <1>4 DEF TransferToDisk, TransferFromDisk
  <2>2. Unfinished(0)' <=> Unfinished(0)
    BY <1>0, <2>1 DEF Unfinished, Started
  <2>3. Committing(0, "popFront")' <=> Committing(0, "popFront")
    BY <1>0, <2>1 DEF Committing
  <2> QED
    BY <1>0, <1>1, <2>1, <2>2, <2>3, AskedKept
<1>5. CASE Commit(w)
  <2>1. queue' = queue /\ task' = task /\ pc[w] = "commit"
        /\ (pc' = pc \/ pc' = [pc EXCEPT ![w] = "notify"])
    BY <1>5 DEF Commit
  <2>2. CASE w = 1 \/ pc' = pc
    <3>1. pc'[0] = pc[0]
      BY <1>0, <2>1, <2>2
    <3>2. Asked' <=> Asked
      BY <2>1, <3>1, AskedKept DEF Unfinished, Committing
    <3> QED
      BY <1>0, <1>1, <3>2
  <2>3. CASE w = 0 /\ pc' = [pc EXCEPT ![0] = "notify"]
    <3>1. Busy(0) /\ pc'[0] = "notify"
      BY <1>0, <2>1, <2>3 DEF Busy
    <3>2. popped => queue[0] = << >> /\ Committing(0, "popFront")
      BY <2>1, <2>3, <3>1, Worker0Busy DEF Committing
    <3>3. popped => ~Asked
      BY <3>2 DEF Asked
    <3>4. popped => ~Asked'
      BY <2>1, <3>1, <3>2 DEF Asked, RequestLeft, Unfinished, Started
    <3> QED
      BY <1>0, <3>3, <3>4, DepthKept
  <2> QED
    BY <1>0, <2>1, <2>2, <2>3
<1> QED
  BY <1>0, <1>2, <1>3, <1>4, <1>5 DEF CommonStep

\* Where an array goes on the stack or off it.
LEMMA DepthStep ==
  ASSUME AsAnnounced, IInv, OrderInv, [Next]_vars
  PROVE  \/ Depth' = Depth /\ array' = array
         \/ Depth' = Depth /\ array' \in Values
         \/ Depth' = Depth + 1 /\ array = Depth + 1 /\ array' = array
         \/ Depth > 0 /\ Depth' = Depth - 1 /\ array' = Depth
<1>0. /\ pc \in [Workers -> PcStates] /\ queue \in [Workers -> Seq(Task)]
      /\ 0 \in Workers /\ 1 \in Workers /\ count \in Nat /\ pushes \in Nat
      /\ Depth \in Nat /\ Held \in Nat /\ Phase /\ Capacity > 0
  BY StateTypes, DepthBounds DEF TypeOKCommon, OrderInv, AsAnnounced
<1>1. CASE UNCHANGED vars
  <2>1. Asked' <=> Asked
    BY <1>1, AskedKept DEF vars, commonVars, Unfinished, Committing
  <2> QED
    BY <1>1, <2>1, DepthKept DEF vars, ownerVars
<1>2. ASSUME NEW w \in Workers, CommonStep(w) \/ SpuriousWake(w), UNCHANGED ownerVars
      PROVE  Depth' = Depth /\ array' = array
  BY <1>2, CommonDepth
<1>3. CASE TransferPushed
  <2>1. ~popped /\ UNCHANGED <<count, popped, array>>
    BY <1>3, Worker0Busy DEF TransferPushed, Busy, ownerVars
  <2> QED
    BY <2>1, DepthKept
<1>4. CASE TransferPopped
  <2>1. popped /\ ~Empty(deque) /\ array' = Held /\ UNCHANGED <<count, popped, queue, task>>
        /\ pc[0] = "transfer" /\ task[0].op = "popFront"
    BY <1>4, PoppedStep DEF TransferPopped
  <2>2. pc'[0] = "commit"
    BY <1>0, <1>4, <2>1 DEF TransferPopped
  <2>3. RequestLeft /\ ~Committing(0, "popFront") /\ Committing(0, "popFront")'
    BY <2>1, <2>2 DEF RequestLeft, Unfinished, Started, Committing
  <2>4. Depth = count + 1 /\ Depth' = count /\ Held = count + 1
    BY <2>1, <2>3 DEF Depth, Asked, Held
  <2> QED
    BY <1>0, <2>1, <2>4
<1>5. CASE FinishPush \/ FinishPop
  <2>1. pc[0] = "finish" /\ UNCHANGED <<count, popped, array, task>>
    BY <1>5 DEF FinishPush, FinishPop, ownerVars
  <2>2. Unfinished(0)' <=> Unfinished(0)
    BY <1>5, WokenStep DEF FinishPush, FinishPop
  <2>3. pc'[0] = "commit" <=> pc[0] = "commit"
    BY <1>0, <1>5, WokenStep DEF FinishPush, FinishPop
  <2>4. queue'[0] = queue[0]
    BY <1>0, <1>5 DEF FinishPush, FinishPop, Enqueued
  <2>5. Asked' <=> Asked
    BY <2>1, <2>2, <2>3, <2>4, AskedKept DEF Committing
  <2> QED
    BY <2>1, <2>5, DepthKept
<1>6. CASE ComputeArray
  <2>1. UNCHANGED <<count, popped, queue, pc, task>> /\ array' = pushes + 1 /\ pushes < PushCount
    BY <1>6 DEF ComputeArray, commonVars
  <2>2. array' \in Values
    <3>1. pushes + 1 \in 1 .. PushCount
      BY <1>0, <2>1, Constants
    <3> QED
      BY <2>1, <3>1, ArrayAssumption
  <2>3. Asked' <=> Asked
    BY <2>1, AskedKept DEF Unfinished, Committing
  <2> QED
    BY <2>1, <2>2, <2>3, DepthKept
<1>7. CASE PushAsync
  <2>1. owner = "push" /\ ~popped /\ ~popped' /\ count' = count + 1 /\ array' = array
    BY <1>0, <1>7 DEF PushAsync, Phase, Popping
  <2>2. array = count + 1
    BY <1>0, <2>1 DEF Phase, Pushing
  <2>3. Depth = count /\ Depth' = count + 1
    BY <2>1 DEF Depth
  <2> QED
    BY <2>1, <2>2, <2>3
<1>8. CASE PopAsync
  <2>1. owner = "pop" /\ popped' /\ count' = count - 1 /\ UNCHANGED <<array, task>>
        /\ queue' = Enqueued(0, [op |-> "popFront", id |-> count - 1]) /\ pc' = Awoken(pc, {0})
    BY <1>8 DEF PopAsync
  <2>2. Idle0
    BY <2>1, StateTypes DEF OneRequest
  <2>3. ~RequestLeft /\ pc[0] # "commit"
    BY <2>2, UnfinishedBusy DEF Idle0, RequestLeft, Busy
  <2>4. pc'[0] # "commit"
    BY <1>0, <2>1, <2>3, WokenStep
  <2>5. queue'[0] # << >>
    <3> DEFINE t == [op |-> "popFront", id |-> count - 1]
    <3>1. queue'[0] = Append(queue[0], t)
      BY <1>0, <2>1 DEF Enqueued
    <3>2. queue[0] = << >> /\ Append(<< >>, t) # << >>
      BY <2>2 DEF Idle0
    <3> QED
      BY <3>1, <3>2
  <2>6. Depth = count
    BY <2>3 DEF Depth, Asked
  <2>7. Asked'
    BY <2>4, <2>5 DEF Asked, RequestLeft, Committing
  <2>8. Depth' = count
    <3>1. Depth' = count - 1 + 1
      BY <2>1, <2>7 DEF Depth
    <3> QED
      BY <1>0, <3>1
  <2> QED
    BY <2>1, <2>6, <2>8
<1>9. CASE PopPrelude \/ DrainQueue(0, "drain0", "drain1") \/ DrainQueue(1, "drain1", "pop")
           \/ PopWait \/ Stop \/ Join
  <2>1. UNCHANGED <<count, popped, queue, pc, task, array>>
    BY <1>9 DEF PopPrelude, DrainQueue, PopWait, Stop, Join, commonVars
  <2>2. Asked' <=> Asked
    BY <2>1, AskedKept DEF Unfinished, Committing
  <2> QED
    BY <2>1, <2>2, DepthKept
<1>10. CASE NotifyWorkers
  <2>1. UNCHANGED <<count, popped, queue, task, array>> /\ pc' = Awoken(pc, Workers)
    BY <1>10 DEF NotifyWorkers
  <2>2. /\ Unfinished(0)' <=> Unfinished(0)
        /\ pc'[0] = "commit" <=> pc[0] = "commit"
    BY <1>0, <2>1, WokenStep
  <2>3. Asked' <=> Asked
    BY <2>1, <2>2, AskedKept DEF Committing
  <2> QED
    BY <2>1, <2>3, DepthKept
<1> QED
  BY <1>1, <1>2, <1>3, <1>4, <1>5, <1>6, <1>7, <1>8, <1>9, <1>10
     DEF Next, Ended, OwnerStep, WorkerStep, Spurious

\* The storage is a stack for the owner: a push puts the array on top at once,
\* a pop delivers the top, and no transfer between memory and disk reorders,
\* drops or duplicates a buffer, whatever the number of arrays and of buffers.
THEOREM AlwaysAStack ==
  ASSUME AsAnnounced
  PROVE  Spec => IsLifoStack
<1> DEFINE stack == PendingPushes \o InMemory \o BelowMemory
<1>1. Init => IInv /\ OrderInv
  BY InitIInv, InitOrder
<1>2. IInv /\ OrderInv /\ [Next]_vars => IInv' /\ OrderInv'
  BY StepIInv, StepOrder
<1>3. IInv /\ OrderInv => stack = Down(Depth, 0) /\ Depth \in Nat
  BY StackRun, DepthBounds
<1>4. (IInv /\ OrderInv => stack = Down(Depth, 0) /\ Depth \in Nat)'
  BY <1>3, PTL
<1>5. Init => stack = << >> /\ array \notin Values
  <2> SUFFICES ASSUME Init PROVE stack = << >> /\ array \notin Values
    OBVIOUS
  <2>1. stack = Down(Depth, 0)
    BY <1>1, <1>3
  <2>2. Depth = 0 /\ array = 0
    BY DEF Init, InitCommon, Depth, Nothing
  <2>3. 0 \notin Values
    BY ValuesAssumption
  <2> QED
    BY <2>1, <2>2, <2>3, DownNothing
<1>6. ASSUME IInv, OrderInv, [Next]_vars
      PROVE  [Stack!Next]_<<stack, array>>
  <2> DEFINE n == Depth
             m == Depth'
  <2>1. stack = Down(n, 0) /\ n \in Nat /\ stack' = Down(m, 0) /\ m \in Nat
    <3>1. IInv' /\ OrderInv'
      BY <1>2, <1>6
    <3>2. stack = Down(n, 0) /\ n \in Nat
      BY <1>3, <1>6
    <3>3. Down(Depth, 0)' = Down(m, 0)
      BY DEF Down
    <3>4. stack' = Down(m, 0) /\ m \in Nat
      BY <1>4, <3>1, <3>3
    <3> QED
      BY <3>2, <3>4
  <2>2. \/ m = n /\ array' = array
        \/ m = n /\ array' \in Values
        \/ m = n + 1 /\ array = n + 1 /\ array' = array
        \/ n > 0 /\ m = n - 1 /\ array' = n
    BY <1>6, DepthStep
  <2> HIDE DEF n, m, stack
  <2>3. CASE m = n /\ array' = array
    BY <2>1, <2>3
  <2>4. CASE m = n /\ array' \in Values
    <3>1. stack' = stack
      BY <2>1, <2>4
    <3> QED
      BY <2>4, <3>1 DEF Stack!Next, Stack!Compute, stack
  <2>5. CASE m = n + 1 /\ array = n + 1 /\ array' = array
    <3>1. m \in Nat /\ 0 \in Nat /\ 0 < m /\ m - 1 = n
      BY <2>1, <2>5
    <3>2. << m >> \o Down(m - 1, 0) = Down(m, 0)
      BY <3>1, DownEnds
    <3>3. stack' = << array >> \o stack
      BY <2>1, <2>5, <3>1, <3>2
    <3> QED
      BY <2>5, <3>3 DEF Stack!Next, Stack!Push, stack
  <2>6. CASE n > 0 /\ m = n - 1 /\ array' = n
    <3>1. n \in Nat /\ 0 \in Nat /\ 0 < n
      BY <2>1, <2>6
    <3>2. Down(n, 0) # << >> /\ Head(Down(n, 0)) = n /\ Tail(Down(n, 0)) = Down(n - 1, 0)
      BY <3>1, DownEnds
    <3>3. stack # << >> /\ array' = Head(stack) /\ stack' = Tail(stack)
      BY <2>1, <2>6, <3>2
    <3> QED
      BY <3>3 DEF Stack!Next, Stack!Pop, stack
  <2> QED
    BY <2>2, <2>3, <2>4, <2>5, <2>6
<1>7. Init => Stack!Init
  BY <1>5 DEF Stack!Init
<1>8. IInv /\ OrderInv /\ [Next]_vars => [Stack!Next]_<<stack, array>>
  BY <1>6
<1> QED
  BY <1>1, <1>2, <1>7, <1>8, PTL DEF Spec, IsLifoStack, Stack!Spec
=============================================================================
