-------------------------- MODULE LifoCudaInvariant --------------------------
(***************************************************************************)
(* The inductive invariant of LifoStorageCuda from which LifoCuda_proofs   *)
(* derives that the storage is a stack.  The i-th array holds i, and its   *)
(* buffer has index -i in whichever queue it is, and id i - 1 on disk: the *)
(* invariant says how far the indices of the queues have come, and where   *)
(* every buffer is while a copy or a transfer moves it.                    *)
(***************************************************************************)
EXTENDS CudaProperties

(* Where the threads are.                                                    *)

Begun  == {"acquire", "test", "blocking", "blocked", "transfer"}
Ending == {"notify", "notifyNext", "finish"}
Unfinished(t) == pc[t] \in Begun \cup {"commit"}
Busy(t)       == Unfinished(t) \/ pc[t] \in Ending
Inside(t)     == pc[t] \in {"test", "blocking", "transfer", "commit"}

Places == Begun \cup {"commit"} \cup Ending \cup
          {"consume", "dozing", "asleep", "exited",
           "idle", "push", "drain0", "drain1", "pop", "stop", "join", "done"}

OwnerOps == {"emplaceFront", "popFront"}
MoveOps  == {"deviceToHost", "hostToDevice"}
DiskOps  == {"hostToDisk", "diskToHost"}
TaskOf(ops) == [op : ops, id : BufferIds]
NoTask == [op |-> "none", id |-> 0]

DeviceType == [begin : Int, end : Int, slot : [Device!Slots -> Int]]
HostType   == [begin : Int, end : Int, slot : [Host!Slots -> Int]]

MemoryTypes ==
    /\ device \in DeviceType /\ host \in HostType
    /\ disk \in [BufferIds -> Int] /\ array \in Int
ControlTypes ==
    /\ queue = [w \in Workers |-> queue[w]] /\ task = [t \in Threads |-> task[t]]
    /\ queue[0] \in Seq(TaskOf(MoveOps)) /\ queue[1] \in Seq(TaskOf(DiskOps))
    /\ task[0] \in TaskOf(MoveOps) \cup {NoTask} /\ task[1] \in TaskOf(DiskOps) \cup {NoTask}
    /\ task[Owner] \in TaskOf(OwnerOps) \cup {NoTask}
    /\ \A t \in Threads : Busy(t) => task[t] # NoTask
    /\ pc \in [Threads -> Places]
    /\ mutex \in [Mutexes -> Threads \cup {Free}]
    /\ waits \in [Threads -> {"none", "room", "entry"}]
    /\ pushes \in Nat /\ count \in Nat /\ toHost \in Nat /\ toDisk \in Nat
    /\ popped \in BOOLEAN /\ continue \in BOOLEAN /\ failed \in BOOLEAN

\* A thread holds the mutexes of its operation while it is inside, and no others.
Holds ==
    \A t \in Threads :
        /\ Inside(t) => \A m \in Locks(task[t].op) : mutex[m] = t
        /\ ~Inside(t) => \A m \in Mutexes : mutex[m] # t

\* What an operation has seen of the sizes remains true until it moves an
\* index, because the others can only move it the other way.
CommitSafe(op) ==
    /\ op = "emplaceFront" => ~Device!Full(device)
    /\ op \in {"popFront", "deviceToHost"} => ~Device!Empty(device)
    /\ op = "hostToDevice" => ~Host!Empty(host)
    /\ op = "diskToHost" => ~Host!Full(host)
Sizes ==
    /\ Device!Size(device) \in 0 .. DeviceCapacity /\ Host!Size(host) \in 0 .. HostCapacity
    /\ \A t \in Threads :
          /\ pc[t] = "transfer" => ~NeedsRoom(task[t].op) /\ ~NeedsEntry(task[t].op)
          /\ pc[t] = "commit" => CommitSafe(task[t].op)
-----------------------------------------------------------------------------
(* How far the buffers have gone.  A task that goes up or down takes the     *)
(* number of buffers pushed, moved to the host or written from Before to     *)
(* After; the tasks of a queue follow one another.                           *)

Ups == {"emplaceFront", "deviceToHost", "hostToDisk"}
Before(t) == IF t.op \in Ups THEN t.id ELSE t.id + 1
After(t)  == IF t.op \in Ups THEN t.id + 1 ELSE t.id

Level(t) == IF Unfinished(t) THEN Before(task[t]) ELSE After(task[t])
Moving   == pc[0] = "commit"

Indices ==
    /\ device.begin = -Level(Owner)
    /\ device.end = -1 - (IF Moving THEN task[0].id ELSE Level(0))
    /\ host.begin = -(IF Moving THEN task[0].id + 1 ELSE Level(0))
    /\ host.end = -1 - Level(1)

Follow(tasks, from, to) ==
    /\ tasks = << >> => from = to
    /\ tasks # << >> => Before(tasks[1]) = from /\ After(tasks[Len(tasks)]) = to
    /\ \A i \in 1 .. Len(tasks) - 1 : After(tasks[i]) = Before(tasks[i + 1])

Orders ==
    /\ count = After(task[Owner])
    /\ Follow(queue[0], After(task[0]), toHost)
    /\ Follow(queue[1], After(task[1]), toDisk)

\* How many of the arrays are moved to the host, and how many of them to disk
AtLeast0(n) == IF n < 0 THEN 0 ELSE n
Moved   == AtLeast0(MaxBuffers - DeviceCapacity)
Written == AtLeast0(MaxBuffers - DeviceCapacity - HostCapacity)

\* The owner pushes all arrays, and the moves of all of them have been asked for
\* and begun when the first pop asks for a buffer back.
Accepted == IF Busy(Owner) THEN count - 1 ELSE count
Pushing ==
    /\ task[Owner].op # "popFront"
    /\ pc[Owner] \notin {"stop", "join", "done"}
    /\ pushes <= MaxBuffers /\ array = pushes
    /\ pushes = IF pc[Owner] = "push" THEN count + 1 ELSE count
    /\ pc[Owner] \in {"drain0", "drain1", "pop"} => pushes = MaxBuffers
    /\ pc[Owner] \in {"drain1", "pop"} => queue[0] = << >>
    /\ toHost = IF Accepted <= Moved THEN Accepted ELSE Moved
    /\ task[0].op # "hostToDevice"
    /\ \A i \in 1 .. Len(queue[0]) : queue[0][i].op = "deviceToHost"
Popping ==
    /\ task[Owner].op = "popFront"
    /\ pushes = MaxBuffers
    /\ pc[Owner] \notin {"push", "drain0", "drain1"}
    /\ pc[Owner] = "pop" => count > 0
    /\ task[0].op # "hostToDevice" => After(task[0]) = Moved
    /\ \A i \in 1 .. Len(queue[0]) : queue[0][i].op = "hostToDevice"
Phase == IF popped THEN Popping ELSE Pushing

\* All writes are done before the first buffer is moved back to the device; a
\* buffer to be written has been copied to the host queue.
Writing ==
    /\ toDisk <= IF Busy(0) THEN task[0].id ELSE After(task[0])
    /\ \A i \in 1 .. Len(queue[1]) :
          queue[1][i].op = "hostToDisk" /\ queue[1][i].id < Written /\ queue[1][i].id < Level(0)
    /\ Unfinished(1) =>
          task[1].op = "hostToDisk" /\ task[1].id < Written /\ task[1].id < Level(0)
Reading ==
    /\ \A i \in 1 .. Len(queue[1]) : queue[1][i].op = "diskToHost"
    /\ Unfinished(1) => task[1].op = "diskToHost"
Writes == toDisk <= Written /\ IF task[0].op = "hostToDevice" THEN Reading ELSE Writing

\* Without a host queue nothing is moved.
HostUsed ==
    HostCapacity = 0 =>
        /\ toHost = 0 /\ queue[0] = << >> /\ queue[1] = << >> /\ ~Busy(0) /\ ~Busy(1)
        /\ failed \/ count = 0 \/ DeviceCapacity >= MaxBuffers

ControlInv == Indices /\ Orders /\ Phase /\ Writes /\ HostUsed
-----------------------------------------------------------------------------
(* What the stream and the memories hold.                                    *)

Store == [kind |-> "store", id |-> count - 1, slot |-> Device!SlotOf(-count)]
Load  == [kind |-> "load", id |-> count, slot |-> Device!SlotOf(-(count + 1))]
Fill  == [kind |-> "fill", id |-> task[0].id, slot |-> Device!SlotOf(-(task[0].id + 1))]

StorePending == stream = << Store >>
LoadPending  == stream \in {<< Load >>, << Load, Fill >>, << Fill, Load >>}
FillPending  == stream \in {<< Fill >>, << Load, Fill >>, << Fill, Load >>}

\* The device overwrites what a pop reads only after it has been read, or with
\* the buffer that the pop is to read.
StreamInv ==
    /\ stream = << >> \/ StorePending \/ LoadPending \/ FillPending
    /\ StorePending => ~popped /\ count > 0 /\ pc[Owner] \in {"commit", "idle"} \cup Ending
    /\ FillPending => Committing(0, "hostToDevice")
    /\ LoadPending =>
          /\ popped /\ pc[Owner] \in {"commit"} \cup Ending
          /\ stream = << Fill, Load >> =>
                task[0].id <= count /\ count - task[0].id < DeviceCapacity
          /\ ~(stream = << Fill, Load >> /\ task[0].id = count) =>
                device.slot[Device!SlotOf(-(count + 1))] = count + 1

\* The entries of the device queue, and the one a push has started to write
OnDeviceAt(i) ==
    \/ i \in device.begin .. device.end
    \/ i = device.begin - 1 /\ Committing(Owner, "emplaceFront")
DeviceHolds ==
    \A i \in device.begin - 1 .. device.end : OnDeviceAt(i) =>
        \/ device.slot[Device!SlotOf(i)] = -i
        \/ StorePending /\ i = -count
        \/ FillPending /\ i = device.end

\* Those of the host queue, but for the one that is being copied from the device,
\* and the one that has been read from disk
OnHostAt(i) ==
    \/ i \in host.begin .. host.end /\ ~(i = host.begin /\ Committing(0, "deviceToHost"))
    \/ i = host.end + 1 /\ Committing(1, "diskToHost")
HostHolds ==
    \A i \in host.begin .. host.end + 1 : OnHostAt(i) => host.slot[Host!SlotOf(i)] = -i

FilesBelow == IF Committing(1, "hostToDisk") THEN task[1].id + 1
              ELSE IF Committing(1, "diskToHost") THEN task[1].id ELSE Level(1)
DiskHolds == \A id \in BufferIds : disk[id] = IF id < FilesBelow THEN id + 1 ELSE Nothing

DataInv == StreamInv /\ DeviceHolds /\ HostHolds /\ DiskHolds

Inv == MemoryTypes /\ ControlTypes /\ Holds /\ Sizes /\ ControlInv /\ DataInv
=============================================================================
