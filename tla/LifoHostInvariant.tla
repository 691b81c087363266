-------------------------- MODULE LifoHostInvariant --------------------------
(***************************************************************************)
(* The inductive invariant of LifoStorageHost from which LifoHost_proofs   *)
(* derives TypeOK and TransfersApart, and its strengthening, from which it *)
(* derives the rest.                                                       *)
(***************************************************************************)
EXTENDS LifoHostProperties

HostTask == [op : {"emplaceFront", "popFront"}, id : BufferIds]
DiskTask == [op : {"hostToDisk", "diskToHost"}, id : BufferIds]

\* A worker is busy from the moment it takes a task to the end of the task.
Busy(w) == pc[w] \notin {"consume", "dozing", "asleep", "exited"}

\* What worker 0 still has to do of this operation for the buffer of this id.
Outstanding(op, id) ==
    \/ queue[0] = << [op |-> op, id |-> id] >>
    \/ Busy(0) /\ task[0] = [op |-> op, id |-> id]

Idle0 == queue[0] = << >> /\ ~Busy(0)

\* The owner has at most one request pending: worker 0 has one task or none,
\* and while it has one the owner is waiting for its future.
OneRequest ==
    /\ queue[0] = << >> \/ ~Busy(0)
    /\ \/ Idle0
       \/ /\ owner = "idle" /\ count > 0
          /\ Outstanding("emplaceFront", count - 1)
          /\ pushFuture[count - 1] = "pending"
       \/ /\ owner = "popWait" /\ count < MaxBuffers
          /\ Outstanding("popFront", count)
          /\ popFuture[count] = "pending"

Counts ==
    /\ count <= pushes
    /\ owner = "push" /\ ~failed => count < pushes
    /\ owner \in {"drain0", "drain1", "pop"} => count > 0

\* Buffers sent to disk are buffers in the storage, the requested one included.
DiskCount ==
    \/ Idle0 /\ toDisk <= count
    \/ ~Idle0 /\ owner = "idle" /\ toDisk < count
    \/ ~Idle0 /\ owner = "popWait" /\ toDisk <= count + 1

Worker1Tasks == queue[1] \in Seq(DiskTask) /\ task[1] \in DiskTask

\* A worker holds the two mutexes of its operation while it is inside.
Inside(w) == pc[w] \in {"test", "blocking", "transfer", "commit"}
Holds ==
    \A w \in Workers :
        /\ Inside(w) => \A m \in Locks(task[w].op) : mutex[m] = w
        /\ ~Inside(w) => \A m \in Mutexes : mutex[m] # w

\* What an operation has seen of the size of the queue remains true until it
\* moves an index, because the other worker can only move it the other way.
SizeKept ==
    /\ Size(deque) \in 0 .. Capacity
    /\ \A w \in Workers :
        /\ Filling(w) => Size(deque) < Capacity
        /\ pc[w] \in {"transfer", "commit"} /\ task[w].op = "popFront" => Size(deque) > 0
        /\ pc[w] = "commit" /\ task[w].op = "hostToDisk" => Size(deque) > 0

RequestInv == TypeOK /\ Counts /\ OneRequest /\ DiskCount /\ Worker1Tasks
IInv == RequestInv /\ Holds /\ SizeKept
-----------------------------------------------------------------------------
(* Where every array is, when as many arrays are pushed as were announced    *)
(* and all of them before the first pop.  The i-th array holds i and is      *)
(* moved to index -i of the queue, where it comes back from disk.            *)

AsAnnounced == PushCount = MaxBuffers /\ ~Interleaved /\ Capacity > 0

\* What the operation of worker w has not done before it moves an index.
Unfinished(w) == pc[w] \in Started \cup {"commit"}

\* A request of the owner that has not moved an index yet; the buffers in the
\* queue and below it; those of them that are below it.
RequestLeft == queue[0] # << >> \/ Unfinished(0)
Held == IF ~RequestLeft THEN count ELSE IF popped THEN count + 1 ELSE count - 1
DiskLeft == Len(queue[1]) + (IF Unfinished(1) THEN 1 ELSE 0)
Below == IF popped THEN toDisk + DiskLeft ELSE toDisk - DiskLeft

Indices == deque.begin + Held = 0 /\ deque.end + Below = -1 /\ Below \in Nat

Committing(w, op) == pc[w] = "commit" /\ task[w].op = op
Filled(i) ==
    \/ i \in deque.begin .. deque.end
    \/ i = deque.begin - 1 /\ Committing(0, "emplaceFront")
    \/ i = deque.end + 1 /\ Committing(1, "diskToHost")
SlotsHold == \A i \in deque.begin - 1 .. deque.end + 1 : Filled(i) => deque.slot[SlotOf(i)] = -i

OnDisk == IF Committing(1, "hostToDisk") THEN Below + 1
          ELSE IF Committing(1, "diskToHost") THEN Below - 1 ELSE Below
DiskHolds == \A id \in BufferIds : disk[id] = IF id < OnDisk THEN id + 1 ELSE Nothing

\* Worker 1 writes the files in the order of their ids and reads them backwards.
TaskAt(i) == IF popped THEN [op |-> "diskToHost", id |-> toDisk + Len(queue[1]) - i]
                       ELSE [op |-> "hostToDisk", id |-> toDisk - Len(queue[1]) + i - 1]
DiskOrder ==
    /\ \A i \in 1 .. Len(queue[1]) : queue[1][i] = TaskAt(i)
    /\ Unfinished(1) => task[1] = TaskAt(0)

\* The owner pushes all arrays, waits until the last one is in the queue, and pops.
Pushing ==
    /\ owner \in {"idle", "push", "drain0", "drain1", "pop"}
    /\ pushes = IF owner = "push" THEN count + 1 ELSE count
    /\ array = pushes
    /\ owner \in {"drain0", "drain1", "pop"} => count = MaxBuffers /\ Idle0
    /\ toDisk > 0 => toDisk <= MaxBuffers - Capacity
    /\ toDisk <= IF Idle0 THEN count ELSE count - 1
Popping ==
    /\ owner \notin {"push", "drain0", "drain1"}
    /\ pushes = MaxBuffers /\ count < MaxBuffers
    /\ Idle0 \/ owner = "popWait"
    /\ \A id \in count .. MaxBuffers - 1 : popFuture[id] # "invalid"
Phase == IF popped THEN Popping ELSE Pushing

OrderInv == ~failed /\ Indices /\ SlotsHold /\ DiskHolds /\ DiskOrder /\ Phase
=============================================================================
