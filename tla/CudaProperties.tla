---------------------------- MODULE CudaProperties ----------------------------
(***************************************************************************)
(* What the LIFO storage over device, host and disk must do, stated on the *)
(* behaviours of LifoStorageCuda.                                          *)
(***************************************************************************)
EXTENDS LifoStorageCuda

(* The stack the storage stands for, read from where the buffers are.        *)

Committing(t, op) == pc[t] = "commit" /\ task[t].op = op

\* What a slot of the device will hold when the first n copies of the stream
\* have been executed
InSlot(slot, n) ==
    LET written(kind) == \E i \in 1 .. n : stream[i].kind = kind /\ stream[i].slot = slot
    IN  IF written("store") THEN array
        ELSE IF written("fill") THEN Host!FrontEntry(host) ELSE device.slot[slot]

\* A pop whose copy has not been executed, although its index may have moved
PendingPop ==
    IF \E i \in DOMAIN stream : stream[i].kind = "load"
    THEN LET i == CHOOSE j \in DOMAIN stream : stream[j].kind = "load"
         IN  << InSlot(stream[i].slot, i - 1) >>
    ELSE << >>

\* popFront() moves its index after it has started, and may have ended, its copy.
OnDevice ==
    LET all == [i \in 1 .. Device!Size(device) |->
                    InSlot(Device!SlotOf(device.begin + i - 1), Len(stream))]
    IN  IF Committing(Owner, "popFront") THEN Tail(all) ELSE all

\* While worker 0 moves a buffer it is the front of the host queue and the back
\* of the device queue.
OnHost ==
    LET all == Host!Contents(host)
    IN  IF Committing(0, "deviceToHost") \/ Committing(0, "hostToDevice") THEN Tail(all) ELSE all

\* The buffer that diskToHost() has read and not linked yet, then the files from
\* the last to the first, less the one hostToDisk() has written and not unlinked
\* from the queue yet; their ids are those from 0 on.
Files ==
    {id \in BufferIds : disk[id] # Nothing}
        \ (IF Committing(1, "hostToDisk") THEN {task[1].id} ELSE {})

OnDisk ==
    (IF Committing(1, "diskToHost") THEN << host.slot[Host!NextBackSlot(host)] >> ELSE << >>)
    \o [i \in 1 .. Cardinality(Files) |-> disk[Cardinality(Files) - i]]

\* Through the stream and all transfers the storage is a stack: a push puts the
\* array as it was when pushed on top, a pop delivers the top, and nothing is
\* lost, duplicated or read before it has been copied ("store in a LIFO way
\* buffers, first on device, then on host, then on disk").
Stack == INSTANCE LifoStack WITH stack <- PendingPop \o OnDevice \o OnHost \o OnDisk
IsDeviceStack == Stack!Spec
-----------------------------------------------------------------------------
(* Wake-ups.                                                                 *)

\* A thread waits although what it waits for holds, and nobody will notify it.
LostWakeup ==
    \E t \in Threads :
        /\ pc[t] = "blocked"
        /\ waits[t] = "room" => ~NeedsRoom(task[t].op)
        /\ waits[t] = "entry" => ~NeedsEntry(task[t].op)
        /\ \A v \in Threads : pc[v] \in {"notify", "notifyNext"} =>
              LET left == IF pc[v] = "notify" THEN Notices(task[v].op)
                          ELSE Tail(Notices(task[v].op))
              IN  WaitsOn(task[t].op, waits[t]) \notin ToSet(left)

\* A worker has gone to sleep after the notifications of the destructor.
LostStop == pc[Owner] = "join" /\ \E w \in Workers : pc[w] = "asleep"

\* Lost wake-ups are the only way for the storage to hang: no deadlock on the
\* mutexes of two queues ("deadlock can occur if frontMutex is taken after an
\* emplaceMutex"), no transfer that waits for one behind it in a task queue, and
\* no GEOS_ERROR of a queue or of a file, which would end the run.
OnlyLostWakeupsHangIt == []<>(pc[Owner] = "done" \/ LostWakeup \/ LostStop)
=============================================================================
