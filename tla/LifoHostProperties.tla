------------------------- MODULE LifoHostProperties -------------------------
(***************************************************************************)
(* What the LIFO storage on host and disk must do, stated on the states    *)
(* and behaviours of LifoStorageHost.                                      *)
(***************************************************************************)
EXTENDS LifoStorageHost, FiniteSets

TypeOK ==
    /\ TypeOKCommon
    /\ owner \in OwnerStates
    /\ array \in Arrays
    /\ pushes \in 0 .. PushCount
    /\ count \in 0 .. MaxBuffers
    /\ toDisk \in 0 .. MaxBuffers
    /\ popped \in BOOLEAN
    /\ pushFuture \in [BufferIds -> Futures]
    /\ popFuture \in [BufferIds -> Futures]
-----------------------------------------------------------------------------
(* The stack the storage stands for, read from where the buffers are.        *)

Running(w, op, states) == task[w].op = op /\ pc[w] \in states
Started == {"acquire", "test", "blocking", "blocked", "transfer"}

IsPush(t) == t.op = "emplaceFront"

\* Pushes whose task has not copied the array yet, then the one that has
\* copied it into the slot before the front and not moved m_begin yet.
PendingPushes ==
    LET waiting == Cardinality({i \in DOMAIN queue[0] : IsPush(queue[0][i])})
                   + (IF Running(0, "emplaceFront", Started) THEN 1 ELSE 0)
    IN  [i \in 1 .. waiting |-> array]
        \o (IF Running(0, "emplaceFront", {"commit"})
            THEN << deque.slot[NextFrontSlot(deque)] >> ELSE << >>)

\* popFront() has delivered the front before it moves m_begin.
InMemory == IF Running(0, "popFront", {"commit"}) THEN Tail(Contents(deque))
                                                  ELSE Contents(deque)

\* The buffers below the queue: one that diskToHost() has read and not linked
\* yet, then the files from the last to the first, less the one that
\* hostToDisk() has written and not unlinked from the queue yet.  The files are
\* those of the ids from 0 on.
Files ==
    {id \in BufferIds : disk[id] # Nothing}
        \ (IF Running(1, "hostToDisk", {"commit"}) THEN {task[1].id} ELSE {})

BelowMemory ==
    (IF Running(1, "diskToHost", {"commit"})
     THEN << deque.slot[NextBackSlot(deque)] >> ELSE << >>)
    \o [i \in 1 .. Cardinality(Files) |-> disk[Cardinality(Files) - i]]

\* Through all asynchronous transfers the storage is a stack: a push puts the
\* array as it was when pushed on top, a pop delivers the top, and no transfer
\* between memory and disk reorders, drops or duplicates a buffer.
Stack == INSTANCE LifoStack WITH stack <- PendingPushes \o InMemory \o BelowMemory
IsLifoStack == Stack!Spec
-----------------------------------------------------------------------------
\* No GEOS_ERROR of the queue or of the files, and no exception of a future,
\* is ever reached ("Can't pop back from empty queue", "Could not open file").
NoError == ~failed

\* The two workers touch both ends of the queue at the same time: the slot one
\* of them fills is outside the live entries, and no other thread fills it.
FilledSlot(w) == IF task[w].op = "emplaceFront" THEN NextFrontSlot(deque)
                                                ELSE NextBackSlot(deque)
Filling(w) == pc[w] \in {"transfer", "commit"} /\ task[w].op \in Emplacers
LiveSlots == {SlotOf(i) : i \in deque.begin .. deque.end}

TransfersApart ==
    /\ Size(deque) \in 0 .. Capacity
    /\ \A w \in Workers : Filling(w) =>
          /\ FilledSlot(w) \notin LiveSlots
          /\ \A v \in Workers \ {w} : ~Filling(v)

\* "Ensure that all push step are ended" (popAsyncPrelude): once the first pop
\* is asked for, no transfer to disk that a push started is left.
PushStepsEnded ==
    popped => \A w \in Workers :
        /\ \A i \in 1 .. Len(queue[w]) : queue[w][i].op # "hostToDisk"
        /\ ~Running(w, "hostToDisk", Started \cup {"commit"})

-----------------------------------------------------------------------------
(* Wake-ups.                                                                 *)

\* A worker waits although what it waits for holds, and no notification comes.
LostWakeup ==
    \E w \in Workers :
        /\ pc[w] = "blocked" /\ MayProceed(task[w].op)
        /\ \A v \in Workers : pc[v] = "notify" => ~Notifies(task[v].op, task[w].op)

\* A worker has gone to sleep after the notifications of the destructor.
LostStop == owner = "join" /\ \E w \in Workers : pc[w] = "asleep"

\* Every wait for room ends once there is room: m_notFullCond is the
\* "Condition used to notify when queue is not full".
NotFullWakes ==
    \A w \in Workers :
        pc[w] = "blocked" /\ task[w].op \in Emplacers /\ ~Full(deque) ~> pc[w] # "blocked"

\* Lost wake-ups are the only way for the storage to hang: there is no
\* deadlock on the mutexes, on the futures or between the two task queues.
OnlyLostWakeupsHang == []<>(owner = "done" \/ LostWakeup \/ LostStop)
=============================================================================
