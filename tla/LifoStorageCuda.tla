---------------------------- MODULE LifoStorageCuda ----------------------------
(***************************************************************************)
(* The LIFO storage of a build with device buffers                         *)
(* (common/LifoStorageCuda.hpp behind common/LifoStorage.hpp): a queue on  *)
(* the device, below it the queue on the host, below that the disk.  The   *)
(* owner pushes and pops the front of the device queue itself, worker 0    *)
(* moves buffers between the two queues, worker 1 between host and disk.   *)
(*                                                                         *)
(* Every operation takes the mutexes it needs, tests whether there is room *)
(* where it puts a buffer and a buffer where it takes one from, waits or   *)
(* has its first effect ("transfer") and then its second ("commit"), which *)
(* releases the mutexes, and notifies.  Copies to and from the device are  *)
(* asynchronous: the stream of the device queue executes them in order.    *)
(*                                                                         *)
(* The queues are those of FixedSizeDeque, the workers' loop is that of    *)
(* LifoStorageCommon, the owner computes, pushes and pops as in            *)
(* LifoStorageHost, here as many arrays as were announced.  (Operators     *)
(* ending in Early are deliberate errors.)                                 *)
(***************************************************************************)
EXTENDS Integers, SequencesExt

CONSTANTS MaxBuffers,       \* m_maxNumberOfBuffers
          DeviceCapacity,   \* m_deviceDeque.capacity()
          HostCapacity      \* m_hostDeque.capacity()

ASSUME CudaAssumption ==
    MaxBuffers \in Nat \ {0} /\ DeviceCapacity \in Nat \ {0} /\ HostCapacity \in Nat

Device == INSTANCE FixedSizeDeque WITH Capacity <- DeviceCapacity
Host   == INSTANCE FixedSizeDeque WITH Capacity <- HostCapacity

Nothing   == 0                      \* an array nobody wrote to, a file that is not there
Values    == 1 .. MaxBuffers        \* the i-th array computed holds i
BufferIds == 0 .. MaxBuffers - 1
Workers   == {0, 1}
Owner     == 2
Threads   == Workers \cup {Owner}
Free      == 3
Mutexes   == {"device", "host"} \X {"front", "back", "pop", "emplace"}

VARIABLES
    device,     \* m_deviceDeque
    host,       \* m_hostDeque
    disk,       \* what the file of each id holds
    stream,     \* the copies the device has still to execute
    mutex,      \* who holds each mutex of the two queues
    queue,      \* m_task_queue[2]
    task,       \* the operation each thread runs, or ran last
    pc,         \* where each thread is
    waits,      \* the condition its operation waited for last
    array,      \* the owner's array: computed into, pushed from, popped into
    pushes,     \* how many arrays the owner has computed
    count,      \* m_bufferCount
    toHost,     \* m_bufferToHostCount
    toDisk,     \* m_bufferToDiskCount
    popped,     \* m_hasPoppedBefore
    continue,   \* m_continue
    failed      \* a GEOS_ERROR ended the program

deques   == <<device, host, disk, stream>>
counters == <<pushes, count, toHost, toDisk, popped>>
vars == <<deques, mutex, queue, task, pc, waits, array, counters, continue, failed>>

Init ==
    /\ device = Device!NewDeque(Nothing) /\ host = Host!NewDeque(Nothing)
    /\ disk = [id \in BufferIds |-> Nothing]
    /\ stream = << >>
    /\ mutex = [m \in Mutexes |-> Free]
    /\ queue = [w \in Workers |-> << >>]
    /\ task = [t \in Threads |-> [op |-> "none", id |-> 0]]
    /\ pc = [t \in Threads |-> IF t = Owner THEN "idle" ELSE "consume"]
    /\ waits = [t \in Threads |-> "none"]
    /\ array = Nothing
    /\ pushes = 0 /\ count = 0 /\ toHost = 0 /\ toDisk = 0
    /\ popped = FALSE /\ continue = TRUE /\ failed = FALSE
-----------------------------------------------------------------------------
(* The operations: their mutexes, where they put and take a buffer, whom     *)
(* they notify.                                                              *)

Locks(op) ==
    CASE op = "emplaceFront" -> {"device"} \X {"emplace", "front"}
      [] op = "popFront"     -> {"device"} \X {"pop", "front"}
      [] op = "deviceToHost" -> ({"host"} \X {"emplace", "front"}) \cup ({"device"} \X {"pop", "back"})
      [] op = "hostToDevice" -> ({"device"} \X {"emplace", "back"}) \cup ({"host"} \X {"pop", "front"})
      [] op = "hostToDisk"   -> {"host"} \X {"pop", "back"}
      [] op = "diskToHost"   -> {"host"} \X {"emplace", "back"}

\* hostToDisk() waits for nothing.
NeedsRoom(op) ==
    \/ op \in {"emplaceFront", "hostToDevice"} /\ Device!Full(device)
    \/ op \in {"deviceToHost", "diskToHost"} /\ Host!Full(host)
NeedsEntry(op) ==
    \/ op \in {"popFront", "deviceToHost"} /\ Device!Empty(device)
    \/ op = "hostToDevice" /\ Host!Empty(host)

\* m_notFullCond ("room") and m_notEmptyCond ("entry") of either queue: the one
\* an operation waits on, and those it notifies, in order
WaitsOn(op, condition) ==
    <<condition, IF \/ op \in {"emplaceFront", "popFront"}
                    \/ op = "hostToDevice" /\ condition = "room"
                    \/ op = "deviceToHost" /\ condition = "entry"
                 THEN "device" ELSE "host">>

Notices(op) ==
    CASE op = "emplaceFront" -> << <<"entry", "device">> >>
      [] op = "popFront"     -> << <<"room", "device">> >>
      [] op = "deviceToHost" -> << <<"room", "device">>, <<"entry", "host">> >>
      [] op = "hostToDevice" -> << <<"entry", "device">>, <<"room", "host">> >>
      [] op = "hostToDisk"   -> << <<"room", "host">> >>
      [] op = "diskToHost"   -> << <<"entry", "host">> >>

\* An event has happened when its copy is no longer in the stream.
Pending(kind, id) == \E i \in DOMAIN stream : stream[i].kind = kind /\ stream[i].id = id
-----------------------------------------------------------------------------
(* The steps of an operation.                                                *)

Acquire(t) ==
    /\ pc[t] = "acquire"
    /\ \A m \in Locks(task[t].op) : mutex[m] = Free
    /\ mutex' = [m \in Mutexes |-> IF m \in Locks(task[t].op) THEN t ELSE mutex[m]]
    /\ pc' = [pc EXCEPT ![t] = "test"]
    /\ UNCHANGED <<deques, queue, task, waits, array, counters, continue, failed>>

\* A wait ends when its own predicate holds; the loop around the two waits of
\* emplaceFrontFromBack() then tests both again, room first.
Test(t) ==
    LET op == task[t].op
        condition == IF waits[t] = "entry" /\ NeedsEntry(op) THEN "entry"
                     ELSE IF NeedsRoom(op) THEN "room"
                     ELSE IF NeedsEntry(op) THEN "entry" ELSE "none"
    IN  /\ pc[t] = "test"
        /\ waits' = [waits EXCEPT ![t] = condition]
        /\ pc' = [pc EXCEPT ![t] = IF condition = "none" THEN "transfer" ELSE "blocking"]
        /\ UNCHANGED <<deques, mutex, queue, task, array, counters, continue, failed>>

Release(t) == mutex' = [m \in Mutexes |-> IF mutex[m] = t THEN Free ELSE mutex[m]]

Block(t) ==
    /\ pc[t] = "blocking"
    /\ Release(t)
    /\ pc' = [pc EXCEPT ![t] = "blocked"]
    /\ UNCHANGED <<deques, queue, task, waits, array, counters, continue, failed>>

Unblock(t) ==                                   \* or without a notification
    /\ pc[t] = "blocked"
    /\ pc' = [pc EXCEPT ![t] = "acquire"]
    /\ UNCHANGED <<deques, mutex, queue, task, waits, array, counters, continue, failed>>

\* The first effect, which starts a copy or, between host and disk, makes it;
\* emplace_front() and emplace_back() move their index before the copy ends.
Issue(copy) == stream' = Append(stream, copy)

Transfer(t) ==
    LET op == task[t].op
        id == task[t].id
        error == \/ NeedsRoom(op) \/ NeedsEntry(op)
                 \/ op = "hostToDisk" /\ Host!Empty(host)
                 \/ op = "diskToHost" /\ disk[id] = Nothing
    IN  /\ pc[t] = "transfer"
        /\ failed' = error
        /\ pc' = [pc EXCEPT ![t] = "commit"]
        /\ \/ error /\ UNCHANGED deques
           \/ /\ op = "emplaceFront" /\ ~error
              /\ Issue([kind |-> "store", id |-> id, slot |-> Device!NextFrontSlot(device)])
              /\ UNCHANGED <<device, host, disk>>
           \/ /\ op = "popFront" /\ ~error
              /\ Issue([kind |-> "load", id |-> id, slot |-> Device!FrontSlot(device)])
              /\ UNCHANGED <<device, host, disk>>
           \/ /\ op = "deviceToHost" /\ ~error
              /\ host' = Host!IncFront(host)
              /\ UNCHANGED <<device, disk, stream>>
           \/ /\ op = "hostToDevice" /\ ~error
              /\ Issue([kind |-> "fill", id |-> id, slot |-> Device!NextBackSlot(device)])
              /\ device' = Device!IncBack(device)
              /\ UNCHANGED <<host, disk>>
           \/ /\ op = "hostToDisk" /\ ~error
              /\ disk' = [disk EXCEPT ![id] = Host!BackEntry(host)]
              /\ UNCHANGED <<device, host, stream>>
           \/ /\ op = "diskToHost" /\ ~error
              /\ host' = Host!Write(host, Host!NextBackSlot(host), disk[id])
              /\ disk' = [disk EXCEPT ![id] = Nothing]
              /\ UNCHANGED <<device, stream>>
        /\ UNCHANGED <<mutex, queue, task, waits, array, counters, continue>>

\* deviceToHost() copies in the stream of the host queue, which waits for the
\* event of the push; it and hostToDevice() wait for their copy to end.
CopyEndedEarly(op, id) == op = "hostToDevice" => ~Pending("fill", id)
CopyEnded(op, id) ==
    /\ op = "deviceToHost" => ~Pending("store", id)
    /\ op = "hostToDevice" => ~Pending("fill", id)

\* The second effect: an index moves, which checks it, and the mutexes are
\* released.
Commit(t) ==
    LET op == task[t].op
    IN  /\ pc[t] = "commit" /\ CopyEnded(op, task[t].id)
        /\ device' = CASE op = "emplaceFront" -> Device!IncFront(device)
                       [] op = "popFront"     -> Device!PopFront(device)
                       [] op = "deviceToHost" -> Device!PopBack(device)
                       [] OTHER               -> device
        /\ host' = CASE op = "deviceToHost" ->
                            Host!Write(host, Host!FrontSlot(host), Device!BackEntry(device))
                     [] op = "hostToDevice" -> Host!PopFront(host)
                     [] op = "hostToDisk"   -> Host!PopBack(host)
                     [] op = "diskToHost"   -> Host!IncBack(host)
                     [] OTHER               -> host
        /\ Release(t)
        /\ pc' = [pc EXCEPT ![t] = "notify"]
        /\ failed' = \/ op \in {"popFront", "deviceToHost"} /\ Device!Empty(device)
                     \/ op \in {"hostToDevice", "hostToDisk"} /\ Host!Empty(host)
                     \/ op = "diskToHost" /\ Host!Full(host)
        /\ UNCHANGED <<disk, stream, queue, task, waits, array, counters, continue>>

\* notify_all() on one condition, or on two after one another
Notify(t) ==
    LET notices == Notices(task[t].op)
        now     == IF pc[t] = "notify" THEN 1 ELSE 2
    IN  /\ pc[t] \in {"notify", "notifyNext"}
        /\ pc' = [v \in Threads |->
                IF v = t THEN IF now < Len(notices) THEN "notifyNext" ELSE "finish"
                ELSE IF pc[v] = "blocked" /\ WaitsOn(task[v].op, waits[v]) = notices[now]
                     THEN "acquire" ELSE pc[v]]
        /\ UNCHANGED <<deques, mutex, queue, task, waits, array, counters, continue, failed>>

OperationStep(t) ==
    Acquire(t) \/ Test(t) \/ Block(t) \/ Transfer(t) \/ Commit(t) \/ Notify(t)

\* The device executes its copies in the order of its stream; a "fill" reads
\* the front of the host queue, which stays until the copy has ended.
DeviceCopies ==
    LET copy == Head(stream)
        data == IF copy.kind = "store" THEN array ELSE Host!FrontEntry(host)
    IN  /\ stream # << >>
        /\ stream' = Tail(stream)
        /\ IF copy.kind = "load"
           THEN array' = device.slot[copy.slot] /\ UNCHANGED device
           ELSE device' = Device!Write(device, copy.slot, data) /\ UNCHANGED array
        /\ UNCHANGED <<host, disk, mutex, queue, task, pc, waits, counters, continue, failed>>
-----------------------------------------------------------------------------
(* The workers: wait_and_consume_tasks().                                    *)

Wait(w) ==
    /\ \/ pc[w] = "consume" /\ ~continue /\ pc' = [pc EXCEPT ![w] = "exited"]
       \/ pc[w] = "consume" /\ continue /\ queue[w] = << >> /\ pc' = [pc EXCEPT ![w] = "dozing"]
       \/ pc[w] = "dozing" /\ pc' = [pc EXCEPT ![w] = "asleep"]
    /\ UNCHANGED <<deques, mutex, queue, task, waits, array, counters, continue, failed>>

\* Starting the next operation of a thread
Begin(t, op, id) ==
    /\ task' = [task EXCEPT ![t] = [op |-> op, id |-> id]]
    /\ waits' = [waits EXCEPT ![t] = "none"]

\* A task in a queue, and the workers once its notification is out; the mutex
\* of the queue must be free.
Enqueue(w, op, id, places) ==
    /\ pc[w] # "dozing"
    /\ queue' = [queue EXCEPT ![w] = Append(@, [op |-> op, id |-> id])]
    /\ pc' = [places EXCEPT ![w] = IF @ = "asleep" THEN "consume" ELSE @]

\* hostToDevice() first asks for a buffer from disk.
CallsBackEarly == toDisk > 1
CallsBack      == toDisk > 0

TakeTask(w) ==
    LET t == Head(queue[w])
        taken == [queue EXCEPT ![w] = Tail(@)]
    IN  /\ pc[w] = "consume" /\ continue /\ queue[w] # << >>
        /\ Begin(w, t.op, t.id)
        /\ IF t.op = "hostToDevice" /\ CallsBack
           THEN /\ pc[1] # "dozing"
                /\ queue' = [taken EXCEPT ![1] = Append(@, [op |-> "diskToHost", id |-> toDisk - 1])]
                /\ pc' = [pc EXCEPT ![w] = "acquire",
                                    ![1] = IF @ = "asleep" THEN "consume" ELSE @]
                /\ toDisk' = toDisk - 1
           ELSE /\ queue' = taken /\ pc' = [pc EXCEPT ![w] = "acquire"] /\ UNCHANGED toDisk
        /\ UNCHANGED <<deques, mutex, array, pushes, count, toHost, popped, continue, failed>>

\* deviceToHost() may send the back of the host queue to disk afterwards.
Finish(w) ==
    /\ pc[w] = "finish"
    /\ IF task[w].op = "deviceToHost" /\ MaxBuffers - task[w].id > DeviceCapacity + HostCapacity
       THEN /\ Enqueue(1, "hostToDisk", toDisk, [pc EXCEPT ![w] = "consume"])
            /\ toDisk' = toDisk + 1
       ELSE pc' = [pc EXCEPT ![w] = "consume"] /\ UNCHANGED <<queue, toDisk>>
    /\ UNCHANGED <<deques, mutex, task, waits, array, pushes, count, toHost, popped, continue,
                   failed>>

SpuriousWake(w) ==
    /\ pc[w] = "asleep"
    /\ pc' = [pc EXCEPT ![w] = "consume"]
    /\ UNCHANGED <<deques, mutex, queue, task, waits, array, counters, continue, failed>>

WorkerStep(w) == OperationStep(w) \/ Wait(w) \/ TakeTask(w) \/ Finish(w)
-----------------------------------------------------------------------------
(* The owner thread.                                                         *)

PushWaitReturns == count > 0 => ~Pending("store", count - 1)

ComputeArray ==
    /\ pc[Owner] = "idle" /\ pushes < MaxBuffers /\ PushWaitReturns
    /\ pushes' = pushes + 1 /\ array' = pushes + 1
    /\ pc' = [pc EXCEPT ![Owner] = "push"]
    /\ UNCHANGED <<deques, mutex, queue, task, waits, count, toHost, toDisk, popped, continue, failed>>

\* pushAsync(): the owner itself emplaces the array in the device queue
PushAsync ==
    /\ pc[Owner] = "push" /\ PushWaitReturns
    /\ count' = count + 1
    /\ failed' = (HostCapacity = 0 /\ DeviceCapacity < MaxBuffers)
    /\ Begin(Owner, "emplaceFront", count)
    /\ pc' = [pc EXCEPT ![Owner] = "acquire"]
    /\ UNCHANGED <<deques, mutex, queue, array, pushes, toHost, toDisk, popped, continue>>

\* and asks for a buffer to be moved to the host if more are to come than fit
Pushed ==
    /\ pc[Owner] = "finish" /\ task[Owner].op = "emplaceFront"
    /\ IF MaxBuffers - task[Owner].id > DeviceCapacity
       THEN /\ Enqueue(0, "deviceToHost", toHost, [pc EXCEPT ![Owner] = "idle"])
            /\ toHost' = toHost + 1
       ELSE pc' = [pc EXCEPT ![Owner] = "idle"] /\ UNCHANGED <<queue, toHost>>
    /\ UNCHANGED <<deques, mutex, task, waits, array, pushes, count, toDisk, popped, continue, failed>>

\* popAsyncPrelude(): popWait(), or empty task queues before the first pop
PopWaitReturns == count < MaxBuffers => ~Pending("load", count)

PopPrelude ==
    /\ \/ /\ pc[Owner] = "idle" /\ count > 0 /\ pushes = MaxBuffers /\ PushWaitReturns
          /\ popped => PopWaitReturns
          /\ pc' = [pc EXCEPT ![Owner] = IF popped THEN "pop" ELSE "drain0"]
       \/ /\ pc[Owner] = "drain0" /\ pc[0] # "dozing" /\ queue[0] = << >>
          /\ pc' = [pc EXCEPT ![Owner] = "drain1"]
       \/ /\ pc[Owner] = "drain1" /\ pc[1] # "dozing" /\ queue[1] = << >>
          /\ pc' = [pc EXCEPT ![Owner] = "pop"]
    /\ UNCHANGED <<deques, mutex, queue, task, waits, array, counters, continue, failed>>

\* popAsync(): asks for a buffer back from the host, then pops the device queue
PopAsync ==
    /\ pc[Owner] = "pop"
    /\ popped' = TRUE
    /\ count' = count - 1
    /\ Begin(Owner, "popFront", count - 1)
    /\ IF toHost > 0
       THEN /\ Enqueue(0, "hostToDevice", toHost - 1, [pc EXCEPT ![Owner] = "acquire"])
            /\ toHost' = toHost - 1
       ELSE pc' = [pc EXCEPT ![Owner] = "acquire"] /\ UNCHANGED <<queue, toHost>>
    /\ UNCHANGED <<deques, mutex, array, pushes, toDisk, continue, failed>>

PopWait ==
    /\ pc[Owner] = "finish" /\ task[Owner].op = "popFront" /\ PopWaitReturns
    /\ pc' = [pc EXCEPT ![Owner] = "idle"]
    /\ UNCHANGED <<deques, mutex, queue, task, waits, array, counters, continue, failed>>

\* The destructor: m_continue, the notifications, the two join()
Stop ==
    /\ \/ /\ pc[Owner] = "idle" /\ count = 0 /\ pushes = MaxBuffers
          /\ continue' = FALSE /\ pc' = [pc EXCEPT ![Owner] = "stop"]
       \/ /\ pc[Owner] = "stop"
          /\ pc' = [t \in Threads |-> IF t = Owner THEN "join"
                                      ELSE IF pc[t] = "asleep" THEN "consume" ELSE pc[t]]
          /\ UNCHANGED continue
       \/ /\ pc[Owner] = "join" /\ \A w \in Workers : pc[w] = "exited"
          /\ pc' = [pc EXCEPT ![Owner] = "done"]
          /\ UNCHANGED continue
    /\ UNCHANGED <<deques, mutex, queue, task, waits, array, counters, failed>>

OwnerStep ==
    \/ OperationStep(Owner)
    \/ ComputeArray \/ PushAsync \/ Pushed
    \/ PopPrelude \/ PopAsync \/ PopWait \/ Stop
-----------------------------------------------------------------------------
Spurious == (\E t \in Threads : Unblock(t)) \/ (\E w \in Workers : SpuriousWake(w))

Ended == (failed \/ pc[Owner] = "done") /\ UNCHANGED vars

Next ==
    \/ ~failed /\ (OwnerStep \/ (\E w \in Workers : WorkerStep(w)) \/ DeviceCopies \/ Spurious)
    \/ Ended

Spec == Init /\ [][Next]_vars

\* Every thread and the device go on when they can, and spurious wake-ups stop.
Fairness ==
    /\ WF_vars(~failed /\ OwnerStep)
    /\ \A w \in Workers : WF_vars(~failed /\ WorkerStep(w))
    /\ WF_vars(~failed /\ DeviceCopies)
    /\ <>[][~Spurious]_vars

FairSpec == Spec /\ Fairness
=============================================================================
