--------------------------- MODULE LifoStorageHost ---------------------------
(***************************************************************************)
(* The LIFO storage of a build without device buffers                      *)
(* (common/LifoStorageHost.hpp behind common/LifoStorage.hpp), and the     *)
(* thread that owns it.  The owner follows                                 *)
(* AcousticWaveEquationSEM::explicitStepForward and explicitStepBackward:  *)
(* it computes a new array and pushes it at every forward step, pops at    *)
(* every backward step, and deletes the storage when it is empty.          *)
(***************************************************************************)
EXTENDS LifoStorageCommon

CONSTANTS PushCount,    \* how many arrays the owner pushes in all
          Interleaved   \* whether it may pop before the last push

ASSUME PushCountAssumption == PushCount \in 1 .. MaxBuffers
ASSUME InterleavedAssumption == Interleaved \in BOOLEAN
ASSUME ArrayAssumption == 1 .. PushCount \subseteq Values

VARIABLES
    owner,      \* where the owner thread is
    array,      \* its array: computed into, pushed from, popped into
    pushes,     \* how many arrays it has computed
    count,      \* m_bufferCount
    toDisk,     \* m_bufferToDiskCount
    popped,     \* m_hasPoppedBefore
    pushFuture, \* m_pushToHostFutures
    popFuture   \* m_popFromHostFutures

ownerVars == <<owner, array, pushes, count, popped>>
vars == <<commonVars, ownerVars, toDisk, pushFuture, popFuture>>

\* A future that was never assigned is "invalid"; waiting on it throws.
Futures == {"invalid", "pending", "ready"}
OwnerStates == {"idle", "push", "drain0", "drain1", "pop", "popWait",
                "notify", "join", "done"}

Init ==
    /\ InitCommon
    /\ owner = "idle" /\ array = Nothing /\ pushes = 0
    /\ count = 0 /\ toDisk = 0 /\ popped = FALSE
    /\ pushFuture = [id \in BufferIds |-> "invalid"]
    /\ popFuture = [id \in BufferIds |-> "invalid"]
-----------------------------------------------------------------------------
(* The bodies of the tasks that pushAsync() and popAsync() hand to worker 0. *)

\* emplaceFront( pushedArray ): the array is read when the task runs
TransferPushed ==
    /\ pc[0] = "transfer" /\ task[0].op = "emplaceFront"
    /\ failed' = Full(deque)
    /\ IF Full(deque) THEN UNCHANGED <<deque, pc>>
       ELSE /\ deque' = Write(deque, NextFrontSlot(deque), array)
            /\ pc' = [pc EXCEPT ![0] = "commit"]
    /\ UNCHANGED <<mutex, disk, queue, task, continue>>
    /\ UNCHANGED <<ownerVars, toDisk, pushFuture, popFuture>>

\* popFront( poppedArray )
TransferPopped ==
    /\ pc[0] = "transfer" /\ task[0].op = "popFront"
    /\ failed' = Empty(deque)
    /\ IF Empty(deque) THEN UNCHANGED <<array, pc>>
       ELSE array' = FrontEntry(deque) /\ pc' = [pc EXCEPT ![0] = "commit"]
    /\ UNCHANGED <<deque, mutex, disk, queue, task, continue>>
    /\ UNCHANGED <<owner, pushes, count, popped, toDisk, pushFuture, popFuture>>

\* Does the push of this id displace a buffer to disk?  Is one left there?
\* (Operators ending in Early, Late or None are deliberate errors, here to
\* show that the properties notice them.)
DisplacesEarly(id)   == MaxBuffers - id >= Capacity
DisplacesLate(id)    == MaxBuffers - id > Capacity + 1
Displaces(id)        == MaxBuffers - id > Capacity
MayCallBackEarly     == toDisk >= 0
MayCallBack          == toDisk > 0

\* After the operation: a push may send the back of the queue to disk, a pop
\* may call a buffer back from it; then the future of the task is ready.
FinishPush ==
    /\ pc[0] = "finish" /\ task[0].op = "emplaceFront"
    /\ pushFuture' = [pushFuture EXCEPT ![task[0].id] = "ready"]
    /\ IF Displaces(task[0].id)
       THEN /\ QueueFree(1)
            /\ queue' = Enqueued(1, [op |-> "hostToDisk", id |-> toDisk])
            /\ toDisk' = toDisk + 1
            /\ pc' = [Awoken(pc, {1}) EXCEPT ![0] = "consume"]
       ELSE /\ pc' = [pc EXCEPT ![0] = "consume"]
            /\ UNCHANGED <<queue, toDisk>>
    /\ UNCHANGED <<deque, mutex, disk, task, continue, failed, ownerVars, popFuture>>

FinishPop ==
    /\ pc[0] = "finish" /\ task[0].op = "popFront"
    /\ popFuture' = [popFuture EXCEPT ![task[0].id] = "ready"]
    /\ IF MayCallBack
       THEN /\ QueueFree(1)
            /\ queue' = Enqueued(1, [op |-> "diskToHost", id |-> toDisk - 1])
            /\ toDisk' = toDisk - 1
            /\ pc' = [Awoken(pc, {1}) EXCEPT ![0] = "consume"]
       ELSE /\ pc' = [pc EXCEPT ![0] = "consume"]
            /\ UNCHANGED <<queue, toDisk>>
    /\ UNCHANGED <<deque, mutex, disk, task, continue, failed, ownerVars, pushFuture>>
-----------------------------------------------------------------------------
(* The owner thread.                                                         *)

PushWaitNone    == TRUE
PushWaitReturns == count > 0 => pushFuture[count - 1] = "ready"

\* pushWait(), then the owner computes the array of this forward step
ComputeArray ==
    /\ owner = "idle" /\ pushes < PushCount
    /\ PushWaitReturns
    /\ pushes' = pushes + 1
    /\ array' = pushes + 1
    /\ owner' = "push"
    /\ UNCHANGED <<commonVars, count, popped, toDisk, pushFuture, popFuture>>

\* pushAsync( array )
PushAsync ==
    /\ owner = "push" /\ PushWaitReturns
    /\ count' = count + 1
    /\ failed' = (Capacity = 0)
    /\ IF Capacity = 0 THEN UNCHANGED <<owner, queue, pc, pushFuture>>
       ELSE /\ QueueFree(0)
            /\ pushFuture' = [pushFuture EXCEPT ![count] = "pending"]
            /\ queue' = Enqueued(0, [op |-> "emplaceFront", id |-> count])
            /\ pc' = Awoken(pc, {0})
            /\ owner' = "idle"
    /\ UNCHANGED <<deque, mutex, disk, task, continue, array, pushes, popped, toDisk, popFuture>>

\* popAsyncPrelude(): the wait for the last pop, or for two empty task queues
\* before the first one
PopPrelude ==
    /\ owner = "idle" /\ count > 0
    /\ Interleaved \/ pushes = PushCount
    /\ PushWaitReturns
    /\ popped /\ count < MaxBuffers => popFuture[count] # "pending"
    /\ failed' = (popped /\ count < MaxBuffers /\ popFuture[count] = "invalid")
    /\ owner' = IF popped THEN "pop" ELSE "drain0"
    /\ UNCHANGED <<deque, mutex, disk, queue, task, pc, continue>>
    /\ UNCHANGED <<array, pushes, count, popped, toDisk, pushFuture, popFuture>>

DrainQueue(w, here, next) ==
    /\ owner = here
    /\ QueueFree(w) /\ queue[w] = << >>
    /\ owner' = next
    /\ UNCHANGED <<commonVars, array, pushes, count, popped, toDisk, pushFuture, popFuture>>

PopAsync ==
    /\ owner = "pop" /\ QueueFree(0)
    /\ popped' = TRUE
    /\ count' = count - 1
    /\ popFuture' = [popFuture EXCEPT ![count - 1] = "pending"]
    /\ queue' = Enqueued(0, [op |-> "popFront", id |-> count - 1])
    /\ pc' = Awoken(pc, {0})
    /\ owner' = "popWait"
    /\ UNCHANGED <<deque, mutex, disk, task, continue, failed, array, pushes, toDisk, pushFuture>>

PopWait ==
    /\ owner = "popWait"
    /\ count < MaxBuffers => popFuture[count] = "ready"
    /\ owner' = "idle"
    /\ UNCHANGED <<commonVars, array, pushes, count, popped, toDisk, pushFuture, popFuture>>

\* ~LifoStorageCommon(): m_continue is cleared without a mutex, both queues
\* are notified, both workers joined.  The owner does this when empty().
Stop ==
    /\ owner = "idle" /\ count = 0 /\ pushes = PushCount
    /\ continue' = FALSE
    /\ owner' = "notify"
    /\ UNCHANGED <<deque, mutex, disk, queue, task, pc, failed>>
    /\ UNCHANGED <<array, pushes, count, popped, toDisk, pushFuture, popFuture>>

NotifyWorkers ==
    /\ owner = "notify"
    /\ pc' = Awoken(pc, Workers)
    /\ owner' = "join"
    /\ UNCHANGED <<deque, mutex, disk, queue, task, continue, failed>>
    /\ UNCHANGED <<array, pushes, count, popped, toDisk, pushFuture, popFuture>>

Join ==
    /\ owner = "join" /\ \A w \in Workers : pc[w] = "exited"
    /\ owner' = "done"
    /\ UNCHANGED <<commonVars, array, pushes, count, popped, toDisk, pushFuture, popFuture>>
-----------------------------------------------------------------------------
WorkerStep(w) ==
    \/ CommonStep(w) /\ UNCHANGED <<ownerVars, toDisk, pushFuture, popFuture>>
    \/ w = 0 /\ (TransferPushed \/ TransferPopped \/ FinishPush \/ FinishPop)

OwnerStep ==
    \/ ComputeArray \/ PushAsync
    \/ PopPrelude \/ DrainQueue(0, "drain0", "drain1") \/ DrainQueue(1, "drain1", "pop")
    \/ PopAsync \/ PopWait
    \/ Stop \/ NotifyWorkers \/ Join

Spurious(w) == SpuriousWake(w) /\ UNCHANGED <<ownerVars, toDisk, pushFuture, popFuture>>

Ended == (failed \/ owner = "done") /\ UNCHANGED vars

Next ==
    \/ ~failed /\ (OwnerStep \/ \E w \in Workers : WorkerStep(w) \/ Spurious(w))
    \/ Ended

Spec == Init /\ [][Next]_vars

\* Every thread runs when it can, and spurious wake-ups stop in the end.
Fairness ==
    /\ WF_vars(~failed /\ OwnerStep)
    /\ \A w \in Workers : WF_vars(~failed /\ WorkerStep(w))
    /\ <>[][\A w \in Workers : ~Spurious(w)]_vars

FairSpec == Spec /\ Fairness
=============================================================================
