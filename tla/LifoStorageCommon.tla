-------------------------- MODULE LifoStorageCommon --------------------------
(***************************************************************************)
(* The part of the LIFO storage shared by its two builds: the queue of     *)
(* host buffers with its four mutexes and two condition variables          *)
(* (common/FixedSizeDequeWithMutexes.hpp), the two worker threads with     *)
(* their task queues, and the transfers between host memory and disk       *)
(* (common/LifoStorageCommon.hpp).                                         *)
(*                                                                         *)
(* A worker runs one task at a time, and every task starts with one        *)
(* operation of the queue:                                                 *)
(*   acquire -> test -> transfer -> commit -> notify -> finish             *)
(*                |  ^                                                     *)
(*                v  | (woken: take the mutexes again, test again)         *)
(*           blocking -> blocked                                           *)
(* The mutexes are held from acquire to commit, and given back while the   *)
(* worker is blocked.  Each arrow is a step another thread may run before. *)
(***************************************************************************)
EXTENDS FixedSizeDeque

CONSTANTS MaxBuffers,   \* m_maxNumberOfBuffers
          Values        \* what an array may hold: the positive integers here

ASSUME MaxBuffersAssumption == MaxBuffers \in Nat \ {0}

\* An array nobody wrote to, and the name of a file that does not exist.
Nothing == 0
ASSUME ValuesAssumption == Values \subseteq Nat \ {0}

BufferIds == 0 .. MaxBuffers - 1

\* Worker 0 moves buffers to and from the host queue, worker 1 to and from disk.
Workers == {0, 1}
Mutexes == {"front", "back", "pop", "emplace"}
Free    == 2            \* the owner of a mutex that nobody holds

Operations == {"emplaceFront", "popFront", "hostToDisk", "diskToHost"}
Emplacers  == {"emplaceFront", "diskToHost"}
Poppers    == {"popFront", "hostToDisk"}
Task       == [op : Operations, id : BufferIds]

VARIABLES
    deque,      \* m_hostDeque
    mutex,      \* the owner of each mutex of m_hostDeque
    disk,       \* what the file of each id holds
    queue,      \* m_task_queue[2]
    task,       \* the task each worker runs, or ran last
    pc,         \* where each worker is
    continue,   \* m_continue
    failed      \* a GEOS_ERROR or an exception ended the program

commonVars == <<deque, mutex, disk, queue, task, pc, continue, failed>>

Locks(op) == CASE op = "emplaceFront" -> {"emplace", "front"}
               [] op = "popFront"     -> {"pop", "front"}
               [] op = "hostToDisk"   -> {"pop", "back"}
               [] op = "diskToHost"   -> {"emplace", "back"}

ProceedEarly(op) == TRUE

\* The predicate an operation waits for on m_notFullCond or m_notEmptyCond;
\* hostToDisk() waits for nothing.
MayProceed(op) == CASE op \in Emplacers    -> ~Full(deque)
                    [] op = "popFront"     -> ~Empty(deque)
                    [] op = "hostToDisk"   -> TRUE

\* An emplacer ends with m_notEmptyCond.notify_all(), which popFront() waits
\* on; a popper with m_notFullCond.notify_all(), which the emplacers wait on.
Notifies(op, waiting) ==
    \/ op \in Emplacers /\ waiting = "popFront"
    \/ op \in Poppers /\ waiting \in Emplacers

InitCommon ==
    /\ deque = NewDeque(Nothing)
    /\ mutex = [m \in Mutexes |-> Free]
    /\ disk = [id \in BufferIds |-> Nothing]
    /\ queue = [w \in Workers |-> << >>]
    /\ task = [w \in Workers |-> [op |-> "hostToDisk", id |-> 0]]
    /\ pc = [w \in Workers |-> "consume"]
    /\ continue = TRUE
    /\ failed = FALSE
-----------------------------------------------------------------------------
(* wait_and_consume_tasks(): a worker holds the mutex of its queue while it  *)
(* is "dozing", between the test of its predicate and the wait.              *)

Exit(w) ==
    /\ pc[w] = "consume" /\ ~continue
    /\ pc' = [pc EXCEPT ![w] = "exited"]
    /\ UNCHANGED <<deque, mutex, disk, queue, task, continue, failed>>

Doze(w) ==
    /\ pc[w] = "consume" /\ continue /\ queue[w] = << >>
    /\ pc' = [pc EXCEPT ![w] = "dozing"]
    /\ UNCHANGED <<deque, mutex, disk, queue, task, continue, failed>>

FallAsleep(w) ==
    /\ pc[w] = "dozing"
    /\ pc' = [pc EXCEPT ![w] = "asleep"]
    /\ UNCHANGED <<deque, mutex, disk, queue, task, continue, failed>>

TakeTask(w) ==
    /\ pc[w] = "consume" /\ continue /\ queue[w] # << >>
    /\ task' = [task EXCEPT ![w] = Head(queue[w])]
    /\ queue' = [queue EXCEPT ![w] = Tail(queue[w])]
    /\ pc' = [pc EXCEPT ![w] = "acquire"]
    /\ UNCHANGED <<deque, mutex, disk, continue, failed>>

\* emplace_back() on a task queue under its mutex, then notify_all(): here the
\* new queues, and who is awake after it.  QueueFree(w) guards every use.
QueueFree(w)      == pc[w] # "dozing"
Enqueued(w, t)    == [queue EXCEPT ![w] = Append(queue[w], t)]
Awoken(p, sleepers) == [w \in Workers |->
    IF w \in sleepers /\ p[w] = "asleep" THEN "consume" ELSE p[w]]
-----------------------------------------------------------------------------
(* The operations of the queue of host buffers.                              *)

Release(w) == [m \in Mutexes |-> IF mutex[m] = w THEN Free ELSE mutex[m]]

\* make_multilock() takes its mutexes with std::lock: all of them or none.
Acquire(w) ==
    /\ pc[w] = "acquire"
    /\ \A m \in Locks(task[w].op) : mutex[m] = Free
    /\ mutex' = [m \in Mutexes |-> IF m \in Locks(task[w].op) THEN w ELSE mutex[m]]
    /\ pc' = [pc EXCEPT ![w] = "test"]
    /\ UNCHANGED <<deque, disk, queue, task, continue, failed>>

Test(w) ==
    /\ pc[w] = "test"
    /\ pc' = [pc EXCEPT ![w] = IF MayProceed(task[w].op) THEN "transfer" ELSE "blocking"]
    /\ UNCHANGED <<deque, mutex, disk, queue, task, continue, failed>>

Block(w) ==
    /\ pc[w] = "blocking"
    /\ mutex' = Release(w)
    /\ pc' = [pc EXCEPT ![w] = "blocked"]
    /\ UNCHANGED <<deque, disk, queue, task, continue, failed>>

\* hostToDisk(): writeOnDisk( back(), id )
TransferToDisk(w) ==
    /\ pc[w] = "transfer" /\ task[w].op = "hostToDisk"
    /\ failed' = Empty(deque)
    /\ IF Empty(deque) THEN UNCHANGED <<disk, pc>>
       ELSE /\ disk' = [disk EXCEPT ![task[w].id] = BackEntry(deque)]
            /\ pc' = [pc EXCEPT ![w] = "commit"]
    /\ UNCHANGED <<deque, mutex, queue, task, continue>>

\* diskToHost(): readOnDisk( next_back(), id ), which removes the file
Removed(files, id) == [files EXCEPT ![id] = Nothing]

TransferFromDisk(w) ==
    /\ pc[w] = "transfer" /\ task[w].op = "diskToHost"
    /\ failed' = (Full(deque) \/ disk[task[w].id] = Nothing)
    /\ IF failed' THEN UNCHANGED <<deque, disk, pc>>
       ELSE /\ deque' = Write(deque, NextBackSlot(deque), disk[task[w].id])
            /\ disk' = Removed(disk, task[w].id)
            /\ pc' = [pc EXCEPT ![w] = "commit"]
    /\ UNCHANGED <<mutex, queue, task, continue>>

\* The index moves and the mutexes are released; pop_front(), pop_back() and
\* inc_back() check again what front(), back() and next_back() have checked.
Commit(w) ==
    /\ pc[w] = "commit"
    /\ failed' = \/ task[w].op \in Poppers /\ Empty(deque)
                 \/ task[w].op = "diskToHost" /\ Full(deque)
    /\ IF failed' THEN UNCHANGED <<deque, mutex, pc>>
       ELSE /\ deque' = CASE task[w].op = "emplaceFront" -> IncFront(deque)
                          [] task[w].op = "popFront"     -> PopFront(deque)
                          [] task[w].op = "hostToDisk"   -> PopBack(deque)
                          [] task[w].op = "diskToHost"   -> IncBack(deque)
            /\ mutex' = Release(w)
            /\ pc' = [pc EXCEPT ![w] = "notify"]
    /\ UNCHANGED <<disk, queue, task, continue>>

\* notify_all(), after the mutexes have been released
Notify(w) ==
    /\ pc[w] = "notify"
    /\ pc' = [v \in Workers |->
                IF v = w THEN "finish"
                ELSE IF pc[v] = "blocked" /\ Notifies(task[w].op, task[v].op)
                     THEN "acquire" ELSE pc[v]]
    /\ UNCHANGED <<deque, mutex, disk, queue, task, continue, failed>>

\* A task of worker 1 ends with the operation.
FinishDisk(w) ==
    /\ pc[w] = "finish" /\ task[w].op \in {"hostToDisk", "diskToHost"}
    /\ pc' = [pc EXCEPT ![w] = "consume"]
    /\ UNCHANGED <<deque, mutex, disk, queue, task, continue, failed>>

\* A wait() on a condition variable may end without a notification.
SpuriousWake(w) ==
    /\ pc[w] \in {"blocked", "asleep"}
    /\ pc' = [pc EXCEPT ![w] = IF pc[w] = "blocked" THEN "acquire" ELSE "consume"]
    /\ UNCHANGED <<deque, mutex, disk, queue, task, continue, failed>>

\* What a worker does on its own, whatever the build.
CommonStep(w) ==
    \/ Exit(w) \/ Doze(w) \/ FallAsleep(w) \/ TakeTask(w)
    \/ Acquire(w) \/ Test(w) \/ Block(w)
    \/ TransferToDisk(w) \/ TransferFromDisk(w)
    \/ Commit(w) \/ Notify(w) \/ FinishDisk(w)

PcStates == {"consume", "dozing", "asleep", "exited", "acquire", "test", "blocking",
             "blocked", "transfer", "commit", "notify", "finish"}

Arrays    == Values \cup {Nothing}
DequeType == [begin : Int, end : Int, slot : [Slots -> Arrays]]

TypeOKCommon ==
    /\ deque \in DequeType
    /\ mutex \in [Mutexes -> Workers \cup {Free}]
    /\ disk \in [BufferIds -> Arrays]
    /\ queue \in [Workers -> Seq(Task)]
    /\ task \in [Workers -> Task]
    /\ pc \in [Workers -> PcStates]
    /\ continue \in BOOLEAN
    /\ failed \in BOOLEAN
=============================================================================
