# GEOS: verification of its control logic

GEOS is a simulator of coupled flow, mechanics and wave propagation in porous
rock (`src/src/coreComponents`, about 580 000 lines of C++). Most of it is
numerical: kernels, constitutive models, linear algebra. What can go wrong in a
way that tests hardly reach is in its control logic: threads that move buffers
between device, memory and disk, an event loop that is left, saved and resumed
in the middle of a cycle, time steps that are cut and retried under several
limits, collective calls and messages between ranks. This directory holds TLA+
modules of that logic, configurations that check them with TLC, and proofs
checked with TLAPS. Source paths below are relative to
`src/src/coreComponents` unless they begin with `src/`.

## 1. Inventory

Components, with the state they keep, what they do, how they interact, what is
hard, and what makes them correct. `PROJECT.json` lists each with its status.

| component | state and operations | interacts with | hard behaviour | correct when | status |
|---|---|---|---|---|---|
| Fixed size deque (`common/FixedSizeDeque.hpp`) | slots, `m_begin`, `m_end`; emplace, pop, increment at both ends | the two below | indices drift below zero and are reduced with the remainder of C++ | it is a sequence of bounded length | modelled; the refinement is proved |
| Deque with mutexes (`FixedSizeDequeWithMutexes.hpp`, `MultiMutexesLock.hpp`) | four mutexes, two condition variables | the workers of the storage | both ends move at once under different mutexes; notifications without a common mutex | transfers stay apart, waits end | modelled; safety is proved with the two below |
| LIFO storage on host and disk (`LifoStorageHost.hpp`, `LifoStorageCommon.hpp`) | buffer counts, two task queues, two arrays of futures, files; pushAsync/Wait, popAsync/Wait, destructor | wave solvers call it; worker 0 copies, worker 1 reads and writes files | four asynchronous transfers per buffer, queue at its limit, shutdown | a stack, no error, no hang | modelled; safety and the refinement are proved |
| LIFO storage on device (`LifoStorageCuda.hpp`) | a second queue, on the device, and its stream | as above; the owner pushes and pops itself | two queues locked together; indices that move before copies end | as above | modelled; the refinement is proved |
| Events (`events/*.cpp`) | time, dt, cycle, position in the loop, per event: last time, forecast, position, mark, exit flag | targets are solvers, outputs, Python; the restart file holds most of it | nested loops left and resumed; time step requests that read the last forecast | on time, resumes exactly, steps kept | modelled; all but exact resumption and the end of the run is proved |
| Restart (`fileIO/Outputs/RestartOutput.*`, `mainInterface/GeosxState.cpp`) | the file: a tree of all registered values | written by an event in the middle of the loop it describes | what the file does not hold | the resumed run repeats the run | partly: event state, time history counts |
| Solver base (`physicsSolvers/SolverBase.cpp`) | next dt, cycles since a cut, attempt, configuration and iteration counters | asked and executed by an event | cut, retry, reset, sub-steps, four limits | an attempt starts clean, what is completed was solved | partly: from execute() to the Newton loop; proved |
| Coupled solver (`physicsSolvers/multiphysics/CoupledSolver.hpp`) | outer iteration, sub-solvers | calls solverStep() of others | a sub-solver cuts the step after others have used it | all sub-solvers end at one time | partly: the sequential scheme; proved |
| Time history (`fileIO/timeHistory`, `fileIO/Outputs/TimeHistoryOutput.cpp`) | buffered rows, sizes, write head and limit on each rank; a dataset | events, restart files, HDF5, MPI | rows that change size while they wait; ranks without data; resume at a row | rows in their place, earlier rows stay, collective calls match | partly: packed sets and regions left out; proved |
| Neighbour communication (`mesh/mpiCommunications`) | buffers, requests, lists of ghosts per neighbour | MPI, object managers | reuse of buffers and tags; order of arrival | lists of neighbours agree, lowest rank owns | partly: `setupGhosts()`; its safety is proved |
| State and problem lifecycle (`mainInterface`) | `State` of GeosxState | pygeosx, events | run() left and entered again | phases in order | partly: READY_TO_RUN and COMPLETED in `EventManager` |
| Chombo coupler (`fileIO/coupling`) | marker files | another program | two processes polling files | no lost turn | not modelled: half of the protocol is in the other program |
| Wells (`fluidFlow/wells/WellControls.cpp`), contact (`contact/`) | current control; active set of each fracture cell | inside the Newton and configuration loops | switching back and forth | loops end | not modelled |
| Data repository (`dataRepository`) | tree of groups and wrappers, `MappedVector` | everything | erasure while indices are held | map and vector agree | not modelled |
| DofManager (`linearAlgebra/DofManager.cpp`) | numbering of fields over ranks | solvers | prefix sums, ghosts | a bijection | not modelled |
| Solver statistics, tasks, other outputs, wrappers of MPI and memory | counters, lists, buffers | the above | | | not modelled |
| Other solvers, wave kernels, linear solvers, discretisation, constitutive models, functions, field specifications, generators, utilities, schema, main, scripts, Python bindings | data, iteration | | numerical or I/O | | not modelled |
| LvArray, third-party code | | | submodules | | external |

The hazards the properties aim at are in `PROJECT.json`, each at its line.

## 2. Modules

| module | models | role |
|---|---|---|
| `FixedSizeDeque` | `FixedSizeDeque.hpp` | operators on a deque value |
| `DequeOperations`, `BoundedDeque` | all calls of its owner; a bounded sequence | state machine and its abstract specification |
| `LifoStorageCommon` | mutex queue, worker loop, transfers to and from disk | actions of the two workers |
| `LifoStorageHost` | push, pop, futures, destructor, the owner thread | composes the above into a system |
| `LifoStorageCuda` | the same with a queue on the device | a system of its own over two `FixedSizeDeque` |
| `LifoStack` | | what either storage promises: a stack |
| `LifoHostProperties`, `LifoHostInvariant`, `CudaProperties`, `LifoCudaInvariant` | | properties; the inductive invariants |
| `EventBase` | forecasts and time step requests of the three kinds of event | operators |
| `EventManager` | `run()`, `execute()`, restart files, resumption | state machine |
| `EventProperties` | | properties |
| `SolverBase`, `SolverProperties` | `execute()` to the Newton loop | state machine, properties |
| `CoupledSolver`, `CoupledProperties` | the loop over sub-solvers, as the solver step of a `SolverBase` | extends `SolverBase`; properties |
| `HDFHistoryIO` | one `HDFHistoryIO` and its dataset | operators |
| `TimeHistoryOutput`, `HistoryProperties` | collection, output, clean-up, restart on all ranks | state machine, properties |
| `NeighborCommunicator` | the exchanges of a rank with its neighbours, and MPI | actions |
| `GhostExchange`, `GhostProperties` | `setupGhosts()` on all ranks | composes them into a system; properties |
| `FixedSizeDeque_proofs`, `DequeOperations_proofs`, `LifoHost_proofs`, `LifoCuda_proofs`, `EventManager_proofs`, `Solvers_proofs`, `GhostExchange_proofs`, `TimeHistory_proofs` | | proofs |
| `MCDequeOperations`, `MCLifoHost`, `MCLifoCuda`, `MCEvents`, `MCSolver`, `MCCoupled`, `MCHistory`, `MCGhosts` | | instances for TLC |

Some operators stand beside the one that models the code under the same name
with an ending: Early, Late, None, Kept, At, Alone, Own, Any or Last. Each is a
deliberate error: put in the place of the operator it is named for, it breaks a
property. No specification uses it. It shows that the property can fail.

### LIFO storage

Wave solvers keep the arrays of a forward sweep and need them in reverse order
in the backward sweep. The storage has `Capacity` slots in host memory and keeps
the rest in files. The state corresponds to the code as follows.

- `deque`, `mutex` are `m_hostDeque` and its four mutexes; `queue` is
  `m_task_queue`, `task` and `pc` say what each worker is doing.
- Worker 0 runs the tasks of `pushAsync` and `popAsync`, worker 1 those that
  move a buffer to or from its file. A task takes two mutexes, tests its
  predicate, waits or transfers, moves an index, notifies, and finishes. Each is
  a step of its own, so that the other worker may run between the test of a
  predicate and the wait, and between a transfer and the index that publishes it.
- `count`, `toDisk`, `popped` are `m_bufferCount`, `m_bufferToDiskCount`,
  `m_hasPoppedBefore`; a future is invalid, pending or ready.
- `owner` is the calling thread, which follows `explicitStepForward` and
  `explicitStepBackward` of the acoustic solver: it waits for the last push,
  computes into its array, pushes it, and later pops.
- A `GEOS_ERROR` or the exception of an invalid future sets `failed`.

Abstractions: arrays are values; a copy has ended when the call that makes it
returns, as in a build without a device; `std::lock` takes its mutexes at once
(it never holds some while it waits for others). The clearing of `m_continue`
without its mutex is a data race by the letter of the standard; it is modelled as
a plain write that the workers may read at any time.

`LifoStorageCuda` has the queue of the device before that of the host. The owner
pushes and pops the front of the device queue itself; worker 0 moves buffers
between the queues under four mutexes, worker 1 between host and disk. Each
operation has a first effect ("transfer") and a second ("commit"), with the
other threads in between. Copies to and from the device are put on a stream and
executed in order by an action of their own, as late as the code allows: a push
returns before its copy, and the index of the device queue moves before the
copies that fill and read its slots. The owner pushes as many arrays as it has
announced and pops them all. Left out: what `LifoStorage.hpp` computes to size
the queues.

### Events

`EventBase` has one operator for each of the functions that forecast when an
event executes and that ask for a time step. `EventManager` has one action for
each step of the loop: `StartCycle` (the time step), `CheckEvent`, the calls of
`execute()` kept as a stack, `CollectExitFlag`, `EndCycle`, `Finish` (with the
cleanup of outputs). `data` is what a restart file holds. `ExecuteTarget` of a
restart output copies it, at the point in the middle of the loop where the code
writes the file; `Restart` may end the process at any point after that and
continue from the file, with everything that the file does not hold reset.
`phase` is also the state of GeosxState: READY_TO_RUN is "ready" or "returned",
COMPLETED is "done".

Times are integers. A solver is the sequence of steps it will ask for, which is
chosen at the start, so that a resumed solver asks for the same again; an
optional function is the set of times at which it exceeds its threshold; the
clock that a halt event reads is any value. Two facts of the code shape the
model: no target overrides `signalToPrepareForExecution`, and only the Python
output returns true from `execute()`. Of the input the models assume what the code
requires: `Valid` is `PeriodicEvent::validate()`, after which a solver of the main
loop has no positive time frequency and takes a turn in every cycle.

### Solver

`SolverBase` has an action for each branch point of `execute()`,
`nonlinearImplicitStep()` and `solveNonlinearSystem()`. A Newton iteration has
one of the outcomes the loop tells apart: it goes on, converges, or fails
(residual too large, line search without success, solution check, limit). The
fields are represented by the length of the step whose iterates they hold, which
is what the resets and cuts are about. Lengths are integers, the cut factor is a
fraction; the factors for easier and harder steps have their defaults 2 and 1/2.
`MaxCycles` bounds how many calls TLC looks at.

### Coupled solver

`CoupledSolver` extends `SolverBase`: `execute()` and the choice of the next
length are those of the base class, and the actions of the loop take the place
of the Newton loop. `scheme` is the criterion that ends the loop (a single
pass, the residual of all, the iterations of each, the increments), or
"proppant" for `FlowProppantTransportSolver`, which overrides the loop. A
sub-solver is seen through what `SolverProperties!ReturnsAnAttempt` shows of
`solverStep()`: it returns the length it was given, or that length cut a number
of times, and its fields (`solved[s]`) are a solution for it. That property is
checked and so links the two models. The mappings and averages that derived
solvers compute between sub-solvers are numerical and left out; the fully
coupled scheme is `SolverBase` over one system.

### Time history

A row of a dataset is collected in a buffer on every rank, and written when the
output event executes. Between two collective calls a rank works on its own data
only. So a rank is always at the collective call it has reached, and a call is
one step of all ranks of its communicator: the allgather with which the ranks
partition a row, the allreduce that finds out whether a size has changed, the
HDF5 calls of `m_subcomm` (the ranks with data). A barrier of the whole
communicator ends when every rank is in some barrier of it, be it the same one
of the source or not; ranks in different other calls wait for ever. A dataset is
a function from positions to cells, and a cell names the start, row, rank and
piece it was collected as, so that a row in a wrong place is seen. HDF5 is
external: setting an extent drops what is outside, and a write whose selection
does not fit changes nothing.

`io`, `run` and `file` are `m_io` on every rank, the place in the code, and the
datasets; `recordCount` is `m_recordCount`, and `saved` that of the restart file.
`Restart` resumes from it with the file as it was left, `Reinit` is the call of
pygeosx. `log`, `base` and `starts` are history. Left out: sets and regions of
packed collections, which are more datasets of the same kind, and coordinates.

### Neighbour communication

`setupGhosts()` exchanges three rounds of messages between neighbours. All use
the tags 101 (sizes) and 102 (contents) and the same buffers; between the second
and the third, lists are corrected with blocking receives under tag 45.
`NeighborCommunicator` has the phases of a round on a rank (`at`, `todo`): pack
and send, take the sizes, take the contents and unpack, wait for the sends.
`unordered` says whether a phase takes messages as they arrive or in the order of
the neighbours. MPI is external: a request is null, posted or complete, messages
with the same sender, receiver and tag do not overtake each other, and a send may
read its buffer at any time until it completes; the model reads it last.

`GhostExchange` says what the messages hold. A node is its global index, an
element is the set of its nodes, and edges and faces, packed in the same
messages and treated like nodes, are left out. `UnpackGhosts` is `unpackGlobalMaps`,
which decides who owns a node that several ranks send; the later actions are
`fixReceiveLists`, `verifyGhostingConsistency` and the removal of neighbours
that have nothing to exchange. Each can end in `error`. `Sorted` and `Among`, the
order of a packed list, are defined by counting and not by the library's sorting,
which is recursive and would keep the module from the prover. The synchronisation of
fields is one exchange of the same kind over the lists that result.

## 3. Runs

Each asks one question of one system. States are distinct states.

| run | instance | states | shows |
|---|---|---|---|
| `deque` | 3 slots, 2 entries, indices -4..4 | 373 | the deque implements `BoundedDeque`, also at negative indices |
| `lifo_disk` | 6 buffers, 3 slots, fair threads | 2 751 | the storage implements `LifoStack`; no error; transfers apart; no transfer to disk when the first pop starts; nothing but a lost wake-up hangs it |
| `lifo_cuda` | 5 buffers, 2 slots on the device, 1 on the host, fair threads | 28 705 | the storage on the device implements `LifoStack` through stream and transfers; nothing but a lost wake-up hangs it |
| `lifo_not_full` | 3 buffers, 1 slot | violation | a push can miss the only notification that there is room |
| `events_restart_last` | six events of the main loop, two restarts, all request plans of length 3 | 12 376 | exact times, windows, steps kept, exact resumption, the end is reached |
| `events_nested` | four events below the second of two, two restarts, any clock | 35 168 | the same resumption for nested restarts; ready sub-events are executed; a halt ends the loop with its cycle |
| `solver_converged` | 3 cycles of up to 3 sub-steps, 2 attempts, 3 configurations, 3 iterations | 69 541 | attempts start clean; what is completed was solved for that length, which is an attempt at the length given; sub-steps fit; no growth after a cut; calls end |
| `coupled` | 2 sub-solvers, all five schemes, 2 cycles, 2 attempts, 3 outer iterations | 371 044 | the step is the shortest a sub-solver reached; completed steps were solved by all (with the exception below); clean first iterations; steps end |
| `coupled_restart` | the same, single pass | violation | a step is completed with sub-solvers at two different times |
| `history_ranks` | 2 ranks, 2 datasets, rows of 0 or 2 pieces per rank, 2 rows per start, 2 starts | 311 326 | rows are in their place; ranks agree; the count is that of the first dataset; nothing but the opening after a restart erases records; collective calls match but for two named cases |
| `history_restart` | 1 rank, 1 dataset | violation | a restart loses earlier records |
| `ghosts` | 3 ranks, three meshes, both orders of completion | 218 663 | rounds apart; no ghosting error; the lowest rank owns; lists of two ranks agree; every rank finishes |

The bounds are small because the interesting cases are.

- LIFO: in `lifo_disk` three buffers go to disk and come back while three are in
  memory, so that both ends of the queue move at once and it is full and empty
  in turn; a fourth slot adds no new order of steps. In `lifo_cuda` two buffers
  stay on the device, one on the host and two on disk. One slot is enough to
  lose a wake-up.
- Events: two restarts let a resumed process be ended and resumed again; request
  plans cover all orders of short and long steps within the run.
- Solver: three cycles let an interval of two without growth end, two attempts
  show a retry and its exhaustion, three sub-steps both branches of the fit. The
  cut factor 3/8 makes the remaining time no multiple of the cut step, and the
  initial length is a power of two large enough for all divisions to be exact.
- Coupled solver: with two sub-solvers one can cut before or after the other;
  `ShortEnough` ends the cuts (a sub-solver does not cut a step that short),
  without which the loop would not end, because every cut sets the iteration
  count back. Two cycles let a step start from what a cut has left.
- Time history: sizes 0 and 2 give ranks without data, rows that widen, narrow
  and move. `MCStartSizes` lets the first dataset start with any distribution,
  the second with an even one. One rank with sizes 0, 1 and 2, and three rows
  with a growth factor of 3, were looked at as well (25 861 and 522 895 states,
  the same results).
- Ghosts: a chain of three elements, with the middle on rank 1 or on rank 0,
  and a fan around one node; together they have neighbours of neighbours, nodes
  of a third rank and neighbours with nothing to exchange.

Deadlock is checked where a program that has ended has a stuttering step
(`Ended`). It is not in three configurations: a rank of `ghosts` that is done has
no further step; in the two of the time history, ranks whose collective calls do
not match stop for good, and so does a loop that grows a limit of 0. What may stop
there, `OperationsReturn` and `EveryRankFinishes` say exactly.

### What the runs with a violation mean

Each of them contradicts a sentence of the repository, quoted in `PROJECT.json`
under `findings`. Further deviations were met with the same models and are
recorded as hazards; the passing runs and the theorems leave them out by a
condition, named there. Each can be seen with TLC by dropping that condition.

- LIFO: with one buffer a worker can miss the notification of the destructor
  (`LostStop`). With fewer pushes than announced the first pop may wait for
  ever. After `pop`, `push` the next `popWait` looks at a future that was never
  assigned (`Interleaved = TRUE`).
- Events: with a negative `MinTime` the restart file of `cleanup()` resumes at
  `minTime`, and a solo event with `targetTime` 0 executes before its time.
  Restarts below the first event of the loop make the resumed run ask for
  another time step in the middle of a cycle (`ResumesExactly`), and leave events half
  executed outside the current one (`HalfExecutedOnPath` without
  `RestartsAfterFirst`). With any other `MinTime` than 0 a restart that does not resume
  inside a cycle starts again at `minTime`. A solver behind an optional function
  can be idle when the length of the cycle is taken and ready in it, and then
  executes with a longer step than it asked for (`SolverStepsKept`); one with a
  positive `timeFrequency` could, too, but is refused in the main loop (`Valid`). A solo event with a `targetTime` before its `beginTime` executes
  at `beginTime`. The stretch of a last step can lead beyond a due time that lies
  close before `endTime` (`NotStretched`). A return to Python in the cycle in which a halt event
  triggers delays the halt by a cycle, and one from a sub-event skips the ready
  events behind it. The forecast of a halt event divides by the time since its
  last check, which can be 0 (`HaltEvent.cpp:65`); floating point is outside the
  model, which lets the clock have any value.
- Solver: with `AllowNonConverged = TRUE` the length is cut after the last
  attempt too, and a step is completed with a length nothing was computed for.
  `maxTimeStepCuts` counts attempts and not cuts (`SolverBase.cpp:781`): with 1 a
  step is never retried, with 0 never tried.
- Coupled solver: a cut of the loop does not reset the count of cycles since the
  last cut (`CoupledSolver.hpp:524`), so that `NoGrowthAfterCut` fails there. A
  step of `FlowProppantTransportSolver` that has not converged is accepted.
- Time history: after a restart in which a rank has no data the ranks are one
  barrier apart (`UnevenRestart`), or, when no rank has any, later rows narrow
  the file (`RankCount = 1`, `Sizes = {0, 1, 2}`, with `OnlyOpeningErases`
  required of all columns). After a clean-up without records the file grows for
  ever (`EmptyCompressed`).
- Neighbour communication (read, not modelled): `MPI_iCommData` keeps the
  number of a `CommID` that ends with the expression (`MPI_iCommData.cpp:23`),
  so that a second one, where two are alive
  (`EmbeddedSurfacesParallelSynchronization.cpp:531-532`), has the same number
  and tags. Nothing is mixed up: the first is never used there, or its requests
  have completed (`ParallelTopologyChange.cpp:890-896`).

### Fairness

- LIFO on host and device: weak fairness of each thread (the operating system
  schedules all of them; `LifoStorage` does nothing to stop that) and of the
  stream of the device, and finitely many spurious wake-ups, so that none of
  them repairs a lost notification for good. Actions are disabled once the
  program has failed.
- Events: weak fairness of `Step`: the process runs, and whoever a Python event
  returns to calls `run()` again. `Restart` is not fair: it need not happen.
- Solver and coupled solver: weak fairness of the steps of a call. `Call` is not
  fair: nothing makes the event loop call a solver.
- Time history: weak fairness of the collective calls: one that all ranks of its
  communicator have entered returns. Operations are not fair.
- Ghosts: weak fairness of every rank and of MPI, which delivers what is sent
  and received.

## 4. Proofs

TLAPS proves the following for all values of the constants that satisfy the
named assumptions.

- `FixedSizeDeque_proofs`: `POSITIVE_MODULO` maps every index to a slot
  (`SlotOfInSlots`), and indices less than a capacity apart to different slots
  (`SlotOfDistinct`). It also has what the two storages need of descending runs
  (`Down`): runs that meet make a run, and the head of a run is its top.
- `DequeOperations_proofs`: `AlwaysABoundedSequence`, the refinement of
  `BoundedDeque`. The size stays within the capacity (`Bounded`), so the slots of
  the contents and of the next entry are distinct by `SlotOfDistinct`; an
  operation then changes the contents as it does the sequence, which is shown
  element by element.
- `LifoHost_proofs`: `TypeCorrect` and `TransfersAlwaysApart`, for every
  capacity, number of buffers and order of calls. The type of the state is not
  inductive: that a popped id is in range rests on the futures, which make the
  owner wait, so that worker 0 has at most one task (`OneRequest`) and the ids of
  buffers on disk lie below those in memory (`DiskCount`). That a transfer has
  the room it has seen rests on which mutexes an operation holds (`Holds`): an
  emplacer excludes emplacers and a popper poppers, so that the size can only
  change in the direction that keeps what was seen true (`SizeKept`). `IInv` in
  `LifoHostInvariant` is the conjunction, proved step by step.
- The second half of `LifoHost_proofs`: `NoErrorEver`, `PushStepsAlwaysEnded` and
  `AlwaysAStack`, the refinement of `LifoStack`, under the hypothesis
  `AsAnnounced`: as many arrays are pushed as were announced, all before the
  first pop, and there is a slot. Its invariant `OrderInv` says where every
  array is. The i-th array stands at index -i of the queue, to which it returns
  from disk, or in file i-1; the tasks of worker 1 are the missing files in
  order; and the phase of the owner bounds the counts. When all arrays are pushed
  and the last is in the queue, the queue could not hold what is left unless
  all transfers to disk were done (`AllPushed`), so that a pop meets none. The
  stack is then three descending runs that meet, of pending pushes, memory and
  disk (`Down`); only `PushAsync` and the transfer of a pop change its depth, and
  every other step, those of worker 1 included, is a stutter of the stack.
- `LifoCuda_proofs`: `DeviceAlwaysAStack`, the refinement of `LifoStack` by the
  storage on the device, and `OnlyErrorIsNoRoom`, for any number of arrays and any
  capacities of the two queues, a host queue of none included. The owner pushes as
  many arrays as announced by the construction of the model. The invariant `Inv`
  (`InvHolds`), in `LifoCudaInvariant`, again puts the i-th array at index -i of both
  queues and in file i-1, and has three layers.
  - Where the threads are: each holds the mutexes of its operation while it is inside
    and no others (`Holds`), so that what it has seen of the sizes stays true until it
    moves an index (`Sizes`).
  - How far the buffers have gone: every task moves one of three boundaries, which
    lie between the device, the host and the disk, by one (`Before`, `After`), the
    tasks of a worker follow one another (`Follow`), and the ends of the queues are
    the boundaries reached so far (`Indices`). While the owner pushes, what has been
    asked to move is what will find no room (`Moved`, `Written`). When it pops, all
    of that has been moved (`Phase`), and files are read back only once all have been
    written (`Writes`).
  - What the memories hold: a slot of a queue, a file, or one of the at most two copies
    on the stream has the array (`StreamInv`, `DeviceHolds`, `HostHolds`, `DiskHolds`).
    The hard case is a pop whose copy still waits while worker 0 fills a slot: the
    fill is of another slot, or of the buffer that the pop is to read.

  The stack is then the runs on the stream, on the device, on the host and on disk,
  which meet. Its depth changes at two steps only: a push counts when the owner moves
  the index of the device queue, and a pop when the device executes its copy, which is
  long after the index has moved (`DepthStep`). Every other step leaves the stack.
  TLC finds no violation of `Inv` on the instance of `lifo_cuda`, and with 1 and 2, 2
  and 2, 4 and 4, and 1 and 0 slots in the two queues.
- `Solvers_proofs`: `SolverTypeCorrect`, `StepsAlwaysFit`, `AttemptsAlwaysStartClean`,
  `NeverGrowsAfterCut`, and, for solvers that accept converged solutions only and
  iterate at least once, `AlwaysCompletesWhatItSolved` and `AlwaysReturnsAnAttempt`
  (which needs only the first of the two). The invariant `IInv` says where the
  limits have room, what the fields hold while a sub-step is attempted, and that
  the counter of the code equals the history since the last cut; another, for
  `AlwaysReturnsAnAttempt`, that the length at each attempt is the one asked for,
  cut once for every attempt before. Lengths are integers and a division rounds
  down; no theorem needs it to be exact.
- Its second part: `StepIsAlwaysShortest`, `AlwaysSolvedTheStep` and
  `FirstIterationIsAlwaysClean` for the coupled solver, for any number of
  sub-solvers that accept converged solutions only and iterate at least once. The
  invariant `CInv` says of an iteration under way that the sub-solvers before the
  present one have solved for no shorter length, and the last of them for the
  present one.
- `EventManager_proofs`: six theorems for any tree of events and any numbers of
  its attributes, any plan of the solvers and any number of restarts. They share
  `Control`: the types, the position in the loop, and that the events in execution
  lie one below the other (`Nest`). A tree is finite and an event has one parent
  (`EventsAssumption`, which the repository of the code guarantees), so `Height`
  decreases along it; what holds of an event if it holds of its sub-events holds of
  all (`TreeInduction`), and the recursive functions of `EventBase` are what their
  equations say (`TreeRecursion`). `NumbersAssumption` gives types to the attributes,
  `TimesAssumption` says that "never" lies far enough in the past. Each theorem names
  the other hypotheses it needs:
  - `NoStepAcrossWindows`, for windows that do not end before they begin and no
    negative stretch (`ProperWindows`). `Windows`: the length of a cycle is positive
    and ends at no later time than the next begin or end, from the start of the
    cycle to its end, and in a restart file that was written in between.
  - `ExecutesOnTime`, when the time starts from 0 or no restart is written
    (`RestartsFromZero`; otherwise a resumed run starts again at `minTime`).
    `Punctual` says, for each place in the loop and for before and after the turn of
    each event, at which due times it has executed, that its last time is the last of
    them (`LastPeriodic`, `LastSolo`), and that the length of the cycle leads no
    further than to the next; and that the restart file says the same of the history
    up to it. `OnTime` alone is not inductive: the next step is found from the last
    time, not from the history.
  - `SolversGetTheirStep`, with `ProperWindows`, `RestartsFromZero`, and for solvers
    of the main loop that count cycles and have no optional function
    (`SteadySolvers`; see the deviations above). `Keeping`: an event that was idle
    when it was last checked, and so is not asked for a step, is not ready in the
    next cycle; one that was not idle was asked. `Ahead`: no restart file counts more
    steps than were done.
  - `HalfExecutedOnPath`, for halt events without a target and sub-events
    (`HaltsAlone`) and restarts that are not below the first event of the loop
    (`RestartsAfterFirst`). `Resumable`: the events that are half executed, in memory
    and in the file, lie on one path below the current event, and each would forecast
    that it is ready if it were checked again, so that a resumed process takes that
    path. A halt event reads a clock and may forecast something else; a file of the
    first event begins the cycle again with other forecasts.
  - `ServesSubEvents`, for the same blocks without a Python target. `Serving`: the
    targets of the sub-events that an event has passed have executed in this cycle,
    or would still not be ready.
  - `HaltEndsLoop`, for a block that has no halt event or no Python target
    (`HaltsRunThrough`). `Halting`: a flag that is set is known to `run()`, or lies
    below the current event, whose flags `run()` collects next.

  The hypotheses are those without which TLC finds a violation.
- `GhostExchange_proofs`: `RoundsAreAlwaysApart`, for any number of ranks and any
  partition. The argument counts: a buffer is packed once per round, so its
  round less the sends that have not completed is how many messages were
  delivered, and the receiver's place says the same number of its own rounds.
  While a receiver has the size of a round and not the contents, the sender still
  waits for a send and has not packed the buffer again.
- Its second part: `NoGhostingErrorEver`, `LowestRankAlwaysOwns`,
  `PairsAlwaysAgree` and `GhostTypesAreOK`, for any number of ranks, any finite
  mesh and any partition, in either order of completion. What a rank knows is
  a function of whom it has heard of. In the first round it takes a node to
  belong to the lowest of the neighbours that have sent it, as far as it has
  unpacked them (`IsGhostRank`); that neighbour need not own it. In the second it
  tells each neighbour what it takes to be its own (`Guessed`), and the neighbour,
  which knows every rank that holds its nodes, answers under tag 45 with those of
  a third rank (`ThirdRank`). When all have answered, every node has the least of
  its holders, so the third round asks each owner for exactly what it owns. `GInv`
  has a conjunct for each of these (where a rank is, what it holds, what it
  receives and sends, what a message of round n says), `SizeInv` says the same of
  the sizes, and `IInv` tells the rounds apart.
  `GhostInvariant` proves the conjunction, with one lemma per action. The lists
  rest on `SortedSet`, `AmongList` and `ConcatList`: packing, selecting and joining
  give lists without repetition of the members they should have. TLC found no
  violation of `GInv` on the instance of `ghosts` before it was proved.

- `TimeHistory_proofs`: `WrittenRowsAreInFile`,
  `RanksAgreeBetweenOperations` and `RecordsAlwaysRows`, for any number of ranks
  and datasets, any sizes (none included), any number of rows and starts, and any
  factor of growth. The invariant `HInv` has two layers. The first holds of every
  rank at every step: its buffer holds the last rows of what was collected, each
  at the sum of the sizes before it (`BufferInv`); its write head lags behind all
  rows by those it still has to write (`ObjectInv`); limits and widest rows are
  equal on all ranks (`AgreeInv`); and the rows below the head are in the file
  (`RowsIn`). The second says where the ranks are together. Either all wait
  (`Waiting`), or one dataset is being opened (`Starting`, `Apart`), written
  (`Writing`) or closed (`Closing`), each with the collective calls its ranks may be
  at: in `WritingRow` the ranks with data are at the write of a row while the
  others are already at the partition of the next or at the last barrier, which is
  why agreement between ranks is not inductive by itself. `Ready` says what every
  dataset not being written has kept: the partition is that of the present sizes
  (`Known`) and the file has room for what the heads count (`Fits`). `Apart` is the
  restart in which some ranks have no data: the invariant holds there too, and the
  ranks never get past it. The sums over ranks and the multiplication of the limit
  are recursive functions; `RecursionExists` and `Sums` show that they are what
  their equations say, `SumsApart` that the pieces of two ranks do not overlap, and
  `LimitFits` that the loop ends with room. TLC found no violation of `HInv` on the
  instance of `history_ranks`, with three ranks and one dataset, with one rank and
  two datasets, and with three rows, before it was proved.
- The end of `TimeHistory_proofs`: `OnlyOpeningEverErases`. The rows that every rank
  counts as written are below any limit and above any row being written, which `HInv`
  gives. That no column is cut off needs one more invariant, `RecentInv`: a piece
  collected since the start lies in a column that every rank knows of, because a row
  is written after the partition that counts it, and the widest row is forgotten at a
  start only.

Only model-checked:

- All liveness (`OnlyLostWakeupsHang`, `OnlyLostWakeupsHangIt`, `ReachesMaxTime`,
  `ExecuteEnds`, `CoupledStepEnds`, `OperationsReturn`, `EveryRankFinishes`): fairness
  and `ENABLED` are out of the prover's reach.
- `ResumesExactly`. It compares what a resumed process does with what the first one
  did, so its invariant would carry a second copy of the whole state and say that the
  two processes stay equal through all of `EventManager`.

## 5. Plan

Done: LIFO storage on host, disk and device; events and restarts; solver base;
coupled solver; time history; ghost exchange; the refinements of the deque and
of both storages; what the ghost exchange and the time history achieve; every
safety property of the runs but one.

What is left, in order:

1. The insertion of new objects when a fracture grows
   (`ParallelTopologyChange.cpp`), over `NeighborCommunicator`.
2. The configuration loop of the contact solvers, as an outcome of
   `updateConfiguration()` that `SolverBase` now leaves open, and the switching
   of well controls.
3. `MappedVector` and the numbering of `DofManager`, as pure operators with a
   reference definition.
4. Proofs: `ResumesExactly`, with an invariant over two copies of the event loop.

## 6. Not modelled, and why

Numerical kernels, constitutive models, linear solvers, discretisation and
functions compute; a finite model of real arithmetic would say nothing about
them. They are by far the larger part of the source, which is why the modelled
lines are a small share of it. Formatting, logging and file formats carry no
control.

- `ChomboCoupler` polls files that another program writes. What makes the
  exchange correct is in that program, which is not in the repository, so that a
  model would rest on a protocol of our own invention.
- `SolverStatistics` counts attempts and iterations for the log; no decision
  reads the counters.
- Well controls and contact states switch on the values of fields. Without
  them, each switch is free, and nothing is left to be wrong.
- Initialisation (`ProblemManager`, `initialization.cpp`) is a fixed sequence of
  calls; tasks are a list of targets that events execute.
- Data structures filled once from the input (mesh, regions, repository) have no
  protocol.
- In the modelled parts: floating point is replaced by integers, so that the
  rounding of times, the tolerance `1e-10` of a forecast and the conversion of
  an out-of-range double to int are outside the models. HDF5 and MPI are
  external and modelled from their use. Allocation failures and the failures of
  HDF5 and MPI calls, whose return values the code does not look at, are left
  out.

Submodules (`LvArray` and others) are not in the repository.
