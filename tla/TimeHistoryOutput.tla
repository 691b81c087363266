--------------------------- MODULE TimeHistoryOutput ---------------------------
(***************************************************************************)
(* The time history output on all MPI ranks: initialisation, collection,   *)
(* output, clean-up, restart and reinit                                    *)
(* (fileIO/Outputs/TimeHistoryOutput.cpp over HDFHistoryIO).               *)
(*                                                                         *)
(* Between two collective calls a rank works on its own data only, so a    *)
(* rank is always at the collective call it has reached (run[r].at), and   *)
(* a call is one step of all the ranks of its communicator.  A barrier     *)
(* ends when every rank is in a barrier of MPI_COMM_GEOS, be it the same   *)
(* one of the source or not; ranks in different other calls wait forever.  *)
(* Collection and the start of an operation need no communication, and     *)
(* are one step of all ranks.                                              *)
(***************************************************************************)
EXTENDS HDFHistoryIO

CONSTANTS DatasetCount,     \* how many entries of m_io all ranks share
          Sizes,            \* how many pieces a rank may have of a row
          StartSizes,       \* the sizes that the datasets may have at a start
          MaxRows,          \* how many rows are collected in all after a start
          MaxStarts         \* how often the program starts

ASSUME DatasetCountAssumption == DatasetCount \in Nat \ {0}
ASSUME SizesAssumption == Sizes \subseteq Nat

Datasets == 1 .. DatasetCount

ASSUME StartSizesAssumption == StartSizes \subseteq [Datasets -> [Ranks -> Sizes]]

VARIABLES
    io,             \* m_io on every rank
    run,            \* the call each rank has reached, and its local variables
    file,           \* the datasets of the HDF5 file
    recordCount,    \* m_recordCount
    saved,          \* m_recordCount in the restart file
    closing,        \* whether the operation is cleanup() rather than execute()
    log,            \* the sizes of the rows collected since the start
    base,           \* m_recordCount at the start
    starts          \* how often the program has started

vars == <<io, run, file, recordCount, saved, closing, log, base, starts>>

\* The first piece to the last of row n of this start, on rank r
Cells(n, r, size) == [k \in 1 .. size |-> <<starts, n, r, k>>]

At(R, call, d) == \A r \in R : run[r].at = call /\ run[r].ds = d
Idle == \A r \in Ranks : run[r].at = "idle"
Subcomm(d) == {r \in Ranks : io[d][r].member}

Here(call, d) == [at |-> call, ds |-> d, row |-> 0, cursor |-> 0]
-----------------------------------------------------------------------------
(* TimeHistoryOutput::initializePostInitialConditionsPostSubGroups() and     *)
(* initCollectorParallel(): with no record the file is truncated.  The sizes *)
(* are those of the metadata.                                                *)

Start(records, sizes, files) ==
    /\ io' = [d \in Datasets |-> [r \in Ranks |-> NewIO(sizes[d][r], records)]]
    /\ run' = [r \in Ranks |-> Here("split", 1)]
    /\ file' = IF records = 0 THEN [d \in Datasets |-> NoDataset] ELSE files
    /\ recordCount' = records
    /\ base' = records
    /\ log' = [d \in Datasets |-> << >>]
    /\ closing' = FALSE

Init ==
    /\ \E sizes \in StartSizes :
          io = [d \in Datasets |-> [r \in Ranks |-> NewIO(sizes[d][r], 0)]]
    /\ run = [r \in Ranks |-> Here("split", 1)]
    /\ file = [d \in Datasets |-> NoDataset]
    /\ recordCount = 0 /\ saved = 0 /\ base = 0 /\ closing = FALSE
    /\ log = [d \in Datasets |-> << >>]
    /\ starts = 1

\* init(): setupPartition(), after which the ranks with data open the file,
\* or rank 0 alone when no rank has any
Openers(os) == IF os[0].globalCount = 0 THEN {0} ELSE {r \in Ranks : os[r].member}

InitPartition(d) ==
    /\ At(Ranks, "split", d)
    /\ LET os == Partitioned(io[d], [r \in Ranks |-> io[d][r].dims])
       IN  /\ io' = [io EXCEPT ![d] = os]
           /\ run' = [r \in Ranks |->
                        Here(IF r \in Openers(os) THEN "open" ELSE "registered", d)]
    /\ UNCHANGED <<file, recordCount, saved, closing, log, base, starts>>

\* The dataset is created; one that exists already is given the extent of the
\* new object, and only those who have opened it then meet a barrier.
Open(d) ==
    LET R == Openers(io[d])
        o == io[d][Min(R)]
    IN  /\ At(R, "open", d)
        /\ file' = IF ~file[d].exists
                   THEN [file EXCEPT ![d] = Extended(NoDataset, o.writeLimit, o.globalCount)]
                   ELSE IF o.member
                   THEN [file EXCEPT ![d] = Extended(@, o.writeLimit, o.highwater)]
                   ELSE file
        /\ run' = [r \in Ranks |-> IF r \notin R THEN run[r]
                   ELSE Here(IF file[d].exists THEN "extended" ELSE "registered", d)]
        /\ UNCHANGED <<io, recordCount, saved, closing, log, base, starts>>
-----------------------------------------------------------------------------
(* HDFHistoryIO::write()                                                     *)

\* Where a rank goes when its first k rows are written: a rank outside the
\* communicator passes all the rows when the partition does not change.
NextCall(o, k) ==
    IF k = Len(o.counts) THEN "written"
    ELSE IF o.sizeChanged THEN "splitRow"
    ELSE IF o.member THEN "writeRow" ELSE "written"

\* The object there: at the end the remaining rows count as written, too.
NextObject(o, k) ==
    IF NextCall(o, k) # "written" THEN o
    ELSE Emptied([o EXCEPT !.writeHead = @ + (Len(o.counts) - k)])

AnyChangedOwn(d, r) == io[d][r].sizeChanged
AnyChanged(d, r)    == \E q \in Ranks : io[d][q].sizeChanged

\* The allReduce, and what every rank computes from it alone
Reduce(d) ==
    /\ At(Ranks, "reduce", d)
    /\ LET o(r) == [io[d][r] EXCEPT !.sizeChanged = AnyChanged(d, r)]
           grown(r) == [o(r) EXCEPT !.writeLimit = NextLimit(o(r))]
       IN  /\ io' = [io EXCEPT ![d] = [r \in Ranks |->
                        IF GrowsForever(o(r)) THEN o(r)
                        ELSE IF MustGrow(o(r)) THEN grown(r) ELSE NextObject(o(r), 0)]]
           /\ run' = [r \in Ranks |-> Here(
                        IF GrowsForever(o(r)) THEN "growing"
                        ELSE IF ~MustGrow(o(r)) THEN NextCall(o(r), 0)
                        ELSE IF o(r).member THEN "grow" ELSE "grown", d)]
    /\ UNCHANGED <<file, recordCount, saved, closing, log, base, starts>>

\* updateDatasetExtent() by the ranks of the communicator, before its barrier
ExtentCalls == {"grow", "fit", "compress"}
ExtentDone  == [grow |-> "grown", fit |-> "fitted", compress |-> "compressed"]

RowLimit(o, call)   == IF call = "compress" THEN o.writeHead ELSE o.writeLimit

UpdateExtent(d, call) ==
    /\ Subcomm(d) # {} /\ At(Subcomm(d), call, d)
    /\ LET o == io[d][Min(Subcomm(d))]
       IN  file' = [file EXCEPT ![d] = Extended(@, RowLimit(o, call), o.highwater)]
    /\ run' = [r \in Ranks |->
                IF r \in Subcomm(d) THEN [run[r] EXCEPT !.at = ExtentDone[call]] ELSE run[r]]
    /\ UNCHANGED <<io, recordCount, saved, closing, log, base, starts>>

\* setupPartition() for the next row, from the size it had when collected
RowPartition(d) ==
    /\ At(Ranks, "splitRow", d)
    /\ LET os == Partitioned(io[d], [r \in Ranks |-> io[d][r].counts[run[r].row + 1]])
       IN  /\ io' = [io EXCEPT ![d] = os]
           /\ run' = [r \in Ranks |->
                        [run[r] EXCEPT !.at = IF os[r].member THEN "fit" ELSE "fitted"]]
    /\ UNCHANGED <<file, recordCount, saved, closing, log, base, starts>>

\* The pieces of the row each rank is at, where the collective write puts them
RowPieces(d, R) ==
    LET size(r) == io[d][r].counts[run[r].row + 1]
        place == UNION {{<<r, k>> : k \in 0 .. size(r) - 1} : r \in R}
        at(p) == <<io[d][p[1]].writeHead, io[d][p[1]].offset + p[2]>>
        what(p) == io[d][p[1]].dataBuffer[run[p[1]].cursor + p[2] + 1]
    IN  [x \in {at(p) : p \in place} |-> what(CHOOSE p \in place : at(p) = x)]

AdvancedNone(o, j) == j
Advanced(o, j)     == [j EXCEPT !.cursor = @ + o.counts[j.row + 1]]

WriteRow(d) ==
    /\ Subcomm(d) # {} /\ At(Subcomm(d), "writeRow", d)
    /\ file' = [file EXCEPT ![d] = WrittenTo(@, RowPieces(d, Subcomm(d)))]
    /\ LET o(r) == [io[d][r] EXCEPT !.writeHead = @ + 1]
           next(r) == run[r].row + 1
       IN  /\ io' = [io EXCEPT ![d] = [r \in Ranks |->
                        IF r \in Subcomm(d) THEN NextObject(o(r), next(r)) ELSE io[d][r]]]
           /\ run' = [r \in Ranks |-> IF r \notin Subcomm(d) THEN run[r]
                        ELSE [Advanced(o(r), run[r]) EXCEPT
                                !.row = next(r), !.at = NextCall(o(r), next(r))]]
    /\ UNCHANGED <<recordCount, saved, closing, log, base, starts>>
-----------------------------------------------------------------------------
(* The barriers of MPI_COMM_GEOS, and where each leads: the position and the *)
(* object of a rank that leaves the barrier it is in.                        *)

InitBarriers  == {"extended", "registered", "timed"}
WriteBarriers == {"grown", "fitted", "written"}
CloseBarriers == {"closed", "compressed"}
Barriers == InitBarriers \cup WriteBarriers \cup CloseBarriers

CompressCall(r, d) == Here(IF io[d][r].member THEN "compress" ELSE "compressed", d)

NextDataset(j, call, end) ==
    IF j.ds < DatasetCount THEN Here(call, j.ds + 1) ELSE end

\* A row that this rank has no piece of is passed.
PassedNone(o) == o
Passed(o) == [o EXCEPT !.writeHead = @ + 1]

Leave(r) ==
    LET j == run[r]  o == io[j.ds][r]  idle == Here("idle", 1)
    IN  CASE j.at = "extended"   -> [j EXCEPT !.at = "registered"]
          [] j.at = "registered" -> [j EXCEPT !.at = "timed"]
          [] j.at = "timed"      -> NextDataset(j, "split", idle)
          [] j.at = "grown"      -> [j EXCEPT !.at = NextCall(o, 0)]
          [] j.at = "fitted" /\ o.member  -> [j EXCEPT !.at = "writeRow"]
          [] j.at = "fitted" /\ ~o.member ->
                [j EXCEPT !.row = @ + 1, !.at = NextCall(Passed(o), j.row + 1)]
          [] j.at = "written"    ->
                NextDataset(j, "reduce", IF closing THEN Here("closed", 1) ELSE idle)
          [] j.at = "closed"     -> CompressCall(r, 1)
          [] j.at = "compressed" ->
                IF j.ds < DatasetCount THEN CompressCall(r, j.ds + 1) ELSE idle

Left(r) ==
    LET j == run[r]  o == io[j.ds][r]
    IN  CASE j.at = "grown" -> NextObject(o, 0)
          [] j.at = "fitted" /\ ~o.member -> NextObject(Passed(o), j.row + 1)
          [] j.at = "compressed" -> [o EXCEPT !.writeLimit = o.writeHead]
          [] OTHER -> o

Barrier ==
    /\ \A r \in Ranks : run[r].at \in Barriers
    /\ run' = [r \in Ranks |-> Leave(r)]
    /\ io' = [d \in Datasets |-> [r \in Ranks |->
                IF run[r].ds = d THEN Left(r) ELSE io[d][r]]]
    /\ UNCHANGED <<file, recordCount, saved, closing, log, base, starts>>
-----------------------------------------------------------------------------
(* The operations, which the events or a Python driver start when all ranks  *)
(* are through with the last one.                                            *)

RowsCollected == FoldFunctionOnSet(LAMBDA rows, n : Len(rows) + n, 0, log, Datasets)

\* HistoryCollectionBase::execute()
Collect(d, sizes) ==
    /\ Idle /\ RowsCollected < MaxRows
    /\ log' = [log EXCEPT ![d] = Append(@, sizes)]
    /\ io' = [io EXCEPT ![d] = [r \in Ranks |->
                Collected(@[r], sizes[r], Cells(Len(log[d]) + 1, r, sizes[r]))]]
    /\ UNCHANGED <<run, file, recordCount, saved, closing, base, starts>>

NewBufferedLast == Len(io[DatasetCount][0].counts)
NewBuffered     == Len(io[1][0].counts)

\* execute() and cleanup(): every entry of m_io is written in turn.  The rows
\* counted are those of the first; the count is read before the writes and
\* changed after them, between which nobody looks at it.
Output(close) ==
    /\ Idle
    /\ recordCount' = recordCount + NewBuffered
    /\ closing' = close
    /\ run' = [r \in Ranks |-> Here("reduce", 1)]
    /\ UNCHANGED <<io, file, saved, log, base, starts>>

\* RestartOutput::execute() saves m_recordCount, and nothing of m_io.  (After
\* the last start that MaxStarts admits nobody would read it.)
SaveRestart ==
    /\ Idle /\ saved # recordCount /\ starts < MaxStarts
    /\ saved' = recordCount
    /\ UNCHANGED <<io, run, file, recordCount, closing, log, base, starts>>

\* The program ends or is killed between two operations, and is resumed from
\* its restart file.
Restart(sizes) ==
    /\ Idle /\ starts < MaxStarts
    /\ starts' = starts + 1
    /\ Start(saved, sizes, file)
    /\ UNCHANGED saved

\* reinit(), called from Python
Reinit(sizes) ==
    /\ Idle /\ starts < MaxStarts
    /\ starts' = starts + 1
    /\ Start(0, sizes, file)
    /\ UNCHANGED saved

CollectiveStep ==
    \/ \E d \in Datasets :
          \/ InitPartition(d) \/ Open(d) \/ Reduce(d) \/ RowPartition(d) \/ WriteRow(d)
          \/ \E call \in ExtentCalls : UpdateExtent(d, call)
    \/ Barrier

Operation ==
    \/ \E d \in Datasets, sizes \in [Ranks -> Sizes] : Collect(d, sizes)
    \/ \E close \in BOOLEAN : Output(close)
    \/ SaveRestart
    \/ \E sizes \in StartSizes : Restart(sizes) \/ Reinit(sizes)

Next == CollectiveStep \/ Operation

Spec == Init /\ [][Next]_vars

\* A collective call that every rank of its communicator has entered returns.
FairSpec == Spec /\ WF_vars(CollectiveStep)
=============================================================================
