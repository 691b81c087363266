----------------------------- MODULE HDFHistoryIO -----------------------------
(***************************************************************************)
(* What one HDFHistoryIO holds on one rank, and the pure parts of its      *)
(* operations (fileIO/timeHistory/HDFHistoryIO.cpp): collecting a row in   *)
(* the buffer, partitioning a row among the ranks, and choosing the next   *)
(* limit of the file; and the HDF5 dataset the rows go to, as the code     *)
(* uses it.  A row is counted in pieces along the first dimension, the     *)
(* only one whose length changes; a piece is one cell.                     *)
(***************************************************************************)
EXTENDS Integers, Sequences, FiniteSetsExt, Functions

CONSTANTS RankCount,            \* the size of MPI_COMM_GEOS
          InitAlloc,            \* how many rows file and buffer first hold
          OverallocMultiple     \* m_overallocMultiple

ASSUME RankCountAssumption == RankCount \in Nat \ {0}
ASSUME InitAllocAssumption == InitAlloc \in Nat \ {0}
ASSUME OverallocAssumption == OverallocMultiple \in Nat \ {0, 1}

Ranks == 0 .. RankCount - 1

\* A cell that nobody has written.
Fill == << >>

\* The constructor: writeHead rows are taken to be in the file already.
NewIO(size, writeHead) ==
    [dims |-> size, sizeChanged |-> TRUE,
     dataBuffer |-> [i \in 1 .. InitAlloc * size |-> Fill], bufferHead |-> 0,
     counts |-> << >>, writeLimit |-> InitAlloc, writeHead |-> writeHead,
     highwater |-> 0, globalCount |-> 0, offset |-> 0, member |-> FALSE]

\* resizeBuffer(): room for one more row, reckoned from what is in use
RoomFor(o, size) ==
    IF o.bufferHead + size > Len(o.dataBuffer)
    THEN o.bufferHead + size * OverallocMultiple ELSE Len(o.dataBuffer)

\* updateCollectingCount( size ), getBufferHead(), and the row the collector
\* packs at the address it is given
Collected(o, size, cells) ==
    [o EXCEPT !.sizeChanged = @ \/ size # o.dims,
              !.dims = size,
              !.counts = Append(@, size),
              !.bufferHead = @ + size,
              !.dataBuffer = [i \in 1 .. RoomFor(o, size) |->
                  IF i - o.bufferHead \in 1 .. size THEN cells[i - o.bufferHead]
                  ELSE IF i <= Len(o.dataBuffer) THEN o.dataBuffer[i] ELSE Fill]]

\* The end of write(): the bytes stay, the head goes back to the first.
Emptied(o) == [o EXCEPT !.sizeChanged = FALSE, !.counts = << >>, !.bufferHead = 0]

\* The pieces of the lower ranks, and of all: the sums of setupPartition()
Before(sizes, r) ==
    LET count[i \in 0 .. RankCount] == IF i = 0 THEN 0 ELSE count[i - 1] + sizes[i - 1]
    IN  count[r]
Total(sizes) == Before(sizes, RankCount)

\* (Operators ending in None, Own or Last, here and in TimeHistoryOutput, are
\* deliberate errors that show that the properties notice them.)
\* setupPartition(): every rank learns the size of each, and the ranks with
\* data become the communicator that writes (m_subcomm).
HighwaterNone(old, new) == new
Highwater(old, new)     == Max({old, new})

Partitioned(os, sizes) ==
    [r \in Ranks |->
        [os[r] EXCEPT !.offset = Before(sizes, r),
                      !.globalCount = Total(sizes),
                      !.highwater = Highwater(@, Total(sizes)),
                      !.member = sizes[r] > 0]]

\* resizeFileIfNeeded(): the limit is multiplied until the rows fit.  A limit
\* of 0 stays 0: the loop does not end.
MustGrow(o) == o.writeHead + Len(o.counts) > o.writeLimit
GrowsForever(o) == MustGrow(o) /\ o.writeLimit = 0
NextLimit(o) ==
    LET needed == o.writeHead + Len(o.counts)
        limit[k \in Nat] == IF k = 0 THEN o.writeLimit ELSE limit[k - 1] * OverallocMultiple
    IN  limit[Min({k \in 1 .. needed : limit[k] >= needed})]
-----------------------------------------------------------------------------
(* The dataset.  HDF5 is external: H5Dset_extent drops what lies outside the *)
(* new extent and fills what is new, H5Dwrite changes nothing when the       *)
(* selection does not fit (the code looks at no return value).               *)

NoDataset == [exists |-> FALSE, rows |-> 0, cols |-> 0, cell |-> << >>]

Within(rows, cols) == (0 .. rows - 1) \X (0 .. cols - 1)

Extended(f, rows, cols) ==
    [exists |-> TRUE, rows |-> rows, cols |-> cols,
     cell |-> [p \in Within(rows, cols) |-> IF p \in DOMAIN f.cell THEN f.cell[p] ELSE Fill]]

\* The rows of several ranks in one collective H5Dwrite: pieces maps each
\* position to what its rank has for it.
WrittenTo(f, pieces) ==
    IF DOMAIN pieces \subseteq DOMAIN f.cell
    THEN [f EXCEPT !.cell = [p \in DOMAIN @ |->
             IF p \in DOMAIN pieces THEN pieces[p] ELSE @[p]]]
    ELSE f
=============================================================================
