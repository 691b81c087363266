--------------------------- MODULE HistoryProperties ---------------------------
(* What the time history output promises.                                    *)
EXTENDS TimeHistoryOutput

\* Every row a rank counts as written is in the file: its pieces are those the
\* rank collected, after the pieces of the lower ranks, in the row that follows
\* the records of the earlier starts.  Sizes change from row to row and from
\* rank to rank while rows wait in the buffer.
RowsAreInFile ==
    \A d \in Datasets, r \in Ranks :
        \A n \in 1 .. io[d][r].writeHead - base :
            \A k \in 1 .. log[d][n][r] :
                LET p == <<base + n - 1, Before(log[d][n], r) + k - 1>>
                IN  /\ p \in DOMAIN file[d].cell
                    /\ file[d].cell[p] = <<starts, n, r, k>>

\* Between operations all ranks agree on how far the file is written and how
\* large it is: the next collective calls depend on it.
RanksAgree ==
    Idle => \A d \in Datasets : \A q, r \in Ranks :
        /\ io[d][q].writeHead = io[d][r].writeHead
        /\ io[d][q].writeLimit = io[d][r].writeLimit
        /\ io[d][q].highwater = io[d][r].highwater
        /\ Len(io[d][q].counts) = Len(io[d][r].counts)

\* What the restart file counts is what the first dataset has written; the
\* writes of the others follow their own collectors.
RecordsAreRows == Idle => \A r \in Ranks : recordCount = io[1][r].writeHead

\* A position in a row that all ranks count as written, now and after the step,
\* keeps what it holds.
Rows(d) == Min({io[d][r].writeHead : r \in Ranks})
StaysAt(d, p) ==
    p[1] < Rows(d) /\ p[1] < Rows(d)' =>
        p \in DOMAIN file'[d].cell /\ file'[d].cell[p] = file[d].cell[p]

\* The comment on m_recordCount (TimeHistoryOutput.cpp:58) has a restart remove
\* the records after it, so the records before it stay.
EarlierRecordsStay ==
    [][\A d \in Datasets : \A p \in DOMAIN file[d].cell : StaysAt(d, p)]_vars

\* Whether a position holds a piece collected since the start.
Recent(d, p) == file[d].cell[p] # Fill /\ file[d].cell[p][1] = starts

\* How many columns the present objects know of.
Columns(d) == Max({io[d][r].highwater : r \in Ranks})

\* Whatever grows, compresses or writes the file keeps the records in it: all of
\* those collected since the start, and those of earlier starts as far as the
\* present objects know of their columns.  Only opening it after a restart does
\* not.
OnlyOpeningErases ==
    [][\/ \E r \in Ranks : run[r].at = "open"
       \/ \A d \in Datasets : \A p \in DOMAIN file[d].cell :
             Recent(d, p) \/ p[2] < Columns(d) => StaysAt(d, p)]_vars

\* A restart opens a dataset on some of the ranks only, and these meet one
\* barrier more than the others (HDFHistoryIO::init).
UnevenRestart ==
    /\ recordCount > 0
    /\ \E r \in Ranks : run[r].at \in InitBarriers
    /\ \E d \in Datasets : Openers(io[d]) # Ranks

\* A file compressed to nothing grows forever.
EmptyCompressed == \E r \in Ranks : run[r].at = "growing"

\* Every operation returns on every rank, but for these two cases.
OperationsReturn == []<>(Idle \/ UnevenRestart \/ EmptyCompressed)
=============================================================================
