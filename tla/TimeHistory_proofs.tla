-------------------------- MODULE TimeHistory_proofs --------------------------
(* What the ranks agree on, and that what they count as written is in the     *)
(* file, for any number of ranks, datasets, sizes, rows and starts.           *)
(*                                                                            *)
(* First the invariant of the time history, which holds at the start and is   *)
(* kept by the operations of a rank, by the opening of a dataset, by a change *)
(* of its extent, and by the partitions with which write() begins; then the   *)
(* rows that the ranks with data write, and what follows from the invariant.  *)
EXTENDS HistoryProperties, SequenceTheorems, WellFoundedInduction, TLAPS
-----------------------------------------------------------------------------
(* Induction over the natural numbers as a fact about sets, and the existence  *)
(* of the functions that the models define by recursion over them.             *)

LEMMA SetInduction ==
    ASSUME NEW P, 0 \in P, \A n \in Nat : n \in P => n + 1 \in P
    PROVE  Nat \subseteq P
  <1> SUFFICES ASSUME Nat \ P # {} PROVE FALSE
    OBVIOUS
  <1>1. Nat \ P \in SUBSET Nat
    OBVIOUS
  <1>2. PICK m \in Nat \ P : \A y \in Nat \ P : <<y, m>> \notin OpToRel(<, Nat)
    BY <1>1, WFMin, NatLessThanWellFounded
  <1>3. m - 1 \in Nat /\ m - 1 < m /\ (m - 1) + 1 = m
    <2>1. m \in Nat /\ m # 0
      OBVIOUS
    <2> QED BY <2>1
  <1>4. m - 1 \notin P
    BY <1>2, <1>3
  <1>5. <<m - 1, m>> \in OpToRel(<, Nat)
    BY <1>2, <1>3 DEF OpToRel
  <1> QED BY <1>2, <1>3, <1>4, <1>5

\* A function given by its first value and a step
IsRecursive(h, a, g) == h[0] = a /\ \A n \in Nat : h[n + 1] = g[<<n, h[n]>>]

LEMMA RecursionExists ==
    ASSUME NEW S, NEW a \in S, NEW g \in [Nat \X S -> S]
    PROVE  \E h \in [Nat -> S] : IsRecursive(h, a, g)
  <1> DEFINE Good(h, n) == /\ h \in [0 .. n -> S] /\ h[0] = a
                           /\ \A k \in 0 .. n - 1 : h[k + 1] = g[<<k, h[k]>>]
             P == {n \in Nat : \E h \in [0 .. n -> S] : Good(h, n)}
  <1>1. 0 \in P
    <2> DEFINE h == [k \in 0 .. 0 |-> a]
    <2>1. h \in [0 .. 0 -> S] /\ h[0] = a /\ 0 .. 0 - 1 = {}
      OBVIOUS
    <2> HIDE DEF h
    <2> QED BY <2>1
  <1>2. ASSUME NEW n \in Nat, n \in P PROVE n + 1 \in P
    <2>1. PICK h \in [0 .. n -> S] : Good(h, n)
      BY <1>2
    <2> DEFINE i == [k \in 0 .. n + 1 |-> IF k = n + 1 THEN g[<<n, h[n]>>] ELSE h[k]]
    <2>2. \A k \in 0 .. n + 1 : k # n + 1 => k \in 0 .. n
      OBVIOUS
    <2>3. n \in 0 .. n /\ h[n] \in S /\ g[<<n, h[n]>>] \in S
      OBVIOUS
    <2>4. i \in [0 .. n + 1 -> S]
      BY <2>2, <2>3
    <2>5. 0 \in 0 .. n + 1 /\ 0 # n + 1
      OBVIOUS
    <2>6. i[0] = a
      BY <2>1, <2>5
    <2>7. ASSUME NEW k \in 0 .. (n + 1) - 1 PROVE i[k + 1] = g[<<k, i[k]>>]
      <3>1. k \in 0 .. n + 1 /\ k # n + 1 /\ k + 1 \in 0 .. n + 1
        OBVIOUS
      <3>2. CASE k = n
        BY <3>1, <3>2
      <3>3. CASE k # n
        <4>1. k \in 0 .. n - 1 /\ k + 1 # n + 1
          BY <3>3
        <4> QED BY <4>1, <3>1, <2>1
      <3> QED BY <3>2, <3>3
    <2> HIDE DEF i
    <2>8. n + 1 \in Nat
      OBVIOUS
    <2> QED BY <2>4, <2>6, <2>7, <2>8
  <1>3. \A n \in Nat : n \in P
    <2> HIDE DEF P
    <2> QED BY <1>1, <1>2, SetInduction
  <1> DEFINE at(n) == CHOOSE h \in [0 .. n -> S] : Good(h, n)
  <1>4. \A n \in Nat : Good(at(n), n)
    BY <1>3
  <1> HIDE DEF P, at
  \* Two of them agree where both are defined.
  <1>5. ASSUME NEW n \in Nat PROVE at(n + 1)[n] = at(n)[n]
    <2> DEFINE Q == {k \in Nat : k <= n => at(n + 1)[k] = at(n)[k]}
    <2>1. n + 1 \in Nat /\ Good(at(n), n) /\ Good(at(n + 1), n + 1)
      BY <1>4
    <2>2. 0 \in Q
      BY <2>1
    <2>3. ASSUME NEW k \in Nat, k \in Q PROVE k + 1 \in Q
      <3> SUFFICES ASSUME k + 1 <= n PROVE at(n + 1)[k + 1] = at(n)[k + 1]
        OBVIOUS
      <3>1. k <= n /\ k \in 0 .. n - 1 /\ k \in 0 .. (n + 1) - 1
        OBVIOUS
      <3>2. at(n + 1)[k] = at(n)[k]
        BY <2>3, <3>1
      <3>3. at(n + 1)[k + 1] = g[<<k, at(n + 1)[k]>>]
        BY <2>1, <3>1
      <3>4. at(n)[k + 1] = g[<<k, at(n)[k]>>]
        BY <2>1, <3>1
      <3> QED BY <3>2, <3>3, <3>4
    <2>4. n \in Q
      <3> HIDE DEF Q
      <3> QED BY <2>2, <2>3, SetInduction
    <2> QED BY <2>4
  <1> DEFINE f == [n \in Nat |-> at(n)[n]]
  <1>6. f \in [Nat -> S] /\ f[0] = a
    <2>1. \A n \in Nat : n \in 0 .. n
      OBVIOUS
    <2> QED BY <1>4, <2>1
  <1>7. ASSUME NEW n \in Nat PROVE f[n + 1] = g[<<n, f[n]>>]
    <2>1. n + 1 \in Nat /\ n \in 0 .. (n + 1) - 1
      OBVIOUS
    <2>2. Good(at(n + 1), n + 1)
      BY <1>4, <2>1
    <2>3. at(n + 1)[n + 1] = g[<<n, at(n + 1)[n]>>]
      BY <2>1, <2>2
    <2> QED BY <2>1, <2>3, <1>5
  <1>8. IsRecursive(f, a, g)
    <2> HIDE DEF f
    <2> QED BY <1>6, <1>7 DEF IsRecursive
  <1> HIDE DEF f
  <1> QED BY <1>6, <1>8
-----------------------------------------------------------------------------
(* The invariant.  Target(d) is how far dataset d reaches when the buffers are   *)
(* empty, Rest(d, r) how much of that rank r has not written.                  *)

RowCalls   == {"splitRow", "fit", "fitted", "writeRow"}
EarlyCalls == {"reduce", "growing", "grow", "grown"}
WriteCalls == RowCalls \cup EarlyCalls \cup {"written"}
Calls == InitBarriers \cup WriteCalls \cup CloseBarriers \cup {"idle", "split", "open", "compress"}

Target(d)    == base + Len(log[d])
InRow(d, r) == run[r].ds = d /\ run[r].at \in RowCalls
Early(d, r) == run[r].ds = d /\ run[r].at \in EarlyCalls
Written(d, r) == run[r].ds = d /\ run[r].at = "written"
Rest(d, r) == Len(io[d][r].counts) - (IF InRow(d, r) THEN run[r].row ELSE 0)

Cell == {Fill} \cup (Nat \X Nat \X Nat \X Nat)

Object == [dims : Nat, sizeChanged : BOOLEAN, dataBuffer : Seq(Cell), bufferHead : Nat,
           counts : Seq(Nat), writeLimit : Nat, writeHead : Nat, highwater : Nat,
           globalCount : Nat, offset : Nat, member : BOOLEAN]

IsFile(f) ==
    /\ f = [exists |-> f.exists, rows |-> f.rows, cols |-> f.cols, cell |-> f.cell]
    /\ f.exists \in BOOLEAN /\ f.rows \in Nat /\ f.cols \in Nat
    /\ DOMAIN f.cell = Within(f.rows, f.cols)

TypeInv ==
    /\ io \in [Datasets -> [Ranks -> Object]]
    /\ run \in [Ranks -> [at : Calls, ds : Datasets, row : Nat, cursor : Nat]]
    /\ file = [d \in Datasets |-> file[d]]
    /\ \A d \in Datasets : IsFile(file[d])
    /\ recordCount \in Nat /\ saved \in Nat /\ base \in Nat /\ starts \in Nat
    /\ closing \in BOOLEAN
    /\ log \in [Datasets -> Seq([Ranks -> Nat])]

\* Where the rows of the buffer begin and end
ArePlaces(places, o) ==
    /\ places[0] = 0 /\ places[Len(o.counts)] = o.bufferHead
    /\ \A k \in 1 .. Len(o.counts) :
          places[k] = places[k - 1] + o.counts[k] /\ places[k] <= o.bufferHead

\* The buffer of a rank holds the last rows of the log.
BufferInv(d, r) ==
    LET o == io[d][r]  old == Len(log[d]) - Len(o.counts)
    IN  /\ Len(o.counts) <= Len(log[d])
        /\ \A i \in 1 .. Len(o.counts) : o.counts[i] = log[d][old + i][r]
        /\ o.bufferHead <= Len(o.dataBuffer)
        /\ \E places \in [0 .. Len(o.counts) -> Nat] :
              /\ ArePlaces(places, o)
              /\ \A k \in 1 .. Len(o.counts) : \A i \in 1 .. o.counts[k] :
                    o.dataBuffer[places[k - 1] + i] = <<starts, old + k, r, i>>
              /\ InRow(d, r) => run[r].cursor = places[run[r].row]

ObjectInv(d, r) ==
    LET o == io[d][r]
    IN  /\ BufferInv(d, r)
        /\ o.writeHead = Target(d) - Rest(d, r)
        /\ log[d] # << >> => o.dims = log[d][Len(log[d])][r]
        /\ ~o.sizeChanged => \A i \in 1 .. Len(o.counts) : o.counts[i] = o.dims
        /\ InRow(d, r) => run[r].row < Len(o.counts)
        /\ Early(d, r) => run[r].row = 0 /\ run[r].cursor = 0
        /\ Written(d, r) => o.counts = << >> /\ ~o.sizeChanged
        /\ o.writeHead > base => o.writeHead <= o.writeLimit
        /\ \A n \in 1 .. o.writeHead - base : Total(log[d][n]) <= o.highwater

\* What all ranks have in common
AgreeInv(d) == \A q, r \in Ranks :
    /\ io[d][q].writeLimit = io[d][r].writeLimit
    /\ io[d][q].highwater = io[d][r].highwater
    /\ io[d][q].globalCount = io[d][r].globalCount
    /\ io[d][q].globalCount # 0 => \E m \in Ranks : io[d][m].member
    /\ ~Written(d, q) /\ ~Written(d, r) => Len(io[d][q].counts) = Len(io[d][r].counts)

\* How the last partition was made
IsPartition(d, sizes) == \A r \in Ranks :
    LET o == io[d][r]
    IN  /\ o.offset = Before(sizes, r)
        /\ o.globalCount = Total(sizes)
        /\ Total(sizes) <= o.highwater
        /\ o.member = (sizes[r] > 0)

Dims(d) == [r \in Ranks |-> io[d][r].dims]

Known(d) == (\A r \in Ranks : ~io[d][r].sizeChanged) \/ (\A r \in Ranks : io[d][r].counts = << >>)
                => IsPartition(d, Dims(d))
Fits(d)  == \A r \in Ranks : io[d][r].member =>
                io[d][r].writeLimit <= file[d].rows /\ io[d][r].highwater <= file[d].cols
Ready(d) == Known(d) /\ Fits(d)

HeadFits(d) == \A r \in Ranks : Target(d) <= io[d][r].writeLimit
SameChange(d) == \A q, r \in Ranks : io[d][q].sizeChanged = io[d][r].sizeChanged
SameRow(d) == \A q, r \in Ranks : run[q].row = run[r].row
Flushed(d) == \A r \in Ranks : io[d][r].counts = << >>

\* The row rank r is at is the one of the partition.
RowInv(d, r) == IsPartition(d, log[d][io[d][r].writeHead - base + 1])

\* R is at call a, the others are at b.
Together(d, R, a, b) ==
    \A r \in Ranks : run[r].ds = d /\ run[r].at = IF r \in R THEN a ELSE b
All(d, a) == \A r \in Ranks : run[r].ds = d /\ run[r].at = a

Starting(d) ==
    /\ \A e \in Datasets : log[e] = << >>
    /\ recordCount = base
    /\ \A e \in Datasets : e < d => Ready(e)
    /\ \A e \in Datasets : e > d => \A r \in Ranks : io[e][r].highwater = 0
    /\ \/ All(d, "split") /\ \A r \in Ranks : io[d][r].highwater = 0
       \/ /\ Together(d, Openers(io[d]), "open", "registered")
          /\ IsPartition(d, Dims(d))
          /\ \A r \in Ranks : io[d][r].highwater = io[d][r].globalCount
       \/ /\ All(d, "extended") \/ All(d, "registered") \/ All(d, "timed")
          /\ Ready(d)

\* Ranks that have opened a dataset after a restart, and ranks that have not
Apart(d) ==
    LET R == Openers(io[d])
    IN  /\ \A e \in Datasets : log[e] = << >>
        /\ recordCount = base
        /\ R # {} /\ R # Ranks
        /\ \/ Together(d, R, "extended", "registered")
           \/ Together(d, R, "registered", "timed")
           \/ /\ \A r \in R : run[r].ds = d /\ run[r].at = "timed"
              /\ \A r \in Ranks \ R : run[r].at \in {"split", "idle"}

WritingRow(d) ==
    /\ Subcomm(d) # {}
    /\ \A r \in Subcomm(d) : run[r].ds = d /\ run[r].at = "writeRow" /\ RowInv(d, r)
    /\ \A q, r \in Subcomm(d) : run[q].row = run[r].row /\ io[d][q].sizeChanged = io[d][r].sizeChanged
    /\ \A r \in Subcomm(d), q \in Ranks \ Subcomm(d) :
          /\ run[q].ds = d
          /\ IF io[d][r].sizeChanged /\ run[r].row + 1 < Len(io[d][r].counts)
             THEN run[q].at = "splitRow" /\ run[q].row = run[r].row + 1 /\ io[d][q].sizeChanged
             ELSE run[q].at = "written"
    /\ \A r \in Subcomm(d) : ~io[d][r].sizeChanged =>
          \A n \in io[d][r].writeHead - base + 1 .. Len(log[d]) : IsPartition(d, log[d][n])
    /\ Fits(d) /\ HeadFits(d)

Changed(d) == \A r \in Ranks : io[d][r].sizeChanged

Writing(d) ==
    /\ recordCount = Target(1)
    /\ \A e \in Datasets : e # d => Ready(e)
    /\ \A e \in Datasets : e < d => Flushed(e)
    /\ \/ All(d, "reduce") /\ Ready(d)
       \/ All(d, "growing")
       \/ /\ Together(d, Subcomm(d), "grow", "grown") \/ (All(d, "grown") /\ Fits(d))
          /\ SameChange(d) /\ Known(d) /\ HeadFits(d)
       \/ All(d, "splitRow") /\ SameRow(d) /\ Changed(d) /\ HeadFits(d)
       \/ /\ Together(d, Subcomm(d), "fit", "fitted") \/ (All(d, "fitted") /\ Fits(d))
          /\ SameRow(d) /\ Changed(d) /\ HeadFits(d)
          /\ \A r \in Ranks : RowInv(d, r)
       \/ WritingRow(d)
       \/ All(d, "written") /\ Ready(d)

Closing(d) ==
    /\ recordCount = Target(1)
    /\ \A e \in Datasets : e # d => Ready(e)
    /\ \A e \in Datasets : Flushed(e)
    /\ Known(d)
    /\ \/ All(d, "closed") /\ d = 1 /\ Fits(d)
       \/ Together(d, Subcomm(d), "compress", "compressed") /\ Fits(d)
       \/ /\ All(d, "compressed")
          /\ \A r \in Ranks : io[d][r].member =>
                io[d][r].writeHead <= file[d].rows /\ io[d][r].highwater <= file[d].cols

Waiting ==
    /\ Idle
    /\ \A d \in Datasets : Ready(d)
    /\ \A r \in Ranks : recordCount = io[1][r].writeHead

\* RowsAreInFile for one dataset and rank
RowsIn(d, r) ==
    \A n \in 1 .. io[d][r].writeHead - base :
        \A k \in 1 .. log[d][n][r] :
            LET p == <<base + n - 1, Before(log[d][n], r) + k - 1>>
            IN  p \in DOMAIN file[d].cell /\ file[d].cell[p] = <<starts, n, r, k>>

HInv ==
    /\ TypeInv
    /\ \A d \in Datasets : AgreeInv(d)
    /\ \A d \in Datasets, r \in Ranks : ObjectInv(d, r) /\ RowsIn(d, r)
    /\ \/ Waiting
       \/ \E d \in Datasets : Starting(d) \/ Apart(d) \/ Writing(d) \/ Closing(d)
-----------------------------------------------------------------------------
(* The sums of setupPartition() and the limit of resizeFileIfNeeded().         *)

LEMMA Sums ==
    ASSUME NEW sizes \in [Ranks -> Nat]
    PROVE  /\ Before(sizes, 0) = 0
           /\ \A r \in Ranks : Before(sizes, r + 1) = Before(sizes, r) + sizes[r]
           /\ \A r \in 0 .. RankCount : Before(sizes, r) \in Nat
  <1> DEFINE g == [p \in Nat \X Nat |-> IF p[1] \in Ranks THEN p[2] + sizes[p[1]] ELSE p[2]]
             Is(c) == c = [i \in 0 .. RankCount |-> IF i = 0 THEN 0 ELSE c[i - 1] + sizes[i - 1]]
             count == CHOOSE c : Is(c)
  <1>1. RankCount \in Nat
    BY RankCountAssumption
  <1>2. g \in [Nat \X Nat -> Nat]
    OBVIOUS
  <1>3. PICK h \in [Nat -> Nat] : IsRecursive(h, 0, g)
    <2>1. 0 \in Nat
      OBVIOUS
    <2> HIDE DEF g
    <2> QED BY <1>2, <2>1, RecursionExists
  <1>13. h[0] = 0 /\ \A n \in Nat : h[n + 1] = g[<<n, h[n]>>]
    BY <1>3 DEF IsRecursive
  <1>4. \A r \in Ranks : h[r + 1] = h[r] + sizes[r]
    <2> SUFFICES ASSUME NEW r \in Ranks PROVE h[r + 1] = h[r] + sizes[r]
      OBVIOUS
    <2>1. r \in Nat
      BY <1>1 DEF Ranks
    <2> QED BY <1>13, <2>1
  <1> HIDE DEF g
  <1>5. \E c : Is(c)
    <2> DEFINE c == [i \in 0 .. RankCount |-> h[i]]
    <2>1. ASSUME NEW i \in 0 .. RankCount, i # 0 PROVE c[i] = c[i - 1] + sizes[i - 1]
      <3>1. i - 1 \in Ranks /\ i - 1 \in 0 .. RankCount /\ (i - 1) + 1 = i
        BY <1>1, <2>1 DEF Ranks
      <3> QED BY <3>1, <1>4
    <2>2. c[0] = 0
      BY <1>1, <1>13
    <2>3. c = [i \in 0 .. RankCount |-> c[i]]
      OBVIOUS
    <2> HIDE DEF c
    <2>4. Is(c)
      BY <2>1, <2>2, <2>3
    <2> HIDE DEF Is
    <2> QED BY <2>4
  <1>6. Is(count)
    <2> HIDE DEF Is
    <2> QED BY <1>5
  <1>7. \A r \in 0 .. RankCount : Before(sizes, r) = count[r]
    BY DEF Before
  <1>8. \A r \in 0 .. RankCount : count[r] = IF r = 0 THEN 0 ELSE count[r - 1] + sizes[r - 1]
    <2> HIDE DEF count
    <2> QED BY <1>6
  <1> HIDE DEF count
  <1>9. \A r \in Ranks : count[r + 1] = count[r] + sizes[r]
    <2> SUFFICES ASSUME NEW r \in Ranks PROVE count[r + 1] = count[r] + sizes[r]
      OBVIOUS
    <2>1. r + 1 \in 0 .. RankCount /\ r + 1 # 0 /\ (r + 1) - 1 = r
      BY <1>1 DEF Ranks
    <2> QED BY <2>1, <1>8
  <1>10. \A n \in Nat : n <= RankCount => count[n] \in Nat
    <2> DEFINE P == {n \in Nat : n <= RankCount => count[n] \in Nat}
    <2>1. 0 \in P
      BY <1>1, <1>8
    <2>2. ASSUME NEW n \in Nat, n \in P PROVE n + 1 \in P
      <3> SUFFICES ASSUME n + 1 <= RankCount PROVE count[n + 1] \in Nat
        OBVIOUS
      <3>1. n \in Ranks /\ n <= RankCount
        BY <1>1 DEF Ranks
      <3>2. count[n] \in Nat /\ sizes[n] \in Nat
        BY <2>2, <3>1
      <3> QED BY <3>1, <3>2, <1>9
    <2> HIDE DEF P
    <2>3. Nat \subseteq P
      BY <2>1, <2>2, SetInduction
    <2> QED BY <2>3 DEF P
  <1>11. \A r \in Ranks : r \in 0 .. RankCount /\ r + 1 \in 0 .. RankCount
    BY <1>1 DEF Ranks
  <1>12. 0 \in 0 .. RankCount /\ \A r \in 0 .. RankCount : r \in Nat /\ r <= RankCount
    BY <1>1
  <1> QED BY <1>7, <1>8, <1>9, <1>10, <1>11, <1>12

\* The pieces of a rank come after those of the lower ranks and before the rest.
LEMMA SumsApart ==
    ASSUME NEW sizes \in [Ranks -> Nat]
    PROVE  /\ Total(sizes) \in Nat
           /\ \A r \in Ranks : Before(sizes, r) \in Nat
           /\ \A r \in Ranks : Before(sizes, r) + sizes[r] <= Total(sizes)
           /\ \A q, r \in Ranks : q < r => Before(sizes, q) + sizes[q] <= Before(sizes, r)
           /\ (\A r \in Ranks : sizes[r] = 0) => Total(sizes) = 0
  <1> DEFINE b(r) == Before(sizes, r)
  <1>1. RankCount \in Nat /\ \A r \in Ranks : r \in Nat /\ r < RankCount
    BY RankCountAssumption DEF Ranks
  <1>2. b(0) = 0 /\ \A r \in Ranks : b(r + 1) = b(r) + sizes[r]
    BY Sums
  <1>3. \A r \in 0 .. RankCount : b(r) \in Nat
    BY Sums
  <1> HIDE DEF b
  <1>4. ASSUME NEW q \in Ranks
        PROVE  \A n \in Nat : n <= RankCount /\ q < n => b(q) + sizes[q] <= b(n)
    <2> DEFINE P == {n \in Nat : n <= RankCount /\ q < n => b(q) + sizes[q] <= b(n)}
    <2>1. 0 \in P
      BY <1>1
    <2>2. ASSUME NEW n \in Nat, n \in P PROVE n + 1 \in P
      <3> SUFFICES ASSUME n + 1 <= RankCount, q < n + 1 PROVE b(q) + sizes[q] <= b(n + 1)
        OBVIOUS
      <3>1. n \in Ranks /\ n <= RankCount
        BY <1>1 DEF Ranks
      <3>2. b(n + 1) = b(n) + sizes[n] /\ sizes[n] \in Nat
        BY <3>1, <1>2
      <3>3. b(n) \in Nat
        BY <3>1, <1>1, <1>3
      <3>4. CASE q = n
        BY <3>2, <3>3, <3>4
      <3>5. CASE q # n
        <4>1. q < n
          BY <3>5, <1>1
        <4>2. b(q) + sizes[q] <= b(n)
          BY <4>1, <3>1, <2>2
        <4>3. b(q) \in Nat /\ sizes[q] \in Nat
          BY <1>1, <1>3
        <4> QED BY <4>2, <4>3, <3>2, <3>3
      <3> QED BY <3>4, <3>5
    <2> HIDE DEF P
    <2>3. Nat \subseteq P
      BY <2>1, <2>2, SetInduction
    <2> QED BY <2>3 DEF P
  <1>5. ASSUME \A r \in Ranks : sizes[r] = 0 PROVE b(RankCount) = 0
    <2> DEFINE P == {n \in Nat : n <= RankCount => b(n) = 0}
    <2>1. 0 \in P
      BY <1>2
    <2>2. ASSUME NEW n \in Nat, n \in P PROVE n + 1 \in P
      <3> SUFFICES ASSUME n + 1 <= RankCount PROVE b(n + 1) = 0
        OBVIOUS
      <3>1. n \in Ranks /\ n <= RankCount
        BY <1>1 DEF Ranks
      <3>2. b(n) = 0 /\ sizes[n] = 0
        BY <3>1, <2>2, <1>5
      <3>3. b(n + 1) = b(n) + sizes[n]
        BY <3>1, <1>2
      <3> QED BY <3>2, <3>3
    <2> HIDE DEF P
    <2>3. Nat \subseteq P
      BY <2>1, <2>2, SetInduction
    <2> QED BY <2>3, <1>1 DEF P
  <1>6. Total(sizes) = b(RankCount)
    BY DEF Total, b
  <1>7. RankCount \in 0 .. RankCount /\ \A r \in Ranks : r \in 0 .. RankCount
    BY <1>1
  <1>8. Total(sizes) \in Nat /\ \A r \in Ranks : b(r) \in Nat
    BY <1>3, <1>6, <1>7
  <1>9. \A r \in Ranks : b(r) + sizes[r] <= Total(sizes)
    BY <1>1, <1>4, <1>6
  <1>10. \A q, r \in Ranks : q < r => b(q) + sizes[q] <= b(r)
    BY <1>1, <1>4
  <1> QED BY <1>5, <1>6, <1>8, <1>9, <1>10 DEF b

LEMMA MinOfNaturals ==
    ASSUME NEW S \in SUBSET Nat, S # {}
    PROVE  Min(S) \in S /\ \A x \in S : Min(S) <= x
  <1>1. PICK m \in S : \A y \in S : <<y, m>> \notin OpToRel(<, Nat)
    BY WFMin, NatLessThanWellFounded
  <1>2. \A y \in S : m <= y
    <2>1. \A y \in S : ~(y < m)
      BY <1>1 DEF OpToRel
    <2>2. \A a, b \in Nat : ~(a < b) => b <= a
      OBVIOUS
    <2> QED BY <2>1, <2>2
  <1> QED BY <1>2 DEF Min

LEMMA Multiplied == ASSUME NEW x \in Nat \ {0}, NEW m \in Nat \ {0, 1} PROVE x * m \in Nat /\ x * m >= x + 1
  OBVIOUS

LEMMA Reaches ==
    /\ \A x, n \in Nat : x >= n /\ x # 0 => \A y \in Nat : y >= x + 1 => y >= n + 1 /\ y # 0
    /\ \A x \in Nat : x >= 0
  OBVIOUS

\* The limit that the loop ends with holds the rows.
LEMMA LimitFits ==
    ASSUME NEW o, o.writeHead \in Nat, Len(o.counts) \in Nat, o.writeLimit \in Nat \ {0}, MustGrow(o)
    PROVE  NextLimit(o) \in Nat /\ o.writeHead + Len(o.counts) <= NextLimit(o)
  <1> DEFINE first  == o.writeLimit
             needed == o.writeHead + Len(o.counts)
             m      == OverallocMultiple
             g      == [p \in Nat \X Nat |-> p[2] * m]
             Is(c)  == c = [k \in Nat |-> IF k = 0 THEN first ELSE c[k - 1] * m]
             limit  == CHOOSE c : Is(c)
  <1>1. m \in Nat \ {0, 1} /\ first \in Nat \ {0} /\ needed \in Nat /\ needed > 0
    BY OverallocAssumption DEF MustGrow
  <1>2. NextLimit(o) = limit[Min({k \in 1 .. needed : limit[k] >= needed})]
    BY DEF NextLimit
  <1> HIDE DEF first, needed
  <1>3. g \in [Nat \X Nat -> Nat]
    BY <1>1
  <1>4. PICK h \in [Nat -> Nat] : IsRecursive(h, first, g)
    <2> HIDE DEF g
    <2>1. first \in Nat
      BY <1>1
    <2> HIDE DEF m
    <2> QED BY <2>1, <1>3, RecursionExists
  <1>13. h[0] = first /\ \A n \in Nat : h[n + 1] = g[<<n, h[n]>>]
    BY <1>4 DEF IsRecursive
  <1>5. \A n \in Nat : h[n + 1] = h[n] * m
    BY <1>13
  <1> HIDE DEF g
  <1>6. Is(h)
    <2>1. ASSUME NEW i \in Nat, i # 0 PROVE h[i] = h[i - 1] * m
      <3>1. i - 1 \in Nat /\ (i - 1) + 1 = i
        BY <2>1
      <3> QED BY <3>1, <1>5
    <2>2. h = [k \in Nat |-> h[k]]
      BY <1>4
    <2> QED BY <2>1, <2>2, <1>13
  <1>7. Is(limit)
    <2> HIDE DEF Is
    <2> QED BY <1>6
  <1> HIDE DEF limit
  <1>8. limit[0] = first /\ \A n \in Nat : limit[n + 1] = limit[n] * m
    <2>1. \A k \in Nat : limit[k] = IF k = 0 THEN first ELSE limit[k - 1] * m
      BY <1>7
    <2>2. \A n \in Nat : n + 1 \in Nat /\ n + 1 # 0 /\ (n + 1) - 1 = n
      OBVIOUS
    <2> HIDE DEF m
    <2>3. limit[0] = first
      BY <2>1
    <2>4. ASSUME NEW n \in Nat PROVE limit[n + 1] = limit[n] * m
      BY <2>1, <2>2
    <2> QED BY <2>3, <2>4
  <1> HIDE DEF m, Is
  <1>9. \A n \in Nat : limit[n] \in Nat \ {0} /\ limit[n] >= n
    <2> DEFINE P == {n \in Nat : limit[n] \in Nat \ {0} /\ limit[n] >= n}
    <2>1. 0 \in P
      <3>1. limit[0] \in Nat /\ limit[0] # 0
        BY <1>1, <1>8
      <3>2. limit[0] >= 0
        BY <3>1, Reaches
      <3> QED BY <3>1, <3>2
    <2>2. ASSUME NEW n \in Nat, n \in P PROVE n + 1 \in P
      <3>1. limit[n] \in Nat \ {0} /\ limit[n] >= n
        BY <2>2
      <3>2. limit[n + 1] \in Nat /\ limit[n + 1] >= limit[n] + 1
        BY <3>1, <1>1, <1>8, Multiplied
      <3>3. limit[n + 1] \in Nat \ {0} /\ limit[n + 1] >= n + 1
        BY <3>1, <3>2, Reaches
      <3> QED BY <3>3
    <2> HIDE DEF P
    <2>3. Nat \subseteq P
      BY <2>1, <2>2, SetInduction
    <2> QED BY <2>3 DEF P
  <1> DEFINE S == {k \in 1 .. needed : limit[k] >= needed}
  <1>10. needed \in S /\ S \in SUBSET Nat
    <2>1. needed \in 1 .. needed /\ needed \in Nat
      BY <1>1
    <2>2. limit[needed] >= needed
      BY <2>1, <1>9
    <2>3. 1 .. needed \subseteq Nat
      BY <2>1
    <2> QED BY <2>1, <2>2, <2>3
  <1>11. Min(S) \in S
    <2> HIDE DEF S
    <2> QED BY <1>10, MinOfNaturals
  <1>12. limit[Min(S)] \in Nat /\ limit[Min(S)] >= needed
    <2>1. Min(S) \in Nat
      BY <1>10, <1>11
    <2>2. limit[Min(S)] >= needed
      BY <1>11
    <2> QED BY <2>1, <2>2, <1>9
  <1> QED BY <1>2, <1>12, <1>1 DEF needed
-----------------------------------------------------------------------------
(* The start.                                                                  *)

LEMMA TheRanks ==
    /\ RankCount \in Nat /\ 0 \in Ranks /\ \A r \in Ranks : r \in Nat
    /\ 1 \in Datasets /\ DatasetCount \in Nat /\ \A d \in Datasets : d \in Nat /\ d <= DatasetCount
  BY RankCountAssumption, DatasetCountAssumption DEF Ranks, Datasets

LEMMA Product == ASSUME NEW x \in Nat, NEW y \in Nat PROVE x * y \in Nat
  OBVIOUS

LEMMA NewObject ==
    ASSUME NEW size \in Nat, NEW head \in Nat
    PROVE  /\ NewIO(size, head) \in Object
           /\ NewIO(size, head).dims = size /\ NewIO(size, head).sizeChanged
           /\ NewIO(size, head).bufferHead = 0 /\ NewIO(size, head).counts = << >>
           /\ NewIO(size, head).writeLimit = InitAlloc
           /\ NewIO(size, head).writeHead = head /\ NewIO(size, head).highwater = 0
           /\ NewIO(size, head).globalCount = 0 /\ ~NewIO(size, head).member
  <1> DEFINE buffer == [i \in 1 .. InitAlloc * size |-> Fill]
  <1>1. buffer \in Seq(Cell)
    <2>1. InitAlloc * size \in Nat
      BY InitAllocAssumption, Product
    <2>2. Fill \in Cell
      BY DEF Cell
    <2> QED BY <2>1, <2>2, SeqDef
  <1>2. << >> \in Seq(Nat)
    BY EmptySeq
  <1>3. NewIO(size, head) = [dims |-> size, sizeChanged |-> TRUE, dataBuffer |-> buffer,
            bufferHead |-> 0, counts |-> << >>, writeLimit |-> InitAlloc, writeHead |-> head,
            highwater |-> 0, globalCount |-> 0, offset |-> 0, member |-> FALSE]
    BY DEF NewIO
  <1> HIDE DEF buffer
  <1> QED BY <1>1, <1>2, <1>3, InitAllocAssumption DEF Object

LEMMA EmptyLength == Len(<< >>) = 0
  BY EmptySeq

\* A program that has just started
AtStart ==
    /\ \E sizes \in StartSizes :
          io = [d \in Datasets |-> [r \in Ranks |-> NewIO(sizes[d][r], base)]]
    /\ run = [r \in Ranks |-> Here("split", 1)]
    /\ file = [d \in Datasets |-> file[d]] /\ \A d \in Datasets : IsFile(file[d])
    /\ recordCount = base /\ base \in Nat /\ saved \in Nat /\ starts \in Nat /\ closing \in BOOLEAN
    /\ log = [d \in Datasets |-> << >>]

LEMMA StartObjects ==
    ASSUME AtStart, NEW d \in Datasets, NEW r \in Ranks
    PROVE  /\ io[d][r] \in Object /\ io[d][r].sizeChanged
           /\ io[d][r].bufferHead = 0 /\ io[d][r].counts = << >>
           /\ io[d][r].writeLimit = InitAlloc /\ io[d][r].writeHead = base
           /\ io[d][r].highwater = 0 /\ io[d][r].globalCount = 0 /\ ~io[d][r].member
           /\ log[d] = << >>
           /\ run[r].at = "split" /\ run[r].ds = 1
  <1>1. PICK sizes \in StartSizes :
            io = [e \in Datasets |-> [q \in Ranks |-> NewIO(sizes[e][q], base)]]
    BY DEF AtStart
  <1>2. sizes[d][r] \in Nat
    BY StartSizesAssumption, SizesAssumption
  <1>3. io[d][r] = NewIO(sizes[d][r], base)
    BY <1>1
  <1>4. base \in Nat /\ log[d] = << >> /\ run[r].at = "split" /\ run[r].ds = 1
    BY DEF AtStart, Here
  <1> QED BY <1>2, <1>3, <1>4, NewObject

LEMMA StartInv == AtStart => HInv
  <1> SUFFICES ASSUME AtStart PROVE HInv
    OBVIOUS
  <1>1. TypeInv
    <2>1. io \in [Datasets -> [Ranks -> Object]]
      <3>1. \A d \in Datasets, r \in Ranks : io[d][r] \in Object
        BY StartObjects
      <3>2. io = [d \in Datasets |-> [r \in Ranks |-> io[d][r]]]
        BY DEF AtStart
      <3> QED BY <3>1, <3>2
    <2>2. run \in [Ranks -> [at : Calls, ds : Datasets, row : Nat, cursor : Nat]]
      <3>1. "split" \in Calls
        BY DEF Calls
      <3>2. Here("split", 1) \in [at : Calls, ds : Datasets, row : Nat, cursor : Nat]
        BY <3>1, TheRanks DEF Here
      <3> QED BY <3>2 DEF AtStart
    <2>3. log \in [Datasets -> Seq([Ranks -> Nat])]
      BY EmptySeq DEF AtStart
    <2> QED BY <2>1, <2>2, <2>3 DEF AtStart, TypeInv
  <1>2. ASSUME NEW d \in Datasets PROVE AgreeInv(d)
    BY StartObjects DEF AgreeInv
  <1>3. ASSUME NEW d \in Datasets, NEW r \in Ranks PROVE ObjectInv(d, r)
    <2>1. /\ ~InRow(d, r) /\ ~Early(d, r) /\ ~Written(d, r)
      BY StartObjects DEF InRow, Early, Written, RowCalls, EarlyCalls
    <2>2. Target(d) = base /\ Rest(d, r) = 0 /\ base \in Nat /\ Target(d) - Rest(d, r) = base
      BY <2>1, StartObjects, EmptyLength DEF Target, Rest, AtStart
    <2>3. BufferInv(d, r)
      <3> DEFINE places == [k \in 0 .. 0 |-> 0]
      <3>1. Len(io[d][r].counts) = 0 /\ Len(log[d]) = 0
        BY StartObjects, EmptyLength
      <3>2. Len(io[d][r].dataBuffer) \in Nat
        BY StartObjects, LenProperties DEF Object
      <3>3. places \in [0 .. 0 -> Nat] /\ ArePlaces(places, io[d][r])
        BY <3>1, StartObjects DEF ArePlaces
      <3>4. 1 .. 0 = {}
        OBVIOUS
      <3> HIDE DEF places
      <3> QED BY <2>1, <3>1, <3>2, <3>3, <3>4, StartObjects DEF BufferInv
    <2>4. 1 .. 0 = {} /\ base - base = 0 /\ ~(base > base)
      BY <2>2
    <2>5. io[d][r].writeHead = base
      BY StartObjects
    <2> QED BY <2>1, <2>2, <2>3, <2>4, <2>5, StartObjects DEF ObjectInv
  <1>4. ASSUME NEW d \in Datasets, NEW r \in Ranks PROVE RowsIn(d, r)
    <2>1. io[d][r].writeHead = base /\ base \in Nat
      BY StartObjects DEF AtStart
    <2>2. 1 .. io[d][r].writeHead - base = {}
      BY <2>1
    <2> QED BY <2>2 DEF RowsIn
  <1>5. Starting(1)
    <2>1. \A e \in Datasets : ~(e < 1)
      BY TheRanks DEF Datasets
    <2>2. \A e \in Datasets : log[e] = << >> /\ \A r \in Ranks : io[e][r].highwater = 0
      <3>1. \A e \in Datasets : log[e] = << >>
        BY DEF AtStart
      <3> QED BY <3>1, StartObjects
    <2>3. All(1, "split")
      BY StartObjects, TheRanks DEF All
    <2>4. recordCount = base
      BY DEF AtStart
    <2> QED BY <2>1, <2>2, <2>3, <2>4, TheRanks DEF Starting
  <1> QED BY <1>1, <1>2, <1>3, <1>4, <1>5, TheRanks DEF HInv

LEMMA InitHInv == Init => HInv
  <1> SUFFICES ASSUME Init PROVE AtStart
    BY StartInv
  <1>1. base = 0 /\ recordCount = 0 /\ saved = 0 /\ starts = 1 /\ closing = FALSE
    BY DEF Init
  <1>2. IsFile(NoDataset)
    <2>1. Within(0, 0) = {}
      BY DEF Within
    <2>2. DOMAIN << >> = {}
      OBVIOUS
    <2> QED BY <2>1, <2>2 DEF IsFile, NoDataset
  <1>3. PICK sizes \in StartSizes : io = [d \in Datasets |-> [r \in Ranks |-> NewIO(sizes[d][r], 0)]]
    BY DEF Init
  <1>4. io = [d \in Datasets |-> [r \in Ranks |-> NewIO(sizes[d][r], base)]]
    BY <1>1, <1>3
  <1>5. file = [d \in Datasets |-> file[d]] /\ \A d \in Datasets : IsFile(file[d])
    BY <1>2 DEF Init
  <1>6. run = [r \in Ranks |-> Here("split", 1)] /\ log = [d \in Datasets |-> << >>]
    BY DEF Init
  <1>7. /\ recordCount = base /\ base \in Nat /\ saved \in Nat /\ starts \in Nat
        /\ closing \in BOOLEAN
    BY <1>1
  <1> QED BY <1>4, <1>5, <1>6, <1>7 DEF AtStart

\* The same after a step
LEMMA RestartInv == AtStart' => HInv'
  BY StartInv, PTL
-----------------------------------------------------------------------------
(* Where the ranks are in each phase, and what a step leaves alone.            *)

LEMMA WhereStarting ==
    ASSUME NEW d \in Datasets, Starting(d), NEW r \in Ranks
    PROVE  run[r].ds = d /\ run[r].at \in {"split", "open", "registered", "extended", "timed"}
  BY DEF Starting, All, Together

LEMMA WhereApart ==
    ASSUME NEW d \in Datasets, Apart(d)
    PROVE  /\ \E r \in Ranks : run[r].at \in {"extended", "registered", "timed"}
           /\ \A r \in Ranks : run[r].at \in {"extended", "registered", "timed", "split", "idle"}
  <1>1. Openers(io[d]) \subseteq Ranks
    BY TheRanks DEF Openers
  <1>2. PICK r \in Openers(io[d]) : TRUE
    BY DEF Apart
  <1>3. run[r].at \in {"extended", "registered", "timed"}
    BY <1>1, <1>2 DEF Apart, Together
  <1>4. \A q \in Ranks : run[q].at \in {"extended", "registered", "timed", "split", "idle"}
    BY <1>1 DEF Apart, Together
  <1> QED BY <1>1, <1>2, <1>3, <1>4

LEMMA WhereWriting ==
    ASSUME NEW d \in Datasets, Writing(d), NEW r \in Ranks
    PROVE  run[r].ds = d /\ run[r].at \in WriteCalls
  <1>1. ASSUME WritingRow(d) PROVE run[r].ds = d /\ run[r].at \in WriteCalls
    <2>1. CASE r \in Subcomm(d)
      BY <1>1, <2>1 DEF WritingRow, WriteCalls, RowCalls
    <2>2. CASE r \notin Subcomm(d)
      <3>1. PICK q \in Subcomm(d) : TRUE
        BY <1>1 DEF WritingRow
      <3>2. run[r].ds = d /\ run[r].at \in {"splitRow", "written"}
        BY <1>1, <2>2, <3>1 DEF WritingRow
      <3> QED BY <3>2 DEF WriteCalls, RowCalls
    <2> QED BY <2>1, <2>2
  <1> QED BY <1>1 DEF Writing, All, Together, WriteCalls, RowCalls, EarlyCalls

LEMMA WhereClosing ==
    ASSUME NEW d \in Datasets, Closing(d), NEW r \in Ranks
    PROVE  run[r].ds = d /\ run[r].at \in {"closed", "compress", "compressed"}
  BY DEF Closing, All, Together

LEMMA WhenIdle == ASSUME HInv, Idle PROVE Waiting
  <1>1. ASSUME NEW d \in Datasets PROVE ~Starting(d) /\ ~Apart(d) /\ ~Writing(d) /\ ~Closing(d)
    <2>1. \A r \in Ranks : run[r].at = "idle"
      BY DEF Idle
    <2>2. ~Starting(d)
      BY <2>1, TheRanks, WhereStarting
    <2>3. ~Apart(d)
      BY <2>1, WhereApart
    <2>4. ~Writing(d)
      BY <2>1, TheRanks, WhereWriting DEF WriteCalls, RowCalls, EarlyCalls
    <2>5. ~Closing(d)
      BY <2>1, TheRanks, WhereClosing
    <2> QED BY <2>2, <2>3, <2>4, <2>5
  <1> QED BY <1>1 DEF HInv

LEMMA KeptDataset ==
    ASSUME HInv, NEW e \in Datasets, io'[e] = io[e], log'[e] = log[e], file'[e] = file[e],
           UNCHANGED <<base, starts>>
    PROVE  /\ Known(e) => Known(e)'
           /\ Fits(e) => Fits(e)'
           /\ Ready(e) => Ready(e)'
           /\ Target(e)' = Target(e)
           /\ Flushed(e) => Flushed(e)'
           /\ \A r \in Ranks : RowsIn(e, r)'
  <1>1. Known(e) => Known(e)'
    BY DEF Known, Dims, IsPartition
  <1>2. Fits(e) => Fits(e)'
    BY DEF Fits
  <1>3. \A r \in Ranks : RowsIn(e, r)'
    BY DEF HInv, RowsIn
  <1> QED BY <1>1, <1>2, <1>3 DEF Ready, Target, Flushed

LEMMA KeptAgree ==
    ASSUME NEW e \in Datasets, AgreeInv(e), io'[e] = io[e],
           Flushed(e) \/ \A r \in Ranks : Written(e, r) => Written(e, r)'
    PROVE  AgreeInv(e)'
  BY DEF AgreeInv, Flushed

LEMMA KeptObject ==
    ASSUME NEW e \in Datasets, NEW r \in Ranks, ObjectInv(e, r),
           io'[e][r] = io[e][r], log'[e] = log[e], UNCHANGED <<base, starts>>,
           InRow(e, r)' <=> InRow(e, r),
           InRow(e, r) => run'[r].row = run[r].row /\ run'[r].cursor = run[r].cursor,
           Early(e, r)' => run'[r].row = 0 /\ run'[r].cursor = 0,
           Written(e, r)' => io[e][r].counts = << >> /\ ~io[e][r].sizeChanged
    PROVE  ObjectInv(e, r)'
  <1>1. BufferInv(e, r)'
    <2>1. BufferInv(e, r)
      BY DEF ObjectInv
    <2>2. PICK places \in [0 .. Len(io[e][r].counts) -> Nat] :
              /\ ArePlaces(places, io[e][r])
              /\ \A k \in 1 .. Len(io[e][r].counts) : \A i \in 1 .. io[e][r].counts[k] :
                    io[e][r].dataBuffer[places[k - 1] + i]
                        = <<starts, Len(log[e]) - Len(io[e][r].counts) + k, r, i>>
              /\ InRow(e, r) => run[r].cursor = places[run[r].row]
      BY <2>1 DEF BufferInv
    <2>3. /\ ArePlaces(places, io'[e][r])
          /\ places \in [0 .. Len(io'[e][r].counts) -> Nat]
          /\ \A k \in 1 .. Len(io'[e][r].counts) : \A i \in 1 .. io'[e][r].counts[k] :
                io'[e][r].dataBuffer[places[k - 1] + i]
                    = <<starts', Len(log'[e]) - Len(io'[e][r].counts) + k, r, i>>
          /\ InRow(e, r)' => run'[r].cursor = places[run'[r].row]
      BY <2>2
    <2>4. /\ Len(io'[e][r].counts) <= Len(log'[e])
          /\ \A i \in 1 .. Len(io'[e][r].counts) :
                io'[e][r].counts[i] = log'[e][Len(log'[e]) - Len(io'[e][r].counts) + i][r]
          /\ io'[e][r].bufferHead <= Len(io'[e][r].dataBuffer)
      BY <2>1 DEF BufferInv
    <2> QED BY Zenon, <2>3, <2>4 DEF BufferInv, ArePlaces
  <1>2. Rest(e, r)' = Rest(e, r) /\ Target(e)' = Target(e)
    BY DEF Rest, Target
  <1> QED BY <1>1, <1>2 DEF ObjectInv
-----------------------------------------------------------------------------
(* The operations.                                                             *)

LEMMA SaveRestartHInv == ASSUME HInv, SaveRestart PROVE HInv'
  <1>1. UNCHANGED <<io, run, file, recordCount, closing, log, base, starts>> /\ saved' = recordCount
    BY DEF SaveRestart
  <1>2. TypeInv'
    BY <1>1 DEF HInv, TypeInv
  <1>3. ASSUME NEW d \in Datasets
        PROVE  /\ Known(d)' = Known(d) /\ Fits(d)' = Fits(d) /\ Ready(d)' = Ready(d)
               /\ AgreeInv(d)' = AgreeInv(d)
    BY <1>1 DEF Known, Fits, Ready, AgreeInv, IsPartition, Dims, Written
  <1>4. Waiting'
    BY <1>1, <1>3, WhenIdle DEF Waiting, Idle, SaveRestart
  <1>5. ASSUME NEW d \in Datasets, NEW r \in Ranks PROVE ObjectInv(d, r)' /\ RowsIn(d, r)'
    <2>1. ObjectInv(d, r)
      BY DEF HInv
    <2>2. /\ InRow(d, r)' = InRow(d, r) /\ Early(d, r)' = Early(d, r)
          /\ Written(d, r)' = Written(d, r)
      BY <1>1 DEF InRow, Early, Written
    <2>3. ObjectInv(d, r)'
      BY <1>1, <2>1, <2>2, KeptObject DEF ObjectInv
    <2> QED BY <1>1, <2>3, KeptDataset
  <1> QED BY <1>2, <1>3, <1>4, <1>5 DEF HInv

LEMMA RestartHInv ==
    ASSUME HInv, NEW sizes \in StartSizes, Restart(sizes) \/ Reinit(sizes)
    PROVE  HInv'
  <1>1. PICK records \in Nat : Start(records, sizes, file)
    BY DEF Restart, Reinit, HInv, TypeInv
  <1>2. saved' = saved /\ starts' = starts + 1
    BY DEF Restart, Reinit
  <1>3. IsFile(NoDataset)
    <2>1. Within(0, 0) = {}
      BY DEF Within
    <2>2. DOMAIN << >> = {}
      OBVIOUS
    <2> QED BY <2>1, <2>2 DEF IsFile, NoDataset
  <1>4. file' = [d \in Datasets |-> file'[d]] /\ \A d \in Datasets : IsFile(file'[d])
    BY <1>1, <1>3 DEF Start, HInv, TypeInv
  <1>5. /\ base' = records /\ recordCount' = records /\ closing' = FALSE
        /\ io' = [d \in Datasets |-> [r \in Ranks |-> NewIO(sizes[d][r], records)]]
        /\ run' = [r \in Ranks |-> Here("split", 1)] /\ log' = [d \in Datasets |-> << >>]
    BY <1>1 DEF Start
  <1>6. saved \in Nat /\ starts \in Nat /\ starts + 1 \in Nat
    BY DEF HInv, TypeInv
  <1>7. AtStart'
    <2>1. io' = [d \in Datasets |-> [r \in Ranks |-> NewIO(sizes[d][r], base')]]
      BY <1>5
    <2>2. \A d \in Datasets : IsFile(file[d])'
      BY <1>4 DEF IsFile
    <2>3. /\ recordCount' = base' /\ base' \in Nat /\ saved' \in Nat /\ starts' \in Nat
          /\ closing' \in BOOLEAN
      BY <1>2, <1>5, <1>6
    <2> QED BY <1>4, <1>5, <2>1, <2>2, <2>3 DEF AtStart
  <1> QED BY <1>7, RestartInv

LEMMA OutputHInv == ASSUME HInv, NEW close \in BOOLEAN, Output(close) PROVE HInv'
  <1>1. /\ UNCHANGED <<io, file, saved, log, base, starts>> /\ closing' = close
        /\ run' = [r \in Ranks |-> Here("reduce", 1)]
        /\ recordCount' = recordCount + Len(io[1][0].counts)
    BY DEF Output, NewBuffered
  <1>2. Waiting /\ \A r \in Ranks : run[r].at = "idle"
    BY WhenIdle DEF Output, Idle
  <1>3. \A r \in Ranks : run'[r].at = "reduce" /\ run'[r].ds = 1 /\ run'[r].row = 0 /\ run'[r].cursor = 0
    BY <1>1 DEF Here
  <1>4. ASSUME NEW d \in Datasets, NEW r \in Ranks
        PROVE  ~InRow(d, r) /\ ~Written(d, r) /\ ~InRow(d, r)' /\ ~Written(d, r)'
    BY <1>2, <1>3 DEF InRow, Written, RowCalls
  <1>5. ASSUME NEW d \in Datasets, NEW r \in Ranks PROVE ObjectInv(d, r)' /\ RowsIn(d, r)'
    <2>1. ObjectInv(d, r)
      BY DEF HInv
    <2>2. ObjectInv(d, r)'
      <3>1. (InRow(d, r)' <=> InRow(d, r)) /\ ~InRow(d, r) /\ ~Written(d, r)'
        BY <1>4
      <3>2. run'[r].row = 0 /\ run'[r].cursor = 0
        BY <1>3
      <3> QED BY <1>1, <2>1, <3>1, <3>2, KeptObject
    <2> QED BY <1>1, <2>2, KeptDataset
  <1>6. ASSUME NEW d \in Datasets PROVE AgreeInv(d)'
    BY <1>1, <1>4, KeptAgree DEF HInv
  <1>7. recordCount' = Target(1)' /\ recordCount' \in Nat
    <2>1. /\ recordCount = io[1][0].writeHead
          /\ io[1][0].writeHead = Target(1) - Rest(1, 0)
      BY <1>2, TheRanks DEF Waiting, HInv, ObjectInv
    <2>2. Rest(1, 0) = Len(io[1][0].counts)
      <3>1. io[1][0] \in Object
        BY TheRanks DEF HInv, TypeInv
      <3>2. Len(io[1][0].counts) \in Nat
        BY <3>1, LenProperties DEF Object
      <3>3. Rest(1, 0) = Len(io[1][0].counts) - 0
        BY <1>4, TheRanks DEF Rest
      <3> QED BY <3>2, <3>3
    <2>3. Target(1) \in Nat /\ Len(io[1][0].counts) \in Nat
      <3>1. log[1] \in Seq([Ranks -> Nat]) /\ base \in Nat
        BY TheRanks DEF HInv, TypeInv
      <3>2. Len(log[1]) \in Nat
        BY <3>1, LenProperties
      <3>3. io[1][0] \in Object
        BY TheRanks DEF HInv, TypeInv
      <3>4. Len(io[1][0].counts) \in Nat
        BY <3>3, LenProperties DEF Object
      <3> QED BY <3>1, <3>2, <3>4 DEF Target
    <2>4. recordCount' = Target(1)
      BY <1>1, <2>1, <2>2, <2>3
    <2>5. Target(1)' = Target(1)
      BY <1>1 DEF Target
    <2> QED BY <2>3, <2>4, <2>5
  <1>8. TypeInv'
    <2>1. "reduce" \in Calls
      BY DEF Calls, WriteCalls, EarlyCalls
    <2>2. Here("reduce", 1) \in [at : Calls, ds : Datasets, row : Nat, cursor : Nat]
      BY <2>1, TheRanks DEF Here
    <2>3. run' \in [Ranks -> [at : Calls, ds : Datasets, row : Nat, cursor : Nat]]
      BY <1>1, <2>2
    <2>4. TypeInv
      BY DEF HInv
    <2> QED BY <1>1, <1>7, <2>3, <2>4 DEF TypeInv
  <1>9. Writing(1)'
    <2>1. \A e \in Datasets : Ready(e)'
      BY <1>1, <1>2, KeptDataset DEF Waiting
    <2>2. All(1, "reduce")'
      BY <1>3 DEF All
    <2>3. \A e \in Datasets : ~(e < 1)
      BY DEF Datasets
    <2> QED BY <1>7, <2>1, <2>2, <2>3, TheRanks DEF Writing
  <1> QED BY <1>5, <1>6, <1>8, <1>9, TheRanks DEF HInv

LEMMA AtLeast == ASSUME NEW x \in Nat, NEW m \in Nat \ {0, 1} PROVE x * m \in Nat /\ x * m >= x
  OBVIOUS

LEMMA CollectedFacts ==
    ASSUME NEW o \in Object, NEW size \in Nat, NEW cells \in [1 .. size -> Cell],
           o.bufferHead <= Len(o.dataBuffer), NEW c, c = Collected(o, size, cells)
    PROVE  /\ c \in Object
           /\ c.dims = size /\ c.sizeChanged = (o.sizeChanged \/ size # o.dims)
           /\ c.counts = Append(o.counts, size) /\ c.bufferHead = o.bufferHead + size
           /\ c.bufferHead <= Len(c.dataBuffer)
           /\ \A i \in 1 .. o.bufferHead : c.dataBuffer[i] = o.dataBuffer[i]
           /\ \A i \in 1 .. size : c.dataBuffer[o.bufferHead + i] = cells[i]
           /\ c.writeLimit = o.writeLimit /\ c.writeHead = o.writeHead
           /\ c.highwater = o.highwater /\ c.globalCount = o.globalCount
           /\ c.offset = o.offset /\ c.member = o.member
  <1> DEFINE room == RoomFor(o, size)
             head == o.bufferHead
             buffer == [i \in 1 .. room |-> IF i - head \in 1 .. size THEN cells[i - head]
                            ELSE IF i <= Len(o.dataBuffer) THEN o.dataBuffer[i] ELSE Fill]
  <1>1. head \in Nat /\ Len(o.dataBuffer) \in Nat /\ o.counts \in Seq(Nat)
    BY LenProperties DEF Object
  <1>2. room \in Nat /\ head + size <= room
    <2>1. size * OverallocMultiple \in Nat /\ size * OverallocMultiple >= size
      BY OverallocAssumption, AtLeast
    <2>2. room = IF head + size > Len(o.dataBuffer) THEN head + size * OverallocMultiple
                 ELSE Len(o.dataBuffer)
      BY DEF RoomFor
    <2> DEFINE product == size * OverallocMultiple
    <2> HIDE DEF product, head, room
    <2> QED BY <1>1, <2>1, <2>2 DEF product
  <1> HIDE DEF room
  <1>3. \A i \in 1 .. room : buffer[i] \in Cell
    <2>1. Fill \in Cell
      BY DEF Cell
    <2>2. \A i \in 1 .. Len(o.dataBuffer) : o.dataBuffer[i] \in Cell
      BY LenProperties, ElementOfSeq DEF Object
    <2>3. ASSUME NEW i \in 1 .. room, i <= Len(o.dataBuffer) PROVE i \in 1 .. Len(o.dataBuffer)
      BY <1>1, <1>2, <2>3
    <2> QED BY <2>1, <2>2, <2>3
  <1>4. buffer \in Seq(Cell) /\ Len(buffer) = room
    <2>1. buffer \in [1 .. room -> Cell]
      BY <1>3
    <2> HIDE DEF buffer
    <2>2. buffer \in Seq(Cell)
      BY <1>2, <2>1, SeqDef
    <2>3. DOMAIN buffer = 1 .. Len(buffer) /\ Len(buffer) \in Nat
      BY <2>2, LenProperties
    <2>4. 1 .. Len(buffer) = 1 .. room
      BY <2>1, <2>3
    <2>5. \A a, b \in Nat : 1 .. a = 1 .. b => a = b
      <3> SUFFICES ASSUME NEW a \in Nat, NEW b \in Nat, 1 .. a = 1 .. b, a < b PROVE FALSE
        <4>1. \A a, b \in Nat : a < b \/ b < a \/ a = b
          OBVIOUS
        <4> QED BY <4>1
      <3>1. b \in 1 .. b /\ b \notin 1 .. a
        OBVIOUS
      <3> QED BY <3>1
    <2> QED BY Zenon, <1>2, <2>2, <2>3, <2>4, <2>5
  <1>5. ASSUME NEW i \in 1 .. head PROVE buffer[i] = o.dataBuffer[i]
    <2>1. i \in 1 .. room /\ i - head \notin 1 .. size /\ i <= Len(o.dataBuffer)
      <3> HIDE DEF head
      <3>1. head <= Len(o.dataBuffer)
        BY DEF head
      <3> QED BY <1>1, <1>2, <3>1
    <2> QED BY <2>1
  <1>6. ASSUME NEW i \in 1 .. size PROVE buffer[head + i] = cells[i]
    <2>1. head + i \in 1 .. room /\ (head + i) - head = i
      <3> HIDE DEF head
      <3> QED BY <1>1, <1>2
    <2> QED BY <2>1
  <1>7. Append(o.counts, size) \in Seq(Nat)
    BY <1>1, AppendProperties
  <1>8. Collected(o, size, cells) =
            [o EXCEPT !.sizeChanged = @ \/ size # o.dims, !.dims = size,
                      !.counts = Append(@, size), !.bufferHead = @ + size, !.dataBuffer = buffer]
    BY DEF Collected, room, head
  <1>9. head + size \in Nat /\ head + size <= Len(buffer)
    BY <1>1, <1>2, <1>4
  <1> HIDE DEF buffer
  <1> QED BY ZenonT(40), <1>4, <1>5, <1>6, <1>7, <1>8, <1>9 DEF Object, head

\* The lengths that occur
LEMMA Lengths ==
    ASSUME TypeInv, NEW d \in Datasets, NEW r \in Ranks
    PROVE  /\ io[d][r] \in Object
           /\ log[d] \in Seq([Ranks -> Nat]) /\ Len(log[d]) \in Nat
           /\ io[d][r].counts \in Seq(Nat) /\ Len(io[d][r].counts) \in Nat
           /\ \A i \in 1 .. Len(io[d][r].counts) : io[d][r].counts[i] \in Nat
           /\ \A n \in 1 .. Len(log[d]) : log[d][n] \in [Ranks -> Nat]
           /\ base \in Nat /\ starts \in Nat /\ Target(d) \in Nat /\ run[r].row \in Nat
  <1>1. io[d][r] \in Object /\ log[d] \in Seq([Ranks -> Nat]) /\ base \in Nat /\ starts \in Nat
    BY DEF TypeInv
  <1>2. io[d][r].counts \in Seq(Nat)
    BY <1>1 DEF Object
  <1>3. /\ Len(io[d][r].counts) \in Nat
        /\ \A i \in 1 .. Len(io[d][r].counts) : io[d][r].counts[i] \in Nat
    BY <1>2, LenProperties, ElementOfSeq
  <1>4. Len(log[d]) \in Nat /\ \A n \in 1 .. Len(log[d]) : log[d][n] \in [Ranks -> Nat]
    BY <1>1, LenProperties, ElementOfSeq
  <1>5. run[r].row \in Nat
    BY DEF TypeInv
  <1> QED BY <1>1, <1>2, <1>3, <1>4, <1>5 DEF Target

LEMMA CollectBuffer ==
    ASSUME TypeInv, NEW d \in Datasets, NEW r \in Ranks, BufferInv(d, r), NEW sizes \in [Ranks -> Nat],
           io'[d][r] = Collected(io[d][r], sizes[r], Cells(Len(log[d]) + 1, r, sizes[r])),
           log'[d] = Append(log[d], sizes), starts' = starts, ~InRow(d, r)'
    PROVE  BufferInv(d, r)'
  <1> DEFINE o     == io[d][r]
             c     == io'[d][r]
             N     == Len(o.counts)
             size  == sizes[r]
             n     == Len(log[d]) + 1
             cells == Cells(n, r, size)
             old   == Len(log[d]) - N
  <1>1. /\ o \in Object /\ N \in Nat /\ o.counts \in Seq(Nat) /\ size \in Nat /\ n \in Nat
        /\ Len(log[d]) \in Nat /\ log[d] \in Seq([Ranks -> Nat]) /\ starts \in Nat
        /\ \A i \in 1 .. N : o.counts[i] \in Nat
    <2>1. Len(log[d]) \in Nat
      BY Lengths
    <2>2. n \in Nat
      BY <2>1
    <2> HIDE DEF n
    <2> QED BY <2>2, Lengths
  <1>2. /\ N <= Len(log[d]) /\ o.bufferHead <= Len(o.dataBuffer) /\ o.bufferHead \in Nat
        /\ \A i \in 1 .. N : o.counts[i] = log[d][old + i][r]
    BY <1>1 DEF BufferInv, Object
  <1>3. PICK places \in [0 .. N -> Nat] :
            /\ ArePlaces(places, o)
            /\ \A k \in 1 .. N : \A i \in 1 .. o.counts[k] :
                    o.dataBuffer[places[k - 1] + i] = <<starts, old + k, r, i>>
    BY DEF BufferInv
  <1>4. cells \in [1 .. size -> Cell] /\ \A i \in 1 .. size : cells[i] = <<starts, n, r, i>>
    <2>1. cells = [k \in 1 .. size |-> <<starts, n, r, k>>]
      BY DEF Cells
    <2>2. \A k \in 1 .. size : k \in Nat
      BY <1>1
    <2>3. \A k \in 1 .. size : <<starts, n, r, k>> \in Nat \X Nat \X Nat \X Nat
      BY <1>1, <2>2, TheRanks
    <2> HIDE DEF cells, size, n
    <2> QED BY <2>1, <2>3 DEF Cell
  <1>5. /\ c.counts = Append(o.counts, size) /\ c.bufferHead = o.bufferHead + size
        /\ c.bufferHead <= Len(c.dataBuffer)
        /\ \A i \in 1 .. o.bufferHead : c.dataBuffer[i] = o.dataBuffer[i]
        /\ \A i \in 1 .. size : c.dataBuffer[o.bufferHead + i] = cells[i]
    <2>1. c = Collected(o, size, cells)
      OBVIOUS
    <2>2. o \in Object /\ size \in Nat
      BY <1>1
    <2>3. o.bufferHead <= Len(o.dataBuffer)
      BY <1>2
    <2>4. cells \in [1 .. size -> Cell]
      BY <1>4
    <2> HIDE DEF c, o, size, cells
    <2>5. c.counts = Append(o.counts, size)
      BY <2>1, <2>2, <2>3, <2>4, CollectedFacts
    <2>6. c.bufferHead = o.bufferHead + size
      BY <2>1, <2>2, <2>3, <2>4, CollectedFacts
    <2>7. c.bufferHead <= Len(c.dataBuffer)
      BY <2>1, <2>2, <2>3, <2>4, CollectedFacts
    <2>8. \A i \in 1 .. o.bufferHead : c.dataBuffer[i] = o.dataBuffer[i]
      BY <2>1, <2>2, <2>3, <2>4, CollectedFacts
    <2>9. \A i \in 1 .. size : c.dataBuffer[o.bufferHead + i] = cells[i]
      BY <2>1, <2>2, <2>3, <2>4, CollectedFacts
    <2> QED BY <2>5, <2>6, <2>7, <2>8, <2>9
  <1>6. /\ Len(c.counts) = N + 1 /\ c.counts[N + 1] = size
        /\ \A i \in 1 .. N : c.counts[i] = o.counts[i]
    <2>1. o.counts \in Seq(Nat) /\ size \in Nat /\ c.counts = Append(o.counts, size) /\ N = Len(o.counts)
      BY <1>1, <1>5
    <2> HIDE DEF o, c, size, N
    <2> QED BY <2>1, AppendProperties
  <1>7. /\ Len(log'[d]) = n /\ log'[d][n] = sizes
        /\ \A i \in 1 .. Len(log[d]) : log'[d][i] = log[d][i]
    BY <1>1, AppendProperties
  <1> HIDE DEF o, c, N, size, n, cells, old
  <1> DEFINE more == [k \in 0 .. N + 1 |-> IF k = N + 1 THEN o.bufferHead + size ELSE places[k]]
  <1>8. /\ more \in [0 .. N + 1 -> Nat] /\ more[N + 1] = o.bufferHead + size
        /\ \A k \in 0 .. N : more[k] = places[k]
    <2>1. \A k \in 0 .. N : k \in 0 .. N + 1 /\ k # N + 1
      BY <1>1
    <2>2. \A k \in 0 .. N + 1 : k # N + 1 => k \in 0 .. N
      BY <1>1
    <2>3. N + 1 \in 0 .. N + 1 /\ o.bufferHead + size \in Nat
      BY <1>1, <1>2
    <2> QED BY <2>1, <2>2, <2>3
  <1>9. places[0] = 0 /\ places[N] = o.bufferHead
        /\ \A k \in 1 .. N : places[k] = places[k - 1] + o.counts[k] /\ places[k] <= o.bufferHead
    BY <1>3 DEF ArePlaces, N
  <1> HIDE DEF more
  <1>10. \A k \in 1 .. N + 1 : k # N + 1 => k \in 1 .. N /\ k \in 0 .. N /\ k - 1 \in 0 .. N
    BY <1>1
  <1>11. 0 \in 0 .. N /\ N \in 0 .. N /\ (N + 1) - 1 = N /\ N + 1 \in 1 .. N + 1
    BY <1>1
  <1>12. ArePlaces(more, c)
    <2>1. more[0] = 0 /\ more[Len(c.counts)] = c.bufferHead
      BY <1>5, <1>6, <1>8, <1>9, <1>11
    <2>2. ASSUME NEW k \in 1 .. N + 1
          PROVE  more[k] = more[k - 1] + c.counts[k] /\ more[k] <= c.bufferHead
      <3>1. CASE k = N + 1
        <4>1. more[k] = o.bufferHead + size /\ more[k - 1] = o.bufferHead /\ c.counts[k] = size
          BY <3>1, <1>6, <1>8, <1>9, <1>11
        <4>2. o.bufferHead + size <= o.bufferHead + size
          BY <1>1, <1>2
        <4> QED BY <4>1, <4>2, <1>5
      <3>2. CASE k # N + 1
        <4>1. k \in 1 .. N /\ k \in 0 .. N /\ k - 1 \in 0 .. N
          BY <3>2, <1>10
        <4>2. more[k] = places[k] /\ more[k - 1] = places[k - 1] /\ c.counts[k] = o.counts[k]
          BY <4>1, <1>6, <1>8
        <4>3. more[k] = more[k - 1] + c.counts[k] /\ more[k] <= o.bufferHead
          BY <4>1, <4>2, <1>9
        <4>4. places[k] \in Nat
          BY <4>1
        <4>5. more[k] <= o.bufferHead + size
          <5>1. \A x, b, s \in Nat : x <= b => x <= b + s
            OBVIOUS
          <5> QED BY <4>2, <4>3, <4>4, <5>1, <1>1, <1>2
        <4> QED BY <4>3, <4>5, <1>5
      <3> QED BY <3>1, <3>2
    <2> QED BY <2>1, <2>2, <1>6 DEF ArePlaces
  <1>13. ASSUME NEW k \in 1 .. N + 1, NEW i \in 1 .. c.counts[k]
         PROVE  c.dataBuffer[more[k - 1] + i] = <<starts, old + k, r, i>>
    <2>1. CASE k = N + 1
      <3>1. more[k - 1] = o.bufferHead /\ c.counts[k] = size
        BY <2>1, <1>6, <1>8, <1>9, <1>11
      <3>2. c.dataBuffer[o.bufferHead + i] = <<starts, n, r, i>>
        BY <3>1, <1>4, <1>5
      <3>3. old + k = n
        BY <2>1, <1>1 DEF old, n
      <3> QED BY <3>1, <3>2, <3>3
    <2>2. CASE k # N + 1
      <3>1. k \in 1 .. N /\ k \in 0 .. N /\ k - 1 \in 0 .. N
        BY <2>2, <1>10
      <3>2. more[k - 1] = places[k - 1] /\ c.counts[k] = o.counts[k]
        BY <3>1, <1>6, <1>8
      <3>3. o.dataBuffer[places[k - 1] + i] = <<starts, old + k, r, i>>
        BY <3>1, <3>2, <1>3 DEF o, N, old
      <3>4. places[k - 1] + i \in 1 .. o.bufferHead
        <4>1. places[k] = places[k - 1] + o.counts[k] /\ places[k] <= o.bufferHead
          BY <3>1, <1>9
        <4>2. places[k - 1] \in Nat /\ o.counts[k] \in Nat /\ i \in 1 .. o.counts[k]
          BY <3>1, <3>2, <1>1
        <4>3. \A a, b, m \in Nat : \A x \in 1 .. b : a + b <= m => a + x \in 1 .. m
          OBVIOUS
        <4> QED BY <4>1, <4>2, <4>3, <1>2
      <3> QED BY <3>2, <3>3, <3>4, <1>5
    <2> QED BY <2>1, <2>2
  <1>14. ASSUME NEW i \in 1 .. N + 1 PROVE c.counts[i] = log'[d][old + i][r]
    <2>1. CASE i = N + 1
      <3>1. old + i = n
        BY <2>1, <1>1 DEF old, n
      <3> QED BY <2>1, <3>1, <1>6, <1>7 DEF size
    <2>2. CASE i # N + 1
      <3>1. i \in 1 .. N
        BY <2>2, <1>10
      <3>2. old + i \in 1 .. Len(log[d])
        BY <3>1, <1>1, <1>2 DEF old
      <3> QED BY <3>1, <3>2, <1>2, <1>6, <1>7
    <2> QED BY <2>1, <2>2
  <1>15. N + 1 <= n /\ n - (N + 1) = old
    BY <1>1, <1>2 DEF n, old
  <1>16. Len(io'[d][r].counts) = N + 1 /\ Len(log'[d]) - Len(io'[d][r].counts) = old
    BY <1>6, <1>7, <1>15 DEF c
  <1>17. /\ more \in [0 .. Len(io'[d][r].counts) -> Nat]
         /\ ArePlaces(more, io'[d][r])
         /\ \A k \in 1 .. Len(io'[d][r].counts) : \A i \in 1 .. io'[d][r].counts[k] :
                io'[d][r].dataBuffer[more[k - 1] + i]
                    = <<starts', Len(log'[d]) - Len(io'[d][r].counts) + k, r, i>>
         /\ InRow(d, r)' => run'[r].cursor = more[run'[r].row]
    BY <1>8, <1>12, <1>13, <1>16 DEF c
  <1>18. /\ Len(io'[d][r].counts) <= Len(log'[d])
         /\ \A i \in 1 .. Len(io'[d][r].counts) :
                io'[d][r].counts[i] = log'[d][Len(log'[d]) - Len(io'[d][r].counts) + i][r]
         /\ io'[d][r].bufferHead <= Len(io'[d][r].dataBuffer)
    BY <1>5, <1>7, <1>14, <1>15, <1>16 DEF c
  <1> QED BY Zenon, <1>17, <1>18 DEF BufferInv, ArePlaces

LEMMA Appended ==
    ASSUME NEW S, NEW s \in Seq(S), NEW x \in S, NEW t, t = Append(s, x)
    PROVE  /\ t \in Seq(S) /\ t # << >> /\ Len(t) = Len(s) + 1
           /\ t[Len(t)] = x /\ t[Len(s) + 1] = x
           /\ \A i \in 1 .. Len(s) : t[i] = s[i]
  BY AppendProperties

\* What a rank counts as written is in the log.
LEMMA HeadWithin ==
    ASSUME TypeInv, NEW d \in Datasets, NEW r \in Ranks, ObjectInv(d, r)
    PROVE  /\ io[d][r].writeHead \in Nat /\ Rest(d, r) \in Nat
           /\ base <= io[d][r].writeHead /\ io[d][r].writeHead <= Target(d)
           /\ io[d][r].writeHead - base = Len(log[d]) - Rest(d, r)
           /\ \A n \in 1 .. io[d][r].writeHead - base : n \in 1 .. Len(log[d])
  <1> DEFINE N == Len(io[d][r].counts)
             L == Len(log[d])
             h == io[d][r].writeHead
             m == Rest(d, r)
             w == run[r].row
  <1>1. N \in Nat /\ L \in Nat /\ base \in Nat /\ w \in Nat
    BY Lengths
  <1>2. h \in Nat
    BY Lengths DEF Object
  <1>3. N <= L /\ h = (base + L) - m
    BY DEF ObjectInv, BufferInv, Target
  <1>4. m \in Nat /\ m <= N
    <2>1. CASE InRow(d, r)
      <3>1. w < N /\ m = N - w
        BY <2>1 DEF ObjectInv, Rest
      <3> HIDE DEF m, N, w
      <3> QED BY <1>1, <3>1
    <2>2. CASE ~InRow(d, r)
      <3>1. m = N - 0
        BY <2>2 DEF Rest
      <3> HIDE DEF m, N
      <3> QED BY <1>1, <3>1
    <2> QED BY <2>1, <2>2
  <1>5. Target(d) = base + L
    BY DEF Target
  <1> HIDE DEF N, L, h, m, w
  <1>6. base <= h /\ h <= base + L /\ h - base = L - m /\ h - base <= L
    BY <1>1, <1>2, <1>3, <1>4
  <1>7. \A n \in 1 .. h - base : n \in 1 .. L
    BY <1>1, <1>2, <1>6
  <1> QED BY <1>2, <1>4, <1>5, <1>6, <1>7 DEF h, m, L

LEMMA CollectHInv ==
    ASSUME HInv, NEW d \in Datasets, NEW sizes \in [Ranks -> Sizes], Collect(d, sizes)
    PROVE  HInv'
  <1> DEFINE made(r) == Collected(io[d][r], sizes[r], Cells(Len(log[d]) + 1, r, sizes[r]))
  <1>1. /\ UNCHANGED <<run, file, recordCount, saved, closing, base, starts>>
        /\ log' = [log EXCEPT ![d] = Append(log[d], sizes)]
        /\ io' = [io EXCEPT ![d] = [r \in Ranks |-> made(r)]]
    BY DEF Collect
  <1>2. Waiting /\ \A r \in Ranks : run[r].at = "idle"
    BY WhenIdle DEF Collect, Idle
  <1>3. TypeInv /\ sizes \in [Ranks -> Nat]
    BY SizesAssumption DEF HInv
  <1>4. ASSUME NEW e \in Datasets, NEW r \in Ranks
        PROVE  /\ ~InRow(e, r) /\ ~Written(e, r) /\ ~Early(e, r)
               /\ ~InRow(e, r)' /\ ~Written(e, r)' /\ ~Early(e, r)'
    BY <1>1, <1>2 DEF InRow, Written, Early, RowCalls, EarlyCalls
  <1>5. /\ log'[d] = Append(log[d], sizes) /\ Len(log'[d]) = Len(log[d]) + 1
        /\ log'[d] \in Seq([Ranks -> Nat]) /\ log'[d] # << >> /\ log'[d][Len(log'[d])] = sizes
        /\ \A n \in 1 .. Len(log[d]) : log'[d][n] = log[d][n]
    <2>1. log[d] \in Seq([Ranks -> Nat])
      BY <1>3 DEF TypeInv
    <2>2. log'[d] = Append(log[d], sizes)
      BY <1>1, <1>3 DEF TypeInv
    <2> DEFINE s == log[d]
               t == log'[d]
    <2> HIDE DEF s, t
    <2>3. s \in Seq([Ranks -> Nat]) /\ t = Append(s, sizes)
      BY <2>1, <2>2 DEF s, t
    <2>4. /\ t \in Seq([Ranks -> Nat]) /\ t # << >> /\ Len(t) = Len(s) + 1
          /\ t[Len(t)] = sizes /\ \A i \in 1 .. Len(s) : t[i] = s[i]
      BY <1>3, <2>3, Appended
    <2> QED BY <2>2, <2>4 DEF s, t
  <1>6. ASSUME NEW r \in Ranks
        PROVE  /\ io[d][r] \in Object /\ sizes[r] \in Nat
               /\ Cells(Len(log[d]) + 1, r, sizes[r]) \in [1 .. sizes[r] -> Cell]
               /\ io[d][r].bufferHead <= Len(io[d][r].dataBuffer)
               /\ io'[d][r] = made(r)
    <2>1. io[d][r] \in Object /\ sizes[r] \in Nat /\ io'[d][r] = made(r)
      BY <1>1, <1>3 DEF TypeInv
    <2>2. BufferInv(d, r)
      BY DEF HInv, ObjectInv
    <2>3. Len(log[d]) \in Nat /\ starts \in Nat
      BY <1>3, Lengths
    <2> DEFINE n == Len(log[d]) + 1
               size == sizes[r]
    <2>4. n \in Nat
      BY <2>3
    <2>5. \A k \in 1 .. size : <<starts, n, r, k>> \in Cell
      <3>1. \A k \in 1 .. size : k \in Nat
        BY <2>1
      <3> HIDE DEF n, size
      <3> QED BY <2>3, <2>4, <3>1, TheRanks DEF Cell
    <2>6. Cells(n, r, size) \in [1 .. size -> Cell]
      <3> HIDE DEF n, size
      <3> QED BY <2>5 DEF Cells
    <2> QED BY <2>1, <2>2, <2>6 DEF BufferInv
  <1> HIDE DEF made
  <1>7. ASSUME NEW r \in Ranks
        PROVE  /\ io'[d][r] \in Object
               /\ io'[d][r].dims = sizes[r]
               /\ io'[d][r].sizeChanged = (io[d][r].sizeChanged \/ sizes[r] # io[d][r].dims)
               /\ io'[d][r].counts = Append(io[d][r].counts, sizes[r])
               /\ io'[d][r].writeLimit = io[d][r].writeLimit
               /\ io'[d][r].writeHead = io[d][r].writeHead
               /\ io'[d][r].highwater = io[d][r].highwater
               /\ io'[d][r].globalCount = io[d][r].globalCount
               /\ io'[d][r].offset = io[d][r].offset
               /\ io'[d][r].member = io[d][r].member
    <2> DEFINE o     == io[d][r]
               c     == io'[d][r]
               size  == sizes[r]
               cells == Cells(Len(log[d]) + 1, r, sizes[r])
    <2>1. /\ o \in Object /\ size \in Nat /\ cells \in [1 .. size -> Cell]
          /\ o.bufferHead <= Len(o.dataBuffer) /\ c = Collected(o, size, cells)
      BY <1>6 DEF made
    <2> HIDE DEF o, c, size, cells
    <2>2. c \in Object
      BY <2>1, CollectedFacts
    <2>3. c.dims = size
      BY <2>1, CollectedFacts
    <2>4. c.sizeChanged = (o.sizeChanged \/ size # o.dims)
      BY <2>1, CollectedFacts
    <2>5. c.counts = Append(o.counts, size)
      BY <2>1, CollectedFacts
    <2>6. c.writeLimit = o.writeLimit /\ c.writeHead = o.writeHead
      BY <2>1, CollectedFacts
    <2>7. c.highwater = o.highwater /\ c.globalCount = o.globalCount
      BY <2>1, CollectedFacts
    <2>8. c.offset = o.offset /\ c.member = o.member
      BY <2>1, CollectedFacts
    <2> QED BY <2>2, <2>3, <2>4, <2>5, <2>6, <2>7, <2>8 DEF o, c, size
  <1>12. ASSUME NEW r \in Ranks
         PROVE  /\ Len(io'[d][r].counts) = Len(io[d][r].counts) + 1
                /\ io'[d][r].counts # << >>
                /\ \A i \in 1 .. Len(io[d][r].counts) : io'[d][r].counts[i] = io[d][r].counts[i]
                /\ io'[d][r].counts[Len(io[d][r].counts) + 1] = sizes[r]
    <2> DEFINE s == io[d][r].counts
               t == io'[d][r].counts
               x == sizes[r]
    <2>1. s \in Seq(Nat) /\ x \in Nat /\ t = Append(s, x)
      BY <1>3, <1>6, <1>7, Lengths
    <2> HIDE DEF s, t, x
    <2>2. t # << >> /\ Len(t) = Len(s) + 1 /\ t[Len(s) + 1] = x
      BY <2>1, Appended
    <2>3. \A i \in 1 .. Len(s) : t[i] = s[i]
      BY <2>1, Appended
    <2> QED BY <2>2, <2>3 DEF s, t, x
  <1>13. \A e \in Datasets : e # d => io'[e] = io[e] /\ log'[e] = log[e]
    BY <1>1, <1>3 DEF TypeInv
  <1>14. ASSUME NEW r \in Ranks PROVE ObjectInv(d, r)'
    <2>1. ObjectInv(d, r) /\ BufferInv(d, r)
      BY DEF HInv, ObjectInv
    <2>2. BufferInv(d, r)'
      BY <1>1, <1>3, <1>4, <1>5, <1>6, <2>1, CollectBuffer DEF made
    <2>3. /\ Len(io[d][r].counts) \in Nat /\ Len(log[d]) \in Nat /\ base \in Nat
          /\ io[d][r].writeHead = Target(d) - Rest(d, r) /\ io[d][r].writeHead \in Nat
          /\ io[d][r].dims \in Nat
      BY <1>3, <2>1, <1>6, Lengths DEF ObjectInv, Object
    <2>4. io'[d][r].writeHead = Target(d)' - Rest(d, r)'
      <3>1. Rest(d, r) = Len(io[d][r].counts)
        BY <1>4, <2>3 DEF Rest
      <3>2. Rest(d, r)' = Len(io[d][r].counts) + 1
        BY <1>4, <1>12, <2>3 DEF Rest
      <3>3. Target(d)' = base + (Len(log[d]) + 1) /\ Target(d) = base + Len(log[d])
        BY <1>1, <1>5 DEF Target
      <3> DEFINE n == Len(io[d][r].counts)
                 l == Len(log[d])
                 h == io[d][r].writeHead
                 t == Target(d)'
                 m == Rest(d, r)'
      <3>4. h = (base + l) - n /\ n \in Nat /\ l \in Nat
        BY <2>3, <3>1, <3>3
      <3>5. t = base + (l + 1) /\ m = n + 1 /\ io'[d][r].writeHead = h
        BY <3>2, <3>3, <1>7
      <3> HIDE DEF n, l, h, t, m
      <3>6. h = t - m
        BY <2>3, <3>4, <3>5
      <3> QED BY <3>5, <3>6 DEF t, m
    <2>5. ASSUME ~io'[d][r].sizeChanged, NEW i \in 1 .. Len(io'[d][r].counts)
          PROVE  io'[d][r].counts[i] = io'[d][r].dims
      <3>1. sizes[r] = io[d][r].dims /\ ~io[d][r].sizeChanged
        BY <1>7, <2>5
      <3>2. CASE i = Len(io[d][r].counts) + 1
        BY <3>2, <1>7, <1>12
      <3>3. CASE i # Len(io[d][r].counts) + 1
        <4>1. i \in 1 .. Len(io[d][r].counts)
          BY SMTT(40), <3>3, <1>12, <2>3
        <4> QED BY <4>1, <3>1, <1>7, <1>12, <2>1 DEF ObjectInv
      <3> QED BY <3>2, <3>3
    <2>6. \A n \in 1 .. io[d][r].writeHead - base : n \in 1 .. Len(log[d])
      BY <1>3, <2>1, HeadWithin
    <2>7. /\ io'[d][r].writeHead > base => io'[d][r].writeHead <= io'[d][r].writeLimit
          /\ \A n \in 1 .. io'[d][r].writeHead - base : Total(log'[d][n]) <= io'[d][r].highwater
      BY <1>5, <1>7, <2>1, <2>6 DEF ObjectInv
    <2>8. io'[d][r].dims = log'[d][Len(log'[d])][r]
      BY <1>5, <1>7
    <2> QED BY <1>1, <1>4, <2>2, <2>4, <2>5, <2>7, <2>8 DEF ObjectInv
  <1>15. ASSUME NEW r \in Ranks PROVE RowsIn(d, r)'
    <2>1. RowsIn(d, r) /\ ObjectInv(d, r) /\ BufferInv(d, r)
      BY DEF HInv, ObjectInv
    <2>2. \A n \in 1 .. io[d][r].writeHead - base : n \in 1 .. Len(log[d])
      BY <1>3, <2>1, HeadWithin
    <2>3. ASSUME NEW n \in 1 .. io[d][r].writeHead - base PROVE log'[d][n] = log[d][n]
      BY <1>5, <2>2
    <2>4. io'[d][r].writeHead = io[d][r].writeHead /\ UNCHANGED <<file, starts, base>>
      BY <1>1, <1>7
    <2> QED BY <2>1, <2>3, <2>4 DEF RowsIn
  <1>16. ASSUME NEW e \in Datasets, NEW r \in Ranks PROVE ObjectInv(e, r)' /\ RowsIn(e, r)'
    <2>1. CASE e = d
      BY <2>1, <1>14, <1>15
    <2>2. CASE e # d
      <3>1. ObjectInv(e, r) /\ io'[e] = io[e] /\ log'[e] = log[e] /\ file'[e] = file[e]
        BY <2>2, <1>1, <1>13 DEF HInv
      <3>2. /\ InRow(e, r)' <=> InRow(e, r)
            /\ ~InRow(e, r) /\ ~Early(e, r)' /\ ~Written(e, r)'
        BY <1>4
      <3>3. ObjectInv(e, r)'
        BY <1>1, <3>1, <3>2, KeptObject
      <3>4. UNCHANGED <<base, starts>>
        BY <1>1
      <3> QED BY <3>1, <3>3, <3>4, KeptDataset
    <2> QED BY <2>1, <2>2
  <1>17. ASSUME NEW e \in Datasets PROVE AgreeInv(e)'
    <2>1. CASE e = d
      <3>1. AgreeInv(d)
        BY DEF HInv
      <3>2. \A r \in Ranks : Len(io[d][r].counts) \in Nat
        BY <1>3, Lengths
      <3>3. \A q, r \in Ranks : Len(io[d][q].counts) = Len(io[d][r].counts)
        BY <3>1, <1>4 DEF AgreeInv
      <3>4. ASSUME NEW q \in Ranks, NEW r \in Ranks
            PROVE  Len(io'[d][q].counts) = Len(io'[d][r].counts)
        <4>1. Len(io'[d][q].counts) = Len(io[d][q].counts) + 1
          BY <1>12
        <4>2. Len(io'[d][r].counts) = Len(io[d][r].counts) + 1
          BY <1>12
        <4> QED BY <3>3, <4>1, <4>2
      <3>5. \A q, r \in Ranks :
                /\ io'[d][q].writeLimit = io'[d][r].writeLimit
                /\ io'[d][q].highwater = io'[d][r].highwater
                /\ io'[d][q].globalCount = io'[d][r].globalCount
                /\ io'[d][q].globalCount # 0 => \E m \in Ranks : io'[d][m].member
        BY SMTT(40), <3>1, <1>7 DEF AgreeInv
      <3> QED BY <2>1, <3>4, <3>5 DEF AgreeInv
    <2>2. CASE e # d
      BY <2>2, <1>4, <1>13, KeptAgree DEF HInv
    <2> QED BY <2>1, <2>2
  <1>18. ASSUME NEW e \in Datasets PROVE Ready(e)'
    <2>1. CASE e # d
      <3>1. io'[e] = io[e] /\ log'[e] = log[e] /\ file'[e] = file[e] /\ Ready(e)
        BY <2>1, <1>1, <1>2, <1>13 DEF Waiting
      <3>2. UNCHANGED <<base, starts>>
        BY <1>1
      <3> QED BY <3>1, <3>2, KeptDataset
    <2>2. CASE e = d
      <3>1. Ready(d)
        BY <1>2 DEF Waiting
      <3>2. Fits(d)'
        BY <3>1, <1>1, <1>7 DEF Ready, Fits
      <3>3. Known(d)'
        <4>1. ~\A r \in Ranks : io'[d][r].counts = << >>
          BY <1>12, TheRanks
        <4> SUFFICES ASSUME \A r \in Ranks : ~io'[d][r].sizeChanged
                     PROVE  IsPartition(d, Dims(d))'
          BY <4>1 DEF Known
        <4>2. \A r \in Ranks : io'[d][r].dims = io[d][r].dims /\ ~io[d][r].sizeChanged
          BY <1>7
        <4>3. IsPartition(d, Dims(d))
          BY <3>1, <4>2 DEF Ready, Known
        <4>4. Dims(d)' = Dims(d)
          BY <4>2 DEF Dims
        <4> QED BY <4>3, <4>4, <1>7 DEF IsPartition
      <3> QED BY <2>2, <3>2, <3>3 DEF Ready
    <2> QED BY <2>1, <2>2
  <1>19. Waiting'
    <2>1. Idle'
      BY <1>1, <1>2 DEF Idle
    <2>2. \A r \in Ranks : io'[1][r].writeHead = io[1][r].writeHead
      BY <1>7, <1>13, TheRanks
    <2> QED BY <1>1, <1>2, <1>18, <2>1, <2>2 DEF Waiting
  <1>20. TypeInv'
    <2>1. io' \in [Datasets -> [Ranks -> Object]]
      <3>1. io'[d] \in [Ranks -> Object]
        <4>1. io'[d] = [r \in Ranks |-> io'[d][r]]
          BY <1>1, <1>3 DEF TypeInv
        <4> QED BY <4>1, <1>7
      <3> QED BY <3>1, <1>1, <1>3 DEF TypeInv
    <2>2. log' \in [Datasets -> Seq([Ranks -> Nat])]
      BY <1>1, <1>3, <1>5 DEF TypeInv
    <2> QED BY <1>1, <1>3, <2>1, <2>2 DEF TypeInv
  <1> QED BY <1>16, <1>17, <1>19, <1>20 DEF HInv
-----------------------------------------------------------------------------
(* The phase a call belongs to, and what a step on one dataset has to show.    *)

LEMMA PhaseOf ==
    ASSUME HInv, NEW r \in Ranks
    PROVE  /\ run[r].at \in WriteCalls => Writing(run[r].ds)
           /\ run[r].at \in {"closed", "compress", "compressed"} => Closing(run[r].ds)
           /\ run[r].at = "open" => Starting(run[r].ds)
           /\ run[r].at \in {"extended", "registered", "timed", "split"} =>
                Starting(run[r].ds) \/ \E d \in Datasets : Apart(d)
  <1> DEFINE early == {"split", "open", "registered", "extended", "timed"}
             late  == {"closed", "compress", "compressed"}
             apart == {"extended", "registered", "timed", "split", "idle"}
  <1>1. /\ \A c \in WriteCalls : c \notin early /\ c \notin late /\ c \notin apart /\ c # "idle"
        /\ \A c \in late : c \notin early /\ c \notin apart /\ c # "idle"
        /\ "open" \notin apart
    BY DEF WriteCalls, RowCalls, EarlyCalls
  <1>2. \/ run[r].at = "idle"
        \/ \E d \in Datasets : Starting(d) \/ Apart(d) \/ Writing(d) \/ Closing(d)
    BY DEF HInv, Waiting, Idle
  <1>3. ASSUME NEW d \in Datasets, Starting(d) PROVE run[r].ds = d /\ run[r].at \in early
    BY <1>3, WhereStarting
  <1>4. ASSUME NEW d \in Datasets, Writing(d) PROVE run[r].ds = d /\ run[r].at \in WriteCalls
    BY <1>4, WhereWriting
  <1>5. ASSUME NEW d \in Datasets, Closing(d) PROVE run[r].ds = d /\ run[r].at \in late
    BY <1>5, WhereClosing
  <1>6. ASSUME NEW d \in Datasets, Apart(d) PROVE run[r].at \in apart
    BY <1>6, WhereApart
  <1>7. /\ run[r].at = "idle" => run[r].at \notin early /\ run[r].at # "open"
        /\ \A c \in {"extended", "registered", "timed", "split"} : c \in early
        /\ "open" \in early
    OBVIOUS
  <1> HIDE DEF early, late, apart
  <1>8. ASSUME run[r].at \in WriteCalls PROVE Writing(run[r].ds)
    BY <1>1, <1>2, <1>3, <1>4, <1>5, <1>6, <1>8
  <1>9. ASSUME run[r].at \in late PROVE Closing(run[r].ds)
    BY <1>1, <1>2, <1>3, <1>4, <1>5, <1>6, <1>9
  <1>10. ASSUME run[r].at = "open" PROVE Starting(run[r].ds)
    BY <1>1, <1>2, <1>3, <1>4, <1>5, <1>6, <1>7, <1>10
  <1>11. ASSUME run[r].at \in {"extended", "registered", "timed", "split"}
         PROVE  Starting(run[r].ds) \/ \E d \in Datasets : Apart(d)
    BY <1>1, <1>2, <1>3, <1>4, <1>5, <1>6, <1>7, <1>11
  <1> QED BY <1>8, <1>9, <1>10, <1>11 DEF late

\* The other datasets of a step on one dataset
LEMMA OthersKept ==
    ASSUME HInv, NEW e \in Datasets, io'[e] = io[e], log'[e] = log[e], file'[e] = file[e],
           UNCHANGED <<base, starts>>,
           \A r \in Ranks : ~InRow(e, r) /\ ~InRow(e, r)' /\ ~Written(e, r) /\ ~Written(e, r)'
                            /\ (Early(e, r)' => run'[r].row = 0 /\ run'[r].cursor = 0)
    PROVE  AgreeInv(e)' /\ \A r \in Ranks : ObjectInv(e, r)' /\ RowsIn(e, r)'
  <1>1. AgreeInv(e)'
    BY KeptAgree DEF HInv
  <1>2. ASSUME NEW r \in Ranks PROVE ObjectInv(e, r)'
    <2>1. ObjectInv(e, r) /\ io'[e][r] = io[e][r]
      BY DEF HInv
    <2> QED BY <2>1, KeptObject
  <1>3. \A r \in Ranks : RowsIn(e, r)'
    BY KeptDataset
  <1> QED BY <1>1, <1>2, <1>3

LEMMA StepInv ==
    ASSUME HInv, TypeInv', NEW d \in Datasets, UNCHANGED <<log, base, starts>>,
           \A e \in Datasets : e # d => io'[e] = io[e] /\ file'[e] = file[e],
           \A r \in Ranks : run[r].ds = d /\ run'[r].ds = d,
           AgreeInv(d)', \A r \in Ranks : ObjectInv(d, r)' /\ RowsIn(d, r)',
           Starting(d)' \/ Apart(d)' \/ Writing(d)' \/ Closing(d)'
    PROVE  HInv'
  <1>1. ASSUME NEW e \in Datasets, e # d
        PROVE  AgreeInv(e)' /\ \A r \in Ranks : ObjectInv(e, r)' /\ RowsIn(e, r)'
    <2>1. io'[e] = io[e] /\ file'[e] = file[e] /\ log'[e] = log[e] /\ UNCHANGED <<base, starts>>
      BY <1>1
    <2>2. \A r \in Ranks : ~InRow(e, r) /\ ~InRow(e, r)' /\ ~Written(e, r) /\ ~Written(e, r)'
                           /\ ~Early(e, r)'
      BY <1>1 DEF InRow, Written, Early
    <2> QED BY <2>1, <2>2, OthersKept
  <1>2. \A e \in Datasets : AgreeInv(e)' /\ \A r \in Ranks : ObjectInv(e, r)' /\ RowsIn(e, r)'
    BY <1>1
  <1> QED BY <1>2 DEF HInv

LEMMA StillObject ==
    ASSUME TypeInv, NEW d \in Datasets, NEW r \in Ranks, ObjectInv(d, r),
           log'[d] = log[d], UNCHANGED <<base, starts>>,
           io'[d][r].dims = io[d][r].dims, io'[d][r].counts = io[d][r].counts,
           io'[d][r].dataBuffer = io[d][r].dataBuffer, io'[d][r].bufferHead = io[d][r].bufferHead,
           ~io'[d][r].sizeChanged => ~io[d][r].sizeChanged,
           io'[d][r].writeHead = Target(d) - Rest(d, r)',
           io'[d][r].writeHead > base => io'[d][r].writeHead <= io'[d][r].writeLimit,
           \A n \in 1 .. io'[d][r].writeHead - base : Total(log[d][n]) <= io'[d][r].highwater,
           InRow(d, r)' =>
              /\ run'[r].row < Len(io[d][r].counts)
              /\ \/ InRow(d, r) /\ run'[r].row = run[r].row /\ run'[r].cursor = run[r].cursor
                 \/ run'[r].row = 0 /\ run'[r].cursor = 0
                 \/ /\ InRow(d, r) /\ run'[r].row = run[r].row + 1
                    /\ run'[r].cursor = run[r].cursor + io[d][r].counts[run[r].row + 1],
           Early(d, r)' => run'[r].row = 0 /\ run'[r].cursor = 0,
           ~Written(d, r)'
    PROVE  ObjectInv(d, r)'
  <1> DEFINE o == io[d][r]
             N == Len(o.counts)
  <1>1. BufferInv(d, r)'
    <2>1. BufferInv(d, r) /\ N \in Nat /\ run[r].row \in Nat
      BY Lengths DEF ObjectInv
    <2>2. PICK places \in [0 .. N -> Nat] :
              /\ ArePlaces(places, o)
              /\ \A k \in 1 .. N : \A i \in 1 .. o.counts[k] :
                    o.dataBuffer[places[k - 1] + i] = <<starts, Len(log[d]) - N + k, r, i>>
              /\ InRow(d, r) => run[r].cursor = places[run[r].row]
      BY <2>1 DEF BufferInv
    <2>3. ASSUME InRow(d, r)' PROVE run'[r].cursor = places[run'[r].row]
      <3>1. CASE InRow(d, r) /\ run'[r].row = run[r].row /\ run'[r].cursor = run[r].cursor
        BY <3>1, <2>2
      <3>2. CASE run'[r].row = 0 /\ run'[r].cursor = 0
        BY <3>2, <2>2 DEF ArePlaces
      <3>3. CASE /\ InRow(d, r) /\ run'[r].row = run[r].row + 1
                 /\ run'[r].cursor = run[r].cursor + o.counts[run[r].row + 1]
        <4>1. run[r].row + 1 < N
          BY <2>3, <3>3
        <4>2. run[r].row + 1 \in 1 .. N /\ (run[r].row + 1) - 1 = run[r].row
          <5>1. \A a, b \in Nat : a + 1 < b => a + 1 \in 1 .. b /\ (a + 1) - 1 = a
            OBVIOUS
          <5> QED BY <2>1, <4>1, <5>1
        <4>3. places[run[r].row + 1] = places[run[r].row] + o.counts[run[r].row + 1]
          BY <2>2, <4>2 DEF ArePlaces
        <4> QED BY Zenon, <3>3, <4>3, <2>2
      <3> QED BY <2>3, <3>1, <3>2, <3>3
    <2>6. ArePlaces(places, io'[d][r])
      BY <2>2 DEF ArePlaces
    <2>4. /\ places \in [0 .. Len(io'[d][r].counts) -> Nat]
          /\ \A k \in 1 .. Len(io'[d][r].counts) : \A i \in 1 .. io'[d][r].counts[k] :
                io'[d][r].dataBuffer[places[k - 1] + i]
                    = <<starts', Len(log'[d]) - Len(io'[d][r].counts) + k, r, i>>
      BY <2>2
    <2>5. /\ Len(io'[d][r].counts) <= Len(log'[d])
          /\ \A i \in 1 .. Len(io'[d][r].counts) :
                io'[d][r].counts[i] = log'[d][Len(log'[d]) - Len(io'[d][r].counts) + i][r]
          /\ io'[d][r].bufferHead <= Len(io'[d][r].dataBuffer)
      BY Zenon, <2>1 DEF BufferInv
    <2> QED BY Zenon, <2>3, <2>4, <2>5, <2>6 DEF BufferInv, ArePlaces
  <1>2. Target(d)' = Target(d)
    BY DEF Target
  <1>3. InRow(d, r)' => run'[r].row < Len(io'[d][r].counts)
    OBVIOUS
  <1> QED BY <1>1, <1>2, <1>3 DEF ObjectInv

LEMMA DoneObject ==
    ASSUME TypeInv, NEW d \in Datasets, NEW r \in Ranks, ObjectInv(d, r),
           log'[d] = log[d], UNCHANGED <<base, starts>>, io'[d][r] \in Object,
           io'[d][r].dims = io[d][r].dims, io'[d][r].counts = << >>,
           io'[d][r].bufferHead = 0, ~io'[d][r].sizeChanged,
           io'[d][r].writeHead = Target(d),
           io'[d][r].writeHead > base => io'[d][r].writeHead <= io'[d][r].writeLimit,
           \A n \in 1 .. io'[d][r].writeHead - base : Total(log[d][n]) <= io'[d][r].highwater,
           ~InRow(d, r)', ~Early(d, r)'
    PROVE  ObjectInv(d, r)'
  <1>1. Len(io'[d][r].counts) = 0 /\ Len(io'[d][r].dataBuffer) \in Nat /\ Len(log[d]) \in Nat
        /\ Target(d) \in Nat
    BY Lengths, LenProperties, EmptyLength DEF Object
  <1>2. 1 .. 0 = {}
    OBVIOUS
  <1>3. BufferInv(d, r)'
    <2> DEFINE places == [k \in 0 .. 0 |-> 0]
    <2>1. places \in [0 .. 0 -> Nat] /\ places[0] = 0
      OBVIOUS
    <2> HIDE DEF places
    <2>2. ArePlaces(places, io'[d][r])
      BY <1>1, <1>2, <2>1 DEF ArePlaces
    <2>3. /\ places \in [0 .. Len(io'[d][r].counts) -> Nat]
          /\ ArePlaces(places, io'[d][r])
          /\ \A k \in 1 .. Len(io'[d][r].counts) : \A i \in 1 .. io'[d][r].counts[k] :
                io'[d][r].dataBuffer[places[k - 1] + i]
                    = <<starts', Len(log'[d]) - Len(io'[d][r].counts) + k, r, i>>
          /\ InRow(d, r)' => run'[r].cursor = places[run'[r].row]
      BY <1>1, <1>2, <2>1, <2>2
    <2>4. /\ Len(io'[d][r].counts) <= Len(log'[d])
          /\ \A i \in 1 .. Len(io'[d][r].counts) :
                io'[d][r].counts[i] = log'[d][Len(log'[d]) - Len(io'[d][r].counts) + i][r]
          /\ io'[d][r].bufferHead <= Len(io'[d][r].dataBuffer)
      BY <1>1, <1>2
    <2> QED BY <2>3, <2>4 DEF BufferInv, ArePlaces
  <1>4. Target(d)' = Target(d) /\ Rest(d, r)' = 0
    <2>1. Rest(d, r)' = Len(io'[d][r].counts) - 0
      BY DEF Rest
    <2> QED BY <1>1, <2>1 DEF Target
  <1>5. io'[d][r].writeHead = Target(d)' - Rest(d, r)'
    BY <1>1, <1>4
  <1>6. \A i \in 1 .. Len(io'[d][r].counts) : io'[d][r].counts[i] = io'[d][r].dims
    BY <1>1, <1>2
  <1> QED BY <1>3, <1>5, <1>6 DEF ObjectInv

\* Where write() goes next, and the object there
LEMMA NextWhere ==
    ASSUME NEW o, NEW k
    PROVE  /\ NextCall(o, k) \in {"written", "splitRow", "writeRow"}
           /\ NextCall(o, k) = "splitRow" <=> k # Len(o.counts) /\ o.sizeChanged
           /\ NextCall(o, k) = "writeRow" <=> k # Len(o.counts) /\ ~o.sizeChanged /\ o.member
           /\ NextCall(o, k) # "written" => NextObject(o, k) = o
  BY DEF NextCall, NextObject

LEMMA NextHead ==
    ASSUME NEW o \in Object, NEW k \in Nat, k <= Len(o.counts)
    PROVE  o.writeHead + (Len(o.counts) - k) \in Nat
  <1>1. Len(o.counts) \in Nat /\ o.writeHead \in Nat
    BY LenProperties DEF Object
  <1> DEFINE N == Len(o.counts)
  <1> HIDE DEF N
  <1> QED BY <1>1 DEF N

LEMMA NextWritten ==
    ASSUME NEW o \in Object, NEW k \in Nat, NextCall(o, k) = "written",
           NEW p, p = NextObject(o, k)
    PROVE  /\ p.dims = o.dims /\ p.dataBuffer = o.dataBuffer /\ p.writeLimit = o.writeLimit
           /\ p.highwater = o.highwater /\ p.globalCount = o.globalCount
           /\ p.offset = o.offset /\ p.counts = << >> /\ p.bufferHead = 0
           /\ p.writeHead = o.writeHead + (Len(o.counts) - k)
  BY DEF NextObject, Emptied, Object

LEMMA NextFlags ==
    ASSUME NEW o \in Object, NEW k \in Nat, NextCall(o, k) = "written",
           NEW p, p = NextObject(o, k)
    PROVE  ~p.sizeChanged /\ (p.member <=> o.member)
  BY DEF NextObject, Emptied, Object

LEMMA NextType ==
    ASSUME NEW o \in Object, NEW k \in Nat, k <= Len(o.counts),
           NEW p, p = NextObject(o, k)
    PROVE  p \in Object
  <1> DEFINE h == o.writeHead + (Len(o.counts) - k)
  <1>1. CASE NextCall(o, k) = "written"
    <2>1. h \in Nat /\ << >> \in Seq(Nat)
      BY NextHead, EmptySeq
    <2>2. p = [dims |-> o.dims, sizeChanged |-> FALSE, dataBuffer |-> o.dataBuffer,
               bufferHead |-> 0, counts |-> << >>, writeLimit |-> o.writeLimit,
               writeHead |-> h, highwater |-> o.highwater, globalCount |-> o.globalCount,
               offset |-> o.offset, member |-> o.member]
      BY <1>1 DEF NextObject, Emptied, Object
    <2>3. /\ o.dims \in Nat /\ o.dataBuffer \in Seq(Cell) /\ o.writeLimit \in Nat
          /\ o.highwater \in Nat /\ o.globalCount \in Nat /\ o.offset \in Nat
          /\ o.member \in BOOLEAN
      BY DEF Object
    <2> HIDE DEF h
    <2> QED BY <2>1, <2>2, <2>3 DEF Object
  <1>2. CASE NextCall(o, k) # "written"
    BY <1>2 DEF NextObject
  <1> QED BY <1>1, <1>2
-----------------------------------------------------------------------------
(* The partition of a row, and the extent of the file.                         *)

LEMMA MaxOfTwo ==
    ASSUME NEW x \in Nat, NEW y \in Nat
    PROVE  Max({x, y}) \in {x, y} /\ x <= Max({x, y}) /\ y <= Max({x, y})
  <1>1. \E m \in {x, y} : \A z \in {x, y} : m >= z
    OBVIOUS
  <1>2. Max({x, y}) \in {x, y} /\ \A z \in {x, y} : Max({x, y}) >= z
    BY <1>1 DEF Max
  <1>3. Max({x, y}) \in Nat
    BY <1>2
  <1> DEFINE m == Max({x, y})
  <1> HIDE DEF m
  <1>4. m >= x /\ m >= y /\ m \in Nat
    BY <1>2, <1>3 DEF m
  <1>5. x <= m /\ y <= m
    BY <1>4
  <1> QED BY <1>2, <1>5 DEF m

LEMMA PartitionSums ==
    ASSUME TypeInv, NEW d \in Datasets, NEW sizes \in [Ranks -> Nat], NEW r \in Ranks
    PROVE  /\ Total(sizes) \in Nat /\ Before(sizes, r) \in Nat
           /\ io[d][r] \in Object /\ io[d][r].highwater \in Nat
           /\ Max({io[d][r].highwater, Total(sizes)}) \in {io[d][r].highwater, Total(sizes)}
           /\ io[d][r].highwater <= Max({io[d][r].highwater, Total(sizes)})
           /\ Total(sizes) <= Max({io[d][r].highwater, Total(sizes)})
  <1>1. Total(sizes) \in Nat /\ Before(sizes, r) \in Nat
    BY SumsApart
  <1>2. io[d][r] \in Object /\ io[d][r].highwater \in Nat
    BY DEF TypeInv, Object
  <1>3. /\ Max({io[d][r].highwater, Total(sizes)}) \in {io[d][r].highwater, Total(sizes)}
        /\ io[d][r].highwater <= Max({io[d][r].highwater, Total(sizes)})
        /\ Total(sizes) <= Max({io[d][r].highwater, Total(sizes)})
    BY <1>1, <1>2, MaxOfTwo
  <1> QED BY <1>1, <1>2, <1>3

LEMMA PartitionKeeps ==
    ASSUME TypeInv, NEW d \in Datasets, NEW sizes \in [Ranks -> Nat], NEW r \in Ranks,
           NEW o, o = Partitioned(io[d], sizes)[r]
    PROVE  /\ o.dims = io[d][r].dims /\ o.sizeChanged = io[d][r].sizeChanged
           /\ o.dataBuffer = io[d][r].dataBuffer /\ o.bufferHead = io[d][r].bufferHead
           /\ o.counts = io[d][r].counts
           /\ o.writeLimit = io[d][r].writeLimit /\ o.writeHead = io[d][r].writeHead
  <1>1. io[d][r] \in Object
    BY PartitionSums
  <1>2. o = [io[d][r] EXCEPT !.offset = Before(sizes, r), !.globalCount = Total(sizes),
                             !.highwater = Max({io[d][r].highwater, Total(sizes)}),
                             !.member = sizes[r] > 0]
    BY <1>1 DEF Partitioned, Highwater, Object
  <1> QED BY <1>1, <1>2 DEF Object

LEMMA PartitionSets ==
    ASSUME TypeInv, NEW d \in Datasets, NEW sizes \in [Ranks -> Nat], NEW r \in Ranks,
           NEW o, o = Partitioned(io[d], sizes)[r]
    PROVE  /\ o.globalCount = Total(sizes) /\ o.offset = Before(sizes, r)
           /\ o.member = (sizes[r] > 0)
  <1>1. io[d][r] \in Object
    BY PartitionSums
  <1>2. o = [io[d][r] EXCEPT !.offset = Before(sizes, r), !.globalCount = Total(sizes),
                             !.highwater = Max({io[d][r].highwater, Total(sizes)}),
                             !.member = sizes[r] > 0]
    BY <1>1 DEF Partitioned, Highwater, Object
  <1> QED BY <1>1, <1>2 DEF Object

LEMMA PartitionHigh ==
    ASSUME TypeInv, NEW d \in Datasets, NEW sizes \in [Ranks -> Nat], NEW r \in Ranks
    PROVE  Partitioned(io[d], sizes)[r].highwater = Max({io[d][r].highwater, Total(sizes)})
  <1>1. io[d][r] \in Object
    BY PartitionSums
  <1> QED BY <1>1 DEF Partitioned, Highwater, Object

LEMMA PartitionFacts ==
    ASSUME TypeInv, NEW d \in Datasets, NEW sizes \in [Ranks -> Nat],
           NEW os, os = Partitioned(io[d], sizes)
    PROVE  /\ os \in [Ranks -> Object]
           /\ \A r \in Ranks : io[d][r].highwater <= os[r].highwater /\ Total(sizes) <= os[r].highwater
           /\ \A r \in Ranks : io[d][r].highwater = 0 => os[r].highwater = Total(sizes)
           /\ Total(sizes) # 0 => \E m \in Ranks : os[m].member
  <1>5. ASSUME NEW r \in Ranks
        PROVE  os[r].highwater = Max({io[d][r].highwater, Total(sizes)})
    BY PartitionHigh
  <1>6. ASSUME NEW r \in Ranks PROVE os[r] \in Object
    <2> DEFINE m == Max({io[d][r].highwater, Total(sizes)})
               t == Total(sizes)
               b == Before(sizes, r)
               o == io[d][r]
               isMember == sizes[r] > 0
    <2>1. m \in Nat /\ t \in Nat /\ b \in Nat /\ o \in Object /\ isMember \in BOOLEAN
      BY PartitionSums
    <2>2. os[r] = [o EXCEPT !.offset = b, !.globalCount = t, !.highwater = m, !.member = isMember]
      BY <2>1 DEF Partitioned, Highwater, Object
    <2> HIDE DEF m, t, b, o, isMember
    <2> QED BY <2>1, <2>2 DEF Object
  <1>7. os \in [Ranks -> Object]
    <2>1. os = [r \in Ranks |-> os[r]]
      BY DEF Partitioned
    <2> QED BY <1>6, <2>1
  <1>8. ASSUME Total(sizes) # 0 PROVE \E m \in Ranks : os[m].member
    <2>1. PICK m \in Ranks : sizes[m] # 0
      BY <1>8, SumsApart
    <2>2. sizes[m] > 0
      BY <2>1
    <2>3. os[m].member = (sizes[m] > 0)
      BY PartitionSets
    <2> QED BY <2>2, <2>3
  <1>9. \A r \in Ranks : io[d][r].highwater <= os[r].highwater /\ Total(sizes) <= os[r].highwater
    BY <1>5, PartitionSums
  <1>10. ASSUME NEW r \in Ranks, io[d][r].highwater = 0 PROVE os[r].highwater = Total(sizes)
    <2> DEFINE t == Total(sizes)
               m == os[r].highwater
    <2>1. m \in {0, t} /\ t <= m /\ t \in Nat
      BY <1>5, <1>10, PartitionSums
    <2> HIDE DEF t, m
    <2>2. m = t
      BY <2>1
    <2> QED BY <2>2 DEF t, m
  <1> QED BY <1>7, <1>8, <1>9, <1>10

LEMMA ExtendedFacts ==
    ASSUME NEW f, NEW rows \in Nat, NEW cols \in Nat, NEW g, g = Extended(f, rows, cols)
    PROVE  /\ IsFile(g) /\ g.exists /\ g.rows = rows /\ g.cols = cols
           /\ DOMAIN g.cell = Within(rows, cols)
  <1> DEFINE cell == [p \in Within(rows, cols) |-> IF p \in DOMAIN f.cell THEN f.cell[p] ELSE Fill]
  <1>1. DOMAIN cell = Within(rows, cols)
    OBVIOUS
  <1>2. g = [exists |-> TRUE, rows |-> rows, cols |-> cols, cell |-> cell]
    BY DEF Extended
  <1> HIDE DEF cell
  <1> QED BY <1>1, <1>2 DEF IsFile

\* What was in the file stays where it still has a place.
LEMMA ExtendedCells ==
    ASSUME NEW f, NEW rows, NEW cols, NEW p \in Within(rows, cols), p \in DOMAIN f.cell
    PROVE  Extended(f, rows, cols).cell[p] = f.cell[p]
  BY DEF Extended

\* Where a piece that is counted as written has its place
LEMMA Place ==
    ASSUME TypeInv, NEW d \in Datasets, NEW r \in Ranks, ObjectInv(d, r),
           NEW n \in 1 .. io[d][r].writeHead - base, NEW k \in 1 .. log[d][n][r]
    PROVE  /\ io[d][r].writeHead > base
           /\ base + n - 1 \in 0 .. io[d][r].writeHead - 1
           /\ Before(log[d][n], r) + k - 1 \in 0 .. io[d][r].highwater - 1
  <1>1. log[d][n] \in [Ranks -> Nat] /\ io[d][r].writeHead \in Nat /\ base \in Nat
    BY HeadWithin, Lengths
  <1>2. io[d][r].highwater \in Nat /\ Total(log[d][n]) <= io[d][r].highwater
    BY Lengths DEF ObjectInv, Object
  <1>3. /\ Before(log[d][n], r) \in Nat /\ Total(log[d][n]) \in Nat /\ log[d][n][r] \in Nat
        /\ Before(log[d][n], r) + log[d][n][r] <= Total(log[d][n])
    BY <1>1, SumsApart
  <1>4. \A b, h \in Nat : \A m \in 1 .. h - b : h > b /\ b + m - 1 \in 0 .. h - 1
    OBVIOUS
  <1>5. \A b, s, t, w \in Nat : \A i \in 1 .. s :
            b + s <= t /\ t <= w => b + i - 1 \in 0 .. w - 1
    OBVIOUS
  <1>6. Before(log[d][n], r) + k - 1 \in 0 .. io[d][r].highwater - 1
    BY <1>2, <1>3, <1>5
  <1> QED BY <1>1, <1>4, <1>6

LEMMA ExtentRows ==
    ASSUME TypeInv, NEW d \in Datasets, NEW r \in Ranks, ObjectInv(d, r), RowsIn(d, r),
           io'[d] = io[d], log'[d] = log[d], UNCHANGED <<base, starts>>,
           NEW rows \in Nat, NEW cols \in Nat, file'[d] = Extended(file[d], rows, cols),
           io[d][r].writeHead > base => io[d][r].writeHead <= rows, io[d][r].highwater <= cols
    PROVE  RowsIn(d, r)'
  <1> SUFFICES ASSUME NEW n \in 1 .. io[d][r].writeHead - base, NEW k \in 1 .. log[d][n][r]
               PROVE  LET p == <<base + n - 1, Before(log[d][n], r) + k - 1>>
                      IN  p \in DOMAIN file'[d].cell /\ file'[d].cell[p] = <<starts, n, r, k>>
    BY DEF RowsIn
  <1> DEFINE a == base + n - 1
             b == Before(log[d][n], r) + k - 1
             h == io[d][r].writeHead
             w == io[d][r].highwater
             p == <<a, b>>
             g == file'[d]
             f == file[d]
  <1>1. h > base /\ a \in 0 .. h - 1 /\ b \in 0 .. w - 1
    BY Place
  <1>2. h \in Nat /\ w \in Nat /\ h <= rows /\ w <= cols
    BY <1>1, Lengths DEF Object
  <1>3. p \in DOMAIN f.cell /\ f.cell[p] = <<starts, n, r, k>>
    BY DEF RowsIn
  <1>4. g = Extended(f, rows, cols)
    OBVIOUS
  <1> HIDE DEF a, b, h, w, g, f
  <1>5. a \in 0 .. rows - 1 /\ b \in 0 .. cols - 1
    BY <1>1, <1>2
  <1>6. p \in Within(rows, cols)
    BY <1>5 DEF Within
  <1> HIDE DEF p
  <1>9. rows \in Nat /\ cols \in Nat
    OBVIOUS
  <1>7. DOMAIN g.cell = Within(rows, cols)
    BY <1>4, <1>9, ExtendedFacts
  <1>8. g.cell[p] = f.cell[p]
    BY <1>3, <1>4, <1>6, ExtendedCells
  <1>10. p \in DOMAIN g.cell /\ g.cell[p] = f.cell[p]
    BY <1>3, <1>6, <1>7, <1>8
  <1> QED BY <1>3, <1>10 DEF p, g, a, b
LEMMA SubcommRanks ==
    ASSUME NEW d, Subcomm(d) # {}
    PROVE  Min(Subcomm(d)) \in Subcomm(d) /\ Min(Subcomm(d)) \in Ranks
  <1>1. Subcomm(d) \subseteq Ranks /\ Subcomm(d) \subseteq Nat
    BY TheRanks DEF Subcomm
  <1> DEFINE S == Subcomm(d)
  <1> HIDE DEF S
  <1>2. S \in SUBSET Nat /\ S # {}
    BY <1>1 DEF S
  <1>3. Min(S) \in S
    BY <1>2, MinOfNaturals
  <1> QED BY <1>1, <1>3 DEF S

\* What the phases say of the ranks that extend the file
LEMMA ExtentPhase ==
    ASSUME HInv, NEW d \in Datasets, NEW r \in Subcomm(d), run[r].ds = d
    PROVE  /\ run[r].at = "grow" =>
                /\ Writing(d) /\ Together(d, Subcomm(d), "grow", "grown")
                /\ SameChange(d) /\ Known(d) /\ HeadFits(d)
           /\ run[r].at = "fit" =>
                /\ Writing(d) /\ Together(d, Subcomm(d), "fit", "fitted")
                /\ SameRow(d) /\ Changed(d) /\ HeadFits(d) /\ \A q \in Ranks : RowInv(d, q)
           /\ run[r].at = "compress" =>
                Closing(d) /\ Together(d, Subcomm(d), "compress", "compressed")
  <1>1. r \in Ranks
    BY DEF Subcomm
  <1>2. ASSUME Writing(d), WritingRow(d) PROVE run[r].at = "writeRow"
    BY <1>2 DEF WritingRow
  <1>3. ASSUME run[r].at = "grow"
        PROVE  /\ Writing(d) /\ Together(d, Subcomm(d), "grow", "grown")
               /\ SameChange(d) /\ Known(d) /\ HeadFits(d)
    <2>1. Writing(d)
      BY <1>1, <1>3, PhaseOf DEF WriteCalls, EarlyCalls
    <2>2. ~WritingRow(d)
      BY <1>2, <1>3, <2>1
    <2> QED BY <1>1, <1>3, <2>1, <2>2 DEF Writing, All, Together
  <1>4. ASSUME run[r].at = "fit"
        PROVE  /\ Writing(d) /\ Together(d, Subcomm(d), "fit", "fitted")
               /\ SameRow(d) /\ Changed(d) /\ HeadFits(d) /\ \A q \in Ranks : RowInv(d, q)
    <2>1. Writing(d)
      BY <1>1, <1>4, PhaseOf DEF WriteCalls, RowCalls
    <2>2. ~WritingRow(d)
      BY <1>2, <1>4, <2>1
    <2> QED BY <1>1, <1>4, <2>1, <2>2 DEF Writing, All, Together
  <1>5. ASSUME run[r].at = "compress"
        PROVE  Closing(d) /\ Together(d, Subcomm(d), "compress", "compressed")
    <2>1. Closing(d)
      BY <1>1, <1>5, PhaseOf
    <2> QED BY <1>1, <1>5, <2>1 DEF Closing, All, Together
  <1> QED BY <1>3, <1>4, <1>5

\* With empty buffers all rows are written.
LEMMA FlushedHead ==
    ASSUME TypeInv, NEW d \in Datasets, NEW r \in Ranks, ObjectInv(d, r), io[d][r].counts = << >>
    PROVE  io[d][r].writeHead = Target(d) /\ ~InRow(d, r)
  <1>1. ~InRow(d, r)
    <2>1. run[r].row \in Nat /\ Len(io[d][r].counts) = 0
      BY Lengths, EmptyLength
    <2>2. ~(run[r].row < 0)
      BY <2>1
    <2> QED BY <2>1, <2>2 DEF ObjectInv
  <1>2. Rest(d, r) = 0 /\ Target(d) \in Nat
    <2>1. Rest(d, r) = 0 - 0
      BY <1>1, EmptyLength DEF Rest
    <2> QED BY <2>1, Lengths
  <1>3. io[d][r].writeHead = Target(d) - 0
    BY <1>2 DEF ObjectInv
  <1> QED BY <1>1, <1>2, <1>3

LEMMA UpdateExtentHInv ==
    ASSUME HInv, NEW d \in Datasets, NEW call \in ExtentCalls, UpdateExtent(d, call)
    PROVE  HInv'
  <1> DEFINE R == Subcomm(d)
             m == Min(R)
             o == io[d][m]
             rows == RowLimit(o, call)
             cols == o.highwater
             done == ExtentDone[call]
  <1>1. m \in R /\ m \in Ranks /\ run[m].at = call /\ run[m].ds = d /\ TypeInv
    BY SubcommRanks DEF UpdateExtent, At, HInv
  <1>2. /\ UNCHANGED <<io, recordCount, saved, closing, log, base, starts>>
        /\ file' = [file EXCEPT ![d] = Extended(file[d], rows, cols)]
        /\ file'[d] = Extended(file[d], rows, cols)
        /\ \A e \in Datasets : e # d => file'[e] = file[e]
    <2>1. file = [e \in Datasets |-> file[e]]
      BY <1>1 DEF TypeInv
    <2> HIDE DEF rows, cols
    <2> QED BY <2>1 DEF UpdateExtent, rows, cols, o, m, R
  <1>3. ASSUME NEW r \in Ranks
        PROVE  /\ run'[r].ds = run[r].ds /\ run'[r].row = run[r].row
               /\ run'[r].cursor = run[r].cursor
               /\ r \in R => run'[r].at = done /\ run[r].at = call /\ run[r].ds = d
               /\ r \notin R => run'[r].at = run[r].at
               /\ run'[r] \in [at : Calls, ds : Datasets, row : Nat, cursor : Nat]
    <2>1. run[r] \in [at : Calls, ds : Datasets, row : Nat, cursor : Nat]
      BY <1>1 DEF TypeInv
    <2>2. done \in Calls
      BY DEF ExtentCalls, ExtentDone, Calls, WriteCalls, RowCalls, EarlyCalls, CloseBarriers
    <2>3. run'[r] = IF r \in R THEN [run[r] EXCEPT !.at = done] ELSE run[r]
      BY DEF UpdateExtent
    <2>4. r \in R => run[r].at = call /\ run[r].ds = d
      BY DEF UpdateExtent, At
    <2> HIDE DEF R, done
    <2> QED BY <2>1, <2>2, <2>3, <2>4
  <1>4. /\ call = "grow" => done = "grown"
        /\ call = "fit" => done = "fitted"
        /\ call = "compress" => done = "compressed"
        /\ call \in {"grow", "fit", "compress"}
    BY DEF ExtentDone, ExtentCalls
  <1>5. /\ call = "grow" =>
                /\ Writing(d) /\ Together(d, Subcomm(d), "grow", "grown")
                /\ SameChange(d) /\ Known(d) /\ HeadFits(d)
        /\ call = "fit" =>
                /\ Writing(d) /\ Together(d, Subcomm(d), "fit", "fitted")
                /\ SameRow(d) /\ Changed(d) /\ HeadFits(d) /\ \A q \in Ranks : RowInv(d, q)
        /\ call = "compress" =>
                Closing(d) /\ Together(d, Subcomm(d), "compress", "compressed")
    BY <1>1, ExtentPhase
  <1>6. ASSUME NEW r \in Ranks
        PROVE  /\ run[r].ds = d /\ run'[r].ds = d /\ run'[r].at = done
               /\ run[r].at \in {call, done}
    BY <1>3, <1>4, <1>5 DEF Together
  <1>7. ASSUME NEW r \in Ranks
        PROVE  /\ io[d][r].writeLimit = o.writeLimit /\ io[d][r].highwater = cols
               /\ io[d][r].writeHead > base => io[d][r].writeHead <= rows
               /\ call = "compress" => io[d][r].writeHead = rows
               /\ call # "compress" => rows = io[d][r].writeLimit
    <2>1. io[d][r].writeLimit = o.writeLimit /\ io[d][r].highwater = cols
      BY <1>1 DEF HInv, AgreeInv
    <2>2. io[d][r].writeHead > base => io[d][r].writeHead <= o.writeLimit
      BY <2>1 DEF HInv, ObjectInv
    <2>3. ASSUME call = "compress" PROVE io[d][r].writeHead = rows
      <3>1. Flushed(d) /\ rows = o.writeHead
        BY <1>5, <2>3 DEF Closing, RowLimit
      <3>2. ObjectInv(d, r) /\ ObjectInv(d, m)
        BY <1>1 DEF HInv
      <3>3. io[d][r].writeHead = Target(d) /\ io[d][m].writeHead = Target(d)
        BY <1>1, <3>1, <3>2, FlushedHead DEF Flushed
      <3> QED BY <3>1, <3>3
    <2>4. io[d][r].writeHead \in Nat
      BY <1>1, Lengths DEF Object
    <2>5. io[d][r].writeHead <= io[d][r].writeHead
      BY <2>4
    <2>6. call # "compress" => rows = o.writeLimit
      BY DEF RowLimit
    <2> HIDE DEF rows, cols, o
    <2> QED BY <2>1, <2>2, <2>3, <2>5, <2>6
  <1>8. rows \in Nat /\ cols \in Nat
    BY <1>1, Lengths DEF RowLimit, Object
  <1> HIDE DEF rows, cols, o, m
  <1>9. TypeInv'
    <2>1. file' = [e \in Datasets |-> file'[e]]
      BY <1>1, <1>2 DEF TypeInv
    <2>2. IsFile(file'[d])
      BY <1>2, <1>8, ExtendedFacts
    <2>3. \A e \in Datasets : IsFile(file'[e])
      BY <1>1, <1>2, <2>2 DEF TypeInv
    <2>4. run' \in [Ranks -> [at : Calls, ds : Datasets, row : Nat, cursor : Nat]]
      <3>1. run' = [r \in Ranks |-> run'[r]]
        BY DEF UpdateExtent
      <3> QED BY <1>3, <3>1
    <2>5. \A e \in Datasets : IsFile(file[e])'
      BY <2>3 DEF IsFile
    <2> QED BY <1>1, <1>2, <2>1, <2>4, <2>5 DEF TypeInv
  <1>10. ASSUME NEW r \in Ranks
         PROVE  /\ InRow(d, r)' <=> InRow(d, r)
                /\ ~Written(d, r) /\ ~Written(d, r)'
                /\ Early(d, r)' => Early(d, r)
    BY <1>4, <1>6 DEF InRow, Written, Early, RowCalls, EarlyCalls
  <1>11. ASSUME NEW r \in Ranks PROVE ObjectInv(d, r)'
    <2>1. ObjectInv(d, r) /\ io'[d][r] = io[d][r] /\ log'[d] = log[d]
      BY <1>2 DEF HInv
    <2>2. Early(d, r)' => run'[r].row = 0 /\ run'[r].cursor = 0
      BY <1>3, <1>10, <2>1 DEF ObjectInv
    <2>3. InRow(d, r) => run'[r].row = run[r].row /\ run'[r].cursor = run[r].cursor
      BY <1>3
    <2> QED BY <1>2, <1>10, <2>1, <2>2, <2>3, KeptObject
  <1>12. ASSUME NEW r \in Ranks PROVE RowsIn(d, r)'
    <2>1. ObjectInv(d, r) /\ RowsIn(d, r)
      BY DEF HInv
    <2>2. io[d][r].highwater <= cols
      BY <1>7, <1>8
    <2> QED BY <1>1, <1>2, <1>7, <1>8, <2>1, <2>2, ExtentRows
  <1>13. AgreeInv(d)'
    BY <1>2, <1>10, KeptAgree DEF HInv
  <1>14. /\ file'[d].rows = rows /\ file'[d].cols = cols
    BY <1>2, <1>8, ExtendedFacts
  <1>15. \A e \in Datasets : e # d => (Ready(e)' <=> Ready(e))
    <2> SUFFICES ASSUME NEW e \in Datasets, e # d PROVE Ready(e)' <=> Ready(e)
      OBVIOUS
    <2>1. file'[e] = file[e] /\ io' = io /\ UNCHANGED <<log, base>>
      BY <1>2
    <2> QED BY <2>1 DEF Ready, Known, Fits, IsPartition, Dims
  <1>16. \A e \in Datasets : (Flushed(e)' <=> Flushed(e)) /\ Target(e)' = Target(e) /\ (Known(e)' <=> Known(e))
    BY <1>2 DEF Flushed, Target, Known, IsPartition, Dims
  <1>17. /\ SameChange(d)' <=> SameChange(d)
         /\ HeadFits(d)' <=> HeadFits(d)
         /\ Changed(d)' <=> Changed(d)
    BY <1>2 DEF SameChange, HeadFits, Target, Changed
  <1>18. Fits(d)' \/ call = "compress"
    <2> SUFFICES ASSUME call # "compress", NEW r \in Ranks
                 PROVE  io'[d][r].writeLimit <= file'[d].rows /\ io'[d][r].highwater <= file'[d].cols
      BY DEF Fits
    <2>1. io'[d][r].writeLimit = rows /\ io'[d][r].highwater = cols
      BY <1>2, <1>7
    <2>2. rows <= rows /\ cols <= cols
      BY <1>8
    <2> QED BY <1>14, <2>1, <2>2
  <1>20. ASSUME Writing(d) \/ Closing(d)
         PROVE  recordCount' = Target(1)' /\ \A e \in Datasets : e # d => Ready(e)'
    <2>1. recordCount = Target(1) /\ \A e \in Datasets : e # d => Ready(e)
      BY <1>20 DEF Writing, Closing
    <2> QED BY <1>2, <1>15, <1>16, <2>1, TheRanks
  <1>21. ASSUME Writing(d) PROVE \A e \in Datasets : e < d => Flushed(e)'
    BY <1>16, <1>21 DEF Writing
  <1>19. Writing(d)' \/ Closing(d)'
    <2>1. CASE call = "grow"
      <3>1. All(d, "grown")'
        BY <1>4, <1>6, <2>1 DEF All
      <3>2. Writing(d) /\ SameChange(d) /\ Known(d) /\ HeadFits(d)
        BY <1>5, <2>1
      <3>3. SameChange(d)' /\ Known(d)' /\ HeadFits(d)' /\ Fits(d)'
        BY <1>16, <1>17, <1>18, <2>1, <3>2
      <3> QED BY <1>20, <1>21, <3>1, <3>2, <3>3 DEF Writing
    <2>2. CASE call = "fit"
      <3>1. All(d, "fitted")'
        BY <1>4, <1>6, <2>2 DEF All
      <3>2. Writing(d) /\ SameRow(d) /\ Changed(d) /\ HeadFits(d) /\ \A q \in Ranks : RowInv(d, q)
        BY <1>5, <2>2
      <3>3. SameRow(d)'
        BY <1>3, <3>2 DEF SameRow
      <3>4. \A q \in Ranks : RowInv(d, q)'
        BY <1>2, <3>2 DEF RowInv, IsPartition
      <3>5. Changed(d)' /\ HeadFits(d)' /\ Fits(d)'
        BY <1>17, <1>18, <2>2, <3>2
      <3> QED BY <1>20, <1>21, <3>1, <3>2, <3>3, <3>4, <3>5 DEF Writing
    <2>3. CASE call = "compress"
      <3>1. All(d, "compressed")'
        BY <1>4, <1>6, <2>3 DEF All
      <3>2. Closing(d)
        BY <1>5, <2>3
      <3>3. \A r \in Ranks : io'[d][r].writeHead <= file'[d].rows /\ io'[d][r].highwater <= file'[d].cols
        <4>1. \A r \in Ranks : io'[d][r].writeHead = rows /\ io'[d][r].highwater = cols
          BY <1>2, <1>7, <2>3
        <4>2. rows <= rows /\ cols <= cols
          BY <1>8
        <4> QED BY <1>14, <4>1, <4>2
      <3>4. Known(d)' /\ \A e \in Datasets : Flushed(e)'
        BY <1>16, <3>2 DEF Closing
      <3> QED BY <1>20, <3>1, <3>2, <3>3, <3>4 DEF Closing
    <2> QED BY <1>4, <2>1, <2>2, <2>3
  <1> QED BY <1>2, <1>6, <1>9, <1>11, <1>12, <1>13, <1>19, StepInv
-----------------------------------------------------------------------------
(* The start of a dataset: its partition, and the ranks that open it.          *)

LEMMA StartedObject ==
    ASSUME TypeInv, NEW d \in Datasets, NEW r \in Ranks, ObjectInv(d, r), log[d] = << >>
    PROVE  /\ io[d][r].writeHead = base /\ io[d][r].counts = << >> /\ Target(d) = base
           /\ 1 .. io[d][r].writeHead - base = {} /\ ~(io[d][r].writeHead > base)
  <1>1. Len(log[d]) = 0 /\ base \in Nat /\ Len(io[d][r].counts) \in Nat /\ io[d][r].counts \in Seq(Nat)
    BY Lengths, EmptyLength
  <1>2. Target(d) = base
    <2>1. Target(d) = base + 0
      BY <1>1 DEF Target
    <2> QED BY <1>1, <2>1
  <1>3. io[d][r].writeHead = base
    <2>1. io[d][r].writeHead \in Nat /\ base <= io[d][r].writeHead /\ io[d][r].writeHead <= base
      BY <1>2, HeadWithin
    <2>2. \A a, b \in Nat : a <= b /\ b <= a => b = a
      OBVIOUS
    <2> QED BY <1>1, <2>1, <2>2
  <1>4. Len(io[d][r].counts) = 0
    <2>1. Len(io[d][r].counts) <= 0
      BY <1>1 DEF ObjectInv, BufferInv
    <2> QED BY <1>1, <2>1
  <1>5. io[d][r].counts = << >>
    BY <1>1, <1>4, EmptySeq
  <1>6. 1 .. base - base = {} /\ ~(base > base)
    BY <1>1
  <1> QED BY <1>2, <1>3, <1>5, <1>6

LEMMA InitPartitionHInv == ASSUME HInv, NEW d \in Datasets, InitPartition(d) PROVE HInv'
  <1> DEFINE s  == Dims(d)
             os == Partitioned(io[d], s)
  <1>1. TypeInv /\ s \in [Ranks -> Nat] /\ \A r \in Ranks : s[r] = io[d][r].dims
    <2>1. TypeInv
      BY DEF HInv
    <2>2. \A r \in Ranks : io[d][r].dims \in Nat
      BY <2>1 DEF TypeInv, Object
    <2> QED BY <2>1, <2>2 DEF Dims
  <1>2. /\ UNCHANGED <<file, recordCount, saved, closing, log, base, starts>>
        /\ io' = [io EXCEPT ![d] = os]
        /\ \A r \in Ranks : run'[r] = Here(IF r \in Openers(os) THEN "open" ELSE "registered", d)
        /\ run' = [r \in Ranks |-> run'[r]]
    BY DEF InitPartition, Dims
  <1>3. io'[d] = os /\ \A e \in Datasets : e # d => io'[e] = io[e]
    BY <1>1, <1>2 DEF TypeInv
  <1>4. \A r \in Ranks : run[r].at = "split" /\ run[r].ds = d
    BY DEF InitPartition, At
  <1>5. Starting(d) /\ \A r \in Ranks : io[d][r].highwater = 0
    <2>1. \A e \in Datasets : ~Apart(e)
      BY <1>4, WhereApart
    <2>2. Starting(d)
      BY <1>4, <2>1, PhaseOf, TheRanks
    <2> QED BY <1>4, <2>2, TheRanks DEF Starting, Together, All
  <1> DEFINE opener(r) == r \in Openers(os)
  <1>6. ASSUME NEW r \in Ranks
        PROVE  /\ run'[r].ds = d /\ run'[r].row = 0 /\ run'[r].cursor = 0
               /\ run'[r].at = (IF r \in Openers(io'[d]) THEN "open" ELSE "registered")
               /\ ~InRow(d, r) /\ ~Written(d, r) /\ ~Early(d, r)
               /\ ~InRow(d, r)' /\ ~Written(d, r)' /\ ~Early(d, r)'
    <2>1. run'[r] = Here(IF r \in Openers(io'[d]) THEN "open" ELSE "registered", d)
      BY <1>2, <1>3
    <2>2. /\ run'[r].ds = d /\ run'[r].row = 0 /\ run'[r].cursor = 0
          /\ run'[r].at = (IF r \in Openers(io'[d]) THEN "open" ELSE "registered")
      BY <2>1 DEF Here
    <2>3. run'[r].at \in {"open", "registered"} /\ run[r].at = "split"
      BY <1>4, <2>2
    <2> QED BY <2>2, <2>3 DEF InRow, Written, Early, RowCalls, EarlyCalls
  <1> HIDE DEF s, os
  <1>7. os = Partitioned(io[d], s)
    BY DEF os
  <1>8. os \in [Ranks -> Object]
    BY <1>1, <1>7, PartitionFacts
  <1>9. ASSUME NEW r \in Ranks
        PROVE  /\ os[r].dims = io[d][r].dims /\ os[r].sizeChanged = io[d][r].sizeChanged
               /\ os[r].dataBuffer = io[d][r].dataBuffer
               /\ os[r].bufferHead = io[d][r].bufferHead /\ os[r].counts = io[d][r].counts
               /\ os[r].writeLimit = io[d][r].writeLimit
               /\ os[r].writeHead = io[d][r].writeHead
               /\ os[r].globalCount = Total(s) /\ os[r].offset = Before(s, r)
               /\ os[r].member = (s[r] > 0)
    <2> DEFINE o == os[r]
    <2>1. o = Partitioned(io[d], s)[r]
      BY <1>7
    <2> HIDE DEF o
    <2>2. /\ o.dims = io[d][r].dims /\ o.sizeChanged = io[d][r].sizeChanged
          /\ o.dataBuffer = io[d][r].dataBuffer /\ o.bufferHead = io[d][r].bufferHead
          /\ o.counts = io[d][r].counts
          /\ o.writeLimit = io[d][r].writeLimit /\ o.writeHead = io[d][r].writeHead
      BY <1>1, <2>1, PartitionKeeps
    <2>3. o.globalCount = Total(s)
      BY <1>1, <2>1, PartitionSets
    <2>4. o.offset = Before(s, r)
      BY <1>1, <2>1, PartitionSets
    <2>5. o.member = (s[r] > 0)
      BY <1>1, <2>1, PartitionSets
    <2> QED BY <2>2, <2>3, <2>4, <2>5 DEF o
  <1>10. \A r \in Ranks : os[r].highwater = Total(s)
    BY <1>1, <1>5, <1>7, PartitionFacts
  <1>11. Total(s) # 0 => \E m \in Ranks : os[m].member
    BY <1>1, <1>7, PartitionFacts
  <1>12. log[d] = << >> /\ \A r \in Ranks : ObjectInv(d, r)
    BY <1>5 DEF Starting, HInv
  <1>13. ASSUME NEW r \in Ranks PROVE ObjectInv(d, r)' /\ RowsIn(d, r)'
    <2>1. ObjectInv(d, r) /\ io'[d][r] = os[r] /\ log'[d] = log[d] /\ UNCHANGED <<base, starts>>
      BY <1>2, <1>3, <1>12
    <2>2. /\ 1 .. io'[d][r].writeHead - base = {} /\ ~(io'[d][r].writeHead > base)
      BY <1>1, <1>9, <1>12, <2>1, StartedObject
    <2>3. io'[d][r].writeHead = Target(d) - Rest(d, r)'
      <3>1. Rest(d, r)' = Rest(d, r)
        BY <1>6, <1>9, <2>1 DEF Rest
      <3> QED BY <1>9, <2>1, <3>1 DEF ObjectInv
    <2>4. /\ io'[d][r].dims = io[d][r].dims /\ io'[d][r].counts = io[d][r].counts
          /\ io'[d][r].dataBuffer = io[d][r].dataBuffer
          /\ io'[d][r].bufferHead = io[d][r].bufferHead
          /\ ~io'[d][r].sizeChanged => ~io[d][r].sizeChanged
      BY <1>9, <2>1
    <2>5. ObjectInv(d, r)'
      BY <1>1, <1>6, <2>1, <2>2, <2>3, <2>4, StillObject
    <2>6. RowsIn(d, r)'
      BY <2>1, <2>2 DEF RowsIn
    <2> QED BY <2>5, <2>6
  <1>14. AgreeInv(d)'
    <2>1. \A q, r \in Ranks : io[d][q].writeLimit = io[d][r].writeLimit
      BY DEF HInv, AgreeInv
    <2>2. \A r \in Ranks : io[d][r].counts = << >>
      BY <1>1, <1>12, StartedObject
    <2> QED BY <1>3, <1>9, <1>10, <1>11, <2>1, <2>2 DEF AgreeInv
  <1>15. TypeInv'
    <2>1. io' \in [Datasets -> [Ranks -> Object]]
      BY <1>1, <1>2, <1>8 DEF TypeInv
    <2>2. run' \in [Ranks -> [at : Calls, ds : Datasets, row : Nat, cursor : Nat]]
      <3>1. {"open", "registered"} \subseteq Calls
        BY DEF Calls, InitBarriers
      <3>2. \A c \in Calls : Here(c, d) \in [at : Calls, ds : Datasets, row : Nat, cursor : Nat]
        BY DEF Here
      <3>3. \A r \in Ranks : run'[r] \in [at : Calls, ds : Datasets, row : Nat, cursor : Nat]
        BY <1>2, <3>1, <3>2
      <3> QED BY <1>2, <3>3
    <2> QED BY <1>1, <1>2, <2>1, <2>2 DEF TypeInv
  <1>16. Starting(d)'
    <2>1. \A e \in Datasets : e < d => Ready(e)'
      <3> SUFFICES ASSUME NEW e \in Datasets, e < d PROVE Ready(e)'
        OBVIOUS
      <3>1. Ready(e) /\ e # d
        BY <1>5, TheRanks DEF Starting
      <3>2. io'[e] = io[e] /\ file'[e] = file[e] /\ log'[e] = log[e] /\ UNCHANGED <<base, starts>>
        BY <1>2, <1>3, <3>1
      <3> QED BY <3>1, <3>2, KeptDataset
    <2>2. \A e \in Datasets : e > d => \A r \in Ranks : io'[e][r].highwater = 0
      BY <1>3, <1>5, TheRanks DEF Starting
    <2>3. Together(d, Openers(io[d]), "open", "registered")'
      BY <1>6 DEF Together
    <2>4. IsPartition(d, Dims(d))'
      <3>1. Dims(d)' = s
        BY <1>3, <1>9 DEF Dims, s
      <3>2. Total(s) <= Total(s)
        <4>1. Total(s) \in Nat
          BY <1>1, SumsApart
        <4> QED BY <4>1
      <3>3. \A r \in Ranks :
                /\ io'[d][r].offset = Before(s, r) /\ io'[d][r].globalCount = Total(s)
                /\ Total(s) <= io'[d][r].highwater /\ io'[d][r].member = (s[r] > 0)
        BY <1>3, <1>9, <1>10, <3>2
      <3> QED BY <3>1, <3>3 DEF IsPartition
    <2>5. \A r \in Ranks : io'[d][r].highwater = io'[d][r].globalCount
      BY <1>3, <1>9, <1>10
    <2>6. (\A e \in Datasets : log'[e] = << >>) /\ recordCount' = base'
      BY <1>2, <1>5 DEF Starting
    <2> QED BY <2>1, <2>2, <2>3, <2>4, <2>5, <2>6 DEF Starting
  <1>17. /\ UNCHANGED <<log, base, starts>>
         /\ \A e \in Datasets : e # d => io'[e] = io[e] /\ file'[e] = file[e]
         /\ \A r \in Ranks : run[r].ds = d /\ run'[r].ds = d
    BY <1>2, <1>3, <1>4, <1>6
  <1> QED BY <1>13, <1>14, <1>15, <1>16, <1>17, StepInv

LEMMA OpenersRanks ==
    ASSUME NEW d \in Datasets, AgreeInv(d)
    PROVE  /\ Openers(io[d]) \subseteq Ranks /\ Openers(io[d]) # {}
           /\ Min(Openers(io[d])) \in Openers(io[d]) /\ Min(Openers(io[d])) \in Ranks
  <1> DEFINE R == Openers(io[d])
  <1>1. R \subseteq Ranks
    BY TheRanks DEF Openers
  <1>2. R # {}
    BY TheRanks DEF Openers, AgreeInv
  <1>3. R \subseteq Nat
    BY <1>1, TheRanks
  <1> HIDE DEF R
  <1>4. Min(R) \in R
    BY <1>2, <1>3, MinOfNaturals
  <1> QED BY <1>1, <1>2, <1>4 DEF R
LEMMA OpenHInv == ASSUME HInv, NEW d \in Datasets, Open(d) PROVE HInv'
  <1> DEFINE R == Openers(io[d])
             m == Min(R)
             o == io[d][m]
  <1>1. /\ TypeInv /\ AgreeInv(d) /\ R \subseteq Ranks /\ R # {} /\ m \in R /\ m \in Ranks
        /\ o \in Object
    BY OpenersRanks, Lengths DEF HInv
  <1>2. /\ \A r \in R : run[r].at = "open" /\ run[r].ds = d
        /\ UNCHANGED <<io, recordCount, saved, closing, log, base, starts>>
        /\ run' = [r \in Ranks |-> IF r \notin R THEN run[r]
                   ELSE Here(IF file[d].exists THEN "extended" ELSE "registered", d)]
    BY DEF Open, At
  <1>3. /\ Starting(d) /\ Together(d, R, "open", "registered") /\ IsPartition(d, Dims(d))
        /\ \A r \in Ranks : io[d][r].highwater = io[d][r].globalCount
    <2>1. Starting(d)
      BY <1>1, <1>2, PhaseOf
    <2>2. run[m].at = "open" /\ run[m].ds = d
      BY <1>1, <1>2
    <2> HIDE DEF m, o
    <2> QED BY <1>1, <2>1, <2>2 DEF Starting, All
  <1> DEFINE now == IF file[d].exists THEN "extended" ELSE "registered"
  <1>4. ASSUME NEW r \in Ranks
        PROVE  /\ run[r].ds = d /\ run'[r].ds = d
               /\ r \in R => run'[r].at = now
               /\ r \notin R => run'[r].at = "registered"
               /\ run'[r] \in [at : Calls, ds : Datasets, row : Nat, cursor : Nat]
               /\ ~InRow(d, r) /\ ~Written(d, r) /\ ~Early(d, r)
               /\ ~InRow(d, r)' /\ ~Written(d, r)' /\ ~Early(d, r)'
    <2>1. run[r] \in [at : Calls, ds : Datasets, row : Nat, cursor : Nat]
      BY <1>1 DEF TypeInv
    <2>2. run[r].ds = d /\ run[r].at = IF r \in R THEN "open" ELSE "registered"
      BY <1>3 DEF Together
    <2>3. now \in Calls /\ now \in {"extended", "registered"}
      BY DEF Calls, InitBarriers
    <2>4. run'[r] = IF r \notin R THEN run[r] ELSE Here(now, d)
      BY <1>2
    <2>5. /\ Here(now, d) \in [at : Calls, ds : Datasets, row : Nat, cursor : Nat]
          /\ Here(now, d).ds = d /\ Here(now, d).at = now
      BY <2>3 DEF Here
    <2>6. /\ run'[r].ds = d /\ r \in R => run'[r].at = now
          /\ r \notin R => run'[r].at = "registered"
          /\ run'[r] \in [at : Calls, ds : Datasets, row : Nat, cursor : Nat]
      BY <2>1, <2>2, <2>4, <2>5
    <2>7. run'[r].ds = d
      BY <2>2, <2>4, <2>5
    <2>8. run[r].at \in {"open", "registered"} /\ run'[r].at \in {"extended", "registered"}
      BY <2>2, <2>3, <2>4, <2>5
    <2> QED BY <2>2, <2>6, <2>7, <2>8 DEF InRow, Written, Early, RowCalls, EarlyCalls
  <1>5. ASSUME NEW r \in Ranks
        PROVE  /\ io[d][r].writeLimit = o.writeLimit /\ io[d][r].highwater = o.highwater
               /\ o.highwater = o.globalCount
    BY <1>1, <1>3 DEF AgreeInv
  <1>6. o.writeLimit \in Nat /\ o.highwater \in Nat /\ o.globalCount \in Nat
    BY <1>1 DEF Object
  <1>7. ASSUME ~o.member PROVE \A r \in Ranks : ~io[d][r].member
    <2>1. o.globalCount = 0
      <3>1. io[d][0].globalCount = o.globalCount
        BY <1>1, TheRanks DEF AgreeInv
      <3>2. io[d][0].globalCount # 0 => o.member
        BY <1>1 DEF Openers
      <3> QED BY <1>7, <3>1, <3>2
    <2>2. Total(Dims(d)) = 0
      BY <1>1, <1>3, <2>1 DEF IsPartition
    <2>3. Dims(d) \in [Ranks -> Nat]
      <3>1. \A r \in Ranks : io[d][r].dims \in Nat
        BY <1>1 DEF TypeInv, Object
      <3> QED BY <3>1 DEF Dims
    <2> SUFFICES ASSUME NEW r \in Ranks PROVE ~io[d][r].member
      OBVIOUS
    <2> DEFINE b == Before(Dims(d), r)
               s == Dims(d)[r]
    <2>4. b \in Nat /\ s \in Nat /\ b + s <= 0
      BY <2>2, <2>3, SumsApart
    <2>5. io[d][r].member = (s > 0)
      BY <1>3 DEF IsPartition
    <2> HIDE DEF b, s
    <2>6. ~(s > 0)
      BY <2>4
    <2> QED BY <2>5, <2>6
  <1>8. file' = [e \in Datasets |-> file'[e]] /\ \A e \in Datasets : e # d => file'[e] = file[e]
    <2>1. file = [e \in Datasets |-> file[e]]
      BY <1>1 DEF TypeInv
    <2> QED BY <2>1 DEF Open
  <1>9. \/ file'[d] = Extended(NoDataset, o.writeLimit, o.globalCount)
        \/ file'[d] = Extended(file[d], o.writeLimit, o.highwater)
        \/ file'[d] = file[d] /\ ~o.member
    <2>1. file = [e \in Datasets |-> file[e]]
      BY <1>1 DEF TypeInv
    <2> QED BY <2>1 DEF Open
  <1> HIDE DEF m, o
  <1>10. /\ IsFile(file'[d])
         /\ \/ file'[d].rows = o.writeLimit /\ file'[d].cols = o.highwater
            \/ ~o.member
    <2>1. CASE file'[d] = Extended(NoDataset, o.writeLimit, o.globalCount)
      BY <1>1, <1>5, <1>6, <2>1, ExtendedFacts
    <2>2. CASE file'[d] = Extended(file[d], o.writeLimit, o.highwater)
      BY <1>6, <2>2, ExtendedFacts
    <2>3. CASE file'[d] = file[d] /\ ~o.member
      BY <1>1, <2>3 DEF TypeInv
    <2> QED BY <1>9, <2>1, <2>2, <2>3
  <1>11. Fits(d)'
    <2> SUFFICES ASSUME NEW r \in Ranks, io[d][r].member
                 PROVE  io[d][r].writeLimit <= file'[d].rows /\ io[d][r].highwater <= file'[d].cols
      BY <1>2 DEF Fits
    <2>1. o.writeLimit <= o.writeLimit /\ o.highwater <= o.highwater
      BY <1>6
    <2> QED BY <1>5, <1>7, <1>10, <2>1
  <1>12. TypeInv'
    <2>1. \A e \in Datasets : IsFile(file'[e])
      BY <1>1, <1>8, <1>10 DEF TypeInv
    <2>2. \A e \in Datasets : IsFile(file[e])'
      BY <2>1 DEF IsFile
    <2>3. run' \in [Ranks -> [at : Calls, ds : Datasets, row : Nat, cursor : Nat]]
      <3>1. run' = [r \in Ranks |-> run'[r]]
        BY <1>2
      <3> QED BY <1>4, <3>1
    <2> QED BY <1>1, <1>2, <1>8, <2>2, <2>3 DEF TypeInv
  <1>13. ASSUME NEW r \in Ranks PROVE ObjectInv(d, r)' /\ RowsIn(d, r)'
    <2>1. ObjectInv(d, r) /\ io'[d][r] = io[d][r] /\ log'[d] = log[d] /\ log[d] = << >>
      BY <1>2, <1>3 DEF HInv, Starting
    <2>2. ObjectInv(d, r)'
      BY <1>2, <1>4, <2>1, KeptObject
    <2>3. 1 .. io'[d][r].writeHead - base' = {}
      BY <1>1, <1>2, <2>1, StartedObject
    <2>4. RowsIn(d, r)'
      BY <2>3 DEF RowsIn
    <2> QED BY <2>2, <2>4
  <1>14. AgreeInv(d)'
    BY <1>1, <1>2, <1>4, KeptAgree
  <1>15. /\ IsPartition(d, Dims(d))' /\ Openers(io[d])' = R
         /\ \A e \in Datasets : log'[e] = << >>
         /\ recordCount' = base'
         /\ \A e \in Datasets : e > d => \A r \in Ranks : io'[e][r].highwater = 0
    BY <1>2, <1>3 DEF IsPartition, Dims, Starting
  <1>16. \A e \in Datasets : e < d => Ready(e)'
    <2> SUFFICES ASSUME NEW e \in Datasets, e < d PROVE Ready(e)'
      OBVIOUS
    <2>1. Ready(e) /\ e # d
      BY <1>3, TheRanks DEF Starting
    <2>2. io'[e] = io[e] /\ file'[e] = file[e] /\ log'[e] = log[e] /\ UNCHANGED <<base, starts>>
      BY <1>2, <1>8, <2>1
    <2> QED BY <2>1, <2>2, KeptDataset
  <1>17. Starting(d)' \/ Apart(d)'
    <2>1. CASE now = "registered" \/ R = Ranks
      <3>1. All(d, "extended")' \/ All(d, "registered")'
        <4>1. now \in {"extended", "registered"}
          OBVIOUS
        <4> QED BY <1>4, <2>1, <4>1 DEF All
      <3>2. Ready(d)'
        BY <1>11, <1>15 DEF Ready, Known
      <3> QED BY <1>15, <1>16, <3>1, <3>2 DEF Starting
    <2>2. CASE now = "extended" /\ R # Ranks
      <3>1. Together(d, Openers(io[d]), "extended", "registered")'
        BY <1>4, <1>15, <2>2 DEF Together
      <3> QED BY <1>1, <1>15, <2>2, <3>1 DEF Apart
    <2> QED BY <2>1, <2>2
  <1>18. /\ UNCHANGED <<log, base, starts>>
         /\ \A e \in Datasets : e # d => io'[e] = io[e] /\ file'[e] = file[e]
         /\ \A r \in Ranks : run[r].ds = d /\ run'[r].ds = d
    BY <1>2, <1>4, <1>8
  <1> QED BY <1>12, <1>13, <1>14, <1>17, <1>18, StepInv
-----------------------------------------------------------------------------
(* The rows: a rank in a row is at a row of the log that it has not written.   *)

LEMMA RowNumbers ==
    \A b, l, n, w, h \in Nat :
        n <= l /\ w < n /\ h = (b + l) - (n - w) =>
            /\ w + 1 \in 1 .. n /\ (h - b) + 1 \in 1 .. l
            /\ (l - n) + (w + 1) = (h - b) + 1 /\ h < b + l
            /\ w + 1 = n <=> (h - b) + 1 = l
            /\ w + 1 = n <=> h + 1 = b + l
            /\ h + 1 = (b + l) - (n - (w + 1))
  OBVIOUS

LEMMA TheRow ==
    ASSUME TypeInv, NEW d \in Datasets, NEW r \in Ranks, ObjectInv(d, r), InRow(d, r)
    PROVE  /\ run[r].row + 1 \in 1 .. Len(io[d][r].counts)
           /\ io[d][r].writeHead - base + 1 \in 1 .. Len(log[d])
           /\ Len(log[d]) - Len(io[d][r].counts) + (run[r].row + 1) = io[d][r].writeHead - base + 1
           /\ io[d][r].counts[run[r].row + 1] = log[d][io[d][r].writeHead - base + 1][r]
           /\ io[d][r].writeHead < Target(d)
           /\ run[r].row + 1 = Len(io[d][r].counts) <=> io[d][r].writeHead - base + 1 = Len(log[d])
           /\ run[r].row + 1 = Len(io[d][r].counts) <=> io[d][r].writeHead + 1 = Target(d)
           /\ io[d][r].writeHead + 1 = Target(d) - (Len(io[d][r].counts) - (run[r].row + 1))
           /\ log[d][io[d][r].writeHead - base + 1] \in [Ranks -> Nat]
  <1> DEFINE n == Len(io[d][r].counts)
             l == Len(log[d])
             w == run[r].row
             h == io[d][r].writeHead
  <1>1. base \in Nat /\ l \in Nat /\ n \in Nat /\ w \in Nat /\ h \in Nat
    BY Lengths, HeadWithin
  <1>2. n <= l /\ w < n /\ Target(d) = base + l
    BY DEF ObjectInv, BufferInv, Target
  <1>3. h = (base + l) - (n - w)
    BY <1>2 DEF ObjectInv, Rest
  <1>4. \A i \in 1 .. n : io[d][r].counts[i] = log[d][(l - n) + i][r]
    BY DEF ObjectInv, BufferInv
  <1>5. \A i \in 1 .. l : log[d][i] \in [Ranks -> Nat]
    BY Lengths
  <1> HIDE DEF n, l, w, h
  <1>6. /\ w + 1 \in 1 .. n /\ (h - base) + 1 \in 1 .. l
        /\ (l - n) + (w + 1) = (h - base) + 1 /\ h < base + l
    BY <1>1, <1>2, <1>3, RowNumbers
  <1>7. /\ w + 1 = n <=> (h - base) + 1 = l
        /\ w + 1 = n <=> h + 1 = base + l
        /\ h + 1 = (base + l) - (n - (w + 1))
    BY <1>1, <1>2, <1>3, RowNumbers
  <1>8. io[d][r].counts[w + 1] = log[d][(h - base) + 1][r]
    BY <1>4, <1>6
  <1>9. log[d][(h - base) + 1] \in [Ranks -> Nat]
    BY <1>5, <1>6
  <1> QED BY <1>2, <1>6, <1>7, <1>8, <1>9 DEF n, l, w, h

LEMMA WritingNow ==
    ASSUME HInv, NEW d \in Datasets, \A r \in Ranks : run[r].ds = d,
           NEW call, \A r \in Ranks : run[r].at = call,
           call \in {"reduce", "splitRow", "grown", "fitted", "written"}
    PROVE  /\ Writing(d)
           /\ call = "reduce" => Ready(d)
           /\ call = "splitRow" => SameRow(d) /\ Changed(d) /\ HeadFits(d)
           /\ call = "grown" => Fits(d) /\ SameChange(d) /\ Known(d) /\ HeadFits(d)
           /\ call = "fitted" => /\ Fits(d) /\ SameRow(d) /\ Changed(d) /\ HeadFits(d)
                                 /\ \A r \in Ranks : RowInv(d, r)
           /\ call = "written" => Ready(d)
  <1>1. call \in WriteCalls
    BY DEF WriteCalls, RowCalls, EarlyCalls
  <1>2. Writing(d)
    BY <1>1, PhaseOf, TheRanks
  <1>3. ~WritingRow(d)
    <2>1. \A r \in Subcomm(d) : r \in Ranks
      BY DEF Subcomm
    <2> QED BY <2>1 DEF WritingRow
  <1>4. /\ call # "grow" /\ call # "fit"
    OBVIOUS
  <1>5. \A a, b : Together(d, Subcomm(d), a, b) /\ a # call => \A r \in Ranks : ~io[d][r].member
    BY DEF Together, Subcomm
  <1>6. Together(d, Subcomm(d), "grow", "grown") \/ Together(d, Subcomm(d), "fit", "fitted")
            => Fits(d)
    BY <1>4, <1>5 DEF Fits
  <1>7. /\ \A a : All(d, a) => a = call
        /\ \A a, b : Together(d, Subcomm(d), a, b) => a = call \/ b = call
    BY TheRanks DEF All, Together
  <1> QED BY <1>2, <1>3, <1>4, <1>6, <1>7 DEF Writing

LEMMA RowPartitionHInv == ASSUME HInv, NEW d \in Datasets, RowPartition(d) PROVE HInv'
  <1> DEFINE h  == io[d][0].writeHead
             n  == h - base + 1
             s  == log[d][n]
             os == Partitioned(io[d], s)
  <1>1. TypeInv /\ AgreeInv(d) /\ \A r \in Ranks : run[r].at = "splitRow" /\ run[r].ds = d
    BY DEF RowPartition, At, HInv
  <1>2. Writing(d) /\ SameRow(d) /\ Changed(d) /\ HeadFits(d)
    BY <1>1, WritingNow
  <1>3. ASSUME NEW r \in Ranks PROVE ObjectInv(d, r) /\ InRow(d, r) /\ ~Written(d, r)
    BY <1>1 DEF HInv, InRow, RowCalls, Written
  <1>4. ASSUME NEW r \in Ranks
        PROVE  /\ Len(io[d][r].counts) = Len(io[d][0].counts) /\ run[r].row = run[0].row
               /\ io[d][r].writeHead = h
    <2>1. Len(io[d][r].counts) = Len(io[d][0].counts) /\ run[r].row = run[0].row
      BY <1>1, <1>2, <1>3, TheRanks DEF AgreeInv, SameRow
    <2>2. /\ io[d][r].writeHead = Target(d) - (Len(io[d][r].counts) - run[r].row)
          /\ h = Target(d) - (Len(io[d][0].counts) - run[0].row)
      BY <1>3, TheRanks DEF ObjectInv, Rest
    <2> QED BY <2>1, <2>2
  <1>5. s \in [Ranks -> Nat] /\ n \in 1 .. Len(log[d])
    BY <1>1, <1>3, TheRow, TheRanks
  <1>6. [r \in Ranks |-> io[d][r].counts[run[r].row + 1]] = s
    <2>1. ASSUME NEW r \in Ranks PROVE io[d][r].counts[run[r].row + 1] = s[r]
      <3>1. io[d][r].counts[run[r].row + 1] = log[d][io[d][r].writeHead - base + 1][r]
        BY <1>1, <1>3, TheRow
      <3>2. io[d][r].writeHead = h
        BY <1>4
      <3> QED BY <3>1, <3>2
    <2> QED BY <1>5, <2>1
  <1>7. /\ UNCHANGED <<file, recordCount, saved, closing, log, base, starts>>
        /\ io' = [io EXCEPT ![d] = os]
        /\ run' = [r \in Ranks |-> [run[r] EXCEPT !.at = IF os[r].member THEN "fit" ELSE "fitted"]]
    BY Zenon, <1>6 DEF RowPartition
  <1>8. io'[d] = os /\ \A e \in Datasets : e # d => io'[e] = io[e]
    BY <1>1, <1>7 DEF TypeInv
  <1>9. ASSUME NEW r \in Ranks
        PROVE  /\ run'[r].ds = d /\ run'[r].row = run[r].row /\ run'[r].cursor = run[r].cursor
               /\ run'[r].at = (IF io'[d][r].member THEN "fit" ELSE "fitted")
               /\ run'[r] \in [at : Calls, ds : Datasets, row : Nat, cursor : Nat]
               /\ InRow(d, r)' /\ ~Written(d, r)' /\ ~Early(d, r)'
    <2>1. run[r] \in [at : Calls, ds : Datasets, row : Nat, cursor : Nat]
      BY <1>1 DEF TypeInv
    <2> DEFINE c == IF io'[d][r].member THEN "fit" ELSE "fitted"
    <2>2. c \in Calls /\ c \in RowCalls /\ c \notin EarlyCalls /\ c # "written"
      BY DEF Calls, WriteCalls, RowCalls, EarlyCalls
    <2>3. run'[r] = [run[r] EXCEPT !.at = c]
      BY <1>7, <1>8
    <2> HIDE DEF c
    <2>4. /\ run'[r].ds = d /\ run'[r].row = run[r].row /\ run'[r].cursor = run[r].cursor
          /\ run'[r].at = c /\ run'[r] \in [at : Calls, ds : Datasets, row : Nat, cursor : Nat]
      BY <1>1, <2>1, <2>2, <2>3
    <2>5. InRow(d, r)' /\ ~Written(d, r)' /\ ~Early(d, r)'
      BY <2>2, <2>4 DEF InRow, Written, Early
    <2> QED BY <2>4, <2>5 DEF c
  <1> HIDE DEF s, os, n, h
  <1>10. os = Partitioned(io[d], s)
    BY DEF os
  <1>11. os \in [Ranks -> Object]
    BY <1>1, <1>5, <1>10, PartitionFacts
  <1>12. ASSUME NEW r \in Ranks
         PROVE  /\ os[r].dims = io[d][r].dims /\ os[r].sizeChanged = io[d][r].sizeChanged
                /\ os[r].dataBuffer = io[d][r].dataBuffer
                /\ os[r].bufferHead = io[d][r].bufferHead /\ os[r].counts = io[d][r].counts
                /\ os[r].writeLimit = io[d][r].writeLimit
                /\ os[r].writeHead = io[d][r].writeHead
                /\ os[r].globalCount = Total(s) /\ os[r].offset = Before(s, r)
                /\ os[r].member = (s[r] > 0)
                /\ os[r].highwater = Max({io[d][r].highwater, Total(s)})
    <2> DEFINE o == os[r]
    <2>1. o = Partitioned(io[d], s)[r]
      BY <1>10
    <2> HIDE DEF o
    <2>2. /\ o.dims = io[d][r].dims /\ o.sizeChanged = io[d][r].sizeChanged
          /\ o.dataBuffer = io[d][r].dataBuffer /\ o.bufferHead = io[d][r].bufferHead
          /\ o.counts = io[d][r].counts
          /\ o.writeLimit = io[d][r].writeLimit /\ o.writeHead = io[d][r].writeHead
      BY <1>1, <1>5, <2>1, PartitionKeeps
    <2>3. o.globalCount = Total(s)
      BY <1>1, <1>5, <2>1, PartitionSets
    <2>4. o.offset = Before(s, r)
      BY <1>1, <1>5, <2>1, PartitionSets
    <2>5. o.member = (s[r] > 0)
      BY <1>1, <1>5, <2>1, PartitionSets
    <2>6. o.highwater = Max({io[d][r].highwater, Total(s)})
      BY <1>1, <1>5, <2>1, PartitionHigh
    <2> QED BY <2>2, <2>3, <2>4, <2>5, <2>6 DEF o
  <1>13. \A r \in Ranks : io[d][r].highwater <= os[r].highwater /\ Total(s) <= os[r].highwater
    BY <1>1, <1>5, <1>10, PartitionFacts
  <1>14. Total(s) # 0 => \E m \in Ranks : os[m].member
    BY <1>1, <1>5, <1>10, PartitionFacts
  <1>15. ASSUME NEW r \in Ranks PROVE ObjectInv(d, r)' /\ RowsIn(d, r)'
    <2>1. ObjectInv(d, r) /\ io'[d][r] = os[r] /\ log'[d] = log[d] /\ UNCHANGED <<base, starts, file>>
      BY <1>3, <1>7, <1>8
    <2>2. /\ io'[d][r].dims = io[d][r].dims /\ io'[d][r].counts = io[d][r].counts
          /\ io'[d][r].dataBuffer = io[d][r].dataBuffer
          /\ io'[d][r].bufferHead = io[d][r].bufferHead
          /\ ~io'[d][r].sizeChanged => ~io[d][r].sizeChanged
          /\ io'[d][r].writeHead = io[d][r].writeHead /\ io'[d][r].writeLimit = io[d][r].writeLimit
      BY <1>12, <2>1
    <2>3. io'[d][r].writeHead = Target(d) - Rest(d, r)'
      <3>1. Rest(d, r)' = Rest(d, r)
        BY <1>3, <1>9, <2>2 DEF Rest
      <3> QED BY <2>1, <2>2, <3>1 DEF ObjectInv
    <2>4. \A i \in 1 .. io'[d][r].writeHead - base : Total(log[d][i]) <= io'[d][r].highwater
      <3> SUFFICES ASSUME NEW i \in 1 .. io[d][r].writeHead - base
                   PROVE  Total(log[d][i]) <= os[r].highwater
        BY <2>1, <2>2
      <3>1. Total(log[d][i]) <= io[d][r].highwater
        BY <2>1 DEF ObjectInv
      <3>2. log[d][i] \in [Ranks -> Nat]
        BY <1>1, <2>1, HeadWithin, Lengths
      <3>3. Total(log[d][i]) \in Nat /\ io[d][r].highwater \in Nat /\ os[r].highwater \in Nat
        BY <1>1, <1>11, <3>2, SumsApart, Lengths DEF Object
      <3> QED BY <1>13, <3>1, <3>3
    <2>5. io'[d][r].writeHead > base => io'[d][r].writeHead <= io'[d][r].writeLimit
      BY <2>1, <2>2 DEF ObjectInv
    <2>6. run'[r].row < Len(io[d][r].counts)
      BY <1>3, <1>9, <2>1 DEF ObjectInv
    <2>7. ObjectInv(d, r)'
      BY <1>1, <1>3, <1>9, <2>1, <2>2, <2>3, <2>4, <2>5, <2>6, StillObject
    <2>8. RowsIn(d, r)'
      BY <2>1, <2>2 DEF RowsIn, HInv
    <2> QED BY <2>7, <2>8
  <1>16. AgreeInv(d)'
    <2>1. \A q, r \in Ranks :
              io[d][q].writeLimit = io[d][r].writeLimit /\ io[d][q].highwater = io[d][r].highwater
      BY <1>1 DEF AgreeInv
    <2>2. ASSUME NEW q \in Ranks, NEW r \in Ranks
          PROVE  Len(io'[d][q].counts) = Len(io'[d][r].counts)
      <3>1. io'[d][q].counts = io[d][q].counts /\ io'[d][r].counts = io[d][r].counts
        BY <1>8, <1>12
      <3>2. Len(io[d][q].counts) = Len(io[d][r].counts)
        BY <1>4
      <3> QED BY <3>1, <3>2
    <2>3. ASSUME NEW q \in Ranks, NEW r \in Ranks
          PROVE  /\ io'[d][q].writeLimit = io'[d][r].writeLimit
                 /\ io'[d][q].highwater = io'[d][r].highwater
                 /\ io'[d][q].globalCount = io'[d][r].globalCount
      <3>1. io[d][q].writeLimit = io[d][r].writeLimit /\ io[d][q].highwater = io[d][r].highwater
        BY <2>1
      <3> DEFINE x == io[d][q].highwater
                 y == io[d][r].highwater
                 t == Total(s)
      <3>2. /\ io'[d][q] = os[q] /\ os[q].highwater = Max({x, t})
            /\ os[q].globalCount = t /\ os[q].writeLimit = io[d][q].writeLimit
        BY <1>8, <1>12
      <3>3. /\ io'[d][r] = os[r] /\ os[r].highwater = Max({y, t})
            /\ os[r].globalCount = t /\ os[r].writeLimit = io[d][r].writeLimit
        BY <1>8, <1>12
      <3>4. x = y
        BY <3>1
      <3> HIDE DEF x, y, t
      <3>5. Max({x, t}) = Max({y, t})
        BY ONLY <3>4
      <3> QED BY <3>1, <3>2, <3>3, <3>5
    <2>4. ASSUME NEW q \in Ranks, io'[d][q].globalCount # 0 PROVE \E m \in Ranks : io'[d][m].member
      <3>1. io'[d][q].globalCount = Total(s)
        BY <1>8, <1>12
      <3> QED BY <1>8, <1>14, <2>4, <3>1
    <2> QED BY <2>2, <2>3, <2>4 DEF AgreeInv
  <1>17. TypeInv'
    <2>1. io' \in [Datasets -> [Ranks -> Object]]
      BY <1>1, <1>7, <1>11 DEF TypeInv
    <2>2. run' \in [Ranks -> [at : Calls, ds : Datasets, row : Nat, cursor : Nat]]
      <3>1. run' = [r \in Ranks |-> run'[r]]
        BY <1>7
      <3> QED BY <1>9, <3>1
    <2> QED BY <1>1, <1>7, <2>1, <2>2 DEF TypeInv
  <1>18. Writing(d)'
    <2>1. recordCount' = Target(1)'
      BY <1>2, <1>7 DEF Writing, Target
    <2>2. \A e \in Datasets : /\ e # d => Ready(e)'
                              /\ e < d => Flushed(e)'
      <3> SUFFICES ASSUME NEW e \in Datasets
                   PROVE  (e # d => Ready(e)') /\ (e < d => Flushed(e)')
        OBVIOUS
      <3>1. (e # d => Ready(e)) /\ (e < d => Flushed(e) /\ e # d)
        BY <1>2, TheRanks DEF Writing
      <3>2. e # d => io'[e] = io[e] /\ file'[e] = file[e] /\ log'[e] = log[e] /\ UNCHANGED <<base, starts>>
        BY <1>7, <1>8
      <3> QED BY <3>1, <3>2, KeptDataset
    <2>3. Together(d, Subcomm(d), "fit", "fitted")'
      BY <1>9 DEF Together, Subcomm
    <2>4. SameRow(d)'
      BY <1>2, <1>9 DEF SameRow
    <2>5. Changed(d)' /\ HeadFits(d)'
      <3>1. \A r \in Ranks : io'[d][r].sizeChanged
        BY <1>2, <1>8, <1>12 DEF Changed
      <3>2. \A r \in Ranks : io'[d][r].writeLimit = io[d][r].writeLimit
        BY <1>8, <1>12
      <3>3. Target(d)' = Target(d)
        BY <1>7 DEF Target
      <3> QED BY <1>2, <3>1, <3>2, <3>3 DEF Changed, HeadFits
    <2>6. ASSUME NEW r \in Ranks
          PROVE  /\ io'[d][r].offset = Before(s, r) /\ io'[d][r].globalCount = Total(s)
                 /\ Total(s) <= io'[d][r].highwater /\ io'[d][r].member = (s[r] > 0)
      BY <1>8, <1>12, <1>13
    <2>7. ASSUME NEW r \in Ranks PROVE RowInv(d, r)'
      <3>1. io'[d][r].writeHead = h
        BY <1>4, <1>8, <1>12
      <3>2. log'[d][io'[d][r].writeHead - base' + 1] = s
        BY <1>7, <3>1 DEF s, n
      <3> QED BY <2>6, <3>2 DEF RowInv, IsPartition
    <2> QED BY <2>1, <2>2, <2>3, <2>4, <2>5, <2>7 DEF Writing
  <1>19. /\ UNCHANGED <<log, base, starts>>
         /\ \A e \in Datasets : e # d => io'[e] = io[e] /\ file'[e] = file[e]
         /\ \A r \in Ranks : run[r].ds = d /\ run'[r].ds = d
    BY <1>1, <1>7, <1>8, <1>9
  <1> QED BY <1>15, <1>16, <1>17, <1>18, <1>19, StepInv
-----------------------------------------------------------------------------
(* The first row, after the buffer is counted and the file has room for it.    *)

\* The rows in buffers whose sizes do not change are as long as the present one.
LEMMA SteadyRows ==
    ASSUME TypeInv, NEW d \in Datasets, NEW N \in Nat,
           \A r \in Ranks : /\ ObjectInv(d, r) /\ ~io[d][r].sizeChanged
                            /\ Len(io[d][r].counts) = N
    PROVE  \A n \in Len(log[d]) - N + 1 .. Len(log[d]) : log[d][n] = Dims(d)
  <1> SUFFICES ASSUME NEW n \in Len(log[d]) - N + 1 .. Len(log[d]) PROVE log[d][n] = Dims(d)
    OBVIOUS
  <1> DEFINE l == Len(log[d])
             i == n - (l - N)
  <1>1. l \in Nat /\ N <= l
    <2>1. ObjectInv(d, 0) /\ Len(io[d][0].counts) = N /\ 0 \in Ranks
      BY TheRanks
    <2>2. Len(io[d][0].counts) <= l
      BY <2>1 DEF ObjectInv, BufferInv
    <2> QED BY <2>1, <2>2, Lengths
  <1>2. i \in 1 .. N /\ (l - N) + i = n /\ n \in 1 .. l
    <2> HIDE DEF l
    <2>1. n \in l - N + 1 .. l
      BY DEF l
    <2> QED BY <1>1, <2>1
  <1>3. log[d][n] \in [Ranks -> Nat]
    BY <1>2, Lengths, TheRanks
  <1>4. ASSUME NEW r \in Ranks PROVE log[d][n][r] = io[d][r].dims
    <2>1. io[d][r].counts[i] = io[d][r].dims
      BY <1>2 DEF ObjectInv
    <2>2. io[d][r].counts[i] = log[d][(l - N) + i][r]
      <3>1. BufferInv(d, r) /\ Len(io[d][r].counts) = N
        BY DEF ObjectInv
      <3>2. \A k \in 1 .. N : io[d][r].counts[k] = log[d][l - N + k][r]
        BY <3>1 DEF BufferInv
      <3> QED BY <1>2, <3>2
    <2> QED BY <1>2, <2>1, <2>2
  <1> QED BY <1>3, <1>4 DEF Dims

\* One rank at its first row
LEMMA FirstCall ==
    ASSUME TypeInv, NEW d \in Datasets, NEW r \in Ranks, NEW changed \in BOOLEAN,
           ObjectInv(d, r), Early(d, r), NEW o \in Object, o.sizeChanged = changed,
           o.dims = io[d][r].dims, o.dataBuffer = io[d][r].dataBuffer,
           o.bufferHead = io[d][r].bufferHead, o.counts = io[d][r].counts,
           o.writeLimit = io[d][r].writeLimit, o.writeHead = io[d][r].writeHead,
           o.highwater = io[d][r].highwater, o.globalCount = io[d][r].globalCount,
           o.offset = io[d][r].offset, o.member = io[d][r].member, NEW p, p = NextObject(o, 0),
           NEW call, call = NextCall(o, 0)
    PROVE  /\ p \in Object /\ p.dims = io[d][r].dims /\ p.dataBuffer = io[d][r].dataBuffer
           /\ p.writeLimit = io[d][r].writeLimit /\ p.highwater = io[d][r].highwater
           /\ p.globalCount = io[d][r].globalCount /\ p.offset = io[d][r].offset
           /\ p.member = io[d][r].member
           /\ call = "written" =>
                /\ ~p.sizeChanged /\ p.counts = << >> /\ p.bufferHead = 0
                /\ p.writeHead = Target(d)
           /\ call # "written" =>
                /\ p.sizeChanged = changed /\ p.counts = io[d][r].counts
                /\ p.bufferHead = io[d][r].bufferHead /\ p.writeHead = io[d][r].writeHead
           /\ call \in {"written", "splitRow", "writeRow"}
           /\ call = "splitRow" <=> Len(io[d][r].counts) # 0 /\ changed
           /\ call = "writeRow" <=> Len(io[d][r].counts) # 0 /\ ~changed /\ io[d][r].member
  <1>1. io[d][r] \in Object /\ Len(io[d][r].counts) \in Nat
    BY Lengths
  <1>2. /\ o \in Object /\ o.sizeChanged = changed
        /\ o.dims = io[d][r].dims /\ o.dataBuffer = io[d][r].dataBuffer
        /\ o.bufferHead = io[d][r].bufferHead /\ o.counts = io[d][r].counts
        /\ o.writeLimit = io[d][r].writeLimit /\ o.writeHead = io[d][r].writeHead
        /\ o.highwater = io[d][r].highwater /\ o.globalCount = io[d][r].globalCount
        /\ o.offset = io[d][r].offset /\ o.member = io[d][r].member
    OBVIOUS
  <1>3. 0 \in Nat /\ 0 <= Len(o.counts)
    BY <1>1, <1>2
  <1>4. /\ call \in {"written", "splitRow", "writeRow"}
        /\ call = "splitRow" <=> 0 # Len(o.counts) /\ o.sizeChanged
        /\ call = "writeRow" <=> 0 # Len(o.counts) /\ ~o.sizeChanged /\ o.member
        /\ call # "written" => p = o
    BY NextWhere
  <1>5. CASE call # "written"
    BY <1>2, <1>4, <1>5
  <1>6. CASE call = "written"
    <2>1. p \in Object
      BY <1>2, <1>3, NextType
    <2>2. /\ p.dims = o.dims /\ p.dataBuffer = o.dataBuffer /\ p.writeLimit = o.writeLimit
          /\ p.highwater = o.highwater /\ p.globalCount = o.globalCount
          /\ p.offset = o.offset /\ p.counts = << >> /\ p.bufferHead = 0
          /\ p.writeHead = o.writeHead + (Len(o.counts) - 0)
      BY <1>2, <1>3, <1>6, NextWritten
    <2>3. ~p.sizeChanged /\ (p.member <=> o.member)
      BY <1>2, <1>3, <1>6, NextFlags
    <2>4. p.member = o.member
      BY <1>2, <2>1, <2>3 DEF Object
    <2>8. p.writeHead = Target(d)
      <3>1. Rest(d, r) = Len(io[d][r].counts) - 0
        BY DEF Early, InRow, EarlyCalls, RowCalls, Rest
      <3> DEFINE n == Len(io[d][r].counts)
                 h == io[d][r].writeHead
                 t == Target(d)
      <3>2. n \in Nat /\ h \in Nat /\ t \in Nat /\ h = t - (n - 0)
        BY <1>1, <3>1, Lengths DEF ObjectInv, Object
      <3>3. p.writeHead = h + (n - 0)
        BY <1>2, <2>2
      <3> HIDE DEF n, h, t
      <3>4. p.writeHead = t
        BY <3>2, <3>3
      <3> QED BY <3>4 DEF t
    <2> QED BY <1>2, <1>4, <1>6, <2>1, <2>2, <2>3, <2>4, <2>8
  <1> QED BY <1>5, <1>6
\* All ranks pass from their early calls to their first row, with objects os.
ToFirstRow(d, changed, os) ==
    /\ \A r \in Ranks :
          /\ os[r].sizeChanged = changed
          /\ os[r].dims = io[d][r].dims /\ os[r].dataBuffer = io[d][r].dataBuffer
          /\ os[r].bufferHead = io[d][r].bufferHead /\ os[r].counts = io[d][r].counts
          /\ os[r].writeLimit = io[d][r].writeLimit /\ os[r].writeHead = io[d][r].writeHead
          /\ os[r].highwater = io[d][r].highwater /\ os[r].globalCount = io[d][r].globalCount
          /\ os[r].offset = io[d][r].offset /\ os[r].member = io[d][r].member
    /\ Writing(d) /\ Known(d) /\ Fits(d) /\ HeadFits(d)
    /\ \A r \in Ranks : run[r].ds = d /\ Early(d, r)
    /\ ~changed => \A r \in Ranks : ~io[d][r].sizeChanged
    /\ UNCHANGED <<file, recordCount, saved, closing, log, base, starts>>
    /\ io' = [e \in Datasets |-> io'[e]] /\ io'[d] = [r \in Ranks |-> NextObject(os[r], 0)]
    /\ \A e \in Datasets : e # d => io'[e] = io[e]
    /\ run' = [r \in Ranks |-> run'[r]]
    /\ \A r \in Ranks : /\ run'[r].at = NextCall(os[r], 0) /\ run'[r].ds = d
                         /\ run'[r].row = 0 /\ run'[r].cursor = 0
                         /\ run'[r] \in [at : Calls, ds : Datasets, row : Nat, cursor : Nat]

LEMMA FirstRowHInv ==
    ASSUME HInv, NEW d \in Datasets, NEW changed \in BOOLEAN, NEW os \in [Ranks -> Object],
           ToFirstRow(d, changed, os)
    PROVE  HInv'
  <1> SUFFICES ASSUME \A r \in Ranks :
                  /\ os[r].sizeChanged = changed
                  /\ os[r].dims = io[d][r].dims /\ os[r].dataBuffer = io[d][r].dataBuffer
                  /\ os[r].bufferHead = io[d][r].bufferHead /\ os[r].counts = io[d][r].counts
                  /\ os[r].writeLimit = io[d][r].writeLimit /\ os[r].writeHead = io[d][r].writeHead
                  /\ os[r].highwater = io[d][r].highwater /\ os[r].globalCount = io[d][r].globalCount
                  /\ os[r].offset = io[d][r].offset /\ os[r].member = io[d][r].member,
               Writing(d), Known(d), Fits(d), HeadFits(d),
               \A r \in Ranks : run[r].ds = d /\ Early(d, r),
               ~changed => \A r \in Ranks : ~io[d][r].sizeChanged,
               UNCHANGED <<file, recordCount, saved, closing, log, base, starts>>,
               io' = [e \in Datasets |-> io'[e]], io'[d] = [r \in Ranks |-> NextObject(os[r], 0)],
               \A e \in Datasets : e # d => io'[e] = io[e],
               run' = [r \in Ranks |-> run'[r]],
               \A r \in Ranks : /\ run'[r].at = NextCall(os[r], 0) /\ run'[r].ds = d
                                /\ run'[r].row = 0 /\ run'[r].cursor = 0
                                /\ run'[r] \in [at : Calls, ds : Datasets, row : Nat, cursor : Nat]
               PROVE  HInv'
    BY DEF ToFirstRow
  <1> DEFINE N == Len(io[d][0].counts)
  <1>1. TypeInv /\ AgreeInv(d) /\ N \in Nat
    BY Lengths, TheRanks DEF HInv
  <1>2. ASSUME NEW r \in Ranks
        PROVE  /\ ObjectInv(d, r) /\ RowsIn(d, r) /\ io[d][r] \in Object
               /\ Early(d, r) /\ ~InRow(d, r) /\ ~Written(d, r)
    BY <1>1, Lengths DEF HInv, Early, InRow, Written, EarlyCalls, RowCalls
  <1>3. \A r \in Ranks : Len(io[d][r].counts) = N
    BY <1>1, <1>2, TheRanks DEF AgreeInv
  <1>4. ASSUME NEW r \in Ranks
        PROVE  /\ io'[d][r] \in Object /\ io'[d][r].dims = io[d][r].dims
               /\ io'[d][r].dataBuffer = io[d][r].dataBuffer
               /\ io'[d][r].writeLimit = io[d][r].writeLimit
               /\ io'[d][r].highwater = io[d][r].highwater
               /\ io'[d][r].globalCount = io[d][r].globalCount
               /\ io'[d][r].offset = io[d][r].offset /\ io'[d][r].member = io[d][r].member
               /\ run'[r].at = "written" =>
                    /\ ~io'[d][r].sizeChanged /\ io'[d][r].counts = << >>
                    /\ io'[d][r].bufferHead = 0 /\ io'[d][r].writeHead = Target(d)
               /\ run'[r].at # "written" =>
                    /\ io'[d][r].sizeChanged = changed /\ io'[d][r].counts = io[d][r].counts
                    /\ io'[d][r].bufferHead = io[d][r].bufferHead
                    /\ io'[d][r].writeHead = io[d][r].writeHead
               /\ run'[r].at \in {"written", "splitRow", "writeRow"}
               /\ run'[r].at = "splitRow" <=> N # 0 /\ changed
               /\ run'[r].at = "writeRow" <=> N # 0 /\ ~changed /\ io[d][r].member
    <2> DEFINE o == os[r]
               p == io'[d][r]
               call == run'[r].at
    <2>1. p = NextObject(o, 0) /\ call = NextCall(o, 0)
      OBVIOUS
    <2>2. /\ o \in Object /\ o.sizeChanged = changed
          /\ o.dims = io[d][r].dims /\ o.dataBuffer = io[d][r].dataBuffer
          /\ o.bufferHead = io[d][r].bufferHead /\ o.counts = io[d][r].counts
          /\ o.writeLimit = io[d][r].writeLimit /\ o.writeHead = io[d][r].writeHead
          /\ o.highwater = io[d][r].highwater /\ o.globalCount = io[d][r].globalCount
          /\ o.offset = io[d][r].offset /\ o.member = io[d][r].member
      OBVIOUS
    <2>3. TypeInv /\ ObjectInv(d, r) /\ Early(d, r)
      BY <1>1, <1>2
    <2> HIDE DEF o, p, call
    <2>4. /\ p \in Object /\ p.dims = io[d][r].dims /\ p.dataBuffer = io[d][r].dataBuffer
          /\ p.writeLimit = io[d][r].writeLimit /\ p.highwater = io[d][r].highwater
          /\ p.globalCount = io[d][r].globalCount /\ p.offset = io[d][r].offset
          /\ p.member = io[d][r].member
      BY <2>1, <2>2, <2>3, FirstCall
    <2>5. call = "written" =>
              ~p.sizeChanged /\ p.counts = << >> /\ p.bufferHead = 0 /\ p.writeHead = Target(d)
      BY <2>1, <2>2, <2>3, FirstCall
    <2>6. call # "written" =>
              /\ p.sizeChanged = changed /\ p.counts = io[d][r].counts
              /\ p.bufferHead = io[d][r].bufferHead /\ p.writeHead = io[d][r].writeHead
      BY <2>1, <2>2, <2>3, FirstCall
    <2>7. /\ call \in {"written", "splitRow", "writeRow"}
          /\ call = "splitRow" <=> Len(io[d][r].counts) # 0 /\ changed
          /\ call = "writeRow" <=> Len(io[d][r].counts) # 0 /\ ~changed /\ io[d][r].member
      BY <2>1, <2>2, <2>3, FirstCall
    <2> QED BY <1>3, <2>4, <2>5, <2>6, <2>7 DEF p, call
  <1>5. ASSUME N = 0 \/ ~changed PROVE IsPartition(d, Dims(d))
    <2>1. CASE N = 0
      <3>1. \A r \in Ranks : io[d][r].counts = << >>
        BY <1>1, <1>3, <2>1, Lengths, EmptySeq
      <3> QED BY <3>1 DEF Known
    <2>2. CASE ~changed
      BY <2>2 DEF Known
    <2> QED BY <1>5, <2>1, <2>2
  <1>6. ASSUME ~changed
        PROVE  \A n \in Len(log[d]) - N + 1 .. Len(log[d]) : log[d][n] = Dims(d)
    BY <1>1, <1>2, <1>3, <1>6, SteadyRows
  <1>7. ASSUME NEW r \in Ranks
        PROVE  /\ io[d][r].writeHead - base = Len(log[d]) - N
               /\ io[d][r].writeHead - base + 1 \in Len(log[d]) - N + 1 .. Len(log[d]) \/ N = 0
               /\ Target(d) - base = Len(log[d]) /\ Target(d) <= io[d][r].writeLimit
               /\ Len(log[d]) \in Nat
    <2>1. Rest(d, r) = N - 0
      BY <1>2, <1>3 DEF Rest
    <2>2. io[d][r].writeHead - base = Len(log[d]) - Rest(d, r)
      BY <1>1, <1>2, HeadWithin
    <2>3. Len(log[d]) \in Nat /\ base \in Nat /\ Target(d) = base + Len(log[d])
      BY <1>1, Lengths DEF Target
    <2>4. Target(d) <= io[d][r].writeLimit
      BY DEF HeadFits
    <2> DEFINE l == Len(log[d])
               a == io[d][r].writeHead - base
               t == Target(d)
    <2>5. l \in Nat /\ t = base + l /\ a = l - (N - 0) /\ base \in Nat
      BY <2>1, <2>2, <2>3
    <2> HIDE DEF N, l, a, t
    <2>6. a = l - N /\ (a + 1 \in l - N + 1 .. l \/ N = 0) /\ t - base = l
      BY <1>1, <2>5
    <2> QED BY <2>4, <2>5, <2>6 DEF l, a, t
  <1>8. ASSUME NEW r \in Ranks, run'[r].at = "written" PROVE N = 0 \/ (~changed /\ ~io[d][r].member)
    BY <1>4, <1>8
  <1>9. ASSUME NEW r \in Ranks PROVE ObjectInv(d, r)'
    <2>1. ~InRow(d, r)' \/ (run'[r].row = 0 /\ run'[r].cursor = 0)
      OBVIOUS
    <2>2. CASE run'[r].at = "written"
      <3>1. ~InRow(d, r)' /\ ~Early(d, r)'
        BY <2>2 DEF InRow, Early, RowCalls, EarlyCalls
      <3>2. io'[d][r].writeHead > base => io'[d][r].writeHead <= io'[d][r].writeLimit
        BY <1>4, <1>7, <2>2
      <3>3. ASSUME NEW n \in 1 .. io'[d][r].writeHead - base
            PROVE  Total(log[d][n]) <= io'[d][r].highwater
        <4>1. n \in 1 .. Len(log[d])
          BY <1>4, <1>7, <2>2
        <4>2. CASE n \in 1 .. Len(log[d]) - N
          BY <1>2, <1>4, <1>7, <4>2 DEF ObjectInv
        <4>3. CASE n \notin 1 .. Len(log[d]) - N
          <5>1. n \in Len(log[d]) - N + 1 .. Len(log[d]) /\ N # 0
            <6> DEFINE l == Len(log[d])
            <6>1. l \in Nat /\ n \in 1 .. l /\ n \notin 1 .. l - N
              BY <1>7, <4>1, <4>3
            <6> HIDE DEF l, N
            <6>2. n \in l - N + 1 .. l /\ N # 0
              BY <1>1, <6>1
            <6> QED BY <6>2 DEF l
          <5>2. ~changed
            BY <1>8, <2>2, <5>1
          <5>3. log[d][n] = Dims(d)
            BY <1>6, <5>1, <5>2
          <5> QED BY <1>4, <1>5, <5>2, <5>3 DEF IsPartition
        <4> QED BY <4>2, <4>3
      <3> QED BY <1>1, <1>2, <1>4, <2>2, <3>1, <3>2, <3>3, DoneObject
    <2>3. CASE run'[r].at # "written"
      <3>1. ~Written(d, r)'
        BY <2>3 DEF Written
      <3>2. N # 0 /\ ~Early(d, r)'
        BY <1>4, <2>3 DEF Early, EarlyCalls
      <3>3. /\ io'[d][r].writeHead = Target(d) - Rest(d, r)'
        <4>1. Rest(d, r)' = N - 0
          <5>1. Rest(d, r)' = Len(io'[d][r].counts) - 0
            BY DEF Rest
          <5> QED BY <1>3, <1>4, <2>3, <5>1
        <4>2. Rest(d, r) = N - 0
          BY <1>2, <1>3 DEF Rest
        <4> QED BY <1>2, <1>4, <2>3, <4>1, <4>2 DEF ObjectInv
      <3>4. /\ io'[d][r].writeHead > base => io'[d][r].writeHead <= io'[d][r].writeLimit
            /\ \A n \in 1 .. io'[d][r].writeHead - base : Total(log[d][n]) <= io'[d][r].highwater
        BY <1>2, <1>4, <2>3 DEF ObjectInv
      <3>5. run'[r].row < Len(io[d][r].counts)
        BY <1>1, <1>3, <3>2
      <3>6. ~io'[d][r].sizeChanged => ~io[d][r].sizeChanged
        BY <1>4, <2>3
      <3>7. /\ io'[d][r].dims = io[d][r].dims /\ io'[d][r].counts = io[d][r].counts
            /\ io'[d][r].dataBuffer = io[d][r].dataBuffer
            /\ io'[d][r].bufferHead = io[d][r].bufferHead
        BY <1>4, <2>3
      <3> QED BY <1>1, <1>2, <3>1, <3>2, <3>3, <3>4, <3>5, <3>6, <3>7, StillObject
    <2> QED BY <2>2, <2>3
  <1>10. ASSUME NEW r \in Ranks PROVE RowsIn(d, r)'
    <2>1. CASE run'[r].at # "written"
      <3>1. io'[d][r].writeHead = io[d][r].writeHead
        BY <1>4, <2>1
      <3> QED BY <1>2, <3>1 DEF RowsIn
    <2>2. CASE run'[r].at = "written"
      <3> SUFFICES ASSUME NEW n \in 1 .. io'[d][r].writeHead - base, NEW k \in 1 .. log[d][n][r]
                   PROVE  LET p == <<base + n - 1, Before(log[d][n], r) + k - 1>>
                          IN  p \in DOMAIN file[d].cell /\ file[d].cell[p] = <<starts, n, r, k>>
        BY DEF RowsIn
      <3>1. n \in 1 .. Len(log[d])
        BY <1>4, <1>7, <2>2
      <3>2. n \in 1 .. io[d][r].writeHead - base
        <4> SUFFICES ASSUME n \notin 1 .. Len(log[d]) - N PROVE FALSE
          BY <1>7
        <4>1. n \in Len(log[d]) - N + 1 .. Len(log[d]) /\ N # 0
          <5> DEFINE l == Len(log[d])
          <5>1. l \in Nat /\ n \in 1 .. l /\ n \notin 1 .. l - N
            BY <1>7, <3>1
          <5> HIDE DEF l, N
          <5>2. n \in l - N + 1 .. l /\ N # 0
            BY <1>1, <5>1
          <5> QED BY <5>2 DEF l
        <4>2. ~changed /\ ~io[d][r].member
          BY <1>8, <2>2, <4>1
        <4>3. log[d][n] = Dims(d)
          BY <1>6, <4>1, <4>2
        <4>4. ~(Dims(d)[r] > 0)
          BY <1>5, <4>2 DEF IsPartition
        <4>5. io[d][r].dims \in Nat /\ io[d][r].dims = Dims(d)[r]
          BY <1>2 DEF Object, Dims
        <4> QED BY <4>3, <4>4, <4>5
      <3> QED BY <1>2, <3>2 DEF RowsIn
    <2> QED BY <2>1, <2>2
  <1>11. AgreeInv(d)'
    <2>1. ASSUME NEW q \in Ranks, NEW r \in Ranks
          PROVE  /\ io'[d][q].writeLimit = io'[d][r].writeLimit
                 /\ io'[d][q].highwater = io'[d][r].highwater
                 /\ io'[d][q].globalCount = io'[d][r].globalCount
      <3>1. /\ io[d][q].writeLimit = io[d][r].writeLimit /\ io[d][q].highwater = io[d][r].highwater
            /\ io[d][q].globalCount = io[d][r].globalCount
        BY <1>1 DEF AgreeInv
      <3>2. /\ io'[d][q].writeLimit = io[d][q].writeLimit /\ io'[d][q].highwater = io[d][q].highwater
            /\ io'[d][q].globalCount = io[d][q].globalCount
        BY <1>4
      <3>3. /\ io'[d][r].writeLimit = io[d][r].writeLimit /\ io'[d][r].highwater = io[d][r].highwater
            /\ io'[d][r].globalCount = io[d][r].globalCount
        BY <1>4
      <3> QED BY <3>1, <3>2, <3>3
    <2>2. ASSUME NEW q \in Ranks, io'[d][q].globalCount # 0 PROVE \E m \in Ranks : io'[d][m].member
      <3>1. PICK m \in Ranks : io[d][m].member
        BY <1>1, <1>4, <2>2 DEF AgreeInv
      <3>2. io'[d][m].member
        BY <1>4, <3>1
      <3> QED BY <3>2
    <2>3. ASSUME NEW q \in Ranks, NEW r \in Ranks, ~Written(d, q)', ~Written(d, r)'
          PROVE  Len(io'[d][q].counts) = Len(io'[d][r].counts)
      <3>1. run'[q].at # "written" /\ run'[r].at # "written"
        BY <2>3 DEF Written
      <3>2. io'[d][q].counts = io[d][q].counts /\ io'[d][r].counts = io[d][r].counts
        BY <1>4, <3>1
      <3>3. Len(io[d][q].counts) = Len(io[d][r].counts)
        BY <1>3
      <3> QED BY <3>2, <3>3
    <2> QED BY <2>1, <2>2, <2>3 DEF AgreeInv
  <1>12. TypeInv'
    <2>1. io' \in [Datasets -> [Ranks -> Object]]
      <3>1. io'[d] \in [Ranks -> Object]
        <4>1. io'[d] = [r \in Ranks |-> io'[d][r]]
          OBVIOUS
        <4> QED BY <1>4, <4>1
      <3>2. \A e \in Datasets : io'[e] \in [Ranks -> Object]
        BY <1>1, <3>1 DEF TypeInv
      <3> QED BY <3>2
    <2>2. run' \in [Ranks -> [at : Calls, ds : Datasets, row : Nat, cursor : Nat]]
      OBVIOUS
    <2> QED BY <1>1, <2>1, <2>2 DEF TypeInv
  <1>13. Dims(d)' = Dims(d) /\ Target(d)' = Target(d) /\ HeadFits(d)' /\ Fits(d)'
    BY <1>4 DEF Dims, Target, HeadFits, Fits
  <1>14. ASSUME N = 0 \/ ~changed
         PROVE  \A s : IsPartition(d, s) => IsPartition(d, s)'
    BY <1>4 DEF IsPartition
  <1>15. /\ recordCount' = Target(1)'
         /\ \A e \in Datasets : e # d => Ready(e)'
         /\ \A e \in Datasets : e < d => Flushed(e)'
    <2>1. recordCount' = Target(1)'
      BY DEF Writing, Target
    <2>2. ASSUME NEW e \in Datasets, e # d PROVE Ready(e)' /\ (e < d => Flushed(e)')
      <3>1. Ready(e) /\ (e < d => Flushed(e))
        BY <2>2 DEF Writing
      <3>2. io'[e] = io[e] /\ file'[e] = file[e] /\ log'[e] = log[e] /\ UNCHANGED <<base, starts>>
        BY <2>2
      <3> QED BY <3>1, <3>2, KeptDataset
    <2>3. \A e \in Datasets : e < d => e # d
      BY TheRanks
    <2> QED BY <2>1, <2>2, <2>3
  <1>16. ASSUME N = 0 \/ ~changed PROVE IsPartition(d, Dims(d))'
    <2>1. IsPartition(d, Dims(d))
      BY <1>5, <1>16
    <2> QED BY <1>4, <1>13, <2>1 DEF IsPartition
  <1>17. Writing(d)'
    <2>1. CASE N # 0 /\ changed
      <3>1. \A r \in Ranks : run'[r].at = "splitRow" /\ io'[d][r].sizeChanged
        BY <1>4, <2>1
      <3>2. All(d, "splitRow")' /\ SameRow(d)' /\ Changed(d)'
        BY <3>1 DEF All, SameRow, Changed
      <3> QED BY <1>13, <1>15, <3>2 DEF Writing
    <2>2. CASE (N = 0 \/ ~changed) /\ \A r \in Ranks : run'[r].at = "written"
      <3>1. All(d, "written")'
        BY <2>2 DEF All
      <3>2. Ready(d)'
        BY <1>13, <1>16, <2>2 DEF Ready, Known
      <3> QED BY <1>15, <3>1, <3>2 DEF Writing
    <2>3. CASE N # 0 /\ ~changed /\ \E r \in Ranks : run'[r].at # "written"
      <3>1. Subcomm(d)' = Subcomm(d) /\ \A r \in Subcomm(d) : r \in Ranks
        BY <1>4 DEF Subcomm
      <3>2. Subcomm(d) # {}
        BY <1>4, <2>3 DEF Subcomm
      <3>3. \A n \in Len(log[d]) - N + 1 .. Len(log[d]) : IsPartition(d, log[d][n])'
        <4> SUFFICES ASSUME NEW n \in Len(log[d]) - N + 1 .. Len(log[d])
                     PROVE  IsPartition(d, log[d][n])'
          OBVIOUS
        <4>1. log[d][n] = Dims(d)
          BY <1>6, <2>3
        <4> QED BY <1>13, <1>16, <2>3, <4>1 DEF IsPartition
      <3>4. ASSUME NEW r \in Subcomm(d)
            PROVE  /\ run'[r].at = "writeRow" /\ ~io'[d][r].sizeChanged
                   /\ io'[d][r].writeHead = io[d][r].writeHead
        <4>1. r \in Ranks /\ io[d][r].member
          BY DEF Subcomm
        <4>2. run'[r].at = "writeRow"
          BY <1>4, <2>3, <4>1
        <4> QED BY <1>4, <2>3, <4>1, <4>2
      <3>5. ASSUME NEW r \in Subcomm(d) PROVE RowInv(d, r)'
        <4>1. r \in Ranks
          BY DEF Subcomm
        <4>2. io[d][r].writeHead - base + 1 \in Len(log[d]) - N + 1 .. Len(log[d])
          BY <1>7, <2>3, <4>1
        <4> QED BY <3>3, <3>4, <4>2 DEF RowInv, IsPartition
      <3>6. ASSUME NEW r \in Subcomm(d),
                   NEW n \in io'[d][r].writeHead - base' + 1 .. Len(log'[d])
            PROVE  IsPartition(d, log[d][n])'
        <4>1. io'[d][r].writeHead - base' = Len(log[d]) - N
          BY <1>7, <3>1, <3>4
        <4> QED BY <3>3, <3>6, <4>1
      <3>7. \A q \in Ranks \ Subcomm(d) : run'[q].at = "written"
        BY <1>4, <2>3 DEF Subcomm
      <3>8. WritingRow(d)'
        <4>1. \A r \in Subcomm(d)' : run'[r].ds = d /\ run'[r].at = "writeRow" /\ RowInv(d, r)'
          BY <3>1, <3>4, <3>5
        <4>2. \A q, r \in Subcomm(d)' :
                  run'[q].row = run'[r].row /\ io'[d][q].sizeChanged = io'[d][r].sizeChanged
          <5>1. ASSUME NEW q \in Subcomm(d), NEW r \in Subcomm(d)
                PROVE  run'[q].row = run'[r].row /\ io'[d][q].sizeChanged = io'[d][r].sizeChanged
            <6>1. q \in Ranks /\ r \in Ranks
              BY DEF Subcomm
            <6>2. io'[d][q].sizeChanged \in BOOLEAN /\ io'[d][r].sizeChanged \in BOOLEAN
              BY <1>4, <6>1 DEF Object
            <6>3. ~io'[d][q].sizeChanged /\ ~io'[d][r].sizeChanged
              BY <3>4
            <6>4. run'[q].row = run'[r].row
              BY <6>1
            <6> QED BY <6>2, <6>3, <6>4
          <5> QED BY ZenonT(40), <3>1, <5>1
        <4>3. \A r \in Subcomm(d)', q \in Ranks \ Subcomm(d)' :
                  run'[q].ds = d /\ ~io'[d][r].sizeChanged /\ run'[q].at = "written"
          <5>1. ASSUME NEW r \in Subcomm(d), NEW q \in Ranks \ Subcomm(d)
                PROVE  run'[q].ds = d /\ ~io'[d][r].sizeChanged /\ run'[q].at = "written"
            BY <3>4, <3>7
          <5> QED BY <3>1, <5>1
        <4>4. \A r \in Subcomm(d)' :
                  \A n \in io'[d][r].writeHead - base' + 1 .. Len(log'[d]) : IsPartition(d, log[d][n])'
          BY <3>1, <3>6
        <4> QED BY <1>13, <3>1, <3>2, <4>1, <4>2, <4>3, <4>4 DEF WritingRow
      <3> QED BY <1>15, <3>8 DEF Writing
    <2> QED BY <1>4, <2>1, <2>2, <2>3
  <1> QED BY <1>9, <1>10, <1>11, <1>12, <1>17, StepInv

\* The limit depends on these three only.
LEMMA SameLimit ==
    ASSUME NEW o, NEW p, o.writeLimit = p.writeLimit, o.writeHead = p.writeHead,
           Len(o.counts) = Len(p.counts)
    PROVE  /\ NextLimit(o) = NextLimit(p)
           /\ MustGrow(o) <=> MustGrow(p)
           /\ GrowsForever(o) <=> GrowsForever(p)
  <1> DEFINE G(first, needed) ==
                LET limit[k \in Nat] == IF k = 0 THEN first ELSE limit[k - 1] * OverallocMultiple
                IN  limit[Min({k \in 1 .. needed : limit[k] >= needed})]
  <1>1. NextLimit(o) = G(o.writeLimit, o.writeHead + Len(o.counts))
    BY DEF NextLimit
  <1>2. NextLimit(p) = G(p.writeLimit, p.writeHead + Len(p.counts))
    BY DEF NextLimit
  <1> HIDE DEF G
  <1>3. NextLimit(o) = NextLimit(p)
    BY <1>1, <1>2
  <1> QED BY <1>3 DEF MustGrow, GrowsForever

\* The ranks stay before their first row: only the flag and the limit change.
StaysEarly(d, limit, changed) ==
    /\ \A r \in Ranks : run[r].ds = d /\ Early(d, r)
    /\ io' = [e \in Datasets |-> io'[e]] /\ io'[d] = [r \in Ranks |-> io'[d][r]]
    /\ \A e \in Datasets : e # d => io'[e] = io[e]
    /\ UNCHANGED <<file, recordCount, saved, closing, log, base, starts>>
    /\ \A r \in Ranks :
          /\ io'[d][r] \in Object
          /\ io'[d][r].dims = io[d][r].dims /\ io'[d][r].dataBuffer = io[d][r].dataBuffer
          /\ io'[d][r].bufferHead = io[d][r].bufferHead /\ io'[d][r].counts = io[d][r].counts
          /\ io'[d][r].writeHead = io[d][r].writeHead
          /\ io'[d][r].highwater = io[d][r].highwater
          /\ io'[d][r].globalCount = io[d][r].globalCount
          /\ io'[d][r].member = io[d][r].member
          /\ io'[d][r].writeLimit = limit /\ io'[d][r].sizeChanged = changed
    /\ ~changed => \A r \in Ranks : ~io[d][r].sizeChanged
    /\ \A r \in Ranks : Target(d) <= limit \/ limit = io[d][r].writeLimit
    /\ run' = [r \in Ranks |-> run'[r]]
    /\ \A r \in Ranks : /\ run'[r].at \in EarlyCalls /\ run'[r].ds = d
                         /\ run'[r].row = 0 /\ run'[r].cursor = 0
                         /\ run'[r] \in [at : Calls, ds : Datasets, row : Nat, cursor : Nat]

LEMMA StayEarly ==
    ASSUME HInv, NEW d \in Datasets, NEW limit \in Nat, NEW changed \in BOOLEAN,
           StaysEarly(d, limit, changed), Writing(d)'
    PROVE  HInv'
  <1> SUFFICES ASSUME \A r \in Ranks : run[r].ds = d /\ Early(d, r),
               io' = [e \in Datasets |-> io'[e]], io'[d] = [r \in Ranks |-> io'[d][r]],
               \A e \in Datasets : e # d => io'[e] = io[e],
               UNCHANGED <<file, recordCount, saved, closing, log, base, starts>>,
               \A r \in Ranks :
                  /\ io'[d][r] \in Object
                  /\ io'[d][r].dims = io[d][r].dims /\ io'[d][r].dataBuffer = io[d][r].dataBuffer
                  /\ io'[d][r].bufferHead = io[d][r].bufferHead /\ io'[d][r].counts = io[d][r].counts
                  /\ io'[d][r].writeHead = io[d][r].writeHead
                  /\ io'[d][r].highwater = io[d][r].highwater
                  /\ io'[d][r].globalCount = io[d][r].globalCount
                  /\ io'[d][r].member = io[d][r].member
                  /\ io'[d][r].writeLimit = limit /\ io'[d][r].sizeChanged = changed,
               ~changed => \A r \in Ranks : ~io[d][r].sizeChanged,
               \A r \in Ranks : Target(d) <= limit \/ limit = io[d][r].writeLimit,
               run' = [r \in Ranks |-> run'[r]],
               \A r \in Ranks : /\ run'[r].at \in EarlyCalls /\ run'[r].ds = d
                                /\ run'[r].row = 0 /\ run'[r].cursor = 0
                                /\ run'[r] \in [at : Calls, ds : Datasets, row : Nat, cursor : Nat]
               PROVE  HInv'
    BY DEF StaysEarly
  <1>1. TypeInv /\ AgreeInv(d)
    BY DEF HInv
  <1>2. ASSUME NEW r \in Ranks
        PROVE  /\ ObjectInv(d, r) /\ RowsIn(d, r) /\ io[d][r] \in Object
               /\ ~InRow(d, r) /\ ~Written(d, r) /\ ~InRow(d, r)' /\ ~Written(d, r)'
    BY <1>1, Lengths DEF HInv, Early, InRow, Written, EarlyCalls, RowCalls
  <1>3. ASSUME NEW r \in Ranks PROVE ObjectInv(d, r)'
    <2>1. io'[d][r].writeHead = Target(d) - Rest(d, r)'
      <3>1. Rest(d, r) = Len(io[d][r].counts) - 0
        BY <1>2 DEF Rest
      <3>2. Rest(d, r)' = Len(io'[d][r].counts) - 0
        BY <1>2 DEF Rest
      <3>3. Rest(d, r)' = Rest(d, r)
        BY <3>1, <3>2
      <3>4. io[d][r].writeHead = Target(d) - Rest(d, r)
        BY <1>2 DEF ObjectInv
      <3> QED BY <3>3, <3>4
    <2>2. io'[d][r].writeHead > base => io'[d][r].writeHead <= io'[d][r].writeLimit
      <3>1. io[d][r].writeHead <= Target(d) /\ io[d][r].writeHead \in Nat /\ Target(d) \in Nat
        BY <1>1, <1>2, HeadWithin, Lengths
      <3>2. io[d][r].writeHead > base => io[d][r].writeHead <= io[d][r].writeLimit
        BY <1>2 DEF ObjectInv
      <3>3. \A h, t, l \in Nat : h <= t /\ t <= l => h <= l
        OBVIOUS
      <3> QED BY <3>1, <3>2, <3>3
    <2>3. \A n \in 1 .. io'[d][r].writeHead - base : Total(log[d][n]) <= io'[d][r].highwater
      BY <1>2 DEF ObjectInv
    <2>4. ~io'[d][r].sizeChanged => ~io[d][r].sizeChanged
      OBVIOUS
    <2> QED BY <1>1, <1>2, <2>1, <2>2, <2>3, <2>4, StillObject
  <1>4. ASSUME NEW r \in Ranks PROVE RowsIn(d, r)'
    BY <1>2 DEF RowsIn
  <1>5. AgreeInv(d)'
    <2>1. ASSUME NEW q \in Ranks, NEW r \in Ranks
          PROVE  /\ io'[d][q].writeLimit = io'[d][r].writeLimit
                 /\ io'[d][q].highwater = io'[d][r].highwater
                 /\ io'[d][q].globalCount = io'[d][r].globalCount
      BY <1>1 DEF AgreeInv
    <2>2. ASSUME NEW q \in Ranks, io'[d][q].globalCount # 0 PROVE \E m \in Ranks : io'[d][m].member
      <3>1. PICK m \in Ranks : io[d][m].member
        BY <1>1, <2>2 DEF AgreeInv
      <3> QED BY <3>1
    <2>3. ASSUME NEW q \in Ranks, NEW r \in Ranks PROVE Len(io'[d][q].counts) = Len(io'[d][r].counts)
      BY <1>1, <1>2 DEF AgreeInv
    <2> QED BY <2>1, <2>2, <2>3 DEF AgreeInv
  <1>6. TypeInv'
    <2>1. io'[d] \in [Ranks -> Object]
      OBVIOUS
    <2>2. \A e \in Datasets : io'[e] \in [Ranks -> Object]
      BY <1>1, <2>1 DEF TypeInv
    <2>3. io' \in [Datasets -> [Ranks -> Object]]
      BY <2>2
    <2>4. run' \in [Ranks -> [at : Calls, ds : Datasets, row : Nat, cursor : Nat]]
      OBVIOUS
    <2> QED BY <1>1, <2>3, <2>4 DEF TypeInv
  <1> QED BY <1>3, <1>4, <1>5, <1>6, StepInv

LEMMA ReduceHInv == ASSUME HInv, NEW d \in Datasets, Reduce(d) PROVE HInv'
  <1> DEFINE o(r) == [io[d][r] EXCEPT !.sizeChanged = AnyChanged(d, r)]
             N == Len(io[d][0].counts)
             L == io[d][0].writeLimit
             changed == \E q \in Ranks : io[d][q].sizeChanged
  <1>1. TypeInv /\ AgreeInv(d) /\ N \in Nat /\ L \in Nat /\ 0 \in Ranks
    <2>1. io[d][0] \in Object /\ N \in Nat /\ 0 \in Ranks
      BY Lengths, TheRanks DEF HInv
    <2> QED BY <2>1 DEF HInv, Object
  <1>2. /\ \A r \in Ranks : run[r].at = "reduce" /\ run[r].ds = d
        /\ Writing(d) /\ Ready(d)
    <2>1. \A r \in Ranks : run[r].at = "reduce" /\ run[r].ds = d
      BY Zenon DEF Reduce, At
    <2> QED BY <2>1, WritingNow
  <1>3. ASSUME NEW r \in Ranks
        PROVE  /\ ObjectInv(d, r) /\ io[d][r] \in Object /\ Early(d, r)
               /\ Len(io[d][r].counts) = N /\ io[d][r].writeLimit = L
               /\ io[d][r].writeHead = Target(d) - N
               /\ io[d][r].writeHead + N = Target(d) /\ io[d][r].writeHead \in Nat
    <2>1. ObjectInv(d, r) /\ io[d][r] \in Object /\ Early(d, r) /\ ~InRow(d, r)
      BY <1>1, <1>2, Lengths DEF HInv, Early, EarlyCalls, InRow, RowCalls
    <2>2. Len(io[d][r].counts) = N /\ io[d][r].writeLimit = L
      BY <1>1, <1>2 DEF AgreeInv, Written
    <2>3. Rest(d, r) = N - 0
      BY <2>1, <2>2 DEF Rest
    <2>4. io[d][r].writeHead = Target(d) - Rest(d, r)
      BY <2>1 DEF ObjectInv
    <2>5. Target(d) \in Nat /\ io[d][r].writeHead \in Nat
      BY <1>1, <2>1, Lengths, HeadWithin
    <2> HIDE DEF N
    <2>6. \A t, h \in Nat : h = t - (N - 0) => h = t - N /\ h + N = t
      BY <1>1
    <2> QED BY <2>1, <2>2, <2>3, <2>4, <2>5, <2>6
  <1>4. changed \in BOOLEAN /\ (~changed => \A r \in Ranks : ~io[d][r].sizeChanged)
    OBVIOUS
  <1>5. ASSUME NEW r \in Ranks
        PROVE  /\ o(r) \in Object /\ o(r).sizeChanged = changed
               /\ o(r).dims = io[d][r].dims /\ o(r).dataBuffer = io[d][r].dataBuffer
               /\ o(r).bufferHead = io[d][r].bufferHead /\ o(r).counts = io[d][r].counts
               /\ o(r).writeLimit = io[d][r].writeLimit /\ o(r).writeHead = io[d][r].writeHead
               /\ o(r).highwater = io[d][r].highwater /\ o(r).globalCount = io[d][r].globalCount
               /\ o(r).offset = io[d][r].offset /\ o(r).member = io[d][r].member
    BY <1>3 DEF AnyChanged, Object
  <1>6. ASSUME NEW r \in Ranks
        PROVE  /\ MustGrow(o(r)) <=> Target(d) > L
               /\ GrowsForever(o(r)) <=> Target(d) > L /\ L = 0
               /\ NextLimit(o(r)) = NextLimit(o(0))
    <2> HIDE DEF o, N, L
    <2>1. MustGrow(o(r)) <=> Target(d) > L
      <3>1. o(r).writeHead + Len(o(r).counts) = Target(d) /\ o(r).writeLimit = L
        BY <1>3, <1>5
      <3> QED BY <3>1 DEF MustGrow
    <2>2. o(r).writeLimit = L
      BY <1>3, <1>5
    <2>3. /\ o(r).writeLimit = o(0).writeLimit /\ o(r).writeHead = o(0).writeHead
          /\ Len(o(r).counts) = Len(o(0).counts)
      <3>1. o(r).writeLimit = L /\ o(r).writeHead = Target(d) - N /\ Len(o(r).counts) = N
        BY <1>3, <1>5
      <3>2. o(0).writeLimit = L /\ o(0).writeHead = Target(d) - N /\ Len(o(0).counts) = N
        BY ZenonT(40), <1>1, <1>3, <1>5
      <3> QED BY <3>1, <3>2
    <2>4. NextLimit(o(r)) = NextLimit(o(0))
      BY <2>3, SameLimit
    <2> QED BY <2>1, <2>2, <2>4 DEF GrowsForever
  <1>7. /\ io' = [io EXCEPT ![d] = [r \in Ranks |->
                        IF GrowsForever(o(r)) THEN o(r)
                        ELSE IF MustGrow(o(r))
                        THEN [o(r) EXCEPT !.writeLimit = NextLimit(o(r))] ELSE NextObject(o(r), 0)]]
        /\ run' = [r \in Ranks |-> Here(
                        IF GrowsForever(o(r)) THEN "growing"
                        ELSE IF ~MustGrow(o(r)) THEN NextCall(o(r), 0)
                        ELSE IF o(r).member THEN "grow" ELSE "grown", d)]
        /\ UNCHANGED <<file, recordCount, saved, closing, log, base, starts>>
    BY Zenon DEF Reduce
  <1>8. /\ io' = [e \in Datasets |-> io'[e]] /\ \A e \in Datasets : e # d => io'[e] = io[e]
        /\ io'[d] = [r \in Ranks |->
                        IF GrowsForever(o(r)) THEN o(r)
                        ELSE IF MustGrow(o(r))
                        THEN [o(r) EXCEPT !.writeLimit = NextLimit(o(r))] ELSE NextObject(o(r), 0)]
        /\ io'[d] = [r \in Ranks |-> io'[d][r]]
        /\ run' = [r \in Ranks |-> run'[r]]
    <2> HIDE DEF o
    <2> QED BY <1>1, <1>7 DEF TypeInv
  <1> HIDE DEF o, changed
  <1>9. Known(d) /\ Fits(d)
    BY <1>2 DEF Ready
  <1>10. ASSUME NEW r \in Ranks, NEW call \in Calls, run'[r] = Here(call, d)
         PROVE  /\ run'[r].at = call /\ run'[r].ds = d /\ run'[r].row = 0 /\ run'[r].cursor = 0
                /\ run'[r] \in [at : Calls, ds : Datasets, row : Nat, cursor : Nat]
    BY <1>10 DEF Here
  <1>11. CASE ~(Target(d) > L)
    <2> DEFINE os == [r \in Ranks |-> o(r)]
    <2>1. io'[d] = [r \in Ranks |-> NextObject(os[r], 0)]
      BY <1>6, <1>8, <1>11
    <2>2. ASSUME NEW r \in Ranks
          PROVE  /\ run'[r].at = NextCall(os[r], 0) /\ run'[r].ds = d
                 /\ run'[r].row = 0 /\ run'[r].cursor = 0
                 /\ run'[r] \in [at : Calls, ds : Datasets, row : Nat, cursor : Nat]
      <3>1. run'[r] = Here(NextCall(o(r), 0), d)
        BY <1>6, <1>7, <1>11
      <3>2. NextCall(o(r), 0) \in Calls
        BY NextWhere DEF Calls, WriteCalls, RowCalls
      <3> QED BY <1>10, <3>1, <3>2
    <2>3. HeadFits(d)
      <3>1. Target(d) \in Nat
        BY <1>1, Lengths
      <3>2. Target(d) <= L
        BY <1>1, <1>11, <3>1
      <3> QED BY <1>3, <3>2 DEF HeadFits
    <2>4. os \in [Ranks -> Object]
      BY <1>5
    <2>5. \A r \in Ranks :
              /\ os[r].sizeChanged = changed
              /\ os[r].dims = io[d][r].dims /\ os[r].dataBuffer = io[d][r].dataBuffer
              /\ os[r].bufferHead = io[d][r].bufferHead /\ os[r].counts = io[d][r].counts
              /\ os[r].writeLimit = io[d][r].writeLimit /\ os[r].writeHead = io[d][r].writeHead
              /\ os[r].highwater = io[d][r].highwater /\ os[r].globalCount = io[d][r].globalCount
              /\ os[r].offset = io[d][r].offset /\ os[r].member = io[d][r].member
      BY <1>5
    <2>6. \A r \in Ranks : run[r].ds = d /\ Early(d, r)
      BY <1>2, <1>3
    <2> HIDE DEF os
    <2>7. ToFirstRow(d, changed, os)
      BY <1>2, <1>4, <1>7, <1>8, <1>9, <2>1, <2>2, <2>3, <2>5, <2>6 DEF ToFirstRow
    <2> QED BY <1>4, <2>4, <2>7, FirstRowHInv
  <1>12. CASE Target(d) > L
    <2> DEFINE limit == IF L = 0 THEN L ELSE NextLimit(o(0))
    <2>1. limit \in Nat /\ (L # 0 => Target(d) <= limit)
      <3>1. CASE L = 0
        BY <1>1, <3>1
      <3>2. CASE L # 0
        <4>1. /\ o(0).writeHead \in Nat /\ Len(o(0).counts) \in Nat /\ o(0).writeLimit \in Nat \ {0}
              /\ MustGrow(o(0)) /\ o(0).writeHead + Len(o(0).counts) = Target(d)
          BY <1>1, <1>3, <1>5, <1>6, <1>12, <3>2
        <4>2. NextLimit(o(0)) \in Nat /\ o(0).writeHead + Len(o(0).counts) <= NextLimit(o(0))
          BY <4>1, LimitFits
        <4> QED BY <4>1, <4>2, <3>2
      <3> QED BY <3>1, <3>2
    <2>2. ASSUME NEW r \in Ranks
          PROVE  /\ io'[d][r] \in Object
                 /\ io'[d][r].dims = io[d][r].dims /\ io'[d][r].dataBuffer = io[d][r].dataBuffer
                 /\ io'[d][r].bufferHead = io[d][r].bufferHead /\ io'[d][r].counts = io[d][r].counts
                 /\ io'[d][r].writeHead = io[d][r].writeHead
                 /\ io'[d][r].highwater = io[d][r].highwater
                 /\ io'[d][r].globalCount = io[d][r].globalCount
                 /\ io'[d][r].offset = io[d][r].offset
                 /\ io'[d][r].member = io[d][r].member
                 /\ io'[d][r].writeLimit = limit /\ io'[d][r].sizeChanged = changed
      <3>1. CASE L = 0
        <4>1. io'[d][r] = o(r)
          BY <1>6, <1>8, <1>12, <3>1
        <4> QED BY ZenonT(40), <1>3, <1>5, <3>1, <4>1
      <3>2. CASE L # 0
        <4>1. io'[d][r] = [o(r) EXCEPT !.writeLimit = NextLimit(o(0))]
          BY <1>6, <1>8, <1>12, <3>2
        <4>2. limit = NextLimit(o(0)) /\ limit \in Nat
          BY <2>1, <3>2
        <4> DEFINE c == o(r)
                   p == io'[d][r]
        <4>3. p = [c EXCEPT !.writeLimit = limit] /\ c \in Object
          BY <1>5, <4>1, <4>2
        <4> HIDE DEF c, p, limit
        <4>4. /\ p \in Object
              /\ p.dims = c.dims /\ p.dataBuffer = c.dataBuffer
              /\ p.bufferHead = c.bufferHead /\ p.counts = c.counts
              /\ p.writeHead = c.writeHead /\ p.highwater = c.highwater
              /\ p.globalCount = c.globalCount /\ p.offset = c.offset
              /\ p.member = c.member /\ p.sizeChanged = c.sizeChanged /\ p.writeLimit = limit
          BY <4>2, <4>3 DEF Object
        <4> QED BY <1>5, <4>4 DEF c, p
      <3> QED BY <3>1, <3>2
    <2>3. ASSUME NEW r \in Ranks
          PROVE  /\ run'[r].at \in EarlyCalls /\ run'[r].ds = d
                 /\ run'[r].row = 0 /\ run'[r].cursor = 0
                 /\ run'[r] \in [at : Calls, ds : Datasets, row : Nat, cursor : Nat]
                 /\ L = 0 => run'[r].at = "growing"
                 /\ L # 0 => run'[r].at = IF io[d][r].member THEN "grow" ELSE "grown"
      <3> DEFINE call == IF L = 0 THEN "growing" ELSE IF o(r).member THEN "grow" ELSE "grown"
      <3>1. run'[r] = Here(call, d)
        BY <1>6, <1>7, <1>12
      <3>2. call \in Calls /\ call \in EarlyCalls
        BY DEF Calls, WriteCalls, EarlyCalls
      <3>3. o(r).member = io[d][r].member
        BY <1>5
      <3>4. /\ run'[r].at = call /\ run'[r].ds = d /\ run'[r].row = 0 /\ run'[r].cursor = 0
            /\ run'[r] \in [at : Calls, ds : Datasets, row : Nat, cursor : Nat]
        <4> HIDE DEF call
        <4> QED BY <1>10, <3>1, <3>2
      <3> QED BY <3>2, <3>3, <3>4
    <2>4. \A r \in Ranks : Target(d) <= limit \/ limit = io[d][r].writeLimit
      BY <1>3, <2>1
    <2> HIDE DEF limit
    <2>5. /\ recordCount' = Target(1)'
          /\ \A e \in Datasets : e # d => Ready(e)'
          /\ \A e \in Datasets : e < d => Flushed(e)'
      <3>1. recordCount' = Target(1)'
        BY <1>2, <1>7 DEF Writing, Target
      <3>2. ASSUME NEW e \in Datasets, e # d PROVE Ready(e)' /\ (e < d => Flushed(e)')
        <4>1. Ready(e) /\ (e < d => Flushed(e))
          BY <1>2, <3>2 DEF Writing
        <4>2. io'[e] = io[e] /\ file'[e] = file[e] /\ log'[e] = log[e] /\ UNCHANGED <<base, starts>>
          BY <1>7, <1>8, <3>2
        <4> QED BY <4>1, <4>2, KeptDataset
      <3>3. \A e \in Datasets : e < d => e # d
        BY TheRanks
      <3> QED BY <3>1, <3>2, <3>3
    <2>6. Writing(d)'
      <3>1. CASE L = 0
        <4>1. All(d, "growing")'
          BY <2>3, <3>1 DEF All
        <4> QED BY <2>5, <4>1 DEF Writing
      <3>2. CASE L # 0
        <4>1. Together(d, Subcomm(d), "grow", "grown")'
          <5>1. \A r \in Ranks : r \in Subcomm(d)' <=> io[d][r].member
            BY <2>2 DEF Subcomm
          <5> QED BY <2>3, <3>2, <5>1 DEF Together
        <4>2. SameChange(d)'
          BY <2>2 DEF SameChange
        <4>3. HeadFits(d)'
          <5>1. Target(d)' = Target(d)
            BY <1>7 DEF Target
          <5> QED BY <2>1, <2>2, <3>2, <5>1 DEF HeadFits
        <4>4. Known(d)'
          <5>1. SUFFICES ASSUME (\A r \in Ranks : ~io'[d][r].sizeChanged)
                                \/ (\A r \in Ranks : io'[d][r].counts = << >>)
                         PROVE  IsPartition(d, Dims(d))'
            BY DEF Known
          <5>2. (\A r \in Ranks : ~io[d][r].sizeChanged) \/ (\A r \in Ranks : io[d][r].counts = << >>)
            BY <1>1, <1>4, <2>2, <5>1
          <5>3. IsPartition(d, Dims(d))
            BY <1>9, <5>2 DEF Known
          <5>4. Dims(d)' = Dims(d)
            BY <2>2 DEF Dims
          <5> QED BY <2>2, <5>3, <5>4 DEF IsPartition
        <4> QED BY <2>5, <4>1, <4>2, <4>3, <4>4 DEF Writing
      <3> QED BY <3>1, <3>2
    <2>7. \A r \in Ranks : run[r].ds = d /\ Early(d, r)
      BY <1>2, <1>3
    <2>8. \A r \in Ranks :
              /\ io'[d][r] \in Object
              /\ io'[d][r].dims = io[d][r].dims /\ io'[d][r].dataBuffer = io[d][r].dataBuffer
              /\ io'[d][r].bufferHead = io[d][r].bufferHead /\ io'[d][r].counts = io[d][r].counts
              /\ io'[d][r].writeHead = io[d][r].writeHead
              /\ io'[d][r].highwater = io[d][r].highwater
              /\ io'[d][r].globalCount = io[d][r].globalCount
              /\ io'[d][r].member = io[d][r].member
              /\ io'[d][r].writeLimit = limit /\ io'[d][r].sizeChanged = changed
      BY <2>2
    <2>9. \A r \in Ranks : /\ run'[r].at \in EarlyCalls /\ run'[r].ds = d
                           /\ run'[r].row = 0 /\ run'[r].cursor = 0
                           /\ run'[r] \in [at : Calls, ds : Datasets, row : Nat, cursor : Nat]
      BY <2>3
    <2>10. limit \in Nat
      BY <2>1
    <2>11. StaysEarly(d, limit, changed)
      BY <1>4, <1>7, <1>8, <2>4, <2>7, <2>8, <2>9 DEF StaysEarly
    <2> QED BY <1>4, <2>6, <2>10, <2>11, StayEarly
  <1> QED BY <1>11, <1>12
-----------------------------------------------------------------------------
(* The rows that the ranks with data write.                                   *)

\* The row a rank is at lies in its buffer.
LEMMA BufferedRow ==
    ASSUME TypeInv, NEW d \in Datasets, NEW r \in Ranks, ObjectInv(d, r), InRow(d, r)
    PROVE  \A k \in 1 .. io[d][r].counts[run[r].row + 1] :
              io[d][r].dataBuffer[run[r].cursor + k] = <<starts, io[d][r].writeHead - base + 1, r, k>>
  <1> DEFINE o == io[d][r]
             w == run[r].row
             old == Len(log[d]) - Len(o.counts)
  <1>1. w + 1 \in 1 .. Len(o.counts) /\ old + (w + 1) = o.writeHead - base + 1
    BY TheRow
  <1>2. BufferInv(d, r)
    BY DEF ObjectInv
  <1>3. PICK places \in [0 .. Len(o.counts) -> Nat] :
              /\ \A k \in 1 .. Len(o.counts) : \A i \in 1 .. o.counts[k] :
                    o.dataBuffer[places[k - 1] + i] = <<starts, old + k, r, i>>
              /\ run[r].cursor = places[w]
    BY <1>2 DEF BufferInv
  <1>4. w \in Nat
    BY Lengths
  <1>5. (w + 1) - 1 = w
    BY <1>4
  <1> HIDE DEF o, w, old
  <1>6. \A i \in 1 .. o.counts[w + 1] : o.dataBuffer[places[w] + i] = <<starts, old + (w + 1), r, i>>
    BY <1>1, <1>3, <1>5
  <1> QED BY Zenon, <1>1, <1>3, <1>6 DEF o, w

\* The pieces of a row have places of their own.
LEMMA ApartPieces ==
    ASSUME NEW s \in [Ranks -> Nat], NEW q \in Ranks, NEW r \in Ranks,
           NEW j \in 0 .. s[q] - 1, NEW k \in 0 .. s[r] - 1,
           Before(s, q) + j = Before(s, r) + k
    PROVE  q = r /\ j = k
  <1>1. /\ Before(s, q) \in Nat /\ Before(s, r) \in Nat
        /\ q < r => Before(s, q) + s[q] <= Before(s, r)
        /\ r < q => Before(s, r) + s[r] <= Before(s, q)
    BY SumsApart
  <1>2. q \in Int /\ r \in Int /\ s[q] \in Nat /\ s[r] \in Nat
    BY TheRanks DEF Ranks
  <1> DEFINE a == Before(s, q)
             b == Before(s, r)
  <1>3. a \in Nat /\ b \in Nat /\ a + j = b + k
    BY <1>1
  <1>4. q < r => a + s[q] <= b
    BY <1>1
  <1>5. r < q => b + s[r] <= a
    BY <1>1
  <1> HIDE DEF a, b
  <1>6. ~(q < r)
    BY <1>2, <1>3, <1>4
  <1>7. ~(r < q)
    BY <1>2, <1>3, <1>5
  <1>8. q = r
    BY <1>2, <1>6, <1>7
  <1>9. a = b
    BY <1>8 DEF a, b
  <1> QED BY <1>3, <1>8, <1>9

\* What one collective write puts where
HaveRow(d, R, s, h, n) ==
    \A r \in R : /\ io[d][r].counts[run[r].row + 1] = s[r] /\ io[d][r].writeHead = h
                 /\ io[d][r].offset = Before(s, r) /\ run[r].cursor \in Nat
                 /\ \A k \in 1 .. s[r] :
                       io[d][r].dataBuffer[run[r].cursor + k] = <<starts, n, r, k>>

ArePieces(f, R, s, h, n) ==
    /\ \A x \in DOMAIN f : \E r \in R : \E k \in 0 .. s[r] - 1 : x = <<h, Before(s, r) + k>>
    /\ \A r \in R : \A k \in 0 .. s[r] - 1 :
          /\ <<h, Before(s, r) + k>> \in DOMAIN f
          /\ f[<<h, Before(s, r) + k>>] = <<starts, n, r, k + 1>>

LEMMA PiecesOf ==
    ASSUME NEW d, NEW R \in SUBSET Ranks, NEW s \in [Ranks -> Nat], NEW h \in Nat, NEW n,
           HaveRow(d, R, s, h, n), NEW f, f = RowPieces(d, R)
    PROVE  ArePieces(f, R, s, h, n)
  <1> DEFINE size(r) == io[d][r].counts[run[r].row + 1]
             place == UNION {{<<r, k>> : k \in 0 .. size(r) - 1} : r \in R}
             at(p) == <<io[d][p[1]].writeHead, io[d][p[1]].offset + p[2]>>
             what(p) == io[d][p[1]].dataBuffer[run[p[1]].cursor + p[2] + 1]
             chosen(x) == CHOOSE p \in place : at(p) = x
  <1> USE DEF HaveRow
  <1>1. f = [x \in {at(p) : p \in place} |-> what(chosen(x))]
    BY Zenon DEF RowPieces
  <1>2. ASSUME NEW p \in place
        PROVE  p[1] \in R /\ p[2] \in 0 .. s[p[1]] - 1 /\ p = <<p[1], p[2]>>
    <2>1. PICK r \in R : \E k \in 0 .. size(r) - 1 : p = <<r, k>>
      OBVIOUS
    <2>2. PICK k \in 0 .. s[r] - 1 : p = <<r, k>>
      BY <2>1
    <2> QED BY <2>2
  <1>3. ASSUME NEW r \in R, NEW k \in 0 .. s[r] - 1 PROVE <<r, k>> \in place
    <2>1. k \in 0 .. size(r) - 1
      OBVIOUS
    <2> QED BY <2>1
  <1> HIDE DEF place
  <1>4. ASSUME NEW p \in place PROVE at(p) = <<h, Before(s, p[1]) + p[2]>>
    BY <1>2
  <1>5. ASSUME NEW p \in place PROVE what(p) = <<starts, n, p[1], p[2] + 1>>
    <2>1. /\ p[1] \in R /\ p[2] \in 0 .. s[p[1]] - 1 /\ s[p[1]] \in Nat /\ run[p[1]].cursor \in Nat
      BY <1>2
    <2>2. \A c \in Nat : c + p[2] + 1 = c + (p[2] + 1)
      BY <2>1
    <2>3. p[2] + 1 \in 1 .. s[p[1]]
      BY <2>1
    <2> QED BY <2>1, <2>2, <2>3
  <1>6. ASSUME NEW p \in place, NEW q \in place, at(p) = at(q) PROVE p = q
    <2>1. /\ p[1] \in Ranks /\ p[2] \in 0 .. s[p[1]] - 1 /\ p = <<p[1], p[2]>>
          /\ q[1] \in Ranks /\ q[2] \in 0 .. s[q[1]] - 1 /\ q = <<q[1], q[2]>>
      BY <1>2
    <2>2. Before(s, p[1]) + p[2] = Before(s, q[1]) + q[2]
      BY <1>4, <1>6
    <2>3. p[1] = q[1] /\ p[2] = q[2]
      BY <2>1, <2>2, ApartPieces
    <2> QED BY <2>1, <2>3
  <1> HIDE DEF at, what
  <1>7. ASSUME NEW p \in place PROVE at(p) \in DOMAIN f /\ f[at(p)] = what(p)
    <2>1. at(p) \in DOMAIN f /\ f[at(p)] = what(chosen(at(p)))
      <3> HIDE DEF chosen
      <3> QED BY <1>1
    <2>2. chosen(at(p)) \in place /\ at(chosen(at(p))) = at(p)
      OBVIOUS
    <2>3. chosen(at(p)) = p
      BY <1>6, <2>2
    <2> QED BY <2>1, <2>3
  <1>8. ASSUME NEW x \in DOMAIN f
        PROVE  \E r \in R : \E k \in 0 .. s[r] - 1 : x = <<h, Before(s, r) + k>>
    <2>1. PICK p \in place : x = at(p)
      <3> HIDE DEF chosen
      <3> QED BY <1>1
    <2> QED BY <1>2, <1>4, <2>1
  <1>9. ASSUME NEW r \in R, NEW k \in 0 .. s[r] - 1
        PROVE  /\ <<h, Before(s, r) + k>> \in DOMAIN f
               /\ f[<<h, Before(s, r) + k>>] = <<starts, n, r, k + 1>>
    <2> DEFINE p == <<r, k>>
    <2>1. p \in place /\ p[1] = r /\ p[2] = k
      BY <1>3
    <2> HIDE DEF p
    <2>2. at(p) = <<h, Before(s, r) + k>> /\ what(p) = <<starts, n, r, k + 1>>
      BY <1>4, <1>5, <2>1
    <2> QED BY <1>7, <2>1, <2>2
  <1> QED BY <1>8, <1>9 DEF ArePieces

\* What the phase says when a rank is about to write a row
LEMMA WriteRowPhase ==
    ASSUME HInv, NEW d \in Datasets, NEW r \in Subcomm(d), run[r].ds = d, run[r].at = "writeRow"
    PROVE  Writing(d) /\ WritingRow(d)
  <1>1. r \in Ranks
    BY DEF Subcomm
  <1>2. Writing(d)
    BY <1>1, PhaseOf DEF WriteCalls, RowCalls
  <1> QED BY <1>1, <1>2 DEF Writing, All, Together

\* The ranks that write a row write the same one.
LEMMA OneRow ==
    ASSUME HInv, NEW d \in Datasets, WritingRow(d), NEW q \in Subcomm(d), NEW r \in Subcomm(d)
    PROVE  /\ r \in Ranks /\ ObjectInv(d, r) /\ RowsIn(d, r) /\ InRow(d, r) /\ ~Written(d, r)
           /\ run[q].row = run[r].row
           /\ Len(io[d][q].counts) = Len(io[d][r].counts)
           /\ io[d][q].writeHead = io[d][r].writeHead
           /\ io[d][q].sizeChanged <=> io[d][r].sizeChanged
  <1>1. \A p \in Subcomm(d) : p \in Ranks /\ ObjectInv(d, p) /\ RowsIn(d, p) /\ InRow(d, p) /\ ~Written(d, p)
    BY DEF HInv, WritingRow, Subcomm, InRow, RowCalls, Written
  <1>2. run[q].row = run[r].row /\ io[d][q].sizeChanged = io[d][r].sizeChanged
    BY DEF WritingRow
  <1>3. Len(io[d][q].counts) = Len(io[d][r].counts)
    BY <1>1 DEF HInv, AgreeInv
  <1>4. Rest(d, q) = Rest(d, r)
    BY <1>1, <1>2, <1>3 DEF Rest
  <1>5. io[d][q].writeHead = io[d][r].writeHead
    BY <1>1, <1>4 DEF ObjectInv
  <1> QED BY <1>1, <1>2, <1>3, <1>5

\* The file after a collective write of row n, which belongs at h
HoldsRow(g, d, h, n, s) ==
    /\ IsFile(g) /\ g.rows = file[d].rows /\ g.cols = file[d].cols
    /\ DOMAIN g.cell = DOMAIN file[d].cell
    /\ \A x \in DOMAIN file[d].cell : x[1] # h => g.cell[x] = file[d].cell[x]
    /\ \A r \in Subcomm(d) : \A k \in 0 .. s[r] - 1 :
          /\ <<h, Before(s, r) + k>> \in DOMAIN g.cell
          /\ g.cell[<<h, Before(s, r) + k>>] = <<starts, n, r, k + 1>>
    /\ \A x \in DOMAIN file[d].cell :
          g.cell[x] = file[d].cell[x] \/ (g.cell[x][1] = starts /\ x[2] < Total(s))

LEMMA WrittenFile ==
    ASSUME HInv, NEW d \in Datasets, WritingRow(d), NEW r0 \in Subcomm(d),
           NEW h, h = io[d][r0].writeHead, NEW n, n = h - base + 1, NEW s, s = log[d][n],
           NEW g, g = WrittenTo(file[d], RowPieces(d, Subcomm(d)))
    PROVE  HoldsRow(g, d, h, n, s)
  <1> DEFINE R == Subcomm(d)
             pieces == RowPieces(d, R)
             f == file[d]
  <1>1. TypeInv /\ IsFile(f)
    BY DEF HInv, TypeInv
  <1>2. ASSUME NEW r \in R
        PROVE  /\ r \in Ranks /\ ObjectInv(d, r) /\ InRow(d, r) /\ io[d][r].writeHead = h
               /\ io[d][r].member
    BY OneRow DEF Subcomm
  <1>3. /\ s \in [Ranks -> Nat] /\ h < Target(d) /\ h \in Nat /\ Target(d) \in Nat
        /\ IsPartition(d, s)
    <2>1. r0 \in Ranks /\ ObjectInv(d, r0) /\ InRow(d, r0)
      BY <1>2
    <2> DEFINE first == io[d][r0].writeHead - base + 1
    <2>6. first \in 1 .. Len(log[d])
      BY <1>1, <2>1, TheRow
    <2>7. log[d][first] \in [Ranks -> Nat]
      BY <1>1, <1>2, <2>6, Lengths
    <2>8. io[d][r0].writeHead < Target(d)
      BY <1>1, <2>1, TheRow
    <2>4. log[d][io[d][r0].writeHead - base + 1] \in [Ranks -> Nat] /\ io[d][r0].writeHead < Target(d)
      BY <2>7, <2>8
    <2>5. s \in [Ranks -> Nat] /\ h < Target(d)
      BY <2>4
    <2>2. h \in Nat /\ Target(d) \in Nat
      BY <1>1, <1>2, HeadWithin, Lengths
    <2>3. RowInv(d, r0)
      BY DEF WritingRow
    <2> QED BY <2>2, <2>3, <2>5 DEF RowInv
  <1>4. ASSUME NEW r \in R
        PROVE  /\ io[d][r].counts[run[r].row + 1] = s[r] /\ io[d][r].offset = Before(s, r)
               /\ run[r].cursor \in Nat
               /\ \A k \in 1 .. s[r] :
                     io[d][r].dataBuffer[run[r].cursor + k] = <<starts, n, r, k>>
    <2>1. io[d][r].counts[run[r].row + 1] = s[r]
      <3>1. io[d][r].counts[run[r].row + 1] = log[d][io[d][r].writeHead - base + 1][r]
        BY <1>1, <1>2, TheRow
      <3> QED BY <1>2, <3>1
    <2>2. io[d][r].offset = Before(s, r)
      BY <1>2, <1>3 DEF IsPartition
    <2>3. run[r].cursor \in Nat
      BY <1>1, <1>2 DEF TypeInv
    <2>4. \A k \in 1 .. io[d][r].counts[run[r].row + 1] :
              io[d][r].dataBuffer[run[r].cursor + k] = <<starts, io[d][r].writeHead - base + 1, r, k>>
      BY <1>1, <1>2, BufferedRow
    <2> QED BY Zenon, <1>2, <2>1, <2>2, <2>3, <2>4
  <1>5. /\ \A x \in DOMAIN pieces : \E r \in R : \E k \in 0 .. s[r] - 1 : x = <<h, Before(s, r) + k>>
        /\ \A r \in R : \A k \in 0 .. s[r] - 1 :
              /\ <<h, Before(s, r) + k>> \in DOMAIN pieces
              /\ pieces[<<h, Before(s, r) + k>>] = <<starts, n, r, k + 1>>
    <2>1. R \in SUBSET Ranks
      BY <1>2
    <2>2. HaveRow(d, R, s, h, n)
      BY <1>2, <1>4 DEF HaveRow
    <2> HIDE DEF R
    <2>3. pieces = RowPieces(d, R)
      OBVIOUS
    <2> HIDE DEF pieces
    <2>4. s \in [Ranks -> Nat] /\ h \in Nat
      BY <1>3
    <2>5. ArePieces(pieces, R, s, h, n)
      BY ONLY <2>1, <2>2, <2>3, <2>4, PiecesOf
    <2> QED BY ONLY <2>5 DEF ArePieces
  <1> HIDE DEF pieces
  <1>6. DOMAIN f.cell = Within(f.rows, f.cols) /\ f.rows \in Nat /\ f.cols \in Nat
    BY <1>1 DEF IsFile
  <1>7. h < f.rows /\ Total(s) <= f.cols
    <2>1. io[d][r0].writeLimit <= f.rows /\ io[d][r0].highwater <= f.cols
      BY <1>2 DEF WritingRow, Fits
    <2>2. Target(d) <= io[d][r0].writeLimit
      BY <1>2 DEF WritingRow, HeadFits
    <2>3. Total(s) <= io[d][r0].highwater
      BY <1>2, <1>3 DEF IsPartition
    <2>4. io[d][r0].writeLimit \in Nat /\ io[d][r0].highwater \in Nat /\ Total(s) \in Nat
      BY <1>1, <1>2, <1>3, Lengths, SumsApart DEF Object
    <2>5. h < f.rows
      <3>1. \A t, l, w, x \in Nat : w < t /\ t <= l /\ l <= x => w < x
        OBVIOUS
      <3>2. h \in Nat /\ Target(d) \in Nat /\ h < Target(d)
        BY <1>3
      <3> QED BY ONLY <1>6, <2>1, <2>2, <2>4, <3>1, <3>2
    <2>6. Total(s) <= f.cols
      <3>1. \A t, c, y \in Nat : t <= c /\ c <= y => t <= y
        OBVIOUS
      <3> QED BY ONLY <1>6, <2>1, <2>3, <2>4, <3>1
    <2> QED BY <2>5, <2>6
  <1>8. DOMAIN pieces \subseteq DOMAIN f.cell
    <2> SUFFICES ASSUME NEW x \in DOMAIN pieces PROVE x \in Within(f.rows, f.cols)
      BY <1>6
    <2>1. PICK r \in R : \E k \in 0 .. s[r] - 1 : x = <<h, Before(s, r) + k>>
      BY <1>5
    <2>2. PICK k \in 0 .. s[r] - 1 : x = <<h, Before(s, r) + k>>
      BY <2>1
    <2>3. Before(s, r) \in Nat /\ Before(s, r) + s[r] <= Total(s) /\ Total(s) \in Nat /\ s[r] \in Nat
      BY <1>2, <1>3, SumsApart
    <2>4. Before(s, r) + k \in 0 .. f.cols - 1
      <3> DEFINE b == Before(s, r)
                 t == Total(s)
                 c == f.cols
                 m == s[r]
      <3>1. b \in Nat /\ b + m <= t /\ t \in Nat /\ t <= c /\ c \in Nat /\ m \in Nat /\ k \in 0 .. m - 1
        BY <1>6, <1>7, <2>3
      <3> HIDE DEF b, t, c, m
      <3>2. b + k \in 0 .. c - 1
        BY <3>1
      <3> QED BY <3>2 DEF b, c
    <2>5. h \in 0 .. f.rows - 1
      BY <1>3, <1>6, <1>7
    <2> QED BY <2>2, <2>4, <2>5 DEF Within
  <1>9. g = [f EXCEPT !.cell = [p \in DOMAIN @ |-> IF p \in DOMAIN pieces THEN pieces[p] ELSE @[p]]]
    BY <1>8 DEF WrittenTo, pieces
  <1>10. /\ g.exists = f.exists /\ g.rows = f.rows /\ g.cols = f.cols
         /\ g.cell = [p \in DOMAIN f.cell |-> IF p \in DOMAIN pieces THEN pieces[p] ELSE f.cell[p]]
         /\ g = [exists |-> g.exists, rows |-> g.rows, cols |-> g.cols, cell |-> g.cell]
    <2>1. f = [exists |-> f.exists, rows |-> f.rows, cols |-> f.cols, cell |-> f.cell]
      BY <1>1 DEF IsFile
    <2> DEFINE c == [p \in DOMAIN f.cell |-> IF p \in DOMAIN pieces THEN pieces[p] ELSE f.cell[p]]
    <2>2. g = [f EXCEPT !.cell = c]
      BY <1>9
    <2> HIDE DEF c, f
    <2>3. g = [exists |-> f.exists, rows |-> f.rows, cols |-> f.cols, cell |-> c]
      BY <2>1, <2>2
    <2>4. /\ g.exists = f.exists /\ g.rows = f.rows /\ g.cols = f.cols /\ g.cell = c
      BY <2>3
    <2> QED BY <2>3, <2>4 DEF c
  <1>11. DOMAIN g.cell = DOMAIN f.cell
    BY <1>10
  <1>12. IsFile(g)
    <2>1. g.exists \in BOOLEAN
      BY <1>1, <1>10 DEF IsFile
    <2> QED BY <1>6, <1>10, <1>11, <2>1 DEF IsFile
  <1>13. ASSUME NEW x \in DOMAIN f.cell, x[1] # h PROVE g.cell[x] = f.cell[x]
    <2>1. x \notin DOMAIN pieces
      BY <1>5, <1>13
    <2> QED BY <1>10, <2>1
  <1>14. ASSUME NEW r \in R, NEW k \in 0 .. s[r] - 1
         PROVE  /\ <<h, Before(s, r) + k>> \in DOMAIN g.cell
                /\ g.cell[<<h, Before(s, r) + k>>] = <<starts, n, r, k + 1>>
    <2> DEFINE x == <<h, Before(s, r) + k>>
    <2>1. x \in DOMAIN pieces /\ pieces[x] = <<starts, n, r, k + 1>>
      BY <1>5
    <2> HIDE DEF x
    <2>2. x \in DOMAIN g.cell /\ g.cell[x] = pieces[x]
      BY <1>8, <1>10, <2>1
    <2> QED BY Zenon, <2>1, <2>2 DEF x
  <1>15. ASSUME NEW x \in DOMAIN f.cell
         PROVE  g.cell[x] = f.cell[x] \/ (g.cell[x][1] = starts /\ x[2] < Total(s))
    <2>1. CASE x \notin DOMAIN pieces
      BY <1>10, <2>1
    <2>2. CASE x \in DOMAIN pieces
      <3>1. PICK r \in R : \E k \in 0 .. s[r] - 1 : x = <<h, Before(s, r) + k>>
        BY <1>5, <2>2
      <3>2. PICK k \in 0 .. s[r] - 1 : x = <<h, Before(s, r) + k>>
        BY <3>1
      <3>3. g.cell[x] = <<starts, n, r, k + 1>>
        BY Zenon, <1>14, <3>2
      <3>4. Before(s, r) \in Nat /\ Before(s, r) + s[r] <= Total(s) /\ Total(s) \in Nat /\ s[r] \in Nat
        BY <1>2, <1>3, SumsApart
      <3> DEFINE b == Before(s, r)
                 t == Total(s)
                 m == s[r]
      <3>5. x[2] = b + k /\ b \in Nat /\ t \in Nat /\ m \in Nat /\ b + m <= t /\ k \in 0 .. m - 1
        BY <3>2, <3>4
      <3> HIDE DEF b, t, m
      <3>6. x[2] < t
        BY <3>5
      <3>7. g.cell[x][1] = starts
        BY <3>3
      <3> QED BY <3>6, <3>7 DEF t
    <2> QED BY <2>1, <2>2
  <1> QED BY Zenon, <1>10, <1>11, <1>12, <1>13, <1>14, <1>15 DEF HoldsRow

\* A rank after its row: a member that has written it, or another after a barrier
LEMMA RowCall ==
    ASSUME TypeInv, NEW d \in Datasets, NEW r \in Ranks, ObjectInv(d, r), InRow(d, r),
           io[d][r].member \/ io[d][r].sizeChanged, NEW o \in Object, o.writeHead = io[d][r].writeHead + 1,
           o.dims = io[d][r].dims, o.dataBuffer = io[d][r].dataBuffer,
           o.bufferHead = io[d][r].bufferHead, o.counts = io[d][r].counts,
           o.writeLimit = io[d][r].writeLimit, o.highwater = io[d][r].highwater,
           o.globalCount = io[d][r].globalCount, o.offset = io[d][r].offset,
           o.sizeChanged = io[d][r].sizeChanged, o.member = io[d][r].member,
           NEW p, p = NextObject(o, run[r].row + 1), NEW call, call = NextCall(o, run[r].row + 1)
    PROVE  /\ p \in Object /\ p.dims = io[d][r].dims /\ p.dataBuffer = io[d][r].dataBuffer
           /\ p.writeLimit = io[d][r].writeLimit /\ p.highwater = io[d][r].highwater
           /\ p.globalCount = io[d][r].globalCount /\ p.offset = io[d][r].offset
           /\ p.member = io[d][r].member /\ p.writeHead = io[d][r].writeHead + 1
           /\ call = "written" => ~p.sizeChanged /\ p.counts = << >> /\ p.bufferHead = 0
           /\ call # "written" => /\ p.sizeChanged = io[d][r].sizeChanged
                                  /\ p.counts = io[d][r].counts
                                  /\ p.bufferHead = io[d][r].bufferHead
           /\ call \in {"written", "splitRow", "writeRow"}
           /\ call = "written" <=> run[r].row + 1 = Len(io[d][r].counts)
           /\ call = "splitRow" <=> run[r].row + 1 # Len(io[d][r].counts) /\ io[d][r].sizeChanged
  <1> DEFINE c == io[d][r]
             k == run[r].row + 1
  <1>1. c \in Object /\ k \in Nat /\ k <= Len(c.counts) /\ c.writeHead + 1 \in Nat
    <2>1. c \in Object /\ k \in 1 .. Len(c.counts) /\ Len(c.counts) \in Nat
      BY TheRow, Lengths
    <2>2. c.writeHead \in Nat
      BY <2>1 DEF Object
    <2> HIDE DEF c, k
    <2> QED BY <2>1, <2>2
  <1>2. p = NextObject(o, k) /\ call = NextCall(o, k)
    OBVIOUS
  <1>3. c.member \/ c.sizeChanged
    OBVIOUS
  <1> HIDE DEF c, k
  <1>4. /\ o \in Object /\ o.dims = c.dims /\ o.dataBuffer = c.dataBuffer
        /\ o.bufferHead = c.bufferHead /\ o.counts = c.counts /\ o.writeLimit = c.writeLimit
        /\ o.highwater = c.highwater /\ o.globalCount = c.globalCount /\ o.offset = c.offset
        /\ o.writeHead = c.writeHead + 1
    BY DEF c
  <1>5. o.sizeChanged = c.sizeChanged /\ o.member = c.member
    BY DEF c
  <1>6. /\ call \in {"written", "splitRow", "writeRow"}
        /\ call = "written" <=> k = Len(c.counts)
        /\ call = "splitRow" <=> k # Len(c.counts) /\ c.sizeChanged
    BY <1>2, <1>3, <1>4, <1>5 DEF NextCall
  <1>7. p \in Object
    BY <1>1, <1>2, <1>4, NextType
  <1>8. CASE call = "written"
    <2>4. o \in Object /\ k \in Nat /\ NextCall(o, k) = "written" /\ p = NextObject(o, k)
      BY <1>1, <1>2, <1>4, <1>8
    <2>1. /\ p.dims = o.dims /\ p.dataBuffer = o.dataBuffer /\ p.writeLimit = o.writeLimit
          /\ p.highwater = o.highwater /\ p.globalCount = o.globalCount
          /\ p.offset = o.offset /\ p.counts = << >> /\ p.bufferHead = 0
          /\ p.writeHead = o.writeHead + (Len(o.counts) - k)
      BY <2>4, NextWritten
    <2>2. ~p.sizeChanged /\ (p.member <=> o.member)
      BY <2>4, NextFlags
    <2>3. p.writeHead = c.writeHead + 1
      <3>1. Len(o.counts) = k
        BY <1>4, <1>6, <1>8
      <3>2. \A x, y \in Nat : x + (y - y) = x
        OBVIOUS
      <3> QED BY <1>1, <1>4, <2>1, <3>1, <3>2
    <2>5. p.member = c.member
      BY <1>1, <1>5, <1>7, <2>2 DEF Object
    <2> QED BY <1>4, <1>6, <1>7, <1>8, <2>1, <2>2, <2>3, <2>5 DEF c, k
  <1>9. CASE call # "written"
    <2>1. p = o
      BY <1>2, <1>9, NextWhere
    <2> QED BY <1>4, <1>5, <1>6, <1>7, <1>9, <2>1 DEF c, k
  <1> QED BY <1>8, <1>9

\* The rank has done with its row.
RowPassed(d, r) ==
    /\ io'[d][r] \in Object /\ io'[d][r].dims = io[d][r].dims
    /\ io'[d][r].dataBuffer = io[d][r].dataBuffer /\ io'[d][r].writeLimit = io[d][r].writeLimit
    /\ io'[d][r].highwater = io[d][r].highwater
    /\ io'[d][r].writeHead = io[d][r].writeHead + 1
    /\ run'[r].at = "written" =>
          ~io'[d][r].sizeChanged /\ io'[d][r].counts = << >> /\ io'[d][r].bufferHead = 0
    /\ run'[r].at # "written" =>
          /\ io'[d][r].sizeChanged = io[d][r].sizeChanged /\ io'[d][r].counts = io[d][r].counts
          /\ io'[d][r].bufferHead = io[d][r].bufferHead
    /\ run'[r].at \in {"written", "splitRow", "writeRow"}
    /\ run'[r].at = "written" <=> run[r].row + 1 = Len(io[d][r].counts)
    /\ run'[r].ds = d /\ run'[r].row = run[r].row + 1
    /\ run'[r].cursor = run[r].cursor + io[d][r].counts[run[r].row + 1]

LEMMA RowPassedObject ==
    ASSUME TypeInv, NEW d \in Datasets, NEW r \in Ranks, ObjectInv(d, r), InRow(d, r), RowInv(d, r),
           HeadFits(d), RowPassed(d, r), UNCHANGED <<log, base, starts>>
    PROVE  ObjectInv(d, r)'
  <1> DEFINE w == run[r].row
             N == Len(io[d][r].counts)
             h == io[d][r].writeHead
             n == h - base + 1
  <1>6. /\ w \in Nat /\ N \in Nat /\ h \in Nat /\ base \in Nat /\ Target(d) \in Nat
        /\ w + 1 \in 1 .. N /\ n \in 1 .. Len(log[d]) /\ h < Target(d)
        /\ h + 1 = Target(d) - (N - (w + 1))
    <2>1. w + 1 \in 1 .. N /\ n \in 1 .. Len(log[d]) /\ h < Target(d)
      BY TheRow
    <2>2. w \in Nat /\ N \in Nat /\ h \in Nat /\ base \in Nat /\ Target(d) \in Nat
      BY Lengths, HeadWithin
    <2>3. h + 1 = Target(d) - (N - (w + 1))
      BY TheRow
    <2> QED BY <2>1, <2>2, <2>3
  <1>7. Total(log[d][n]) <= io[d][r].highwater
    BY DEF RowInv, IsPartition
  <1>10. h + 1 - base = n /\ h - base = n - 1 /\ h + 1 <= Target(d) /\ n \in Nat
    <2> HIDE DEF h
    <2>1. n = h - base + 1 /\ n \in Nat
      BY <1>6
    <2> HIDE DEF n
    <2> QED BY <1>6, <2>1
  <1>15. /\ io'[d][r].writeHead = h + 1 /\ run'[r].row = w + 1
         /\ run'[r].at = "written" <=> w + 1 = N
         /\ io'[d][r].highwater = io[d][r].highwater
    BY DEF RowPassed
  <1>16. /\ io'[d][r] \in Object /\ io'[d][r].dims = io[d][r].dims
         /\ io'[d][r].dataBuffer = io[d][r].dataBuffer
         /\ run'[r].at = "written" =>
               ~io'[d][r].sizeChanged /\ io'[d][r].counts = << >> /\ io'[d][r].bufferHead = 0
         /\ run'[r].at # "written" =>
               /\ io'[d][r].counts = io[d][r].counts /\ io'[d][r].bufferHead = io[d][r].bufferHead
               /\ ~io'[d][r].sizeChanged => ~io[d][r].sizeChanged
    BY DEF RowPassed
  <1>17. log'[d] = log[d] /\ UNCHANGED <<base, starts>>
    OBVIOUS
  <1>18. /\ io'[d][r].writeHead > base => io'[d][r].writeHead <= io'[d][r].writeLimit
         /\ \A m \in 1 .. io'[d][r].writeHead - base : Total(log[d][m]) <= io'[d][r].highwater
    <2>1. io'[d][r].writeHead <= io'[d][r].writeLimit
      <3>1. Target(d) <= io[d][r].writeLimit /\ io[d][r].writeLimit \in Nat
        BY Lengths DEF HeadFits, Object
      <3>2. io'[d][r].writeHead = h + 1 /\ io'[d][r].writeLimit = io[d][r].writeLimit
        BY DEF RowPassed
      <3> HIDE DEF h
      <3>3. \A a, t, l \in Nat : a + 1 <= t /\ t <= l => a + 1 <= l
        OBVIOUS
      <3> QED BY <1>6, <1>10, <3>1, <3>2, <3>3
    <2>2. ASSUME NEW m \in 1 .. io'[d][r].writeHead - base
          PROVE  Total(log[d][m]) <= io'[d][r].highwater
      <3> HIDE DEF h, n
      <3>1. m \in 1 .. n /\ n \in Nat
        <4>1. m \in 1 .. n
          BY <1>6, <1>10, <1>15
        <4> QED BY <1>10, <4>1
      <3>2. CASE m = n
        BY <1>7, <1>15, <3>2
      <3>3. CASE m # n
        <4>1. m \in 1 .. n - 1
          BY <3>1, <3>3
        <4>2. m \in 1 .. io[d][r].writeHead - base
          BY <1>10, <4>1 DEF h
        <4> QED BY <1>15, <4>2 DEF ObjectInv
      <3> QED BY <3>2, <3>3
    <2> QED BY <2>1, <2>2
  <1>19. CASE run'[r].at = "written"
    <2>1. ~InRow(d, r)' /\ ~Early(d, r)'
      BY <1>19 DEF InRow, Early, RowCalls, EarlyCalls
    <2>2. io'[d][r].writeHead = Target(d)
      <3>1. w + 1 = N /\ io'[d][r].writeHead = h + 1
        BY <1>15, <1>19
      <3> HIDE DEF w, N, h
      <3>2. \A t, a \in Nat : t - (a - a) = t
        OBVIOUS
      <3> QED BY <1>6, <3>1, <3>2
    <2> QED BY <1>16, <1>17, <1>18, <1>19, <2>1, <2>2, DoneObject
  <1>20. CASE run'[r].at # "written"
    <2>2. InRow(d, r)' /\ ~Early(d, r)' /\ ~Written(d, r)' /\ w + 1 # N
      BY <1>15, <1>20 DEF RowPassed, InRow, Early, Written, RowCalls, EarlyCalls
    <2>3. io'[d][r].writeHead = Target(d) - Rest(d, r)'
      <3>1. Rest(d, r)' = Len(io'[d][r].counts) - run'[r].row
        BY <2>2 DEF Rest
      <3>2. Rest(d, r)' = N - (w + 1)
        BY <1>15, <1>16, <1>20, <3>1
      <3> QED BY <1>6, <1>15, <3>2
    <2>4. run'[r].row < Len(io[d][r].counts)
      <3> HIDE DEF w
      <3>1. w + 1 < N
        <4> HIDE DEF N
        <4> QED BY <1>6, <2>2
      <3> QED BY <1>15, <3>1
    <2>5. /\ run'[r].row = run[r].row + 1
          /\ run'[r].cursor = run[r].cursor + io[d][r].counts[run[r].row + 1]
      BY DEF RowPassed
    <2> QED BY <1>16, <1>17, <1>18, <1>20, <2>2, <2>3, <2>4, <2>5, StillObject
  <1> QED BY <1>19, <1>20

LEMMA WriteRowHInv == ASSUME HInv, NEW d \in Datasets, WriteRow(d) PROVE HInv'
  <1> DEFINE R == Subcomm(d)
  <1>1. PICK r0 \in R : TRUE
    BY DEF WriteRow
  <1>2. /\ TypeInv /\ AgreeInv(d) /\ WritingRow(d) /\ Writing(d)
        /\ \A r \in R : run[r].ds = d /\ run[r].at = "writeRow"
    <2>1. run[r0].ds = d /\ run[r0].at = "writeRow"
      BY DEF WriteRow, At
    <2>2. Writing(d) /\ WritingRow(d)
      BY <2>1, WriteRowPhase
    <2> QED BY <2>2 DEF HInv, WriteRow, At
  <1> DEFINE w == run[r0].row
             N == Len(io[d][r0].counts)
             h == io[d][r0].writeHead
             n == h - base + 1
             s == log[d][n]
  <1>3. ASSUME NEW r \in R
        PROVE  /\ r \in Ranks /\ ObjectInv(d, r) /\ RowsIn(d, r) /\ InRow(d, r) /\ ~Written(d, r)
               /\ run[r].row = w /\ Len(io[d][r].counts) = N /\ io[d][r].writeHead = h
               /\ io[d][r].member
    BY <1>2, OneRow DEF Subcomm
  <1>4. ASSUME NEW r \in R
        PROVE  io[d][r].sizeChanged <=> io[d][r0].sizeChanged
    BY <1>2, OneRow
  <1>5. r0 \in Ranks /\ ObjectInv(d, r0) /\ InRow(d, r0)
    BY <1>3
  <1>6. /\ w \in Nat /\ N \in Nat /\ h \in Nat /\ base \in Nat /\ Target(d) \in Nat /\ Len(log[d]) \in Nat
        /\ w + 1 \in 1 .. N /\ n \in 1 .. Len(log[d]) /\ h < Target(d)
    <2>1. w + 1 \in 1 .. N /\ n \in 1 .. Len(log[d]) /\ h < Target(d)
      BY <1>2, <1>5, TheRow
    <2>2. w \in Nat /\ N \in Nat /\ h \in Nat /\ base \in Nat /\ Target(d) \in Nat /\ Len(log[d]) \in Nat
      BY <1>2, <1>5, Lengths, HeadWithin
    <2> QED BY <2>1, <2>2
  <1>7. /\ w + 1 = N <=> n = Len(log[d])
        /\ h + 1 = Target(d) - (N - (w + 1))
    BY <1>2, <1>5, TheRow
  <1>8. s \in [Ranks -> Nat]
    BY <1>2, <1>6, <1>5, Lengths
  <1>9. IsPartition(d, s)
    <2>1. RowInv(d, r0)
      BY <1>2 DEF WritingRow
    <2> QED BY <2>1 DEF RowInv
  <1>10. /\ h + 1 - base = n /\ h - base = n - 1 /\ h = base + n - 1 /\ h + 1 > base
         /\ h + 1 <= Target(d)
    <2> HIDE DEF h
    <2>1. n = h - base + 1
      OBVIOUS
    <2>2. n >= 1
      BY <1>6
    <2> HIDE DEF n
    <2> QED BY SMTT(40), <1>6, <2>1, <2>2
  <1>11. n = Target(d) - base => n = Len(log[d])
    <2> HIDE DEF n
    <2> QED BY <1>6 DEF Target
  <1>12. /\ io' = [e \in Datasets |-> io'[e]] /\ \A e \in Datasets : e # d => io'[e] = io[e]
         /\ io'[d] = [r \in Ranks |-> IF r \in R
                THEN NextObject([io[d][r] EXCEPT !.writeHead = @ + 1], run[r].row + 1) ELSE io[d][r]]
         /\ run' = [r \in Ranks |-> IF r \notin R THEN run[r]
                ELSE [Advanced([io[d][r] EXCEPT !.writeHead = @ + 1], run[r]) EXCEPT
                        !.row = run[r].row + 1,
                        !.at = NextCall([io[d][r] EXCEPT !.writeHead = @ + 1], run[r].row + 1)]]
         /\ UNCHANGED <<recordCount, saved, closing, log, base, starts>>
    BY <1>2 DEF WriteRow, TypeInv
  <1>13. /\ file' = [e \in Datasets |-> file'[e]] /\ \A e \in Datasets : e # d => file'[e] = file[e]
         /\ file'[d] = WrittenTo(file[d], RowPieces(d, R))
    BY <1>2 DEF WriteRow, TypeInv
  <1>14. ASSUME NEW r \in Ranks, r \notin R
         PROVE  io'[d][r] = io[d][r] /\ run'[r] = run[r]
    BY <1>12, <1>14
  <1>15. ASSUME NEW r \in R
         PROVE  /\ io'[d][r] \in Object /\ io'[d][r].dims = io[d][r].dims
                /\ io'[d][r].dataBuffer = io[d][r].dataBuffer
                /\ io'[d][r].writeLimit = io[d][r].writeLimit
                /\ io'[d][r].highwater = io[d][r].highwater
                /\ io'[d][r].globalCount = io[d][r].globalCount
                /\ io'[d][r].offset = io[d][r].offset
                /\ io'[d][r].member = io[d][r].member /\ io'[d][r].writeHead = h + 1
                /\ run'[r].at = "written" =>
                      ~io'[d][r].sizeChanged /\ io'[d][r].counts = << >> /\ io'[d][r].bufferHead = 0
                /\ run'[r].at # "written" =>
                      /\ io'[d][r].sizeChanged = io[d][r].sizeChanged
                      /\ io'[d][r].counts = io[d][r].counts
                      /\ io'[d][r].bufferHead = io[d][r].bufferHead
                /\ run'[r].at \in {"written", "splitRow", "writeRow"}
                /\ run'[r].at = "written" <=> w + 1 = N
                /\ run'[r].at = "splitRow" <=> w + 1 # N /\ io[d][r0].sizeChanged
                /\ run'[r].ds = d /\ run'[r].row = w + 1
                /\ run'[r].cursor = run[r].cursor + io[d][r].counts[w + 1]
                /\ run'[r] \in [at : Calls, ds : Datasets, row : Nat, cursor : Nat]
    <2> DEFINE o == [io[d][r] EXCEPT !.writeHead = @ + 1]
               p == io'[d][r]
               k == run[r].row + 1
               call == NextCall(o, k)
    <2>1. p = NextObject(o, run[r].row + 1)
      BY Zenon, <1>3, <1>12
    <2>2. /\ call = NextCall(o, run[r].row + 1) /\ o \in Object
          /\ o.dims = io[d][r].dims /\ o.dataBuffer = io[d][r].dataBuffer
          /\ o.bufferHead = io[d][r].bufferHead /\ o.counts = io[d][r].counts
          /\ o.writeLimit = io[d][r].writeLimit /\ o.highwater = io[d][r].highwater
          /\ o.globalCount = io[d][r].globalCount /\ o.offset = io[d][r].offset
          /\ o.sizeChanged = io[d][r].sizeChanged /\ o.member = io[d][r].member
          /\ o.writeHead = io[d][r].writeHead + 1
      <3> DEFINE c == io[d][r]
      <3>1. c \in Object /\ o = [c EXCEPT !.writeHead = @ + 1]
        BY <1>2, <1>3, Lengths
      <3>2. c.writeHead + 1 \in Nat
        BY SMTT(40), <3>1 DEF Object
      <3> HIDE DEF c, o
      <3>3. /\ o \in Object
            /\ o.dims = c.dims /\ o.dataBuffer = c.dataBuffer
            /\ o.bufferHead = c.bufferHead /\ o.counts = c.counts
            /\ o.writeLimit = c.writeLimit /\ o.highwater = c.highwater
            /\ o.globalCount = c.globalCount /\ o.offset = c.offset
            /\ o.sizeChanged = c.sizeChanged /\ o.member = c.member
            /\ o.writeHead = c.writeHead + 1
        BY <3>1, <3>2 DEF Object
      <3> QED BY <3>3 DEF c
    <2>3. /\ run[r] \in [at : Calls, ds : Datasets, row : Nat, cursor : Nat]
          /\ run'[r] = [Advanced(o, run[r]) EXCEPT !.row = k, !.at = call]
          /\ o.counts = io[d][r].counts /\ k = w + 1
      <3>1. io[d][r] \in Object /\ run[r] \in [at : Calls, ds : Datasets, row : Nat, cursor : Nat]
        BY <1>2, <1>3, Lengths DEF TypeInv
      <3>2. o.counts = io[d][r].counts
        BY <3>1 DEF Object
      <3>3. run'[r] = [Advanced(o, run[r]) EXCEPT !.row = k, !.at = call]
        BY <1>3, <1>12
      <3>4. k = w + 1
        BY <1>3
      <3> QED BY <3>1, <3>2, <3>3, <3>4
    <2>4. io[d][r].counts[w + 1] \in Nat
      BY <1>2, <1>3, <1>6, Lengths
    <2> HIDE DEF p, o, call
    <2>5. /\ p \in Object /\ p.dims = io[d][r].dims /\ p.dataBuffer = io[d][r].dataBuffer
          /\ p.writeLimit = io[d][r].writeLimit /\ p.highwater = io[d][r].highwater
          /\ p.globalCount = io[d][r].globalCount /\ p.offset = io[d][r].offset
          /\ p.member = io[d][r].member /\ p.writeHead = io[d][r].writeHead + 1
      BY <1>2, <1>3, <2>1, <2>2, RowCall
    <2>6. /\ call = "written" => ~p.sizeChanged /\ p.counts = << >> /\ p.bufferHead = 0
          /\ call # "written" => /\ p.sizeChanged = io[d][r].sizeChanged
                                 /\ p.counts = io[d][r].counts
                                 /\ p.bufferHead = io[d][r].bufferHead
      BY <1>2, <1>3, <2>1, <2>2, RowCall
    <2>7. /\ call \in {"written", "splitRow", "writeRow"}
          /\ call = "written" <=> run[r].row + 1 = Len(io[d][r].counts)
          /\ call = "splitRow" <=> run[r].row + 1 # Len(io[d][r].counts) /\ io[d][r].sizeChanged
      BY <1>2, <1>3, <2>1, <2>2, RowCall
    <2>8. call \in Calls /\ k \in Nat
      BY <1>6, <2>3, <2>7 DEF Calls, WriteCalls, RowCalls
    <2>9. /\ run'[r].at = call /\ run'[r].ds = run[r].ds /\ run'[r].row = k
          /\ run'[r].cursor = run[r].cursor + io[d][r].counts[w + 1]
          /\ run'[r] \in [at : Calls, ds : Datasets, row : Nat, cursor : Nat]
      <3> DEFINE j == run[r]
                 m == io[d][r].counts[w + 1]
      <3>1. /\ j \in [at : Calls, ds : Datasets, row : Nat, cursor : Nat]
            /\ run'[r] = [[j EXCEPT !.cursor = @ + m] EXCEPT !.row = k, !.at = call]
            /\ m \in Nat /\ call \in Calls /\ k \in Nat
        BY <2>3, <2>4, <2>8 DEF Advanced
      <3> HIDE DEF j, m, k
      <3>2. j.cursor + m \in Nat
        BY <3>1
      <3>3. /\ run'[r].at = call /\ run'[r].ds = j.ds /\ run'[r].row = k
            /\ run'[r].cursor = j.cursor + m
            /\ run'[r] \in [at : Calls, ds : Datasets, row : Nat, cursor : Nat]
        BY <3>1, <3>2
      <3> QED BY <3>3 DEF j, m
    <2>10. /\ call = "written" <=> w + 1 = N
           /\ call = "splitRow" <=> w + 1 # N /\ io[d][r0].sizeChanged
      BY <1>3, <1>4, <2>7
    <2> QED BY <1>2, <1>3, <2>3, <2>5, <2>6, <2>7, <2>9, <2>10 DEF p
  <1>16. /\ IsFile(file'[d]) /\ file'[d].rows = file[d].rows /\ file'[d].cols = file[d].cols
         /\ DOMAIN file'[d].cell = DOMAIN file[d].cell
         /\ \A x \in DOMAIN file[d].cell : x[1] # h => file'[d].cell[x] = file[d].cell[x]
         /\ \A r \in R : \A k \in 0 .. s[r] - 1 :
               /\ <<h, Before(s, r) + k>> \in DOMAIN file'[d].cell
               /\ file'[d].cell[<<h, Before(s, r) + k>>] = <<starts, n, r, k + 1>>
    <2> DEFINE g == file'[d]
    <2>1. h = io[d][r0].writeHead /\ n = h - base + 1 /\ s = log[d][n]
      OBVIOUS
    <2>2. g = WrittenTo(file[d], RowPieces(d, Subcomm(d)))
      BY <1>13
    <2> HIDE DEF h, n, s, g
    <2> HIDE DEF R
    <2>4. r0 \in Subcomm(d)
      BY DEF R
    <2>3. HoldsRow(g, d, h, n, s)
      BY <1>2, <2>1, <2>2, <2>4, WrittenFile
    <2> QED BY <2>3 DEF g, R, HoldsRow
  <1> HIDE DEF w, N, h, n, s
  <1>17. TypeInv'
    <2>1. ASSUME NEW r \in Ranks PROVE io'[d][r] \in Object
      BY <1>2, <1>14, <1>15, Lengths
    <2>2. io'[d] \in [Ranks -> Object]
      BY <1>12, <2>1
    <2>3. \A e \in Datasets : io'[e] \in [Ranks -> Object]
      BY <1>2, <1>12, <2>2 DEF TypeInv
    <2>4. io' \in [Datasets -> [Ranks -> Object]]
      BY <1>12, <2>3
    <2>5. ASSUME NEW r \in Ranks
          PROVE  run'[r] \in [at : Calls, ds : Datasets, row : Nat, cursor : Nat]
      BY <1>2, <1>14, <1>15 DEF TypeInv
    <2>6. run' \in [Ranks -> [at : Calls, ds : Datasets, row : Nat, cursor : Nat]]
      BY <1>12, <2>5
    <2>7. \A e \in Datasets : IsFile(file'[e])
      BY <1>2, <1>13, <1>16 DEF TypeInv
    <2>8. IsFile(file[d])' <=> IsFile(file'[d])
      BY DEF IsFile
    <2>9. \A e \in Datasets : IsFile(file[e])'
      BY <2>7 DEF IsFile
    <2> QED BY <1>2, <1>12, <1>13, <2>4, <2>6, <2>9 DEF TypeInv
  <1>19. ASSUME NEW r \in Ranks PROVE ObjectInv(d, r)'
    <2>1. CASE r \notin R
      <3>1. io'[d][r] = io[d][r] /\ run'[r] = run[r] /\ ObjectInv(d, r)
        BY <1>14, <2>1 DEF HInv
      <3>2. /\ InRow(d, r)' <=> InRow(d, r)
            /\ Early(d, r)' <=> Early(d, r)
            /\ Written(d, r)' <=> Written(d, r)
        BY <3>1 DEF InRow, Early, Written
      <3>3. Early(d, r)' => run'[r].row = 0 /\ run'[r].cursor = 0
        BY <3>1, <3>2 DEF ObjectInv
      <3>4. Written(d, r)' => io[d][r].counts = << >> /\ ~io[d][r].sizeChanged
        BY <3>1, <3>2 DEF ObjectInv
      <3>5. InRow(d, r) => run'[r].row = run[r].row /\ run'[r].cursor = run[r].cursor
        BY <3>1
      <3>6. log'[d] = log[d] /\ UNCHANGED <<base, starts>>
        BY <1>12
      <3> QED BY <3>1, <3>2, <3>3, <3>4, <3>5, <3>6, KeptObject
    <2>2. CASE r \in R
      <3>1. RowPassed(d, r)
        BY <1>3, <1>4, <1>15, <2>2 DEF RowPassed
      <3>2. RowInv(d, r) /\ HeadFits(d)
        BY <1>2, <2>2 DEF WritingRow
      <3>3. UNCHANGED <<log, base, starts>>
        BY <1>12
      <3> QED BY <1>2, <1>3, <2>2, <3>1, <3>2, <3>3, RowPassedObject
    <2> QED BY <2>1, <2>2
  <1>20. ASSUME NEW r \in Ranks PROVE RowsIn(d, r)'
    <2> SUFFICES ASSUME NEW m \in 1 .. io'[d][r].writeHead - base, NEW k \in 1 .. log[d][m][r]
                 PROVE  LET p == <<base + m - 1, Before(log[d][m], r) + k - 1>>
                        IN  p \in DOMAIN file'[d].cell /\ file'[d].cell[p] = <<starts, m, r, k>>
      BY Zenon, <1>12 DEF RowsIn
    <2> DEFINE p == <<base + m - 1, Before(log[d][m], r) + k - 1>>
    <2>1. RowsIn(d, r) /\ ObjectInv(d, r)
      BY DEF HInv
    <2>2. CASE m = n /\ r \in R
      <3>1. s = log[d][m] /\ s[r] \in Nat /\ Before(s, r) \in Nat
        BY <1>8, <2>2, SumsApart DEF s
      <3>2. k \in 1 .. s[r]
        BY <3>1
      <3> DEFINE b == Before(s, r)
      <3>3. k - 1 \in 0 .. s[r] - 1 /\ b + (k - 1) = b + k - 1 /\ (k - 1) + 1 = k
        BY <3>1, <3>2
      <3>4. /\ <<h, Before(s, r) + (k - 1)>> \in DOMAIN file'[d].cell
            /\ file'[d].cell[<<h, Before(s, r) + (k - 1)>>] = <<starts, n, r, (k - 1) + 1>>
        BY <1>16, <2>2, <3>3
      <3>5. p = <<h, Before(s, r) + (k - 1)>>
        BY <1>10, <2>2, <3>1, <3>3
      <3> QED BY <2>2, <3>3, <3>4, <3>5
    <2>3. CASE ~(m = n /\ r \in R)
      <3>1. m \in 1 .. io[d][r].writeHead - base /\ m # n
        <4>1. CASE r \in R
          <5>1. m \in 1 .. n /\ m # n
            <6>1. io'[d][r].writeHead = h + 1
              BY <1>15, <4>1
            <6> QED BY <1>6, <1>10, <2>3, <4>1, <6>1
          <5>2. m \in 1 .. n - 1
            BY <1>6, <5>1
          <5> QED BY <1>3, <1>10, <4>1, <5>1, <5>2
        <4>2. CASE r \notin R
          <5>1. m \in 1 .. io[d][r].writeHead - base
            BY <1>14, <4>2
          <5>2. m # n
            <6> SUFFICES ASSUME m = n PROVE FALSE
              OBVIOUS
            <6>1. ~io[d][r].member
              BY <4>2 DEF Subcomm
            <6>2. ~(s[r] > 0) /\ s[r] \in Nat /\ s = log[d][m]
              BY <1>8, <1>9, <6>1 DEF IsPartition, s
            <6> QED BY <6>2
          <5> QED BY <5>1, <5>2
        <4> QED BY <4>1, <4>2
      <3>2. p \in DOMAIN file[d].cell /\ file[d].cell[p] = <<starts, m, r, k>>
        BY <2>1, <3>1 DEF RowsIn
      <3>3. p[1] # h
        <4>1. \A b, x, y \in Int : b + x - 1 = b + y - 1 => x = y
          OBVIOUS
        <4>2. p[1] = base + m - 1 /\ m \in Int /\ n \in Int /\ base \in Int
          BY <1>6
        <4> QED BY <1>10, <3>1, <4>1, <4>2
      <3> QED BY <1>16, <3>2, <3>3
    <2> QED BY <2>2, <2>3
  <1>21. ASSUME NEW r \in Ranks
         PROVE  /\ io'[d][r].writeLimit = io[d][r].writeLimit
                /\ io'[d][r].highwater = io[d][r].highwater
                /\ io'[d][r].globalCount = io[d][r].globalCount
                /\ io'[d][r].offset = io[d][r].offset /\ io'[d][r].dims = io[d][r].dims
                /\ io'[d][r].member = io[d][r].member
                /\ ~Written(d, r)' => ~Written(d, r) /\ io'[d][r].counts = io[d][r].counts
    <2>1. CASE r \in R
      BY <1>3, <1>15, <2>1 DEF Written
    <2>2. CASE r \notin R
      BY <1>14, <2>2 DEF Written
    <2> QED BY <2>1, <2>2
  <1>22. AgreeInv(d)'
    <2>1. ASSUME NEW q \in Ranks, NEW r \in Ranks
          PROVE  /\ io'[d][q].writeLimit = io'[d][r].writeLimit
                 /\ io'[d][q].highwater = io'[d][r].highwater
                 /\ io'[d][q].globalCount = io'[d][r].globalCount
      BY <1>2, <1>21 DEF AgreeInv
    <2>2. ASSUME NEW q \in Ranks, io'[d][q].globalCount # 0 PROVE \E m \in Ranks : io'[d][m].member
      <3>1. PICK m \in Ranks : io[d][m].member
        BY <1>2, <1>21, <2>2 DEF AgreeInv
      <3> QED BY <1>21, <3>1
    <2>3. ASSUME NEW q \in Ranks, NEW r \in Ranks, ~Written(d, q)', ~Written(d, r)'
          PROVE  Len(io'[d][q].counts) = Len(io'[d][r].counts)
      <3>1. Len(io[d][q].counts) = Len(io[d][r].counts)
        BY <1>2, <1>21, <2>3 DEF AgreeInv
      <3>2. io'[d][q].counts = io[d][q].counts /\ io'[d][r].counts = io[d][r].counts
        BY <1>21, <2>3
      <3> QED BY <3>1, <3>2
    <2> QED BY <2>1, <2>2, <2>3 DEF AgreeInv
  <1>23. /\ recordCount' = Target(1)'
         /\ \A e \in Datasets : e # d => Ready(e)'
         /\ \A e \in Datasets : e < d => Flushed(e)'
    <2>1. recordCount' = Target(1)'
      BY <1>2, <1>12 DEF Writing, Target
    <2>2. ASSUME NEW e \in Datasets, e # d PROVE Ready(e)' /\ (e < d => Flushed(e)')
      <3>1. Ready(e) /\ (e < d => Flushed(e))
        BY <1>2, <2>2 DEF Writing
      <3>2. io'[e] = io[e] /\ file'[e] = file[e] /\ log'[e] = log[e] /\ UNCHANGED <<base, starts>>
        BY <1>12, <1>13, <2>2
      <3> QED BY <3>1, <3>2, KeptDataset
    <2>3. \A e \in Datasets : e < d => e # d
      BY TheRanks
    <2> QED BY <2>1, <2>2, <2>3
  <1>24. /\ Fits(d)' /\ HeadFits(d)' /\ Subcomm(d)' = Subcomm(d) /\ Dims(d)' = Dims(d)
         /\ \A x : IsPartition(d, x) => IsPartition(d, x)'
    <2>1. Fits(d) /\ HeadFits(d)
      BY <1>2 DEF WritingRow
    <2>2. Fits(d)'
      BY <1>16, <1>21, <2>1 DEF Fits
    <2>3. HeadFits(d)'
      BY Zenon, <1>12, <1>21, <2>1 DEF HeadFits, Target
    <2>4. Subcomm(d)' = Subcomm(d)
      BY <1>21 DEF Subcomm
    <2>5. Dims(d)' = Dims(d)
      BY <1>21 DEF Dims
    <2>6. \A x : IsPartition(d, x) => IsPartition(d, x)'
      BY <1>21 DEF IsPartition
    <2> QED BY <2>2, <2>3, <2>4, <2>5, <2>6
  <1>25. ASSUME NEW q \in Ranks, q \notin R
         PROVE  /\ run'[q].ds = d
                /\ IF io[d][r0].sizeChanged /\ w + 1 < N
                   THEN run'[q].at = "splitRow" /\ run'[q].row = w + 1 /\ io'[d][q].sizeChanged
                   ELSE run'[q].at = "written"
    <2>1. /\ run[q].ds = d
          /\ IF io[d][r0].sizeChanged /\ w + 1 < N
             THEN run[q].at = "splitRow" /\ run[q].row = w + 1 /\ io[d][q].sizeChanged
             ELSE run[q].at = "written"
      BY <1>2, <1>25 DEF WritingRow, w, N
    <2> QED BY <1>14, <1>25, <2>1
  <1>26. w + 1 # N <=> w + 1 < N
    BY <1>6
  <1>27. Writing(d)'
    <2>1. CASE w + 1 = N
      <3>1. \A r \in Ranks : run'[r].at = "written" /\ run'[r].ds = d
        BY <1>15, <1>25, <1>26, <2>1
      <3>2. Dims(d) = s
        <4>1. n = Len(log[d])
          BY <1>7, <2>1
        <4>2. log[d] # << >>
          BY <1>6, <4>1
        <4>3. \A r \in Ranks : io[d][r].dims = s[r]
          BY <4>1, <4>2 DEF HInv, ObjectInv, s
        <4> QED BY <1>8, <4>3 DEF Dims
      <3>3. IsPartition(d, Dims(d))'
        BY <1>9, <1>24, <3>2 DEF IsPartition
      <3>4. All(d, "written")' /\ Ready(d)'
        BY <1>24, <3>1, <3>3 DEF All, Ready, Known
      <3> QED BY <1>23, <3>4 DEF Writing
    <2>2. CASE w + 1 # N /\ io[d][r0].sizeChanged
      <3>1. ASSUME NEW r \in Ranks
            PROVE  run'[r].at = "splitRow" /\ run'[r].ds = d /\ run'[r].row = w + 1 /\ io'[d][r].sizeChanged
        <4>1. CASE r \in R
          BY <1>4, <1>15, <2>2, <4>1
        <4>2. CASE r \notin R
          BY <1>25, <1>26, <2>2, <4>2
        <4> QED BY <4>1, <4>2
      <3>2. All(d, "splitRow")' /\ SameRow(d)' /\ Changed(d)'
        BY <3>1 DEF All, SameRow, Changed
      <3> QED BY <1>23, <1>24, <3>2 DEF Writing
    <2>3. CASE w + 1 # N /\ ~io[d][r0].sizeChanged
      <3>1. ASSUME NEW r \in R
            PROVE  /\ run'[r].ds = d /\ run'[r].at = "writeRow" /\ run'[r].row = w + 1
                   /\ ~io'[d][r].sizeChanged /\ io'[d][r].sizeChanged \in BOOLEAN
                   /\ io'[d][r].writeHead - base + 1 = n + 1 /\ r \in Ranks
        <4>1. run'[r].at = "writeRow" /\ ~io'[d][r].sizeChanged
          BY <1>4, <1>15, <2>3
        <4>2. io'[d][r].sizeChanged \in BOOLEAN
          BY <1>15 DEF Object
        <4>3. io'[d][r].writeHead - base = n
          <5>1. io'[d][r].writeHead = h + 1
            BY <1>15
          <5> QED BY <1>6, <1>10, <5>1
        <4> QED BY <1>3, <1>15, <4>1, <4>2, <4>3
      <3>2. ASSUME NEW m \in n .. Len(log[d]) PROVE IsPartition(d, log[d][m])'
        <4>1. IsPartition(d, log[d][m])
          BY <1>2, <2>3 DEF WritingRow, n, h
        <4> QED BY Zenon, <1>12, <1>21, <4>1 DEF IsPartition
      <3>3. n + 1 \in n .. Len(log[d]) /\ \A m \in n + 1 .. Len(log[d]) : m \in n .. Len(log[d])
        <4>1. n # Len(log[d])
          BY <1>7, <2>3
        <4> QED BY <1>6, <4>1
      <3>4. ASSUME NEW r \in R
            PROVE  /\ RowInv(d, r)'
                   /\ \A m \in io'[d][r].writeHead - base' + 1 .. Len(log'[d]) : IsPartition(d, log[d][m])'
        <4>1. io'[d][r].writeHead - base' + 1 = n + 1 /\ log'[d] = log[d]
          BY Zenon, <1>12, <3>1
        <4>2. PICK m \in n .. Len(log[d]) : m = n + 1
          BY <3>3
        <4>5. IsPartition(d, log[d][m])'
          BY <3>2
        <4>6. io'[d][r].writeHead - base' + 1 = m
          BY <4>1, <4>2
        <4>3. RowInv(d, r)'
          BY <4>5, <4>6 DEF RowInv, IsPartition
        <4> QED BY <3>2, <3>3, <4>1, <4>3
      <3>5. ASSUME NEW q \in R, NEW r \in R
            PROVE  run'[q].row = run'[r].row /\ io'[d][q].sizeChanged = io'[d][r].sizeChanged
        <4>1. run'[q].row = w + 1 /\ ~io'[d][q].sizeChanged /\ io'[d][q].sizeChanged \in BOOLEAN
          BY <3>1
        <4>2. run'[r].row = w + 1 /\ ~io'[d][r].sizeChanged /\ io'[d][r].sizeChanged \in BOOLEAN
          BY <3>1
        <4> QED BY <4>1, <4>2
      <3>6. ASSUME NEW r \in R, NEW q \in Ranks \ R
            PROVE  run'[q].ds = d /\ ~io'[d][r].sizeChanged /\ run'[q].at = "written"
        <4>1. ~io'[d][r].sizeChanged
          BY <3>1
        <4>2. run'[q].ds = d /\ run'[q].at = "written"
          BY <1>25, <2>3
        <4> QED BY <4>1, <4>2
      <3>7. R # {} /\ R = Subcomm(d)'
        BY <1>24
      <3>8. WritingRow(d)'
        <4>1. \A r \in Subcomm(d)' : run'[r].ds = d /\ run'[r].at = "writeRow" /\ RowInv(d, r)'
          BY <3>1, <3>4, <3>7
        <4>2. \A q, r \in Subcomm(d)' :
                  run'[q].row = run'[r].row /\ io'[d][q].sizeChanged = io'[d][r].sizeChanged
          BY <3>5, <3>7
        <4>3. \A r \in Subcomm(d)', q \in Ranks \ Subcomm(d)' :
                  run'[q].ds = d /\ ~io'[d][r].sizeChanged /\ run'[q].at = "written"
          BY <3>6, <3>7
        <4>4. \A r \in Subcomm(d)' :
                  \A m \in io'[d][r].writeHead - base' + 1 .. Len(log'[d]) : IsPartition(d, log[d][m])'
          BY <3>4, <3>7
        <4> QED BY <1>24, <3>7, <4>1, <4>2, <4>3, <4>4 DEF WritingRow
      <3> QED BY <1>23, <3>8 DEF Writing
    <2> QED BY <2>1, <2>2, <2>3
  <1>28. \A r \in Ranks : run[r].ds = d /\ run'[r].ds = d
    <2>1. \A r \in Ranks : run[r].ds = d
      BY <1>2, WhereWriting
    <2> QED BY <1>15, <1>25, <2>1
  <1> QED BY Zenon, <1>12, <1>13, <1>17, <1>19, <1>20, <1>22, <1>27, <1>28, StepInv

\* Where a rank goes from each barrier
LEMMA LeaveOf ==
    ASSUME NEW r
    PROVE  /\ run[r].at = "extended" => Leave(r) = [run[r] EXCEPT !.at = "registered"]
           /\ run[r].at = "registered" => Leave(r) = [run[r] EXCEPT !.at = "timed"]
           /\ run[r].at = "timed" => Leave(r) = NextDataset(run[r], "split", Here("idle", 1))
           /\ run[r].at = "written" => Leave(r) = NextDataset(run[r], "reduce",
                                          IF closing THEN Here("closed", 1) ELSE Here("idle", 1))
           /\ run[r].at = "closed" => Leave(r) = CompressCall(r, 1)
           /\ run[r].at = "compressed" => Leave(r) =
                 IF run[r].ds < DatasetCount THEN CompressCall(r, run[r].ds + 1) ELSE Here("idle", 1)
  BY Zenon DEF Leave

LEMMA LeaveRow ==
    ASSUME NEW r
    PROVE  /\ run[r].at = "grown" =>
                Leave(r) = [run[r] EXCEPT !.at = NextCall(io[run[r].ds][r], 0)]
           /\ run[r].at = "fitted" /\ io[run[r].ds][r].member =>
                Leave(r) = [run[r] EXCEPT !.at = "writeRow"]
           /\ run[r].at = "fitted" /\ ~io[run[r].ds][r].member =>
                Leave(r) = [run[r] EXCEPT !.row = @ + 1,
                               !.at = NextCall(Passed(io[run[r].ds][r]), run[r].row + 1)]
  BY DEF Leave

LEMMA LeftOf ==
    ASSUME NEW r, NEW o, o = io[run[r].ds][r]
    PROVE  /\ run[r].at \in InitBarriers \cup {"written", "closed"} => Left(r) = o
           /\ run[r].at = "grown" => Left(r) = NextObject(o, 0)
           /\ run[r].at = "fitted" /\ o.member => Left(r) = o
           /\ run[r].at = "fitted" /\ ~o.member => Left(r) = NextObject(Passed(o), run[r].row + 1)
           /\ run[r].at = "compressed" => Left(r) = [o EXCEPT !.writeLimit = o.writeHead]
  BY DEF Left, InitBarriers

LEMMA BarrierStep ==
    ASSUME HInv, Barrier
    PROVE  /\ \A r \in Ranks : run[r].at \in Barriers /\ run'[r] = Leave(r)
           /\ run' = [r \in Ranks |-> run'[r]]
           /\ io' = [d \in Datasets |-> io'[d]]
           /\ \A d \in Datasets : io'[d] = [r \in Ranks |-> io'[d][r]]
           /\ \A d \in Datasets : \A r \in Ranks :
                 io'[d][r] = IF run[r].ds = d THEN Left(r) ELSE io[d][r]
           /\ UNCHANGED <<file, recordCount, saved, closing, log, base, starts>>
  BY DEF Barrier

\* A barrier that only leads on
LEMMA OnlyLeads ==
    ASSUME HInv, Barrier, \A r \in Ranks : run[r].at \in InitBarriers \cup {"written", "closed"}
    PROVE  io' = io
  <1>1. TypeInv
    BY DEF HInv
  <1>2. ASSUME NEW d \in Datasets, NEW r \in Ranks PROVE io'[d][r] = io[d][r]
    <2>1. run[r].ds = d => Left(r) = io[d][r]
      BY LeftOf
    <2> QED BY <2>1, BarrierStep
  <1>3. ASSUME NEW d \in Datasets PROVE io'[d] = io[d]
    <2>1. io'[d] = [r \in Ranks |-> io'[d][r]] /\ io[d] = [r \in Ranks |-> io[d][r]]
      BY <1>1, BarrierStep DEF TypeInv
    <2> QED BY <1>2, <2>1
  <1>4. io' = [d \in Datasets |-> io'[d]] /\ io = [d \in Datasets |-> io[d]]
    BY <1>1, BarrierStep DEF TypeInv
  <1> QED BY <1>3, <1>4

LEMMA Moved ==
    ASSUME HInv, UNCHANGED <<io, file, recordCount, saved, closing, log, base, starts>>,
           run' = [r \in Ranks |-> run'[r]],
           \A r \in Ranks : run'[r] \in [at : Calls, ds : Datasets, row : Nat, cursor : Nat],
           \A r \in Ranks : run[r].at \notin RowCalls,
           \A r \in Ranks : run'[r].at \notin RowCalls /\ run'[r].at # "written",
           \A r \in Ranks : run'[r].at \in EarlyCalls => run'[r].row = 0 /\ run'[r].cursor = 0,
           \A e \in Datasets : Flushed(e) \/ \A r \in Ranks : ~Written(e, r)
    PROVE  /\ TypeInv'
           /\ \A e \in Datasets : AgreeInv(e)'
           /\ \A e \in Datasets, r \in Ranks : ObjectInv(e, r)' /\ RowsIn(e, r)'
  <1>1. TypeInv'
    BY DEF HInv, TypeInv, IsFile
  <1>2. ASSUME NEW e \in Datasets PROVE AgreeInv(e)'
    <2>1. AgreeInv(e) /\ io'[e] = io[e]
      BY DEF HInv
    <2> QED BY <2>1, KeptAgree
  <1>3. ASSUME NEW e \in Datasets, NEW r \in Ranks PROVE ObjectInv(e, r)' /\ RowsIn(e, r)'
    <2>1. ObjectInv(e, r) /\ io'[e][r] = io[e][r] /\ log'[e] = log[e] /\ UNCHANGED <<base, starts>>
      BY DEF HInv
    <2>2. ~InRow(e, r) /\ ~InRow(e, r)' /\ ~Written(e, r)'
      BY DEF InRow, Written
    <2>3. Early(e, r)' => run'[r].row = 0 /\ run'[r].cursor = 0
      BY DEF Early
    <2>4. ObjectInv(e, r)'
      BY <2>1, <2>2, <2>3, KeptObject
    <2>5. RowsIn(e, r)'
      BY DEF HInv, RowsIn
    <2> QED BY <2>4, <2>5
  <1> QED BY <1>1, <1>2, <1>3

\* A rank that begins something
LEMMA Begins ==
    ASSUME NEW r, NEW call \in Calls, NEW d \in Datasets, run'[r] = Here(call, d)
    PROVE  /\ run'[r].at = call /\ run'[r].ds = d /\ run'[r].row = 0 /\ run'[r].cursor = 0
           /\ run'[r] \in [at : Calls, ds : Datasets, row : Nat, cursor : Nat]
  BY DEF Here

LEMMA NoDatasetAfter ==
    ASSUME NEW d \in Datasets
    PROVE  /\ d < DatasetCount => d + 1 \in Datasets /\ d < d + 1
           /\ \A e \in Datasets : e < d + 1 => e < d \/ e = d
           /\ \A e \in Datasets : e > d + 1 => e > d
           /\ ~(d < DatasetCount) => d = DatasetCount /\ \A e \in Datasets : e < d \/ e = d
           /\ 1 \in Datasets
  BY DatasetCountAssumption DEF Datasets

LEMMA BarrierStarting == ASSUME HInv, NEW d \in Datasets, Starting(d), Barrier PROVE HInv'
  <1>1. \A r \in Ranks : run[r].ds = d /\ run[r].at \in InitBarriers
    BY BarrierStep, WhereStarting DEF Barriers, WriteBarriers, CloseBarriers, InitBarriers
  <1>2. /\ \A r \in Ranks : run'[r] = Leave(r)
        /\ run' = [r \in Ranks |-> run'[r]]
        /\ UNCHANGED <<file, recordCount, saved, closing, log, base, starts>>
    BY BarrierStep
  <1>3. io' = io
    BY <1>1, OnlyLeads
  <1>4. TypeInv /\ AgreeInv(d)
    BY DEF HInv
  <1>5. \E call \in {"extended", "registered", "timed"} : All(d, call)
    <2>1. ~All(d, "split")
      BY <1>1, TheRanks DEF All, InitBarriers
    <2>2. ~Together(d, Openers(io[d]), "open", "registered")
      <3>1. PICK r \in Ranks : r \in Openers(io[d])
        BY <1>4, OpenersRanks
      <3> QED BY <1>1, <3>1 DEF Together, InitBarriers
    <2> QED BY <2>1, <2>2 DEF Starting
  <1>6. /\ Ready(d) /\ \A e \in Datasets : e < d => Ready(e)
        /\ \A e \in Datasets : e > d => \A r \in Ranks : io[e][r].highwater = 0
        /\ \A e \in Datasets : log[e] = << >>
        /\ recordCount = base
    <2>1. PICK call \in {"extended", "registered", "timed"} : All(d, call)
      BY <1>5
    <2>2. Ready(d)
      <3>1. ~All(d, "split")
        BY <1>1, TheRanks DEF All, InitBarriers
      <3>2. ~Together(d, Openers(io[d]), "open", "registered")
        <4>1. PICK r \in Ranks : r \in Openers(io[d])
          BY <1>4, OpenersRanks
        <4> QED BY <1>1, <4>1 DEF Together, InitBarriers
      <3> QED BY <3>1, <3>2 DEF Starting
    <2> QED BY <2>2 DEF Starting
  <1>7. \A e \in Datasets : Ready(e) => Ready(e)'
    <2> SUFFICES ASSUME NEW e \in Datasets, Ready(e) PROVE Ready(e)'
      OBVIOUS
    <2>1. io'[e] = io[e] /\ file'[e] = file[e] /\ log'[e] = log[e] /\ UNCHANGED <<base, starts>>
      BY <1>2, <1>3
    <2> QED BY <2>1, KeptDataset
  <1>8. ASSUME NEW call \in {"registered", "timed", "split", "idle"}, NEW e \in Datasets,
               \A r \in Ranks : run'[r].at = call /\ run'[r].ds = e
                    /\ run'[r] \in [at : Calls, ds : Datasets, row : Nat, cursor : Nat]
        PROVE  /\ TypeInv' /\ \A c \in Datasets : AgreeInv(c)'
               /\ \A c \in Datasets, r \in Ranks : ObjectInv(c, r)' /\ RowsIn(c, r)'
    <2>1. \A r \in Ranks : run[r].at \notin RowCalls /\ run[r].at # "written"
      BY <1>1 DEF InitBarriers, RowCalls
    <2>2. \A r \in Ranks : run'[r].at \notin RowCalls /\ run'[r].at # "written" /\ run'[r].at \notin EarlyCalls
      BY <1>8 DEF RowCalls, EarlyCalls
    <2>3. \A c \in Datasets : \A r \in Ranks : ~Written(c, r)
      BY <2>1 DEF Written
    <2> QED BY <1>2, <1>3, <1>8, <2>1, <2>2, <2>3, Moved
  <1>9. ASSUME NEW call \in {"registered", "timed"},
               \A r \in Ranks : Leave(r) = [run[r] EXCEPT !.at = call]
        PROVE  HInv'
    <2>1. \A r \in Ranks : run'[r].at = call /\ run'[r].ds = d
                           /\ run'[r] \in [at : Calls, ds : Datasets, row : Nat, cursor : Nat]
      <3> SUFFICES ASSUME NEW r \in Ranks
                   PROVE  run'[r].at = call /\ run'[r].ds = d
                          /\ run'[r] \in [at : Calls, ds : Datasets, row : Nat, cursor : Nat]
        OBVIOUS
      <3>1. run[r] \in [at : Calls, ds : Datasets, row : Nat, cursor : Nat] /\ call \in Calls
        BY <1>4 DEF TypeInv, Calls, InitBarriers
      <3>2. run'[r] = [run[r] EXCEPT !.at = call]
        BY <1>2, <1>9
      <3> QED BY <1>1, <3>1, <3>2
    <2>2. All(d, call)'
      BY <2>1 DEF All
    <2>3. Starting(d)'
      <3>1. Ready(d)' /\ \A e \in Datasets : e < d => Ready(e)'
        BY <1>6, <1>7
      <3>2. \A e \in Datasets : e > d => \A r \in Ranks : io'[e][r].highwater = 0
        BY <1>3, <1>6
      <3>3. (\A e \in Datasets : log'[e] = << >>) /\ recordCount' = base'
        BY <1>2, <1>6
      <3>4. All(d, "registered")' \/ All(d, "timed")'
        BY <2>2
      <3> QED BY <3>1, <3>2, <3>3, <3>4 DEF Starting
    <2>4. /\ TypeInv' /\ \A c \in Datasets : AgreeInv(c)'
          /\ \A c \in Datasets, r \in Ranks : ObjectInv(c, r)' /\ RowsIn(c, r)'
      BY <1>8, <2>1
    <2> QED BY <2>3, <2>4 DEF HInv
  <1>10. CASE All(d, "extended")
    <2>1. \A r \in Ranks : Leave(r) = [run[r] EXCEPT !.at = "registered"]
      BY <1>10, LeaveOf DEF All
    <2> QED BY <1>9, <2>1
  <1>11. CASE All(d, "registered")
    <2>1. \A r \in Ranks : Leave(r) = [run[r] EXCEPT !.at = "timed"]
      BY <1>11, LeaveOf DEF All
    <2> QED BY <1>9, <2>1
  <1>12. CASE All(d, "timed") /\ d < DatasetCount
    <2> DEFINE e == d + 1
    <2>1. e \in Datasets /\ "split" \in Calls
      BY <1>12, NoDatasetAfter DEF Calls
    <2>2. \A r \in Ranks : run'[r] = Here("split", e)
      BY <1>2, <1>12, LeaveOf DEF All, NextDataset
    <2>3. \A r \in Ranks : run'[r].at = "split" /\ run'[r].ds = e
                           /\ run'[r] \in [at : Calls, ds : Datasets, row : Nat, cursor : Nat]
      BY <2>1, <2>2, Begins
    <2>4. /\ \A c \in Datasets : c < e => c < d \/ c = d
          /\ \A c \in Datasets : c > e => c > d
          /\ e > d
      BY <1>12, NoDatasetAfter
    <2> HIDE DEF e
    <2>5. Starting(e)'
      <3>1. \A c \in Datasets : c < e => Ready(c)'
        BY <1>6, <1>7, <2>4
      <3>2. \A c \in Datasets : c > e => \A r \in Ranks : io'[c][r].highwater = 0
        BY <1>3, <1>6, <2>4
      <3>3. (\A c \in Datasets : log'[c] = << >>) /\ recordCount' = base'
        BY <1>2, <1>6
      <3>4. All(e, "split")' /\ \A r \in Ranks : io'[e][r].highwater = 0
        BY <1>3, <1>6, <2>1, <2>3, <2>4 DEF All
      <3> QED BY <3>1, <3>2, <3>3, <3>4 DEF Starting
    <2>6. /\ TypeInv' /\ \A c \in Datasets : AgreeInv(c)'
          /\ \A c \in Datasets, r \in Ranks : ObjectInv(c, r)' /\ RowsIn(c, r)'
      BY <1>8, <2>1, <2>3
    <2> QED BY <2>1, <2>5, <2>6 DEF HInv
  <1>13. CASE All(d, "timed") /\ ~(d < DatasetCount)
    <2>1. \A r \in Ranks : run'[r] = Here("idle", 1)
      BY <1>2, <1>13, LeaveOf DEF All, NextDataset
    <2>2. "idle" \in Calls /\ 1 \in Datasets /\ \A e \in Datasets : e < d \/ e = d
      BY <1>13, NoDatasetAfter DEF Calls
    <2>3. \A r \in Ranks : run'[r].at = "idle" /\ run'[r].ds = 1
                           /\ run'[r] \in [at : Calls, ds : Datasets, row : Nat, cursor : Nat]
      BY <2>1, <2>2, Begins
    <2>4. Waiting'
      <3>1. \A e \in Datasets : Ready(e)'
        BY <1>6, <1>7, <2>2
      <3>2. ASSUME NEW r \in Ranks PROVE recordCount' = io'[1][r].writeHead
        <4>1. io[1][r].writeHead = base
          BY <1>4, <1>6, <2>2, StartedObject DEF HInv
        <4> QED BY <1>2, <1>3, <1>6, <4>1
      <3>3. Idle'
        BY <2>3 DEF Idle
      <3> QED BY <3>1, <3>2, <3>3 DEF Waiting
    <2>5. /\ TypeInv' /\ \A c \in Datasets : AgreeInv(c)'
          /\ \A c \in Datasets, r \in Ranks : ObjectInv(c, r)' /\ RowsIn(c, r)'
      BY <1>8, <2>2, <2>3
    <2> QED BY <2>4, <2>5 DEF HInv
  <1> QED BY <1>5, <1>10, <1>11, <1>12, <1>13

LEMMA BarrierApart == ASSUME HInv, NEW d \in Datasets, Apart(d), Barrier PROVE HInv'
  <1> DEFINE R == Openers(io[d])
  <1>1. R \subseteq Ranks /\ R # {} /\ R # Ranks
    <2>1. AgreeInv(d)
      BY DEF HInv
    <2> QED BY <2>1, OpenersRanks DEF Apart
  <1>2. /\ \A r \in Ranks : run'[r] = Leave(r) /\ run[r].at \in Barriers
        /\ run' = [r \in Ranks |-> run'[r]]
        /\ UNCHANGED <<file, recordCount, saved, closing, log, base, starts>>
    BY BarrierStep
  <1>3. \A r \in Ranks : run[r].at \in InitBarriers
    BY <1>2, WhereApart DEF Barriers, WriteBarriers, CloseBarriers, InitBarriers
  <1>4. io' = io /\ TypeInv
    BY <1>3, OnlyLeads DEF HInv
  <1>5. (\A e \in Datasets : log'[e] = << >>) /\ recordCount' = base' /\ Openers(io'[d]) = R
    BY <1>2, <1>4 DEF Apart
  <1>6. ASSUME NEW r \in Ranks
        PROVE  run[r] \in [at : Calls, ds : Datasets, row : Nat, cursor : Nat]
    BY <1>4 DEF TypeInv
  <1>7. ASSUME \A r \in Ranks :
                  /\ run'[r].at \in {"registered", "timed", "split", "idle"}
                  /\ run'[r] \in [at : Calls, ds : Datasets, row : Nat, cursor : Nat],
               Apart(d)'
        PROVE  HInv'
    <2>1. \A r \in Ranks : run[r].at \notin RowCalls /\ run[r].at # "written"
      BY <1>3 DEF InitBarriers, RowCalls
    <2>2. \A r \in Ranks : run'[r].at \notin RowCalls /\ run'[r].at # "written" /\ run'[r].at \notin EarlyCalls
      BY <1>7 DEF RowCalls, EarlyCalls
    <2>3. \A c \in Datasets : \A r \in Ranks : ~Written(c, r)
      BY <2>1 DEF Written
    <2>4. /\ TypeInv' /\ \A c \in Datasets : AgreeInv(c)'
          /\ \A c \in Datasets, r \in Ranks : ObjectInv(c, r)' /\ RowsIn(c, r)'
      BY <1>2, <1>4, <1>7, <2>1, <2>2, <2>3, Moved
    <2> QED BY <1>7, <2>4 DEF HInv
  <1>8. ASSUME NEW r \in Ranks, run[r].at = "registered"
        PROVE  /\ run'[r].at = "timed" /\ run'[r].ds = run[r].ds
               /\ run'[r] \in [at : Calls, ds : Datasets, row : Nat, cursor : Nat]
    <2>1. run'[r] = [run[r] EXCEPT !.at = "timed"]
      BY <1>2, <1>8, LeaveOf
    <2>2. "timed" \in Calls
      BY DEF Calls, InitBarriers
    <2> QED BY <1>6, <2>1, <2>2
  <1>9. CASE Together(d, R, "extended", "registered")
    <2>1. ASSUME NEW r \in Ranks
          PROVE  /\ run'[r].at = (IF r \in R THEN "registered" ELSE "timed") /\ run'[r].ds = d
                 /\ run'[r] \in [at : Calls, ds : Datasets, row : Nat, cursor : Nat]
      <3>1. CASE r \in R
        <4>1. run[r].at = "extended" /\ run[r].ds = d
          BY <1>9, <3>1 DEF Together
        <4>2. run'[r] = [run[r] EXCEPT !.at = "registered"]
          BY <1>2, <4>1, LeaveOf
        <4>3. "registered" \in Calls
          BY DEF Calls, InitBarriers
        <4> QED BY <1>6, <3>1, <4>1, <4>2, <4>3
      <3>2. CASE r \notin R
        <4>1. run[r].at = "registered" /\ run[r].ds = d
          BY <1>9, <3>2 DEF Together
        <4> QED BY <1>8, <3>2, <4>1
      <3> QED BY <3>1, <3>2
    <2>2. Together(d, R, "registered", "timed")'
      <3>1. \A r \in Ranks : run'[r].ds = d /\ run'[r].at = IF r \in R THEN "registered" ELSE "timed"
        BY <2>1
      <3> QED BY <1>5, <3>1 DEF Together
    <2>3. Apart(d)'
      BY <1>1, <1>5, <2>2 DEF Apart
    <2> QED BY <1>7, <2>1, <2>3
  <1>10. CASE Together(d, R, "registered", "timed")
    <2>1. ASSUME NEW r \in Ranks
          PROVE  /\ r \in R => run'[r].at = "timed" /\ run'[r].ds = d
                 /\ r \notin R => run'[r].at \in {"split", "idle"}
                 /\ run'[r] \in [at : Calls, ds : Datasets, row : Nat, cursor : Nat]
      <3>1. CASE r \in R
        <4>1. run[r].at = "registered" /\ run[r].ds = d
          BY <1>10, <3>1 DEF Together
        <4> QED BY <1>8, <3>1, <4>1
      <3>2. CASE r \notin R
        <4>1. run[r].at = "timed" /\ run[r].ds = d
          BY <1>10, <3>2 DEF Together
        <4>2. run'[r] = NextDataset(run[r], "split", Here("idle", 1))
          BY <1>2, <4>1, LeaveOf
        <4>3. CASE d < DatasetCount
          <5>1. run'[r] = Here("split", d + 1) /\ d + 1 \in Datasets /\ "split" \in Calls
            BY <4>1, <4>2, <4>3, NoDatasetAfter DEF NextDataset, Calls
          <5> QED BY <3>2, <5>1, Begins
        <4>4. CASE ~(d < DatasetCount)
          <5>1. run'[r] = Here("idle", 1) /\ 1 \in Datasets /\ "idle" \in Calls
            BY <4>1, <4>2, <4>4, NoDatasetAfter DEF NextDataset, Calls
          <5> QED BY <3>2, <5>1, Begins
        <4> QED BY <4>3, <4>4
      <3> QED BY <3>1, <3>2
    <2>2. /\ \A r \in R : run'[r].ds = d /\ run'[r].at = "timed"
          /\ \A r \in Ranks \ R : run'[r].at \in {"split", "idle"}
      BY <1>1, <2>1
    <2>3. Apart(d)'
      BY <1>1, <1>5, <2>2 DEF Apart
    <2>4. \A r \in Ranks : run'[r].at \in {"registered", "timed", "split", "idle"}
      BY <2>1
    <2> QED BY <1>7, <2>1, <2>3, <2>4
  <1>11. CASE \A r \in Ranks \ R : run[r].at \in {"split", "idle"}
    <2>1. PICK r \in Ranks : r \notin R
      BY <1>1
    <2>2. run[r].at \in InitBarriers /\ run[r].at \in {"split", "idle"}
      BY <1>3, <1>11, <2>1
    <2> QED BY <2>2 DEF InitBarriers
  <1> QED BY <1>9, <1>10, <1>11 DEF Apart

\* At a barrier of write() all ranks are at the same one.
LEMMA WritingBarrier ==
    ASSUME HInv, NEW d \in Datasets, Writing(d), Barrier
    PROVE  \/ \A r \in Ranks : run[r].at = "grown"
           \/ \A r \in Ranks : run[r].at = "fitted"
           \/ \A r \in Ranks : run[r].at = "written"
  <1>1. \A r \in Ranks : run[r].at \in WriteBarriers
    BY BarrierStep, WhereWriting DEF Barriers, WriteBarriers, InitBarriers, CloseBarriers,
                                     WriteCalls, RowCalls, EarlyCalls
  <1>2. \A call : All(d, call) => call \in WriteBarriers
    BY <1>1, TheRanks DEF All
  <1>3. ~WritingRow(d)
    BY <1>1 DEF WritingRow, Subcomm, WriteBarriers
  <1>4. Together(d, Subcomm(d), "grow", "grown") => All(d, "grown")
    BY <1>1 DEF Together, All, WriteBarriers
  <1>5. Together(d, Subcomm(d), "fit", "fitted") => All(d, "fitted")
    BY <1>1 DEF Together, All, WriteBarriers
  <1>6. ~All(d, "reduce") /\ ~All(d, "growing") /\ ~All(d, "splitRow")
    BY <1>2 DEF WriteBarriers
  <1>7. All(d, "grown") \/ All(d, "fitted") \/ All(d, "written")
    BY <1>3, <1>4, <1>5, <1>6 DEF Writing
  <1> QED BY <1>7 DEF All

LEMMA BarrierWritten ==
    ASSUME HInv, NEW d \in Datasets, Writing(d), Barrier, \A r \in Ranks : run[r].at = "written"
    PROVE  HInv'
  <1>1. \A r \in Ranks : run[r].ds = d
    BY WhereWriting
  <1>2. /\ \A r \in Ranks : run'[r] = Leave(r)
        /\ run' = [r \in Ranks |-> run'[r]]
        /\ UNCHANGED <<file, recordCount, saved, closing, log, base, starts>>
    BY BarrierStep
  <1>3. io' = io
    BY OnlyLeads
  <1>4. TypeInv /\ Ready(d)
    BY <1>1, WritingNow DEF HInv
  <1>5. /\ recordCount = Target(1)
        /\ \A e \in Datasets : Ready(e)
        /\ \A e \in Datasets : e < d => Flushed(e)
    BY <1>4 DEF Writing
  <1>6. Flushed(d)
    BY <1>1 DEF HInv, ObjectInv, Written, Flushed
  <1>7. recordCount' = Target(1)' /\ \A e \in Datasets : Ready(e)' /\ (Flushed(e) => Flushed(e)')
    <2>1. ASSUME NEW e \in Datasets PROVE Ready(e)' /\ (Flushed(e) => Flushed(e)')
      <3>1. io'[e] = io[e] /\ file'[e] = file[e] /\ log'[e] = log[e] /\ UNCHANGED <<base, starts>>
        BY <1>2, <1>3
      <3> QED BY <1>5, <3>1, KeptDataset
    <2> QED BY <1>2, <1>5, <2>1 DEF Target
  <1>8. ASSUME NEW call \in {"reduce", "closed", "idle"}, NEW e \in Datasets,
               \A r \in Ranks : run'[r] = Here(call, e)
        PROVE  /\ TypeInv' /\ \A c \in Datasets : AgreeInv(c)'
               /\ \A c \in Datasets, r \in Ranks : ObjectInv(c, r)' /\ RowsIn(c, r)'
               /\ All(e, call)'
    <2>1. call \in Calls /\ call \notin RowCalls /\ call # "written"
      BY DEF Calls, WriteCalls, EarlyCalls, CloseBarriers, RowCalls
    <2>2. \A r \in Ranks : /\ run'[r].at = call /\ run'[r].ds = e /\ run'[r].row = 0 /\ run'[r].cursor = 0
                           /\ run'[r] \in [at : Calls, ds : Datasets, row : Nat, cursor : Nat]
      BY <1>8, <2>1, Begins
    <2>3. \A r \in Ranks : run[r].at \notin RowCalls
      BY DEF RowCalls
    <2>4. \A c \in Datasets : Flushed(c) \/ \A r \in Ranks : ~Written(c, r)
      BY <1>1, <1>6 DEF Written
    <2>5. /\ TypeInv' /\ \A c \in Datasets : AgreeInv(c)'
          /\ \A c \in Datasets, r \in Ranks : ObjectInv(c, r)' /\ RowsIn(c, r)'
      BY <1>2, <1>3, <2>1, <2>2, <2>3, <2>4, Moved
    <2>6. All(e, call)'
      BY <2>2 DEF All
    <2> QED BY <2>5, <2>6
  <1>9. CASE d < DatasetCount
    <2> DEFINE e == d + 1
    <2>1. e \in Datasets /\ \A c \in Datasets : c < e => c < d \/ c = d
      BY <1>9, NoDatasetAfter
    <2>2. \A r \in Ranks : run'[r] = Here("reduce", e)
      BY <1>1, <1>2, <1>9, LeaveOf DEF NextDataset
    <2> HIDE DEF e
    <2>3. /\ TypeInv' /\ \A c \in Datasets : AgreeInv(c)'
          /\ \A c \in Datasets, r \in Ranks : ObjectInv(c, r)' /\ RowsIn(c, r)'
          /\ All(e, "reduce")'
      BY <1>8, <2>1, <2>2
    <2>4. \A c \in Datasets : c < e => Flushed(c)'
      BY <1>5, <1>6, <1>7, <2>1
    <2>5. Writing(e)'
      BY <1>7, <2>1, <2>3, <2>4 DEF Writing
    <2> QED BY <2>1, <2>3, <2>5 DEF HInv
  <1>10. CASE ~(d < DatasetCount) /\ closing
    <2>1. 1 \in Datasets /\ \A c \in Datasets : c < d \/ c = d
      BY <1>10, NoDatasetAfter
    <2>2. \A r \in Ranks : run'[r] = Here("closed", 1)
      BY <1>1, <1>2, <1>10, LeaveOf DEF NextDataset
    <2>3. /\ TypeInv' /\ \A c \in Datasets : AgreeInv(c)'
          /\ \A c \in Datasets, r \in Ranks : ObjectInv(c, r)' /\ RowsIn(c, r)'
          /\ All(1, "closed")'
      BY <1>8, <2>1, <2>2
    <2>4. \A c \in Datasets : Flushed(c)'
      BY <1>5, <1>6, <1>7, <2>1
    <2>5. Known(1)' /\ Fits(1)'
      BY <1>7, <2>1 DEF Ready
    <2>6. Closing(1)'
      BY <1>7, <2>1, <2>3, <2>4, <2>5 DEF Closing
    <2> QED BY <2>1, <2>3, <2>6 DEF HInv
  <1>11. CASE ~(d < DatasetCount) /\ ~closing
    <2>1. 1 \in Datasets /\ \A c \in Datasets : c < d \/ c = d
      BY <1>11, NoDatasetAfter
    <2>2. \A r \in Ranks : run'[r] = Here("idle", 1)
      BY <1>1, <1>2, <1>11, LeaveOf DEF NextDataset
    <2>3. /\ TypeInv' /\ \A c \in Datasets : AgreeInv(c)'
          /\ \A c \in Datasets, r \in Ranks : ObjectInv(c, r)' /\ RowsIn(c, r)'
          /\ All(1, "idle")'
      BY <1>8, <2>1, <2>2
    <2>4. ASSUME NEW r \in Ranks PROVE recordCount' = io'[1][r].writeHead
      <3>1. io[1][r].counts = << >> /\ ObjectInv(1, r)
        BY <1>5, <1>6, <2>1 DEF Flushed, HInv
      <3>2. io[1][r].writeHead = Target(1)
        BY <1>4, <2>1, <3>1, FlushedHead
      <3> QED BY <1>2, <1>3, <1>5, <3>2
    <2>5. Waiting'
      BY <1>7, <2>3, <2>4 DEF Waiting, Idle, All
    <2> QED BY <2>3, <2>5 DEF HInv
  <1>12. closing \in BOOLEAN
    BY <1>4 DEF TypeInv
  <1> QED BY <1>9, <1>10, <1>11

\* compressInFile() of one dataset after the other
LEMMA CompressBegins ==
    ASSUME NEW r \in Ranks, NEW d \in Datasets, run'[r] = CompressCall(r, d)
    PROVE  /\ run'[r].at = (IF io[d][r].member THEN "compress" ELSE "compressed")
           /\ run'[r].ds = d /\ run'[r].row = 0 /\ run'[r].cursor = 0
           /\ run'[r] \in [at : Calls, ds : Datasets, row : Nat, cursor : Nat]
  <1> DEFINE call == IF io[d][r].member THEN "compress" ELSE "compressed"
  <1>1. run'[r] = Here(call, d) /\ call \in Calls
    BY DEF CompressCall, Calls, CloseBarriers
  <1> HIDE DEF call
  <1>2. /\ run'[r].at = call /\ run'[r].ds = d /\ run'[r].row = 0 /\ run'[r].cursor = 0
        /\ run'[r] \in [at : Calls, ds : Datasets, row : Nat, cursor : Nat]
    BY <1>1, Begins
  <1> QED BY <1>2 DEF call

LEMMA BarrierClosed ==
    ASSUME HInv, NEW d \in Datasets, Closing(d), All(d, "closed"), Barrier
    PROVE  HInv'
  <1>1. /\ \A r \in Ranks : run'[r] = Leave(r)
        /\ run' = [r \in Ranks |-> run'[r]]
        /\ UNCHANGED <<file, recordCount, saved, closing, log, base, starts>>
    BY BarrierStep
  <1>2. io' = io
    BY OnlyLeads DEF All
  <1>3. d = 1 /\ Fits(d)
    <2>1. ~All(d, "compressed")
      BY TheRanks DEF All
    <2>2. ~Together(d, Subcomm(d), "compress", "compressed")
      BY TheRanks DEF All, Together
    <2> QED BY <2>1, <2>2 DEF Closing
  <1>4. /\ recordCount = Target(1) /\ Known(d)
        /\ \A e \in Datasets : e # d => Ready(e)
        /\ \A e \in Datasets : Flushed(e)
    BY DEF Closing
  <1>5. ASSUME NEW r \in Ranks
        PROVE  /\ run'[r].at = (IF io[d][r].member THEN "compress" ELSE "compressed")
               /\ run'[r].ds = d /\ run'[r].row = 0 /\ run'[r].cursor = 0
               /\ run'[r] \in [at : Calls, ds : Datasets, row : Nat, cursor : Nat]
    <2>1. run'[r] = CompressCall(r, d)
      BY <1>1, <1>3, LeaveOf DEF All
    <2> QED BY <2>1, CompressBegins
  <1>6. /\ TypeInv' /\ \A c \in Datasets : AgreeInv(c)'
        /\ \A c \in Datasets, r \in Ranks : ObjectInv(c, r)' /\ RowsIn(c, r)'
    <2>1. \A r \in Ranks : run[r].at \notin RowCalls
      BY DEF All, RowCalls
    <2>2. \A r \in Ranks : /\ run'[r].at \notin RowCalls /\ run'[r].at # "written"
                           /\ run'[r].at \notin EarlyCalls
                           /\ run'[r] \in [at : Calls, ds : Datasets, row : Nat, cursor : Nat]
      BY <1>5 DEF RowCalls, EarlyCalls
    <2> QED BY <1>1, <1>2, <1>4, <2>1, <2>2, Moved
  <1>7. /\ recordCount' = Target(1)' /\ Known(d)' /\ Fits(d)'
        /\ \A e \in Datasets : e # d => Ready(e)'
        /\ \A e \in Datasets : Flushed(e)'
    <2>1. ASSUME NEW e \in Datasets
          PROVE  /\ Known(e) => Known(e)'
                 /\ Fits(e) => Fits(e)'
                 /\ Ready(e) => Ready(e)'
                 /\ Flushed(e)'
      <3>1. io'[e] = io[e] /\ file'[e] = file[e] /\ log'[e] = log[e] /\ UNCHANGED <<base, starts>>
        BY <1>1, <1>2
      <3> QED BY <1>4, <3>1, KeptDataset
    <2>2. recordCount' = Target(1)'
      BY <1>1, <1>4 DEF Target
    <2> QED BY <1>3, <1>4, <2>1, <2>2
  <1>8. Together(d, Subcomm(d), "compress", "compressed")'
    <2>1. Subcomm(d)' = Subcomm(d) /\ \A r \in Ranks : r \in Subcomm(d) <=> io[d][r].member
      BY <1>2 DEF Subcomm
    <2> QED BY <1>5, <2>1 DEF Together
  <1>9. Closing(d)'
    BY <1>7, <1>8 DEF Closing
  <1> QED BY <1>6, <1>9 DEF HInv

LEMMA BarrierCompressed ==
    ASSUME HInv, NEW d \in Datasets, Closing(d), ~All(d, "closed"), Barrier
    PROVE  HInv'
  <1>1. /\ \A r \in Ranks : run'[r] = Leave(r) /\ run[r].at \in Barriers
        /\ run' = [r \in Ranks |-> run'[r]]
        /\ UNCHANGED <<file, recordCount, saved, closing, log, base, starts>>
    BY BarrierStep
  <1>2. \A r \in Ranks : run[r].ds = d /\ run[r].at \in {"closed", "compressed"}
    BY <1>1, WhereClosing DEF Barriers, InitBarriers, WriteBarriers, CloseBarriers
  <1>3. /\ All(d, "compressed")
        /\ \A r \in Ranks : io[d][r].member =>
              io[d][r].writeHead <= file[d].rows /\ io[d][r].highwater <= file[d].cols
    <2>1. CASE Together(d, Subcomm(d), "compress", "compressed")
      <3>1. \A r \in Ranks : run[r].at # "compress"
        BY <1>2
      <3>2. \A r \in Ranks : r \notin Subcomm(d)
        BY <2>1, <3>1 DEF Together
      <3>3. \A r \in Ranks : ~io[d][r].member
        BY <3>2 DEF Subcomm
      <3> QED BY <2>1, <3>2, <3>3 DEF Together, All
    <2> QED BY <2>1 DEF Closing
  <1>4. /\ recordCount = Target(1) /\ Known(d)
        /\ \A e \in Datasets : e # d => Ready(e)
        /\ \A e \in Datasets : Flushed(e)
    BY DEF Closing
  <1>5. TypeInv /\ AgreeInv(d) /\ \A r \in Ranks : ObjectInv(d, r) /\ RowsIn(d, r)
    BY DEF HInv
  <1>6. ASSUME NEW r \in Ranks
        PROVE  /\ io[d][r] \in Object /\ io[d][r].counts = << >>
               /\ io[d][r].writeHead = Target(d) /\ io[d][r].writeHead \in Nat /\ ~InRow(d, r)
    <2>1. io[d][r].counts = << >>
      BY <1>4 DEF Flushed
    <2>2. io[d][r] \in Object /\ io[d][r].writeHead \in Nat
      BY <1>5, Lengths DEF Object
    <2> QED BY <1>5, <2>1, <2>2, FlushedHead
  <1>7. ASSUME NEW r \in Ranks
        PROVE  /\ io'[d][r] \in Object /\ io'[d][r].writeLimit = io[d][r].writeHead
               /\ io'[d][r].dims = io[d][r].dims /\ io'[d][r].dataBuffer = io[d][r].dataBuffer
               /\ io'[d][r].bufferHead = io[d][r].bufferHead /\ io'[d][r].counts = io[d][r].counts
               /\ io'[d][r].writeHead = io[d][r].writeHead
               /\ io'[d][r].highwater = io[d][r].highwater
               /\ io'[d][r].globalCount = io[d][r].globalCount
               /\ io'[d][r].offset = io[d][r].offset /\ io'[d][r].member = io[d][r].member
               /\ io'[d][r].sizeChanged = io[d][r].sizeChanged
    <2> DEFINE o == io[d][r]
               p == io'[d][r]
    <2>1. p = [o EXCEPT !.writeLimit = o.writeHead]
      BY SMTT(40), <1>2, <1>3, BarrierStep, LeftOf DEF All
    <2>2. o \in Object /\ o.writeHead \in Nat
      BY <1>6
    <2> HIDE DEF o, p
    <2>3. /\ p \in Object /\ p.writeLimit = o.writeHead /\ p.dims = o.dims
          /\ p.dataBuffer = o.dataBuffer /\ p.bufferHead = o.bufferHead /\ p.counts = o.counts
          /\ p.writeHead = o.writeHead /\ p.highwater = o.highwater
          /\ p.globalCount = o.globalCount /\ p.offset = o.offset /\ p.member = o.member
          /\ p.sizeChanged = o.sizeChanged
      BY <2>1, <2>2 DEF Object
    <2> QED BY <2>3 DEF o, p
  <1>8. \A e \in Datasets : e # d => io'[e] = io[e]
    <2> SUFFICES ASSUME NEW e \in Datasets, e # d PROVE io'[e] = io[e]
      OBVIOUS
    <2>1. io'[e] = [r \in Ranks |-> io'[e][r]] /\ io[e] = [r \in Ranks |-> io[e][r]]
      BY <1>5, BarrierStep DEF TypeInv
    <2>2. \A r \in Ranks : io'[e][r] = io[e][r]
      BY <1>2, BarrierStep
    <2> QED BY <2>1, <2>2
  <1>9. \A r \in Ranks : run'[r].at \notin WriteCalls
                         /\ run'[r] \in [at : Calls, ds : Datasets, row : Nat, cursor : Nat]
    <2> SUFFICES ASSUME NEW r \in Ranks
                 PROVE  run'[r].at \notin WriteCalls
                        /\ run'[r] \in [at : Calls, ds : Datasets, row : Nat, cursor : Nat]
      OBVIOUS
    <2>1. CASE d < DatasetCount
      <3>1. run'[r] = CompressCall(r, d + 1) /\ d + 1 \in Datasets
        BY <1>1, <1>2, <1>3, <2>1, LeaveOf, NoDatasetAfter DEF All
      <3>2. run'[r].at \in {"compress", "compressed"}
            /\ run'[r] \in [at : Calls, ds : Datasets, row : Nat, cursor : Nat]
        BY <3>1, CompressBegins
      <3> QED BY <3>2 DEF WriteCalls, RowCalls, EarlyCalls
    <2>2. CASE ~(d < DatasetCount)
      <3>1. run'[r] = Here("idle", 1) /\ 1 \in Datasets /\ "idle" \in Calls
        BY <1>1, <1>2, <1>3, <2>2, LeaveOf, NoDatasetAfter DEF All, Calls
      <3>2. run'[r].at = "idle" /\ run'[r] \in [at : Calls, ds : Datasets, row : Nat, cursor : Nat]
        BY <3>1, Begins
      <3> QED BY <3>2 DEF WriteCalls, RowCalls, EarlyCalls
    <2> QED BY <2>1, <2>2
  <1>10. ASSUME NEW e \in Datasets, NEW r \in Ranks
         PROVE  /\ ~InRow(e, r) /\ ~Early(e, r) /\ ~Written(e, r)
                /\ ~InRow(e, r)' /\ ~Early(e, r)' /\ ~Written(e, r)'
    BY <1>2, <1>9 DEF InRow, Early, Written, WriteCalls, RowCalls, EarlyCalls
  <1>11. TypeInv'
    <2>1. io'[d] \in [Ranks -> Object]
      <3>1. io'[d] = [r \in Ranks |-> io'[d][r]]
        BY BarrierStep
      <3> QED BY <1>7, <3>1
    <2>2. \A e \in Datasets : io'[e] \in [Ranks -> Object]
      BY <1>5, <1>8, <2>1 DEF TypeInv
    <2>3. io' \in [Datasets -> [Ranks -> Object]]
      BY <2>2, BarrierStep
    <2>4. run' \in [Ranks -> [at : Calls, ds : Datasets, row : Nat, cursor : Nat]]
      BY <1>1, <1>9
    <2> QED BY <1>1, <1>5, <2>3, <2>4 DEF TypeInv, IsFile
  <1>12. ASSUME NEW r \in Ranks PROVE ObjectInv(d, r)' /\ RowsIn(d, r)'
    <2>1. io'[d][r].writeHead = Target(d) - Rest(d, r)'
      <3>1. Rest(d, r)' = Rest(d, r)
        BY <1>7, <1>10 DEF Rest
      <3> QED BY <1>5, <1>7, <3>1 DEF ObjectInv
    <2>2. io'[d][r].writeHead <= io'[d][r].writeLimit
      BY <1>6, <1>7
    <2>3. \A n \in 1 .. io'[d][r].writeHead - base : Total(log[d][n]) <= io'[d][r].highwater
      BY <1>5, <1>7 DEF ObjectInv
    <2>4. log'[d] = log[d] /\ UNCHANGED <<base, starts>>
      BY <1>1
    <2>5. ~io'[d][r].sizeChanged => ~io[d][r].sizeChanged
      BY <1>7
    <2>6. ObjectInv(d, r)'
      BY <1>5, <1>7, <1>10, <2>1, <2>2, <2>3, <2>4, <2>5, StillObject
    <2>7. RowsIn(d, r)'
      BY <1>1, <1>5, <1>7 DEF RowsIn
    <2> QED BY <2>6, <2>7
  <1>13. AgreeInv(d)'
    <2>1. ASSUME NEW q \in Ranks, NEW r \in Ranks
          PROVE  /\ io'[d][q].writeLimit = io'[d][r].writeLimit
                 /\ io'[d][q].highwater = io'[d][r].highwater
                 /\ io'[d][q].globalCount = io'[d][r].globalCount
                 /\ Len(io'[d][q].counts) = Len(io'[d][r].counts)
      <3>1. io[d][q].highwater = io[d][r].highwater /\ io[d][q].globalCount = io[d][r].globalCount
        BY <1>5 DEF AgreeInv
      <3>2. io'[d][q].writeLimit = Target(d) /\ io'[d][r].writeLimit = Target(d)
        BY <1>6, <1>7
      <3>3. io'[d][q].counts = << >> /\ io'[d][r].counts = << >>
        BY <1>6, <1>7
      <3> QED BY <1>7, <3>1, <3>2, <3>3
    <2>2. ASSUME NEW q \in Ranks, io'[d][q].globalCount # 0 PROVE \E m \in Ranks : io'[d][m].member
      <3>1. PICK m \in Ranks : io[d][m].member
        BY <1>5, <1>7, <2>2 DEF AgreeInv
      <3> QED BY <1>7, <3>1
    <2> QED BY <2>1, <2>2 DEF AgreeInv
  <1>14. ASSUME NEW e \in Datasets PROVE AgreeInv(e)' /\ \A r \in Ranks : ObjectInv(e, r)' /\ RowsIn(e, r)'
    <2>1. CASE e = d
      BY <1>12, <1>13, <2>1
    <2>2. CASE e # d
      <3>1. io'[e] = io[e] /\ log'[e] = log[e] /\ file'[e] = file[e] /\ UNCHANGED <<base, starts>>
        BY <1>1, <1>8, <2>2
      <3> QED BY <1>10, <3>1, OthersKept
    <2> QED BY <2>1, <2>2
  <1>15. Known(d)' /\ Fits(d)'
    <2>1. Dims(d)' = Dims(d)
      BY <1>7 DEF Dims
    <2>2. IsPartition(d, Dims(d))
      BY <1>4 DEF Known, Flushed
    <2>3. IsPartition(d, Dims(d))'
      BY <1>7, <2>1, <2>2 DEF IsPartition
    <2>4. Fits(d)'
      BY <1>1, <1>3, <1>7 DEF Fits
    <2> QED BY <2>3, <2>4 DEF Known
  <1>16. recordCount' = Target(1)' /\ \A e \in Datasets : Ready(e)' /\ Known(e)' /\ Fits(e)' /\ Flushed(e)'
    <2>1. ASSUME NEW e \in Datasets PROVE Ready(e)' /\ Known(e)' /\ Fits(e)' /\ Flushed(e)'
      <3>1. CASE e = d
        BY <1>6, <1>7, <1>15, <3>1 DEF Ready, Flushed
      <3>2. CASE e # d
        <4>1. io'[e] = io[e] /\ log'[e] = log[e] /\ file'[e] = file[e] /\ UNCHANGED <<base, starts>>
          BY <1>1, <1>8, <3>2
        <4>2. Ready(e)' /\ Flushed(e)'
          BY <1>4, <3>2, <4>1, KeptDataset
        <4> QED BY <4>2 DEF Ready
      <3> QED BY <3>1, <3>2
    <2> QED BY <1>1, <1>4, <2>1 DEF Target
  <1>17. CASE d < DatasetCount
    <2> DEFINE e == d + 1
    <2>1. e \in Datasets /\ e # d
      BY <1>17, NoDatasetAfter, TheRanks DEF Datasets
    <2>2. \A r \in Ranks : run'[r] = CompressCall(r, e)
      BY <1>1, <1>2, <1>3, <1>17, LeaveOf DEF All
    <2> HIDE DEF e
    <2>3. \A r \in Ranks : run'[r].ds = e /\ run'[r].at = IF io[e][r].member THEN "compress" ELSE "compressed"
      BY <2>1, <2>2, CompressBegins
    <2>4. Together(e, Subcomm(e), "compress", "compressed")'
      <3>1. io'[e] = io[e]
        BY <1>8, <2>1
      <3>2. Subcomm(e)' = Subcomm(e) /\ \A r \in Ranks : r \in Subcomm(e) <=> io[e][r].member
        BY <3>1 DEF Subcomm
      <3> QED BY <2>3, <3>2 DEF Together
    <2>5. Closing(e)'
      BY <1>16, <2>1, <2>4 DEF Closing
    <2> QED BY <1>11, <1>14, <2>1, <2>5 DEF HInv
  <1>18. CASE ~(d < DatasetCount)
    <2>1. \A r \in Ranks : run'[r] = Here("idle", 1)
      BY <1>1, <1>2, <1>3, <1>18, LeaveOf DEF All
    <2>2. \A r \in Ranks : run'[r].at = "idle"
      BY <2>1 DEF Here
    <2>3. ASSUME NEW r \in Ranks PROVE recordCount' = io'[1][r].writeHead
      <3>1. 1 \in Datasets
        BY NoDatasetAfter
      <3>2. io[1][r].counts = << >> /\ ObjectInv(1, r)
        BY <1>4, <3>1 DEF Flushed, HInv
      <3>3. io[1][r].writeHead = Target(1)
        BY <1>5, <3>1, <3>2, FlushedHead
      <3>4. io'[1][r].writeHead = io[1][r].writeHead
        BY <1>7, <1>8, <3>1
      <3> QED BY <1>1, <1>4, <3>3, <3>4
    <2>4. Waiting'
      BY <1>16, <2>2, <2>3 DEF Waiting, Idle
    <2> QED BY <1>11, <1>14, <2>4 DEF HInv
  <1> QED BY <1>17, <1>18

\* The barrier after the file has grown
LEMMA BarrierGrown ==
    ASSUME HInv, NEW d \in Datasets, Writing(d), Barrier, \A r \in Ranks : run[r].at = "grown"
    PROVE  HInv'
  <1>1. \A r \in Ranks : run[r].ds = d
    BY WhereWriting
  <1>2. /\ \A r \in Ranks : run'[r] = Leave(r)
        /\ run' = [r \in Ranks |-> run'[r]]
        /\ io' = [e \in Datasets |-> io'[e]] /\ \A e \in Datasets : io'[e] = [r \in Ranks |-> io'[e][r]]
        /\ UNCHANGED <<file, recordCount, saved, closing, log, base, starts>>
    BY BarrierStep
  <1>3. Fits(d) /\ SameChange(d) /\ Known(d) /\ HeadFits(d)
    BY <1>1, WritingNow
  <1>4. TypeInv /\ \A r \in Ranks : ObjectInv(d, r) /\ io[d][r] \in Object
    BY Lengths DEF HInv
  <1> DEFINE changed == io[d][0].sizeChanged
             os == io[d]
  <1>5. changed \in BOOLEAN /\ \A r \in Ranks : io[d][r].sizeChanged = changed
    BY <1>3, <1>4, TheRanks DEF Object, SameChange
  <1>6. os \in [Ranks -> Object]
    BY <1>4 DEF TypeInv
  <1>7. io'[d] = [r \in Ranks |-> NextObject(os[r], 0)]
    <2>1. \A r \in Ranks : io'[d][r] = NextObject(io[d][r], 0)
      BY <1>1, BarrierStep, LeftOf
    <2> QED BY <1>2, <2>1
  <1>8. \A e \in Datasets : e # d => io'[e] = io[e]
    <2> SUFFICES ASSUME NEW e \in Datasets, e # d PROVE io'[e] = io[e]
      OBVIOUS
    <2>1. io'[e] = [r \in Ranks |-> io'[e][r]] /\ io[e] = [r \in Ranks |-> io[e][r]]
      BY <1>2, <1>4 DEF TypeInv
    <2>2. \A r \in Ranks : io'[e][r] = io[e][r]
      BY <1>1, BarrierStep
    <2> QED BY <2>1, <2>2
  <1>9. \A r \in Ranks : Early(d, r) /\ run[r].row = 0 /\ run[r].cursor = 0
    BY <1>1, <1>4 DEF ObjectInv, Early, EarlyCalls
  <1>10. ASSUME NEW r \in Ranks
         PROVE  /\ run'[r].at = NextCall(os[r], 0) /\ run'[r].ds = d
                /\ run'[r].row = 0 /\ run'[r].cursor = 0
                /\ run'[r] \in [at : Calls, ds : Datasets, row : Nat, cursor : Nat]
    <2> DEFINE call == NextCall(os[r], 0)
    <2>1. run'[r] = [run[r] EXCEPT !.at = call]
      BY Zenon, <1>1, <1>2, LeaveRow
    <2>2. call \in Calls
      BY NextWhere DEF Calls, WriteCalls, RowCalls
    <2>3. run[r] \in [at : Calls, ds : Datasets, row : Nat, cursor : Nat]
      BY <1>4 DEF TypeInv
    <2> HIDE DEF call
    <2>4. run'[r].at = call /\ run'[r].ds = d /\ run'[r].row = 0 /\ run'[r].cursor = 0
          /\ run'[r] \in [at : Calls, ds : Datasets, row : Nat, cursor : Nat]
      BY <1>1, <1>9, <2>1, <2>2, <2>3
    <2> QED BY <2>4 DEF call
  <1> HIDE DEF changed
  <1>11. ToFirstRow(d, changed, os)
    BY <1>1, <1>2, <1>3, <1>5, <1>7, <1>8, <1>9, <1>10 DEF ToFirstRow
  <1> HIDE DEF os
  <1> QED BY <1>5, <1>6, <1>11, FirstRowHInv

\* The barrier before a row is written
LEMMA BarrierFitted ==
    ASSUME HInv, NEW d \in Datasets, Writing(d), Barrier, \A r \in Ranks : run[r].at = "fitted"
    PROVE  HInv'
  <1>1. \A r \in Ranks : run[r].ds = d
    BY WhereWriting
  <1>2. /\ \A r \in Ranks : run'[r] = Leave(r)
        /\ run' = [r \in Ranks |-> run'[r]]
        /\ io' = [e \in Datasets |-> io'[e]] /\ \A e \in Datasets : io'[e] = [r \in Ranks |-> io'[e][r]]
        /\ UNCHANGED <<file, recordCount, saved, closing, log, base, starts>>
    BY BarrierStep
  <1>3. Fits(d) /\ SameRow(d) /\ Changed(d) /\ HeadFits(d) /\ \A r \in Ranks : RowInv(d, r)
    BY <1>1, WritingNow
  <1>4. TypeInv /\ AgreeInv(d) /\ 0 \in Ranks
    BY TheRanks DEF HInv
  <1>5. ASSUME NEW r \in Ranks
        PROVE  /\ ObjectInv(d, r) /\ RowsIn(d, r) /\ io[d][r] \in Object
               /\ InRow(d, r) /\ ~Written(d, r) /\ io[d][r].sizeChanged
               /\ run[r] \in [at : Calls, ds : Datasets, row : Nat, cursor : Nat]
    BY <1>1, <1>3, <1>4, Lengths DEF HInv, InRow, Written, RowCalls, Changed, TypeInv
  <1> DEFINE w == run[0].row
             N == Len(io[d][0].counts)
             h == io[d][0].writeHead
             n == h - base + 1
             s == log[d][n]
  <1>6. ASSUME NEW r \in Ranks
        PROVE  run[r].row = w /\ Len(io[d][r].counts) = N /\ io[d][r].writeHead = h
    <2>1. run[r].row = w
      BY <1>3, <1>4 DEF SameRow
    <2>2. Len(io[d][r].counts) = N
      BY <1>4, <1>5 DEF AgreeInv
    <2>3. Rest(d, r) = Rest(d, 0)
      BY <1>4, <1>5, <2>1, <2>2 DEF Rest
    <2>4. io[d][r].writeHead = h
      BY <1>4, <1>5, <2>3 DEF ObjectInv
    <2> QED BY <2>1, <2>2, <2>4
  <1>7. /\ w \in Nat /\ N \in Nat /\ h \in Nat /\ base \in Nat /\ Len(log[d]) \in Nat
        /\ w + 1 \in 1 .. N /\ n \in 1 .. Len(log[d])
        /\ w + 1 = N <=> n = Len(log[d])
    <2>1. w + 1 \in 1 .. N /\ n \in 1 .. Len(log[d])
      BY <1>4, <1>5, TheRow
    <2>2. w \in Nat /\ N \in Nat /\ h \in Nat /\ base \in Nat /\ Len(log[d]) \in Nat
      BY <1>4, <1>5, Lengths, HeadWithin
    <2>3. w + 1 = N <=> n = Len(log[d])
      BY <1>4, <1>5, TheRow
    <2> QED BY <2>1, <2>2, <2>3
  <1>8. s \in [Ranks -> Nat] /\ IsPartition(d, s)
    <2>1. s \in [Ranks -> Nat]
      BY <1>4, <1>7, Lengths
    <2>2. RowInv(d, 0)
      BY <1>3, <1>4
    <2> QED BY <2>1, <2>2 DEF RowInv
  <1>9. ASSUME NEW r \in Ranks
        PROVE  io[d][r].counts[w + 1] = s[r] /\ (io[d][r].member <=> s[r] > 0)
    <2>1. io[d][r].counts[run[r].row + 1] = log[d][io[d][r].writeHead - base + 1][r]
      BY <1>4, <1>5, TheRow
    <2>2. io[d][r].member <=> s[r] > 0
      BY <1>8 DEF IsPartition
    <2> QED BY <1>6, <2>1, <2>2
  <1>10. ASSUME NEW r \in Ranks, io[d][r].member
         PROVE  /\ io'[d][r] = io[d][r]
                /\ run'[r].at = "writeRow" /\ run'[r].ds = d
                /\ run'[r].row = run[r].row /\ run'[r].cursor = run[r].cursor
                /\ run'[r] \in [at : Calls, ds : Datasets, row : Nat, cursor : Nat]
    <2>1. io'[d][r] = io[d][r]
      BY <1>1, <1>10, BarrierStep, LeftOf
    <2>2. run'[r] = [run[r] EXCEPT !.at = "writeRow"]
      BY Zenon, <1>1, <1>2, <1>10, LeaveRow
    <2>3. "writeRow" \in Calls
      BY DEF Calls, WriteCalls, RowCalls
    <2> QED BY <1>1, <1>5, <2>1, <2>2, <2>3
  <1>11. ASSUME NEW r \in Ranks, ~io[d][r].member
         PROVE  /\ RowPassed(d, r)
                /\ io'[d][r].globalCount = io[d][r].globalCount
                /\ io'[d][r].offset = io[d][r].offset /\ io'[d][r].member = io[d][r].member
                /\ run'[r].at \in {"written", "splitRow"}
                /\ run'[r].at = "written" <=> w + 1 = N
                /\ run'[r] \in [at : Calls, ds : Datasets, row : Nat, cursor : Nat]
    <2> DEFINE o == Passed(io[d][r])
               p == io'[d][r]
               k == run[r].row + 1
               call == NextCall(o, k)
    <2>1. p = NextObject(o, run[r].row + 1)
      BY <1>1, <1>11, BarrierStep, LeftOf
    <2>2. /\ call = NextCall(o, run[r].row + 1) /\ o \in Object
          /\ o.dims = io[d][r].dims /\ o.dataBuffer = io[d][r].dataBuffer
          /\ o.bufferHead = io[d][r].bufferHead /\ o.counts = io[d][r].counts
          /\ o.writeLimit = io[d][r].writeLimit /\ o.highwater = io[d][r].highwater
          /\ o.globalCount = io[d][r].globalCount /\ o.offset = io[d][r].offset
          /\ o.sizeChanged = io[d][r].sizeChanged /\ o.member = io[d][r].member
          /\ o.writeHead = io[d][r].writeHead + 1
      <3> DEFINE c == io[d][r]
      <3>1. c \in Object /\ o = [c EXCEPT !.writeHead = @ + 1]
        BY <1>5 DEF Passed
      <3>2. c.writeHead + 1 \in Nat
        BY SMTT(40), <3>1 DEF Object
      <3> HIDE DEF c, o
      <3>3. /\ o \in Object
            /\ o.dims = c.dims /\ o.dataBuffer = c.dataBuffer
            /\ o.bufferHead = c.bufferHead /\ o.counts = c.counts
            /\ o.writeLimit = c.writeLimit /\ o.highwater = c.highwater
            /\ o.globalCount = c.globalCount /\ o.offset = c.offset
            /\ o.sizeChanged = c.sizeChanged /\ o.member = c.member
            /\ o.writeHead = c.writeHead + 1
        BY <3>1, <3>2 DEF Object
      <3> QED BY <3>3 DEF c
    <2>3. run'[r] = [run[r] EXCEPT !.row = k, !.at = call]
      BY Zenon, <1>1, <1>2, <1>11, LeaveRow
    <2>4. k = w + 1 /\ k \in Nat
      BY SMTT(40), <1>6, <1>7
    <2> HIDE DEF p, o, call
    <2>5. /\ p \in Object /\ p.dims = io[d][r].dims /\ p.dataBuffer = io[d][r].dataBuffer
          /\ p.writeLimit = io[d][r].writeLimit /\ p.highwater = io[d][r].highwater
          /\ p.globalCount = io[d][r].globalCount /\ p.offset = io[d][r].offset
          /\ p.member = io[d][r].member /\ p.writeHead = io[d][r].writeHead + 1
      BY <1>4, <1>5, <2>1, <2>2, RowCall
    <2>6. /\ call = "written" => ~p.sizeChanged /\ p.counts = << >> /\ p.bufferHead = 0
          /\ call # "written" => /\ p.sizeChanged = io[d][r].sizeChanged
                                 /\ p.counts = io[d][r].counts
                                 /\ p.bufferHead = io[d][r].bufferHead
      BY <1>4, <1>5, <2>1, <2>2, RowCall
    <2>7. /\ call \in {"written", "splitRow", "writeRow"}
          /\ call = "written" <=> run[r].row + 1 = Len(io[d][r].counts)
          /\ call = "splitRow" <=> run[r].row + 1 # Len(io[d][r].counts) /\ io[d][r].sizeChanged
      BY <1>4, <1>5, <2>1, <2>2, RowCall
    <2>8. call \in Calls /\ call \in {"written", "splitRow"}
      BY <1>5, <2>7 DEF Calls, WriteCalls, RowCalls
    <2>9. /\ run'[r].at = call /\ run'[r].ds = run[r].ds /\ run'[r].row = k
          /\ run'[r].cursor = run[r].cursor
          /\ run'[r] \in [at : Calls, ds : Datasets, row : Nat, cursor : Nat]
      <3> HIDE DEF k
      <3> QED BY ZenonT(40), <1>5, <2>3, <2>4, <2>8
    <2>10. run[r].cursor = run[r].cursor + io[d][r].counts[run[r].row + 1]
      <3>1. io[d][r].counts[w + 1] = 0
        <4>1. s[r] \in Nat /\ ~(s[r] > 0)
          BY <1>8, <1>9, <1>11
        <4>2. s[r] = 0
          <5> HIDE DEF s
          <5> QED BY <4>1
        <4> QED BY <1>9, <4>2
      <3>2. run[r].row + 1 = w + 1 /\ run[r].cursor \in Nat
        BY <1>5, <1>6
      <3>3. io[d][r].counts[run[r].row + 1] = 0
        BY <3>1, <3>2
      <3> QED BY <3>2, <3>3
    <2>11. call = "written" <=> w + 1 = N
      BY <1>6, <2>7
    <2>12. RowPassed(d, r)
      BY <1>1, <2>5, <2>6, <2>7, <2>9, <2>10 DEF RowPassed, p
    <2> QED BY <2>5, <2>8, <2>9, <2>11, <2>12 DEF p
  <1> HIDE DEF w, N, h, n, s
  <1>12. \A e \in Datasets : e # d => io'[e] = io[e] /\ file'[e] = file[e]
    <2> SUFFICES ASSUME NEW e \in Datasets, e # d PROVE io'[e] = io[e]
      BY <1>2
    <2>1. io'[e] = [r \in Ranks |-> io'[e][r]] /\ io[e] = [r \in Ranks |-> io[e][r]]
      BY <1>2, <1>4 DEF TypeInv
    <2>2. \A r \in Ranks : io'[e][r] = io[e][r]
      BY <1>1, BarrierStep
    <2> QED BY <2>1, <2>2
  <1>13. TypeInv'
    <2>1. ASSUME NEW r \in Ranks
          PROVE  /\ io'[d][r] \in Object
                 /\ run'[r] \in [at : Calls, ds : Datasets, row : Nat, cursor : Nat]
      <3>1. CASE io[d][r].member
        BY <1>5, <1>10, <3>1
      <3>2. CASE ~io[d][r].member
        BY <1>11, <3>2 DEF RowPassed
      <3> QED BY <3>1, <3>2
    <2>2. io'[d] \in [Ranks -> Object]
      <3>1. io'[d] = [r \in Ranks |-> io'[d][r]]
        BY <1>2
      <3> QED BY <2>1, <3>1
    <2>3. \A e \in Datasets : io'[e] \in [Ranks -> Object]
      BY <1>4, <1>12, <2>2 DEF TypeInv
    <2>4. io' \in [Datasets -> [Ranks -> Object]]
      BY <1>2, <2>3
    <2>5. run' \in [Ranks -> [at : Calls, ds : Datasets, row : Nat, cursor : Nat]]
      BY <1>2, <2>1
    <2> QED BY <1>2, <1>4, <2>4, <2>5 DEF TypeInv, IsFile
  <1>14. ASSUME NEW r \in Ranks PROVE ObjectInv(d, r)'
    <2>1. UNCHANGED <<log, base, starts>> /\ log'[d] = log[d]
      BY <1>2
    <2>2. CASE io[d][r].member
      <3>1. InRow(d, r)' /\ ~Early(d, r)' /\ ~Written(d, r)'
        BY <1>10, <2>2 DEF InRow, Early, Written, RowCalls, EarlyCalls
      <3> QED BY <1>5, <1>10, <2>1, <2>2, <3>1, KeptObject
    <2>3. CASE ~io[d][r].member
      <3>1. RowInv(d, r) /\ HeadFits(d) /\ RowPassed(d, r)
        BY <1>3, <1>11, <2>3
      <3> QED BY <1>4, <1>5, <2>1, <3>1, RowPassedObject
    <2> QED BY <2>2, <2>3
  <1>15. ASSUME NEW r \in Ranks PROVE RowsIn(d, r)'
    <2>1. CASE io[d][r].member
      BY <1>2, <1>5, <1>10, <2>1 DEF RowsIn
    <2>2. CASE ~io[d][r].member
      <3> SUFFICES ASSUME NEW m \in 1 .. io'[d][r].writeHead - base, NEW k \in 1 .. log[d][m][r]
                   PROVE  LET p == <<base + m - 1, Before(log[d][m], r) + k - 1>>
                          IN  p \in DOMAIN file[d].cell /\ file[d].cell[p] = <<starts, m, r, k>>
        BY <1>2 DEF RowsIn
      <3>1. io'[d][r].writeHead = h + 1
        BY <1>6, <1>11, <2>2 DEF RowPassed
      <3>2. n = h - base + 1
        BY DEF n
      <3>3. m # n
        <4> SUFFICES ASSUME m = n PROVE FALSE
          OBVIOUS
        <4>1. s[r] \in Nat /\ ~(s[r] > 0) /\ s = log[d][m]
          BY <1>8, <1>9, <2>2 DEF s
        <4> QED BY <4>1
      <3>4. m \in 1 .. io[d][r].writeHead - base
        <4>1. m \in 1 .. n
          BY <1>7, <3>1, <3>2
        <4>2. m \in 1 .. h - base
          BY <1>7, <3>2, <3>3, <4>1
        <4> QED BY <1>6, <4>2
      <3> QED BY <1>5, <3>4 DEF RowsIn
    <2> QED BY <2>1, <2>2
  <1>16. ASSUME NEW r \in Ranks
         PROVE  /\ io'[d][r].writeLimit = io[d][r].writeLimit
                /\ io'[d][r].highwater = io[d][r].highwater
                /\ io'[d][r].globalCount = io[d][r].globalCount
                /\ io'[d][r].offset = io[d][r].offset /\ io'[d][r].dims = io[d][r].dims
                /\ io'[d][r].member = io[d][r].member
                /\ ~Written(d, r)' => io'[d][r].counts = io[d][r].counts
    <2>1. CASE io[d][r].member
      BY <1>10, <2>1
    <2>2. CASE ~io[d][r].member
      BY <1>11, <2>2 DEF RowPassed, Written
    <2> QED BY <2>1, <2>2
  <1>17. AgreeInv(d)'
    <2>1. ASSUME NEW q \in Ranks, NEW r \in Ranks
          PROVE  /\ io'[d][q].writeLimit = io'[d][r].writeLimit
                 /\ io'[d][q].highwater = io'[d][r].highwater
                 /\ io'[d][q].globalCount = io'[d][r].globalCount
      BY <1>4, <1>16 DEF AgreeInv
    <2>2. ASSUME NEW q \in Ranks, io'[d][q].globalCount # 0 PROVE \E m \in Ranks : io'[d][m].member
      <3>1. PICK m \in Ranks : io[d][m].member
        BY <1>4, <1>16, <2>2 DEF AgreeInv
      <3> QED BY <1>16, <3>1
    <2>3. ASSUME NEW q \in Ranks, NEW r \in Ranks, ~Written(d, q)', ~Written(d, r)'
          PROVE  Len(io'[d][q].counts) = Len(io'[d][r].counts)
      <3>1. io'[d][q].counts = io[d][q].counts /\ io'[d][r].counts = io[d][r].counts
        BY <1>16, <2>3
      <3> QED BY <1>6, <3>1
    <2> QED BY <2>1, <2>2, <2>3 DEF AgreeInv
  <1>18. /\ recordCount' = Target(1)'
         /\ \A e \in Datasets : e # d => Ready(e)'
         /\ \A e \in Datasets : e < d => Flushed(e)'
    <2>1. recordCount' = Target(1)'
      BY <1>2 DEF Writing, Target
    <2>2. ASSUME NEW e \in Datasets, e # d PROVE Ready(e)' /\ (e < d => Flushed(e)')
      <3>1. Ready(e) /\ (e < d => Flushed(e))
        BY <2>2 DEF Writing
      <3>2. io'[e] = io[e] /\ file'[e] = file[e] /\ log'[e] = log[e] /\ UNCHANGED <<base, starts>>
        BY <1>2, <1>12, <2>2
      <3> QED BY <3>1, <3>2, KeptDataset
    <2>3. \A e \in Datasets : e < d => e # d
      BY TheRanks
    <2> QED BY <2>1, <2>2, <2>3
  <1>19. /\ Fits(d)' /\ HeadFits(d)' /\ Subcomm(d)' = Subcomm(d) /\ Dims(d)' = Dims(d)
         /\ \A x : IsPartition(d, x) => IsPartition(d, x)'
    <2>1. Fits(d)'
      BY <1>2, <1>3, <1>16 DEF Fits
    <2>2. HeadFits(d)'
      BY <1>2, <1>3, <1>16 DEF HeadFits, Target
    <2>3. Subcomm(d)' = Subcomm(d)
      BY <1>16 DEF Subcomm
    <2>4. Dims(d)' = Dims(d)
      BY <1>16 DEF Dims
    <2>5. \A x : IsPartition(d, x) => IsPartition(d, x)'
      BY <1>16 DEF IsPartition
    <2> QED BY <2>1, <2>2, <2>3, <2>4, <2>5
  <1>20. ASSUME NEW r \in Ranks, ~io[d][r].member
         PROVE  /\ run'[r].ds = d
                /\ w + 1 = N => run'[r].at = "written"
                /\ w + 1 # N => run'[r].at = "splitRow" /\ run'[r].row = w + 1 /\ io'[d][r].sizeChanged
    <2>1. run'[r].at # "written" => io'[d][r].sizeChanged
      BY <1>5, <1>11, <1>20 DEF RowPassed
    <2>2. run'[r].ds = d /\ run'[r].row = w + 1
      BY <1>6, <1>11, <1>20 DEF RowPassed
    <2> QED BY <1>11, <1>20, <2>1, <2>2
  <1>21. Writing(d)'
    <2>1. CASE Subcomm(d) = {} /\ w + 1 = N
      <3>1. \A r \in Ranks : ~io[d][r].member
        BY <2>1 DEF Subcomm
      <3>2. All(d, "written")'
        BY <1>20, <2>1, <3>1 DEF All
      <3>3. Dims(d) = s
        <4>1. n = Len(log[d]) /\ log[d] # << >>
          BY <1>7, <2>1
        <4>2. \A r \in Ranks : io[d][r].dims = s[r]
          BY <1>5, <4>1 DEF ObjectInv, s
        <4> QED BY <1>8, <4>2 DEF Dims
      <3>4. IsPartition(d, Dims(d))'
        BY <1>8, <1>19, <3>3 DEF IsPartition
      <3>5. Ready(d)'
        BY <1>19, <3>4 DEF Ready, Known
      <3> QED BY <1>18, <3>2, <3>5 DEF Writing
    <2>2. CASE Subcomm(d) = {} /\ w + 1 # N
      <3>1. \A r \in Ranks : ~io[d][r].member
        BY <2>2 DEF Subcomm
      <3>2. \A r \in Ranks : /\ run'[r].ds = d /\ run'[r].at = "splitRow" /\ run'[r].row = w + 1
                             /\ io'[d][r].sizeChanged
        BY <1>20, <2>2, <3>1
      <3>3. All(d, "splitRow")' /\ SameRow(d)' /\ Changed(d)'
        BY <3>2 DEF All, SameRow, Changed
      <3> QED BY <1>18, <1>19, <3>3 DEF Writing
    <2>3. CASE Subcomm(d) # {}
      <3>1. ASSUME NEW r \in Subcomm(d)
            PROVE  /\ r \in Ranks /\ run'[r].ds = d /\ run'[r].at = "writeRow" /\ run'[r].row = w
                   /\ io'[d][r].sizeChanged /\ io'[d][r].sizeChanged \in BOOLEAN
                   /\ Len(io'[d][r].counts) = N /\ io'[d][r] = io[d][r]
        <4>1. r \in Ranks /\ io[d][r].member
          BY DEF Subcomm
        <4>2. io[d][r].sizeChanged \in BOOLEAN
          BY <1>5, <4>1 DEF Object
        <4> QED BY <1>5, <1>6, <1>10, <4>1, <4>2
      <3>2. ASSUME NEW r \in Subcomm(d) PROVE RowInv(d, r)'
        <4>1. RowInv(d, r) /\ r \in Ranks /\ io'[d][r] = io[d][r]
          BY <1>3, <3>1
        <4> QED BY <1>2, <1>16, <4>1 DEF RowInv, IsPartition
      <3>3. ASSUME NEW q \in Subcomm(d), NEW r \in Subcomm(d)
            PROVE  run'[q].row = run'[r].row /\ io'[d][q].sizeChanged = io'[d][r].sizeChanged
        <4>1. run'[q].row = w /\ io'[d][q].sizeChanged /\ io'[d][q].sizeChanged \in BOOLEAN
          BY <3>1
        <4>2. run'[r].row = w /\ io'[d][r].sizeChanged /\ io'[d][r].sizeChanged \in BOOLEAN
          BY <3>1
        <4> QED BY <4>1, <4>2
      <3>4. ASSUME NEW r \in Subcomm(d), NEW q \in Ranks \ Subcomm(d)
            PROVE  /\ run'[q].ds = d
                   /\ IF io'[d][r].sizeChanged /\ run'[r].row + 1 < Len(io'[d][r].counts)
                      THEN run'[q].at = "splitRow" /\ run'[q].row = run'[r].row + 1 /\ io'[d][q].sizeChanged
                      ELSE run'[q].at = "written"
        <4>1. ~io[d][q].member
          BY DEF Subcomm
        <4>2. io'[d][r].sizeChanged /\ run'[r].row = w /\ Len(io'[d][r].counts) = N
          BY <3>1
        <4>3. w + 1 < N <=> w + 1 # N
          BY <1>7
        <4> QED BY <1>20, <4>1, <4>2, <4>3
      <3>5. WritingRow(d)'
        <4>1. \A r \in Subcomm(d)' : run'[r].ds = d /\ run'[r].at = "writeRow" /\ RowInv(d, r)'
          BY <1>19, <3>1, <3>2
        <4>2. \A q, r \in Subcomm(d)' :
                  run'[q].row = run'[r].row /\ io'[d][q].sizeChanged = io'[d][r].sizeChanged
          BY <1>19, <3>3
        <4>3. \A r \in Subcomm(d)', q \in Ranks \ Subcomm(d)' :
                 /\ run'[q].ds = d
                 /\ IF io'[d][r].sizeChanged /\ run'[r].row + 1 < Len(io'[d][r].counts)
                    THEN run'[q].at = "splitRow" /\ run'[q].row = run'[r].row + 1 /\ io'[d][q].sizeChanged
                    ELSE run'[q].at = "written"
          BY <1>19, <3>4
        <4>4. \A r \in Subcomm(d)' : io'[d][r].sizeChanged
          BY <1>19, <3>1
        <4> QED BY <1>19, <2>3, <4>1, <4>2, <4>3, <4>4 DEF WritingRow
      <3> QED BY <1>18, <3>5 DEF Writing
    <2> QED BY <2>1, <2>2, <2>3
  <1>22. \A r \in Ranks : run[r].ds = d /\ run'[r].ds = d
    BY <1>1, <1>10, <1>20
  <1> QED BY <1>2, <1>12, <1>13, <1>14, <1>15, <1>17, <1>21, <1>22, StepInv

LEMMA BarrierHInv == ASSUME HInv, Barrier PROVE HInv'
  <1>1. ~Waiting
    BY BarrierStep, TheRanks DEF Waiting, Idle, Barriers, InitBarriers, WriteBarriers, CloseBarriers
  <1>2. PICK d \in Datasets : Starting(d) \/ Apart(d) \/ Writing(d) \/ Closing(d)
    BY <1>1 DEF HInv
  <1>3. CASE Writing(d)
    BY <1>3, WritingBarrier, BarrierGrown, BarrierFitted, BarrierWritten
  <1>4. CASE Closing(d)
    BY <1>4, BarrierClosed, BarrierCompressed
  <1> QED BY <1>2, <1>3, <1>4, BarrierStarting, BarrierApart
-----------------------------------------------------------------------------
(* The theorems.                                                             *)

LEMMA NextHInv == ASSUME HInv, Next PROVE HInv'
  <1>1. CASE CollectiveStep
    BY <1>1, BarrierHInv, InitPartitionHInv, OpenHInv, ReduceHInv, RowPartitionHInv, WriteRowHInv,
       UpdateExtentHInv DEF CollectiveStep
  <1>2. CASE Operation
    BY <1>2, CollectHInv, OutputHInv, SaveRestartHInv, RestartHInv DEF Operation
  <1> QED BY <1>1, <1>2 DEF Next

\* What a step may not change without an action, stays.
LEMMA StutterHInv == ASSUME HInv, UNCHANGED vars PROVE HInv'
  <1>1. /\ io' = io /\ run' = run /\ file' = file /\ log' = log /\ base' = base /\ starts' = starts
        /\ recordCount' = recordCount /\ saved' = saved /\ closing' = closing
    BY DEF vars
  <1>2. ASSUME NEW sizes, NEW d \in Datasets
        PROVE  IsPartition(d, sizes)' <=> IsPartition(d, sizes)
    BY <1>1 DEF IsPartition
  <1>3. ASSUME NEW d \in Datasets PROVE Dims(d)' = Dims(d) /\ Subcomm(d)' = Subcomm(d) /\ Target(d)' = Target(d)
    BY <1>1 DEF Dims, Subcomm, Target
  <1>4. TypeInv'
    BY <1>1 DEF HInv, TypeInv, IsFile
  <1>5. ASSUME NEW d \in Datasets PROVE AgreeInv(d)'
    BY <1>1 DEF HInv, AgreeInv, Written
  <1>6. ASSUME NEW d \in Datasets, NEW r \in Ranks PROVE ObjectInv(d, r)'
    <2>1. /\ BufferInv(d, r)' <=> BufferInv(d, r)
          /\ InRow(d, r)' <=> InRow(d, r)
          /\ Early(d, r)' <=> Early(d, r)
          /\ Written(d, r)' <=> Written(d, r)
          /\ Rest(d, r)' = Rest(d, r)
      BY <1>1 DEF BufferInv, InRow, Early, Written, Rest
    <2> QED BY <2>1, <1>1, <1>3 DEF HInv, ObjectInv
  <1>7. ASSUME NEW d \in Datasets, NEW r \in Ranks PROVE RowsIn(d, r)'
    BY <1>1 DEF HInv, RowsIn
  <1>8. ASSUME NEW d \in Datasets
        PROVE  /\ Known(d)' <=> Known(d)
               /\ Fits(d)' <=> Fits(d)
               /\ Ready(d)' <=> Ready(d)
               /\ Flushed(d)' <=> Flushed(d)
               /\ HeadFits(d)' <=> HeadFits(d)
               /\ SameChange(d)' <=> SameChange(d)
               /\ SameRow(d)' <=> SameRow(d)
               /\ Changed(d)' <=> Changed(d)
    <2>1. Known(d)' <=> Known(d)
      BY <1>1, <1>2, <1>3 DEF Known
    <2>2. Fits(d)' <=> Fits(d)
      BY <1>1 DEF Fits
    <2>3. HeadFits(d)' <=> HeadFits(d)
      BY <1>1, <1>3 DEF HeadFits
    <2> QED BY <1>1, <2>1, <2>2, <2>3 DEF Ready, Flushed, SameChange, SameRow, Changed
  <1>9. ASSUME NEW d \in Datasets
        PROVE  /\ \A a : All(d, a)' <=> All(d, a)
               /\ \A R, a, b : Together(d, R, a, b)' <=> Together(d, R, a, b)
               /\ \A r \in Ranks : RowInv(d, r)' <=> RowInv(d, r)
    BY <1>1, <1>2 DEF All, Together, RowInv
  <1>10. CASE Waiting
    BY <1>10, <1>1, <1>4, <1>5, <1>6, <1>7, <1>8 DEF HInv, Waiting, Idle
  <1>11. CASE \E d \in Datasets : Starting(d) \/ Apart(d) \/ Writing(d) \/ Closing(d)
    <2> PICK d \in Datasets : Starting(d) \/ Apart(d) \/ Writing(d) \/ Closing(d)
      BY <1>11
    <2>1. CASE Starting(d)
      <3>1. Starting(d)'
        BY <2>1, <1>1, <1>2, <1>3, <1>8, <1>9 DEF Starting
      <3> QED BY <3>1, <1>4, <1>5, <1>6, <1>7 DEF HInv
    <2>2. CASE Apart(d)
      <3>1. Apart(d)'
        BY <2>2, <1>1, <1>9 DEF Apart
      <3> QED BY <3>1, <1>4, <1>5, <1>6, <1>7 DEF HInv
    <2>3. CASE Writing(d)
      <3>1. ASSUME WritingRow(d) PROVE WritingRow(d)'
        <4>1. /\ Subcomm(d) # {}
              /\ \A r \in Subcomm(d) : r \in Ranks
              /\ \A r \in Subcomm(d) : RowInv(d, r)'
          BY <3>1, <1>9 DEF WritingRow, Subcomm
        <4>2. ASSUME NEW r \in Subcomm(d), ~io[d][r].sizeChanged
              PROVE  \A n \in io[d][r].writeHead - base + 1 .. Len(log[d]) : IsPartition(d, log[d][n])'
          <5>1. \A n \in io[d][r].writeHead - base + 1 .. Len(log[d]) : IsPartition(d, log[d][n])
            BY <3>1, <4>2 DEF WritingRow
          <5>2. ASSUME NEW n \in io[d][r].writeHead - base + 1 .. Len(log[d])
                PROVE  IsPartition(d, log[d][n])'
            <6>1. log[d][n]' = log[d][n]
              BY <1>1
            <6> QED BY <5>1, <1>1 DEF IsPartition
          <5> QED BY <5>2
        <4>3. \A r \in Subcomm(d) : run[r].ds = d /\ run[r].at = "writeRow"
          BY <3>1 DEF WritingRow
        <4>4. \A q, r \in Subcomm(d) : run[q].row = run[r].row /\ io[d][q].sizeChanged = io[d][r].sizeChanged
          BY <3>1 DEF WritingRow
        <4>5. \A r \in Subcomm(d), q \in Ranks \ Subcomm(d) :
                /\ run[q].ds = d
                /\ IF io[d][r].sizeChanged /\ run[r].row + 1 < Len(io[d][r].counts)
                   THEN run[q].at = "splitRow" /\ run[q].row = run[r].row + 1 /\ io[d][q].sizeChanged
                   ELSE run[q].at = "written"
          BY <3>1 DEF WritingRow
        <4>6. Fits(d)' /\ HeadFits(d)'
          BY <3>1, <1>8 DEF WritingRow
        <4> QED BY <4>1, <4>2, <4>3, <4>4, <4>5, <4>6, <1>1, <1>3 DEF WritingRow
      <3>2. Writing(d)'
        BY <2>3, <3>1, <1>1, <1>3, <1>8, <1>9 DEF Writing, Target
      <3> QED BY <3>2, <1>4, <1>5, <1>6, <1>7 DEF HInv
    <2>4. CASE Closing(d)
      <3>1. Closing(d)'
        BY <2>4, <1>1, <1>3, <1>8, <1>9 DEF Closing, Target
      <3> QED BY <3>1, <1>4, <1>5, <1>6, <1>7 DEF HInv
    <2> QED BY <2>1, <2>2, <2>3, <2>4
  <1> QED BY <1>10, <1>11 DEF HInv

\* The invariant holds of every state of the output, between operations and
\* inside them.
THEOREM HistoryInvariant == Spec => []HInv
  <1>1. Init => HInv
    BY InitHInv
  <1>2. HInv /\ [Next]_vars => HInv'
    BY NextHInv, StutterHInv
  <1> QED BY <1>1, <1>2, PTL DEF Spec

\* Between operations every rank has the same limit, the same widest row and
\* the same number of rows written and waiting, in every dataset: the next
\* collective calls of write() and compressInFile() find all ranks at one place.
THEOREM RanksAgreeBetweenOperations == Spec => []RanksAgree
  <1>1. ASSUME HInv PROVE RanksAgree
    <2> SUFFICES ASSUME Idle, NEW d \in Datasets, NEW q \in Ranks, NEW r \in Ranks
                 PROVE  /\ io[d][q].writeHead = io[d][r].writeHead
                        /\ io[d][q].writeLimit = io[d][r].writeLimit
                        /\ io[d][q].highwater = io[d][r].highwater
                        /\ Len(io[d][q].counts) = Len(io[d][r].counts)
      BY DEF RanksAgree
    <2>1. run[q].at = "idle" /\ run[r].at = "idle"
      BY DEF Idle
    <2>2. ~InRow(d, q) /\ ~InRow(d, r) /\ ~Written(d, q) /\ ~Written(d, r)
      BY <2>1 DEF InRow, Written, RowCalls
    <2>3. /\ io[d][q].writeLimit = io[d][r].writeLimit
          /\ io[d][q].highwater = io[d][r].highwater
          /\ Len(io[d][q].counts) = Len(io[d][r].counts)
      BY <1>1, <2>2 DEF HInv, AgreeInv
    <2>4. io[d][q].writeHead = Target(d) - Rest(d, q) /\ io[d][r].writeHead = Target(d) - Rest(d, r)
      BY <1>1 DEF HInv, ObjectInv
    <2>5. Rest(d, q) = Rest(d, r)
      BY <2>2, <2>3 DEF Rest
    <2> QED BY <2>3, <2>4, <2>5
  <1>2. HInv => RanksAgree
    BY <1>1
  <1> QED BY <1>2, HistoryInvariant, PTL

\* Between operations the count that goes to the restart file is the number of
\* rows the first dataset has written, on every rank.
THEOREM RecordsAlwaysRows == Spec => []RecordsAreRows
  <1>1. HInv => RecordsAreRows
    BY WhenIdle DEF RecordsAreRows, Waiting
  <1> QED BY <1>1, HistoryInvariant, PTL

\* Every row that a rank counts as written is in the file, the pieces of each
\* rank after those of the lower ranks, in the row that follows the records of
\* the earlier starts; at every step of write(), and through growth, compression
\* and restart.
THEOREM WrittenRowsAreInFile == Spec => []RowsAreInFile
  <1>1. HInv => RowsAreInFile
    BY DEF HInv, RowsIn, RowsAreInFile
  <1> QED BY <1>1, HistoryInvariant, PTL
-----------------------------------------------------------------------------
(* What the file keeps.  A piece collected since the start lies in a column    *)
(* that every rank knows of, because a row is written after the partition that *)
(* counts it and the widest row is forgotten at a start only.                  *)

RecentIn(d) ==
    \A p \in DOMAIN file[d].cell : file[d].cell[p] # Fill =>
        /\ file[d].cell[p][1] \in Nat /\ file[d].cell[p][1] <= starts
        /\ file[d].cell[p][1] = starts => \A r \in Ranks : p[2] < io[d][r].highwater

RecentInv == \A d \in Datasets : RecentIn(d)

LEMMA SameHigh ==
    ASSUME NEW o \in Object, NEW k
    PROVE  /\ NextObject(o, k).highwater = o.highwater
           /\ NextObject([o EXCEPT !.writeHead = @ + 1], k).highwater = o.highwater
           /\ Passed(o).highwater = o.highwater
           /\ [o EXCEPT !.writeLimit = o.writeHead].highwater = o.highwater
  <1>1. ASSUME NEW h PROVE /\ [o EXCEPT !.writeHead = h].highwater = o.highwater
                           /\ Emptied([o EXCEPT !.writeHead = h]).highwater = o.highwater
    BY DEF Object, Emptied
  <1>2. NextObject(o, k).highwater = o.highwater
    BY <1>1 DEF NextObject
  <1> DEFINE q == [o EXCEPT !.writeHead = @ + 1]
  <1>3. q.highwater = o.highwater
    BY DEF Object
  <1>4. ASSUME NEW h PROVE Emptied([q EXCEPT !.writeHead = h]).highwater = o.highwater
    BY DEF Object, Emptied
  <1>5. NextObject(q, k).highwater = o.highwater
    <2> HIDE DEF q
    <2> QED BY <1>3, <1>4 DEF NextObject
  <1> QED BY <1>2, <1>3, <1>5 DEF Passed, Object

\* The widest row a rank knows of never shrinks within a run of the program.
Grows(e) == \A r \in Ranks : io[e][r].highwater <= io'[e][r].highwater

LEMMA SameGrows ==
    ASSUME TypeInv, NEW e \in Datasets, \A r \in Ranks : io'[e][r].highwater = io[e][r].highwater
    PROVE  Grows(e)
  <1>1. \A r \in Ranks : io[e][r].highwater \in Nat
    BY DEF TypeInv, Object
  <1>2. \A x \in Nat : x <= x
    OBVIOUS
  <1> QED BY <1>1, <1>2 DEF Grows

LEMMA PartitionGrows ==
    ASSUME HInv, NEW d \in Datasets, InitPartition(d) \/ RowPartition(d), NEW e \in Datasets
    PROVE  Grows(e)
  <1>1. TypeInv
    BY DEF HInv
  <1>2. ASSUME NEW sizes \in [Ranks -> Nat], io' = [io EXCEPT ![d] = Partitioned(io[d], sizes)]
        PROVE  Grows(e)
    <2> DEFINE os == Partitioned(io[d], sizes)
    <2>1. \A r \in Ranks : io[d][r].highwater <= os[r].highwater
      BY <1>1, PartitionFacts
    <2> HIDE DEF os
    <2>2. io' = [io EXCEPT ![d] = os]
      BY <1>2 DEF os
    <2>3. CASE e = d
      <3>1. io'[e] = os
        BY <1>1, <2>2, <2>3 DEF TypeInv
      <3> QED BY <2>1, <2>3, <3>1 DEF Grows
    <2>4. CASE e # d
      <3>1. io'[e] = io[e]
        BY <1>1, <2>2, <2>4 DEF TypeInv
      <3> QED BY <1>1, <3>1, SameGrows
    <2> QED BY <2>3, <2>4
  <1>3. CASE InitPartition(d)
    <2>1. [r \in Ranks |-> io[d][r].dims] \in [Ranks -> Nat]
      BY <1>1 DEF TypeInv, Object
    <2> QED BY <1>2, <1>3, <2>1 DEF InitPartition
  <1>4. CASE RowPartition(d)
    <2> DEFINE sizes == [r \in Ranks |-> io[d][r].counts[run[r].row + 1]]
    <2>1. ASSUME NEW r \in Ranks PROVE io[d][r].counts[run[r].row + 1] \in Nat
      <3>1. ObjectInv(d, r) /\ InRow(d, r)
        BY <1>4 DEF HInv, RowPartition, At, InRow, RowCalls
      <3>2. run[r].row + 1 \in 1 .. Len(io[d][r].counts)
        BY <1>1, <3>1, TheRow
      <3> QED BY <1>1, <3>2, Lengths
    <2>2. sizes \in [Ranks -> Nat]
      BY <2>1
    <2> QED BY <1>2, <1>4, <2>2 DEF RowPartition
  <1> QED BY <1>3, <1>4

LEMMA ReduceGrows ==
    ASSUME HInv, NEW d \in Datasets, Reduce(d), NEW e \in Datasets
    PROVE  Grows(e)
  <1>1. TypeInv
    BY DEF HInv
  <1>2. ASSUME NEW r \in Ranks, e = d PROVE io'[e][r].highwater = io[e][r].highwater
    <2> DEFINE changed == AnyChanged(d, r)
               o == [io[d][r] EXCEPT !.sizeChanged = changed]
               limit == NextLimit(o)
               grown == [o EXCEPT !.writeLimit = limit]
    <2>1. changed \in BOOLEAN /\ io[d][r] \in Object
      BY <1>1 DEF AnyChanged, TypeInv
    <2>2. io'[d][r] = IF GrowsForever(o) THEN o ELSE IF MustGrow(o) THEN grown ELSE NextObject(o, 0)
      BY <1>1 DEF Reduce, TypeInv
    <2> HIDE DEF changed
    <2>3. o \in Object /\ o.highwater = io[d][r].highwater
      BY <2>1 DEF Object
    <2> HIDE DEF o, limit
    <2>4. grown.highwater = o.highwater
      BY <2>3 DEF Object
    <2>5. NextObject(o, 0).highwater = o.highwater
      BY <2>3, SameHigh
    <2> HIDE DEF grown
    <2> QED BY <1>2, <2>2, <2>3, <2>4, <2>5
  <1>3. ASSUME e # d PROVE io'[e] = io[e]
    BY <1>1, <1>3 DEF Reduce, TypeInv
  <1> QED BY <1>1, <1>2, <1>3, SameGrows

LEMMA WriteRowGrows ==
    ASSUME HInv, NEW d \in Datasets, WriteRow(d), NEW e \in Datasets
    PROVE  \A r \in Ranks : io'[e][r].highwater = io[e][r].highwater
  <1>1. TypeInv
    BY DEF HInv
  <1>2. ASSUME NEW r \in Ranks, e = d PROVE io'[e][r].highwater = io[e][r].highwater
    <2> DEFINE o == [io[d][r] EXCEPT !.writeHead = @ + 1]
               k == run[r].row + 1
    <2>1. io[d][r] \in Object
      BY <1>1 DEF TypeInv
    <2>2. io'[d][r] = IF r \in Subcomm(d) THEN NextObject(o, k) ELSE io[d][r]
      BY <1>1 DEF WriteRow, TypeInv
    <2> HIDE DEF k
    <2>3. NextObject(o, k).highwater = io[d][r].highwater
      BY <2>1, SameHigh
    <2> HIDE DEF o
    <2> QED BY <1>2, <2>2, <2>3
  <1>3. ASSUME e # d PROVE io'[e] = io[e]
    BY <1>1, <1>3 DEF WriteRow, TypeInv
  <1> QED BY <1>2, <1>3

LEMMA BarrierGrows ==
    ASSUME HInv, Barrier, NEW e \in Datasets
    PROVE  Grows(e)
  <1>1. TypeInv
    BY DEF HInv
  <1>2. ASSUME NEW r \in Ranks, run[r].ds = e PROVE Left(r).highwater = io[e][r].highwater
    <2> DEFINE o == io[e][r]
               k == run[r].row + 1
    <2>1. o \in Object /\ run[r].at \in Barriers
      BY <1>1, BarrierStep DEF TypeInv
    <2>2. /\ run[r].at \in InitBarriers \cup {"written", "closed"} => Left(r) = o
          /\ run[r].at = "grown" => Left(r) = NextObject(o, 0)
          /\ run[r].at = "fitted" /\ o.member => Left(r) = o
          /\ run[r].at = "fitted" /\ ~o.member => Left(r) = NextObject(Passed(o), k)
          /\ run[r].at = "compressed" => Left(r) = [o EXCEPT !.writeLimit = o.writeHead]
      BY <1>2, LeftOf
    <2> HIDE DEF o, k
    <2>3. /\ NextObject(o, 0).highwater = o.highwater
          /\ NextObject(Passed(o), k).highwater = o.highwater
          /\ [o EXCEPT !.writeLimit = o.writeHead].highwater = o.highwater
      BY <2>1, SameHigh DEF Passed
    <2>4. \/ run[r].at \in InitBarriers \cup {"written", "closed"}
          \/ run[r].at \in {"grown", "fitted", "compressed"}
      BY <2>1 DEF Barriers, WriteBarriers, CloseBarriers
    <2> QED BY <2>2, <2>3, <2>4 DEF o
  <1>3. \A r \in Ranks : io'[e][r] = IF run[r].ds = e THEN Left(r) ELSE io[e][r]
    BY BarrierStep
  <1>4. \A r \in Ranks : io'[e][r].highwater = io[e][r].highwater
    BY <1>2, <1>3
  <1> QED BY <1>1, <1>4, SameGrows

LEMMA CollectGrows ==
    ASSUME HInv, NEW d \in Datasets, NEW sizes \in [Ranks -> Sizes], Collect(d, sizes), NEW e \in Datasets
    PROVE  Grows(e)
  <1>1. TypeInv
    BY DEF HInv
  <1>2. ASSUME NEW r \in Ranks, e = d PROVE io'[e][r].highwater = io[e][r].highwater
    <2> DEFINE cells == Cells(Len(log[d]) + 1, r, sizes[r])
               o == io[d][r]
               size == sizes[r]
    <2>1. o \in Object
      BY <1>1 DEF TypeInv
    <2>2. io'[d][r] = Collected(o, size, cells)
      BY <1>1 DEF Collect, TypeInv
    <2> HIDE DEF o, size, cells
    <2>3. Collected(o, size, cells).highwater = o.highwater
      BY <2>1 DEF Collected, Object
    <2> QED BY <1>2, <2>2, <2>3 DEF o
  <1>3. ASSUME e # d PROVE io'[e] = io[e]
    BY <1>1, <1>3 DEF Collect, TypeInv
  <1> QED BY <1>1, <1>2, <1>3, SameGrows

\* The steps that start the program again
Restarts == \E sizes \in StartSizes : Restart(sizes) \/ Reinit(sizes)

LEMMA NextGrows ==
    ASSUME HInv, Next, ~Restarts, NEW e \in Datasets
    PROVE  Grows(e) /\ starts' = starts
  <1>1. TypeInv
    BY DEF HInv
  <1>2. ASSUME io' = io PROVE Grows(e)
    BY <1>1, <1>2, SameGrows
  <1>3. ASSUME NEW d \in Datasets, Open(d) \/ \E call \in ExtentCalls : UpdateExtent(d, call)
        PROVE  Grows(e) /\ starts' = starts
    BY <1>2, <1>3 DEF Open, UpdateExtent
  <1>4. ASSUME NEW d \in Datasets, InitPartition(d) \/ RowPartition(d)
        PROVE  Grows(e) /\ starts' = starts
    BY <1>4, PartitionGrows DEF InitPartition, RowPartition
  <1>5. ASSUME NEW d \in Datasets, Reduce(d) PROVE Grows(e) /\ starts' = starts
    BY <1>5, ReduceGrows DEF Reduce
  <1>6. ASSUME NEW d \in Datasets, WriteRow(d) PROVE Grows(e) /\ starts' = starts
    BY <1>1, <1>6, WriteRowGrows, SameGrows DEF WriteRow
  <1>7. ASSUME Barrier PROVE Grows(e) /\ starts' = starts
    BY <1>7, BarrierGrows DEF Barrier
  <1>8. ASSUME NEW d \in Datasets, NEW sizes \in [Ranks -> Sizes], Collect(d, sizes)
        PROVE  Grows(e) /\ starts' = starts
    BY <1>8, CollectGrows DEF Collect
  <1>9. ASSUME SaveRestart \/ \E close \in BOOLEAN : Output(close) PROVE Grows(e) /\ starts' = starts
    BY <1>2, <1>9 DEF SaveRestart, Output
  <1> QED BY <1>3, <1>4, <1>5, <1>6, <1>7, <1>8, <1>9 DEF Next, CollectiveStep, Operation, Restarts

\* A step writes pieces collected since the start, in columns every rank knows of.
Brings(e) ==
    \A p \in DOMAIN file'[e].cell : file'[e].cell[p] # Fill =>
        \/ p \in DOMAIN file[e].cell /\ file'[e].cell[p] = file[e].cell[p]
        \/ file'[e].cell[p][1] = starts /\ \A r \in Ranks : p[2] < io'[e][r].highwater

LEMMA ExtendedBrings ==
    ASSUME NEW f, NEW rows, NEW cols, NEW p \in DOMAIN Extended(f, rows, cols).cell,
           Extended(f, rows, cols).cell[p] # Fill
    PROVE  p \in DOMAIN f.cell /\ Extended(f, rows, cols).cell[p] = f.cell[p]
  BY DEF Extended

LEMMA SameBrings ==
    ASSUME NEW e \in Datasets, file'[e] = file[e]
    PROVE  Brings(e)
  BY DEF Brings

LEMMA ExtentBrings ==
    ASSUME HInv, NEW d \in Datasets, NEW call \in ExtentCalls, UpdateExtent(d, call), NEW e \in Datasets
    PROVE  Brings(e)
  <1> DEFINE o == io[d][Min(Subcomm(d))]
             rows == RowLimit(o, call)
             cols == o.highwater
  <1>1. file = [c \in Datasets |-> file[c]]
    BY DEF HInv, TypeInv
  <1>2. file' = [file EXCEPT ![d] = Extended(file[d], rows, cols)]
    BY DEF UpdateExtent
  <1> HIDE DEF rows, cols
  <1>3. CASE e = d
    <2>1. file'[e] = Extended(file[e], rows, cols)
      BY <1>1, <1>2, <1>3
    <2> QED BY <2>1, ExtendedBrings DEF Brings
  <1>4. CASE e # d
    <2>1. file'[e] = file[e]
      BY <1>1, <1>2, <1>4
    <2> QED BY <2>1, SameBrings
  <1> QED BY <1>3, <1>4

LEMMA OpenBrings ==
    ASSUME HInv, NEW d \in Datasets, Open(d), NEW e \in Datasets
    PROVE  Brings(e)
  <1> DEFINE o == io[d][Min(Openers(io[d]))]
             rows == o.writeLimit
             cols == o.highwater
             count == o.globalCount
  <1>1. file = [c \in Datasets |-> file[c]]
    BY DEF HInv, TypeInv
  <1>2. \/ file' = [file EXCEPT ![d] = Extended(NoDataset, rows, count)]
        \/ file' = [file EXCEPT ![d] = Extended(file[d], rows, cols)]
        \/ file' = file
    BY DEF Open
  <1> HIDE DEF rows, cols, count
  <1>3. CASE e # d
    <2>1. file'[e] = file[e]
      BY <1>1, <1>2, <1>3
    <2> QED BY <2>1, SameBrings
  <1>4. CASE e = d
    <2>1. \/ file'[e] = Extended(NoDataset, rows, count)
          \/ file'[e] = Extended(file[e], rows, cols)
          \/ file'[e] = file[e]
      BY <1>1, <1>2, <1>4
    <2>2. DOMAIN NoDataset.cell = {}
      BY DEF NoDataset
    <2>3. ASSUME file'[e] = Extended(NoDataset, rows, count) PROVE Brings(e)
      BY <2>2, <2>3, ExtendedBrings DEF Brings
    <2>4. ASSUME file'[e] = Extended(file[e], rows, cols) PROVE Brings(e)
      BY <2>4, ExtendedBrings DEF Brings
    <2> QED BY <2>1, <2>3, <2>4, SameBrings
  <1> QED BY <1>3, <1>4

\* A write changes one row only, the one its ranks have reached.
LEMMA WriteRowCells ==
    ASSUME HInv, NEW d \in Datasets, WriteRow(d)
    PROVE  /\ \A e \in Datasets : e # d => file'[e] = file[e]
           /\ \E r0 \in Subcomm(d) : \E s \in [Ranks -> Nat] :
                 /\ r0 \in Ranks
                 /\ \A r \in Ranks : Total(s) <= io[d][r].highwater
                 /\ HoldsRow(file'[d], d, io[d][r0].writeHead, io[d][r0].writeHead - base + 1, s)
  <1> DEFINE R == Subcomm(d)
  <1>1. PICK r0 \in R : TRUE
    BY DEF WriteRow
  <1>2. TypeInv /\ WritingRow(d)
    <2>1. run[r0].ds = d /\ run[r0].at = "writeRow"
      BY DEF WriteRow, At
    <2> QED BY <2>1, WriteRowPhase DEF HInv
  <1> DEFINE h == io[d][r0].writeHead
             n == h - base + 1
             s == log[d][n]
             g == WrittenTo(file[d], RowPieces(d, R))
  <1>3. r0 \in Ranks /\ ObjectInv(d, r0) /\ InRow(d, r0)
    BY <1>2, OneRow
  <1>4. s \in [Ranks -> Nat]
    <2>1. io[d][r0].writeHead - base + 1 \in 1 .. Len(log[d])
      BY <1>2, <1>3, TheRow
    <2>2. log[d][io[d][r0].writeHead - base + 1] \in [Ranks -> Nat]
      BY <1>2, <1>3, <2>1, Lengths
    <2> QED BY <2>2
  <1>5. HoldsRow(g, d, h, n, s)
    <2> HIDE DEF g
    <2>1. g = WrittenTo(file[d], RowPieces(d, R))
      BY DEF g
    <2> QED BY <1>2, <2>1, WrittenFile
  <1>6. file'[d] = g /\ \A e \in Datasets : e # d => file'[e] = file[e]
    BY <1>2 DEF WriteRow, TypeInv
  <1>7. \A r \in Ranks : Total(s) <= io[d][r].highwater
    <2>1. RowInv(d, r0)
      BY <1>2 DEF WritingRow
    <2> QED BY <2>1 DEF RowInv, IsPartition
  <1> HIDE DEF g, s
  <1>8. HoldsRow(file'[d], d, h, n, s)
    BY <1>5, <1>6
  <1> QED BY <1>1, <1>3, <1>4, <1>6, <1>7, <1>8

LEMMA WriteRowBrings ==
    ASSUME HInv, NEW d \in Datasets, WriteRow(d), NEW e \in Datasets
    PROVE  Brings(e)
  <1>1. PICK r0 \in Subcomm(d) : \E s \in [Ranks -> Nat] :
            /\ r0 \in Ranks
            /\ \A r \in Ranks : Total(s) <= io[d][r].highwater
            /\ HoldsRow(file'[d], d, io[d][r0].writeHead, io[d][r0].writeHead - base + 1, s)
    BY WriteRowCells
  <1>2. PICK s \in [Ranks -> Nat] :
            /\ \A r \in Ranks : Total(s) <= io[d][r].highwater
            /\ HoldsRow(file'[d], d, io[d][r0].writeHead, io[d][r0].writeHead - base + 1, s)
    BY <1>1
  <1>3. CASE e # d
    BY <1>3, WriteRowCells, SameBrings
  <1>4. CASE e = d
    <2> SUFFICES ASSUME NEW p \in DOMAIN file'[d].cell, file'[d].cell[p] # file[d].cell[p]
                 PROVE  file'[d].cell[p][1] = starts /\ \A r \in Ranks : p[2] < io'[d][r].highwater
      BY <1>2, <1>4 DEF Brings, HoldsRow
    <2>1. DOMAIN file'[d].cell = DOMAIN file[d].cell
      BY <1>2 DEF HoldsRow
    <2>2. file'[d].cell[p][1] = starts /\ p[2] < Total(s)
      BY <1>2, <2>1 DEF HoldsRow
    <2>3. IsFile(file[d]) /\ TypeInv
      BY DEF HInv, TypeInv
    <2>4. p \in Within(file[d].rows, file[d].cols)
      BY <2>1, <2>3 DEF IsFile
    <2>5. file[d].cols \in Nat
      BY <2>3 DEF IsFile
    <2>6. p[2] \in Nat
      BY <2>4, <2>5 DEF Within
    <2>7. ASSUME NEW r \in Ranks PROVE p[2] < io'[d][r].highwater
      <3>1. io'[d][r].highwater = io[d][r].highwater /\ Total(s) <= io[d][r].highwater
        BY <1>2, WriteRowGrows
      <3>2. io[d][r].highwater \in Nat /\ Total(s) \in Nat
        BY <2>3, SumsApart DEF TypeInv, Object
      <3>3. \A x, y, z \in Nat : x < y /\ y <= z => x < z
        OBVIOUS
      <3> QED BY <2>2, <2>6, <3>1, <3>2, <3>3
    <2> QED BY <2>2, <2>7
  <1> QED BY <1>3, <1>4

LEMMA NextBrings ==
    ASSUME HInv, Next, ~Restarts, NEW e \in Datasets
    PROVE  Brings(e)
  <1>1. ASSUME file' = file PROVE Brings(e)
    BY <1>1, SameBrings
  <1>2. ASSUME NEW d \in Datasets, InitPartition(d) \/ RowPartition(d) \/ Reduce(d) PROVE Brings(e)
    BY <1>1, <1>2 DEF InitPartition, RowPartition, Reduce
  <1>3. ASSUME NEW d \in Datasets, NEW sizes, Collect(d, sizes) PROVE Brings(e)
    BY <1>1, <1>3 DEF Collect
  <1>4. ASSUME Barrier \/ SaveRestart \/ \E close \in BOOLEAN : Output(close) PROVE Brings(e)
    BY <1>1, <1>4 DEF Barrier, SaveRestart, Output
  <1> QED BY <1>2, <1>3, <1>4, OpenBrings, ExtentBrings, WriteRowBrings
          DEF Next, CollectiveStep, Operation, Restarts

LEMMA NextRecent == ASSUME HInv, RecentInv, Next, ~Restarts PROVE RecentInv'
  <1>1. starts \in Nat /\ starts' = starts /\ TypeInv /\ TypeInv'
    BY NextGrows, NextHInv, TheRanks DEF HInv, TypeInv
  <1>2. ASSUME NEW e \in Datasets, NEW p \in DOMAIN file'[e].cell, file'[e].cell[p] # Fill
        PROVE  /\ file'[e].cell[p][1] \in Nat /\ file'[e].cell[p][1] <= starts
               /\ file'[e].cell[p][1] = starts => \A r \in Ranks : p[2] < io'[e][r].highwater
    <2> DEFINE c == file'[e].cell[p]
    <2>1. \/ p \in DOMAIN file[e].cell /\ c = file[e].cell[p]
          \/ c[1] = starts /\ \A r \in Ranks : p[2] < io'[e][r].highwater
      BY <1>2, NextBrings DEF Brings
    <2>2. CASE c[1] = starts /\ \A r \in Ranks : p[2] < io'[e][r].highwater
      <3>1. \A x \in Nat : x <= x
        OBVIOUS
      <3> QED BY <1>1, <2>2, <3>1
    <2>3. CASE p \in DOMAIN file[e].cell /\ c = file[e].cell[p]
      <3>1. /\ c[1] \in Nat /\ c[1] <= starts
            /\ c[1] = starts => \A r \in Ranks : p[2] < io[e][r].highwater
        BY <1>2, <2>3 DEF RecentInv, RecentIn
      <3>2. p[2] \in Nat
        <4>1. IsFile(file[e])
          BY <1>1 DEF TypeInv
        <4>2. p \in Within(file[e].rows, file[e].cols) /\ file[e].cols \in Nat
          BY <2>3, <4>1 DEF IsFile
        <4> QED BY <4>2 DEF Within
      <3>3. ASSUME c[1] = starts, NEW r \in Ranks PROVE p[2] < io'[e][r].highwater
        <4>1. p[2] < io[e][r].highwater
          BY <3>1, <3>3
        <4>2. io[e][r].highwater <= io'[e][r].highwater
          BY NextGrows DEF Grows
        <4>3. io[e][r].highwater \in Nat /\ io'[e][r].highwater \in Nat
          BY <1>1 DEF TypeInv, Object
        <4>4. \A x, y, z \in Nat : x < y /\ y <= z => x < z
          OBVIOUS
        <4> QED BY <3>2, <4>1, <4>2, <4>3, <4>4
      <3> QED BY <3>1, <3>3
    <2> QED BY <2>1, <2>2, <2>3
  <1> QED BY <1>1, <1>2 DEF RecentInv, RecentIn

\* A restart leaves the file as it is or empties it.
LEMMA RestartsFile ==
    ASSUME HInv, Restarts
    PROVE  /\ starts' = starts + 1
           /\ \/ file' = file
              \/ /\ file' = [d \in Datasets |-> NoDataset]
                 /\ \A d \in Datasets, r \in Ranks : io'[d][r].writeHead = 0
  <1>1. PICK sizes \in StartSizes : Restart(sizes) \/ Reinit(sizes)
    BY DEF Restarts
  <1>2. PICK records \in Nat : starts' = starts + 1 /\ Start(records, sizes, file)
    BY <1>1 DEF Restart, Reinit, HInv, TypeInv
  <1>3. CASE records = 0
    <2>1. ASSUME NEW d \in Datasets, NEW r \in Ranks PROVE sizes[d][r] \in Nat
      <3>1. sizes[d] \in [Ranks -> Sizes]
        BY StartSizesAssumption
      <3> QED BY <3>1, SizesAssumption
    <2>2. ASSUME NEW d \in Datasets, NEW r \in Ranks PROVE io'[d][r].writeHead = 0
      <3>1. io'[d][r] = NewIO(sizes[d][r], records)
        BY <1>2 DEF Start
      <3>2. NewIO(sizes[d][r], records).writeHead = records
        BY <2>1, NewObject
      <3> QED BY <1>3, <3>1, <3>2
    <2> QED BY <1>2, <1>3, <2>2 DEF Start
  <1>4. CASE records # 0
    BY <1>2, <1>4 DEF Start
  <1> QED BY <1>3, <1>4

LEMMA RestartRecent == ASSUME HInv, RecentInv, Restarts PROVE RecentInv'
  <1>1. starts \in Nat /\ starts' = starts + 1
    BY RestartsFile DEF HInv, TypeInv
  <1>2. DOMAIN NoDataset.cell = {}
    BY DEF NoDataset
  <1>3. ASSUME NEW e \in Datasets, NEW p \in DOMAIN file'[e].cell, file'[e].cell[p] # Fill
        PROVE  file'[e].cell[p][1] \in Nat /\ file'[e].cell[p][1] <= starts
    <2>1. file' = file
      BY <1>2, <1>3, RestartsFile
    <2> QED BY <1>3, <2>1 DEF RecentInv, RecentIn
  <1>4. \A x \in Nat : x <= starts => x <= starts + 1 /\ x # starts + 1
    BY <1>1
  <1> QED BY <1>1, <1>3, <1>4 DEF RecentInv, RecentIn

LEMMA StepRecent == ASSUME HInv, RecentInv, [Next]_vars PROVE RecentInv'
  <1>1. CASE UNCHANGED vars
    BY <1>1 DEF vars, RecentInv, RecentIn
  <1>2. CASE Next
    BY <1>2, NextRecent, RestartRecent
  <1> QED BY <1>1, <1>2

LEMMA InitRecent == Init => RecentInv
  <1> SUFFICES ASSUME Init PROVE RecentInv
    OBVIOUS
  <1>1. DOMAIN NoDataset.cell = {}
    BY DEF NoDataset
  <1> QED BY <1>1 DEF Init, RecentInv, RecentIn
-----------------------------------------------------------------------------
(* What every rank counts as written, and the columns that the ranks know of. *)

LEMMA RowsAtMost ==
    ASSUME TypeInv, NEW d \in Datasets
    PROVE  Rows(d) \in Nat /\ \A r \in Ranks : Rows(d) <= io[d][r].writeHead
  <1> DEFINE S == {io[d][r].writeHead : r \in Ranks}
  <1>1. \A r \in Ranks : io[d][r].writeHead \in Nat
    BY DEF TypeInv, Object
  <1>2. S \in SUBSET Nat /\ S # {}
    BY <1>1, TheRanks
  <1>3. Min(S) \in S /\ \A x \in S : Min(S) <= x
    BY <1>2, MinOfNaturals
  <1> QED BY <1>2, <1>3 DEF Rows

LEMMA ColumnsOf ==
    ASSUME TypeInv, NEW d \in Datasets, AgreeInv(d), NEW r \in Ranks
    PROVE  Columns(d) = io[d][r].highwater
  <1> DEFINE S == {io[d][q].highwater : q \in Ranks}
             x == io[d][r].highwater
  <1>1. x \in Nat /\ \A q \in Ranks : io[d][q].highwater = x
    BY DEF TypeInv, Object, AgreeInv
  <1>2. S = {x, x}
    BY <1>1
  <1> HIDE DEF S, x
  <1>3. Max({x, x}) = x
    BY <1>1, MaxOfTwo
  <1>4. Max(S) = x
    BY <1>2, <1>3
  <1> QED BY <1>4 DEF Columns, S, x

\* A position that must be kept lies in a row that is written, now and after the
\* step, and in a column that all ranks know of.
LEMMA Kept ==
    ASSUME HInv, RecentInv, NEW d \in Datasets, NEW p \in DOMAIN file[d].cell,
           Recent(d, p) \/ p[2] < Columns(d), p[1] < Rows(d)
    PROVE  /\ p[1] \in Nat /\ p[2] \in Nat
           /\ \A r \in Ranks : p[1] < io[d][r].writeHead /\ p[2] < io[d][r].highwater
  <1>1. TypeInv /\ AgreeInv(d) /\ IsFile(file[d])
    BY DEF HInv, TypeInv
  <1>2. p \in Within(file[d].rows, file[d].cols) /\ file[d].rows \in Nat /\ file[d].cols \in Nat
    BY <1>1 DEF IsFile
  <1>3. p[1] \in Nat /\ p[2] \in Nat
    BY <1>2 DEF Within
  <1>4. ASSUME NEW r \in Ranks PROVE p[1] < io[d][r].writeHead
    <2>1. Rows(d) \in Nat /\ Rows(d) <= io[d][r].writeHead /\ io[d][r].writeHead \in Nat
      BY <1>1, RowsAtMost DEF TypeInv, Object
    <2>2. \A x, y, z \in Nat : x < y /\ y <= z => x < z
      OBVIOUS
    <2> QED BY <1>3, <2>1, <2>2
  <1>5. ASSUME NEW r \in Ranks PROVE p[2] < io[d][r].highwater
    BY <1>1, ColumnsOf DEF Recent, RecentInv, RecentIn
  <1> QED BY <1>3, <1>4, <1>5

LEMMA RowsAtMostPrime ==
    ASSUME TypeInv', NEW d \in Datasets
    PROVE  Rows(d)' \in Nat /\ \A r \in Ranks : Rows(d)' <= io'[d][r].writeHead
  <1> DEFINE S == {io'[d][r].writeHead : r \in Ranks}
  <1>1. \A r \in Ranks : io'[d][r].writeHead \in Nat
    BY DEF TypeInv, Object
  <1>2. S \in SUBSET Nat /\ S # {}
    BY <1>1, TheRanks
  <1>3. Min(S) \in S /\ \A x \in S : Min(S) <= x
    BY <1>2, MinOfNaturals
  <1> QED BY <1>2, <1>3 DEF Rows

LEMMA ExtentStays ==
    ASSUME HInv, RecentInv, NEW d \in Datasets, NEW call \in ExtentCalls, UpdateExtent(d, call),
           NEW p \in DOMAIN file[d].cell, Recent(d, p) \/ p[2] < Columns(d), p[1] < Rows(d)
    PROVE  p \in DOMAIN file'[d].cell /\ file'[d].cell[p] = file[d].cell[p]
  <1> DEFINE R == Subcomm(d)
             m == Min(R)
             o == io[d][m]
             rows == RowLimit(o, call)
             cols == o.highwater
  <1>1. m \in R /\ m \in Ranks /\ run[m].at = call /\ run[m].ds = d /\ TypeInv
    BY SubcommRanks DEF UpdateExtent, At, HInv
  <1>2. file'[d] = Extended(file[d], rows, cols)
    <2> HIDE DEF rows, cols
    <2> QED BY <1>1 DEF UpdateExtent, TypeInv, rows, cols, o, m, R
  <1>3. /\ p[1] \in Nat /\ p[2] \in Nat /\ p[1] < o.writeHead /\ p[2] < o.highwater
        /\ o.writeHead \in Nat /\ o.highwater \in Nat /\ o.writeLimit \in Nat
    BY <1>1, Kept DEF TypeInv, Object
  <1>4. rows \in Nat /\ o.writeHead <= rows
    <2>1. CASE call = "compress"
      <3>1. rows = o.writeHead
        BY <2>1 DEF RowLimit
      <3>2. \A x \in Nat : x <= x
        OBVIOUS
      <3> QED BY <1>3, <3>1, <3>2
    <2>2. CASE call # "compress"
      <3>1. rows = o.writeLimit
        BY <2>2 DEF RowLimit
      <3>2. call \in {"grow", "fit"}
        BY <2>2 DEF ExtentCalls
      <3>3. HeadFits(d)
        BY <1>1, <3>2, ExtentPhase
      <3>4. Target(d) <= o.writeLimit
        BY <1>1, <3>3 DEF HeadFits
      <3>5. ObjectInv(d, m)
        BY <1>1 DEF HInv
      <3>6. o.writeHead <= Target(d) /\ Target(d) \in Nat
        BY <1>1, <3>5, HeadWithin, Lengths
      <3>7. \A x, y, z \in Nat : x <= y /\ y <= z => x <= z
        OBVIOUS
      <3> QED BY <1>3, <3>1, <3>4, <3>6, <3>7
    <2> QED BY <2>1, <2>2
  <1>5. p \in Within(rows, cols)
    <2>1. IsFile(file[d])
      BY <1>1 DEF TypeInv
    <2>2. p \in Within(file[d].rows, file[d].cols)
      BY <2>1 DEF IsFile
    <2>3. p = <<p[1], p[2]>>
      BY <2>2 DEF Within
    <2>4. \A x, h, y \in Nat : x < h /\ h <= y => x \in 0 .. y - 1
      OBVIOUS
    <2>5. \A x, y \in Nat : x < y => x \in 0 .. y - 1
      OBVIOUS
    <2> HIDE DEF rows, o
    <2>6. p[1] \in 0 .. rows - 1 /\ p[2] \in 0 .. cols - 1
      BY <1>3, <1>4, <2>4, <2>5
    <2> QED BY <2>3, <2>6 DEF Within
  <1> HIDE DEF rows, cols
  <1>6. file'[d].cell[p] = file[d].cell[p]
    BY <1>2, <1>5, ExtendedCells
  <1>7. p \in DOMAIN file'[d].cell
    BY <1>2, <1>5 DEF Extended
  <1> QED BY <1>6, <1>7

LEMMA WriteRowStays ==
    ASSUME HInv, RecentInv, NEW d \in Datasets, WriteRow(d),
           NEW p \in DOMAIN file[d].cell, Recent(d, p) \/ p[2] < Columns(d), p[1] < Rows(d)
    PROVE  p \in DOMAIN file'[d].cell /\ file'[d].cell[p] = file[d].cell[p]
  <1>1. PICK r0 \in Subcomm(d) : \E s \in [Ranks -> Nat] :
            /\ r0 \in Ranks
            /\ \A r \in Ranks : Total(s) <= io[d][r].highwater
            /\ HoldsRow(file'[d], d, io[d][r0].writeHead, io[d][r0].writeHead - base + 1, s)
    BY WriteRowCells
  <1>2. PICK s \in [Ranks -> Nat] :
            HoldsRow(file'[d], d, io[d][r0].writeHead, io[d][r0].writeHead - base + 1, s)
    BY <1>1
  <1>3. p[1] \in Nat /\ p[1] < io[d][r0].writeHead /\ io[d][r0].writeHead \in Nat
    BY <1>1, Kept DEF HInv, TypeInv, Object
  <1>4. p[1] # io[d][r0].writeHead
    BY <1>3
  <1> QED BY <1>2, <1>4 DEF HoldsRow

LEMMA NextStays ==
    ASSUME HInv, RecentInv, Next, ~(\E r \in Ranks : run[r].at = "open"),
           NEW d \in Datasets, NEW p \in DOMAIN file[d].cell, Recent(d, p) \/ p[2] < Columns(d),
           p[1] < Rows(d), p[1] < Rows(d)'
    PROVE  p \in DOMAIN file'[d].cell /\ file'[d].cell[p] = file[d].cell[p]
  <1>1. TypeInv /\ TypeInv'
    BY NextHInv DEF HInv
  <1>2. ASSUME file'[d] = file[d]
        PROVE  p \in DOMAIN file'[d].cell /\ file'[d].cell[p] = file[d].cell[p]
    BY <1>2
  <1>3. ASSUME NEW e \in Datasets, Open(e) PROVE FALSE
    <2>1. AgreeInv(e)
      BY DEF HInv
    <2>2. Openers(io[e]) \subseteq Ranks /\ Openers(io[e]) # {}
      BY <2>1, OpenersRanks
    <2> QED BY <1>3, <2>2 DEF Open, At
  <1>4. ASSUME NEW e \in Datasets, NEW call \in ExtentCalls, UpdateExtent(e, call)
        PROVE  p \in DOMAIN file'[d].cell /\ file'[d].cell[p] = file[d].cell[p]
    <2>1. CASE e = d
      BY <1>4, <2>1, ExtentStays
    <2>2. CASE e # d
      <3> DEFINE g == Extended(file[e], RowLimit(io[e][Min(Subcomm(e))], call), io[e][Min(Subcomm(e))].highwater)
      <3>1. file' = [file EXCEPT ![e] = g]
        BY <1>4 DEF UpdateExtent
      <3> HIDE DEF g
      <3> QED BY <1>1, <1>2, <2>2, <3>1 DEF TypeInv
    <2> QED BY <2>1, <2>2
  <1>5. ASSUME NEW e \in Datasets, WriteRow(e)
        PROVE  p \in DOMAIN file'[d].cell /\ file'[d].cell[p] = file[d].cell[p]
    <2>1. CASE e = d
      BY <1>5, <2>1, WriteRowStays
    <2>2. CASE e # d
      BY <1>2, <1>5, <2>2, WriteRowCells
    <2> QED BY <2>1, <2>2
  <1>6. ASSUME Restarts
        PROVE  p \in DOMAIN file'[d].cell /\ file'[d].cell[p] = file[d].cell[p]
    <2>1. ASSUME \A e \in Datasets, r \in Ranks : io'[e][r].writeHead = 0 PROVE FALSE
      <3>1. Rows(d)' \in Nat /\ Rows(d)' <= io'[d][0].writeHead
        BY <1>1, RowsAtMostPrime, TheRanks
      <3>2. Rows(d)' = 0
        BY <2>1, <3>1, TheRanks
      <3>3. p[1] \in Nat
        BY Kept
      <3> QED BY <3>2, <3>3
    <2> QED BY <1>6, <1>2, <2>1, RestartsFile
  <1>7. ASSUME NEW e \in Datasets, InitPartition(e) \/ RowPartition(e) \/ Reduce(e)
        PROVE  file' = file
    BY <1>7 DEF InitPartition, RowPartition, Reduce
  <1>8. ASSUME NEW e \in Datasets, NEW sizes, Collect(e, sizes) PROVE file' = file
    BY <1>8 DEF Collect
  <1>9. ASSUME Barrier \/ SaveRestart \/ \E close \in BOOLEAN : Output(close) PROVE file' = file
    BY <1>9 DEF Barrier, SaveRestart, Output
  <1> QED BY <1>2, <1>3, <1>4, <1>5, <1>6, <1>7, <1>8, <1>9
          DEF Next, CollectiveStep, Operation, Restarts

\* Whatever grows, compresses or writes the file keeps every piece collected
\* since the start, and what earlier starts wrote in the columns that the present
\* objects know of, in the rows that all ranks count as written.  Only the
\* opening of a dataset after a restart is left out: there the new objects know
\* of their own columns only.
THEOREM OnlyOpeningEverErases == Spec => OnlyOpeningErases
  <1> DEFINE Kind == \/ \E r \in Ranks : run[r].at = "open"
                     \/ \A d \in Datasets : \A p \in DOMAIN file[d].cell :
                           Recent(d, p) \/ p[2] < Columns(d) => StaysAt(d, p)
  <1>1. ASSUME HInv, RecentInv, [Next]_vars PROVE [Kind]_vars
    <2>1. CASE UNCHANGED vars
      BY <2>1
    <2>2. CASE Next
      BY <1>1, <2>2, NextStays DEF StaysAt
    <2> QED BY <1>1, <2>1, <2>2
  <1>2. HInv /\ RecentInv /\ [Next]_vars => [Kind]_vars
    BY <1>1
  <1>3. HInv /\ RecentInv /\ [Next]_vars => RecentInv'
    BY StepRecent
  <1> HIDE DEF Kind
  <1>4. Spec => [][Kind]_vars
    BY <1>2, <1>3, HistoryInvariant, InitRecent, PTL DEF Spec
  <1> QED BY <1>4 DEF OnlyOpeningErases, Kind
=============================================================================
