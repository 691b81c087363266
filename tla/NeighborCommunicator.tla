-------------------------- MODULE NeighborCommunicator --------------------------
(***************************************************************************)
(* One rank's exchanges with its neighbours, in rounds                     *)
(* (mpiCommunications/NeighborCommunicator.cpp, and the completion of      *)
(* phases in common/MpiWrapper.cpp).  In a round a rank packs a buffer for *)
(* every neighbour and starts to send its size (tag 101) and its contents  *)
(* (tag 102); when the size from a neighbour is there it receives the      *)
(* contents, and when they are there it unpacks them; at the end it waits  *)
(* for its own sends.  fixReceiveLists() has a tag of its own, 45.         *)
(*                                                                         *)
(* MPI is external: messages of one sender, receiver and tag arrive in the *)
(* order they were sent, and a buffer may be read as late as its send      *)
(* completes.  The model reads it then: what the contents were when the    *)
(* send was started makes no difference to it.                             *)
(***************************************************************************)
EXTENDS Integers, SequencesExt

CONSTANT RankCount

ASSUME RankCountAssumption == RankCount \in Nat \ {0}

Ranks == 0 .. RankCount - 1
Pairs == Ranks \X Ranks         \* a sender and a receiver
Tags  == {101, 102, 45}

VARIABLES
    neighbors,      \* the ranks of each rank's NeighborCommunicators, in order
    unordered,      \* whether a phase takes its messages as they arrive
    round,          \* which exchange each rank is in, from 1
    at,             \* where in it
    todo,           \* the set of neighbours still to be served in the phase
    sendBuffer,     \* m_sendBuffer of the sender, and the round it is for
    sends,          \* for each tag and pair, how many sends have not completed
    recvs,          \* for each tag and pair, the receiver's request
    recvSize,       \* m_receiveBufferSize of the receiver
    recvBuffer      \* m_receiveBuffer of the receiver

messages == <<sendBuffer, sends, recvs, recvSize, recvBuffer>>
control  == <<round, at, todo>>

Neighbors(r) == ToSet(neighbors[r])
Empty == [round |-> 0, items |-> << >>]

CommInit ==
    /\ unordered \in BOOLEAN
    /\ round = [r \in Ranks |-> 1]
    /\ at = [r \in Ranks |-> "send"]
    /\ todo = [r \in Ranks |-> {}]
    /\ sendBuffer = [p \in Pairs |-> Empty]
    /\ sends = [t \in Tags |-> [p \in Pairs |-> 0]]
    /\ recvs = [t \in Tags |-> [p \in Pairs |-> "null"]]
    /\ recvSize = [p \in Pairs |-> 0]
    /\ recvBuffer = [p \in Pairs |-> Empty]

\* The pairs a rank sends on, and receives on
Out(r) == {<<r, q>> : q \in Neighbors(r)}
In(r)  == {<<q, r>> : q \in Neighbors(r)}

\* Request tables after a send, or a receive, of tag t is started on some pairs
Started(t, P) == [p \in Pairs |-> sends[t][p] + IF p \in P THEN 1 ELSE 0]
Posted(t, P)  == [p \in Pairs |-> IF p \in P THEN "posted" ELSE recvs[t][p]]

\* Where a rank is when a phase leaves these neighbours to serve
Unless(left, phase, next) == IF left = {} THEN next ELSE phase

\* The neighbour that a phase in order serves next
First(r, q) == \A o \in todo[r] \ {q} : \E i, j \in DOMAIN neighbors[r] :
    i < j /\ neighbors[r][i] = q /\ neighbors[r][j] = o
-----------------------------------------------------------------------------
\* The first phase: for each neighbour the receive of its size is posted, the
\* buffer is packed and both sends are started.
SendTo(r, items) ==
    /\ at[r] = "send"
    /\ sendBuffer' = [p \in Pairs |-> IF p \in Out(r)
                        THEN [round |-> round[r], items |-> items[p[2]]]
                        ELSE sendBuffer[p]]
    /\ sends' = [sends EXCEPT ![101] = Started(101, Out(r)), ![102] = Started(102, Out(r))]
    /\ recvs' = [recvs EXCEPT ![101] = Posted(101, In(r))]
    /\ todo' = [todo EXCEPT ![r] = Neighbors(r)]
    /\ at' = [at EXCEPT ![r] = Unless(Neighbors(r), "sizes", "wait")]
    /\ UNCHANGED <<neighbors, unordered, round, recvSize, recvBuffer>>

\* MPI delivers a message, and completes its send and its receive.
Deliver(t, p) ==
    /\ sends[t][p] > 0 /\ recvs[t][p] = "posted"
    /\ sends' = [sends EXCEPT ![t][p] = @ - 1]
    /\ recvs' = [recvs EXCEPT ![t][p] = "complete"]

DeliverSize(p) ==
    /\ Deliver(101, p)
    /\ recvSize' = [recvSize EXCEPT ![p] = Len(sendBuffer[p].items)]
    /\ UNCHANGED <<neighbors, unordered, sendBuffer, recvBuffer, control>>

DeliverData(p) ==
    /\ Deliver(102, p)
    /\ recvBuffer' = [recvBuffer EXCEPT ![p] = sendBuffer[p]]
    /\ UNCHANGED <<neighbors, unordered, sendBuffer, recvSize, control>>

\* The neighbour a phase serves next: any whose message is there, or in order
Arrived(t, r, q) ==
    /\ q \in todo[r]
    /\ unordered \/ First(r, q)
    /\ recvs[t][q, r] = "complete"

\* The second phase: the size is there, and the receive of so much is posted.
SizeArrived(r, q) ==
    /\ at[r] = "sizes"
    /\ Arrived(101, r, q)
    /\ recvs' = [recvs EXCEPT ![101][<<q, r>>] = "null", ![102][<<q, r>>] = "posted"]
    /\ LET left == todo[r] \ {q}
       IN  /\ todo' = [todo EXCEPT ![r] = IF left = {} THEN Neighbors(r) ELSE left]
           /\ at' = [at EXCEPT ![r] = Unless(left, "sizes", "data")]
    /\ UNCHANGED <<neighbors, unordered, round, sends, sendBuffer, recvSize, recvBuffer>>

\* The third: the contents are there and unpacked, or found to be inconsistent.
DataArrived(r, q, good) ==
    /\ at[r] = "data"
    /\ Arrived(102, r, q)
    /\ recvs' = [recvs EXCEPT ![102][<<q, r>>] = "null"]
    /\ LET left == todo[r] \ {q}
       IN  /\ todo' = [todo EXCEPT ![r] = left]
           /\ at' = [at EXCEPT ![r] = IF good THEN Unless(left, "data", "wait") ELSE "error"]
    /\ UNCHANGED <<neighbors, unordered, round, sends, sendBuffer, recvSize, recvBuffer>>

\* Whether the sends of some tags by a rank have completed (waitAll)
SendsCompleteAny(r, T) == TRUE
SendsComplete(r, T) == \A t \in T, p \in Out(r) : sends[t][p] = 0
=============================================================================
