----------------------------- MODULE GhostExchange -----------------------------
(***************************************************************************)
(* The ghost objects of a partitioned mesh: CommunicationTools::           *)
(* setupGhosts() on all ranks, over NeighborCommunicator, for the objects  *)
(* of one ObjectManagerBase (the nodes; edges and faces are packed in the  *)
(* same messages and treated alike).                                       *)
(*                                                                         *)
(* In round 1 a rank sends the elements that touch a neighbour, with their *)
(* nodes; in round 2 it tells each neighbour which nodes it takes to be    *)
(* that one's; the nodes that are a third rank's are corrected             *)
(* (fixReceiveLists) and in round 3 the lists are told again.              *)
(*                                                                         *)
(* A node is its global index.  A list of local indices is the sequence of *)
(* their global indices.  (Operators ending in Alone, None, Own or Any,   *)
(* here and in NeighborCommunicator, are deliberate errors: they show that *)
(* the properties notice them.)                                            *)
(***************************************************************************)
EXTENDS NeighborCommunicator, FiniteSetsExt

CONSTANTS Nodes,    \* global indices
          Meshes    \* the partitioned meshes looked at: the elements of each
                    \* rank, an element being the set of its nodes

ASSUME MeshAssumption ==
    /\ Nodes \subseteq Nat /\ IsFiniteSet(Nodes)
    /\ Meshes \subseteq [Ranks -> SUBSET SUBSET Nodes]

VARIABLES
    mesh,               \* the partition
    localToGlobalMap,   \* m_localToGlobalMap of each rank, in local order
    ghostRank,          \* m_ghostRank of each rank, by node
    ghostsToReceive,    \* NeighborData of a rank and its neighbour: the nodes
    ghostsToSend,       \*   the neighbour owns, those it has as ghosts, and
    nonLocalGhosts      \*   those of them a third rank owns, with that rank

lists == <<localToGlobalMap, ghostRank, ghostsToReceive, ghostsToSend, nonLocalGhosts>>
vars  == <<neighbors, unordered, control, messages, mesh, lists>>

\* A set of numbers in their order, and what a sequence has of a set in its
\* order (SetToSortSeq and SelectSeq of the libraries, without their recursion)
Sorted(S) == [i \in 1 .. Cardinality(S) |->
    CHOOSE x \in S : Cardinality({y \in S : y < x}) = i - 1]

Among(s, T) ==
    LET places == Sorted({i \in DOMAIN s : s[i] \in T})
    IN  [i \in DOMAIN places |-> s[places[i]]]

\* The nodes of a rank's elements, and the ranks that share one of them
Local(m, r)    == UNION m[r]
Touching(m, r) == {q \in Ranks \ {r} : Local(m, q) \cap Local(m, r) # {}}

\* DomainPartition::m_neighbors: the neighbours, and after them theirs
NeighborsAlone(m, r) == Sorted(Touching(m, r))
AllNeighbors(m, r) ==
    LET second == UNION {Touching(m, q) : q \in Touching(m, r)}
    IN  Sorted(Touching(m, r)) \o Sorted(second \ (Touching(m, r) \cup {r}))

Init ==
    /\ CommInit
    /\ mesh \in Meshes
    /\ neighbors = [r \in Ranks |-> AllNeighbors(mesh, r)]
    /\ localToGlobalMap = [r \in Ranks |-> Sorted(Local(mesh, r))]
    /\ ghostRank = [r \in Ranks |-> [n \in Local(mesh, r) |-> -2]]
    /\ ghostsToReceive = [p \in Pairs |-> << >>]
    /\ ghostsToSend = [p \in Pairs |-> << >>]
    /\ nonLocalGhosts = [p \in Pairs |-> << >>]
-----------------------------------------------------------------------------
\* The nodes of the elements of r that touch q (generateAdjacencyLists, depth 1)
Adjacent(m, r, q) == UNION {e \in m[r] : e \cap Local(m, q) # {}}

\* What r packs for each rank: prepareAndSendGhosts(), prepareAndSendSyncLists()
Packed(r) == [q \in Ranks |->
    IF round[r] = 1 THEN Among(localToGlobalMap[r], Adjacent(mesh, r, q))
    ELSE ghostsToReceive[r, q]]

Send(r) == SendTo(r, Packed(r)) /\ UNCHANGED <<mesh, lists>>

MPIDelivers == \E p \in Pairs : (DeliverSize(p) \/ DeliverData(p)) /\ UNCHANGED <<mesh, lists>>

PostRecv(r, q) == SizeArrived(r, q) /\ UNCHANGED <<mesh, lists>>

\* The owner r knows for a node it has, when q sends that node, too
SeenOwnerNone(r, q, owner) == owner
SeenOwner(r, q, owner) ==
    IF (q < r /\ owner <= -1) \/ q < owner THEN q ELSE owner

\* ObjectManagerBase::unpackGlobalMaps(): new nodes are appended as ghosts of
\* the sender.  The buffer must be as long as announced.
UnpackGhosts(r, q) ==
    LET items == recvBuffer[q, r].items
        known == ghostRank[r]
        new   == Among(items, ToSet(items) \ DOMAIN known)
    IN  /\ round[r] = 1
        /\ DataArrived(r, q, Len(items) = recvSize[q, r])
        /\ localToGlobalMap' = [localToGlobalMap EXCEPT ![r] = @ \o new]
        /\ ghostRank' = [ghostRank EXCEPT ![r] =
                [n \in DOMAIN known \cup ToSet(items) |->
                    IF n \notin DOMAIN known THEN q
                    ELSE IF n \in ToSet(items) THEN SeenOwner(r, q, known[n])
                    ELSE known[n]]]
        /\ UNCHANGED <<mesh, ghostsToReceive, ghostsToSend, nonLocalGhosts>>

\* unpackAndRebuildSyncLists() and setGhostRankForSenders(): a node that is not
\* known ends the program, one that is a third rank's is kept to be returned.
RebuildSyncLists(r, q) ==
    LET items == recvBuffer[q, r].items
        good  == ToSet(items) \subseteq DOMAIN ghostRank[r] /\ Len(items) <= recvSize[q, r]
        third == Among(items, {n \in ToSet(items) : ghostRank[r][n] >= 0})
    IN  /\ round[r] > 1
        /\ DataArrived(r, q, good)
        /\ IF good
           THEN /\ ghostsToSend' = [ghostsToSend EXCEPT ![<<r, q>>] = items]
                /\ nonLocalGhosts' = [nonLocalGhosts EXCEPT ![<<r, q>>] =
                        [i \in DOMAIN third |-> <<third[i], ghostRank[r][third[i]]>>]]
                /\ ghostRank' = [ghostRank EXCEPT ![r] =
                        [n \in DOMAIN @ |->
                            IF n \in ToSet(items) /\ @[n] < 0 THEN -1 ELSE @[n]]]
           ELSE UNCHANGED <<ghostRank, ghostsToSend, nonLocalGhosts>>
        /\ UNCHANGED <<mesh, localToGlobalMap, ghostsToReceive>>
-----------------------------------------------------------------------------
\* The waitAll() after each round
WaitSends(r, n) ==
    /\ at[r] = "wait" /\ round[r] = n
    /\ SendsComplete(r, {101, 102})

GoTo(r, place, n) ==
    /\ at' = [at EXCEPT ![r] = place]
    /\ round' = [round EXCEPT ![r] = n]

\* After round 1, setReceiveLists(), in local order
SetReceiveLists(r) ==
    /\ WaitSends(r, 1)
    /\ ghostsToReceive' = [p \in Pairs |-> IF p[1] # r THEN ghostsToReceive[p]
            ELSE Among(localToGlobalMap[r], {n \in DOMAIN ghostRank[r] : ghostRank[r][n] = p[2]})]
    /\ GoTo(r, "send", 2)
    /\ UNCHANGED <<neighbors, unordered, todo, messages, mesh, localToGlobalMap, ghostRank,
                   ghostsToSend, nonLocalGhosts>>

\* After round 2, fixReceiveLists() starts to send nonLocalGhosts to all.
ToldNone(r) == {p \in Out(r) : nonLocalGhosts[p] # << >>}
Told(r)     == Out(r)

SendNonLocalGhosts(r) ==
    /\ WaitSends(r, 2)
    /\ sends' = [sends EXCEPT ![45] = Started(45, Told(r))]
    /\ todo' = [todo EXCEPT ![r] = Neighbors(r)]
    /\ GoTo(r, Unless(Neighbors(r), "fix", "fixed"), 2)
    /\ UNCHANGED <<neighbors, unordered, sendBuffer, recvs, recvSize, recvBuffer, mesh, lists>>

\* It receives from one neighbour after the other, and gives each node it is
\* told of to the list of its owner, which must be a neighbour.
FixReceiveLists(r, q) ==
    LET told  == nonLocalGhosts[q, r]
        fixed == {x[1] : x \in ToSet(told)}
        of(t) == Among(told, {x \in ToSet(told) : x[2] = t})
        owner(n) == (CHOOSE x \in ToSet(told) : x[1] = n)[2]
        good  == /\ fixed \subseteq ToSet(ghostsToReceive[r, q])
                 /\ \A x \in ToSet(told) : x[2] \in Neighbors(r)
        left  == todo[r] \ {q}
    IN  /\ at[r] = "fix" /\ q \in todo[r] /\ First(r, q)
        /\ sends[45][q, r] > 0
        /\ sends' = [sends EXCEPT ![45][<<q, r>>] = @ - 1]
        /\ todo' = [todo EXCEPT ![r] = left]
        /\ GoTo(r, IF good THEN Unless(left, "fix", "fixed") ELSE "error", 2)
        /\ ghostRank' = IF ~good THEN ghostRank ELSE
               [ghostRank EXCEPT ![r] =
                   [n \in DOMAIN @ |-> IF n \in fixed THEN owner(n) ELSE @[n]]]
        /\ ghostsToReceive' = IF ~good THEN ghostsToReceive ELSE
               [p \in Pairs |->
                   LET list == ghostsToReceive[p]
                       kept == IF p = <<r, q>> THEN Among(list, ToSet(list) \ fixed) ELSE list
                       add  == IF p[1] = r THEN of(p[2]) ELSE << >>
                   IN  kept \o [i \in DOMAIN add |-> add[i][1]]]
        /\ UNCHANGED <<neighbors, unordered, sendBuffer, recvs, recvSize, recvBuffer, mesh,
                       localToGlobalMap, ghostsToSend, nonLocalGhosts>>

FixDone(r) ==
    /\ at[r] = "fixed" /\ SendsComplete(r, {45})
    /\ GoTo(r, "send", 3)
    /\ UNCHANGED <<neighbors, unordered, todo, messages, mesh, lists>>

\* verifyGhostingConsistency()
Consistent(r) == \A q \in Neighbors(r) :
    /\ \A n \in ToSet(ghostsToReceive[r, q]) : ghostRank[r][n] = q
    /\ \A n \in ToSet(ghostsToSend[r, q]) : ghostRank[r][n] = -1
    /\ nonLocalGhosts[r, q] = << >>

\* NeighborData::communicationExists(), of nodes or of elements.  An element is
\* sent by its owner only: its lists are those of round 1.
UsedOwn(r, q) ==
    ghostsToReceive[r, q] # << >> \/ Adjacent(mesh, q, r) # {}
Used(r, q) ==
    \/ ghostsToReceive[r, q] # << >> \/ ghostsToSend[r, q] # << >>
    \/ Adjacent(mesh, q, r) # {} \/ Adjacent(mesh, r, q) # {}

\* After round 3 the lists are verified and removeUnusedNeighbors() ends.
Finish(r) ==
    /\ WaitSends(r, 3)
    /\ GoTo(r, IF Consistent(r) THEN "done" ELSE "error", 3)
    /\ neighbors' = IF ~Consistent(r) THEN neighbors
                    ELSE [neighbors EXCEPT ![r] = Among(@, {q \in ToSet(@) : Used(r, q)})]
    /\ UNCHANGED <<unordered, todo, messages, mesh, lists>>
-----------------------------------------------------------------------------
Rank(r) ==
    \/ Send(r)
    \/ \E q \in Neighbors(r) : \/ PostRecv(r, q) \/ UnpackGhosts(r, q)
                              \/ RebuildSyncLists(r, q) \/ FixReceiveLists(r, q)
    \/ SetReceiveLists(r) \/ SendNonLocalGhosts(r) \/ FixDone(r) \/ Finish(r)

Next == (\E r \in Ranks : Rank(r)) \/ MPIDelivers

Spec == Init /\ [][Next]_vars

\* A rank that can go on does, and MPI delivers what is sent and received.
FairSpec == Spec /\ (\A r \in Ranks : WF_vars(Rank(r))) /\ WF_vars(MPIDelivers)
=============================================================================
