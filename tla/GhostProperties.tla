---------------------------- MODULE GhostProperties ----------------------------
(* What setupGhosts() must achieve between the ranks.                        *)
EXTENDS GhostExchange

Places == {"send", "sizes", "data", "wait", "fix", "fixed", "done", "error"}

\* The variables have their types; no list of local indices has one twice, and
\* no request is started while the one before it has not completed.
GhostTypeOK ==
    /\ unordered \in BOOLEAN /\ mesh \in Meshes
    /\ \A r \in Ranks :
          /\ round[r] \in 1 .. 3 /\ at[r] \in Places
          /\ neighbors[r] \in Seq(Ranks \ {r}) /\ todo[r] \subseteq Ranks
          /\ IsInjective(localToGlobalMap[r]) /\ ToSet(localToGlobalMap[r]) \subseteq Nodes
          /\ ghostRank[r] \in [ToSet(localToGlobalMap[r]) -> -2 .. RankCount - 1]
    /\ sends \in [Tags -> [Pairs -> {0, 1}]]
    /\ recvs \in [Tags -> [Pairs -> {"null", "posted", "complete"}]]
    /\ \A p \in Pairs :
          /\ \A list \in {ghostsToReceive[p], ghostsToSend[p], recvBuffer[p].items} :
                IsInjective(list) /\ ToSet(list) \subseteq Nodes
          /\ IsInjective(nonLocalGhosts[p]) /\ recvSize[p] \in 0 .. Cardinality(Nodes)

\* "Adding the following waitAll methods ensures that the underlying async MPI
\* communication will not interfere with subsequent async communication calls"
\* (CommunicationTools.cpp, setupGhosts): what a rank is about to unpack was
\* packed for the round it is in, and is as long as it was announced, although
\* the messages of all rounds have the same tags and use the same buffers.
RoundsApart == \A p \in Pairs :
    recvs[102][p] = "complete" =>
        /\ recvBuffer[p].round = round[p[2]]
        /\ Len(recvBuffer[p].items) = recvSize[p]

\* No rank meets a node it does not know, an owner that is not its neighbour or
\* a "ghosting inconsistency" (verifyGhostingConsistency), which would end the
\* program, whatever the partition and the order in which messages arrive.
NoGhostingError == \A r \in Ranks : at[r] # "error"

\* When a rank is done, it has the nodes of all the elements that touch its own,
\* and each belongs to the lowest rank that has an element of it.
Expected(r) == Local(mesh, r) \cup UNION {Adjacent(mesh, q, r) : q \in Ranks \ {r}}
OwnerOf(n)  == Min({q \in Ranks : n \in Local(mesh, q)})

LowestRankOwns == \A r \in Ranks : at[r] = "done" =>
    /\ DOMAIN ghostRank[r] = Expected(r)
    /\ \A n \in Expected(r) :
          IF OwnerOf(n) = r THEN ghostRank[r][n] < 0 ELSE ghostRank[r][n] = OwnerOf(n)

\* When two ranks are done, each has the other as a neighbour or neither has,
\* and what one sends is, in that order, what the other receives: fields are
\* packed and unpacked by position.  Every ghost is in a list.
PairsAgree == \A r, q \in Ranks : at[r] = "done" /\ at[q] = "done" /\ r # q =>
    /\ (q \in Neighbors(r)) = (r \in Neighbors(q))
    /\ ghostsToSend[r, q] = ghostsToReceive[q, r]
    /\ ToSet(ghostsToReceive[q, r]) =
            {n \in DOMAIN ghostRank[q] : ghostRank[q][n] = r}

\* Every rank finishes: no rank waits for a message nobody sends.
EveryRankFinishes == <>(\A r \in Ranks : at[r] = "done")
=============================================================================
