------------------------------- MODULE MCGhosts -------------------------------
(* Instances of the ghost exchange for TLC: three ranks with one element each.*)
EXTENDS GhostProperties

\* A chain of elements, whose two ends share no node.  With the middle on rank 1
\* rank 2 gets a node from it that is rank 0's, and rank 0 none of rank 2; with the
\* middle on rank 0 it owns both shared nodes, and the ends have nothing to
\* exchange.
Chain(a, b, c) == [r \in Ranks |-> CASE r = a -> {{1, 2}} [] r = b -> {{2, 3}} [] r = c -> {{3, 4}}]

\* Elements around node 5
Fan(a, b, c) == [r \in Ranks |-> CASE r = a -> {{1, 2, 5}} [] r = b -> {{2, 3, 5}} [] r = c -> {{3, 4, 5}}]

MCNodes  == 1 .. 5
MCMeshes == {Chain(0, 1, 2), Chain(1, 0, 2), Fan(0, 1, 2)}
=============================================================================
