-------------------------------- MODULE MCHistory --------------------------------
(* Instances of the time history output for TLC; the bounds are in the        *)
(* configurations.                                                            *)
EXTENDS HistoryProperties

\* At a start the first dataset may be spread over the ranks in any way, the
\* others have as much on each; later rows are free in both.
MCStartSizes == {s \in [Datasets -> [Ranks -> Sizes]] :
                    \A d \in Datasets \ {1} : \A q, r \in Ranks : s[d][q] = s[d][r]}
=============================================================================
