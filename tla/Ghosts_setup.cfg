SPECIFICATION FairSpec
CONSTANTS
  RankCount = 3
  Nodes <- MCNodes
  Meshes <- MCMeshes
INVARIANTS GhostTypeOK RoundsApart NoGhostingError LowestRankOwns PairsAgree
PROPERTIES EveryRankFinishes
CHECK_DEADLOCK FALSE
