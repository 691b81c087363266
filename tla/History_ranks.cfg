SPECIFICATION FairSpec
CONSTANTS
  RankCount = 2
  InitAlloc = 1
  OverallocMultiple = 2
  DatasetCount = 2
  Sizes = {0, 2}
  StartSizes <- MCStartSizes
  MaxRows = 2
  MaxStarts = 2
INVARIANTS RowsAreInFile RanksAgree RecordsAreRows
PROPERTIES OnlyOpeningErases OperationsReturn
CHECK_DEADLOCK FALSE
