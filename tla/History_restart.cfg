SPECIFICATION Spec
CONSTANTS
  RankCount = 1
  InitAlloc = 1
  OverallocMultiple = 2
  DatasetCount = 1
  Sizes = {1}
  StartSizes <- MCStartSizes
  MaxRows = 2
  MaxStarts = 2
PROPERTIES EarlierRecordsStay
CHECK_DEADLOCK FALSE
