CONSTANTS
    MaxBuffers = 6
    Capacity = 3
    PushCount = 6
    Interleaved = FALSE
    Values <- MCValues
SPECIFICATION FairSpec
INVARIANTS TypeOK NoError TransfersApart PushStepsEnded
PROPERTIES IsLifoStack OnlyLostWakeupsHang
