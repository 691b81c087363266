CONSTANTS
    MaxBuffers = 3
    Capacity = 1
    PushCount = 3
    Interleaved = FALSE
    Values <- MCValues
SPECIFICATION FairSpec
PROPERTY NotFullWakes
