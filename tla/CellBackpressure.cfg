CONSTANTS
    Submitters = {"w1", "w2"}
    TaskStages = {"LockConfirmed", "MintConfirmed"}
    MaxQueueDepth = 1
    MaxMemory = 3
    OpenThreshold = 2
    CloseThreshold = 2
SPECIFICATION FairCellSpec
PROPERTY BackpressureAnswered
CHECK_DEADLOCK FALSE
