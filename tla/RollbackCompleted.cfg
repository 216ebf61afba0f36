CONSTANTS
    ReorgTransfers = {"t"}
    MaxHeight = 3
    MaxBlockId = 4
    DeepReorg = 2
SPECIFICATION ReorgSpec
PROPERTY CompletedNotAffected
CHECK_DEADLOCK FALSE
