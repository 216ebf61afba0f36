CONSTANTS
    Processes = {"p1", "p2"}
    Sanads = {"sanad"}
    MaxAccepts = 2
SPECIFICATION CliSpec
INVARIANT
    AcceptedOnce
