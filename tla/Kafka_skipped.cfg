SPECIFICATION Spec
CONSTANTS
    Partition = {p1, p2}
    LogEnd = 2
    Faults = {"handler"}
    MaxMoves = 0
INVARIANTS
    FailedIsRedelivered
