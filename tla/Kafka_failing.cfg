SPECIFICATION FairSpec
CONSTANTS
    Partition = {p1}
    LogEnd = 3
    Faults = {"handler", "commit"}
    MaxMoves = 1
INVARIANTS
    LossOnlyByFailure
PROPERTIES
    NeverStuck
