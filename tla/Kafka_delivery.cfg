SPECIFICATION Spec
CONSTANTS
    Partition = {p1, p2}
    LogEnd = 2
    Faults = {"commit"}
    MaxMoves = 2
SYMMETRY Symmetry
INVARIANTS
    TypeOK
    HandledInOrder
PROPERTIES
    KeepsAtLeastOnce
    DrainsCleanly
