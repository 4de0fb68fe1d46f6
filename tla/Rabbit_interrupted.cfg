SPECIFICATION Spec
CONSTANTS
    Msg = {m1, m2}
    NoMsg = NoMsg
    Prefetch = 2
    DiscardOnError = TRUE
    MaxBreaks = 2
SYMMETRY Symmetry
INVARIANTS
    InterruptedIsRedelivered
