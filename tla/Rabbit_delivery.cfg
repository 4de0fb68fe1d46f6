SPECIFICATION FairSpec
CONSTANTS
    Msg = {m1, m2}
    NoMsg = NoMsg
    Prefetch = 2
    DiscardOnError = FALSE
    MaxBreaks = 2
INVARIANTS
    TypeOK
    NothingNewBehindDrain
    EndsHonestly
PROPERTIES
    KeepsAtLeastOnce
    NeverStuck
