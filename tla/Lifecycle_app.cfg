SPECIFICATION FairSpec
CONSTANTS
    act = act
    pool = pool
    mq = mq
    twin = twin
    Component <- MCComponent
    Name <- MCName
    Tier <- MCTier
    Mortal <- MCMortal
    Drainer <- MCDrainer
    NoOne = NoOne
    MaxStops = 2
INVARIANTS
    TypeOK
    OrderKept
    StopsClean
    RunAsPromised
PROPERTIES
    Implements
    EverythingEnds
