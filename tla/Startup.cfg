SPECIFICATION MCSpec
CONSTANTS
    Pod = {dev, pod}
    Job = {job}
    MigrateOnStart = {dev}
    Locking = TRUE
    Latest = 2
    Nobody = Nobody
    Invocation = {i1, i2, i3}
    Args <- MCArgs
    Base <- MCBase
    Project <- MCProject
    Canon <- MCCanon
    Field <- MCField
    Texts <- MCTexts
    World <- MCWorld
INVARIANTS
    StartupTypeOK
    SchemaSound
    TxHonest
    HighestLayerWins
    RefusedForAMistake
PROPERTIES
    NeverHalfDone
