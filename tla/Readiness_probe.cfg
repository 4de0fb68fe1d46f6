SPECIFICATION ReadinessSpec
CONSTANTS
    act = act
    pool = pool
    web = web
    Component <- MCComponent
    Name <- MCName
    Tier <- MCTier
    Mortal = {act, web}
    Drainer = {act}
    NoOne = NoOne
    MaxStops = 0
    Actuator = act
    Checker = {pool}
    Server <- MCServer
INVARIANTS
    ReadinessTypeOK
    OutageShows
PROPERTIES
    ProbeFollowsApp
