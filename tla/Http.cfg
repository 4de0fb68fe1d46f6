SPECIFICATION MCSpec
CONSTANTS
    Chains <- MCChains
    Requests <- MCRequests
    Wirings <- MCWirings
    Options <- MCOptions
    Incoming <- MCIncoming
    Services <- MCServices
    Documents <- MCDocuments
    Pems <- MCPems
    Levels <- MCLevels
    Horizon = 3
INVARIANTS
    HttpTypeOK
    AnswerIntact
    LogTellsTruth
    HandlerEntitled
    StopIsClean
    RecordsAgree
    WholeOrRefused
    PagesAsAllowed
    TokensJudged
PROPERTIES
    ActuatorGuarded
