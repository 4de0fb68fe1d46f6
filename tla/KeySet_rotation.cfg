SPECIFICATION FairSpec
CONSTANTS
    Request = {r1, r2}
    oldKey = oldKey
    newKey = newKey
    kid1 = kid1
    kid2 = kid2
    Key <- MCKey
    Kid <- MCKid
    KidOf <- OneKidEach
    NoKid = NoKid
    NoToken = NoToken
    NoAnswer = NoAnswer
    Floor = 1
    Timeout = 1
INVARIANTS
    TypeOK
PROPERTIES
    ReadsRespected
    NewKidHeals
    Answered
