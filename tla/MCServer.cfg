SPECIFICATION FairSpec
CONSTANTS
    c1 = c1
    c2 = c2
    Clients = {c1, c2}
    NoClient = none
    Known <- MCKnown
    Plans <- MCPlans
INVARIANTS
    TypeOK
    ListMatchesPool
    
    ToldInOrder
PROPERTIES
    CallReturns
    LostErased
    StopEnds
CHECK_DEADLOCK FALSE
