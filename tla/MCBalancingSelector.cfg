SPECIFICATION FairSpec
CONSTANTS
    Sockets = {s1, s2}
    NoSocket = none
    Limits <- MCLimits
    UintMax = 15
INVARIANTS
    TypeOK
    LimitsUsed
    InOnePlace
PROPERTIES
    StopEndsAll
    AddedServed
CHECK_DEADLOCK FALSE
