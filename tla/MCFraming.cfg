SPECIFICATION FairSpec
CONSTANTS
    Bodies <- MCBodies
    Statuses = {0, 2}
    Stop = 3
    Base = 4
    SizeBytes = 1
    InitCap = 3
    ClearCap = 2
    MaxSent = 3
    Junk = junk
    Liberties = {}
INVARIANTS
    TypeOK
PROPERTIES
    RefinesChannel
    DeliveredOrTold
CHECK_DEADLOCK FALSE
