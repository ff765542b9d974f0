SPECIFICATION FairSpec
CONSTANTS
    Serialized = {s1, s2}
    Plain = {p}
    Bodies = {b, empty}
    Empty = empty
    Junk = junk
    Ok = ok
    Stop = stop
    MaxSent = 2
    MaxArrivals = 2
    MaxReturned = 3
    MaxSignals = 1
INVARIANTS
    TypeOK
    AsSent
PROPERTIES
    BlockedForever
    Delivered
CHECK_DEADLOCK FALSE
