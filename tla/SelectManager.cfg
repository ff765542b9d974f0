SPECIFICATION FairSpec
CONSTANTS
    Sockets = {s1, s2}
    NoSocket = none
    MaxStops = 2
INVARIANTS
    TypeOK
    NoWildWrite
    MutexReleased
    NoUseAfterDelete
    StopSticks
PROPERTIES
    RefinesWatch
    WorkersEnd
    WaitEnds
CHECK_DEADLOCK FALSE
