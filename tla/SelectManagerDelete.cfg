SPECIFICATION Spec
CONSTANTS
    Sockets = {s1, s2}
    NoSocket = none
    MaxStops = 1
INVARIANT DeletedOnce
CHECK_DEADLOCK FALSE
