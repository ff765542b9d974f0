SPECIFICATION SocketSpec
CONSTANTS
    Objects = {o1, o2, o3}
    Descriptors = {d1, d2, d3}
    Invalid = none
INVARIANTS
    SocketTypeOK
    OwnDescriptor
    LeaksCounted
SYMMETRY Symmetric
CHECK_DEADLOCK FALSE
