SPECIFICATION FairSpec
CONSTANTS
    Base = 2
    IntBytes = 2
    CountBytes = 1
    Width = 32
    Ints <- MCInts
    Strings <- MCStrings
    Lists <- MCLists
    Blocks <- MCBlocks
    Capacities = {1}
    MaxEnd = 5
    Junk = junk
    Nothing = nothing
INVARIANT TypeOK
PROPERTIES
    RefinesItemQueue
    GrowthEnds
CHECK_DEADLOCK FALSE
