SPECIFICATION Spec
CONSTANTS
    c1 = c1
    c2 = c2
    Clients = {c1, c2}
    NoClient = none
    Known <- MCKnown
    Plans <- MCEarlyCalls
INVARIANT WrongIdMeansWrongId
CHECK_DEADLOCK FALSE
