SPECIFICATION Spec
CONSTANTS
    Functions <- MCFunctions
    Ids = {1, 2, 3, 4, 5, 6}
    Garbage = {4}
    MaxCalls = 3
INVARIANTS
    TypeOK
    AnsweredOnce
    RightCall
CHECK_DEADLOCK FALSE
