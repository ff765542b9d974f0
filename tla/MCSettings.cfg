SPECIFICATION FairSpec
CONSTANTS
    ModeOrder <- MCModes
    Made <- MCMade
    Calls <- MCCalls
    MaxCalls = 2
    MaxSelectors = 2
INVARIANTS
    TypeOK
    SettingsReach
    WaitBounded
PROPERTIES
    TimeoutReaches
CHECK_DEADLOCK FALSE
