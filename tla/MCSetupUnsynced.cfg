SPECIFICATION Spec
CONSTANTS
    N = 4
    Retries = 1
    ReRetries = 1
    Programs <- OnlyTwice
    Barrier = FALSE
INVARIANT SetupComplete
CHECK_DEADLOCK FALSE
