SPECIFICATION FairSpec
CONSTANTS
    N = 5
    Retries = 2
    ReRetries = 1
    Programs <- Both
    Barrier = TRUE
INVARIANT TypeOK
INVARIANT SetupComplete
INVARIANT RightPeer
PROPERTY AllUp
CHECK_DEADLOCK FALSE
