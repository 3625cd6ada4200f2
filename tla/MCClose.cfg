SPECIFICATION FairSpec
CONSTANTS
    e1 = e1
    e2 = e2
    Ends = {e1, e2}
    Client = e1
    Programs <- SomePrograms
    MayCrash = {e1}
INVARIANT TypeOK
INVARIANT LateCallsHarmless
PROPERTY GracefulClose
PROPERTY OrderlyTeardown
PROPERTY EveryCallEnds
CHECK_DEADLOCK FALSE
