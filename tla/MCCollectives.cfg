SPECIFICATION FairSpec
CONSTANTS
    N = 3
    Programs <- SomePrograms
    Capacities = {1, 3}
INVARIANT TypeOK
INVARIANT ResultsCorrect
INVARIANT BarrierSeparates
PROPERTY CallsMatched
PROPERTY Termination
