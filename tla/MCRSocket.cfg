SPECIFICATION Spec
CONSTANTS
    e1 = e1
    e2 = e2
    Ends = {e1, e2}
    Payload = {x}
    Empty = Empty
    M = 2
    MaxSend <- TwoEach
    ArmReportsPending = FALSE
SYMMETRY Symmetry
INVARIANT TypeOK
INVARIANT BufferConservation
INVARIANT OwnCompletion
INVARIANT CopiesReferenced
INVARIANT CreditConservation
PROPERTY ChannelSpec
CHECK_DEADLOCK FALSE
