SPECIFICATION FairSpec
CONSTANTS
    e1 = e1
    e2 = e2
    Ends = {e1, e2}
    Payload = {}
    Empty = Empty
    M = 2
    MaxSend <- OneEach
    ArmReportsPending = FALSE
PROPERTY SendReturns
CHECK_DEADLOCK FALSE
