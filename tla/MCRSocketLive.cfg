SPECIFICATION FairSpec
CONSTANTS
    e1 = e1
    e2 = e2
    Ends = {e1, e2}
    Payload = {}
    Empty = Empty
    M = 3
    MaxSend <- FourAndOne
    ArmReportsPending = TRUE
INVARIANT NoMissedNotification
PROPERTY SendReturns
PROPERTY Delivery
CHECK_DEADLOCK FALSE
