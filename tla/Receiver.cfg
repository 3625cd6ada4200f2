SPECIFICATION FairSpec
CONSTANTS
    Conns = {c1, c2}
    Readers = {r1, r2}
    MayClose = {c1}
    MaxFrames = 2
INVARIANT TypeOK
INVARIANT FramesConserved
INVARIANT NoMissedSignal
PROPERTY MailboxSpec
PROPERTY FramesDelivered
