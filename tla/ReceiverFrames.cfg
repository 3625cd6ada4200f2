SPECIFICATION Spec
CONSTANTS
    Conns = {c1, c2}
    Readers = {r1}
    MayClose = {c1}
    MaxFrames = 2
INVARIANT FramesTogether
