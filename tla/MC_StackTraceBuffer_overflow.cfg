CONSTANTS
    Max = 40
    CausedHdrLen = 11
    HeadLens <- MCHeadLens
    ExcLens <- MCExcLens
    FrameLens <- MCFrameLens
    MaxFrames = 4
    MaxCauses = 2
    Failures = TRUE
    OobNewline = TRUE
SPECIFICATION Spec
CHECK_DEADLOCK FALSE


INVARIANT NoHeapOverflow
