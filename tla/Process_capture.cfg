SPECIFICATION FairSpec
CONSTANTS
    PipeCap = 2
    MaxOutput = 4
INVARIANT
    CaptureIsFinal
PROPERTY
    WaitReturns
