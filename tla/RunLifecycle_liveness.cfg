\* One run, a buffer of one, fail() and the status contend for it, one cancel.
CONSTANTS
    Run = {r1}
    BufferSize = 1
    MaxMsgs = 0
    MaxCancels = 1
SPECIFICATION FairSpec
PROPERTIES
    KeepsPromise
    ExitIsSettled
    CancelEnds
    ConnectsOrEnds
