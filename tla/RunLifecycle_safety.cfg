\* One run, a buffer of one, two script messages, one cancel.
CONSTANTS
    Run = {r1}
    BufferSize = 1
    MaxMsgs = 2
    MaxCancels = 1
SPECIFICATION Spec
INVARIANTS
    NoSendOnClosed
    TrustOrder
    NoFalseSuccess
    OneTerminalStatus
    StatusLast
    NothingLost
    CleanCompletion
    HealthyRunNotKilled
