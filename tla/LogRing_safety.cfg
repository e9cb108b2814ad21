SPECIFICATION Spec
CONSTANTS
    Cap = 3
    MaxPushed = 6
    Pusher = {p1, p2}
INVARIANT
    ViewerFollows
PROPERTY
    RingIsLog
