\* A batch of three workers (four asked for) and a batch of one (none asked for).
CONSTANTS
    g1 = g1
    g2 = g2
    Group = {g1, g2}
    WorkerCount <- LargeAndSmall
    MaxWorkers = 3
SPECIFICATION Spec
INVARIANTS
    CancelReachesAll
    GroupStaysKnown
