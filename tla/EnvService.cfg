\* Two operations, pipes of one write, two lines in all, two fetches at a time, a pane that is
\* opened once, at any time.
CONSTANTS
    MaxOps = 2
    Fetch = {f1, f2}
    PipeSize = 1
    MaxLines = 2
    MaxMounts = 1
    Short = Short
    Long = Long
SPECIFICATION FairSpec
INVARIANTS
    BusyFollowsService
    LogComplete
    PackagesCurrent
PROPERTY
    OperationEnds
