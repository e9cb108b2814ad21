\* Two runs over two lives of the program.
CONSTANTS
    Run = {r1, r2}
    MaxLives = 2
    None = None
SPECIFICATION FairSpec
INVARIANT
    RecordsTellTruth
PROPERTIES
    HistoryKept
    ShutdownEnds
