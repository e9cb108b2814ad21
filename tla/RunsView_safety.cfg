SPECIFICATION Spec
CONSTANTS
    r1 = r1
    r2 = r2
    r3 = r3
    Run = {r1, r2, r3}
    Batches <- MCBatches
    MaxOutputs = 1
    MaxMounts = 2
SYMMETRY ViewSymmetry
INVARIANT
    PageShowsRuns
