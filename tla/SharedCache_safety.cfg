CONSTANTS
  Run = {r1, r2}
  Key = {k1}
  MaxCalls = 3
SPECIFICATION Spec
SYMMETRY CacheSymmetry
INVARIANTS
    HandlePinned
    OwnerKeepsSegment
    DrainedRunHoldsNothing
    NothingLeaks
PROPERTIES
    SharesObjects
