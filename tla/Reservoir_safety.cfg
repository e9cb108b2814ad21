SPECIFICATION Spec
CONSTANTS
    Caller = {c1, c2, c3}
    Key = {issue, other, dead}
    IssueKey = {issue, other}
    None = None
SYMMETRY ReservoirSymmetry
INVARIANTS
    ReportsAreSeen
    PageFollows
