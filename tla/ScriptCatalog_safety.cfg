\* One builtin and two plugin directories that may compete for one id, two issues
\* kept, two Reloads at a time, two changes, two fetches.
CONSTANTS
    Id = {i1}
    Builtins = 1
    Plugins = 2
    MaxIssues = 2
    Reloader = {p1, p2}
    MaxChanges = 2
    Bad = bad
    Absent = absent
    None = none
    Fetch = {f1, f2}
    Failed = failed
SPECIFICATION Spec
SYMMETRY CatalogSymmetry
INVARIANTS
    CatalogIsCurrent
    BannersFollowIssues
    PageShowsCatalog
