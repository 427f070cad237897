CONSTANTS
    Base = base
    Task = task
    Side = side
    None = {none}
    Edited = {edited}
    Root = 0
    MaxCommits = 3
SPECIFICATION Spec
INVARIANTS
    NothingLost
    ReportTruthful
PROPERTIES
    WorktreeSafe
