CONSTANTS
    Branches = {"main", "task"}
    Paths <- MCPaths
    Temps = {t1, t2}
    NoBranch = "none"
    FirstHead = "main"
    FirstTip <- MCFirstTip
    Scrap = 3
    Fresh = 4
    MaxValue = 5
SPECIFICATION Spec
SYMMETRY Interchangeable
INVARIANTS
    TypeOK
    NothingLost
    AtHome
    Repeatable
CHECK_DEADLOCK FALSE
