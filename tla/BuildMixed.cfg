SPECIFICATION Spec
CONSTANTS
    NoOne = NoOne
    Processes = {p1, p2}
    Bases = {"v1", "v2"}
    FirstBase = "v1"
    Commands = {"build", "passport", "recreate"}
    Container = TRUE
    Faults = {"crash", "io", "native", "signal", "torn", "hold"}
    MaxFaults = 2
    MaxBuilds = 3
    MaxEdits = 0
SYMMETRY Interchangeable
CHECK_DEADLOCK FALSE
INVARIANTS
    PairMatches
    Survives
    ReuseComplete
