SPECIFICATION Spec
CONSTANTS
    NoOne = NoOne
    Processes = {p1, p2}
    Bases = {"v1", "v2"}
    FirstBase = "v1"
    Commands = {"passport", "clean"}
    Container = FALSE
    Faults = {"io", "native", "signal"}
    MaxFaults = 1
    MaxBuilds = 3
    MaxEdits = 2
SYMMETRY Interchangeable
CHECK_DEADLOCK FALSE
INVARIANTS
    PassportTruthful
    FailureKeepsPair
    AloneInData
