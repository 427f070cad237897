SPECIFICATION FairSpec
CONSTANTS
    Transports = {"query", "doctor", "probe", "input", "exchange"}
    Limit = 1
    MaxOutput = 2
    Room = 1
    InputSize = 2
INVARIANTS
    Truthful
    GraceKept
PROPERTIES
    Returns
CHECK_DEADLOCK FALSE
