SPECIFICATION Spec
CONSTANTS
    r = r
    a = a
    b = b
    Owners = {r, a, b}
    Root = r
    Parent <- Chain
    Contents <- Choices
    CacheLimit = 1
    Missing = Missing
    Malformed = Malformed
    Nothing = Nothing
    MaxEdits = 2
    MaxQueue = 1
CHECK_DEADLOCK FALSE
INVARIANTS
    NothingForgotten
    Coherent
    ReadyIsComplete
    Unrefused
