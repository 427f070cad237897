SPECIFICATION Spec
CONSTANTS
    NoOne = NoOne
    Carrier <- MCCarrier
    Writers = {w1, w2}
    NFiles = 2
    NMoves = 1
    Kind = "rename"
    MaxFaults = 1
    MaxEdits = 2
INVARIANTS
    Recoverable
    WriteAhead
PROPERTIES
    PreservesOutside
    DecisionStands
