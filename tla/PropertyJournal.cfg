SPECIFICATION FairSpec
CONSTANTS
    NoOne = NoOne
    Carrier <- MCCarrier
    Writers = {w1}
    NFiles = 2
    NMoves = 0
    Kind = "property"
    MaxFaults = 2
    MaxEdits = 0
PROPERTIES
    AtomicSpec
    Settles
