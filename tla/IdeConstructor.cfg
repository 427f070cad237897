SPECIFICATION Spec
CONSTANTS
    Frames = {1, 14, 15}
    Histories <- ConstructorHistories
    Content <- Script
    Batches = {1}
    MaxPending = 3
    MaxBytes = 2
    BatchLimit = 2
    Descriptors = 0
    Faults = {}
INVARIANTS
    AcknowledgesEffects
CHECK_DEADLOCK FALSE
