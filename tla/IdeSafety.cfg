SPECIFICATION Spec
CONSTANTS
    Frames = {1, 2, 3, 4, 5, 6, 7, 8, 9, 10, 16}
    Histories <- SafetyHistories
    Content <- Script
    Batches = {1, 4, 6, 9, 16}
    MaxPending = 3
    MaxBytes = 2
    BatchLimit = 2
    Descriptors = 0
    Faults = {}
INVARIANTS
    Accounting
    CancelInTime
    AcknowledgesListed
    LossSeen
    EventFirst
CHECK_DEADLOCK FALSE
