SPECIFICATION FairSpec
CONSTANTS
    Frames = {1, 3, 11, 12, 13}
    Histories <- EndingHistories
    Content <- Script
    Batches = {1, 12}
    MaxPending = 3
    MaxBytes = 3
    BatchLimit = 3
    Descriptors = 3
    Faults = {"eof", "stdout", "truncated"}
INVARIANTS
    StopsPromptly
PROPERTIES
    ExitFlushes
    Answered
    Ends
    Indexed
CHECK_DEADLOCK FALSE
