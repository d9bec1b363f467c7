\* One to three threads, buffers of two alignment units alone and of one shared.
CONSTANTS
    MaxThreads = 3
    Plans <- MCPlans
    FileLen = 5
    Align = 2
    BufBytes = 8
    MaxErrors = 2
SPECIFICATION ReadSpec
CHECK_DEADLOCK FALSE
INVARIANTS
    ReadTypeOK
    ReadOnce
    LostOnlyByErrors
PROPERTIES
    Returns
