\* Two threads, one failed read: the doc comment of read_all.
CONSTANTS
    MaxThreads = 2
    Plans <- MCPlans
    FileLen = 5
    Align = 2
    BufBytes = 8
    MaxErrors = 1
SPECIFICATION ReadSpec
INVARIANT EveryRangeIssued
CHECK_DEADLOCK FALSE
