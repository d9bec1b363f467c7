\* Every permutation of four slots over every content of four blocks.
CONSTANTS
    N = 4
    Blocks <- MCBlocks
    Torn <- MCTorn
SPECIFICATION Spec
CHECK_DEADLOCK FALSE
INVARIANTS
    Rewritten
    FailureContained
    OnlyCrashImages
PROPERTIES
    WriteOnce
