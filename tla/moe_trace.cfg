CONSTANTS
    MoeLayers = {1, 2}
    TextTokens = 5
    NUbatch = 2
    NCtx = 4
    MaxFaults = 2
    Arguments <- MCArguments
    Models <- MCModels
SPECIFICATION Spec
CHECK_DEADLOCK FALSE
INVARIANTS
    Traced
    LoadedRight
