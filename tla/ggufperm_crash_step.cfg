\* The comment of apply on the sidecar and the file, under one failure.
CONSTANTS
    Procs = {p1}
    Models = {m1}
    N = 2
    NL = 1
    NT = 2
    Targets <- FewTargets
    MaxFailures = 1
    OnePerModel = TRUE
    Torn = Torn
    TornDoc = TornDoc
    Absent = Absent
    NoSha = NoSha
SPECIFICATION Spec
INVARIANT InStep
