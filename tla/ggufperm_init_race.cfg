\* Two processes on one model.
CONSTANTS
    Procs = {p1, p2}
    Models = {m1}
    N = 2
    NL = 1
    NT = 1
    Targets <- FewTargets
    MaxFailures = 0
    OnePerModel = FALSE
    Torn = Torn
    TornDoc = TornDoc
    Absent = Absent
    NoSha = NoSha
SPECIFICATION Spec
INVARIANT BaselineKept
