\* Two processes on two models that share one temporary file; nothing fails.
CONSTANTS
    Procs = {p1, p2}
    Models = {m1, m2}
    N = 3
    NL = 2
    NT = 1
    Targets <- MixedTargets
    MaxFailures = 0
    OnePerModel = TRUE
    Torn = Torn
    TornDoc = TornDoc
    Absent = Absent
    NoSha = NoSha
SPECIFICATION Spec
INVARIANTS
    SidecarTrue
PROPERTIES
    ImplementsRelabelling
