\* One command at a time, two operations of the whole run fail or are killed.
CONSTANTS
    Procs = {p1}
    Models = {m1}
    N = 3
    NL = 1
    NT = 2
    Targets <- FewTargets
    MaxFailures = 2
    OnePerModel = TRUE
    Torn = Torn
    TornDoc = TornDoc
    Absent = Absent
    NoSha = NoSha
SPECIFICATION Spec
INVARIANTS
    BaselineKept
    LossBounded
PROPERTIES
    RevertHonest
    RevertSucceeds
