\* Two jobs, one control request at a time, two overlapping cycles, crashes.
SPECIFICATION Spec
CONSTANTS
    Jobs = {j1, j2}
    Clients = {c1}
    Senders = {s1, s2}
    NoOwner = NoOwner
    Dead = Dead
    NoJob = NoJob
    MaxBatches = 2
    AllowCrash = TRUE
SYMMETRY Symmetry
INVARIANTS
    TypeOK
    LeaseExclusive
    AtMostOneMoreJob
    CompletedIsDone
    NoStrandedJob
PROPERTIES
    ActiveKeptUntilDone
CHECK_DEADLOCK FALSE
