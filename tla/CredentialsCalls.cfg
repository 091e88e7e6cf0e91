\* Two calls at a time, with crashes and lost answers.
SPECIFICATION Spec
CONSTANTS
    Calls = {c1, c2}
    Faults = TRUE
    MaxPairs = 3
    Clients = {o1, o2, o3}
    NoClient = NoClient
SYMMETRY Symmetry
INVARIANTS
    TypeOK
    RowKeepsUp
PROPERTIES
    NeverBack
CHECK_DEADLOCK FALSE
