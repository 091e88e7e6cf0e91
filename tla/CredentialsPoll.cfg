\* The recruiter poll refreshes before it notes the token.
SPECIFICATION Spec
CONSTANTS
    Calls = {c1, c2}
    Faults = FALSE
    MaxPairs = 2
    Clients = {o1, o2, o3}
    NoClient = NoClient
SYMMETRY Symmetry
INVARIANTS
    RefreshIsPersisted
CHECK_DEADLOCK FALSE
