SPECIFICATION FairSpec
CONSTANTS
    Users = {u1}
    Cap = 1
    Faults = TRUE
    Restarts = TRUE
INVARIANTS TypeOK SlotsAccounted SessionsOwned AtMostOneStaleStart
PROPERTY StopTakesEffect
CHECK_DEADLOCK FALSE
