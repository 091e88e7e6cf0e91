\* Requests one at a time, two overlapping sender cycles, crashes.
SPECIFICATION Spec
CONSTANTS
    Vacancies = {v1}
    Texts = {t1, t2}
    NoText = NoText
    MaxEnqueues = 2
    MaxBatches = 2
    Clients = {c1}
    Senders = {s1, s2}
    AllowCrash = TRUE
SYMMETRY Symmetry
INVARIANTS
    OnePostPerEnqueue
    ClaimedJobIsTheOneRead
    LetterFrozenUnderSubmit
    SubmitHoldsTheJob
PROPERTIES
    
    KeepsPromise
CHECK_DEADLOCK FALSE
