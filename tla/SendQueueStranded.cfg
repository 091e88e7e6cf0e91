\* One request against one sender, nothing crashes.
SPECIFICATION Spec
CONSTANTS
    Vacancies = {v1}
    Texts = {t1, t2}
    NoText = NoText
    MaxEnqueues = 2
    MaxBatches = 2
    Clients = {c1}
    Senders = {s1}
    AllowCrash = FALSE
INVARIANTS
    FailedJobResettable
CHECK_DEADLOCK FALSE
