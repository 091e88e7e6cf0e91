\* Two overlapping API requests against one sender, crashes.
SPECIFICATION Spec
CONSTANTS
    Vacancies = {v1}
    Texts = {t1, t2}
    NoText = NoText
    MaxEnqueues = 2
    MaxBatches = 2
    Clients = {c1, c2}
    Senders = {s1}
    AllowCrash = TRUE
SYMMETRY Symmetry
INVARIANTS
    ApprovedTextOnly
    SentIsTrue
CHECK_DEADLOCK FALSE
