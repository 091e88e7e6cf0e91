\* Two overlapping scorers, the user and the reaper on one vacancy.
SPECIFICATION FairSpec
CONSTANTS
    Vacancies = {v1}
    Scorers = {s1, s2}
    NoVacancy = NoVacancy
    MaxClaims = 3
INVARIANTS
    TypeOK
    ScoreFromLatestClaim
    ClaimedWhileScoring
PROPERTIES
    DecisionStands
    ScoringEnds
CHECK_DEADLOCK FALSE
