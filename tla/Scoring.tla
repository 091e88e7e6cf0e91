------------------------------- MODULE Scoring -------------------------------
(****************************************************************************)
(* The scoring lease of a vacancy.  Any number of scorers (the worker's     *)
(* score_user, and the maintenance requests of the API process) take        *)
(* vacancies to be scored, while the user decides and the worker's loop     *)
(* reaps the leases of scorers that died or are slow.                       *)
(*                                                                          *)
(* A scorer claims a row with a fresh token and a lease; every later write  *)
(* of it is one UPDATE guarded by status = 'scoring' and by the token.      *)
(* A lease in the past is only acted upon by the reaper.  There is no       *)
(* clock: a lease may expire at any time, a delayed retry is always due.    *)
(****************************************************************************)
EXTENDS Integers, FiniteSets

CONSTANTS
    Vacancies,      \* rows of vacancy_pipeline
    Scorers,        \* rows being scored at the same time, by any process
    NoVacancy,      \* a scorer at rest
    MaxClaims       \* bound: claims made

ASSUME ScoringAssumption ==
    /\ NoVacancy \notin Vacancies
    /\ MaxClaims \in Nat

VARIABLES
    status,         \* vacancy_pipeline.status
    token,          \* .score_claim_token, 0 is NULL
    live,           \* .score_lease_expires_at is in the future
    attempts,       \* .score_attempts
    failures,       \* .score_lease_failures
    claims,         \* claims made so far; the token of a claim is its number
    pc,             \* scorers: the next statement
    row,            \* the vacancy a scorer works on
    mine,           \* its claim token
    readStatus,     \* the status it has read, in the list or in enrich()
    readAttempts,   \* score_attempts as it was in the list
    lastClaim,      \* history: the latest claim of a vacancy
    scoredBy,       \* history: the claim whose result the row holds
    failed          \* history: transient hh failures since the row was last
                    \* queued afresh or scored

lease   == <<token, live>>
counts  == <<attempts, failures>>
local   == <<row, mine, readStatus, readAttempts>>
hist    == <<lastClaim, scoredBy, failed>>
rows    == <<status, lease, counts, hist>>
vars    == <<status, token, live, attempts, failures, claims, pc, row, mine,
             readStatus, readAttempts, lastClaim, scoredBy, failed>>

-----------------------------------------------------------------------------
\* "decided" stands for what the user made of a vacancy: selected, hold,
\* rejected_by_user, and the letter and send states that follow.
Status == {"discovered", "scoring", "scored", "rejected_by_rule",
           "score_error", "review", "decided", "archived"}

Step   == {"idle", "requeue", "claim", "enrich", "fetch", "check", "score",
           "transient", "error", "release"}

\* The steps inside the try block of score_one.
Working == {"enrich", "fetch", "check", "score", "transient", "error"}

MaxAttempts == 3    \* MAX_TRANSIENT_SCORE_ATTEMPTS
MaxExpiries == 3    \* reap_expired_vacancy_scoring: failures >= 2 is the last

Init ==
    /\ status = [v \in Vacancies |-> "discovered"]
    /\ token = [v \in Vacancies |-> 0]
    /\ live = [v \in Vacancies |-> FALSE]
    /\ attempts = [v \in Vacancies |-> 0]
    /\ failures = [v \in Vacancies |-> 0]
    /\ claims = 0
    /\ pc = [s \in Scorers |-> "idle"]
    /\ row = [s \in Scorers |-> NoVacancy]
    /\ mine = [s \in Scorers |-> 0]
    /\ readStatus = [s \in Scorers |-> "discovered"]
    /\ readAttempts = [s \in Scorers |-> 0]
    /\ lastClaim = [v \in Vacancies |-> 0]
    /\ scoredBy = [v \in Vacancies |-> 0]
    /\ failed = [v \in Vacancies |-> 0]

-----------------------------------------------------------------------------
Set(f, v, val) == [f EXCEPT ![v] = val]

Goto(s, step) == pc' = Set(pc, s, step)

\* A scorer is through with its row and forgets it.
Done(s) ==
    /\ Goto(s, "idle")
    /\ row' = Set(row, s, NoVacancy)
    /\ mine' = Set(mine, s, 0)
    /\ readStatus' = Set(readStatus, s, "discovered")
    /\ readAttempts' = Set(readAttempts, s, 0)

\* transition() to anything but 'scoring' also clears the claim columns.
Leave(v, to) ==
    /\ status' = Set(status, v, to)
    /\ token' = Set(token, v, 0)
    /\ live' = Set(live, v, FALSE)

\* The guard of a scorer's writes: its row is being scored, under its claim.
OwnsAnyToken(s) == status[row[s]] = "scoring"    \* mutant

Owns(s) ==
    /\ status[row[s]] = "scoring"
    /\ token[row[s]] = mine[s]

-----------------------------------------------------------------------------
(* The scorer.                                                              *)

\* A due row of the list of score_user, or a row of a maintenance list.
Load(s, v) ==
    /\ pc[s] = "idle"
    /\ status[v] \in {"discovered", "scored", "rejected_by_rule",
                      "score_error", "review"}
    /\ Goto(s, IF status[v] = "discovered" THEN "claim" ELSE "requeue")
    /\ row' = Set(row, s, v)
    /\ readStatus' = Set(readStatus, s, status[v])
    /\ readAttempts' = Set(readAttempts, s, attempts[v])
    /\ UNCHANGED <<rows, claims, mine>>

\* _requeue_score and _requeue_one: back to 'discovered' with no attempts,
\* guarded by the status that was read.
Fresh(v) ==
    /\ Leave(v, "discovered")
    /\ attempts' = Set(attempts, v, 0)
    /\ failed' = Set(failed, v, 0)
    /\ UNCHANGED <<failures, lastClaim, scoredBy>>

RequeueUnguarded(s) ==    \* mutant
    /\ pc[s] = "requeue"
    /\ Fresh(row[s])
    /\ Goto(s, "claim")
    /\ UNCHANGED <<claims, local>>

Requeue(s) ==
    /\ pc[s] = "requeue"
    /\ IF status[row[s]] = readStatus[s]
       THEN /\ Fresh(row[s])
            /\ Goto(s, "claim")
            /\ UNCHANGED local
       ELSE /\ UNCHANGED rows
            /\ Done(s)
    /\ UNCHANGED claims

\* claim_for_scoring: one UPDATE guarded by 'discovered'.
Claim(s) ==
    LET v == row[s] IN
    /\ pc[s] = "claim"
    /\ IF status[v] = "discovered"
       THEN /\ claims < MaxClaims
            /\ claims' = claims + 1
            /\ status' = Set(status, v, "scoring")
            /\ token' = Set(token, v, claims + 1)
            /\ live' = Set(live, v, TRUE)
            /\ mine' = Set(mine, s, claims + 1)
            /\ lastClaim' = Set(lastClaim, v, claims + 1)
            /\ Goto(s, "enrich")
            /\ UNCHANGED <<row, readStatus, readAttempts, scoredBy, failed>>
       ELSE /\ UNCHANGED <<status, lease, hist, claims>>
            /\ Done(s)
    /\ UNCHANGED counts

\* enrich() reads the row ...
EnrichRead(s) ==
    /\ pc[s] = "enrich"
    /\ readStatus' = Set(readStatus, s, status[row[s]])
    /\ Goto(s, "fetch")
    /\ UNCHANGED <<rows, claims, row, mine, readAttempts>>

\* ... fetches the vacancy from hh, with one of four outcomes.
FetchOk(s) ==
    /\ pc[s] = "fetch"
    /\ Goto(s, "check")
    /\ UNCHANGED <<rows, claims, local>>

\* Gone or archived on hh: archived from the status that was read, and under
\* the claim only when that status was 'scoring'.
FetchGone(s) ==
    LET v == row[s] IN
    /\ pc[s] = "fetch"
    /\ IF /\ status[v] = readStatus[s]
          /\ readStatus[s] = "scoring" => token[v] = mine[s]
       THEN /\ Leave(v, "archived")
            /\ UNCHANGED <<counts, hist>>
       ELSE UNCHANGED rows
    /\ Goto(s, "check")
    /\ UNCHANGED <<claims, local>>

FetchTransient(s) ==
    /\ pc[s] = "fetch"
    /\ Goto(s, "transient")
    /\ UNCHANGED <<rows, claims, local>>

\* Any other exception, before or after the fetch, or of the model.
Fails(s) ==
    /\ pc[s] \in {"enrich", "fetch", "check", "score"}
    /\ Goto(s, "error")
    /\ UNCHANGED <<rows, claims, local>>

\* score_one goes on only with a row that is still being scored, by whomever.
Check(s) ==
    /\ pc[s] = "check"
    /\ Goto(s, IF status[row[s]] = "scoring" THEN "score" ELSE "release")
    /\ UNCHANGED <<rows, claims, local>>

\* A score, or a hard reject by a rule or the blacklist.
WriteScore(s) ==
    LET v == row[s] IN
    /\ pc[s] = "score"
    /\ IF Owns(s)
       THEN /\ \E to \in {"scored", "rejected_by_rule"} : Leave(v, to)
            /\ attempts' = Set(attempts, v, 0)
            /\ failures' = Set(failures, v, 0)
            /\ scoredBy' = Set(scoredBy, v, mine[s])
            /\ failed' = Set(failed, v, 0)
            /\ UNCHANGED lastClaim
       ELSE UNCHANGED rows
    /\ Goto(s, "release")
    /\ UNCHANGED <<claims, local>>

\* _mark_transient_hh_error: the attempt is counted from the list's value.
MarkTransient(s) ==
    LET v       == row[s]
        attempt == readAttempts[s] + 1
    IN
    /\ pc[s] = "transient"
    /\ IF Owns(s)
       THEN /\ Leave(v, IF attempt >= MaxAttempts THEN "score_error"
                        ELSE "discovered")
            /\ attempts' = Set(attempts, v, attempt)
            /\ failed' = Set(failed, v, failed[v] + 1)
            /\ UNCHANGED <<failures, lastClaim, scoredBy>>
       ELSE UNCHANGED rows
    /\ Goto(s, "release")
    /\ UNCHANGED <<claims, local>>

\* _mark_error.
MarkErrorWrongWord(s) ==    \* mutant: a status the table does not know
    /\ pc[s] = "error"
    /\ IF Owns(s)
       THEN Leave(row[s], "error") /\ UNCHANGED <<counts, hist>>
       ELSE UNCHANGED rows
    /\ Goto(s, "release")
    /\ UNCHANGED <<claims, local>>

MarkError(s) ==
    /\ pc[s] = "error"
    /\ IF Owns(s)
       THEN Leave(row[s], "score_error") /\ UNCHANGED <<counts, hist>>
       ELSE UNCHANGED rows
    /\ Goto(s, "release")
    /\ UNCHANGED <<claims, local>>

\* A cancelled scorer releases its claim, and so does the finally block after
\* every other outcome.
Cancel(s) ==
    /\ pc[s] \in Working
    /\ Goto(s, "release")
    /\ UNCHANGED <<rows, claims, local>>

Release(s) ==
    /\ pc[s] = "release"
    /\ IF Owns(s)
       THEN Leave(row[s], "discovered") /\ UNCHANGED <<counts, hist>>
       ELSE UNCHANGED rows
    /\ Done(s)
    /\ UNCHANGED claims

\* The process dies, or the release itself fails: the lease is left behind.
Crash(s) ==
    /\ pc[s] # "idle"
    /\ Done(s)
    /\ UNCHANGED <<rows, claims>>

-----------------------------------------------------------------------------
(* The reaper.                                                              *)

Expire(v) ==
    /\ status[v] = "scoring"
    /\ live[v]
    /\ live' = Set(live, v, FALSE)
    /\ UNCHANGED <<status, token, counts, hist, claims, pc, local>>

\* reap_expired_vacancy_scoring, one row of it.
ReapForgets(v) ==    \* mutant: the token is left in the row
    /\ status[v] = "scoring"
    /\ ~live[v]
    /\ status' = Set(status, v, "discovered")
    /\ UNCHANGED <<lease, counts, hist, claims, pc, local>>

ReapLegacyOnly(v) ==    \* mutant: only rows without a lease are found
    /\ status[v] = "scoring"
    /\ token[v] = 0
    /\ Leave(v, "discovered")
    /\ UNCHANGED <<counts, hist, claims, pc, local>>

Reap(v) ==
    /\ status[v] = "scoring"
    /\ ~live[v]
    /\ Leave(v, IF failures[v] >= MaxExpiries - 1 THEN "score_error"
                ELSE "discovered")
    /\ failures' = Set(failures, v, failures[v] + 1)
    /\ UNCHANGED <<attempts, hist, claims, pc, local>>

-----------------------------------------------------------------------------
(* The user.  Each handler reads the status and repeats it in its UPDATE.   *)

\* decide(): select, reject, hold or review, also from under a scorer.
Decide(v) ==
    /\ status[v] \in {"discovered", "scoring", "scored", "review",
                      "score_error", "decided"}
    /\ \E to \in {"decided", "review"} : Leave(v, to)
    /\ UNCHANGED <<counts, hist, claims, pc, local>>

\* decide(archive), archive_many, archive_impact.
Archive(v) ==
    /\ status[v] \in {"discovered", "scoring", "scored", "review",
                      "score_error"}
    /\ Leave(v, "archived")
    /\ UNCHANGED <<counts, hist, claims, pc, local>>

\* requeue_impact_for_rescore.
RequeueImpact(v) ==
    /\ status[v] \in {"scored", "review", "score_error", "rejected_by_rule"}
    /\ Fresh(v)
    /\ UNCHANGED <<claims, pc, local>>

ScorerNext(s) ==
    \/ Requeue(s) \/ Claim(s) \/ EnrichRead(s)
    \/ FetchOk(s) \/ FetchGone(s) \/ FetchTransient(s) \/ Fails(s)
    \/ Check(s) \/ WriteScore(s) \/ MarkTransient(s) \/ MarkError(s)
    \/ Cancel(s) \/ Release(s) \/ Crash(s)

RowNext(v) ==
    Expire(v) \/ Reap(v) \/ Decide(v) \/ Archive(v) \/ RequeueImpact(v)

Next ==
    \/ \E s \in Scorers, v \in Vacancies : Load(s, v)
    \/ \E s \in Scorers : ScorerNext(s)
    \/ \E v \in Vacancies : RowNext(v)

\* Leases expire with time, and the worker's loop calls the reaper for ever.
\* Nothing is assumed of the scorers: each may hang or die at any step.
Fairness == \A v \in Vacancies : WF_vars(Expire(v)) /\ WF_vars(Reap(v))

Spec     == Init /\ [][Next]_vars
FairSpec == Spec /\ Fairness

-----------------------------------------------------------------------------
(* Properties.                                                              *)

TypeOK ==
    /\ status \in [Vacancies -> Status]
    /\ token \in [Vacancies -> Nat]
    /\ live \in [Vacancies -> BOOLEAN]
    /\ attempts \in [Vacancies -> Nat]
    /\ failures \in [Vacancies -> Nat]
    /\ claims \in Nat
    /\ pc \in [Scorers -> Step]
    /\ row \in [Scorers -> Vacancies \union {NoVacancy}]
    /\ \A s \in Scorers : pc[s] # "idle" => row[s] \in Vacancies
    /\ mine \in [Scorers -> Nat]
    /\ readStatus \in [Scorers -> Status]
    /\ readAttempts \in [Scorers -> Nat]
    /\ lastClaim \in [Vacancies -> Nat]
    /\ scoredBy \in [Vacancies -> Nat]
    /\ failed \in [Vacancies -> Nat]

\* "An old scorer cannot write after its lease was reaped and another scorer
\* acquired the row": the score in a row is always that of its latest claim,
\* however slow the earlier scorers are.
ScoreFromLatestClaim ==
    \A v \in Vacancies :
        status[v] \in {"scored", "rejected_by_rule"} =>
            scoredBy[v] = lastClaim[v] /\ scoredBy[v] # 0

\* A row is being scored exactly while its latest claim is in it: every way out
\* of 'scoring', the user's and the reaper's too, takes the claim away.
ClaimedWhileScoring ==
    \A v \in Vacancies :
        /\ status[v] = "scoring" => token[v] = lastClaim[v] /\ token[v] # 0
        /\ status[v] # "scoring" => token[v] = 0

\* A user's decision stands: no scorer, release, requeue or reaper that was
\* under way brings a decided or archived vacancy back into the funnel.
DecisionStands ==
    [][\A v \in Vacancies :
         /\ status[v] = "decided" =>
               status'[v] \in {"decided", "review", "archived"}
         /\ status[v] = "archived" => status'[v] = "archived"]_vars

\* No vacancy is left in 'scoring' by a scorer that died or hangs.
ScoringEnds ==
    \A v \in Vacancies : status[v] = "scoring" ~> status[v] # "scoring"

\* "Third independent transient hh failure becomes terminal score_error": the
\* third one since the vacancy was queued afresh, and not an earlier one.
\* (Does not hold: the count comes from the list a scorer was given.)
ThirdFailureIsTerminal ==
    [][\A v \in Vacancies :
         failed'[v] > failed[v] =>
            (status'[v] = "score_error" <=> failed'[v] = MaxAttempts)]_vars

-----------------------------------------------------------------------------
(* The inductive invariant behind the safety properties.                    *)

\* A scorer whose next write is guarded by the status it read never read one
\* that the user or hh made final.
RequeueInv ==
    \A s \in Scorers :
        pc[s] = "requeue" =>
            readStatus[s] \in {"scored", "rejected_by_rule", "score_error",
                               "review"}

ScoringInv ==
    /\ TypeOK
    /\ RequeueInv
    /\ ClaimedWhileScoring
    /\ ScoreFromLatestClaim
=============================================================================
