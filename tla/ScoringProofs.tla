---------------------------- MODULE ScoringProofs ----------------------------
(****************************************************************************)
(* The scoring lease proved for any number of vacancies and scorers: the    *)
(* claims fence off every late scorer, and decisions of the user stand.     *)
(*                                                                          *)
(* One lemma per part of the inductive invariant, with one step per         *)
(* statement of the scorers, the reaper and the user.                       *)
(****************************************************************************)
EXTENDS Scoring, TLAPS

\* Every statement keeps the rows and the scorers well formed.
LEMMA TypeStep ==
    TypeOK /\ Next => TypeOK'
<1> SUFFICES ASSUME TypeOK, Next
             PROVE  TypeOK'
    OBVIOUS
<1> USE ScoringAssumption
    DEF TypeOK, Status, Step, Working,
        lease, counts, local, hist, rows
<1>1. ASSUME NEW s \in Scorers, NEW v \in Vacancies, Load(s, v)
      PROVE  TypeOK'
    BY <1>1 DEF Load, Set, Goto
<1>2. ASSUME NEW s \in Scorers, Requeue(s) PROVE TypeOK'
    <2>1. row[s] \in Vacancies
        BY <1>2 DEF Requeue
    <2>2. status' \in [Vacancies -> Status]
        BY <1>2, <2>1 DEF Requeue, Fresh, Leave, Set, Goto, Done
    <2>3. token' \in [Vacancies -> Nat]
        BY <1>2, <2>1 DEF Requeue, Fresh, Leave, Set, Goto, Done
    <2>4. live' \in [Vacancies -> BOOLEAN]
        BY <1>2, <2>1 DEF Requeue, Fresh, Leave, Set, Goto, Done
    <2>5. attempts' \in [Vacancies -> Nat] /\ failed' \in [Vacancies -> Nat]
        BY <1>2, <2>1 DEF Requeue, Fresh, Leave, Set, Goto, Done
    <2> QED
        BY <1>2, <2>1, <2>2, <2>3, <2>4, <2>5 DEF Requeue, Fresh, Leave, Set, Goto, Done
<1>3. ASSUME NEW s \in Scorers, Claim(s) PROVE TypeOK'
    <2>1. row[s] \in Vacancies
        BY <1>3 DEF Claim
    <2>2. status' \in [Vacancies -> Status]
        BY <1>3, <2>1 DEF Claim, Set, Goto, Done
    <2>3. token' \in [Vacancies -> Nat]
        BY <1>3, <2>1 DEF Claim, Set, Goto, Done
    <2>4. live' \in [Vacancies -> BOOLEAN]
        BY <1>3, <2>1 DEF Claim, Set, Goto, Done
    <2>5. claims' \in Nat /\ lastClaim' \in [Vacancies -> Nat]
        BY <1>3, <2>1 DEF Claim, Set, Goto, Done
    <2>6. mine' \in [Scorers -> Nat]
        BY <1>3, <2>1 DEF Claim, Set, Goto, Done
    <2> QED
        BY <1>3, <2>1, <2>2, <2>3, <2>4, <2>5, <2>6 DEF Claim, Set, Goto, Done
<1>4. ASSUME NEW s \in Scorers, EnrichRead(s) PROVE TypeOK'
    BY <1>4 DEF EnrichRead, Set, Goto
<1>5. ASSUME NEW s \in Scorers, FetchOk(s) PROVE TypeOK'
    BY <1>5 DEF FetchOk, Set, Goto
<1>6. ASSUME NEW s \in Scorers, FetchGone(s) PROVE TypeOK'
    <2>1. row[s] \in Vacancies
        BY <1>6 DEF FetchGone
    <2>2. status' \in [Vacancies -> Status]
        BY <1>6, <2>1 DEF FetchGone, Leave, Set, Goto
    <2>3. token' \in [Vacancies -> Nat]
        BY <1>6, <2>1 DEF FetchGone, Leave, Set, Goto
    <2>4. live' \in [Vacancies -> BOOLEAN]
        BY <1>6, <2>1 DEF FetchGone, Leave, Set, Goto
    <2> QED
        BY <1>6, <2>1, <2>2, <2>3, <2>4 DEF FetchGone, Leave, Set, Goto
<1>7. ASSUME NEW s \in Scorers, FetchTransient(s) PROVE TypeOK'
    BY <1>7 DEF FetchTransient, Set, Goto
<1>8. ASSUME NEW s \in Scorers, Fails(s) PROVE TypeOK'
    BY <1>8 DEF Fails, Set, Goto
<1>9. ASSUME NEW s \in Scorers, Check(s) PROVE TypeOK'
    BY <1>9 DEF Check, Set, Goto
<1>10. ASSUME NEW s \in Scorers, WriteScore(s) PROVE TypeOK'
    <2>1. row[s] \in Vacancies
        BY <1>10 DEF WriteScore
    <2>2. status' \in [Vacancies -> Status]
        BY <1>10, <2>1 DEF WriteScore, Leave, Set, Goto
    <2>3. token' \in [Vacancies -> Nat]
        BY <1>10, <2>1 DEF WriteScore, Leave, Set, Goto
    <2>4. live' \in [Vacancies -> BOOLEAN]
        BY <1>10, <2>1 DEF WriteScore, Leave, Set, Goto
    <2>5. attempts' \in [Vacancies -> Nat] /\ failed' \in [Vacancies -> Nat]
        BY <1>10, <2>1 DEF WriteScore, Leave, Set, Goto
    <2>6. failures' \in [Vacancies -> Nat] /\ scoredBy' \in [Vacancies -> Nat]
        BY <1>10, <2>1 DEF WriteScore, Leave, Set, Goto
    <2> QED
        BY <1>10, <2>1, <2>2, <2>3, <2>4, <2>5, <2>6 DEF WriteScore, Leave, Set, Goto
<1>11. ASSUME NEW s \in Scorers, MarkTransient(s) PROVE TypeOK'
    <2>1. row[s] \in Vacancies
        BY <1>11 DEF MarkTransient
    <2>2. status' \in [Vacancies -> Status]
        BY <1>11, <2>1 DEF MarkTransient, Leave, Set, Goto
    <2>3. token' \in [Vacancies -> Nat]
        BY <1>11, <2>1 DEF MarkTransient, Leave, Set, Goto
    <2>4. live' \in [Vacancies -> BOOLEAN]
        BY <1>11, <2>1 DEF MarkTransient, Leave, Set, Goto
    <2>5. attempts' \in [Vacancies -> Nat] /\ failed' \in [Vacancies -> Nat]
        BY <1>11, <2>1 DEF MarkTransient, Leave, Set, Goto
    <2> QED
        BY <1>11, <2>1, <2>2, <2>3, <2>4, <2>5 DEF MarkTransient, Leave, Set, Goto
<1>12. ASSUME NEW s \in Scorers, MarkError(s) PROVE TypeOK'
    <2>1. row[s] \in Vacancies
        BY <1>12 DEF MarkError
    <2>2. status' \in [Vacancies -> Status]
        BY <1>12, <2>1 DEF MarkError, Leave, Set, Goto
    <2>3. token' \in [Vacancies -> Nat]
        BY <1>12, <2>1 DEF MarkError, Leave, Set, Goto
    <2>4. live' \in [Vacancies -> BOOLEAN]
        BY <1>12, <2>1 DEF MarkError, Leave, Set, Goto
    <2> QED
        BY <1>12, <2>1, <2>2, <2>3, <2>4 DEF MarkError, Leave, Set, Goto
<1>13. ASSUME NEW s \in Scorers, Cancel(s) PROVE TypeOK'
    BY <1>13 DEF Cancel, Set, Goto
<1>14. ASSUME NEW s \in Scorers, Release(s) PROVE TypeOK'
    <2>1. row[s] \in Vacancies
        BY <1>14 DEF Release
    <2>2. status' \in [Vacancies -> Status]
        BY <1>14, <2>1 DEF Release, Leave, Set, Goto, Done
    <2>3. token' \in [Vacancies -> Nat]
        BY <1>14, <2>1 DEF Release, Leave, Set, Goto, Done
    <2>4. live' \in [Vacancies -> BOOLEAN]
        BY <1>14, <2>1 DEF Release, Leave, Set, Goto, Done
    <2> QED
        BY <1>14, <2>1, <2>2, <2>3, <2>4 DEF Release, Leave, Set, Goto, Done
<1>15. ASSUME NEW s \in Scorers, Crash(s) PROVE TypeOK'
    BY <1>15 DEF Crash, Set, Goto, Done
<1>16. ASSUME NEW v \in Vacancies, Expire(v) PROVE TypeOK'
    BY <1>16 DEF Expire, Set
<1>17. ASSUME NEW v \in Vacancies, Reap(v) PROVE TypeOK'
    BY <1>17 DEF Reap, Leave, Set
<1>18. ASSUME NEW v \in Vacancies, Decide(v) PROVE TypeOK'
    BY <1>18 DEF Decide, Leave, Set
<1>19. ASSUME NEW v \in Vacancies, Archive(v) PROVE TypeOK'
    BY <1>19 DEF Archive, Leave, Set
<1>20. ASSUME NEW v \in Vacancies, RequeueImpact(v) PROVE TypeOK'
    BY <1>20 DEF RequeueImpact, Fresh, Leave, Set
<1> QED
    BY <1>1, <1>2, <1>3, <1>4, <1>5, <1>6, <1>7, <1>8, <1>9, <1>10, <1>11,
       <1>12, <1>13, <1>14, <1>15, <1>16, <1>17, <1>18, <1>19, <1>20
    DEF Next, ScorerNext, RowNext

\* What a scorer is about to requeue it has read in a status that may be
\* scored again.
LEMMA RequeueStep ==
    TypeOK /\ RequeueInv /\ Next => RequeueInv'
<1> SUFFICES ASSUME TypeOK, RequeueInv, Next
             PROVE  RequeueInv'
    OBVIOUS
<1> USE ScoringAssumption
    DEF TypeOK, RequeueInv, Status, Step, Working,
        lease, counts, local, hist, rows
<1>1. ASSUME NEW s \in Scorers, NEW v \in Vacancies, Load(s, v)
      PROVE  RequeueInv'
    BY <1>1 DEF Load, Set, Goto
<1>2. ASSUME NEW s \in Scorers, Requeue(s) PROVE RequeueInv'
    BY <1>2 DEF Requeue, Fresh, Leave, Set, Goto, Done
<1>3. ASSUME NEW s \in Scorers, Claim(s) PROVE RequeueInv'
    BY <1>3 DEF Claim, Set, Goto, Done
<1>4. ASSUME NEW s \in Scorers, EnrichRead(s) PROVE RequeueInv'
    BY <1>4 DEF EnrichRead, Set, Goto
<1>5. ASSUME NEW s \in Scorers, FetchOk(s) PROVE RequeueInv'
    BY <1>5 DEF FetchOk, Set, Goto
<1>6. ASSUME NEW s \in Scorers, FetchGone(s) PROVE RequeueInv'
    BY <1>6 DEF FetchGone, Leave, Set, Goto
<1>7. ASSUME NEW s \in Scorers, FetchTransient(s) PROVE RequeueInv'
    BY <1>7 DEF FetchTransient, Set, Goto
<1>8. ASSUME NEW s \in Scorers, Fails(s) PROVE RequeueInv'
    BY <1>8 DEF Fails, Set, Goto
<1>9. ASSUME NEW s \in Scorers, Check(s) PROVE RequeueInv'
    BY <1>9 DEF Check, Set, Goto
<1>10. ASSUME NEW s \in Scorers, WriteScore(s) PROVE RequeueInv'
    BY <1>10 DEF WriteScore, Owns, Leave, Set, Goto
<1>11. ASSUME NEW s \in Scorers, MarkTransient(s) PROVE RequeueInv'
    BY <1>11 DEF MarkTransient, Owns, Leave, Set, Goto
<1>12. ASSUME NEW s \in Scorers, MarkError(s) PROVE RequeueInv'
    BY <1>12 DEF MarkError, Owns, Leave, Set, Goto
<1>13. ASSUME NEW s \in Scorers, Cancel(s) PROVE RequeueInv'
    BY <1>13 DEF Cancel, Set, Goto
<1>14. ASSUME NEW s \in Scorers, Release(s) PROVE RequeueInv'
    BY <1>14 DEF Release, Owns, Leave, Set, Goto, Done
<1>15. ASSUME NEW s \in Scorers, Crash(s) PROVE RequeueInv'
    BY <1>15 DEF Crash, Set, Goto, Done
<1>16. ASSUME NEW v \in Vacancies, Expire(v) PROVE RequeueInv'
    BY <1>16 DEF Expire, Set
<1>17. ASSUME NEW v \in Vacancies, Reap(v) PROVE RequeueInv'
    BY <1>17 DEF Reap, Leave, Set
<1>18. ASSUME NEW v \in Vacancies, Decide(v) PROVE RequeueInv'
    BY <1>18 DEF Decide, Leave, Set
<1>19. ASSUME NEW v \in Vacancies, Archive(v) PROVE RequeueInv'
    BY <1>19 DEF Archive, Leave, Set
<1>20. ASSUME NEW v \in Vacancies, RequeueImpact(v) PROVE RequeueInv'
    BY <1>20 DEF RequeueImpact, Fresh, Leave, Set
<1> QED
    BY <1>1, <1>2, <1>3, <1>4, <1>5, <1>6, <1>7, <1>8, <1>9, <1>10, <1>11,
       <1>12, <1>13, <1>14, <1>15, <1>16, <1>17, <1>18, <1>19, <1>20
    DEF Next, ScorerNext, RowNext

\* Entering 'scoring' writes a claim, leaving it takes the claim away.
LEMMA ClaimStep ==
    TypeOK /\ ClaimedWhileScoring /\ Next => ClaimedWhileScoring'
<1> SUFFICES ASSUME TypeOK, ClaimedWhileScoring, Next
             PROVE  ClaimedWhileScoring'
    OBVIOUS
<1> USE ScoringAssumption
    DEF TypeOK, ClaimedWhileScoring, Status,
        lease, counts, local, hist, rows
<1>1. ASSUME NEW s \in Scorers, NEW v \in Vacancies, Load(s, v)
      PROVE  ClaimedWhileScoring'
    BY <1>1 DEF Load, Set, Goto
<1>2. ASSUME NEW s \in Scorers, Requeue(s) PROVE ClaimedWhileScoring'
    BY <1>2 DEF Requeue, Fresh, Leave, Set, Goto, Done
<1>3. ASSUME NEW s \in Scorers, Claim(s) PROVE ClaimedWhileScoring'
    BY <1>3 DEF Claim, Set, Goto, Done
<1>4. ASSUME NEW s \in Scorers, EnrichRead(s) PROVE ClaimedWhileScoring'
    BY <1>4 DEF EnrichRead, Set, Goto
<1>5. ASSUME NEW s \in Scorers, FetchOk(s) PROVE ClaimedWhileScoring'
    BY <1>5 DEF FetchOk, Set, Goto
<1>6. ASSUME NEW s \in Scorers, FetchGone(s) PROVE ClaimedWhileScoring'
    BY <1>6 DEF FetchGone, Leave, Set, Goto
<1>7. ASSUME NEW s \in Scorers, FetchTransient(s) PROVE ClaimedWhileScoring'
    BY <1>7 DEF FetchTransient, Set, Goto
<1>8. ASSUME NEW s \in Scorers, Fails(s) PROVE ClaimedWhileScoring'
    BY <1>8 DEF Fails, Set, Goto
<1>9. ASSUME NEW s \in Scorers, Check(s) PROVE ClaimedWhileScoring'
    BY <1>9 DEF Check, Set, Goto
<1>10. ASSUME NEW s \in Scorers, WriteScore(s) PROVE ClaimedWhileScoring'
    BY <1>10 DEF WriteScore, Owns, Leave, Set, Goto
<1>11. ASSUME NEW s \in Scorers, MarkTransient(s) PROVE ClaimedWhileScoring'
    BY <1>11 DEF MarkTransient, Owns, Leave, Set, Goto
<1>12. ASSUME NEW s \in Scorers, MarkError(s) PROVE ClaimedWhileScoring'
    BY <1>12 DEF MarkError, Owns, Leave, Set, Goto
<1>13. ASSUME NEW s \in Scorers, Cancel(s) PROVE ClaimedWhileScoring'
    BY <1>13 DEF Cancel, Set, Goto
<1>14. ASSUME NEW s \in Scorers, Release(s) PROVE ClaimedWhileScoring'
    BY <1>14 DEF Release, Owns, Leave, Set, Goto, Done
<1>15. ASSUME NEW s \in Scorers, Crash(s) PROVE ClaimedWhileScoring'
    BY <1>15 DEF Crash, Set, Goto, Done
<1>16. ASSUME NEW v \in Vacancies, Expire(v) PROVE ClaimedWhileScoring'
    BY <1>16 DEF Expire, Set
<1>17. ASSUME NEW v \in Vacancies, Reap(v) PROVE ClaimedWhileScoring'
    BY <1>17 DEF Reap, Leave, Set
<1>18. ASSUME NEW v \in Vacancies, Decide(v) PROVE ClaimedWhileScoring'
    BY <1>18 DEF Decide, Leave, Set
<1>19. ASSUME NEW v \in Vacancies, Archive(v) PROVE ClaimedWhileScoring'
    BY <1>19 DEF Archive, Leave, Set
<1>20. ASSUME NEW v \in Vacancies, RequeueImpact(v) PROVE ClaimedWhileScoring'
    BY <1>20 DEF RequeueImpact, Fresh, Leave, Set
<1> QED
    BY <1>1, <1>2, <1>3, <1>4, <1>5, <1>6, <1>7, <1>8, <1>9, <1>10, <1>11,
       <1>12, <1>13, <1>14, <1>15, <1>16, <1>17, <1>18, <1>19, <1>20
    DEF Next, ScorerNext, RowNext

\* A score is written under the row's own claim, and a new claim is made only
\* on a row that holds no score.
LEMMA ScoreStep ==
    TypeOK /\ ClaimedWhileScoring /\ ScoreFromLatestClaim /\ Next => ScoreFromLatestClaim'
<1> SUFFICES ASSUME TypeOK, ClaimedWhileScoring, ScoreFromLatestClaim, Next
             PROVE  ScoreFromLatestClaim'
    OBVIOUS
<1> USE ScoringAssumption
    DEF TypeOK, ClaimedWhileScoring, ScoreFromLatestClaim, Status,
        lease, counts, local, hist, rows
<1>1. ASSUME NEW s \in Scorers, NEW v \in Vacancies, Load(s, v)
      PROVE  ScoreFromLatestClaim'
    BY <1>1 DEF Load, Set, Goto
<1>2. ASSUME NEW s \in Scorers, Requeue(s) PROVE ScoreFromLatestClaim'
    BY <1>2 DEF Requeue, Fresh, Leave, Set, Goto, Done
<1>3. ASSUME NEW s \in Scorers, Claim(s) PROVE ScoreFromLatestClaim'
    BY <1>3 DEF Claim, Set, Goto, Done
<1>4. ASSUME NEW s \in Scorers, EnrichRead(s) PROVE ScoreFromLatestClaim'
    BY <1>4 DEF EnrichRead, Set, Goto
<1>5. ASSUME NEW s \in Scorers, FetchOk(s) PROVE ScoreFromLatestClaim'
    BY <1>5 DEF FetchOk, Set, Goto
<1>6. ASSUME NEW s \in Scorers, FetchGone(s) PROVE ScoreFromLatestClaim'
    BY <1>6 DEF FetchGone, Leave, Set, Goto
<1>7. ASSUME NEW s \in Scorers, FetchTransient(s) PROVE ScoreFromLatestClaim'
    BY <1>7 DEF FetchTransient, Set, Goto
<1>8. ASSUME NEW s \in Scorers, Fails(s) PROVE ScoreFromLatestClaim'
    BY <1>8 DEF Fails, Set, Goto
<1>9. ASSUME NEW s \in Scorers, Check(s) PROVE ScoreFromLatestClaim'
    BY <1>9 DEF Check, Set, Goto
<1>10. ASSUME NEW s \in Scorers, WriteScore(s) PROVE ScoreFromLatestClaim'
    BY <1>10 DEF WriteScore, Owns, Leave, Set, Goto
<1>11. ASSUME NEW s \in Scorers, MarkTransient(s) PROVE ScoreFromLatestClaim'
    BY <1>11 DEF MarkTransient, Owns, Leave, Set, Goto
<1>12. ASSUME NEW s \in Scorers, MarkError(s) PROVE ScoreFromLatestClaim'
    BY <1>12 DEF MarkError, Owns, Leave, Set, Goto
<1>13. ASSUME NEW s \in Scorers, Cancel(s) PROVE ScoreFromLatestClaim'
    BY <1>13 DEF Cancel, Set, Goto
<1>14. ASSUME NEW s \in Scorers, Release(s) PROVE ScoreFromLatestClaim'
    BY <1>14 DEF Release, Owns, Leave, Set, Goto, Done
<1>15. ASSUME NEW s \in Scorers, Crash(s) PROVE ScoreFromLatestClaim'
    BY <1>15 DEF Crash, Set, Goto, Done
<1>16. ASSUME NEW v \in Vacancies, Expire(v) PROVE ScoreFromLatestClaim'
    BY <1>16 DEF Expire, Set
<1>17. ASSUME NEW v \in Vacancies, Reap(v) PROVE ScoreFromLatestClaim'
    BY <1>17 DEF Reap, Leave, Set
<1>18. ASSUME NEW v \in Vacancies, Decide(v) PROVE ScoreFromLatestClaim'
    BY <1>18 DEF Decide, Leave, Set
<1>19. ASSUME NEW v \in Vacancies, Archive(v) PROVE ScoreFromLatestClaim'
    BY <1>19 DEF Archive, Leave, Set
<1>20. ASSUME NEW v \in Vacancies, RequeueImpact(v) PROVE ScoreFromLatestClaim'
    BY <1>20 DEF RequeueImpact, Fresh, Leave, Set
<1> QED
    BY <1>1, <1>2, <1>3, <1>4, <1>5, <1>6, <1>7, <1>8, <1>9, <1>10, <1>11,
       <1>12, <1>13, <1>14, <1>15, <1>16, <1>17, <1>18, <1>19, <1>20
    DEF Next, ScorerNext, RowNext

-----------------------------------------------------------------------------
(* The inductive invariant.                                                 *)

\* It holds at the start.
LEMMA InitInv == Init => ScoringInv
<1> SUFFICES ASSUME Init PROVE ScoringInv
    OBVIOUS
<1>1. TypeOK
    BY ScoringAssumption DEF Init, TypeOK, Status, Step
<1>2. RequeueInv
    BY DEF Init, RequeueInv
<1>3. ClaimedWhileScoring /\ ScoreFromLatestClaim
    BY DEF Init, ClaimedWhileScoring, ScoreFromLatestClaim
<1> QED
    BY <1>1, <1>2, <1>3 DEF ScoringInv

\* Every step of the system, or none, keeps it.
LEMMA NextInv == ScoringInv /\ [Next]_vars => ScoringInv'
<1> SUFFICES ASSUME ScoringInv, [Next]_vars PROVE ScoringInv'
    OBVIOUS
<1>1. CASE Next
    <2> USE <1>1 DEF ScoringInv
    <2>1. TypeOK'
        BY TypeStep
    <2>2. RequeueInv'
        BY RequeueStep
    <2>3. ClaimedWhileScoring'
        BY ClaimStep
    <2>4. ScoreFromLatestClaim'
        BY ScoreStep
    <2> QED
        BY <2>1, <2>2, <2>3, <2>4
<1>2. CASE UNCHANGED vars
    BY <1>2 DEF vars, ScoringInv, TypeOK, RequeueInv, ClaimedWhileScoring,
                ScoreFromLatestClaim
<1> QED
    BY <1>1, <1>2

\* What the statements do to a vacancy the user, or hh, has settled.
LEMMA SettledStep ==
    ASSUME TypeOK, RequeueInv, ClaimedWhileScoring, Next, NEW w \in Vacancies
    PROVE  /\ status[w] = "decided" =>
                 status'[w] \in {"decided", "review", "archived"}
           /\ status[w] = "archived" => status'[w] = "archived"
<1> USE DEF TypeOK, Set, rows, lease, Leave
<1>1. ASSUME NEW s \in Scorers, NEW v \in Vacancies, Load(s, v)
      PROVE  status' = status
    BY <1>1 DEF Load
<1>2. ASSUME NEW s \in Scorers, Requeue(s)
      PROVE  \/ status' = status
             \/ /\ status' = [status EXCEPT ![row[s]] = "discovered"]
                /\ status[row[s]] \notin {"decided", "archived"}
    BY <1>2 DEF Requeue, Fresh, RequeueInv
<1>3. ASSUME NEW s \in Scorers, Claim(s)
      PROVE  \/ status' = status
             \/ /\ status' = [status EXCEPT ![row[s]] = "scoring"]
                /\ status[row[s]] \notin {"decided", "archived"}
    BY <1>3 DEF Claim
<1>4. ASSUME NEW s \in Scorers, FetchGone(s)
      PROVE  \/ status' = status
             \/ status' = [status EXCEPT ![row[s]] = "archived"]
    BY <1>4 DEF FetchGone
<1>5. ASSUME NEW s \in Scorers,
             WriteScore(s) \/ MarkTransient(s) \/ MarkError(s) \/ Release(s)
      PROVE  \/ status' = status
             \/ \E to \in Status :
                   /\ status' = [status EXCEPT ![row[s]] = to]
                   /\ status[row[s]] = "scoring"
    BY <1>5 DEF WriteScore, MarkTransient, MarkError, Release, Owns, Status
<1>6. ASSUME NEW s \in Scorers,
             \/ EnrichRead(s) \/ FetchOk(s) \/ FetchTransient(s) \/ Fails(s)
             \/ Check(s) \/ Cancel(s) \/ Crash(s)
      PROVE  status' = status
    BY <1>6 DEF EnrichRead, FetchOk, FetchTransient, Fails, Check, Cancel, Crash
<1>7. ASSUME NEW v \in Vacancies, Expire(v) \/ Reap(v)
      PROVE  \/ status' = status
             \/ \E to \in Status :
                   /\ status' = [status EXCEPT ![v] = to]
                   /\ status[v] = "scoring"
    BY <1>7 DEF Expire, Reap, Status
<1>8. ASSUME NEW v \in Vacancies, Decide(v)
      PROVE  \E to \in {"decided", "review"} :
                /\ status' = [status EXCEPT ![v] = to]
                /\ status[v] # "archived"
    BY <1>8 DEF Decide
<1>9. ASSUME NEW v \in Vacancies, Archive(v)
      PROVE  status' = [status EXCEPT ![v] = "archived"]
    BY <1>9 DEF Archive
<1>10. ASSUME NEW v \in Vacancies, RequeueImpact(v)
       PROVE  /\ status' = [status EXCEPT ![v] = "discovered"]
              /\ status[v] \notin {"decided", "archived"}
    BY <1>10 DEF RequeueImpact, Fresh
<1> QED
    BY <1>1, <1>2, <1>3, <1>4, <1>5, <1>6, <1>7, <1>8, <1>9, <1>10
    DEF Next, ScorerNext, RowNext

-----------------------------------------------------------------------------
(* The theorems.                                                            *)

\* The inductive invariant holds however many scorers overlap, die or hang.
THEOREM Invariance == Spec => []ScoringInv
<1> QED
    BY InitInv, NextInv, PTL DEF Spec

\* Type correctness of the rows and the scorers.
THEOREM TypeCorrect == Spec => []TypeOK
<1>1. ScoringInv => TypeOK
    BY DEF ScoringInv
<1> QED
    BY <1>1, Invariance, PTL

\* transition()'s promise: a score is never that of an older claim.
THEOREM LatestClaimScores == Spec => []ScoreFromLatestClaim
<1>1. ScoringInv => ScoreFromLatestClaim
    BY DEF ScoringInv
<1> QED
    BY <1>1, Invariance, PTL

\* Status and claim columns agree after every statement.
THEOREM ClaimIffScoring == Spec => []ClaimedWhileScoring
<1>1. ScoringInv => ClaimedWhileScoring
    BY DEF ScoringInv
<1> QED
    BY <1>1, Invariance, PTL

\* No scorer or reaper undoes a decision of the user or an archival.
THEOREM DecisionsStand == Spec => DecisionStands
<1>1. ScoringInv /\ [Next]_vars =>
         [\A v \in Vacancies :
            /\ status[v] = "decided" =>
                  status'[v] \in {"decided", "review", "archived"}
            /\ status[v] = "archived" => status'[v] = "archived"]_vars
    BY SettledStep DEF ScoringInv
<1> QED
    BY <1>1, Invariance, PTL DEF Spec, DecisionStands
=============================================================================
