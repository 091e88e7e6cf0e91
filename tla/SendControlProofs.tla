-------------------------- MODULE SendControlProofs --------------------------
(****************************************************************************)
(* The lease, the stop and the batches of SendControl, proved for any       *)
(* number of jobs, requests and sender cycles.                              *)
(*                                                                          *)
(* One lemma per part of the inductive invariant, with one step per         *)
(* statement of the requests and cycles; the theorems come last.            *)
(****************************************************************************)
EXTENDS SendControl, TLAPS

\* The user has one control request in progress at a time.
OneRequest == \A c, d \in Clients : c = d

-----------------------------------------------------------------------------
(* The steps.                                                               *)

\* Every statement keeps the rows and the program counters well formed.
LEMMA TypeStep ==
    TypeOK /\ Next => TypeOK'
<1> SUFFICES ASSUME TypeOK, Next
             PROVE  TypeOK'
    OBVIOUS
<1> USE SendControlAssumption
    DEF TypeOK, DesiredState, BatchStatus, JobStatus, RequestStep,
        CycleStep, LeasedStep, BatchIds, control, lease, queue,
        batch, req, cyc
<1>1. ASSUME NEW i \in Jobs, Enqueue(i) PROVE TypeOK'
    BY <1>1 DEF Enqueue
<1>2. ASSUME NEW i \in Jobs, Withdraw(i) PROVE TypeOK'
    BY <1>2 DEF Withdraw
<1>3. ASSUME NEW d \in Clients, Resume(d) PROVE TypeOK'
    BY <1>3 DEF Resume, Goto
<1>4. ASSUME NEW d \in Clients, ResumeReadBatch(d) PROVE TypeOK'
    BY <1>4 DEF ResumeReadBatch, Goto
<1>5. ASSUME NEW d \in Clients, CreateBatch(d) PROVE TypeOK'
    <2>1. CASE Unbatched = {}
        BY <1>5, <2>1 DEF CreateBatch, Goto, Done
    <2>2. CASE Unbatched # {}
        <3>1. batches + 1 \in BatchIds
            BY <1>5, <2>2 DEF CreateBatch
        <3>2. batches' \in 0..MaxBatches
            BY <1>5, <2>2, <3>1 DEF CreateBatch
        <3>3. reqBatch' \in [Clients -> {0} \union BatchIds]
            BY <1>5, <2>2, <3>1 DEF CreateBatch
        <3>4. batchStatus' \in [BatchIds -> BatchStatus]
            BY <1>5, <2>2, <3>1 DEF CreateBatch
        <3>5. reqIds' \in [Clients -> SUBSET Jobs]
            <4>1. Unbatched \in SUBSET Jobs
                BY DEF Unbatched
            <4> QED
                BY <1>5, <2>2, <4>1 DEF CreateBatch
        <3> QED
            BY <1>5, <2>2, <3>2, <3>3, <3>4, <3>5
               DEF CreateBatch, Goto
    <2> QED
        BY <2>1, <2>2
<1>6. ASSUME NEW d \in Clients, AssignJobs(d) PROVE TypeOK'
    <2>1. CASE reqIds[d] \intersect Unbatched = {}
        <3>1. batchStatus' \in [BatchIds -> BatchStatus]
            BY <1>6, <2>1 DEF AssignJobs
        <3>2. reqPc' \in [Clients -> RequestStep]
            BY <1>6, <2>1 DEF AssignJobs, Goto, Done
        <3>3. /\ reqBatch' \in [Clients -> {0} \union BatchIds]
              /\ reqIds' \in [Clients -> SUBSET Jobs]
            BY <1>6, <2>1 DEF AssignJobs, Done
        <3> QED
            BY <1>6, <2>1, <3>1, <3>2, <3>3 DEF AssignJobs
    <2>2. CASE reqIds[d] \intersect Unbatched # {}
        <3>1. jobBatch' \in [Jobs -> {0} \union BatchIds]
            BY <1>6, <2>2 DEF AssignJobs
        <3>2. reqIds' \in [Clients -> SUBSET Jobs]
            BY <1>6, <2>2 DEF AssignJobs
        <3> QED
            BY <1>6, <2>2, <3>1, <3>2 DEF AssignJobs, Goto
    <2> QED
        BY <2>1, <2>2
<1>7. ASSUME NEW d \in Clients, RunBatch(d) PROVE TypeOK'
    BY <1>7 DEF RunBatch, Goto
<1>8. ASSUME NEW d \in Clients, PutRunning(d) PROVE TypeOK'
    BY <1>8 DEF PutRunning, Goto, Done, SetDesired
<1>9. ASSUME NEW d \in Clients, Pause(d) PROVE TypeOK'
    BY <1>9 DEF Pause, Goto
<1>10. ASSUME NEW d \in Clients, PauseBatch(d) PROVE TypeOK'
    BY <1>10 DEF PauseBatch, Goto, Paused
<1>11. ASSUME NEW d \in Clients, PutPaused(d) PROVE TypeOK'
    BY <1>11 DEF PutPaused, Goto, Done, SetDesired
<1>12. ASSUME NEW d \in Clients, Stop(d) PROVE TypeOK'
    BY <1>12 DEF Stop, Goto
<1>13. ASSUME NEW d \in Clients, StopReadJobs(d) PROVE TypeOK'
    BY <1>13 DEF StopReadJobs, Goto
<1>14. ASSUME NEW d \in Clients, PutStop(d) PROVE TypeOK'
    BY <1>14 DEF PutStop, Goto, Done, SetDesired
<1>15. ASSUME NEW d \in Clients, CrashRequest(d) PROVE TypeOK'
    <2>1. torn' \in SUBSET ({0} \union BatchIds)
        <3>1. reqBatch[d] \in {0} \union BatchIds
            OBVIOUS
        <3>2. torn' \in {torn, torn \union {reqBatch[d]}}
            BY <1>15 DEF CrashRequest
        <3> HIDE DEF TypeOK, BatchIds
        <3>3. torn \in SUBSET ({0} \union BatchIds)
            BY DEF TypeOK
        <3> QED
            BY <3>1, <3>2, <3>3
    <2> QED
        BY <1>15, <2>1 DEF CrashRequest, Goto, Done
<1>16. ASSUME NEW t \in Senders, Acquire(t) PROVE TypeOK'
    BY <1>16 DEF Acquire, LeaseFree, CycleGoto
<1>17. ASSUME NEW t \in Senders, ReadBatch(t) PROVE TypeOK'
    <2>1. CASE active = 0
        BY <1>17, <2>1 DEF ReadBatch, CycleEnd, CycleDone, CycleGoto
    <2>2. CASE active # 0
        <3>1. cycBatch' \in [Senders -> {0} \union BatchIds]
            BY <1>17, <2>2 DEF ReadBatch
        <3>2. cycPc' \in [Senders -> CycleStep]
            BY <1>17, <2>2 DEF ReadBatch, CycleGoto
        <3> QED
            BY <1>17, <2>2, <3>1, <3>2 DEF ReadBatch
    <2> QED
        BY <2>1, <2>2
<1>18. ASSUME NEW t \in Senders, NextJob(t) PROVE TypeOK'
    <2>1. cycJob' \in [Senders -> Jobs \union {NoJob}]
        BY <1>18 DEF NextJob
    <2>2. cycPc' \in [Senders -> CycleStep]
        BY <1>18 DEF NextJob, CycleGoto
    <2> QED
        BY <1>18, <2>1, <2>2 DEF NextJob
<1>19. ASSUME NEW t \in Senders, Claim(t) PROVE TypeOK'
    <2>1. jobStatus' \in [Jobs -> JobStatus]
        BY <1>19 DEF Claim
    <2>2. claimedOff' \in Nat
        BY <1>19 DEF Claim
    <2>3. cycPc' \in [Senders -> CycleStep]
        BY SMTT(40), <1>19 DEF Claim, CycleGoto
    <2> QED
        BY <1>19, <2>1, <2>2, <2>3 DEF Claim
<1>20. ASSUME NEW t \in Senders, Work(t) PROVE TypeOK'
    BY <1>20 DEF Work, CycleGoto
<1>21. ASSUME NEW t \in Senders, Release(t) PROVE TypeOK'
    <2>1. CASE owner = t
        BY <1>21, <2>1 DEF Release, CycleEnd, CycleDone, CycleGoto
    <2>2. CASE owner # t
        BY <1>21, <2>2 DEF Release, CycleEnd, CycleDone, CycleGoto
    <2> QED
        BY <2>1, <2>2
<1>22. ASSUME NEW t \in Senders, ReadControl(t) PROVE TypeOK'
    BY <1>22 DEF ReadControl, CycleGoto
<1>23. ASSUME NEW t \in Senders, CyclePauseBatch(t) PROVE TypeOK'
    BY <1>23 DEF CyclePauseBatch, CycleGoto, Paused
<1>24. ASSUME NEW t \in Senders, ReadJobs(t) PROVE TypeOK'
    BY <1>24 DEF ReadJobs, CycleDone, CycleGoto
<1>25. ASSUME NEW t \in Senders, Complete(t) PROVE TypeOK'
    BY <1>25 DEF Complete, CycleGoto
<1>26. ASSUME NEW t \in Senders, Clear(t) PROVE TypeOK'
    BY <1>26 DEF Clear, CycleDone, CycleGoto
<1>27. ASSUME NEW t \in Senders, CrashCycle(t) PROVE TypeOK'
    BY <1>27 DEF CrashCycle, CycleEnd, CycleDone, CycleGoto
<1>28. ASSUME Expire PROVE TypeOK'
    BY <1>28 DEF Expire
<1> QED
    BY <1>1, <1>2, <1>3, <1>4, <1>5, <1>6, <1>7, <1>8, <1>9, <1>10, <1>11,
       <1>12, <1>13, <1>14, <1>15, <1>16, <1>17, <1>18, <1>19, <1>20,
       <1>21, <1>22, <1>23, <1>24, <1>25, <1>26, <1>27, <1>28
    DEF Next, RequestNext, CycleNext

\* A cycle inside its lease keeps it: the acquisition needs an expired lease,
\* the release names its owner, and an expiry is recorded.
LEMMA LeaseStep ==
    TypeOK /\ LeaseExclusive /\ Next => LeaseExclusive'
<1> SUFFICES ASSUME TypeOK, LeaseExclusive, Next
             PROVE  LeaseExclusive'
    OBVIOUS
<1> USE SendControlAssumption
    DEF TypeOK, LeaseExclusive, LeasedStep, CycleStep, control,
        lease, queue, batch, req, cyc
<1>1. ASSUME NEW i \in Jobs, Enqueue(i) PROVE LeaseExclusive'
    BY <1>1 DEF Enqueue
<1>2. ASSUME NEW i \in Jobs, Withdraw(i) PROVE LeaseExclusive'
    BY <1>2 DEF Withdraw
<1>3. ASSUME NEW d \in Clients, Resume(d) PROVE LeaseExclusive'
    BY <1>3 DEF Resume, Goto
<1>4. ASSUME NEW d \in Clients, ResumeReadBatch(d) PROVE LeaseExclusive'
    BY <1>4 DEF ResumeReadBatch, Goto
<1>5. ASSUME NEW d \in Clients, CreateBatch(d) PROVE LeaseExclusive'
    BY <1>5 DEF CreateBatch, Goto, Done, Unbatched
<1>6. ASSUME NEW d \in Clients, AssignJobs(d) PROVE LeaseExclusive'
    BY <1>6 DEF AssignJobs, Goto, Done, Unbatched
<1>7. ASSUME NEW d \in Clients, RunBatch(d) PROVE LeaseExclusive'
    BY <1>7 DEF RunBatch, Goto
<1>8. ASSUME NEW d \in Clients, PutRunning(d) PROVE LeaseExclusive'
    BY <1>8 DEF PutRunning, Goto, Done, SetDesired
<1>9. ASSUME NEW d \in Clients, Pause(d) PROVE LeaseExclusive'
    BY <1>9 DEF Pause, Goto
<1>10. ASSUME NEW d \in Clients, PauseBatch(d) PROVE LeaseExclusive'
    BY <1>10 DEF PauseBatch, Goto, Paused
<1>11. ASSUME NEW d \in Clients, PutPaused(d) PROVE LeaseExclusive'
    BY <1>11 DEF PutPaused, Goto, Done, SetDesired
<1>12. ASSUME NEW d \in Clients, Stop(d) PROVE LeaseExclusive'
    BY <1>12 DEF Stop, Goto
<1>13. ASSUME NEW d \in Clients, StopReadJobs(d) PROVE LeaseExclusive'
    BY <1>13 DEF StopReadJobs, Goto
<1>14. ASSUME NEW d \in Clients, PutStop(d) PROVE LeaseExclusive'
    BY <1>14 DEF PutStop, Goto, Done, SetDesired
<1>15. ASSUME NEW d \in Clients, CrashRequest(d) PROVE LeaseExclusive'
    BY <1>15 DEF CrashRequest, Goto, Done
<1>16. ASSUME NEW t \in Senders, Acquire(t) PROVE LeaseExclusive'
    BY <1>16 DEF Acquire, LeaseFree, CycleGoto
<1>17. ASSUME NEW t \in Senders, ReadBatch(t) PROVE LeaseExclusive'
    BY <1>17 DEF ReadBatch, CycleEnd, CycleDone, CycleGoto
<1>18. ASSUME NEW t \in Senders, NextJob(t) PROVE LeaseExclusive'
    BY <1>18 DEF NextJob, CycleGoto
<1>19. ASSUME NEW t \in Senders, Claim(t) PROVE LeaseExclusive'
    BY <1>19 DEF Claim, CycleGoto
<1>20. ASSUME NEW t \in Senders, Work(t) PROVE LeaseExclusive'
    BY <1>20 DEF Work, CycleGoto
<1>21. ASSUME NEW t \in Senders, Release(t) PROVE LeaseExclusive'
    BY <1>21 DEF Release, CycleEnd, CycleDone, CycleGoto
<1>22. ASSUME NEW t \in Senders, ReadControl(t) PROVE LeaseExclusive'
    BY <1>22 DEF ReadControl, CycleGoto
<1>23. ASSUME NEW t \in Senders, CyclePauseBatch(t) PROVE LeaseExclusive'
    BY <1>23 DEF CyclePauseBatch, CycleGoto, Paused
<1>24. ASSUME NEW t \in Senders, ReadJobs(t) PROVE LeaseExclusive'
    BY <1>24 DEF ReadJobs, CycleDone, CycleGoto
<1>25. ASSUME NEW t \in Senders, Complete(t) PROVE LeaseExclusive'
    BY <1>25 DEF Complete, CycleGoto
<1>26. ASSUME NEW t \in Senders, Clear(t) PROVE LeaseExclusive'
    BY <1>26 DEF Clear, CycleDone, CycleGoto
<1>27. ASSUME NEW t \in Senders, CrashCycle(t) PROVE LeaseExclusive'
    BY <1>27 DEF CrashCycle, CycleEnd, CycleDone, CycleGoto
<1>28. ASSUME Expire PROVE LeaseExclusive'
    BY <1>28 DEF Expire
<1> QED
    BY <1>1, <1>2, <1>3, <1>4, <1>5, <1>6, <1>7, <1>8, <1>9, <1>10, <1>11,
       <1>12, <1>13, <1>14, <1>15, <1>16, <1>17, <1>18, <1>19, <1>20,
       <1>21, <1>22, <1>23, <1>24, <1>25, <1>26, <1>27, <1>28
    DEF Next, RequestNext, CycleNext

\* A claim with the control off uses up the one cycle that held the lease:
\* another cycle needs desired_state = 'running' to start.
LEMMA StopStep ==
    TypeOK /\ LeaseExclusive /\ StopInv /\ Next => StopInv'
<1> SUFFICES ASSUME TypeOK, LeaseExclusive, StopInv, Next
             PROVE  StopInv'
    OBVIOUS
<1> USE SendControlAssumption
    DEF TypeOK, LeaseExclusive, StopInv, LeasedStep, CycleStep,
        control, lease, queue, batch, req, cyc
<1>1. ASSUME NEW i \in Jobs, Enqueue(i) PROVE StopInv'
    BY <1>1 DEF Enqueue
<1>2. ASSUME NEW i \in Jobs, Withdraw(i) PROVE StopInv'
    BY <1>2 DEF Withdraw
<1>3. ASSUME NEW d \in Clients, Resume(d) PROVE StopInv'
    BY <1>3 DEF Resume, Goto
<1>4. ASSUME NEW d \in Clients, ResumeReadBatch(d) PROVE StopInv'
    BY <1>4 DEF ResumeReadBatch, Goto
<1>5. ASSUME NEW d \in Clients, CreateBatch(d) PROVE StopInv'
    BY <1>5 DEF CreateBatch, Goto, Done, Unbatched
<1>6. ASSUME NEW d \in Clients, AssignJobs(d) PROVE StopInv'
    BY <1>6 DEF AssignJobs, Goto, Done, Unbatched
<1>7. ASSUME NEW d \in Clients, RunBatch(d) PROVE StopInv'
    BY <1>7 DEF RunBatch, Goto
<1>8. ASSUME NEW d \in Clients, PutRunning(d) PROVE StopInv'
    BY <1>8 DEF PutRunning, Goto, Done, SetDesired
<1>9. ASSUME NEW d \in Clients, Pause(d) PROVE StopInv'
    BY <1>9 DEF Pause, Goto
<1>10. ASSUME NEW d \in Clients, PauseBatch(d) PROVE StopInv'
    BY <1>10 DEF PauseBatch, Goto, Paused
<1>11. ASSUME NEW d \in Clients, PutPaused(d) PROVE StopInv'
    BY <1>11 DEF PutPaused, Goto, Done, SetDesired
<1>12. ASSUME NEW d \in Clients, Stop(d) PROVE StopInv'
    BY <1>12 DEF Stop, Goto
<1>13. ASSUME NEW d \in Clients, StopReadJobs(d) PROVE StopInv'
    BY <1>13 DEF StopReadJobs, Goto
<1>14. ASSUME NEW d \in Clients, PutStop(d) PROVE StopInv'
    BY <1>14 DEF PutStop, Goto, Done, SetDesired
<1>15. ASSUME NEW d \in Clients, CrashRequest(d) PROVE StopInv'
    BY <1>15 DEF CrashRequest, Goto, Done
<1>16. ASSUME NEW t \in Senders, Acquire(t) PROVE StopInv'
    BY <1>16 DEF Acquire, LeaseFree, CycleGoto
<1>17. ASSUME NEW t \in Senders, ReadBatch(t) PROVE StopInv'
    BY <1>17 DEF ReadBatch, CycleEnd, CycleDone, CycleGoto
<1>18. ASSUME NEW t \in Senders, NextJob(t) PROVE StopInv'
    BY <1>18 DEF NextJob, CycleGoto
<1>19. ASSUME NEW t \in Senders, Claim(t) PROVE StopInv'
    BY <1>19 DEF Claim, CycleGoto
<1>20. ASSUME NEW t \in Senders, Work(t) PROVE StopInv'
    BY <1>20 DEF Work, CycleGoto
<1>21. ASSUME NEW t \in Senders, Release(t) PROVE StopInv'
    BY <1>21 DEF Release, CycleEnd, CycleDone, CycleGoto
<1>22. ASSUME NEW t \in Senders, ReadControl(t) PROVE StopInv'
    BY <1>22 DEF ReadControl, CycleGoto
<1>23. ASSUME NEW t \in Senders, CyclePauseBatch(t) PROVE StopInv'
    BY <1>23 DEF CyclePauseBatch, CycleGoto, Paused
<1>24. ASSUME NEW t \in Senders, ReadJobs(t) PROVE StopInv'
    BY <1>24 DEF ReadJobs, CycleDone, CycleGoto
<1>25. ASSUME NEW t \in Senders, Complete(t) PROVE StopInv'
    BY <1>25 DEF Complete, CycleGoto
<1>26. ASSUME NEW t \in Senders, Clear(t) PROVE StopInv'
    BY <1>26 DEF Clear, CycleDone, CycleGoto
<1>27. ASSUME NEW t \in Senders, CrashCycle(t) PROVE StopInv'
    BY <1>27 DEF CrashCycle, CycleEnd, CycleDone, CycleGoto
<1>28. ASSUME Expire PROVE StopInv'
    BY <1>28 DEF Expire
<1> QED
    BY <1>1, <1>2, <1>3, <1>4, <1>5, <1>6, <1>7, <1>8, <1>9, <1>10, <1>11,
       <1>12, <1>13, <1>14, <1>15, <1>16, <1>17, <1>18, <1>19, <1>20,
       <1>21, <1>22, <1>23, <1>24, <1>25, <1>26, <1>27, <1>28
    DEF Next, RequestNext, CycleNext

\* Batch ids come from the batches created so far.
LEMMA KnownStep ==
    TypeOK /\ KnownIds /\ Next => KnownIds'
<1> SUFFICES ASSUME TypeOK, KnownIds, Next
             PROVE  KnownIds'
    OBVIOUS
<1> USE SendControlAssumption
    DEF TypeOK, KnownIds, BatchIds, RequestStep, CycleStep,
        control, lease, queue, batch, req, cyc
<1>1. ASSUME NEW i \in Jobs, Enqueue(i) PROVE KnownIds'
    BY <1>1 DEF Enqueue
<1>2. ASSUME NEW i \in Jobs, Withdraw(i) PROVE KnownIds'
    BY <1>2 DEF Withdraw
<1>3. ASSUME NEW d \in Clients, Resume(d) PROVE KnownIds'
    BY <1>3 DEF Resume, Goto
<1>4. ASSUME NEW d \in Clients, ResumeReadBatch(d) PROVE KnownIds'
    BY <1>4 DEF ResumeReadBatch, Goto
<1>5. ASSUME NEW d \in Clients, CreateBatch(d) PROVE KnownIds'
    <2>1. CASE Unbatched = {}
        BY <1>5, <2>1 DEF CreateBatch, Goto, Done
    <2>2. CASE Unbatched # {}
        <3>1. /\ batches' = batches + 1
              /\ batchStatus' = [batchStatus EXCEPT ![batches + 1] = "running"]
              /\ reqBatch' = [reqBatch EXCEPT ![d] = batches + 1]
              /\ UNCHANGED <<active, jobBatch, cycBatch>>
            BY <1>5, <2>2 DEF CreateBatch
        <3>2. \A c \in Clients : reqBatch'[c] <= batches'
            BY <3>1
        <3>3. \A b \in BatchIds : b > batches' => batchStatus'[b] = "absent"
            BY <3>1
        <3>4. /\ active' <= batches'
              /\ \A j \in Jobs : jobBatch'[j] <= batches'
            BY <3>1
        <3>5. \A s \in Senders : cycBatch'[s] <= batches'
            BY <3>1
        <3> QED
            BY <3>2, <3>3, <3>4, <3>5
    <2> QED
        BY <2>1, <2>2
<1>6. ASSUME NEW d \in Clients, AssignJobs(d) PROVE KnownIds'
    <2>1. CASE reqIds[d] \intersect Unbatched = {}
        <3>1. /\ batchStatus' = [batchStatus EXCEPT ![reqBatch[d]] = "absent"]
              /\ reqBatch' = [reqBatch EXCEPT ![d] = 0]
              /\ UNCHANGED <<active, jobBatch, cycBatch, batches>>
            BY <1>6, <2>1 DEF AssignJobs, Done
        <3> QED
            BY <3>1
    <2>2. CASE reqIds[d] \intersect Unbatched # {}
        <3>1. /\ \A i \in Jobs : jobBatch'[i] \in {reqBatch[d], jobBatch[i]}
              /\ UNCHANGED <<batchStatus, reqBatch, active, cycBatch, batches>>
            BY <1>6, <2>2 DEF AssignJobs
        <3> QED
            BY <3>1
    <2> QED
        BY <2>1, <2>2
<1>7. ASSUME NEW d \in Clients, RunBatch(d) PROVE KnownIds'
    BY <1>7 DEF RunBatch, Goto
<1>8. ASSUME NEW d \in Clients, PutRunning(d) PROVE KnownIds'
    BY <1>8 DEF PutRunning, Goto, Done, SetDesired
<1>9. ASSUME NEW d \in Clients, Pause(d) PROVE KnownIds'
    BY <1>9 DEF Pause, Goto
<1>10. ASSUME NEW d \in Clients, PauseBatch(d) PROVE KnownIds'
    BY <1>10 DEF PauseBatch, Goto, Paused
<1>11. ASSUME NEW d \in Clients, PutPaused(d) PROVE KnownIds'
    BY <1>11 DEF PutPaused, Goto, Done, SetDesired
<1>12. ASSUME NEW d \in Clients, Stop(d) PROVE KnownIds'
    BY <1>12 DEF Stop, Goto
<1>13. ASSUME NEW d \in Clients, StopReadJobs(d) PROVE KnownIds'
    BY <1>13 DEF StopReadJobs, Goto
<1>14. ASSUME NEW d \in Clients, PutStop(d) PROVE KnownIds'
    BY <1>14 DEF PutStop, Goto, Done, SetDesired
<1>15. ASSUME NEW d \in Clients, CrashRequest(d) PROVE KnownIds'
    BY <1>15 DEF CrashRequest, Goto, Done
<1>16. ASSUME NEW t \in Senders, Acquire(t) PROVE KnownIds'
    BY <1>16 DEF Acquire, LeaseFree, CycleGoto
<1>17. ASSUME NEW t \in Senders, ReadBatch(t) PROVE KnownIds'
    <2>1. CASE active = 0
        BY <1>17, <2>1 DEF ReadBatch, CycleEnd, CycleDone, CycleGoto
    <2>2. CASE active # 0
        BY <1>17, <2>2 DEF ReadBatch, CycleEnd, CycleDone, CycleGoto
    <2> QED
        BY <2>1, <2>2
<1>18. ASSUME NEW t \in Senders, NextJob(t) PROVE KnownIds'
    BY <1>18 DEF NextJob, CycleGoto
<1>19. ASSUME NEW t \in Senders, Claim(t) PROVE KnownIds'
    BY <1>19 DEF Claim, CycleGoto
<1>20. ASSUME NEW t \in Senders, Work(t) PROVE KnownIds'
    BY <1>20 DEF Work, CycleGoto
<1>21. ASSUME NEW t \in Senders, Release(t) PROVE KnownIds'
    BY <1>21 DEF Release, CycleEnd, CycleDone, CycleGoto
<1>22. ASSUME NEW t \in Senders, ReadControl(t) PROVE KnownIds'
    BY <1>22 DEF ReadControl, CycleGoto
<1>23. ASSUME NEW t \in Senders, CyclePauseBatch(t) PROVE KnownIds'
    BY <1>23 DEF CyclePauseBatch, CycleGoto, Paused
<1>24. ASSUME NEW t \in Senders, ReadJobs(t) PROVE KnownIds'
    BY <1>24 DEF ReadJobs, CycleDone, CycleGoto
<1>25. ASSUME NEW t \in Senders, Complete(t) PROVE KnownIds'
    BY <1>25 DEF Complete, CycleGoto
<1>26. ASSUME NEW t \in Senders, Clear(t) PROVE KnownIds'
    BY <1>26 DEF Clear, CycleDone, CycleGoto
<1>27. ASSUME NEW t \in Senders, CrashCycle(t) PROVE KnownIds'
    BY <1>27 DEF CrashCycle, CycleEnd, CycleDone, CycleGoto
<1>28. ASSUME Expire PROVE KnownIds'
    BY <1>28 DEF Expire
<1> QED
    BY <1>1, <1>2, <1>3, <1>4, <1>5, <1>6, <1>7, <1>8, <1>9, <1>10, <1>11,
       <1>12, <1>13, <1>14, <1>15, <1>16, <1>17, <1>18, <1>19, <1>20,
       <1>21, <1>22, <1>23, <1>24, <1>25, <1>26, <1>27, <1>28
    DEF Next, RequestNext, CycleNext

\* The only batch a request deletes is one nobody else knows.
LEMMA RowsStep ==
    TypeOK /\ KnownIds /\ PrivateBatch /\ RowsExist /\ Next => RowsExist'
<1> SUFFICES ASSUME TypeOK, KnownIds, PrivateBatch, RowsExist, Next
             PROVE  RowsExist'
    OBVIOUS
<1> USE SendControlAssumption
    DEF TypeOK, KnownIds, PrivateBatch, RowsExist, BatchIds,
        RequestStep, CycleStep, control, lease, queue, batch, req,
        cyc
<1>1. ASSUME NEW i \in Jobs, Enqueue(i) PROVE RowsExist'
    BY <1>1 DEF Enqueue
<1>2. ASSUME NEW i \in Jobs, Withdraw(i) PROVE RowsExist'
    BY <1>2 DEF Withdraw
<1>3. ASSUME NEW d \in Clients, Resume(d) PROVE RowsExist'
    BY <1>3 DEF Resume, Goto
<1>4. ASSUME NEW d \in Clients, ResumeReadBatch(d) PROVE RowsExist'
    BY <1>4 DEF ResumeReadBatch, Goto
<1>5. ASSUME NEW d \in Clients, CreateBatch(d) PROVE RowsExist'
    BY <1>5 DEF CreateBatch, Goto, Done, Unbatched
<1>6. ASSUME NEW d \in Clients, AssignJobs(d) PROVE RowsExist'
    <2>1. CASE reqIds[d] \intersect Unbatched = {}
        <3>1. /\ batchStatus' = [batchStatus EXCEPT ![reqBatch[d]] = "absent"]
              /\ reqBatch' = [reqBatch EXCEPT ![d] = 0]
              /\ UNCHANGED <<active, jobBatch, cycBatch, batches>>
            BY <1>6, <2>1 DEF AssignJobs, Done
        <3>2. reqPc[d] = "assign"
            BY <1>6 DEF AssignJobs
        <3> QED
            BY <3>1, <3>2
    <2>2. CASE reqIds[d] \intersect Unbatched # {}
        <3>1. /\ \A i \in Jobs : jobBatch'[i] \in {reqBatch[d], jobBatch[i]}
              /\ UNCHANGED <<batchStatus, reqBatch, active, cycBatch, batches>>
            BY <1>6, <2>2 DEF AssignJobs
        <3> QED
            BY <3>1
    <2> QED
        BY <2>1, <2>2
<1>7. ASSUME NEW d \in Clients, RunBatch(d) PROVE RowsExist'
    BY <1>7 DEF RunBatch, Goto
<1>8. ASSUME NEW d \in Clients, PutRunning(d) PROVE RowsExist'
    BY <1>8 DEF PutRunning, Goto, Done, SetDesired
<1>9. ASSUME NEW d \in Clients, Pause(d) PROVE RowsExist'
    BY <1>9 DEF Pause, Goto
<1>10. ASSUME NEW d \in Clients, PauseBatch(d) PROVE RowsExist'
    BY <1>10 DEF PauseBatch, Goto, Paused
<1>11. ASSUME NEW d \in Clients, PutPaused(d) PROVE RowsExist'
    BY <1>11 DEF PutPaused, Goto, Done, SetDesired
<1>12. ASSUME NEW d \in Clients, Stop(d) PROVE RowsExist'
    BY <1>12 DEF Stop, Goto
<1>13. ASSUME NEW d \in Clients, StopReadJobs(d) PROVE RowsExist'
    BY <1>13 DEF StopReadJobs, Goto
<1>14. ASSUME NEW d \in Clients, PutStop(d) PROVE RowsExist'
    BY <1>14 DEF PutStop, Goto, Done, SetDesired
<1>15. ASSUME NEW d \in Clients, CrashRequest(d) PROVE RowsExist'
    BY <1>15 DEF CrashRequest, Goto, Done
<1>16. ASSUME NEW t \in Senders, Acquire(t) PROVE RowsExist'
    BY <1>16 DEF Acquire, LeaseFree, CycleGoto
<1>17. ASSUME NEW t \in Senders, ReadBatch(t) PROVE RowsExist'
    <2>1. CASE active = 0
        BY <1>17, <2>1 DEF ReadBatch, CycleEnd, CycleDone, CycleGoto
    <2>2. CASE active # 0
        BY <1>17, <2>2 DEF ReadBatch, CycleEnd, CycleDone, CycleGoto
    <2> QED
        BY <2>1, <2>2
<1>18. ASSUME NEW t \in Senders, NextJob(t) PROVE RowsExist'
    BY <1>18 DEF NextJob, CycleGoto
<1>19. ASSUME NEW t \in Senders, Claim(t) PROVE RowsExist'
    BY <1>19 DEF Claim, CycleGoto
<1>20. ASSUME NEW t \in Senders, Work(t) PROVE RowsExist'
    BY <1>20 DEF Work, CycleGoto
<1>21. ASSUME NEW t \in Senders, Release(t) PROVE RowsExist'
    BY <1>21 DEF Release, CycleEnd, CycleDone, CycleGoto
<1>22. ASSUME NEW t \in Senders, ReadControl(t) PROVE RowsExist'
    BY <1>22 DEF ReadControl, CycleGoto
<1>23. ASSUME NEW t \in Senders, CyclePauseBatch(t) PROVE RowsExist'
    BY <1>23 DEF CyclePauseBatch, CycleGoto, Paused
<1>24. ASSUME NEW t \in Senders, ReadJobs(t) PROVE RowsExist'
    BY <1>24 DEF ReadJobs, CycleDone, CycleGoto
<1>25. ASSUME NEW t \in Senders, Complete(t) PROVE RowsExist'
    BY <1>25 DEF Complete, CycleGoto
<1>26. ASSUME NEW t \in Senders, Clear(t) PROVE RowsExist'
    BY <1>26 DEF Clear, CycleDone, CycleGoto
<1>27. ASSUME NEW t \in Senders, CrashCycle(t) PROVE RowsExist'
    BY <1>27 DEF CrashCycle, CycleEnd, CycleDone, CycleGoto
<1>28. ASSUME Expire PROVE RowsExist'
    BY <1>28 DEF Expire
<1> QED
    BY <1>1, <1>2, <1>3, <1>4, <1>5, <1>6, <1>7, <1>8, <1>9, <1>10, <1>11,
       <1>12, <1>13, <1>14, <1>15, <1>16, <1>17, <1>18, <1>19, <1>20,
       <1>21, <1>22, <1>23, <1>24, <1>25, <1>26, <1>27, <1>28
    DEF Next, RequestNext, CycleNext

\* A batch stays private until its jobs are assigned.
LEMMA PrivateStep ==
    TypeOK /\ KnownIds /\ PrivateBatch /\ Next => PrivateBatch'
<1> SUFFICES ASSUME TypeOK, KnownIds, PrivateBatch, Next
             PROVE  PrivateBatch'
    OBVIOUS
<1> USE SendControlAssumption
    DEF TypeOK, KnownIds, PrivateBatch, BatchIds, RequestStep,
        CycleStep, control, lease, queue, batch, req, cyc
<1>1. ASSUME NEW i \in Jobs, Enqueue(i) PROVE PrivateBatch'
    BY <1>1 DEF Enqueue
<1>2. ASSUME NEW i \in Jobs, Withdraw(i) PROVE PrivateBatch'
    BY <1>2 DEF Withdraw
<1>3. ASSUME NEW d \in Clients, Resume(d) PROVE PrivateBatch'
    BY <1>3 DEF Resume, Goto
<1>4. ASSUME NEW d \in Clients, ResumeReadBatch(d) PROVE PrivateBatch'
    BY <1>4 DEF ResumeReadBatch, Goto
<1>5. ASSUME NEW d \in Clients, CreateBatch(d) PROVE PrivateBatch'
    BY <1>5 DEF CreateBatch, Goto, Done, Unbatched
<1>6. ASSUME NEW d \in Clients, AssignJobs(d) PROVE PrivateBatch'
    BY <1>6 DEF AssignJobs, Goto, Done, Unbatched
<1>7. ASSUME NEW d \in Clients, RunBatch(d) PROVE PrivateBatch'
    BY <1>7 DEF RunBatch, Goto
<1>8. ASSUME NEW d \in Clients, PutRunning(d) PROVE PrivateBatch'
    BY <1>8 DEF PutRunning, Goto, Done, SetDesired
<1>9. ASSUME NEW d \in Clients, Pause(d) PROVE PrivateBatch'
    BY <1>9 DEF Pause, Goto
<1>10. ASSUME NEW d \in Clients, PauseBatch(d) PROVE PrivateBatch'
    BY <1>10 DEF PauseBatch, Goto, Paused
<1>11. ASSUME NEW d \in Clients, PutPaused(d) PROVE PrivateBatch'
    BY <1>11 DEF PutPaused, Goto, Done, SetDesired
<1>12. ASSUME NEW d \in Clients, Stop(d) PROVE PrivateBatch'
    BY <1>12 DEF Stop, Goto
<1>13. ASSUME NEW d \in Clients, StopReadJobs(d) PROVE PrivateBatch'
    BY <1>13 DEF StopReadJobs, Goto
<1>14. ASSUME NEW d \in Clients, PutStop(d) PROVE PrivateBatch'
    BY <1>14 DEF PutStop, Goto, Done, SetDesired
<1>15. ASSUME NEW d \in Clients, CrashRequest(d) PROVE PrivateBatch'
    BY <1>15 DEF CrashRequest, Goto, Done
<1>16. ASSUME NEW t \in Senders, Acquire(t) PROVE PrivateBatch'
    BY <1>16 DEF Acquire, LeaseFree, CycleGoto
<1>17. ASSUME NEW t \in Senders, ReadBatch(t) PROVE PrivateBatch'
    BY <1>17 DEF ReadBatch, CycleEnd, CycleDone, CycleGoto
<1>18. ASSUME NEW t \in Senders, NextJob(t) PROVE PrivateBatch'
    BY <1>18 DEF NextJob, CycleGoto
<1>19. ASSUME NEW t \in Senders, Claim(t) PROVE PrivateBatch'
    BY <1>19 DEF Claim, CycleGoto
<1>20. ASSUME NEW t \in Senders, Work(t) PROVE PrivateBatch'
    BY <1>20 DEF Work, CycleGoto
<1>21. ASSUME NEW t \in Senders, Release(t) PROVE PrivateBatch'
    BY <1>21 DEF Release, CycleEnd, CycleDone, CycleGoto
<1>22. ASSUME NEW t \in Senders, ReadControl(t) PROVE PrivateBatch'
    BY <1>22 DEF ReadControl, CycleGoto
<1>23. ASSUME NEW t \in Senders, CyclePauseBatch(t) PROVE PrivateBatch'
    BY <1>23 DEF CyclePauseBatch, CycleGoto, Paused
<1>24. ASSUME NEW t \in Senders, ReadJobs(t) PROVE PrivateBatch'
    BY <1>24 DEF ReadJobs, CycleDone, CycleGoto
<1>25. ASSUME NEW t \in Senders, Complete(t) PROVE PrivateBatch'
    BY <1>25 DEF Complete, CycleGoto
<1>26. ASSUME NEW t \in Senders, Clear(t) PROVE PrivateBatch'
    BY <1>26 DEF Clear, CycleDone, CycleGoto
<1>27. ASSUME NEW t \in Senders, CrashCycle(t) PROVE PrivateBatch'
    BY <1>27 DEF CrashCycle, CycleEnd, CycleDone, CycleGoto
<1>28. ASSUME Expire PROVE PrivateBatch'
    BY <1>28 DEF Expire
<1> QED
    BY <1>1, <1>2, <1>3, <1>4, <1>5, <1>6, <1>7, <1>8, <1>9, <1>10, <1>11,
       <1>12, <1>13, <1>14, <1>15, <1>16, <1>17, <1>18, <1>19, <1>20,
       <1>21, <1>22, <1>23, <1>24, <1>25, <1>26, <1>27, <1>28
    DEF Next, RequestNext, CycleNext

\* A batch found finished gets no open job again: a re-queued job has no
\* batch, and a Resume assigns jobs to its own private batch only.
LEMMA FinalStep ==
    TypeOK /\ KnownIds /\ PrivateBatch /\ FinalInv /\ Next => FinalInv'
<1> SUFFICES ASSUME TypeOK, KnownIds, PrivateBatch, FinalInv, Next
             PROVE  FinalInv'
    OBVIOUS
<1> USE SendControlAssumption
    DEF TypeOK, KnownIds, PrivateBatch, FinalInv, CompletedIsDone,
        OpenIn, OpenJob, BatchIds, BatchStatus, RequestStep,
        CycleStep, control, lease, queue, batch, req, cyc
<1>1. ASSUME NEW i \in Jobs, Enqueue(i) PROVE FinalInv'
    BY <1>1 DEF Enqueue
<1>2. ASSUME NEW i \in Jobs, Withdraw(i) PROVE FinalInv'
    BY <1>2 DEF Withdraw
<1>3. ASSUME NEW d \in Clients, Resume(d) PROVE FinalInv'
    BY <1>3 DEF Resume, Goto
<1>4. ASSUME NEW d \in Clients, ResumeReadBatch(d) PROVE FinalInv'
    BY <1>4 DEF ResumeReadBatch, Goto
<1>5. ASSUME NEW d \in Clients, CreateBatch(d) PROVE FinalInv'
    BY <1>5 DEF CreateBatch, Goto, Done, Unbatched
<1>6. ASSUME NEW d \in Clients, AssignJobs(d) PROVE FinalInv'
    BY <1>6 DEF AssignJobs, Goto, Done, Unbatched
<1>7. ASSUME NEW d \in Clients, RunBatch(d) PROVE FinalInv'
    BY <1>7 DEF RunBatch, Goto
<1>8. ASSUME NEW d \in Clients, PutRunning(d) PROVE FinalInv'
    BY <1>8 DEF PutRunning, Goto, Done, SetDesired
<1>9. ASSUME NEW d \in Clients, Pause(d) PROVE FinalInv'
    BY <1>9 DEF Pause, Goto
<1>10. ASSUME NEW d \in Clients, PauseBatch(d) PROVE FinalInv'
    BY <1>10 DEF PauseBatch, Goto, Paused
<1>11. ASSUME NEW d \in Clients, PutPaused(d) PROVE FinalInv'
    BY <1>11 DEF PutPaused, Goto, Done, SetDesired
<1>12. ASSUME NEW d \in Clients, Stop(d) PROVE FinalInv'
    BY <1>12 DEF Stop, Goto
<1>13. ASSUME NEW d \in Clients, StopReadJobs(d) PROVE FinalInv'
    BY <1>13 DEF StopReadJobs, Goto
<1>14. ASSUME NEW d \in Clients, PutStop(d) PROVE FinalInv'
    BY <1>14 DEF PutStop, Goto, Done, SetDesired
<1>15. ASSUME NEW d \in Clients, CrashRequest(d) PROVE FinalInv'
    BY <1>15 DEF CrashRequest, Goto, Done
<1>16. ASSUME NEW t \in Senders, Acquire(t) PROVE FinalInv'
    BY <1>16 DEF Acquire, LeaseFree, CycleGoto
<1>17. ASSUME NEW t \in Senders, ReadBatch(t) PROVE FinalInv'
    BY <1>17 DEF ReadBatch, CycleEnd, CycleDone, CycleGoto
<1>18. ASSUME NEW t \in Senders, NextJob(t) PROVE FinalInv'
    BY <1>18 DEF NextJob, CycleGoto
<1>19. ASSUME NEW t \in Senders, Claim(t) PROVE FinalInv'
    BY <1>19 DEF Claim, CycleGoto
<1>20. ASSUME NEW t \in Senders, Work(t) PROVE FinalInv'
    BY <1>20 DEF Work, CycleGoto
<1>21. ASSUME NEW t \in Senders, Release(t) PROVE FinalInv'
    BY <1>21 DEF Release, CycleEnd, CycleDone, CycleGoto
<1>22. ASSUME NEW t \in Senders, ReadControl(t) PROVE FinalInv'
    BY <1>22 DEF ReadControl, CycleGoto
<1>23. ASSUME NEW t \in Senders, CyclePauseBatch(t) PROVE FinalInv'
    BY <1>23 DEF CyclePauseBatch, CycleGoto, Paused
<1>24. ASSUME NEW t \in Senders, ReadJobs(t) PROVE FinalInv'
    BY <1>24 DEF ReadJobs, CycleDone, CycleGoto
<1>25. ASSUME NEW t \in Senders, Complete(t) PROVE FinalInv'
    BY <1>25 DEF Complete, CycleGoto
<1>26. ASSUME NEW t \in Senders, Clear(t) PROVE FinalInv'
    BY <1>26 DEF Clear, CycleDone, CycleGoto
<1>27. ASSUME NEW t \in Senders, CrashCycle(t) PROVE FinalInv'
    BY <1>27 DEF CrashCycle, CycleEnd, CycleDone, CycleGoto
<1>28. ASSUME Expire PROVE FinalInv'
    BY <1>28 DEF Expire
<1> QED
    BY <1>1, <1>2, <1>3, <1>4, <1>5, <1>6, <1>7, <1>8, <1>9, <1>10, <1>11,
       <1>12, <1>13, <1>14, <1>15, <1>16, <1>17, <1>18, <1>19, <1>20,
       <1>21, <1>22, <1>23, <1>24, <1>25, <1>26, <1>27, <1>28
    DEF Next, RequestNext, CycleNext
\* One request at a time: whoever creates a batch has seen the old one gone or
\* finished, and a finished batch stays finished.
LEMMA LoneStep ==
    OneRequest /\ ControlInv /\ LoneResume /\ Next => LoneResume'
<1> SUFFICES ASSUME OneRequest, ControlInv, LoneResume, Next
             PROVE  LoneResume'
    OBVIOUS
<1> USE SendControlAssumption
    DEF ControlInv, TypeOK, KnownIds, RowsExist, PrivateBatch,
        FinalInv, CompletedIsDone, OneRequest, LoneResume,
        NoStrandedJob, OpenIn, OpenJob, BatchIds, BatchStatus,
        RequestStep, CycleStep, control, lease, queue, batch, req,
        cyc
<1>1. ASSUME NEW i \in Jobs, Enqueue(i) PROVE LoneResume'
    BY <1>1 DEF Enqueue
<1>2. ASSUME NEW i \in Jobs, Withdraw(i) PROVE LoneResume'
    BY <1>2 DEF Withdraw
<1>3. ASSUME NEW d \in Clients, Resume(d) PROVE LoneResume'
    BY <1>3 DEF Resume, Goto
<1>4. ASSUME NEW d \in Clients, ResumeReadBatch(d) PROVE LoneResume'
    BY <1>4 DEF ResumeReadBatch, Goto
<1>5. ASSUME NEW d \in Clients, CreateBatch(d) PROVE LoneResume'
    BY <1>5 DEF CreateBatch, Goto, Done, Unbatched
<1>6. ASSUME NEW d \in Clients, AssignJobs(d) PROVE LoneResume'
    BY <1>6 DEF AssignJobs, Goto, Done, Unbatched
<1>7. ASSUME NEW d \in Clients, RunBatch(d) PROVE LoneResume'
    BY <1>7 DEF RunBatch, Goto
<1>8. ASSUME NEW d \in Clients, PutRunning(d) PROVE LoneResume'
    BY <1>8 DEF PutRunning, Goto, Done, SetDesired
<1>9. ASSUME NEW d \in Clients, Pause(d) PROVE LoneResume'
    BY <1>9 DEF Pause, Goto
<1>10. ASSUME NEW d \in Clients, PauseBatch(d) PROVE LoneResume'
    BY <1>10 DEF PauseBatch, Goto, Paused
<1>11. ASSUME NEW d \in Clients, PutPaused(d) PROVE LoneResume'
    BY <1>11 DEF PutPaused, Goto, Done, SetDesired
<1>12. ASSUME NEW d \in Clients, Stop(d) PROVE LoneResume'
    BY <1>12 DEF Stop, Goto
<1>13. ASSUME NEW d \in Clients, StopReadJobs(d) PROVE LoneResume'
    BY <1>13 DEF StopReadJobs, Goto
<1>14. ASSUME NEW d \in Clients, PutStop(d) PROVE LoneResume'
    BY <1>14 DEF PutStop, Goto, Done, SetDesired
<1>15. ASSUME NEW d \in Clients, CrashRequest(d) PROVE LoneResume'
    BY <1>15 DEF CrashRequest, Goto, Done
<1>16. ASSUME NEW t \in Senders, Acquire(t) PROVE LoneResume'
    BY <1>16 DEF Acquire, LeaseFree, CycleGoto
<1>17. ASSUME NEW t \in Senders, ReadBatch(t) PROVE LoneResume'
    BY <1>17 DEF ReadBatch, CycleEnd, CycleDone, CycleGoto
<1>18. ASSUME NEW t \in Senders, NextJob(t) PROVE LoneResume'
    BY <1>18 DEF NextJob, CycleGoto
<1>19. ASSUME NEW t \in Senders, Claim(t) PROVE LoneResume'
    <2>1. \A i \in Jobs : jobStatus'[i] \in OpenJob => jobStatus[i] \in OpenJob
        BY <1>19 DEF Claim
    <2>2. \A i \in Jobs : jobStatus'[i] = "queued" => jobStatus[i] = "queued"
        BY <1>19 DEF Claim
    <2>3. \A c \in Clients : reqPc'[c] = reqPc[c] /\ reqBatch'[c] = reqBatch[c]
        BY <1>19 DEF Claim
    <2>4. UNCHANGED <<active, jobBatch, torn, reqPc, reqBatch>>
        BY <1>19 DEF Claim
    <2> QED
        BY <2>1, <2>2, <2>3, <2>4
<1>20. ASSUME NEW t \in Senders, Work(t) PROVE LoneResume'
    BY <1>20 DEF Work, CycleGoto
<1>21. ASSUME NEW t \in Senders, Release(t) PROVE LoneResume'
    BY <1>21 DEF Release, CycleEnd, CycleDone, CycleGoto
<1>22. ASSUME NEW t \in Senders, ReadControl(t) PROVE LoneResume'
    BY <1>22 DEF ReadControl, CycleGoto
<1>23. ASSUME NEW t \in Senders, CyclePauseBatch(t) PROVE LoneResume'
    BY <1>23 DEF CyclePauseBatch, CycleGoto, Paused
<1>24. ASSUME NEW t \in Senders, ReadJobs(t) PROVE LoneResume'
    BY <1>24 DEF ReadJobs, CycleDone, CycleGoto
<1>25. ASSUME NEW t \in Senders, Complete(t) PROVE LoneResume'
    BY <1>25 DEF Complete, CycleGoto
<1>26. ASSUME NEW t \in Senders, Clear(t) PROVE LoneResume'
    BY <1>26 DEF Clear, CycleDone, CycleGoto
<1>27. ASSUME NEW t \in Senders, CrashCycle(t) PROVE LoneResume'
    BY <1>27 DEF CrashCycle, CycleEnd, CycleDone, CycleGoto
<1>28. ASSUME Expire PROVE LoneResume'
    BY <1>28 DEF Expire
<1> QED
    BY <1>1, <1>2, <1>3, <1>4, <1>5, <1>6, <1>7, <1>8, <1>9, <1>10, <1>11,
       <1>12, <1>13, <1>14, <1>15, <1>16, <1>17, <1>18, <1>19, <1>20,
       <1>21, <1>22, <1>23, <1>24, <1>25, <1>26, <1>27, <1>28
    DEF Next, RequestNext, CycleNext
-----------------------------------------------------------------------------
(* The inductive invariant.                                                 *)

\* Everything together.
LEMMA InitInv == Init => ControlInv
<1> SUFFICES ASSUME Init PROVE ControlInv
    OBVIOUS
<1> USE SendControlAssumption
    DEF Init
<1>1. TypeOK
    <2>1. /\ desired \in DesiredState
          /\ active \in {0} \union BatchIds
          /\ owner \in Senders \union {NoOwner, Dead}
          /\ batches \in 0..MaxBatches
          /\ claimedOff \in Nat
        BY DEF DesiredState
    <2>2. /\ jobStatus \in [Jobs -> JobStatus]
          /\ jobBatch \in [Jobs -> {0} \union BatchIds]
          /\ batchStatus \in [BatchIds -> BatchStatus]
        BY DEF JobStatus, BatchStatus
    <2>3. /\ reqPc \in [Clients -> RequestStep]
          /\ reqBatch \in [Clients -> {0} \union BatchIds]
          /\ reqIds \in [Clients -> SUBSET Jobs]
        BY DEF RequestStep
    <2>4. /\ cycPc \in [Senders -> CycleStep]
          /\ cycBatch \in [Senders -> {0} \union BatchIds]
          /\ cycJob \in [Senders -> Jobs \union {NoJob}]
        BY DEF CycleStep
    <2>5. live \in BOOLEAN
        OBVIOUS
    <2>6. overran \in SUBSET Senders /\ torn \in SUBSET ({0} \union BatchIds)
        OBVIOUS
    <2> QED
        BY <2>1, <2>2, <2>3, <2>4, <2>5, <2>6 DEF TypeOK
<1>2. LeaseExclusive /\ StopInv
    BY DEF LeaseExclusive, StopInv, LeasedStep
<1>3. KnownIds /\ RowsExist /\ PrivateBatch
    BY DEF KnownIds, RowsExist, PrivateBatch, BatchIds
<1>4. FinalInv
    BY DEF FinalInv, CompletedIsDone, BatchIds
<1> QED
    BY <1>1, <1>2, <1>3, <1>4 DEF ControlInv

\* Every step of the system, or none, keeps the invariant.
LEMMA NextInv == ControlInv /\ [Next]_vars => ControlInv'
<1> SUFFICES ASSUME ControlInv, [Next]_vars PROVE ControlInv'
    OBVIOUS
<1>1. CASE Next
    <2> USE <1>1 DEF ControlInv
    <2>1. TypeOK'
        BY TypeStep
    <2>2. LeaseExclusive'
        BY LeaseStep
    <2>3. StopInv'
        BY StopStep
    <2>4. KnownIds'
        BY KnownStep
    <2>5. RowsExist'
        BY RowsStep
    <2>6. PrivateBatch'
        BY PrivateStep
    <2>7. FinalInv'
        BY FinalStep
    <2> QED
        BY <2>1, <2>2, <2>3, <2>4, <2>5, <2>6, <2>7
<1>2. CASE UNCHANGED vars
    BY <1>2 DEF vars, ControlInv, TypeOK, LeaseExclusive, StopInv, KnownIds,
                RowsExist, PrivateBatch, FinalInv, CompletedIsDone, OpenIn
<1> QED
    BY <1>1, <1>2

-----------------------------------------------------------------------------
(* The theorems.                                                            *)

\* The inductive invariant holds, for any number of jobs, requests and
\* sender cycles, with crashes and lease expiries at any moment.
THEOREM Invariance == Spec => []ControlInv
<1> QED
    BY InitInv, NextInv, PTL DEF Spec

\* Type correctness of the control row, the queue, the batches and every
\* request and cycle.
THEOREM TypeCorrect == Spec => []TypeOK
<1>1. ControlInv => TypeOK
    BY DEF ControlInv
<1> QED
    BY <1>1, Invariance, PTL

\* acquire and release of migration 040: a cycle that has not outlived its
\* lease is its only owner, so no two such cycles overlap.
THEOREM OneLeaseOwner == Spec => []LeaseExclusive
<1>1. ControlInv => LeaseExclusive
    BY DEF ControlInv
<1> QED
    BY <1>1, Invariance, PTL

\* Pause and "Stop after current" let at most one more job be claimed.
THEOREM StopsAfterCurrent == Spec => []AtMostOneMoreJob
<1>1. ControlInv => AtMostOneMoreJob
    BY DEF ControlInv, StopInv, AtMostOneMoreJob
<1> QED
    BY <1>1, Invariance, PTL

\* A batch marked completed has nothing queued or being sent, for good.
THEOREM CompletedBatchIsDone == Spec => []CompletedIsDone
<1>1. ControlInv => CompletedIsDone
    BY DEF ControlInv, FinalInv
<1> QED
    BY <1>1, Invariance, PTL

\* The strengthened invariant of a user who sends one request at a time.
LEMMA LoneInvariance == OneRequest /\ Spec => []LoneResume
<1>1. Init => LoneResume
    BY SendControlAssumption DEF Init, LoneResume, NoStrandedJob
<1>2. OneRequest /\ ControlInv /\ LoneResume /\ [Next]_vars => LoneResume'
    <2> SUFFICES ASSUME OneRequest, ControlInv, LoneResume, [Next]_vars
                 PROVE  LoneResume'
        OBVIOUS
    <2>1. CASE Next
        BY <2>1, LoneStep
    <2>2. CASE UNCHANGED vars
        BY <2>2 DEF vars, LoneResume, NoStrandedJob, OpenIn
    <2> QED
        BY <2>1, <2>2
<1>3. OneRequest => []OneRequest
    <2> SUFFICES ASSUME OneRequest PROVE []OneRequest
        OBVIOUS
    <2> QED
        BY PTL
<1> QED
    BY <1>1, <1>2, <1>3, Invariance, PTL DEF Spec

\* With one control request at a time, and whatever crashes: queued jobs stay
\* reachable from the control row, their Resume, or the record of its death.
THEOREM NothingStranded == OneRequest /\ Spec => []NoStrandedJob
<1>1. LoneResume => NoStrandedJob
    BY DEF LoneResume
<1> QED
    BY <1>1, LoneInvariance, PTL

\* With one control request at a time the control row changes its batch only
\* when nothing is open in it.
THEOREM ActiveBatchKept == OneRequest /\ Spec => ActiveKeptUntilDone
<1>1. ControlInv /\ LoneResume /\ [Next]_vars
      => [active' # active /\ active # 0 => OpenIn(active) = {}]_vars
    <2> SUFFICES ASSUME ControlInv, LoneResume, Next,
                        active' # active, active # 0
                 PROVE  OpenIn(active) = {}
        BY DEF vars
    <2>1. ASSUME NEW c \in Clients, RequestNext(c) PROVE OpenIn(active) = {}
        <3>1. PutRunning(c)
            BY <2>1 DEF RequestNext, Resume, ResumeReadBatch, CreateBatch,
                AssignJobs, RunBatch, Pause, PauseBatch, PutPaused, Stop,
                StopReadJobs, PutStop, CrashRequest, control
        <3>2. reqPc[c] = "put_new"
            BY <3>1 DEF PutRunning
        <3> QED
            BY <3>2 DEF LoneResume
    <2>2. ASSUME NEW s \in Senders, CycleNext(s) PROVE OpenIn(active) = {}
        <3>1. Clear(s)
            BY <2>2 DEF CycleNext, Acquire, ReadBatch, NextJob, Claim, Work,
                Release, ReadControl, CyclePauseBatch, ReadJobs, Complete,
                CrashCycle, control
        <3>2. active = cycBatch[s] /\ cycPc[s] = "clear"
            BY <3>1 DEF Clear, control
        <3> QED
            BY <3>2 DEF ControlInv, FinalInv
    <2>3. ASSUME NEW j \in Jobs, Enqueue(j) \/ Withdraw(j)
          PROVE  OpenIn(active) = {}
        BY <2>3 DEF Enqueue, Withdraw, control
    <2>4. ASSUME Expire PROVE OpenIn(active) = {}
        BY <2>4 DEF Expire, control
    <2> QED
        BY <2>1, <2>2, <2>3, <2>4 DEF Next
<1> QED
    BY <1>1, Invariance, LoneInvariance, PTL DEF Spec, ActiveKeptUntilDone
=============================================================================
