----------------------------- MODULE SendControl -----------------------------
(****************************************************************************)
(* The sender's control plane for one user: Resume, Pause and Stop after    *)
(* current, the snapshot batches, and the DB lease that is meant to let one *)
(* sender cycle run at a time.                                              *)
(*                                                                          *)
(* The control row, the batches and the queue are tables; an API request    *)
(* and a sender cycle are sequences of single statements on them.  A lease  *)
(* has an expiry instead of a fencing token, so a slow cycle may outlive    *)
(* its lease.  There is no clock here: a live lease may expire at any time. *)
(* What a cycle does with the job it claimed is module SendQueue's; here it *)
(* only takes time, ends, or raises.                                        *)
(****************************************************************************)
EXTENDS Integers, FiniteSets

CONSTANTS
    Jobs,           \* rows of application_send_queue
    Clients,        \* control requests in progress at the same time
    Senders,        \* sender cycles in progress at the same time
    NoOwner,        \* NULL in lease_owner
    Dead,           \* the lease owner of a cycle that is gone
    NoJob,          \* a cycle that has read no job
    MaxBatches,     \* bound: batches created
    AllowCrash      \* whether a request or a cycle may die between two steps

ASSUME SendControlAssumption ==
    /\ NoOwner \notin Senders
    /\ Dead \notin Senders
    /\ NoOwner # Dead
    /\ NoJob \notin Jobs
    /\ MaxBatches \in Nat
    /\ AllowCrash \in BOOLEAN

VARIABLES
    desired,        \* application_send_control.desired_state
    active,         \* .active_batch_id, 0 is NULL
    owner,          \* .lease_owner
    live,           \* .lease_expires_at is in the future
    jobStatus,      \* application_send_queue.status, by job
    jobBatch,       \* .batch_id, by job
    batches,        \* number of application_send_batches rows ever inserted
    batchStatus,    \* their status, by id
    reqPc,          \* control requests: the next statement
    reqBatch,       \* the batch a request works on
    reqIds,         \* the unbatched jobs a Resume has read
    cycPc,          \* sender cycles: the next statement
    cycBatch,       \* the batch the lease gave the cycle
    cycJob,         \* the job the cycle works on
    overran,        \* history: cycles whose lease expired under them
    torn,           \* history: batches whose Resume died half way
    claimedOff      \* history: claims, since desired_state left "running", by
                    \* cycles inside their lease

control == <<desired, active>>
lease   == <<owner, live, overran>>
queue   == <<jobStatus, jobBatch>>
batch   == <<batches, batchStatus>>
req     == <<reqPc, reqBatch, reqIds>>
cyc     == <<cycPc, cycBatch, cycJob>>
vars    == <<desired, active, owner, live, jobStatus, jobBatch, batches,
             batchStatus, reqPc, reqBatch, reqIds, cycPc, cycBatch, cycJob,
             overran, torn, claimedOff>>

-----------------------------------------------------------------------------
DesiredState == {"paused", "running", "stop_after_current"}
BatchStatus  == {"absent", "running", "paused", "completed"}

\* "done" stands for sent, failed and manual_required.
JobStatus    == {"none", "queued", "sending", "done", "cancelled"}
OpenJob      == {"queued", "sending"}

BatchIds     == 1..MaxBatches

\* The steps with "_new" are those of a Resume that has created its batch.
RequestStep  == {"idle", "read_batch", "create", "assign", "run_batch",
                 "put_running", "run_new", "put_new", "pause_batch",
                 "put_paused", "read_jobs", "put_stop"}
\* Before "release" has run, the cycle believes it owns the lease.
LeasedStep   == {"read_batch", "next", "claim", "work", "release"}
CycleStep    == {"idle", "read_control", "pause_batch", "read_jobs",
                 "complete", "clear"} \union LeasedStep

Init ==
    /\ desired = "paused"
    /\ active = 0
    /\ owner = NoOwner
    /\ live = FALSE
    /\ jobStatus = [j \in Jobs |-> "none"]
    /\ jobBatch = [j \in Jobs |-> 0]
    /\ batches = 0
    /\ batchStatus = [b \in BatchIds |-> "absent"]
    /\ reqPc = [c \in Clients |-> "idle"]
    /\ reqBatch = [c \in Clients |-> 0]
    /\ reqIds = [c \in Clients |-> {}]
    /\ cycPc = [s \in Senders |-> "idle"]
    /\ cycBatch = [s \in Senders |-> 0]
    /\ cycJob = [s \in Senders |-> NoJob]
    /\ overran = {}
    /\ torn = {}
    /\ claimedOff = 0

-----------------------------------------------------------------------------
(* The queue, as far as the control plane sees it.                          *)

\* queue_approved: a new or a cancelled job is queued, outside any batch.
EnqueueKeepsBatch(j) ==    \* mutant
    /\ jobStatus[j] \in {"none", "cancelled"}
    /\ jobStatus' = [jobStatus EXCEPT ![j] = "queued"]
    /\ UNCHANGED <<jobBatch, control, lease, batch, req, cyc, torn, claimedOff>>

Enqueue(j) ==
    /\ jobStatus[j] \in {"none", "cancelled"}
    /\ jobStatus' = [jobStatus EXCEPT ![j] = "queued"]
    /\ jobBatch' = [jobBatch EXCEPT ![j] = 0]
    /\ UNCHANGED <<control, lease, batch, req, cyc, torn, claimedOff>>

\* cancel_queued, the compensation of queue_approved, and reset_failed.
Withdraw(j) ==
    /\ jobStatus[j] \in {"queued", "sending", "done"}
    /\ jobStatus' = [jobStatus EXCEPT ![j] = "cancelled"]
    /\ UNCHANGED <<jobBatch, control, lease, batch, req, cyc, torn, claimedOff>>

Unbatched == {j \in Jobs : jobStatus[j] = "queued" /\ jobBatch[j] = 0}

OpenIn(b) == {j \in Jobs : jobBatch[j] = b /\ jobStatus[j] \in OpenJob}

-----------------------------------------------------------------------------
(* set_control: the requests of the user.                                   *)

Goto(c, step) == reqPc' = [reqPc EXCEPT ![c] = step]

\* A request ends, and what it has read goes with it.
Done(c) ==
    /\ Goto(c, "idle")
    /\ reqBatch' = [reqBatch EXCEPT ![c] = 0]
    /\ reqIds' = [reqIds EXCEPT ![c] = {}]

\* A request of the user changes desired_state; the count of claims made
\* since it left "running" starts again with every Resume.
SetDesired(to) ==
    /\ desired' = to
    /\ claimedOff' = IF to = "running" THEN 0 ELSE claimedOff

\* Resume reads the control row: the active batch is looked up, or a batch is
\* created.
Resume(c) ==
    /\ reqPc[c] = "idle"
    /\ Goto(c, IF active = 0 THEN "create" ELSE "read_batch")
    /\ reqBatch' = [reqBatch EXCEPT ![c] = active]
    /\ UNCHANGED <<control, lease, queue, batch, reqIds, cyc, torn, claimedOff>>

\* The active batch is missing or completed: Resume creates another one.
ResumeReadBatch(c) ==
    /\ reqPc[c] = "read_batch"
    /\ Goto(c, IF batchStatus[reqBatch[c]] \in {"absent", "completed"}
               THEN "create" ELSE "run_batch")
    /\ UNCHANGED <<control, lease, queue, batch, reqBatch, reqIds, cyc, torn,
                   claimedOff>>

\* _create_batch: the unbatched queued jobs are read, none is a conflict, and
\* a batch row is inserted that nobody else knows yet.
CreateBatch(c) ==
    /\ reqPc[c] = "create"
    /\ IF Unbatched = {}
       THEN /\ Done(c)
            /\ UNCHANGED batch
       ELSE /\ batches < MaxBatches
            /\ batches' = batches + 1
            /\ batchStatus' = [batchStatus EXCEPT ![batches + 1] = "running"]
            /\ reqBatch' = [reqBatch EXCEPT ![c] = batches + 1]
            /\ reqIds' = [reqIds EXCEPT ![c] = Unbatched]
            /\ Goto(c, "assign")
    /\ UNCHANGED <<control, lease, queue, cyc, torn, claimedOff>>

\* The jobs read before that are still queued and unbatched join the batch;
\* with none left the batch row is deleted again.
AssignJobs(c) ==
    LET b     == reqBatch[c]
        taken == reqIds[c] \intersect Unbatched
    IN
    /\ reqPc[c] = "assign"
    /\ IF taken = {}
       THEN /\ batchStatus' = [batchStatus EXCEPT ![b] = "absent"]
            /\ UNCHANGED jobBatch
            /\ Done(c)
       ELSE /\ jobBatch' = [j \in Jobs |-> IF j \in taken THEN b
                                                          ELSE jobBatch[j]]
            /\ UNCHANGED batchStatus
            /\ Goto(c, "run_new")
            /\ reqIds' = [reqIds EXCEPT ![c] = {}]
            /\ UNCHANGED reqBatch
    /\ UNCHANGED <<control, lease, jobStatus, batches, cyc, torn, claimedOff>>

\* The batch is set running whatever its status is by now.
RunBatch(c) ==
    /\ reqPc[c] \in {"run_batch", "run_new"}
    /\ batchStatus' =
         IF batchStatus[reqBatch[c]] = "absent" THEN batchStatus
         ELSE [batchStatus EXCEPT ![reqBatch[c]] = "running"]
    /\ Goto(c, IF reqPc[c] = "run_new" THEN "put_new" ELSE "put_running")
    /\ UNCHANGED <<control, lease, queue, batches, reqBatch, reqIds, cyc, torn,
                   claimedOff>>

\* The control row is written by user id alone; active_batch_id only when the
\* batch is new.
PutRunning(c) ==
    /\ reqPc[c] \in {"put_running", "put_new"}
    /\ active' = IF reqPc[c] = "put_new" THEN reqBatch[c] ELSE active
    /\ SetDesired("running")
    /\ Done(c)
    /\ UNCHANGED <<lease, queue, batch, cyc, torn>>

\* Pause reads the control row, pauses the batch, then writes the row.
Pause(c) ==
    /\ reqPc[c] = "idle"
    /\ Goto(c, IF active = 0 THEN "put_paused" ELSE "pause_batch")
    /\ reqBatch' = [reqBatch EXCEPT ![c] = active]
    /\ UNCHANGED <<control, lease, queue, batch, reqIds, cyc, torn, claimedOff>>

\* status = 'paused' WHERE status <> 'completed'.
PausedWrongWord(b) == [batchStatus EXCEPT ![b] = "stop_after_current"] \* mutant

Paused(b) ==
    IF batchStatus[b] \in {"absent", "completed"} THEN batchStatus
    ELSE [batchStatus EXCEPT ![b] = "paused"]

PauseBatch(c) ==
    /\ reqPc[c] = "pause_batch"
    /\ batchStatus' = Paused(reqBatch[c])
    /\ Goto(c, "put_paused")
    /\ UNCHANGED <<control, lease, queue, batches, reqBatch, reqIds, cyc, torn,
                   claimedOff>>

PutPaused(c) ==
    /\ reqPc[c] = "put_paused"
    /\ SetDesired("paused")
    /\ Done(c)
    /\ UNCHANGED <<active, lease, queue, batch, cyc, torn>>

\* Stop after current: with a job being sent the cycle is left to end, with
\* none it is a Pause.
Stop(c) ==
    /\ reqPc[c] = "idle"
    /\ Goto(c, IF active = 0 THEN "put_paused" ELSE "read_jobs")
    /\ reqBatch' = [reqBatch EXCEPT ![c] = active]
    /\ UNCHANGED <<control, lease, queue, batch, reqIds, cyc, torn, claimedOff>>

Sending(b) == \E j \in Jobs : jobBatch[j] = b /\ jobStatus[j] = "sending"

StopReadJobs(c) ==
    /\ reqPc[c] = "read_jobs"
    /\ Goto(c, IF Sending(reqBatch[c]) THEN "put_stop" ELSE "pause_batch")
    /\ UNCHANGED <<control, lease, queue, batch, reqBatch, reqIds, cyc, torn,
                   claimedOff>>

PutStop(c) ==
    /\ reqPc[c] = "put_stop"
    /\ SetDesired("stop_after_current")
    /\ Done(c)
    /\ UNCHANGED <<active, lease, queue, batch, cyc, torn>>

-----------------------------------------------------------------------------
(* process_next: one sender cycle, from its lease to the end of its batch.  *)

CycleGoto(s, step) == cycPc' = [cycPc EXCEPT ![s] = step]

\* acquire_application_send_lease: one UPDATE.  Every cycle calls itself by a
\* fresh name, so no lease is ever its own already.
LeaseFreeAnyState == active # 0 /\ ~live    \* mutant

LeaseFree == desired = "running" /\ active # 0 /\ ~live

Acquire(s) ==
    /\ cycPc[s] = "idle"
    /\ LeaseFree
    /\ owner' = s
    /\ live' = TRUE
    /\ CycleGoto(s, "read_batch")
    /\ UNCHANGED <<overran, control, queue, batch, req, cycBatch, cycJob, torn,
                   claimedOff>>

\* The lease expires; the row keeps its owner.
Expire ==
    /\ live
    /\ live' = FALSE
    /\ overran' = overran \union ({owner} \intersect Senders)
    /\ UNCHANGED <<owner, control, queue, batch, req, cyc, torn, claimedOff>>

\* A cycle ends, and what it has read goes with it.
CycleDone(s) ==
    /\ CycleGoto(s, "idle")
    /\ cycBatch' = [cycBatch EXCEPT ![s] = 0]
    /\ cycJob' = [cycJob EXCEPT ![s] = NoJob]

\* A cycle that ends without a release leaves its lease to expire.
CycleEnd(s) ==
    /\ CycleDone(s)
    /\ owner' = IF owner = s THEN Dead ELSE owner
    /\ overran' = overran \ {s}

\* acquire_lease reads the active batch in a statement of its own.  With none
\* it reports no lease, and the lease it took is never released.
ReadBatch(s) ==
    /\ cycPc[s] = "read_batch"
    /\ IF active = 0
       THEN CycleEnd(s)
       ELSE /\ cycBatch' = [cycBatch EXCEPT ![s] = active]
            /\ CycleGoto(s, "next")
            /\ UNCHANGED <<owner, overran, cycJob>>
    /\ UNCHANGED <<live, control, queue, batch, req, torn, claimedOff>>

\* _next_job: a queued job of the batch, or the batch is empty.
NextJob(s) ==
    LET ready == {j \in Jobs : /\ jobBatch[j] = cycBatch[s]
                               /\ jobStatus[j] = "queued"}
    IN
    /\ cycPc[s] = "next"
    /\ \/ /\ ready = {}
          /\ CycleGoto(s, "release")
          /\ UNCHANGED cycJob
       \/ \E j \in ready :
             /\ cycJob' = [cycJob EXCEPT ![s] = j]
             /\ CycleGoto(s, "claim")
    /\ UNCHANGED <<control, lease, queue, batch, req, cycBatch, torn, claimedOff>>

\* _claim_job: guarded by the batch and by 'queued'.
Claim(s) ==
    LET j == cycJob[s] IN
    /\ cycPc[s] = "claim"
    /\ IF jobStatus[j] = "queued" /\ jobBatch[j] = cycBatch[s]
       THEN /\ jobStatus' = [jobStatus EXCEPT ![j] = "sending"]
            /\ claimedOff' = IF desired # "running" /\ s \notin overran
                             THEN claimedOff + 1 ELSE claimedOff
            /\ CycleGoto(s, "work")
            /\ UNCHANGED cycJob
       ELSE /\ CycleGoto(s, "release")
            /\ cycJob' = [cycJob EXCEPT ![s] = NoJob]
            /\ UNCHANGED <<jobStatus, claimedOff>>
    /\ UNCHANGED <<jobBatch, control, lease, batch, req, cycBatch, torn>>

\* The job ends, or the cycle raises and leaves it 'sending'.
Work(s) ==
    LET j == cycJob[s] IN
    /\ cycPc[s] = "work"
    /\ \/ jobStatus' = IF jobStatus[j] = "sending"
                       THEN [jobStatus EXCEPT ![j] = "done"] ELSE jobStatus
       \/ UNCHANGED jobStatus
    /\ CycleGoto(s, "release")
    /\ cycJob' = [cycJob EXCEPT ![s] = NoJob]
    /\ UNCHANGED <<jobBatch, control, lease, batch, req, cycBatch, torn,
                   claimedOff>>

\* release_application_send_lease: WHERE lease_owner = the caller.  Whoever
\* lost the lease stops here.
ReleaseAny(s) ==    \* mutant: WHERE user_id alone
    /\ cycPc[s] = "release"
    /\ owner' = NoOwner
    /\ live' = FALSE
    /\ desired' = IF desired = "stop_after_current" THEN "paused" ELSE desired
    /\ CycleGoto(s, "read_control")
    /\ overran' = overran \ {s}
    /\ cycJob' = [cycJob EXCEPT ![s] = NoJob]
    /\ UNCHANGED <<active, queue, batch, req, cycBatch, torn, claimedOff>>

Release(s) ==
    /\ cycPc[s] = "release"
    /\ IF owner = s
       THEN /\ owner' = NoOwner
            /\ live' = FALSE
            /\ desired' = IF desired = "stop_after_current" THEN "paused"
                          ELSE desired
            /\ CycleGoto(s, "read_control")
            /\ overran' = overran \ {s}
            /\ cycJob' = [cycJob EXCEPT ![s] = NoJob]
            /\ UNCHANGED cycBatch
       ELSE /\ CycleEnd(s)
            /\ UNCHANGED <<live, desired>>
    /\ UNCHANGED <<active, queue, batch, req, torn, claimedOff>>

\* release_lease goes on without the lease: a paused control pauses the batch.
ReadControl(s) ==
    /\ cycPc[s] = "read_control"
    /\ CycleGoto(s, IF desired = "paused" THEN "pause_batch" ELSE "read_jobs")
    /\ UNCHANGED <<control, lease, queue, batch, req, cycBatch, cycJob, torn,
                   claimedOff>>

CyclePauseBatch(s) ==
    /\ cycPc[s] = "pause_batch"
    /\ batchStatus' = Paused(cycBatch[s])
    /\ CycleGoto(s, "read_jobs")
    /\ UNCHANGED <<control, lease, queue, batches, req, cycBatch, cycJob, torn,
                   claimedOff>>

\* _finalize_batch_if_done: nothing queued or sending in the batch ...
ReadJobsQueuedOnly(s) ==    \* mutant: a job being sent does not count
    /\ cycPc[s] = "read_jobs"
    /\ IF \A j \in OpenIn(cycBatch[s]) : jobStatus[j] # "queued"
       THEN CycleGoto(s, "complete") /\ UNCHANGED <<cycBatch, cycJob>>
       ELSE CycleDone(s)
    /\ UNCHANGED <<control, lease, queue, batch, req, torn, claimedOff>>

ReadJobs(s) ==
    /\ cycPc[s] = "read_jobs"
    /\ IF OpenIn(cycBatch[s]) = {}
       THEN CycleGoto(s, "complete") /\ UNCHANGED <<cycBatch, cycJob>>
       ELSE CycleDone(s)
    /\ UNCHANGED <<control, lease, queue, batch, req, torn, claimedOff>>

\* ... completes it ...
Complete(s) ==
    /\ cycPc[s] = "complete"
    /\ batchStatus' = [batchStatus EXCEPT ![cycBatch[s]] = "completed"]
    /\ CycleGoto(s, "clear")
    /\ UNCHANGED <<control, lease, queue, batches, req, cycBatch, cycJob, torn,
                   claimedOff>>

\* ... and gives the control row back, WHERE active_batch_id = the batch.
ClearAnyBatch(s) ==    \* mutant: WHERE user_id alone
    /\ cycPc[s] = "clear"
    /\ desired' = "paused"
    /\ active' = 0
    /\ CycleDone(s)
    /\ UNCHANGED <<lease, queue, batch, req, torn, claimedOff>>

Clear(s) ==
    /\ cycPc[s] = "clear"
    /\ IF active = cycBatch[s]
       THEN desired' = "paused" /\ active' = 0
       ELSE UNCHANGED control
    /\ CycleDone(s)
    /\ UNCHANGED <<lease, queue, batch, req, torn, claimedOff>>

-----------------------------------------------------------------------------
\* A request dies with the API process; a batch whose jobs it had already
\* assigned stays unknown to the control row.
CrashRequest(c) ==
    /\ AllowCrash
    /\ reqPc[c] # "idle"
    /\ torn' = IF reqPc[c] \in {"run_new", "put_new"}
               THEN torn \union {reqBatch[c]} ELSE torn
    /\ Done(c)
    /\ UNCHANGED <<control, lease, queue, batch, cyc, claimedOff>>

\* A cycle dies with the worker.
CrashCycle(s) ==
    /\ AllowCrash
    /\ cycPc[s] # "idle"
    /\ CycleEnd(s)
    /\ UNCHANGED <<live, control, queue, batch, req, torn, claimedOff>>

RequestNext(c) ==
    \/ Resume(c) \/ ResumeReadBatch(c) \/ CreateBatch(c) \/ AssignJobs(c)
    \/ RunBatch(c) \/ PutRunning(c)
    \/ Pause(c) \/ PauseBatch(c) \/ PutPaused(c)
    \/ Stop(c) \/ StopReadJobs(c) \/ PutStop(c)
    \/ CrashRequest(c)

CycleNext(s) ==
    \/ Acquire(s) \/ ReadBatch(s) \/ NextJob(s) \/ Claim(s) \/ Work(s)
    \/ Release(s) \/ ReadControl(s) \/ CyclePauseBatch(s)
    \/ ReadJobs(s) \/ Complete(s) \/ Clear(s)
    \/ CrashCycle(s)

Next ==
    \/ \E j \in Jobs : Enqueue(j) \/ Withdraw(j)
    \/ \E c \in Clients : RequestNext(c)
    \/ \E s \in Senders : CycleNext(s)
    \/ Expire

Spec == Init /\ [][Next]_vars

-----------------------------------------------------------------------------
(* Properties.                                                              *)

TypeOK ==
    /\ desired \in DesiredState
    /\ active \in {0} \union BatchIds
    /\ owner \in Senders \union {NoOwner, Dead}
    /\ live \in BOOLEAN
    /\ jobStatus \in [Jobs -> JobStatus]
    /\ jobBatch \in [Jobs -> {0} \union BatchIds]
    /\ batches \in 0..MaxBatches
    /\ batchStatus \in [BatchIds -> BatchStatus]
    /\ reqPc \in [Clients -> RequestStep]
    /\ reqBatch \in [Clients -> {0} \union BatchIds]
    /\ reqIds \in [Clients -> SUBSET Jobs]
    /\ cycPc \in [Senders -> CycleStep]
    /\ cycBatch \in [Senders -> {0} \union BatchIds]
    /\ cycJob \in [Senders -> Jobs \union {NoJob}]
    /\ overran \in SUBSET Senders
    /\ torn \in SUBSET ({0} \union BatchIds)
    /\ claimedOff \in Nat

\* A cycle that has not outlived its lease is the only owner of a live lease:
\* no release, expiry, crash or other acquisition takes it away.  Two such
\* cycles therefore never overlap.
LeaseExclusive ==
    \A s \in Senders :
        cycPc[s] \in LeasedStep /\ s \notin overran => owner = s /\ live

\* After Pause or Stop at most one more job is claimed inside a lease, until
\* the user presses Resume ("Stop after current").
AtMostOneMoreJob == claimedOff <= 1

\* A completed batch has no job left to send or being sent, whatever late
\* finalisers, resumes and re-enqueues do to it.
CompletedIsDone ==
    \A b \in BatchIds : batchStatus[b] = "completed" => OpenIn(b) = {}

\* With one control request at a time, a queued job that has a batch is in the
\* active one, or its Resume is still at work, or that Resume died half way.
NoStrandedJob ==
    \A j \in Jobs :
        jobStatus[j] = "queued" /\ jobBatch[j] # 0 =>
            \/ jobBatch[j] = active
            \/ jobBatch[j] \in torn
            \/ \E c \in Clients : /\ reqPc[c] \in {"run_new", "put_new"}
                                  /\ reqBatch[c] = jobBatch[j]

\* The control row lets go of a batch only when nothing is open in it: a late
\* finaliser never takes a newer Resume's batch away.
ActiveKeptUntilDone ==
    [][active' # active /\ active # 0 => OpenIn(active) = {}]_vars

-----------------------------------------------------------------------------
(* The inductive invariant behind the safety properties.                    *)

\* Once a claim was made with the control off, no cycle inside its lease still
\* has one to make.
StopInv ==
    /\ claimedOff <= 1
    /\ claimedOff # 0 =>
          /\ desired # "running"
          /\ \A s \in Senders :
                cycPc[s] \in {"read_batch", "next", "claim"} => s \in overran

\* Batch ids in use have been handed out.
KnownIds ==
    /\ active <= batches
    /\ \A j \in Jobs : jobBatch[j] <= batches
    /\ \A s \in Senders : cycBatch[s] <= batches
    /\ \A c \in Clients : reqBatch[c] <= batches
    /\ \A b \in BatchIds : b > batches => batchStatus[b] = "absent"

\* Every batch somebody knows has its row.
RowsExist ==
    LET Exists(b) == b = 0 \/ batchStatus[b] # "absent" IN
    /\ Exists(active)
    /\ \A j \in Jobs : Exists(jobBatch[j])
    /\ \A s \in Senders : Exists(cycBatch[s])
    /\ \A c \in Clients : Exists(reqBatch[c])

\* The batch a Resume has just inserted is known to nobody else.
PrivateBatch ==
    \A c \in Clients : LET b == reqBatch[c] IN
        reqPc[c] = "assign" =>
            /\ b # 0
            /\ b # active
            /\ batchStatus[b] # "completed"
            /\ \A j \in Jobs : jobBatch[j] # b
            /\ \A s \in Senders : cycBatch[s] # b
            /\ \A d \in Clients \ {c} : reqBatch[d] # b

\* A cycle that found its batch finished is right for ever.
FinalInv ==
    /\ \A s \in Senders :
          /\ cycPc[s] \in {"complete", "clear"} => OpenIn(cycBatch[s]) = {}
          /\ cycPc[s] \in {"next", "claim", "work", "release", "read_control",
                           "pause_batch", "read_jobs", "complete", "clear"}
             => cycBatch[s] # 0
    /\ CompletedIsDone

ControlInv ==
    /\ TypeOK
    /\ LeaseExclusive
    /\ StopInv
    /\ KnownIds
    /\ RowsExist
    /\ PrivateBatch
    /\ FinalInv

\* With one request at a time, a Resume that creates a batch leaves none with
\* open jobs behind.
LoneResume ==
    /\ \A c \in Clients :
          /\ reqPc[c] = "read_batch" => active \in {0, reqBatch[c]}
          /\ reqPc[c] \in {"create", "assign", "run_new", "put_new"}
             => active = 0 \/ OpenIn(active) = {}
    /\ NoStrandedJob
=============================================================================
