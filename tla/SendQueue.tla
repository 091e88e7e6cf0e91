------------------------------ MODULE SendQueue ------------------------------
(****************************************************************************)
(* The exact-text approval of a cover letter, the durable send queue and    *)
(* the sender cycles that drain it.                                         *)
(*                                                                          *)
(* The API process and the sender share two tables, vacancy_pipeline and    *)
(* application_send_queue, and no lock: every handler is a sequence of      *)
(* single statements, and each UPDATE repeats in its WHERE clause the       *)
(* status the handler believes in.  A step here is one statement.  A read   *)
(* followed by an UPDATE guarded by everything that was read is one step.   *)
(*                                                                          *)
(* A letter is a member of Texts, and its SHA-256 is the letter itself: the *)
(* columns approved_letter_hash and approved_letter_text are one field.     *)
(* The DB lease that serialises sender cycles is module SendControl's; a    *)
(* lease can expire under a slow cycle, so here cycles overlap freely.      *)
(****************************************************************************)
EXTENDS Integers, Sequences

CONSTANTS
    Vacancies,      \* rows of vacancy_pipeline, each with at most one send job
    Clients,        \* API requests in progress at the same time
    Senders,        \* sender cycles in progress at the same time
    Texts,          \* the possible cover letters
    NoText,         \* NULL in cover_letter_draft / approved_letter_hash
    MaxEnqueues,    \* bound: times one vacancy is put in the queue
    MaxBatches,     \* bound: batches created by Resume
    AllowCrash      \* whether a request or a cycle may die between two steps

ASSUME SendQueueAssumption ==
    /\ Vacancies # {}
    /\ NoText \notin Texts
    /\ MaxEnqueues \in Nat
    /\ MaxBatches \in Nat
    /\ AllowCrash \in BOOLEAN

VARIABLES
    pipe,           \* vacancy_pipeline: lifecycle status, draft, approved hash
    job,            \* application_send_queue, one row per vacancy at most
    batches,        \* number of batches created; ids are 1..batches, 0 is NULL
    req,            \* the API requests: next statement and what they have read
    cyc,            \* the sender cycles: next statement and what they have read
    responded,      \* on hh: vacancies that have a negotiation with the user
    inflight,       \* responses hh has received but not yet acted upon
    approvals,      \* history: the letters the user approved, per vacancy
    posts,          \* history: the responses posted to hh, per vacancy
    settled         \* history: vacancies a cycle has seen answered on hh

rows == <<pipe, job, batches>>
hh   == <<responded, inflight>>
hist == <<approvals, posts, settled>>
vars == <<pipe, job, batches, req, cyc, responded, inflight,
          approvals, posts, settled>>

-----------------------------------------------------------------------------
(* "review" stands for every status the user can decide from except the two *)
(* the letter code distinguishes: discovered, scored, hold, rejected ...    *)
PipeStatus == {"review", "selected", "letter_draft", "approved",
               "queued_to_send", "send_error", "sent", "archived"}

JobStatus  == {"queued", "sending", "sent", "failed", "manual_required",
               "cancelled"}

Letter     == Texts \union {NoText}
PipeRow    == [status: PipeStatus, draft: Letter, approved: Letter]
JobRow     == [status: JobStatus \union {"none"}, text: Letter,
               batch: Nat, gen: Nat]
NoJob      == [status |-> "none", text |-> NoText, batch |-> 0, gen |-> 0]

RequestStep == {"idle", "save_check", "save_write", "approve",
                "queue_job", "queue_put", "queue_move", "queue_undo",
                "cancel_job", "cancel_move",
                "reset_job", "reset_put", "reset_move", "reset_undo"}
Request     == [pc: RequestStep, v: Vacancies, text: Letter,
                seen: JobStatus \union {"none"}]

CycleStep == {"idle", "claim", "snapshot", "fetch", "submit", "reconcile",
              "finish", "move"}
Cycle     == [pc: CycleStep, batch: Nat, v: Vacancies, text: Letter,
              gen: Nat, outcome: JobStatus \union {"none"},
              target: PipeStatus \union {"none"}]

AnyVacancy == CHOOSE v \in Vacancies : TRUE
IdleReq    == [pc |-> "idle", v |-> AnyVacancy, text |-> NoText,
               seen |-> "none"]
IdleCycle  == [pc |-> "idle", batch |-> 0, v |-> AnyVacancy,
               text |-> NoText, gen |-> 0, outcome |-> "none",
               target |-> "none"]

Init ==
    /\ pipe = [v \in Vacancies |->
                 [status |-> "review", draft |-> NoText, approved |-> NoText]]
    /\ job = [v \in Vacancies |-> NoJob]
    /\ batches = 0
    /\ req = [c \in Clients |-> IdleReq]
    /\ cyc = [s \in Senders |-> IdleCycle]
    /\ responded = [v \in Vacancies |-> FALSE]
    /\ inflight = {}
    /\ approvals = [v \in Vacancies |-> {}]
    /\ posts = [v \in Vacancies |-> <<>>]
    /\ settled = {}

-----------------------------------------------------------------------------
(* Helpers.                                                                 *)

\* vacancy_pipeline with one row rewritten, or with another status in it.
RowWith(v, st, draft, approved) ==
    [pipe EXCEPT ![v] =
        [status |-> st, draft |-> draft, approved |-> approved]]

PipeWith(v, st) == RowWith(v, st, pipe[v].draft, pipe[v].approved)

\* vacancy_pipeline.transition: one UPDATE guarded by the current status.
\* Moved is the new table: the row moved, or every row as it was.
Moved(v, from, to) ==
    IF pipe[v].status = from THEN PipeWith(v, to) ELSE pipe

\* The queue with another status in one job.
JobWith(v, st) ==
    [job EXCEPT ![v] = [status |-> st, text |-> job[v].text,
                        batch |-> job[v].batch, gen |-> job[v].gen]]

\* The payload of queue_approved: the approved text is snapshotted and any
\* old batch identity is cleared.
QueuedJobKeepsBatch(v, text) ==    \* mutant
    [status |-> "queued", text |-> text, batch |-> job[v].batch,
     gen |-> job[v].gen + 1]

QueuedJob(v, text) ==
    [status |-> "queued", text |-> text, batch |-> 0, gen |-> job[v].gen + 1]

Enqueued(v, text) == [job EXCEPT ![v] = QueuedJob(v, text)]

\* cancel_queued touches a job nobody has claimed.
CancellableWhileSending(v) == job[v].status \in {"queued", "sending"} \* mutant

Cancellable(v) == job[v].status = "queued"

\* _claim_job: WHERE batch_id = the leased batch AND status = 'queued'.
ClaimableAnyStatus(v, b) == job[v].batch = b    \* mutant

Claimable(v, b) ==
    /\ job[v].status = "queued"
    /\ job[v].batch = b

\* The job, or its absence, lets the letter be edited: _active_send_job.
NoActiveJob(v) == job[v].status \in {"none", "cancelled"}

\* The draft is exactly the letter that was approved.
ApprovalIntact(v) ==
    /\ pipe[v].draft # NoText
    /\ pipe[v].draft = pipe[v].approved

\* _snapshot_matches: the claimed job against the vacancy row.
SnapshotMatches(text, v) ==
    /\ pipe[v].status = "queued_to_send"
    /\ pipe[v].approved = text
    /\ pipe[v].draft = text

\* A request starts, goes on to its next statement, or ends.
Start(c, step, v, text) ==
    req' = [req EXCEPT ![c] =
              [pc |-> step, v |-> v, text |-> text, seen |-> "none"]]

GotoSeen(c, step, seen) ==
    req' = [req EXCEPT ![c] = [pc |-> step, v |-> req[c].v,
                               text |-> req[c].text, seen |-> seen]]

Goto(c, step) == GotoSeen(c, step, req[c].seen)
Done(c)       == req' = [req EXCEPT ![c] = IdleReq]

-----------------------------------------------------------------------------
(* The user's decisions and hh's news about a vacancy not yet sent.         *)

\* decide(): select, reject, hold, review or archive a vacancy whose letter is
\* not approved yet.  The transition repeats the status that was read.
Decide(v) ==
    /\ \/ /\ pipe[v].status \in {"review", "selected", "letter_draft"}
          /\ \E to \in {"review", "selected"} :
                pipe' = PipeWith(v, to)
       \/ /\ pipe[v].status = "review"
          /\ pipe' = PipeWith(v, "archived")
    /\ UNCHANGED <<job, batches, req, cyc, hh, hist>>

\* enrich(): the vacancy is gone from hh; archived from whatever status was
\* read, approved and queued ones included, unless it was sent.
EnrichArchive(v) ==
    /\ pipe[v].status \notin {"sent", "archived"}
    /\ pipe' = PipeWith(v, "archived")
    /\ UNCHANGED <<job, batches, req, cyc, hh, hist>>

-----------------------------------------------------------------------------
(* The letter.                                                              *)

\* generate_draft(): a generated letter replaces the draft and clears the
\* approval.  The write is guarded by the status that was read.
GenerateDraft(v) ==
    /\ pipe[v].status \in {"selected", "letter_draft"}
    /\ \E t \in Texts :
          pipe' = RowWith(v, "letter_draft", t, NoText)
    /\ UNCHANGED <<job, batches, req, cyc, hh, hist>>

SaveDraftWhileQueued(v) ==    \* mutant
    /\ pipe[v].status \in {"letter_draft", "queued_to_send"}
    /\ \E t \in Texts :
          pipe' = RowWith(v, pipe[v].status, t, NoText)
    /\ UNCHANGED <<job, batches, req, cyc, hh, hist>>

\* save_draft() in letter_draft: one guarded UPDATE.
SaveDraft(v) ==
    /\ pipe[v].status = "letter_draft"
    /\ \E t \in Texts :
          pipe' = RowWith(v, pipe[v].status, t, NoText)
    /\ UNCHANGED <<job, batches, req, cyc, hh, hist>>

\* save_draft() in approved: it must first see that no send job is active.
StartSaveApproved(c, v) ==
    /\ req[c].pc = "idle"
    /\ pipe[v].status = "approved"
    /\ \E t \in Texts : Start(c, "save_check", v, t)
    /\ UNCHANGED <<rows, cyc, hh, hist>>

SaveCheckJob(c) ==
    /\ req[c].pc = "save_check"
    /\ IF NoActiveJob(req[c].v) THEN Goto(c, "save_write") ELSE Done(c)
    /\ UNCHANGED <<rows, cyc, hh, hist>>

SaveApproved(c) ==
    LET v == req[c].v IN
    /\ req[c].pc = "save_write"
    /\ pipe' = IF pipe[v].status = "approved"
               THEN RowWith(v, "letter_draft", req[c].text, NoText)
               ELSE pipe
    /\ Done(c)
    /\ UNCHANGED <<job, batches, cyc, hh, hist>>

\* approve_letter(): the draft is read, hashed, and the hash is written in a
\* later statement guarded by the status only: the draft may have changed.
StartApprove(c, v) ==
    /\ req[c].pc = "idle"
    /\ pipe[v].status = "letter_draft"
    /\ pipe[v].draft # NoText
    /\ Start(c, "approve", v, pipe[v].draft)
    /\ UNCHANGED <<rows, cyc, hh, hist>>

ApproveWriteCurrent(c) ==    \* mutant: hashes the draft as it is now
    LET v == req[c].v IN
    /\ req[c].pc = "approve"
    /\ pipe[v].status = "letter_draft"
    /\ pipe' = RowWith(v, "approved", pipe[v].draft, pipe[v].draft)
    /\ approvals' = [approvals EXCEPT ![v] = @ \union {req[c].text}]
    /\ Done(c)
    /\ UNCHANGED <<job, batches, cyc, hh, posts, settled>>

ApproveWrite(c) ==
    LET v == req[c].v IN
    /\ req[c].pc = "approve"
    /\ IF pipe[v].status = "letter_draft"
       THEN /\ pipe' = RowWith(v, "approved", pipe[v].draft, req[c].text)
            /\ approvals' = [approvals EXCEPT ![v] = @ \union {req[c].text}]
       ELSE UNCHANGED <<pipe, approvals>>
    /\ Done(c)
    /\ UNCHANGED <<job, batches, cyc, hh, posts, settled>>

-----------------------------------------------------------------------------
(* The queue: queue_approved, cancel_queued and reset_failed.               *)

\* queue_approved(): the approved letter is read first, the job row second.
\* (A vacancy already queued returns its job and changes nothing.)
StartQueue(c, v) ==
    /\ req[c].pc = "idle"
    /\ pipe[v].status = "approved"
    /\ ApprovalIntact(v)
    /\ Start(c, "queue_job", v, pipe[v].draft)
    /\ UNCHANGED <<rows, cyc, hh, hist>>

QueueReadJob(c) ==
    LET seen == job[req[c].v].status IN
    /\ req[c].pc = "queue_job"
    /\ IF NoActiveJob(req[c].v)
       THEN GotoSeen(c, "queue_put", seen)
       ELSE Done(c)
    /\ UNCHANGED <<rows, cyc, hh, hist>>

\* INSERT when no row was seen (the UNIQUE key refuses a second one), UPDATE
\* ... WHERE status = 'cancelled' when a cancelled row was seen.
QueuePut(c) ==
    LET v == req[c].v IN
    /\ req[c].pc = "queue_put"
    /\ IF job[v].status = req[c].seen
       THEN /\ job[v].gen < MaxEnqueues
            /\ job' = Enqueued(v, req[c].text)
            /\ Goto(c, "queue_move")
       ELSE /\ UNCHANGED job
            /\ Done(c)
    /\ UNCHANGED <<pipe, batches, cyc, hh, hist>>

\* approved -> queued_to_send; losing that race leads to the compensation.
QueueMove(c) ==
    LET v == req[c].v IN
    /\ req[c].pc = "queue_move"
    /\ pipe' = Moved(v, "approved", "queued_to_send")
    /\ IF pipe[v].status = "approved" THEN Done(c) ELSE Goto(c, "queue_undo")
    /\ UNCHANGED <<job, batches, cyc, hh, hist>>

\* The compensation is an UPDATE by id alone, whatever the job's status is.
QueueUndo(c) ==
    /\ req[c].pc = "queue_undo"
    /\ job' = JobWith(req[c].v, "cancelled")
    /\ Done(c)
    /\ UNCHANGED <<pipe, batches, cyc, hh, hist>>

\* cancel_queued(): vacancy, then job, then the two guarded UPDATEs.
StartCancel(c, v) ==
    /\ req[c].pc = "idle"
    /\ pipe[v].status = "queued_to_send"
    /\ Start(c, "cancel_job", v, NoText)
    /\ UNCHANGED <<rows, cyc, hh, hist>>

CancelJob(c) ==
    LET v == req[c].v IN
    /\ req[c].pc = "cancel_job"
    /\ IF Cancellable(v)
       THEN /\ job' = JobWith(v, "cancelled")
            /\ Goto(c, "cancel_move")
       ELSE /\ UNCHANGED job
            /\ Done(c)
    /\ UNCHANGED <<pipe, batches, cyc, hh, hist>>

CancelMove(c) ==
    /\ req[c].pc = "cancel_move"
    /\ pipe' = Moved(req[c].v, "queued_to_send", "approved")
    /\ Done(c)
    /\ UNCHANGED <<job, batches, cyc, hh, hist>>

\* reset_failed(): a failed or manual job goes back to the approval step.
StartReset(c, v) ==
    /\ req[c].pc = "idle"
    /\ pipe[v].status = "send_error"
    /\ ApprovalIntact(v)
    /\ Start(c, "reset_job", v, pipe[v].draft)
    /\ UNCHANGED <<rows, cyc, hh, hist>>

ResetReadJob(c) ==
    LET j == job[req[c].v] IN
    /\ req[c].pc = "reset_job"
    /\ IF j.status \in {"failed", "manual_required"} /\ j.text = req[c].text
       THEN GotoSeen(c, "reset_put", j.status)
       ELSE Done(c)
    /\ UNCHANGED <<rows, cyc, hh, hist>>

ResetPut(c) ==
    LET v == req[c].v IN
    /\ req[c].pc = "reset_put"
    /\ IF job[v].status = req[c].seen
       THEN /\ job' = JobWith(v, "cancelled")
            /\ Goto(c, "reset_move")
       ELSE /\ UNCHANGED job
            /\ Done(c)
    /\ UNCHANGED <<pipe, batches, cyc, hh, hist>>

ResetMove(c) ==
    LET v == req[c].v IN
    /\ req[c].pc = "reset_move"
    /\ pipe' = Moved(v, "send_error", "approved")
    /\ IF pipe[v].status = "send_error" THEN Done(c) ELSE Goto(c, "reset_undo")
    /\ UNCHANGED <<job, batches, cyc, hh, hist>>

\* The rollback restores the previous status, guarded by 'cancelled'.
ResetUndo(c) ==
    LET v == req[c].v IN
    /\ req[c].pc = "reset_undo"
    /\ job' = IF job[v].status = "cancelled"
              THEN JobWith(v, req[c].seen) ELSE job
    /\ Done(c)
    /\ UNCHANGED <<pipe, batches, cyc, hh, hist>>

\* Resume's _create_batch: the queued jobs without a batch it read, and that
\* are still so, get the identity of a new batch in one UPDATE.
CreateBatch ==
    /\ batches < MaxBatches
    /\ batches' = batches + 1
    /\ \E S \in SUBSET {v \in Vacancies : job[v].status = "queued"
                                          /\ job[v].batch = 0} :
          /\ S # {}
          /\ job' = [v \in Vacancies |->
                       IF v \in S
                       THEN [status |-> job[v].status, text |-> job[v].text,
                             batch |-> batches + 1, gen |-> job[v].gen]
                       ELSE job[v]]
    /\ UNCHANGED <<pipe, req, cyc, hh, hist>>

-----------------------------------------------------------------------------
(* One sender cycle: _process_leased.                                       *)

CycleAt(s, step, out, to) ==
    cyc' = [cyc EXCEPT ![s] =
              [pc |-> step, batch |-> cyc[s].batch, v |-> cyc[s].v,
               text |-> cyc[s].text, gen |-> cyc[s].gen,
               outcome |-> out, target |-> to]]

CycleGoto(s, step) == CycleAt(s, step, cyc[s].outcome, cyc[s].target)
CycleDone(s)       == cyc' = [cyc EXCEPT ![s] = IdleCycle]

\* The job's outcome, and the status the vacancy moves to after it.
Conclude(s, out, to) == CycleAt(s, "finish", out, to)

\* The lease names a batch; _next_job reads one of its queued jobs.
NextJob(s, b, v) ==
    /\ cyc[s].pc = "idle"
    /\ job[v].status = "queued"
    /\ job[v].batch = b
    /\ cyc' = [cyc EXCEPT ![s] =
                 [pc |-> "claim", batch |-> b, v |-> v,
                  text |-> job[v].text, gen |-> job[v].gen,
                  outcome |-> "none", target |-> "none"]]
    /\ UNCHANGED <<rows, req, hh, hist>>

\* _claim_job: queued -> sending, only if the job is still in the batch.
Claim(s) ==
    LET v == cyc[s].v IN
    /\ cyc[s].pc = "claim"
    /\ IF Claimable(v, cyc[s].batch)
       THEN /\ job' = JobWith(v, "sending")
            /\ CycleGoto(s, "snapshot")
       ELSE /\ UNCHANGED job
            /\ CycleDone(s)
    /\ UNCHANGED <<pipe, batches, req, hh, hist>>

\* The approval is checked again against the vacancy row.
Snapshot(s) ==
    LET v == cyc[s].v IN
    /\ cyc[s].pc = "snapshot"
    /\ IF SnapshotMatches(cyc[s].text, v)
       THEN CycleGoto(s, "fetch")
       ELSE Conclude(s, "failed", IF pipe[v].status = "queued_to_send"
                                  THEN "send_error" ELSE "none")
    /\ UNCHANGED <<rows, req, hh, hist>>

\* web.get_vacancy: gone or archived on hh, or the web session is dead.
FetchFails(s) ==
    /\ cyc[s].pc = "fetch"
    /\ \E to \in {"archived", "send_error"} : Conclude(s, "failed", to)
    /\ UNCHANGED <<rows, req, hh, hist>>

\* The cycle raises, at the fetch or before the POST (the user's switches, the
\* session): the lease is released and the job stays 'sending'.
CycleRaises(s) ==
    /\ cyc[s].pc \in {"fetch", "submit"}
    /\ CycleDone(s)
    /\ UNCHANGED <<rows, req, hh, hist>>

\* A negotiation already exists: reconciled without a submit.
FetchResponded(s) ==
    /\ cyc[s].pc = "fetch"
    /\ responded[cyc[s].v]
    /\ Conclude(s, "sent", "sent")
    /\ settled' = settled \union {cyc[s].v}
    /\ UNCHANGED <<rows, req, hh, approvals, posts>>

\* The vacancy has a test: left to the user.
FetchHasTest(s) ==
    /\ cyc[s].pc = "fetch"
    /\ ~responded[cyc[s].v]
    /\ Conclude(s, "manual_required", "send_error")
    /\ UNCHANGED <<rows, req, hh, hist>>

FetchClear(s) ==
    /\ cyc[s].pc = "fetch"
    /\ ~responded[cyc[s].v]
    /\ CycleGoto(s, "submit")
    /\ UNCHANGED <<rows, req, hh, hist>>

\* submit_response() is stopped before the POST: the user's real_apply switch,
\* no web session, no resume, a captcha wall.
SubmitBlocked(s) ==
    /\ cyc[s].pc = "submit"
    /\ CycleGoto(s, "reconcile")
    /\ UNCHANGED <<rows, req, hh, hist>>

Post(s) ==
    LET v == cyc[s].v IN
    posts' = [posts EXCEPT
                ![v] = Append(@, [gen |-> cyc[s].gen, text |-> cyc[s].text])]

\* The POST is accepted and the answer arrives.
SubmitAccepted(s) ==
    LET v == cyc[s].v IN
    /\ cyc[s].pc = "submit"
    /\ Post(s)
    /\ ~responded[v]
    /\ responded' = [responded EXCEPT ![v] = TRUE]
    /\ Conclude(s, "sent", "sent")
    /\ settled' = settled \union {v}
    /\ UNCHANGED <<rows, req, inflight, approvals>>

\* The POST is rejected, or accepted with its answer lost, or still on its way
\* when the request times out: the caller cannot tell these apart.
SubmitUncertain(s) ==
    LET v == cyc[s].v IN
    /\ cyc[s].pc = "submit"
    /\ Post(s)
    /\ \/ UNCHANGED hh
       \/ /\ responded' = [responded EXCEPT ![v] = TRUE]
          /\ UNCHANGED inflight
       \/ /\ ~responded[v]
          /\ inflight' = inflight \union {v}
          /\ UNCHANGED responded
    /\ CycleGoto(s, "reconcile")
    /\ UNCHANGED <<rows, req, approvals, settled>>

ReconcileSentBlind(s) ==    \* mutant: an uncertain submit counts as sent
    /\ cyc[s].pc = "reconcile"
    /\ Conclude(s, "sent", "sent")
    /\ settled' = settled \union {cyc[s].v}
    /\ UNCHANGED <<rows, req, hh, approvals, posts>>

\* The vacancy is fetched again; a failed fetch counts as "not responded".
ReconcileSent(s) ==
    /\ cyc[s].pc = "reconcile"
    /\ responded[cyc[s].v]
    /\ Conclude(s, "sent", "sent")
    /\ settled' = settled \union {cyc[s].v}
    /\ UNCHANGED <<rows, req, hh, approvals, posts>>

ReconcileFailed(s) ==
    /\ cyc[s].pc = "reconcile"
    /\ Conclude(s, "failed", "send_error")
    /\ UNCHANGED <<rows, req, hh, hist>>

\* _finish_job, guarded by 'sending'.
Finish(s) ==
    LET v == cyc[s].v IN
    /\ cyc[s].pc = "finish"
    /\ job' = IF job[v].status = "sending"
              THEN JobWith(v, cyc[s].outcome) ELSE job
    /\ IF cyc[s].target = "none" THEN CycleDone(s) ELSE CycleGoto(s, "move")
    /\ UNCHANGED <<pipe, batches, req, hh, hist>>

\* _move_pipeline; its result is ignored.
Move(s) ==
    /\ cyc[s].pc = "move"
    /\ pipe' = Moved(cyc[s].v, "queued_to_send", cyc[s].target)
    /\ CycleDone(s)
    /\ UNCHANGED <<job, batches, req, hh, hist>>

-----------------------------------------------------------------------------
(* The environment.                                                         *)

\* A response hh had received takes effect.
LateResponse(v) ==
    /\ v \in inflight
    /\ inflight' = inflight \ {v}
    /\ responded' = [responded EXCEPT ![v] = TRUE]
    /\ UNCHANGED <<rows, req, cyc, hist>>

\* The user answers the vacancy by other means: on hh.ru, or apply loop.
RespondElsewhere(v) ==
    /\ ~responded[v]
    /\ responded' = [responded EXCEPT ![v] = TRUE]
    /\ UNCHANGED <<rows, req, cyc, inflight, hist>>

\* The API process dies with the request, or the worker with the cycle.
CrashRequest(c) ==
    /\ AllowCrash
    /\ req[c].pc # "idle"
    /\ Done(c)
    /\ UNCHANGED <<rows, cyc, hh, hist>>

CrashCycle(s) ==
    /\ AllowCrash
    /\ cyc[s].pc # "idle"
    /\ CycleDone(s)
    /\ UNCHANGED <<rows, req, hh, hist>>

-----------------------------------------------------------------------------
UserStep(v) ==
    Decide(v) \/ EnrichArchive(v) \/ GenerateDraft(v) \/ SaveDraft(v)

StartRequest(c, v) ==
    \/ StartSaveApproved(c, v) \/ StartApprove(c, v) \/ StartQueue(c, v)
    \/ StartCancel(c, v) \/ StartReset(c, v)

RequestNext(c) ==
    \/ SaveCheckJob(c) \/ SaveApproved(c) \/ ApproveWrite(c)
    \/ QueueReadJob(c) \/ QueuePut(c) \/ QueueMove(c) \/ QueueUndo(c)
    \/ CancelJob(c) \/ CancelMove(c)
    \/ ResetReadJob(c) \/ ResetPut(c) \/ ResetMove(c) \/ ResetUndo(c)

CycleNext(s) ==
    \/ Claim(s) \/ Snapshot(s)
    \/ FetchFails(s) \/ CycleRaises(s) \/ FetchResponded(s)
    \/ FetchHasTest(s) \/ FetchClear(s)
    \/ SubmitBlocked(s) \/ SubmitAccepted(s) \/ SubmitUncertain(s)
    \/ ReconcileSent(s) \/ ReconcileFailed(s)
    \/ Finish(s) \/ Move(s)

Next ==
    \/ \E v \in Vacancies :
          UserStep(v) \/ LateResponse(v) \/ RespondElsewhere(v)
    \/ \E c \in Clients, v \in Vacancies : StartRequest(c, v)
    \/ \E c \in Clients : RequestNext(c) \/ CrashRequest(c)
    \/ CreateBatch
    \/ \E s \in Senders, b \in 1..MaxBatches, v \in Vacancies : NextJob(s, b, v)
    \/ \E s \in Senders : CycleNext(s) \/ CrashCycle(s)

Spec == Init /\ [][Next]_vars

-----------------------------------------------------------------------------
(* Properties.                                                              *)

TypeOK ==
    /\ pipe \in [Vacancies -> PipeRow]
    /\ job \in [Vacancies -> JobRow]
    /\ batches \in Nat
    /\ req \in [Clients -> Request]
    /\ cyc \in [Senders -> Cycle]
    /\ responded \in [Vacancies -> BOOLEAN]
    /\ inflight \in SUBSET Vacancies
    /\ approvals \in [Vacancies -> SUBSET Letter]
    /\ posts \in [Vacancies -> Seq([gen : Nat, text : Letter])]
    /\ settled \in SUBSET Vacancies

\* Every letter posted to hh is one the user approved for that vacancy,
\* however edits, regenerations, approvals and cycles interleave
\* (the "exact-text approval" of send_queue_service and persistent_sender).
ApprovedTextOnly ==
    \A v \in Vacancies : \A i \in 1..Len(posts[v]) :
        posts[v][i].text \in approvals[v]

\* One enqueue by the user authorises at most one POST: no automatic retry,
\* and two overlapping cycles never submit the same queued job.
OnePostPerEnqueue ==
    \A v \in Vacancies : \A i, k \in 1..Len(posts[v]) :
        posts[v][i].gen = posts[v][k].gen => i = k

\* A vacancy or a job marked sent really has a negotiation on hh.
SentIsTrue ==
    \A v \in Vacancies :
        (pipe[v].status = "sent" \/ job[v].status = "sent") => responded[v]

\* A cycle submits the letter the job carried when it was claimed: a job
\* re-queued with another letter after the cycle read it is never claimed.
ClaimedJobIsTheOneRead ==
    \A s \in Senders : LET v == cyc[s].v IN
        (/\ cyc[s].pc = "claim"
         /\ job[v].status = "queued"
         /\ job[v].batch = cyc[s].batch)
        => job[v].text = cyc[s].text /\ job[v].gen = cyc[s].gen

\* With one request at a time: between the approval check and the POST nobody
\* can change the letter or take the approval away.
LetterFrozenUnderSubmit ==
    \A s \in Senders :
        cyc[s].pc \in {"fetch", "submit"} =>
            /\ pipe[cyc[s].v].draft = cyc[s].text
            /\ pipe[cyc[s].v].approved = cyc[s].text

\* Once a cycle has seen hh confirm the response, the vacancy is never posted
\* again ("HH is authoritative ... never submit twice").
SettledNeverResubmitted ==
    [][\A v \in Vacancies : posts'[v] # posts[v] => v \notin settled]_vars

\* With one request at a time: from the approval check to the end of the submit
\* the cycle holds its job: no cancel, reset or re-queue takes the row away
\* from under the POST.
SubmitHoldsTheJob ==
    \A s \in Senders :
        cyc[s].pc \in {"fetch", "submit", "reconcile"} =>
            /\ job[cyc[s].v].status = "sending"
            /\ job[cyc[s].v].gen = cyc[s].gen

\* queue_approved's compensation: "No HH call has happened".
\* When it cancels the job, nothing was posted for that enqueue.  (Does not
\* hold: a cycle may have claimed and posted it in between.)
CompensationBeforeAnyPost ==
    [][\A c \in Clients :
         (req[c].pc = "queue_undo" /\ job' # job) =>
            \A i \in 1..Len(posts[req[c].v]) :
                posts[req[c].v][i].gen # job[req[c].v].gen]_vars

AtRest(v) ==
    /\ \A c \in Clients : req[c].pc = "idle" \/ req[c].v # v
    /\ \A s \in Senders : cyc[s].pc = "idle" \/ cyc[s].v # v

\* reset_failed "return[s] a failed/manual job to the explicit approval step":
\* unless archived, a vacancy whose job failed is in send_error, where the
\* reset is possible.
FailedJobResettable ==
    \A v \in Vacancies :
        (AtRest(v) /\ job[v].status \in {"failed", "manual_required"})
        => pipe[v].status \in {"send_error", "archived"}

\* The queue, its requests and its cycles implement the abstract promise: the
\* generation of a job is the number of times it was put in the queue, and a
\* record of "sent" in either table is what the user is told.
Promise == INSTANCE SendPromise WITH
    Letters  <- Letter,
    approved <- approvals,
    enqueued <- [v \in Vacancies |-> job[v].gen],
    posted   <- posts,
    answered <- responded,
    recorded <- {v \in Vacancies :
                    pipe[v].status = "sent" \/ job[v].status = "sent"}

\* Every behaviour of queue_approved, cancel_queued, reset_failed and the sender
\* cycles is one the user was promised: approved text only, one POST for each
\* enqueue, nothing recorded as sent that hh does not have.
KeepsPromise == Promise!Spec

-----------------------------------------------------------------------------
(* The inductive invariant behind the safety properties.                    *)

Holding == {"snapshot", "fetch", "submit", "reconcile", "finish", "move"}
PrePost == {"snapshot", "fetch", "submit"}

\* What a request or a cycle remembers is fit for the statement it is about to
\* execute.
RoleInv ==
    /\ \A c \in Clients :
          req[c].pc \in {"reset_put", "reset_move", "reset_undo"} =>
              req[c].seen \in {"failed", "manual_required"}
    /\ \A s \in Senders :
          /\ cyc[s].pc = "finish" =>
                cyc[s].outcome \in {"sent", "failed", "manual_required"}
          /\ cyc[s].pc = "move" => cyc[s].target # "none"

\* An approval, a queued letter and a letter in a cycle's hands have all been
\* approved by the user.
ApprovalInv ==
    /\ \A v \in Vacancies :
          /\ pipe[v].approved # NoText => pipe[v].approved \in approvals[v]
          /\ job[v].status = "queued" => job[v].text \in approvals[v]
    /\ \A c \in Clients :
          req[c].pc \in {"queue_job", "queue_put"} =>
              req[c].text \in approvals[req[c].v]
    /\ \A s \in Senders :
          cyc[s].pc # "idle" => cyc[s].text \in approvals[cyc[s].v]
    /\ ApprovedTextOnly

\* "sent" is only ever on its way when hh has the response.
SentInv ==
    /\ SentIsTrue
    /\ \A s \in Senders :
          /\ cyc[s].pc \in {"finish", "move"}
          /\ cyc[s].outcome = "sent" \/ cyc[s].target = "sent"
          => responded[cyc[s].v]

\* Generations.  A job only ever grows older; a cycle that read an old job
\* finds it out of its batch, and a cycle that claimed a job is the only one
\* that may still post for it.
ClaimInv ==
    \A s \in Senders : LET j == job[cyc[s].v] IN
        cyc[s].pc = "claim" =>
            /\ cyc[s].gen <= j.gen
            /\ cyc[s].batch \in 1..batches
            /\ cyc[s].gen < j.gen => j.batch = 0 \/ j.batch > cyc[s].batch
            /\ cyc[s].gen = j.gen => j.text = cyc[s].text

HoldInv ==
    /\ \A s \in Senders : LET j == job[cyc[s].v] IN
          cyc[s].pc \in Holding =>
              /\ cyc[s].gen <= j.gen
              /\ cyc[s].gen = j.gen => j.status # "queued"
    /\ \A s, t \in Senders :
          /\ s # t
          /\ cyc[s].pc \in PrePost
          /\ cyc[t].pc \in PrePost
          /\ cyc[s].v = cyc[t].v
          => cyc[s].gen # cyc[t].gen

PostInv ==
    /\ \A v \in Vacancies : \A i \in 1..Len(posts[v]) :
          /\ posts[v][i].gen <= job[v].gen
          /\ posts[v][i].gen = job[v].gen => job[v].status # "queued"
    /\ \A s \in Senders : cyc[s].pc \in PrePost =>
          \A i \in 1..Len(posts[cyc[s].v]) :
              posts[cyc[s].v][i].gen # cyc[s].gen
    /\ OnePostPerEnqueue

GenInv ==
    /\ \A v \in Vacancies : job[v].batch <= batches
    /\ ClaimInv
    /\ HoldInv
    /\ PostInv

\* The inductive invariant of the sender: approval, generations and outcome.
SendInv ==
    /\ TypeOK
    /\ RoleInv
    /\ ApprovalInv
    /\ SentInv
    /\ GenInv

-----------------------------------------------------------------------------
(* The inductive invariant behind what needs requests to take turns.        *)

\* Two requests on one vacancy do not overlap.  The code takes no lock that
\* would see to it: the hypothesis of the theorems that need it.
TakeTurns ==
    \A c, d \in Clients :
        (req[c].pc # "idle" /\ req[d].pc # "idle" /\ req[c].v = req[d].v)
        => c = d

\* No cycle has claimed the vacancy's job and still works on it.
Free(v) ==
    \A s \in Senders : cyc[s].pc \in Holding => cyc[s].v # v

Undecided  == {"review", "selected", "letter_draft"}
Unanswered == {"fetch", "submit", "reconcile"}

\* What the status of a vacancy says of its job and of the cycles.
RowAgrees(v) ==
    /\ pipe[v].status \in Undecided => NoActiveJob(v) /\ Free(v)
    /\ pipe[v].status \in {"approved", "queued_to_send"} =>
          (NoActiveJob(v) => Free(v))
    /\ pipe[v].status \in {"send_error", "sent"} =>
          job[v].status # "queued" /\ Free(v)

\* What a request can still rely on: "archived" is where enrich() may have put
\* the vacancy since the request read it.
TurnAgrees(c) ==
    LET v  == req[c].v
        st == pipe[v].status
    IN  /\ req[c].pc = "approve" => st \in Undecided \union {"archived"}
        /\ req[c].pc \in {"save_check", "save_write", "queue_job", "queue_put",
                          "queue_move"} => st \in {"approved", "archived"}
        /\ req[c].pc = "save_write" => NoActiveJob(v)
        /\ req[c].pc \in {"queue_job", "queue_put"} =>
              (NoActiveJob(v) => Free(v))
        /\ req[c].pc = "queue_put" => req[c].seen \in {"none", "cancelled"}
        /\ req[c].pc = "queue_undo" => st = "archived"
        /\ req[c].pc \in {"cancel_job", "cancel_move"} =>
              st \in {"queued_to_send", "sent", "send_error", "archived"}
        /\ req[c].pc = "cancel_move" => job[v].status = "cancelled"
        /\ req[c].pc \in {"reset_job", "reset_put", "reset_move", "reset_undo"} =>
              /\ st \in {"send_error", "archived"}
              /\ job[v].status # "queued"
              /\ Free(v)

\* A cycle holds the job it claimed, and from the approval check to the end of
\* the submit nothing is left that could take the job or the letter from it.
HoldsOn(s) ==
    LET v == cyc[s].v IN
    /\ cyc[s].target \in {"none", "archived", "send_error", "sent"}
    /\ cyc[s].pc \in Holding => cyc[s].gen = job[v].gen
    /\ cyc[s].pc = "snapshot" =>
          \/ job[v].status = "sending"
          \/ job[v].status = "cancelled" /\ pipe[v].status = "archived"
    /\ cyc[s].pc \in Unanswered =>
          /\ job[v].status = "sending"
          /\ pipe[v].status \in {"queued_to_send", "archived"}
          /\ \A c \in Clients :
                req[c].v = v => req[c].pc \notin {"queue_job", "queue_put",
                                                 "queue_move", "queue_undo"}
    /\ cyc[s].pc \in {"fetch", "submit"} =>
          pipe[v].draft = cyc[s].text /\ pipe[v].approved = cyc[s].text

\* No two cycles work on one vacancy.
HolderAlone ==
    \A s, t \in Senders :
        /\ cyc[s].pc \in Holding
        /\ cyc[t].pc \in Holding
        /\ cyc[s].v = cyc[t].v
        => s = t

\* What a cycle has seen answered is answered, and no cycle is about to post.
SettledInv ==
    /\ \A v \in settled : responded[v]
    /\ \A s \in Senders : cyc[s].pc = "submit" => cyc[s].v \notin settled

\* The inductive invariant of requests that take turns on a vacancy.
TurnsInv ==
    /\ \A v \in Vacancies : RowAgrees(v)
    /\ \A c \in Clients : TurnAgrees(c)
    /\ \A s \in Senders : HoldsOn(s)
    /\ HolderAlone
    /\ SettledInv
=============================================================================
