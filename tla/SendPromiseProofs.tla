------------------------- MODULE SendPromiseProofs -------------------------
(***************************************************************************)
(* SendQueue implements SendPromise: every statement of a request, a cycle *)
(* or hh is a step of the promise or leaves it as it is.  And what the     *)
(* sender promises beyond that when the requests on a vacancy take turns:  *)
(* the letter and the job stay as they are under a submit, and what hh has *)
(* confirmed is never posted again.                                        *)
(***************************************************************************)
EXTENDS SendQueueProofs

\* What the user is told was sent.
Recorded == {v \in Vacancies : pipe[v].status = "sent" \/ job[v].status = "sent"}

\* The promise's variables without the records.
Kept == approvals' = approvals /\ posts' = posts /\ responded' = responded
            /\ \A v \in Vacancies : job'[v].gen = job[v].gen

\* Records that are true after a step.
LEMMA RecordsTrue == SentIsTrue' => Promise!Truthful
BY DEF SentIsTrue, Promise!Truthful

\* A step that keeps approvals, generations and posts is one of the promise, or
\* leaves it alone, whatever it does to the records.
LEMMA KeptStep ==
    ASSUME TypeOK, SentIsTrue', Kept
    PROVE  Promise!Next
<1>1. PICK v \in Vacancies : TRUE
  BY SendQueueAssumption
<1>2. [w \in Vacancies |-> job'[w].gen] = [w \in Vacancies |-> job[w].gen]
  BY DEF Kept
<1>3. Promise!Elsewhere(v)
  BY <1>2 DEF Kept, Promise!Elsewhere, Promise!Answer
<1>4. QED
  BY <1>1, <1>3, RecordsTrue DEF Promise!Next

-----------------------------------------------------------------------------
(* Nobody posts for an enqueue that never was.                              *)

\* A queued job, and a job in the hands of a cycle, was put in the queue.
WasEnqueued ==
    /\ \A v \in Vacancies : job[v].status = "queued" => job[v].gen >= 1
    /\ \A s \in Senders : cyc[s].pc # "idle" => cyc[s].gen >= 1

\* A step that queues nothing and takes cycles forward keeps it.
LEMMA WasEnqueuedQuiet == TypeOK /\ WasEnqueued /\ Quiet => WasEnqueued'
<1> SUFFICES ASSUME TypeOK, WasEnqueued, Quiet
             PROVE  WasEnqueued'
  OBVIOUS
<1> USE Fields
<1>1. (\A v \in Vacancies : job[v].status = "queued" => job[v].gen >= 1)'
  BY DEF WasEnqueued, Quiet, JobKept
<1>2. (\A s \in Senders : cyc[s].pc # "idle" => cyc[s].gen >= 1)'
  BY DEF WasEnqueued, Quiet, CyclesKept, CycleKept, Holding
<1>3. QED
  BY <1>1, <1>2 DEF WasEnqueued

\* So do the other six.
LEMMA WasEnqueuedLoud == TypeOK /\ WasEnqueued /\ LoudStep => WasEnqueued'
<1> SUFFICES ASSUME TypeOK, WasEnqueued, LoudStep
             PROVE  WasEnqueued'
  OBVIOUS
<1> USE Fields
<1>1. CASE Quiet
  BY <1>1, WasEnqueuedQuiet
<1>2. ASSUME UNCHANGED cyc,
             \A v \in Vacancies : /\ job'[v].status = job[v].status
                                  /\ job'[v].gen = job[v].gen
      PROVE  WasEnqueued'
  BY <1>2 DEF WasEnqueued
<1>3. ASSUME UNCHANGED cyc, NEW v \in Vacancies,
             \A w \in Vacancies \ {v} : job'[w] = job[w],
             job'[v].gen = job[v].gen + 1
      PROVE  WasEnqueued'
  BY <1>3 DEF WasEnqueued
<1>4. ASSUME UNCHANGED job, NEW s \in Senders, NEW v \in Vacancies,
             \A t \in Senders \ {s} : cyc'[t] = cyc[t],
             job[v].status = "queued", cyc'[s].gen = job[v].gen
      PROVE  WasEnqueued'
  BY <1>4 DEF WasEnqueued
<1>5. ASSUME JobKept, NEW s \in Senders,
             \A t \in Senders \ {s} : cyc'[t] = cyc[t],
             cyc[s].pc = "claim", cyc'[s].gen = cyc[s].gen
      PROVE  WasEnqueued'
  BY <1>5 DEF WasEnqueued, JobKept
<1>6. ASSUME UNCHANGED job, CyclesKept
      PROVE  WasEnqueued'
  BY <1>6 DEF WasEnqueued, CyclesKept, CycleKept, Holding
<1>7. QED
  BY <1>1, <1>2, <1>3, <1>4, <1>5, <1>6, LoudEffect

-----------------------------------------------------------------------------
(* What each step does to the promise's variables.                          *)

\* The steps that change them, or may.
Telling ==
    \/ \E c \in Clients : ApproveWrite(c) \/ QueuePut(c)
    \/ \E s \in Senders : SubmitAccepted(s) \/ SubmitUncertain(s)
    \/ \E v \in Vacancies : LateResponse(v) \/ RespondElsewhere(v)

\* All others leave approvals, posts and hh alone.
LEMMA HistoryKept ==
    [Next]_vars => Telling \/ UNCHANGED <<approvals, posts, responded>>
<1> SUFFICES ASSUME [Next]_vars
             PROVE  Telling \/ UNCHANGED <<approvals, posts, responded>>
  OBVIOUS
<1> USE DEF rows, hh, hist
<1>1. ASSUME NEW v \in Vacancies, UserStep(v)
      PROVE  UNCHANGED <<approvals, posts, responded>>
  BY <1>1 DEF UserStep, Decide, EnrichArchive, GenerateDraft, SaveDraft
<1>2. ASSUME NEW c \in Clients, NEW v \in Vacancies, StartRequest(c, v)
      PROVE  UNCHANGED <<approvals, posts, responded>>
  BY <1>2 DEF StartRequest, StartSaveApproved, StartApprove, StartQueue,
              StartCancel, StartReset
<1>3. ASSUME NEW c \in Clients, RequestNext(c) \/ CrashRequest(c)
      PROVE  Telling \/ UNCHANGED <<approvals, posts, responded>>
  BY <1>3 DEF RequestNext, CrashRequest, SaveCheckJob, SaveApproved,
              QueueReadJob, QueueMove, QueueUndo, CancelJob, CancelMove,
              ResetReadJob, ResetPut, ResetMove, ResetUndo, Telling
<1>4. ASSUME NEW s \in Senders, CycleNext(s) \/ CrashCycle(s)
      PROVE  Telling \/ UNCHANGED <<approvals, posts, responded>>
  BY <1>4 DEF CycleNext, CrashCycle, Claim, Snapshot, FetchFails, CycleRaises,
              FetchResponded, FetchHasTest, FetchClear, SubmitBlocked,
              ReconcileSent, ReconcileFailed, Finish, Move, Telling
<1>5. ASSUME CreateBatch
      PROVE  UNCHANGED <<approvals, posts, responded>>
  BY <1>5 DEF CreateBatch
<1>6. ASSUME NEW s \in Senders, NEW b \in 1..MaxBatches, NEW v \in Vacancies,
             NextJob(s, b, v)
      PROVE  UNCHANGED <<approvals, posts, responded>>
  BY <1>6 DEF NextJob
<1>7. CASE UNCHANGED vars
  BY <1>7 DEF vars
<1>8. QED
  BY <1>1, <1>2, <1>3, <1>4, <1>5, <1>6, <1>7 DEF Next, Telling

\* Only queue_approved makes a job older.
LEMMA GenerationsKept ==
    ASSUME TypeOK, RoleInv, [Next]_vars
    PROVE  \/ \E c \in Clients : QueuePut(c)
           \/ \A v \in Vacancies : job'[v].gen = job[v].gen
<1> USE DEF rows
<1>1. CASE Quiet
  BY <1>1 DEF Quiet, JobKept
<1>2. CASE CreateBatch
  BY <1>2 DEF CreateBatch
<1>3. ASSUME NEW s \in Senders, NEW b \in 1..MaxBatches, NEW v \in Vacancies,
             NextJob(s, b, v)
      PROVE  job' = job
  BY <1>3 DEF NextJob
<1>4. ASSUME NEW s \in Senders, Claim(s)
      PROVE  \A v \in Vacancies : job'[v].gen = job[v].gen
  BY <1>4, Fields, JobWithEffect DEF Claim, JobKept
<1>5. ASSUME NEW s \in Senders, SubmitAccepted(s) \/ SubmitUncertain(s)
      PROVE  job' = job
  BY <1>5 DEF SubmitAccepted, SubmitUncertain
<1>6. QED
  BY <1>1, <1>2, <1>3, <1>4, <1>5, QuietOrLoud DEF LoudStep

-----------------------------------------------------------------------------
(* The refinement.                                                          *)

\* approve_letter's second statement.
LEMMA ApproveStep ==
    ASSUME TypeOK, SentIsTrue', NEW c \in Clients, ApproveWrite(c)
    PROVE  Promise!Next
<1>1. CASE UNCHANGED approvals
  BY <1>1, KeptStep DEF ApproveWrite, Kept, hh
<1>2. CASE approvals' = [approvals EXCEPT ![req[c].v] = @ \union {req[c].text}]
  <2>1. req[c].v \in Vacancies /\ req[c].text \in Letter
    BY Fields
  <2>2. UNCHANGED <<job, posts, responded>>
    BY DEF ApproveWrite, hh
  <2>3. Promise!Approve(req[c].v)
    BY <1>2, <2>1, <2>2 DEF Promise!Approve
  <2>4. QED
    BY <2>1, <2>3, RecordsTrue DEF Promise!Next
<1>3. QED
  BY <1>1, <1>2 DEF ApproveWrite

\* queue_approved's INSERT or UPDATE.
LEMMA EnqueueStep ==
    ASSUME TypeOK, SentIsTrue', NEW c \in Clients, QueuePut(c)
    PROVE  Promise!Next
<1>1. UNCHANGED <<approvals, posts, responded>>
  BY DEF QueuePut, hh, hist
<1>2. CASE UNCHANGED job
  BY <1>1, <1>2, KeptStep DEF Kept
<1>3. CASE job' = Enqueued(req[c].v, req[c].text)
  <2>1. PICK v \in Vacancies : v = req[c].v
    BY Fields
  <2>2. /\ \A w \in Vacancies \ {v} : job'[w] = job[w]
        /\ job'[v].gen = job[v].gen + 1
    BY <1>3, <2>1, EnqueuedEffect
  <2>3. [w \in Vacancies |-> job'[w].gen] =
          [[w \in Vacancies |-> job[w].gen] EXCEPT ![v] = @ + 1]
    BY <2>2
  <2>4. Promise!Enqueue(v)
    BY <1>1, <2>3 DEF Promise!Enqueue
  <2>5. QED
    BY <2>4, RecordsTrue DEF Promise!Next
<1>4. QED
  BY <1>2, <1>3 DEF QueuePut

\* The POST: its text is approved, and its enqueue had none before.
LEMMA SendStep ==
    ASSUME SendInv, WasEnqueued, SentIsTrue', NEW s \in Senders,
           SubmitAccepted(s) \/ SubmitUncertain(s)
    PROVE  Promise!Next
<1> DEFINE v == cyc[s].v
           n == cyc[s].gen
           t == cyc[s].text
<1>1. /\ TypeOK /\ cyc[s].pc = "submit" /\ Post(s)
      /\ UNCHANGED <<job, approvals>>
  BY DEF SendInv, SubmitAccepted, SubmitUncertain, rows
<1>2. responded' \in {responded, [responded EXCEPT ![v] = TRUE]}
  BY DEF SubmitAccepted, SubmitUncertain, hh
<1>3. v \in Vacancies /\ n \in Nat /\ job[v].gen \in Nat
  BY <1>1, Fields
<1>4. t \in approvals[v]
  BY <1>1 DEF SendInv, ApprovalInv
<1>5. n \in 1..[w \in Vacancies |-> job[w].gen][v]
  BY <1>1, <1>3 DEF SendInv, GenInv, HoldInv, Holding, WasEnqueued
<1>6. \A i \in DOMAIN posts[v] : posts[v][i].gen # n
  <2>1. DOMAIN posts[v] = 1..Len(posts[v])
    BY <1>1, <1>3 DEF TypeOK
  <2>2. QED
    BY <1>1, <2>1 DEF SendInv, GenInv, PostInv, PrePost
<1>7. posts' = [posts EXCEPT ![v] = Append(@, [gen |-> n, text |-> t])]
  BY <1>1 DEF Post
<1>8. Promise!Send(v)
  BY <1>1, <1>2, <1>4, <1>5, <1>6, <1>7 DEF Promise!Send, Promise!Answer
<1>9. QED
  BY <1>3, <1>8, RecordsTrue DEF Promise!Next

\* A response appears on hh.
LEMMA AnswerStep ==
    ASSUME SentIsTrue', NEW v \in Vacancies,
           LateResponse(v) \/ RespondElsewhere(v)
    PROVE  Promise!Next
<1>1. /\ responded' = [responded EXCEPT ![v] = TRUE]
      /\ UNCHANGED <<job, approvals, posts>>
  BY DEF LateResponse, RespondElsewhere, rows, hist
<1>2. Promise!Elsewhere(v)
  BY <1>1 DEF Promise!Elsewhere, Promise!Answer
<1>3. QED
  BY <1>2, RecordsTrue DEF Promise!Next

\* Every step of the queue is a step of the promise.
LEMMA PromiseStep ==
    SendInv /\ WasEnqueued /\ SentIsTrue' /\ [Next]_vars => Promise!Next
<1> SUFFICES ASSUME SendInv, WasEnqueued, SentIsTrue', [Next]_vars
             PROVE  Promise!Next
  OBVIOUS
<1>1. TypeOK /\ RoleInv
  BY DEF SendInv
<1>2. CASE Telling
  BY <1>1, <1>2, ApproveStep, EnqueueStep, SendStep, AnswerStep DEF Telling
<1>3. CASE ~Telling
  <2>1. UNCHANGED <<approvals, posts, responded>>
    BY <1>3, HistoryKept
  <2>2. \A v \in Vacancies : job'[v].gen = job[v].gen
    BY <1>1, <1>3, GenerationsKept DEF Telling
  <2>3. QED
    BY <1>1, <2>1, <2>2, KeptStep DEF Kept
<1>4. QED
  BY <1>2, <1>3

\* The implementation theorem: approval requests, the queue with its
\* compensations, overlapping cycles and crashes keep the promise.
THEOREM QueueKeepsPromise == Spec => KeepsPromise
<1>1. Init => Promise!Init
  <2> SUFFICES ASSUME Init PROVE Promise!Init
    OBVIOUS
  <2>1. [v \in Vacancies |-> job[v].gen] = [v \in Vacancies |-> 0]
    BY DEF Init, NoJob
  <2>2. {v \in Vacancies : pipe[v].status = "sent" \/ job[v].status = "sent"} = {}
    BY DEF Init, NoJob
  <2>3. QED
    BY <2>1, <2>2 DEF Init, Promise!Init
<1>2. Init => WasEnqueued
  BY DEF Init, WasEnqueued, NoJob, IdleCycle
<1>3. SendInv /\ WasEnqueued /\ [Next]_vars => WasEnqueued'
  BY QuietOrLoud, WasEnqueuedQuiet, WasEnqueuedLoud DEF SendInv
<1>4. SendInv => SentIsTrue
  BY DEF SendInv, SentInv
<1>5. SendInv /\ WasEnqueued /\ SentIsTrue' /\ [Next]_vars
        => [Promise!Next]_(Promise!vars)
  BY PromiseStep
<1>6. QED
  BY <1>1, <1>2, <1>3, <1>4, <1>5, Invariance, PTL
     DEF Spec, KeepsPromise, Promise!Spec

-----------------------------------------------------------------------------
(* Requests that take turns.                                                *)

\* The facts a step starts from.
Ready == SendInv /\ TurnsInv /\ TakeTurns

LEMMA ReadyParts ==
    ASSUME Ready
    PROVE  /\ TypeOK /\ RoleInv /\ GenInv
           /\ \A v \in Vacancies : RowAgrees(v)
           /\ \A c \in Clients : TurnAgrees(c)
           /\ \A s \in Senders : HoldsOn(s)
           /\ HolderAlone /\ SettledInv /\ TakeTurns
  BY DEF Ready, SendInv, TurnsInv

\* A job that is queued is in no cycle's hands.
LEMMA QueuedIsFree ==
    ASSUME Ready, NEW v \in Vacancies, job[v].status = "queued"
    PROVE  Free(v)
<1>1. ASSUME NEW s \in Senders, cyc[s].pc \in Holding, cyc[s].v = v
      PROVE  FALSE
  <2>1. cyc[s].gen = job[v].gen
    BY <1>1, ReadyParts DEF HoldsOn, HolderAlone
  <2>2. job[v].status # "queued"
    BY <1>1, <2>1, ReadyParts DEF GenInv, HoldInv
  <2>3. QED
    BY <2>2
<1>2. QED
  BY <1>1 DEF Free

-----------------------------------------------------------------------------
(* Steps of the user and of hh, and Resume.                                 *)

\* Rows are as they were, or archived, or still undecided.
RowsGoOn ==
    /\ UNCHANGED <<req, cyc, settled>>
    /\ \A v \in Vacancies :
          /\ responded[v] => responded'[v]
          /\ job'[v].status = job[v].status
          /\ job'[v].gen = job[v].gen
          /\ \/ pipe'[v] = pipe[v]
             \/ /\ pipe'[v].status = "archived"
                /\ pipe'[v].draft = pipe[v].draft
                /\ pipe'[v].approved = pipe[v].approved
             \/ /\ pipe[v].status \in Undecided
                /\ pipe'[v].status \in Undecided

LEMMA RowsGoOnTurns == Ready /\ RowsGoOn => TurnsInv'
<1> SUFFICES ASSUME Ready, RowsGoOn
             PROVE  TurnsInv'
  OBVIOUS
<1> USE ReadyParts, Fields DEF RowsGoOn
<1>1. \A v \in Vacancies : Free(v)' <=> Free(v)
  BY DEF Free
<1>2. \A v \in Vacancies : NoActiveJob(v)' <=> NoActiveJob(v)
  BY DEF NoActiveJob
<1>3. (\A v \in Vacancies : RowAgrees(v))'
  BY <1>1, <1>2 DEF RowAgrees, Undecided
<1>4. (\A c \in Clients : TurnAgrees(c))'
  BY <1>1, <1>2 DEF TurnAgrees, Undecided
<1>5. ((\A s \in Senders : HoldsOn(s)) /\ HolderAlone)'
  BY DEF HoldsOn, HolderAlone, Undecided, Unanswered
<1>6. SettledInv'
  BY DEF SettledInv, TypeOK
<1>7. QED
  BY <1>3, <1>4, <1>5, <1>6 DEF TurnsInv

LEMMA UserGoesOn ==
    ASSUME Ready, NEW v \in Vacancies,
           UserStep(v) \/ LateResponse(v) \/ RespondElsewhere(v)
    PROVE  RowsGoOn
<1> USE ReadyParts DEF rows, hh, hist
<1>1. CASE Decide(v)
  BY <1>1, PipeEffect DEF Decide, RowsGoOn, Undecided
<1>2. CASE EnrichArchive(v)
  BY <1>2, PipeEffect DEF EnrichArchive, RowsGoOn
<1>3. CASE GenerateDraft(v)
  BY <1>3, PipeEffect DEF GenerateDraft, RowsGoOn, Undecided
<1>4. CASE SaveDraft(v)
  BY <1>4, PipeEffect DEF SaveDraft, RowsGoOn, Undecided
<1>5. CASE LateResponse(v)
  BY <1>5, RespondedEffect DEF LateResponse, RowsGoOn
<1>6. CASE RespondElsewhere(v)
  BY <1>6, RespondedEffect DEF RespondElsewhere, RowsGoOn
<1>7. QED
  BY <1>1, <1>2, <1>3, <1>4, <1>5, <1>6 DEF UserStep

LEMMA ResumeGoesOn == Ready /\ CreateBatch => RowsGoOn
<1> SUFFICES ASSUME Ready, CreateBatch
             PROVE  RowsGoOn
  OBVIOUS
<1>1. \A v \in Vacancies : job'[v].status = job[v].status
                           /\ job'[v].gen = job[v].gen
  BY ReadyParts DEF CreateBatch, TypeOK
<1>2. QED
  BY <1>1 DEF CreateBatch, RowsGoOn, rows, hh, hist

-----------------------------------------------------------------------------
(* Requests.                                                                *)

\* A request that ends, or whose process dies, leaves nothing behind.
LEMMA EndedTurns ==
    ASSUME Ready, NEW c \in Clients, Done(c),
           UNCHANGED <<pipe, job, cyc, responded, settled>>
    PROVE  TurnsInv'
<1> USE ReadyParts, Fields, RequestEffect
<1>1. /\ \A d \in Clients \ {c} : req'[d] = req[d]
      /\ req'[c].pc = "idle"
  OBVIOUS
<1>2. /\ \A v \in Vacancies : Free(v)' <=> Free(v)
      /\ \A v \in Vacancies : NoActiveJob(v)' <=> NoActiveJob(v)
  BY DEF Free, NoActiveJob
<1>3. (\A v \in Vacancies : RowAgrees(v))'
  BY <1>2 DEF RowAgrees
<1>4. (\A d \in Clients : TurnAgrees(d))'
  BY <1>1, <1>2 DEF TurnAgrees
<1>5. ((\A s \in Senders : HoldsOn(s)) /\ HolderAlone)'
  BY <1>1 DEF HoldsOn, HolderAlone, Unanswered
<1>6. SettledInv'
  BY DEF SettledInv
<1>7. QED
  BY <1>3, <1>4, <1>5, <1>6 DEF TurnsInv

\* A request that starts relies on the status it has just read.
LEMMA StartedTurns ==
    ASSUME Ready, NEW c \in Clients, NEW v \in Vacancies, StartRequest(c, v)
    PROVE  TurnsInv'
<1> USE ReadyParts, Fields DEF rows, hh, hist
<1>1. UNCHANGED <<pipe, job, cyc, responded, settled>>
  BY DEF StartRequest, StartSaveApproved, StartApprove, StartQueue,
         StartCancel, StartReset
<1>2. /\ \A d \in Clients \ {c} : req'[d] = req[d]
      /\ req'[c].v = v
      /\ \/ req'[c].pc = "save_check" /\ pipe[v].status = "approved"
         \/ req'[c].pc = "approve" /\ pipe[v].status = "letter_draft"
         \/ req'[c].pc = "queue_job" /\ pipe[v].status = "approved"
         \/ req'[c].pc = "cancel_job" /\ pipe[v].status = "queued_to_send"
         \/ req'[c].pc = "reset_job" /\ pipe[v].status = "send_error"
  <2>1. CASE StartSaveApproved(c, v)
    BY <2>1, RequestEffect DEF StartSaveApproved
  <2>2. CASE StartApprove(c, v)
    BY <2>2, RequestEffect DEF StartApprove
  <2>3. CASE StartQueue(c, v)
    BY <2>3, RequestEffect DEF StartQueue
  <2>4. CASE StartCancel(c, v)
    BY <2>4, RequestEffect DEF StartCancel
  <2>5. CASE StartReset(c, v)
    BY <2>5, RequestEffect DEF StartReset
  <2>6. QED
    BY <2>1, <2>2, <2>3, <2>4, <2>5 DEF StartRequest
<1>3. /\ \A w \in Vacancies : Free(w)' <=> Free(w)
      /\ \A w \in Vacancies : NoActiveJob(w)' <=> NoActiveJob(w)
  BY <1>1 DEF Free, NoActiveJob
<1>4. (\A w \in Vacancies : RowAgrees(w))'
  BY <1>1, <1>3 DEF RowAgrees
<1>5. (\A d \in Clients : TurnAgrees(d))'
  BY <1>1, <1>2, <1>3 DEF TurnAgrees, RowAgrees, Undecided
<1>6. ((\A s \in Senders : HoldsOn(s)) /\ HolderAlone)'
  <2>1. ASSUME NEW s \in Senders, cyc[s].pc \in Unanswered, cyc[s].v = v
        PROVE  req'[c].pc # "queue_job"
    BY <1>2, <2>1 DEF HoldsOn, HolderAlone
  <2>2. QED
    BY <1>1, <1>2, <2>1 DEF HoldsOn, HolderAlone, Unanswered
<1>7. SettledInv'
  BY <1>1 DEF SettledInv
<1>8. QED
  BY <1>4, <1>5, <1>6, <1>7 DEF TurnsInv

\* A request that reads the job row goes on with what it has seen.
LEMMA ReadTurns ==
    ASSUME Ready, NEW c \in Clients,
           SaveCheckJob(c) \/ QueueReadJob(c) \/ ResetReadJob(c)
    PROVE  TurnsInv'
<1> USE ReadyParts, Fields DEF rows, hh, hist
<1>1. UNCHANGED <<pipe, job, cyc, responded, settled>>
  BY DEF SaveCheckJob, QueueReadJob, ResetReadJob
<1>2. CASE Done(c)
  BY <1>1, <1>2, EndedTurns
<1>3. CASE ~Done(c)
  <2>1. /\ \A d \in Clients \ {c} : req'[d] = req[d]
        /\ req'[c].v = req[c].v
        /\ \/ /\ req[c].pc = "save_check" /\ req'[c].pc = "save_write"
              /\ NoActiveJob(req[c].v)
           \/ /\ req[c].pc = "queue_job" /\ req'[c].pc = "queue_put"
              /\ NoActiveJob(req[c].v)
              /\ req'[c].seen = job[req[c].v].status
           \/ req[c].pc = "reset_job" /\ req'[c].pc = "reset_put"
    <3>1. CASE SaveCheckJob(c)
      BY <1>3, <3>1, RequestEffect DEF SaveCheckJob
    <3>2. CASE QueueReadJob(c)
      BY <1>3, <3>2, RequestEffect DEF QueueReadJob
    <3>3. CASE ResetReadJob(c)
      BY <1>3, <3>3, RequestEffect DEF ResetReadJob
    <3>4. QED
      BY <3>1, <3>2, <3>3
  <2>2. /\ \A w \in Vacancies : Free(w)' <=> Free(w)
        /\ \A w \in Vacancies : NoActiveJob(w)' <=> NoActiveJob(w)
    BY <1>1 DEF Free, NoActiveJob
  <2>3. (\A v \in Vacancies : RowAgrees(v))'
    BY <1>1, <2>2 DEF RowAgrees
  <2>4. (\A d \in Clients : TurnAgrees(d))'
    BY <1>1, <2>1, <2>2 DEF TurnAgrees, NoActiveJob
  <2>5. ((\A s \in Senders : HoldsOn(s)) /\ HolderAlone)'
    BY <1>1, <2>1 DEF HoldsOn, HolderAlone, Unanswered
  <2>6. SettledInv'
    BY <1>1 DEF SettledInv
  <2>7. QED
    BY <2>3, <2>4, <2>5, <2>6 DEF TurnsInv
<1>4. QED
  BY <1>2, <1>3

\* The other requests on a vacancy are idle while one is in progress.
LEMMA OthersIdle ==
    ASSUME Ready, NEW c \in Clients, req[c].pc # "idle",
           NEW d \in Clients \ {c}, req[d].v = req[c].v
    PROVE  req[d].pc = "idle"
  BY ReadyParts DEF TakeTurns

\* A request's write to one vacancy concerns that vacancy, that request and the
\* cycle that holds the vacancy's job.
LEMMA WriteTurns ==
    ASSUME Ready, NEW c \in Clients, NEW v \in Vacancies,
           v = req[c].v, req[c].pc # "idle",
           UNCHANGED <<cyc, responded, settled>>,
           \A d \in Clients \ {c} : req'[d] = req[d],
           \A w \in Vacancies \ {v} : pipe'[w] = pipe[w] /\ job'[w] = job[w],
           req'[c].pc = "idle" \/ req'[c].v = v,
           job'[v].gen = job[v].gen \/ Free(v),
           RowAgrees(v)', TurnAgrees(c)',
           \A s \in Senders : cyc[s].v = v => HoldsOn(s)'
    PROVE  TurnsInv'
<1> USE ReadyParts, Fields
<1>1. /\ \A w \in Vacancies : Free(w)' <=> Free(w)
      /\ \A w \in Vacancies \ {v} : NoActiveJob(w)' <=> NoActiveJob(w)
  BY DEF Free, NoActiveJob
<1>2. ASSUME NEW w \in Vacancies
      PROVE  RowAgrees(w)'
  BY <1>1 DEF RowAgrees
<1>3. ASSUME NEW d \in Clients
      PROVE  TurnAgrees(d)'
  <2>1. CASE d = c
    BY <2>1
  <2>2. CASE d # c /\ req[d].v = v
    <3>1. req'[d].pc = "idle"
      BY <2>2, OthersIdle
    <3>2. QED
      BY <3>1 DEF TurnAgrees
  <2>3. CASE d # c /\ req[d].v # v
    BY <1>1, <2>3 DEF TurnAgrees
  <2>4. QED
    BY <2>1, <2>2, <2>3
<1>4. ASSUME NEW s \in Senders
      PROVE  HoldsOn(s)'
  <2>1. CASE cyc[s].v = v
    BY <2>1
  <2>2. CASE cyc[s].v # v
    BY <2>2 DEF HoldsOn
  <2>3. QED
    BY <2>1, <2>2
<1>5. HolderAlone' /\ SettledInv'
  BY DEF HolderAlone, SettledInv
<1>6. QED
  BY <1>2, <1>3, <1>4, <1>5 DEF TurnsInv

\* save_draft() of an approved letter.
LEMMA SaveTurns ==
    ASSUME Ready, NEW c \in Clients, SaveApproved(c)
    PROVE  TurnsInv'
<1> USE ReadyParts, Fields DEF rows, hh, hist
<1>1. PICK v \in Vacancies : v = req[c].v
  OBVIOUS
<1>2. /\ req[c].pc = "save_write"
      /\ req'[c].pc = "idle"
      /\ \A d \in Clients \ {c} : req'[d] = req[d]
      /\ UNCHANGED <<job, cyc, responded, settled>>
  BY RequestEffect DEF SaveApproved
<1>3. \/ pipe' = pipe
      \/ /\ pipe[v].status = "approved"
         /\ pipe'[v].status = "letter_draft"
         /\ \A w \in Vacancies \ {v} : pipe'[w] = pipe[w]
  BY <1>1, PipeEffect DEF SaveApproved
<1>4. NoActiveJob(v) /\ (Free(v)' <=> Free(v)) /\ (NoActiveJob(v)' <=> NoActiveJob(v))
  BY <1>1, <1>2 DEF TurnAgrees, Free, NoActiveJob
<1>5. RowAgrees(v)'
  BY <1>3, <1>4, <1>2 DEF RowAgrees, Undecided
<1>6. TurnAgrees(c)'
  BY <1>2 DEF TurnAgrees
<1>7. ASSUME NEW s \in Senders, cyc[s].v = v
      PROVE  HoldsOn(s)'
  BY <1>2, <1>3, <1>4, <1>7 DEF HoldsOn, Unanswered, NoActiveJob
<1>8. QED
  BY <1>1, <1>2, <1>3, <1>5, <1>6, <1>7, WriteTurns

\* approve_letter().
LEMMA ApproveTurns ==
    ASSUME Ready, NEW c \in Clients, ApproveWrite(c)
    PROVE  TurnsInv'
<1> USE ReadyParts, Fields DEF rows, hh, hist
<1>1. PICK v \in Vacancies : v = req[c].v
  OBVIOUS
<1>2. /\ req[c].pc = "approve"
      /\ req'[c].pc = "idle"
      /\ \A d \in Clients \ {c} : req'[d] = req[d]
      /\ UNCHANGED <<job, cyc, responded, settled>>
  BY RequestEffect DEF ApproveWrite
<1>3. \/ pipe' = pipe
      \/ /\ pipe[v].status = "letter_draft"
         /\ pipe'[v].status = "approved"
         /\ \A w \in Vacancies \ {v} : pipe'[w] = pipe[w]
  BY <1>1, PipeEffect DEF ApproveWrite
<1>4. (Free(v)' <=> Free(v)) /\ (NoActiveJob(v)' <=> NoActiveJob(v))
  BY <1>2 DEF Free, NoActiveJob
<1>5. RowAgrees(v)'
  BY <1>3, <1>4, <1>2 DEF RowAgrees, Undecided
<1>6. TurnAgrees(c)'
  BY <1>2 DEF TurnAgrees
<1>7. ASSUME NEW s \in Senders, cyc[s].v = v
      PROVE  HoldsOn(s)'
  BY <1>2, <1>3, <1>7 DEF HoldsOn, Unanswered, RowAgrees, Undecided, NoActiveJob
<1>8. QED
  BY <1>1, <1>2, <1>3, <1>5, <1>6, <1>7, WriteTurns

\* queue_approved() puts the job in the queue.
LEMMA PutTurns ==
    ASSUME Ready, NEW c \in Clients, QueuePut(c)
    PROVE  TurnsInv'
<1> USE ReadyParts, Fields DEF rows, hh, hist
<1>1. CASE job[req[c].v].status # req[c].seen
  BY <1>1, EndedTurns DEF QueuePut
<1>2. CASE job[req[c].v].status = req[c].seen
  <2>1. PICK v \in Vacancies : v = req[c].v
    OBVIOUS
  <2>2. /\ req[c].pc = "queue_put"
        /\ req'[c].pc = "queue_move"
        /\ req'[c].v = v
        /\ \A d \in Clients \ {c} : req'[d] = req[d]
        /\ UNCHANGED <<pipe, cyc, responded, settled>>
        /\ job[v].status = req[c].seen
    BY <1>2, <2>1, RequestEffect DEF QueuePut
  <2>3. /\ \A w \in Vacancies \ {v} : job'[w] = job[w]
        /\ job'[v].status = "queued"
    BY <1>2, <2>1, EnqueuedEffect DEF QueuePut
  <2>4. NoActiveJob(v)
    BY <2>1, <2>2 DEF TurnAgrees, NoActiveJob
  <2>5. Free(v) /\ (Free(v)' <=> Free(v))
    BY <2>1, <2>2, <2>4 DEF TurnAgrees, Free
  <2>6. pipe[v].status \in {"approved", "archived"}
    BY <2>1, <2>2 DEF TurnAgrees
  <2>7. RowAgrees(v)'
    BY <2>2, <2>3, <2>6 DEF RowAgrees, Undecided, NoActiveJob
  <2>8. TurnAgrees(c)'
    BY <2>2, <2>6 DEF TurnAgrees
  <2>9. ASSUME NEW s \in Senders, cyc[s].v = v
        PROVE  HoldsOn(s)'
    BY <2>2, <2>5, <2>9 DEF HoldsOn, Unanswered, Free, Holding
  <2>10. QED
    BY <2>1, <2>2, <2>3, <2>5, <2>7, <2>8, <2>9, WriteTurns
<1>3. QED
  BY <1>1, <1>2

\* queue_approved() moves the vacancy, or goes on to its compensation.
LEMMA MoveTurns ==
    ASSUME Ready, NEW c \in Clients, QueueMove(c)
    PROVE  TurnsInv'
<1> USE ReadyParts, Fields DEF rows, hh, hist
<1>1. PICK v \in Vacancies : v = req[c].v
  OBVIOUS
<1>2. /\ req[c].pc = "queue_move"
      /\ \A d \in Clients \ {c} : req'[d] = req[d]
      /\ UNCHANGED <<job, cyc, responded, settled>>
      /\ \/ req'[c].pc = "idle"
         \/ /\ req'[c].pc = "queue_undo" /\ req'[c].v = v
            /\ pipe' = pipe
            /\ pipe[v].status # "approved"
  BY <1>1, RequestEffect DEF QueueMove, Moved
<1>3. \/ pipe' = pipe
      \/ /\ pipe[v].status = "approved"
         /\ pipe'[v].status = "queued_to_send"
         /\ \A w \in Vacancies \ {v} : pipe'[w] = pipe[w]
  BY <1>1, PipeEffect DEF QueueMove
<1>4. (Free(v)' <=> Free(v)) /\ (NoActiveJob(v)' <=> NoActiveJob(v))
  BY <1>2 DEF Free, NoActiveJob
<1>5. RowAgrees(v)'
  BY <1>2, <1>3, <1>4 DEF RowAgrees, Undecided
<1>6. TurnAgrees(c)'
  BY <1>1, <1>2 DEF TurnAgrees
<1>7. ASSUME NEW s \in Senders, cyc[s].v = v
      PROVE  HoldsOn(s)'
  <2>1. cyc[s].pc \notin Unanswered
    BY <1>1, <1>2, <1>7 DEF HoldsOn
  <2>2. QED
    BY <1>2, <1>3, <1>7, <2>1 DEF HoldsOn, Unanswered
<1>8. QED
  BY <1>1, <1>2, <1>3, <1>5, <1>6, <1>7, WriteTurns

\* queue_approved() compensates: the job is cancelled whatever it has become.
LEMMA UndoTurns ==
    ASSUME Ready, NEW c \in Clients, QueueUndo(c)
    PROVE  TurnsInv'
<1> USE ReadyParts, Fields DEF rows, hh, hist
<1>1. PICK v \in Vacancies : v = req[c].v
  OBVIOUS
<1>2. /\ req[c].pc = "queue_undo"
      /\ req'[c].pc = "idle"
      /\ \A d \in Clients \ {c} : req'[d] = req[d]
      /\ UNCHANGED <<pipe, cyc, responded, settled>>
  BY RequestEffect DEF QueueUndo
<1>3. /\ \A w \in Vacancies \ {v} : job'[w] = job[w]
      /\ job'[v].status = "cancelled"
      /\ job'[v].gen = job[v].gen
  BY <1>1, JobWithEffect DEF QueueUndo, JobKept
<1>4. pipe[v].status = "archived"
  BY <1>1, <1>2 DEF TurnAgrees
<1>5. RowAgrees(v)'
  BY <1>2, <1>4 DEF RowAgrees, Undecided
<1>6. TurnAgrees(c)'
  BY <1>2 DEF TurnAgrees
<1>7. ASSUME NEW s \in Senders, cyc[s].v = v
      PROVE  HoldsOn(s)'
  <2>1. cyc[s].pc \notin Unanswered
    BY <1>1, <1>2, <1>7 DEF HoldsOn
  <2>2. QED
    BY <1>2, <1>3, <1>4, <1>7, <2>1 DEF HoldsOn, Unanswered
<1>8. QED
  BY <1>1, <1>2, <1>3, <1>5, <1>6, <1>7, WriteTurns

\* cancel_queued() cancels a job nobody has claimed.
LEMMA CancelTurns ==
    ASSUME Ready, NEW c \in Clients, CancelJob(c)
    PROVE  TurnsInv'
<1> USE ReadyParts, Fields DEF rows, hh, hist
<1>1. CASE ~Cancellable(req[c].v)
  BY <1>1, EndedTurns DEF CancelJob
<1>2. CASE Cancellable(req[c].v)
  <2>1. PICK v \in Vacancies : v = req[c].v
    OBVIOUS
  <2>2. /\ req[c].pc = "cancel_job"
        /\ req'[c].pc = "cancel_move"
        /\ req'[c].v = v
        /\ \A d \in Clients \ {c} : req'[d] = req[d]
        /\ UNCHANGED <<pipe, cyc, responded, settled>>
        /\ job[v].status = "queued"
    BY <1>2, <2>1, RequestEffect DEF CancelJob, Cancellable
  <2>3. /\ \A w \in Vacancies \ {v} : job'[w] = job[w]
        /\ job'[v].status = "cancelled"
        /\ job'[v].gen = job[v].gen
    BY <1>2, <2>1, JobWithEffect DEF CancelJob, JobKept
  <2>4. Free(v) /\ (Free(v)' <=> Free(v))
    BY <2>2, QueuedIsFree DEF Free
  <2>5. pipe[v].status \in {"queued_to_send", "sent", "send_error", "archived"}
    BY <2>1, <2>2 DEF TurnAgrees
  <2>6. RowAgrees(v)'
    BY <2>2, <2>3, <2>4, <2>5 DEF RowAgrees, Undecided
  <2>7. TurnAgrees(c)'
    BY <2>2, <2>3, <2>5 DEF TurnAgrees
  <2>8. ASSUME NEW s \in Senders, cyc[s].v = v
        PROVE  HoldsOn(s)'
    BY <2>2, <2>4, <2>8 DEF HoldsOn, Unanswered, Free, Holding
  <2>9. QED
    BY <2>1, <2>2, <2>3, <2>6, <2>7, <2>8, WriteTurns
<1>3. QED
  BY <1>1, <1>2

\* cancel_queued() takes the vacancy back to the approval.
LEMMA BackTurns ==
    ASSUME Ready, NEW c \in Clients, CancelMove(c)
    PROVE  TurnsInv'
<1> USE ReadyParts, Fields DEF rows, hh, hist
<1>1. PICK v \in Vacancies : v = req[c].v
  OBVIOUS
<1>2. /\ req[c].pc = "cancel_move"
      /\ req'[c].pc = "idle"
      /\ \A d \in Clients \ {c} : req'[d] = req[d]
      /\ UNCHANGED <<job, cyc, responded, settled>>
  BY RequestEffect DEF CancelMove
<1>3. \/ pipe' = pipe
      \/ /\ pipe[v].status = "queued_to_send"
         /\ pipe'[v].status = "approved"
         /\ \A w \in Vacancies \ {v} : pipe'[w] = pipe[w]
  BY <1>1, PipeEffect DEF CancelMove
<1>4. /\ job[v].status = "cancelled"
      /\ (Free(v)' <=> Free(v)) /\ (NoActiveJob(v)' <=> NoActiveJob(v))
  BY <1>1, <1>2 DEF TurnAgrees, Free, NoActiveJob
<1>5. RowAgrees(v)'
  BY <1>2, <1>3, <1>4 DEF RowAgrees, Undecided
<1>6. TurnAgrees(c)'
  BY <1>2 DEF TurnAgrees
<1>7. ASSUME NEW s \in Senders, cyc[s].v = v
      PROVE  HoldsOn(s)'
  <2>1. CASE pipe' = pipe
    BY <1>2, <1>7, <2>1 DEF HoldsOn, Unanswered
  <2>2. CASE pipe[v].status = "queued_to_send"
    <3>1. Free(v)
      BY <1>4, <2>2 DEF RowAgrees, NoActiveJob
    <3>2. QED
      BY <1>2, <1>7, <3>1 DEF HoldsOn, Unanswered, Free, Holding
  <2>3. QED
    BY <1>3, <2>1, <2>2
<1>8. QED
  BY <1>1, <1>2, <1>3, <1>5, <1>6, <1>7, WriteTurns

\* reset_failed() cancels the failed job it has seen.
LEMMA ResetPutTurns ==
    ASSUME Ready, NEW c \in Clients, ResetPut(c)
    PROVE  TurnsInv'
<1> USE ReadyParts, Fields DEF rows, hh, hist
<1>1. CASE job[req[c].v].status # req[c].seen
  BY <1>1, EndedTurns DEF ResetPut
<1>2. CASE job[req[c].v].status = req[c].seen
  <2>1. PICK v \in Vacancies : v = req[c].v
    OBVIOUS
  <2>2. /\ req[c].pc = "reset_put"
        /\ req'[c].pc = "reset_move"
        /\ req'[c].v = v
        /\ \A d \in Clients \ {c} : req'[d] = req[d]
        /\ UNCHANGED <<pipe, cyc, responded, settled>>
    BY <1>2, <2>1, RequestEffect DEF ResetPut
  <2>3. /\ \A w \in Vacancies \ {v} : job'[w] = job[w]
        /\ job'[v].status = "cancelled"
        /\ job'[v].gen = job[v].gen
    BY <1>2, <2>1, JobWithEffect DEF ResetPut, JobKept
  <2>4. /\ Free(v) /\ (Free(v)' <=> Free(v))
        /\ pipe[v].status \in {"send_error", "archived"}
    BY <2>1, <2>2 DEF TurnAgrees, Free
  <2>5. RowAgrees(v)'
    BY <2>2, <2>3, <2>4 DEF RowAgrees, Undecided
  <2>6. TurnAgrees(c)'
    BY <2>2, <2>3, <2>4 DEF TurnAgrees
  <2>7. ASSUME NEW s \in Senders, cyc[s].v = v
        PROVE  HoldsOn(s)'
    BY <2>2, <2>4, <2>7 DEF HoldsOn, Unanswered, Free, Holding
  <2>8. QED
    BY <2>1, <2>2, <2>3, <2>5, <2>6, <2>7, WriteTurns
<1>3. QED
  BY <1>1, <1>2

\* reset_failed() takes the vacancy back, or goes on to its rollback.
LEMMA ResetMoveTurns ==
    ASSUME Ready, NEW c \in Clients, ResetMove(c)
    PROVE  TurnsInv'
<1> USE ReadyParts, Fields DEF rows, hh, hist
<1>1. PICK v \in Vacancies : v = req[c].v
  OBVIOUS
<1>2. /\ req[c].pc = "reset_move"
      /\ \A d \in Clients \ {c} : req'[d] = req[d]
      /\ UNCHANGED <<job, cyc, responded, settled>>
      /\ \/ req'[c].pc = "idle"
         \/ /\ req'[c].pc = "reset_undo" /\ req'[c].v = v
            /\ pipe' = pipe
  BY <1>1, RequestEffect DEF ResetMove, Moved
<1>3. \/ pipe' = pipe
      \/ /\ pipe[v].status = "send_error"
         /\ pipe'[v].status = "approved"
         /\ \A w \in Vacancies \ {v} : pipe'[w] = pipe[w]
  BY <1>1, PipeEffect DEF ResetMove
<1>4. /\ Free(v) /\ (Free(v)' <=> Free(v))
      /\ NoActiveJob(v)' <=> NoActiveJob(v)
  BY <1>1, <1>2 DEF TurnAgrees, Free, NoActiveJob
<1>5. RowAgrees(v)'
  BY <1>2, <1>3, <1>4 DEF RowAgrees, Undecided
<1>6. TurnAgrees(c)'
  BY <1>1, <1>2, <1>4 DEF TurnAgrees
<1>7. ASSUME NEW s \in Senders, cyc[s].v = v
      PROVE  HoldsOn(s)'
  BY <1>2, <1>4, <1>7 DEF HoldsOn, Unanswered, Free, Holding
<1>8. QED
  BY <1>1, <1>2, <1>3, <1>5, <1>6, <1>7, WriteTurns

\* reset_failed() rolls back: the job is what it was seen to be.
LEMMA ResetUndoTurns ==
    ASSUME Ready, NEW c \in Clients, ResetUndo(c)
    PROVE  TurnsInv'
<1> USE ReadyParts, Fields DEF rows, hh, hist
<1>1. CASE job[req[c].v].status # "cancelled"
  BY <1>1, EndedTurns DEF ResetUndo
<1>2. CASE job[req[c].v].status = "cancelled"
  <2>1. PICK v \in Vacancies : v = req[c].v
    OBVIOUS
  <2>2. /\ req[c].pc = "reset_undo"
        /\ req'[c].pc = "idle"
        /\ \A d \in Clients \ {c} : req'[d] = req[d]
        /\ UNCHANGED <<pipe, cyc, responded, settled>>
        /\ req[c].seen \in {"failed", "manual_required"}
    BY RequestEffect DEF ResetUndo, RoleInv
  <2>3. /\ \A w \in Vacancies \ {v} : job'[w] = job[w]
        /\ job'[v].status = req[c].seen
        /\ job'[v].gen = job[v].gen
    BY <1>2, <2>1, <2>2, JobWithEffect DEF ResetUndo, JobKept
  <2>4. /\ Free(v) /\ (Free(v)' <=> Free(v))
        /\ pipe[v].status \in {"send_error", "archived"}
    BY <2>1, <2>2 DEF TurnAgrees, Free
  <2>5. RowAgrees(v)'
    BY <2>2, <2>3, <2>4 DEF RowAgrees, Undecided
  <2>6. TurnAgrees(c)'
    BY <2>2 DEF TurnAgrees
  <2>7. ASSUME NEW s \in Senders, cyc[s].v = v
        PROVE  HoldsOn(s)'
    BY <2>2, <2>4, <2>7 DEF HoldsOn, Unanswered, Free, Holding
  <2>8. QED
    BY <2>1, <2>2, <2>3, <2>5, <2>6, <2>7, WriteTurns
<1>3. QED
  BY <1>1, <1>2

\* Every statement of a request, and the death of its process.
LEMMA RequestTurns ==
    ASSUME Ready, NEW c \in Clients, RequestNext(c) \/ CrashRequest(c)
    PROVE  TurnsInv'
<1>1. CASE CrashRequest(c)
  BY <1>1, EndedTurns DEF CrashRequest, rows, hh, hist
<1>2. CASE RequestNext(c)
  BY <1>2, ReadTurns, SaveTurns, ApproveTurns, PutTurns, MoveTurns, UndoTurns,
     CancelTurns, BackTurns, ResetPutTurns, ResetMoveTurns, ResetUndoTurns
     DEF RequestNext
<1>3. QED
  BY <1>1, <1>2

-----------------------------------------------------------------------------
(* Cycles.                                                                  *)

\* A step of one cycle that writes to no table: it claims nothing new, checks
\* the approval before it fetches, and looks for an answer before it submits.
CycleGoesOn(s) ==
    LET v == cyc[s].v IN
    /\ UNCHANGED <<pipe, job, req>>
    /\ \A t \in Senders \ {s} : cyc'[t] = cyc[t]
    /\ \A w \in Vacancies : responded[w] => responded'[w]
    /\ cyc'[s].target \in {"none", "archived", "send_error", "sent"}
    /\ cyc'[s].pc \in (Holding \ {"snapshot"}) \union {"idle", "claim"}
    /\ cyc'[s].pc \in Holding =>
          /\ cyc[s].pc \in Holding
          /\ cyc'[s].v = v /\ cyc'[s].gen = cyc[s].gen
          /\ cyc'[s].text = cyc[s].text
    /\ cyc'[s].pc \in Unanswered =>
          cyc[s].pc \in Unanswered \/ cyc'[s].pc = "fetch"
    /\ cyc'[s].pc = "fetch" =>
          cyc[s].pc = "snapshot" /\ SnapshotMatches(cyc[s].text, v)
    /\ cyc'[s].pc = "submit" => cyc[s].pc = "fetch" /\ ~responded[v]
    /\ \/ settled' = settled
       \/ /\ settled' = settled \union {v}
          /\ responded'[v]
          /\ cyc[s].pc \in Holding
          /\ cyc'[s].pc = "finish"

LEMMA CycleGoesOnTurns ==
    ASSUME Ready, NEW s \in Senders, CycleGoesOn(s)
    PROVE  TurnsInv'
<1> USE ReadyParts, Fields
<1> DEFINE v == cyc[s].v
<1>1. \A w \in Vacancies : Free(w) => Free(w)'
  BY DEF Free, CycleGoesOn
<1>2. \A w \in Vacancies : NoActiveJob(w)' <=> NoActiveJob(w)
  BY DEF NoActiveJob, CycleGoesOn
<1>3. (\A w \in Vacancies : RowAgrees(w))'
  BY <1>1, <1>2 DEF RowAgrees, CycleGoesOn
<1>4. (\A c \in Clients : TurnAgrees(c))'
  BY <1>1, <1>2 DEF TurnAgrees, CycleGoesOn
<1>5. ASSUME NEW t \in Senders
      PROVE  HoldsOn(t)'
  <2>1. CASE t # s
    BY <2>1 DEF HoldsOn, CycleGoesOn
  <2>2. CASE t = s /\ cyc'[s].pc = "fetch"
    <3>1. /\ cyc[s].pc = "snapshot"
          /\ cyc'[s].v = v /\ cyc'[s].gen = cyc[s].gen
          /\ cyc'[s].text = cyc[s].text
          /\ cyc'[s].target \in {"none", "archived", "send_error", "sent"}
          /\ pipe'[v].status = "queued_to_send"
          /\ pipe'[v].draft = cyc[s].text /\ pipe'[v].approved = cyc[s].text
      BY <2>2 DEF CycleGoesOn, SnapshotMatches, Holding
    <3>2. job'[v].status = "sending" /\ cyc[s].gen = job'[v].gen
      BY <3>1 DEF HoldsOn, CycleGoesOn, Holding
    <3>3. \A c \in Clients : req'[c].v = v =>
             req'[c].pc \notin {"queue_job", "queue_put", "queue_move",
                               "queue_undo"}
      BY <3>1 DEF TurnAgrees, CycleGoesOn
    <3>4. QED
      BY <2>2, <3>1, <3>2, <3>3 DEF HoldsOn
  <2>3. CASE t = s /\ cyc'[s].pc # "fetch"
    BY <2>3 DEF HoldsOn, CycleGoesOn, Holding, Unanswered
  <2>4. QED
    BY <2>1, <2>2, <2>3
<1>6. HolderAlone'
  BY DEF HolderAlone, CycleGoesOn
<1>7. SettledInv'
  <2>1. CASE settled' = settled
    <3>1. ASSUME NEW t \in Senders, cyc'[t].pc = "submit"
          PROVE  cyc'[t].v \notin settled
      BY <3>1 DEF SettledInv, CycleGoesOn, Holding
    <3>2. QED
      BY <2>1, <3>1 DEF SettledInv, CycleGoesOn, TypeOK
  <2>2. CASE /\ settled' = settled \union {v}
             /\ responded'[v]
             /\ cyc[s].pc \in Holding
             /\ cyc'[s].pc = "finish"
    <3>1. ASSUME NEW t \in Senders, cyc'[t].pc = "submit"
          PROVE  cyc'[t].v \notin settled'
      <4>1. t # s /\ cyc'[t] = cyc[t]
        BY <2>2, <3>1 DEF CycleGoesOn
      <4>2. cyc[t].v # v
        BY <2>2, <3>1, <4>1 DEF HolderAlone, Holding
      <4>3. QED
        BY <2>2, <3>1, <4>1, <4>2 DEF SettledInv
    <3>2. QED
      BY <2>2, <3>1 DEF SettledInv, CycleGoesOn, TypeOK
  <2>3. QED
    BY <2>1, <2>2 DEF CycleGoesOn
<1>8. QED
  BY <1>3, <1>4, <1>5, <1>6, <1>7 DEF TurnsInv

\* A cycle that rests, or has read its next job, has claimed nothing.
LEMMA RestGoesOn ==
    ASSUME NEW s \in Senders,
           UNCHANGED <<pipe, job, req, responded, settled>>,
           \A t \in Senders \ {s} : cyc'[t] = cyc[t],
           cyc'[s].pc \in {"idle", "claim"},
           cyc'[s].target = "none"
    PROVE  CycleGoesOn(s)
<1>1. cyc'[s].pc \notin Holding /\ cyc'[s].pc \notin Unanswered
  BY DEF Holding, Unanswered
<1>2. cyc'[s].pc # "fetch" /\ cyc'[s].pc # "submit"
  OBVIOUS
<1>3. QED
  BY <1>1, <1>2 DEF CycleGoesOn

\* All the steps of a cycle but the claim, the verdict and the last move.
LEMMA CycleStepGoesOn ==
    ASSUME Ready, NEW s \in Senders,
           \/ Snapshot(s) \/ FetchFails(s) \/ CycleRaises(s)
           \/ FetchResponded(s) \/ FetchHasTest(s) \/ FetchClear(s)
           \/ SubmitBlocked(s) \/ SubmitAccepted(s) \/ SubmitUncertain(s)
           \/ ReconcileSent(s) \/ ReconcileFailed(s) \/ CrashCycle(s)
    PROVE  CycleGoesOn(s)
<1> USE ReadyParts, Fields
    DEF rows, hh, hist
<1>1. \A v \in Vacancies : responded' = [responded EXCEPT ![v] = TRUE] =>
         responded'[v] /\ \A w \in Vacancies : responded[w] => responded'[w]
  BY RespondedEffect
<1>2. cyc[s].target \in {"none", "archived", "send_error", "sent"}
  BY DEF HoldsOn
<1>3. CASE Snapshot(s)
  BY <1>2, <1>3, CycleAtEffect
     DEF Snapshot, CycleGoesOn, Conclude, CycleGoto, Holding, Unanswered
<1>4. CASE FetchFails(s)
  BY <1>2, <1>4, CycleAtEffect
     DEF FetchFails, CycleGoesOn, Conclude, CycleGoto, Holding, Unanswered
<1>5. CASE CycleRaises(s)
  BY <1>5, CycleDoneEffect, RestGoesOn DEF CycleRaises
<1>6. CASE FetchResponded(s)
  BY <1>2, <1>6, CycleAtEffect
     DEF FetchResponded, CycleGoesOn, Conclude, CycleGoto, Holding, Unanswered
<1>7. CASE FetchHasTest(s)
  BY <1>2, <1>7, CycleAtEffect
     DEF FetchHasTest, CycleGoesOn, Conclude, CycleGoto, Holding, Unanswered
<1>8. CASE FetchClear(s)
  BY <1>2, <1>8, CycleAtEffect
     DEF FetchClear, CycleGoesOn, Conclude, CycleGoto, Holding, Unanswered
<1>9. CASE SubmitBlocked(s)
  BY <1>2, <1>9, CycleAtEffect
     DEF SubmitBlocked, CycleGoesOn, Conclude, CycleGoto, Holding, Unanswered
<1>10. CASE ReconcileSent(s)
  BY <1>2, <1>10, CycleAtEffect
     DEF ReconcileSent, CycleGoesOn, Conclude, CycleGoto, Holding, Unanswered
<1>11. CASE ReconcileFailed(s)
  BY <1>2, <1>11, CycleAtEffect
     DEF ReconcileFailed, CycleGoesOn, Conclude, CycleGoto, Holding, Unanswered
<1>12. CASE CrashCycle(s)
  BY <1>12, CycleDoneEffect, RestGoesOn DEF CrashCycle
<1>13. CASE SubmitAccepted(s)
  <2>1. /\ UNCHANGED <<pipe, job, req>>
        /\ cyc[s].pc = "submit"
        /\ settled' = settled \union {cyc[s].v}
        /\ responded'[cyc[s].v]
        /\ \A w \in Vacancies : responded[w] => responded'[w]
    BY <1>1, <1>13 DEF SubmitAccepted
  <2>2. /\ \A t \in Senders \ {s} : cyc'[t] = cyc[t]
        /\ cyc'[s].pc = "finish" /\ cyc'[s].target = "sent"
        /\ cyc'[s].v = cyc[s].v /\ cyc'[s].gen = cyc[s].gen
        /\ cyc'[s].text = cyc[s].text
    BY <1>13, CycleAtEffect DEF SubmitAccepted, Conclude
  <2>3. QED
    BY <2>1, <2>2 DEF CycleGoesOn, Holding, Unanswered
<1>14. CASE SubmitUncertain(s)
  <2>1. /\ UNCHANGED <<pipe, job, req, settled>>
        /\ cyc[s].pc = "submit"
        /\ \A w \in Vacancies : responded[w] => responded'[w]
    BY <1>1, <1>14 DEF SubmitUncertain
  <2>2. /\ \A t \in Senders \ {s} : cyc'[t] = cyc[t]
        /\ cyc'[s].pc = "reconcile" /\ cyc'[s].target = cyc[s].target
        /\ cyc'[s].v = cyc[s].v /\ cyc'[s].gen = cyc[s].gen
        /\ cyc'[s].text = cyc[s].text
    BY <1>14, CycleAtEffect DEF SubmitUncertain, CycleGoto
  <2>3. QED
    BY <1>2, <2>1, <2>2 DEF CycleGoesOn, Holding, Unanswered
<1>15. QED
  BY <1>3, <1>4, <1>5, <1>6, <1>7, <1>8, <1>9, <1>10, <1>11, <1>12, <1>13, <1>14

\* A cycle that reads its next job has claimed nothing yet.
LEMMA NextJobGoesOn ==
    ASSUME Ready, NEW s \in Senders, NEW b, NEW v \in Vacancies,
           NextJob(s, b, v)
    PROVE  CycleGoesOn(s)
<1>1. cyc' = [cyc EXCEPT ![s] =
                [pc |-> "claim", batch |-> b, v |-> v, text |-> job[v].text,
                 gen |-> job[v].gen, outcome |-> "none", target |-> "none"]]
  BY DEF NextJob
<1>2. /\ \A t \in Senders \ {s} : cyc'[t] = cyc[t]
      /\ cyc'[s].pc = "claim"
      /\ cyc'[s].target = "none"
  BY <1>1, ReadyParts DEF TypeOK
<1>3. QED
  BY <1>2, RestGoesOn DEF NextJob, rows, hh, hist

\* A claim finds the job of the generation that was read, in nobody's hands.
LEMMA ClaimTurns ==
    ASSUME Ready, NEW s \in Senders, Claim(s)
    PROVE  TurnsInv'
<1> USE ReadyParts, Fields DEF rows, hh, hist
<1>1. CASE ~Claimable(cyc[s].v, cyc[s].batch)
  <2>1. CycleGoesOn(s)
    BY <1>1, CycleDoneEffect, RestGoesOn DEF Claim
  <2>2. QED
    BY <2>1, CycleGoesOnTurns
<1>2. CASE Claimable(cyc[s].v, cyc[s].batch)
  <2>1. PICK v \in Vacancies : v = cyc[s].v
    OBVIOUS
  <2>2. /\ cyc[s].pc = "claim"
        /\ job[v].status = "queued"
        /\ job[v].batch = cyc[s].batch
        /\ UNCHANGED <<pipe, req, responded, settled>>
    BY <1>2, <2>1 DEF Claim, Claimable
  <2>3. /\ \A w \in Vacancies \ {v} : job'[w] = job[w]
        /\ job'[v].status = "sending"
        /\ job'[v].gen = job[v].gen
    BY <1>2, <2>1, JobWithEffect DEF Claim, JobKept
  <2>4. /\ \A t \in Senders \ {s} : cyc'[t] = cyc[t]
        /\ cyc'[s].pc = "snapshot"
        /\ cyc'[s].v = v
        /\ cyc'[s].gen = cyc[s].gen
        /\ cyc'[s].target = cyc[s].target
    BY <1>2, <2>1, CycleAtEffect DEF Claim, CycleGoto
  <2>5. cyc[s].gen = job[v].gen
    <3>1. /\ cyc[s].gen <= job[v].gen
          /\ cyc[s].batch \in 1..batches
          /\ cyc[s].gen < job[v].gen =>
                job[v].batch = 0 \/ job[v].batch > cyc[s].batch
      BY <2>1, <2>2 DEF GenInv, ClaimInv
    <3>2. /\ cyc[s].gen \in Nat /\ job[v].gen \in Nat
          /\ batches \in Nat
      BY DEF TypeOK
    <3>3. QED
      BY <2>2, <3>1, <3>2
  <2>6. Free(v)
    BY <2>2, QueuedIsFree
  <2>7. /\ \A w \in Vacancies \ {v} : Free(w)' <=> Free(w)
        /\ \A w \in Vacancies \ {v} : NoActiveJob(w)' <=> NoActiveJob(w)
        /\ ~NoActiveJob(v) /\ ~NoActiveJob(v)'
    BY <2>1, <2>2, <2>3, <2>4 DEF Free, NoActiveJob, Holding
  <2>8. ASSUME NEW w \in Vacancies
        PROVE  RowAgrees(w)'
    <3>1. CASE w = v
      BY <2>2, <2>7, <3>1 DEF RowAgrees
    <3>2. CASE w # v
      BY <2>2, <2>3, <2>7, <3>2 DEF RowAgrees
    <3>3. QED
      BY <3>1, <3>2
  <2>9. ASSUME NEW c \in Clients
        PROVE  TurnAgrees(c)'
    <3>1. CASE req[c].v = v
      BY <2>2, <2>7, <3>1 DEF TurnAgrees
    <3>2. CASE req[c].v # v
      BY <2>2, <2>3, <2>7, <3>2 DEF TurnAgrees
    <3>3. QED
      BY <3>1, <3>2
  <2>10. ASSUME NEW t \in Senders
         PROVE  HoldsOn(t)'
    <3>1. CASE t = s
      BY <2>1, <2>2, <2>3, <2>4, <2>5, <3>1 DEF HoldsOn, Unanswered
    <3>2. CASE t # s /\ cyc[t].v = v
      BY <2>4, <2>6, <3>2 DEF HoldsOn, Unanswered, Free, Holding
    <3>3. CASE t # s /\ cyc[t].v # v
      BY <2>2, <2>3, <2>4, <3>3 DEF HoldsOn
    <3>4. QED
      BY <3>1, <3>2, <3>3
  <2>11. HolderAlone' /\ SettledInv'
    BY <2>1, <2>2, <2>4, <2>6 DEF HolderAlone, SettledInv, Free
  <2>12. QED
    BY <2>8, <2>9, <2>10, <2>11 DEF TurnsInv
<1>3. QED
  BY <1>1, <1>2

\* A cycle's verdict is the job's: no other cycle works on it, and no request
\* counts on a job that is being sent.
LEMMA FinishTurns ==
    ASSUME Ready, NEW s \in Senders, Finish(s)
    PROVE  TurnsInv'
<1> USE ReadyParts, Fields DEF rows, hh, hist
<1>1. PICK v \in Vacancies : v = cyc[s].v
  OBVIOUS
<1>2. /\ cyc[s].pc = "finish"
      /\ cyc[s].outcome \in {"sent", "failed", "manual_required"}
      /\ ~Free(v)
      /\ UNCHANGED <<pipe, req, responded, settled>>
  BY <1>1 DEF Finish, RoleInv, Free, Holding
<1>3. /\ \A w \in Vacancies \ {v} : job'[w] = job[w]
      /\ job'[v].gen = job[v].gen
      /\ \/ job'[v].status = job[v].status
         \/ /\ job[v].status = "sending"
            /\ job'[v].status \in {"sent", "failed", "manual_required"}
  BY <1>1, <1>2, JobWithEffect DEF Finish, JobKept
<1>4. /\ \A t \in Senders \ {s} : cyc'[t] = cyc[t]
      /\ cyc'[s].target \in {"none", "archived", "send_error", "sent"}
      /\ \/ cyc'[s].pc = "idle"
         \/ /\ cyc'[s].pc = "move"
            /\ cyc'[s].v = v
            /\ cyc'[s].gen = cyc[s].gen
  BY <1>1, CycleAtEffect, CycleDoneEffect DEF Finish, CycleGoto, HoldsOn
<1>5. /\ \A w \in Vacancies : Free(w) => Free(w)'
      /\ \A w \in Vacancies : NoActiveJob(w)' <=> NoActiveJob(w)
  BY <1>1, <1>2, <1>3, <1>4 DEF Free, NoActiveJob, Holding
<1>6. ASSUME NEW w \in Vacancies
      PROVE  RowAgrees(w)'
  <2>1. CASE w = v
    BY <1>2, <1>5, <2>1 DEF RowAgrees
  <2>2. CASE w # v
    BY <1>2, <1>3, <1>5, <2>2 DEF RowAgrees
  <2>3. QED
    BY <2>1, <2>2
<1>7. ASSUME NEW c \in Clients
      PROVE  TurnAgrees(c)'
  <2>1. CASE req[c].v = v
    BY <1>2, <1>3, <1>5, <2>1 DEF TurnAgrees
  <2>2. CASE req[c].v # v
    BY <1>2, <1>3, <1>5, <2>2 DEF TurnAgrees
  <2>3. QED
    BY <2>1, <2>2
<1>8. ASSUME NEW t \in Senders
      PROVE  HoldsOn(t)'
  <2>1. CASE t = s
    BY <1>1, <1>2, <1>3, <1>4, <2>1 DEF HoldsOn, Unanswered, Holding
  <2>2. CASE t # s /\ cyc[t].v = v
    <3>1. cyc[t].pc \notin Holding
      BY <1>1, <1>2, <2>2 DEF HolderAlone, Holding
    <3>2. QED
      BY <1>4, <2>2, <3>1 DEF HoldsOn, Unanswered, Holding
  <2>3. CASE t # s /\ cyc[t].v # v
    BY <1>2, <1>3, <1>4, <2>3 DEF HoldsOn
  <2>4. QED
    BY <2>1, <2>2, <2>3
<1>9. HolderAlone' /\ SettledInv'
  BY <1>1, <1>2, <1>4 DEF HolderAlone, SettledInv, Holding
<1>10. QED
  BY <1>6, <1>7, <1>8, <1>9 DEF TurnsInv

\* A cycle's last move: nobody else is at work on the vacancy.
LEMMA LastMoveTurns ==
    ASSUME Ready, NEW s \in Senders, Move(s)
    PROVE  TurnsInv'
<1> USE ReadyParts, Fields DEF rows, hh, hist
<1>1. PICK v \in Vacancies : v = cyc[s].v
  OBVIOUS
<1>2. /\ cyc[s].pc = "move"
      /\ cyc[s].target \in {"archived", "send_error", "sent"}
      /\ UNCHANGED <<job, req, responded, settled>>
  BY DEF Move, RoleInv, HoldsOn
<1>3. /\ \A w \in Vacancies \ {v} : pipe'[w] = pipe[w]
      /\ \/ pipe'[v] = pipe[v]
         \/ /\ pipe[v].status = "queued_to_send"
            /\ pipe'[v].status = cyc[s].target
  BY <1>1, PipeEffect DEF Move
<1>4. /\ \A t \in Senders \ {s} : cyc'[t] = cyc[t]
      /\ cyc'[s].pc = "idle"
      /\ cyc'[s].target = "none"
  BY CycleDoneEffect DEF Move
<1>5. \A t \in Senders \ {s} : cyc[t].v = v => cyc[t].pc \notin Holding
  BY <1>1, <1>2 DEF HolderAlone, Holding
<1>6. /\ \A w \in Vacancies : Free(w) => Free(w)'
      /\ \A w \in Vacancies : NoActiveJob(w)' <=> NoActiveJob(w)
      /\ Free(v)'
      /\ job[v].status # "queued"
  <2>1. \A w \in Vacancies : Free(w) => Free(w)'
    BY <1>4 DEF Free, Holding
  <2>2. \A w \in Vacancies : NoActiveJob(w)' <=> NoActiveJob(w)
    BY <1>2 DEF NoActiveJob
  <2>3. Free(v)'
    BY <1>4, <1>5 DEF Free, Holding
  <2>4. ~Free(v)
    BY <1>1, <1>2 DEF Free, Holding
  <2>5. QED
    BY <2>1, <2>2, <2>3, <2>4, QueuedIsFree
<1>7. ASSUME NEW w \in Vacancies
      PROVE  RowAgrees(w)'
  <2>1. CASE w = v
    BY <1>2, <1>3, <1>6, <2>1 DEF RowAgrees, Undecided
  <2>2. CASE w # v
    BY <1>2, <1>3, <1>6, <2>2 DEF RowAgrees
  <2>3. QED
    BY <2>1, <2>2
<1>8. ASSUME NEW c \in Clients
      PROVE  TurnAgrees(c)'
  <2>1. CASE req[c].v = v
    BY <1>2, <1>3, <1>6, <2>1 DEF TurnAgrees, Undecided
  <2>2. CASE req[c].v # v
    BY <1>2, <1>3, <1>6, <2>2 DEF TurnAgrees
  <2>3. QED
    BY <2>1, <2>2
<1>9. ASSUME NEW t \in Senders
      PROVE  HoldsOn(t)'
  <2>1. CASE t = s
    BY <1>4, <2>1 DEF HoldsOn, Unanswered, Holding
  <2>2. CASE t # s /\ cyc[t].v = v
    BY <1>4, <1>5, <2>2 DEF HoldsOn, Unanswered, Holding
  <2>3. CASE t # s /\ cyc[t].v # v
    BY <1>2, <1>3, <1>4, <2>3 DEF HoldsOn
  <2>4. QED
    BY <2>1, <2>2, <2>3
<1>10. HolderAlone' /\ SettledInv'
  BY <1>2, <1>4 DEF HolderAlone, SettledInv, Holding
<1>11. QED
  BY <1>7, <1>8, <1>9, <1>10 DEF TurnsInv

-----------------------------------------------------------------------------
(* The theorems.                                                            *)

LEMMA TurnsInit == Init => TurnsInv
<1> SUFFICES ASSUME Init
             PROVE  TurnsInv
  OBVIOUS
<1> USE DEF Init
<1>1. \A v \in Vacancies : pipe[v].status = "review" /\ job[v].status = "none"
  BY DEF NoJob
<1>2. \A c \in Clients : req[c].pc = "idle"
  BY DEF IdleReq
<1>3. \A s \in Senders : cyc[s].pc = "idle" /\ cyc[s].target = "none"
  BY DEF IdleCycle
<1>4. \A v \in Vacancies : RowAgrees(v)
  BY <1>1, <1>3 DEF RowAgrees, Undecided, NoActiveJob, Free, Holding
<1>5. \A c \in Clients : TurnAgrees(c)
  BY <1>2 DEF TurnAgrees
<1>6. \A s \in Senders : HoldsOn(s)
  BY <1>3 DEF HoldsOn, Holding, Unanswered
<1>7. HolderAlone /\ SettledInv
  BY <1>3 DEF HolderAlone, SettledInv, Holding
<1>8. QED
  BY <1>4, <1>5, <1>6, <1>7 DEF TurnsInv

LEMMA TurnsStep == Ready /\ [Next]_vars => TurnsInv'
<1> SUFFICES ASSUME Ready, [Next]_vars
             PROVE  TurnsInv'
  OBVIOUS
<1>1. ASSUME NEW v \in Vacancies,
             UserStep(v) \/ LateResponse(v) \/ RespondElsewhere(v)
      PROVE  TurnsInv'
  BY <1>1, UserGoesOn, RowsGoOnTurns
<1>2. ASSUME NEW c \in Clients, NEW v \in Vacancies, StartRequest(c, v)
      PROVE  TurnsInv'
  BY <1>2, StartedTurns
<1>3. ASSUME NEW c \in Clients, RequestNext(c) \/ CrashRequest(c)
      PROVE  TurnsInv'
  BY <1>3, RequestTurns
<1>4. CASE CreateBatch
  BY <1>4, ResumeGoesOn, RowsGoOnTurns
<1>5. ASSUME NEW s \in Senders, NEW b \in 1..MaxBatches,
             NEW v \in Vacancies, NextJob(s, b, v)
      PROVE  TurnsInv'
  BY <1>5, NextJobGoesOn, CycleGoesOnTurns
<1>6. ASSUME NEW s \in Senders, CycleNext(s) \/ CrashCycle(s)
      PROVE  TurnsInv'
  BY <1>6, ClaimTurns, FinishTurns, LastMoveTurns, CycleStepGoesOn,
     CycleGoesOnTurns
     DEF CycleNext
<1>7. CASE UNCHANGED vars
  BY <1>7, RowsGoOnTurns DEF RowsGoOn, vars
<1>8. QED
  BY <1>1, <1>2, <1>3, <1>4, <1>5, <1>6, <1>7 DEF Next

\* Requests that take turns keep the rows, the requests and the cycles in
\* agreement (the guards of send_queue_service and persistent_sender).
THEOREM TurnsAgree == Spec /\ []TakeTurns => []TurnsInv
<1>1. Init => TurnsInv
  BY TurnsInit
<1>2. SendInv /\ TakeTurns /\ TurnsInv /\ [Next]_vars => TurnsInv'
  BY TurnsStep DEF Ready
<1>3. QED
  BY <1>1, <1>2, Invariance, PTL DEF Spec

\* Requests taking turns, the cycle that is about to submit, or waits for the
\* verdict, holds its job: the row is still 'sending', in its generation.
THEOREM SubmitHolds == Spec /\ []TakeTurns => []SubmitHoldsTheJob
<1>1. TurnsInv => SubmitHoldsTheJob
  BY DEF TurnsInv, HoldsOn, SubmitHoldsTheJob, Holding, Unanswered
<1>2. QED
  BY <1>1, TurnsAgree, PTL

\* Requests taking turns, nobody changes the letter or withdraws the approval
\* between the approval check and the POST.
THEOREM LetterFrozen == Spec /\ []TakeTurns => []LetterFrozenUnderSubmit
<1>1. TurnsInv => LetterFrozenUnderSubmit
  BY DEF TurnsInv, HoldsOn, LetterFrozenUnderSubmit
<1>2. QED
  BY <1>1, TurnsAgree, PTL

\* Whoever adds to a vacancy's posts is a cycle in its submit.
LEMMA PostsBySubmit ==
    ASSUME TypeOK, RoleInv, [Next]_vars, NEW v \in Vacancies,
           posts'[v] # posts[v]
    PROVE  \E s \in Senders : cyc[s].pc = "submit" /\ cyc[s].v = v
<1> USE DEF rows, hh, hist
<1>1. LoudStep
  BY QuietOrLoud DEF Quiet
<1>2. ~CreateBatch
  BY DEF CreateBatch
<1>3. ~\E c \in Clients : QueuePut(c)
  BY DEF QueuePut
<1>4. ~\E s \in Senders, b \in 1..MaxBatches, w \in Vacancies : NextJob(s, b, w)
  BY DEF NextJob
<1>5. ~\E s \in Senders : Claim(s)
  BY DEF Claim
<1>6. PICK s \in Senders : SubmitAccepted(s) \/ SubmitUncertain(s)
  BY <1>1, <1>2, <1>3, <1>4, <1>5 DEF LoudStep
<1>7. cyc[s].pc = "submit" /\ Post(s)
  BY <1>6 DEF SubmitAccepted, SubmitUncertain
<1>8. cyc[s].v = v
  BY <1>7, PostEffect
<1>9. QED
  BY <1>7, <1>8

\* Requests taking turns, a vacancy a cycle has seen answered on hh is never
\* posted to again ("HH is authoritative ... never submit twice").
THEOREM NeverTwice == Spec /\ []TakeTurns => SettledNeverResubmitted
<1>1. SendInv /\ TurnsInv /\ [Next]_vars =>
        [\A v \in Vacancies : posts'[v] # posts[v] => v \notin settled]_vars
  <2> SUFFICES ASSUME SendInv, TurnsInv, [Next]_vars, NEW v \in Vacancies,
                      posts'[v] # posts[v]
               PROVE  v \notin settled
    OBVIOUS
  <2>1. PICK s \in Senders : cyc[s].pc = "submit" /\ cyc[s].v = v
    BY PostsBySubmit DEF SendInv
  <2>2. QED
    BY <2>1 DEF TurnsInv, SettledInv
<1>2. QED
  BY <1>1, Invariance, TurnsAgree, PTL
     DEF SettledNeverResubmitted, Spec

=============================================================================
