-------------------------- MODULE SendQueueProofs --------------------------
(****************************************************************************)
(* SendQueue's safety invariants, for any vacancies, requests, cycles,      *)
(* letters and bounds.                                                      *)
(****************************************************************************)
EXTENDS SendQueue, SequenceTheorems, TLAPS

-----------------------------------------------------------------------------
(* Every variable keeps its type.                                           *)

\* The names of the statuses and of the steps belong to their sets.
LEMMA StatusNames ==
    /\ "review" \in PipeStatus
    /\ "selected" \in PipeStatus
    /\ "letter_draft" \in PipeStatus
    /\ "approved" \in PipeStatus
    /\ "queued_to_send" \in PipeStatus
    /\ "send_error" \in PipeStatus
    /\ "sent" \in PipeStatus
    /\ "archived" \in PipeStatus
    /\ "queued" \in JobStatus
    /\ "sending" \in JobStatus
    /\ "sent" \in JobStatus
    /\ "failed" \in JobStatus
    /\ "manual_required" \in JobStatus
    /\ "cancelled" \in JobStatus
  BY DEF PipeStatus, JobStatus

\* The control points of requests and cycles are members of their sets.
LEMMA StepNames ==
    /\ "idle" \in RequestStep
    /\ "save_check" \in RequestStep
    /\ "save_write" \in RequestStep
    /\ "approve" \in RequestStep
    /\ "queue_job" \in RequestStep
    /\ "queue_put" \in RequestStep
    /\ "queue_move" \in RequestStep
    /\ "queue_undo" \in RequestStep
    /\ "cancel_job" \in RequestStep
    /\ "cancel_move" \in RequestStep
    /\ "reset_job" \in RequestStep
    /\ "reset_put" \in RequestStep
    /\ "reset_move" \in RequestStep
    /\ "reset_undo" \in RequestStep
    /\ "idle" \in CycleStep
    /\ "claim" \in CycleStep
    /\ "snapshot" \in CycleStep
    /\ "fetch" \in CycleStep
    /\ "submit" \in CycleStep
    /\ "reconcile" \in CycleStep
    /\ "finish" \in CycleStep
    /\ "move" \in CycleStep
  BY DEF RequestStep, CycleStep

\* The type invariant, table by table.
PipeOK == pipe \in [Vacancies -> PipeRow]
JobOK  == job \in [Vacancies -> JobRow]
ReqOK  == req \in [Clients -> Request]
CycOK  == cyc \in [Senders -> Cycle]

\* A write to one row of vacancy_pipeline keeps the table's type.
LEMMA PipeTyped ==
    ASSUME PipeOK, NEW v \in Vacancies, NEW st \in PipeStatus
    PROVE  /\ \A d, a \in Letter :
                 RowWith(v, st, d, a) \in [Vacancies -> PipeRow]
           /\ PipeWith(v, st) \in [Vacancies -> PipeRow]
           /\ \A from : Moved(v, from, st) \in [Vacancies -> PipeRow]
<1>1. ASSUME NEW d \in Letter, NEW a \in Letter
      PROVE  RowWith(v, st, d, a) \in [Vacancies -> PipeRow]
  <2>1. [status |-> st, draft |-> d, approved |-> a] \in PipeRow
    BY DEF PipeRow
  <2>2. QED
    BY <2>1 DEF RowWith, PipeOK
<1>2. pipe[v].draft \in Letter /\ pipe[v].approved \in Letter
  BY DEF PipeOK, PipeRow
<1>3. PipeWith(v, st) \in [Vacancies -> PipeRow]
  BY <1>1, <1>2 DEF PipeWith
<1>4. QED
  BY <1>1, <1>3 DEF Moved, PipeOK

\* A write to one job keeps the queue's type.
LEMMA JobTyped ==
    ASSUME JobOK, NEW v \in Vacancies
    PROVE  /\ \A st \in JobStatus \union {"none"} :
                 JobWith(v, st) \in [Vacancies -> JobRow]
           /\ \A t \in Letter : Enqueued(v, t) \in [Vacancies -> JobRow]
<1>1. /\ job[v].text \in Letter
      /\ job[v].batch \in Nat
      /\ job[v].gen \in Nat
  BY DEF JobOK, JobRow
<1>2. \A t \in Letter : QueuedJob(v, t) \in JobRow
  BY <1>1, StatusNames DEF QueuedJob, JobRow
<1>3. \A st \in JobStatus \union {"none"} :
         [status |-> st, text |-> job[v].text,
          batch |-> job[v].batch, gen |-> job[v].gen] \in JobRow
  BY <1>1 DEF JobRow
<1>4. \A t \in Letter : Enqueued(v, t) \in [Vacancies -> JobRow]
  BY <1>2 DEF JobOK, Enqueued
<1>5. \A st \in JobStatus \union {"none"} :
         JobWith(v, st) \in [Vacancies -> JobRow]
  BY <1>3 DEF JobOK, JobWith
<1>6. QED
  BY <1>4, <1>5

\* The idle values of a request and of a cycle are well typed.
LEMMA IdleTyped == IdleReq \in Request /\ IdleCycle \in Cycle
<1>1. AnyVacancy \in Vacancies
  BY SendQueueAssumption DEF AnyVacancy
<1>2. NoText \in Letter
  BY DEF Letter
<1>3. QED
  BY <1>1, <1>2, StepNames DEF IdleReq, IdleCycle, Request, Cycle

\* Starting, advancing and ending a request keeps the requests' type.
LEMMA ReqTyped ==
    ASSUME ReqOK, NEW c \in Clients, NEW step \in RequestStep
    PROVE  /\ \A v \in Vacancies, t \in Letter :
                 Start(c, step, v, t) => ReqOK'
           /\ \A seen \in JobStatus \union {"none"} :
                 GotoSeen(c, step, seen) => ReqOK'
           /\ Goto(c, step) => ReqOK'
           /\ Done(c) => ReqOK'
<1>1. /\ req[c].v \in Vacancies
      /\ req[c].text \in Letter
      /\ req[c].seen \in JobStatus \union {"none"}
  BY DEF ReqOK, Request
<1>2. \A v \in Vacancies, t \in Letter, seen \in JobStatus \union {"none"} :
         [pc |-> step, v |-> v, text |-> t, seen |-> seen] \in Request
  BY DEF Request
<1>3. \A v \in Vacancies, t \in Letter : Start(c, step, v, t) => ReqOK'
  BY <1>2 DEF Start, ReqOK
<1>4. \A seen \in JobStatus \union {"none"} : GotoSeen(c, step, seen) => ReqOK'
  BY <1>1, <1>2 DEF GotoSeen, ReqOK
<1>5. Goto(c, step) => ReqOK'
  BY <1>1, <1>4 DEF Goto
<1>6. Done(c) => ReqOK'
  BY IdleTyped DEF Done, ReqOK
<1>7. QED
  BY <1>3, <1>4, <1>5, <1>6

\* Advancing and ending a cycle keeps the cycles' type.
LEMMA CycTyped ==
    ASSUME CycOK, NEW s \in Senders, NEW step \in CycleStep
    PROVE  /\ \A out \in JobStatus \union {"none"},
                 to \in PipeStatus \union {"none"} :
                 CycleAt(s, step, out, to) => CycOK'
           /\ CycleGoto(s, step) => CycOK'
           /\ CycleDone(s) => CycOK'
<1>1. /\ cyc[s].v \in Vacancies
      /\ cyc[s].batch \in Nat
      /\ cyc[s].text \in Letter
      /\ cyc[s].gen \in Nat
      /\ cyc[s].outcome \in JobStatus \union {"none"}
      /\ cyc[s].target \in PipeStatus \union {"none"}
  BY DEF CycOK, Cycle
<1>2. ASSUME NEW out \in JobStatus \union {"none"},
             NEW to \in PipeStatus \union {"none"}
      PROVE  [pc |-> step, batch |-> cyc[s].batch, v |-> cyc[s].v,
              text |-> cyc[s].text, gen |-> cyc[s].gen,
              outcome |-> out, target |-> to] \in Cycle
  BY <1>1 DEF Cycle
<1>3. \A out \in JobStatus \union {"none"}, to \in PipeStatus \union {"none"} :
         CycleAt(s, step, out, to) => CycOK'
  BY <1>2 DEF CycleAt, CycOK
<1>4. CycleGoto(s, step) => CycOK'
  BY <1>1, <1>3 DEF CycleGoto
<1>5. CycleDone(s) => CycOK'
  BY IdleTyped DEF CycleDone, CycOK
<1>6. QED
  BY <1>3, <1>4, <1>5

\* A typed state has typed tables, and its requests and cycles carry typed
\* values.
LEMMA Fields ==
    ASSUME TypeOK
    PROVE  /\ PipeOK /\ JobOK /\ ReqOK /\ CycOK
           /\ \A v \in Vacancies :
                 /\ pipe[v].status \in PipeStatus
                 /\ pipe[v].draft \in Letter
                 /\ pipe[v].approved \in Letter
                 /\ job[v].status \in JobStatus \union {"none"}
                 /\ job[v].text \in Letter
                 /\ job[v].batch \in Nat
                 /\ job[v].gen \in Nat
                 /\ responded[v] \in BOOLEAN
           /\ \A c \in Clients :
                 /\ req[c].v \in Vacancies
                 /\ req[c].text \in Letter
                 /\ req[c].seen \in JobStatus \union {"none"}
           /\ \A s \in Senders :
                 /\ cyc[s].v \in Vacancies
                 /\ cyc[s].batch \in Nat
                 /\ cyc[s].text \in Letter
                 /\ cyc[s].gen \in Nat
                 /\ cyc[s].outcome \in JobStatus \union {"none"}
                 /\ cyc[s].target \in PipeStatus \union {"none"}
<1>1. PipeOK /\ JobOK /\ ReqOK /\ CycOK
  BY DEF TypeOK, PipeOK, JobOK, ReqOK, CycOK
<1>2. \A v \in Vacancies : /\ pipe[v].status \in PipeStatus
                           /\ pipe[v].draft \in Letter
                           /\ pipe[v].approved \in Letter
  BY <1>1 DEF PipeOK, PipeRow
<1>3. \A v \in Vacancies : /\ job[v].status \in JobStatus \union {"none"}
                           /\ job[v].text \in Letter
                           /\ job[v].batch \in Nat
                           /\ job[v].gen \in Nat
  BY <1>1 DEF JobOK, JobRow
<1>4. \A c \in Clients : /\ req[c].v \in Vacancies
                         /\ req[c].text \in Letter
                         /\ req[c].seen \in JobStatus \union {"none"}
  BY <1>1 DEF ReqOK, Request
<1>5. \A s \in Senders : /\ cyc[s].v \in Vacancies
                         /\ cyc[s].batch \in Nat
                         /\ cyc[s].text \in Letter
                         /\ cyc[s].gen \in Nat
                         /\ cyc[s].outcome \in JobStatus \union {"none"}
                         /\ cyc[s].target \in PipeStatus \union {"none"}
  BY <1>1 DEF CycOK, Cycle
<1>6. \A v \in Vacancies : responded[v] \in BOOLEAN
  BY DEF TypeOK
<1>7. QED
  BY <1>1, <1>2, <1>3, <1>4, <1>5, <1>6

\* The histories and hh's state, whose types no two steps share.
HistOK ==
    /\ batches \in Nat
    /\ responded \in [Vacancies -> BOOLEAN]
    /\ inflight \in SUBSET Vacancies
    /\ approvals \in [Vacancies -> SUBSET Letter]
    /\ posts \in [Vacancies -> Seq([gen : Nat, text : Letter])]
    /\ settled \in SUBSET Vacancies

\* The type invariant, split by the part of the state it is about.
LEMMA TypeParts ==
    TypeOK <=> PipeOK /\ JobOK /\ ReqOK /\ CycOK /\ HistOK
  BY DEF TypeOK, PipeOK, JobOK, ReqOK, CycOK, HistOK

\* A POST appends one typed record to the history.
LEMMA PostTyped ==
    ASSUME TypeOK, NEW s \in Senders, Post(s)
    PROVE  posts' \in [Vacancies -> Seq([gen : Nat, text : Letter])]
<1> DEFINE r == [gen |-> cyc[s].gen, text |-> cyc[s].text]
           v == cyc[s].v
<1>1. r \in [gen : Nat, text : Letter]
  BY Fields
<1>2. v \in Vacancies
  BY Fields
<1>3. posts \in [Vacancies -> Seq([gen : Nat, text : Letter])]
  BY DEF TypeOK
<1>4. posts' = [posts EXCEPT ![v] = Append(posts[v], r)]
  BY DEF Post
<1> HIDE DEF r, v
<1>5. Append(posts[v], r) \in Seq([gen : Nat, text : Letter])
  <2>1. posts[v] \in Seq([gen : Nat, text : Letter])
    BY <1>2, <1>3
  <2>2. QED
    BY <1>1, <2>1, AppendProperties
<1>6. QED
  BY <1>2, <1>3, <1>4, <1>5

\* Every step keeps every type.
LEMMA TypeStep == TypeOK /\ RoleInv /\ [Next]_vars => TypeOK'
<1> SUFFICES ASSUME TypeOK, RoleInv, [Next]_vars
             PROVE  TypeOK'
  OBVIOUS
<1>0. NoText \in Letter /\ Texts \subseteq Letter
  BY DEF Letter
<1>f. PipeOK /\ JobOK /\ ReqOK /\ CycOK /\ HistOK
  BY TypeParts
<1> USE <1>0, StatusNames, StepNames, Fields DEF rows, hh, hist
<1>1. ASSUME NEW v \in Vacancies, Decide(v)
      PROVE  TypeOK'
  <2>1. JobOK' /\ ReqOK' /\ CycOK' /\ HistOK'
    BY <1>1, <1>f DEF Decide, JobOK, ReqOK, CycOK, HistOK
  <2>2. PipeOK'
    BY <1>1, <1>f, PipeTyped DEF Decide, PipeOK
  <2>3. QED
    BY <2>1, <2>2, TypeParts
       DEF PipeOK, JobOK, ReqOK, CycOK, HistOK, TypeOK
<1>2. ASSUME NEW v \in Vacancies, EnrichArchive(v)
      PROVE  TypeOK'
  <2>1. JobOK' /\ ReqOK' /\ CycOK' /\ HistOK'
    BY <1>2, <1>f DEF EnrichArchive, JobOK, ReqOK, CycOK, HistOK
  <2>2. PipeOK'
    BY <1>2, <1>f, PipeTyped DEF EnrichArchive, PipeOK
  <2>3. QED
    BY <2>1, <2>2, TypeParts
       DEF PipeOK, JobOK, ReqOK, CycOK, HistOK, TypeOK
<1>3. ASSUME NEW v \in Vacancies, GenerateDraft(v)
      PROVE  TypeOK'
  <2>1. JobOK' /\ ReqOK' /\ CycOK' /\ HistOK'
    BY <1>3, <1>f DEF GenerateDraft, JobOK, ReqOK, CycOK, HistOK
  <2>2. PipeOK'
    BY <1>3, <1>f, PipeTyped DEF GenerateDraft, PipeOK
  <2>3. QED
    BY <2>1, <2>2, TypeParts
       DEF PipeOK, JobOK, ReqOK, CycOK, HistOK, TypeOK
<1>4. ASSUME NEW v \in Vacancies, SaveDraft(v)
      PROVE  TypeOK'
  <2>1. JobOK' /\ ReqOK' /\ CycOK' /\ HistOK'
    BY <1>4, <1>f DEF SaveDraft, JobOK, ReqOK, CycOK, HistOK
  <2>2. PipeOK'
    BY <1>4, <1>f, PipeTyped DEF SaveDraft, PipeOK
  <2>3. QED
    BY <2>1, <2>2, TypeParts
       DEF PipeOK, JobOK, ReqOK, CycOK, HistOK, TypeOK
<1>5. ASSUME NEW v \in Vacancies, LateResponse(v)
      PROVE  TypeOK'
  <2>1. PipeOK' /\ JobOK' /\ ReqOK' /\ CycOK'
    BY <1>5, <1>f DEF LateResponse, PipeOK, JobOK, ReqOK, CycOK
  <2>2. HistOK'
    BY <1>5, <1>f DEF LateResponse, HistOK
  <2>3. QED
    BY <2>1, <2>2, TypeParts
       DEF PipeOK, JobOK, ReqOK, CycOK, HistOK, TypeOK
<1>6. ASSUME NEW v \in Vacancies, RespondElsewhere(v)
      PROVE  TypeOK'
  <2>1. PipeOK' /\ JobOK' /\ ReqOK' /\ CycOK'
    BY <1>6, <1>f DEF RespondElsewhere, PipeOK, JobOK, ReqOK, CycOK
  <2>2. HistOK'
    BY <1>6, <1>f DEF RespondElsewhere, HistOK
  <2>3. QED
    BY <2>1, <2>2, TypeParts
       DEF PipeOK, JobOK, ReqOK, CycOK, HistOK, TypeOK
<1>7. ASSUME NEW c \in Clients, NEW v \in Vacancies, StartSaveApproved(c, v)
      PROVE  TypeOK'
  <2>1. PipeOK' /\ JobOK' /\ CycOK' /\ HistOK'
    BY <1>7, <1>f DEF StartSaveApproved, PipeOK, JobOK, CycOK, HistOK
  <2>2. ReqOK'
    BY <1>7, <1>f, ReqTyped DEF StartSaveApproved
  <2>3. QED
    BY <2>1, <2>2, TypeParts
       DEF PipeOK, JobOK, ReqOK, CycOK, HistOK, TypeOK
<1>8. ASSUME NEW c \in Clients, NEW v \in Vacancies, StartApprove(c, v)
      PROVE  TypeOK'
  <2>1. PipeOK' /\ JobOK' /\ CycOK' /\ HistOK'
    BY <1>8, <1>f DEF StartApprove, PipeOK, JobOK, CycOK, HistOK
  <2>2. ReqOK'
    BY <1>8, <1>f, ReqTyped DEF StartApprove
  <2>3. QED
    BY <2>1, <2>2, TypeParts
       DEF PipeOK, JobOK, ReqOK, CycOK, HistOK, TypeOK
<1>9. ASSUME NEW c \in Clients, NEW v \in Vacancies, StartQueue(c, v)
      PROVE  TypeOK'
  <2>1. PipeOK' /\ JobOK' /\ CycOK' /\ HistOK'
    BY <1>9, <1>f DEF StartQueue, PipeOK, JobOK, CycOK, HistOK
  <2>2. ReqOK'
    BY <1>9, <1>f, ReqTyped DEF StartQueue
  <2>3. QED
    BY <2>1, <2>2, TypeParts
       DEF PipeOK, JobOK, ReqOK, CycOK, HistOK, TypeOK
<1>10. ASSUME NEW c \in Clients, NEW v \in Vacancies, StartCancel(c, v)
      PROVE  TypeOK'
  <2>1. PipeOK' /\ JobOK' /\ CycOK' /\ HistOK'
    BY <1>10, <1>f DEF StartCancel, PipeOK, JobOK, CycOK, HistOK
  <2>2. ReqOK'
    BY <1>10, <1>f, ReqTyped DEF StartCancel
  <2>3. QED
    BY <2>1, <2>2, TypeParts
       DEF PipeOK, JobOK, ReqOK, CycOK, HistOK, TypeOK
<1>11. ASSUME NEW c \in Clients, NEW v \in Vacancies, StartReset(c, v)
      PROVE  TypeOK'
  <2>1. PipeOK' /\ JobOK' /\ CycOK' /\ HistOK'
    BY <1>11, <1>f DEF StartReset, PipeOK, JobOK, CycOK, HistOK
  <2>2. ReqOK'
    BY <1>11, <1>f, ReqTyped DEF StartReset
  <2>3. QED
    BY <2>1, <2>2, TypeParts
       DEF PipeOK, JobOK, ReqOK, CycOK, HistOK, TypeOK
<1>12. ASSUME NEW c \in Clients, SaveCheckJob(c)
      PROVE  TypeOK'
  <2>1. PipeOK' /\ JobOK' /\ CycOK' /\ HistOK'
    BY <1>12, <1>f DEF SaveCheckJob, PipeOK, JobOK, CycOK, HistOK
  <2>2. ReqOK'
    BY <1>12, <1>f, ReqTyped DEF SaveCheckJob
  <2>3. QED
    BY <2>1, <2>2, TypeParts
       DEF PipeOK, JobOK, ReqOK, CycOK, HistOK, TypeOK
<1>13. ASSUME NEW c \in Clients, SaveApproved(c)
      PROVE  TypeOK'
  <2>1. JobOK' /\ CycOK' /\ HistOK'
    BY <1>13, <1>f DEF SaveApproved, JobOK, CycOK, HistOK
  <2>2. PipeOK'
    BY <1>13, <1>f, PipeTyped DEF SaveApproved, PipeOK
  <2>3. ReqOK'
    BY <1>13, <1>f, ReqTyped DEF SaveApproved
  <2>4. QED
    BY <2>1, <2>2, <2>3, TypeParts
       DEF PipeOK, JobOK, ReqOK, CycOK, HistOK, TypeOK
<1>14. ASSUME NEW c \in Clients, ApproveWrite(c)
      PROVE  TypeOK'
  <2>1. JobOK' /\ CycOK'
    BY <1>14, <1>f DEF ApproveWrite, JobOK, CycOK
  <2>2. PipeOK'
    BY <1>14, <1>f, PipeTyped DEF ApproveWrite, PipeOK
  <2>3. ReqOK'
    BY <1>14, <1>f, ReqTyped DEF ApproveWrite
  <2>4. HistOK'
    <3>1. [approvals EXCEPT ![req[c].v] = @ \union {req[c].text}]
             \in [Vacancies -> SUBSET Letter]
      BY <1>f DEF HistOK
    <3>2. QED
      BY <1>14, <1>f, <3>1 DEF ApproveWrite, HistOK
  <2>5. QED
    BY <2>1, <2>2, <2>3, <2>4, TypeParts
       DEF PipeOK, JobOK, ReqOK, CycOK, HistOK, TypeOK
<1>15. ASSUME NEW c \in Clients, QueueReadJob(c)
      PROVE  TypeOK'
  <2>1. PipeOK' /\ JobOK' /\ CycOK' /\ HistOK'
    BY <1>15, <1>f DEF QueueReadJob, PipeOK, JobOK, CycOK, HistOK
  <2>2. ReqOK'
    BY <1>15, <1>f, ReqTyped DEF QueueReadJob
  <2>3. QED
    BY <2>1, <2>2, TypeParts
       DEF PipeOK, JobOK, ReqOK, CycOK, HistOK, TypeOK
<1>16. ASSUME NEW c \in Clients, QueuePut(c)
      PROVE  TypeOK'
  <2>1. PipeOK' /\ CycOK' /\ HistOK'
    BY <1>16, <1>f DEF QueuePut, PipeOK, CycOK, HistOK
  <2>2. JobOK'
    BY <1>16, <1>f, JobTyped DEF QueuePut, JobOK
  <2>3. ReqOK'
    BY <1>16, <1>f, ReqTyped DEF QueuePut
  <2>4. QED
    BY <2>1, <2>2, <2>3, TypeParts
       DEF PipeOK, JobOK, ReqOK, CycOK, HistOK, TypeOK
<1>17. ASSUME NEW c \in Clients, QueueMove(c)
      PROVE  TypeOK'
  <2>1. JobOK' /\ CycOK' /\ HistOK'
    BY <1>17, <1>f DEF QueueMove, JobOK, CycOK, HistOK
  <2>2. PipeOK'
    BY <1>17, <1>f, PipeTyped DEF QueueMove, PipeOK
  <2>3. ReqOK'
    BY <1>17, <1>f, ReqTyped DEF QueueMove
  <2>4. QED
    BY <2>1, <2>2, <2>3, TypeParts
       DEF PipeOK, JobOK, ReqOK, CycOK, HistOK, TypeOK
<1>18. ASSUME NEW c \in Clients, QueueUndo(c)
      PROVE  TypeOK'
  <2>1. PipeOK' /\ CycOK' /\ HistOK'
    BY <1>18, <1>f DEF QueueUndo, PipeOK, CycOK, HistOK
  <2>2. JobOK'
    BY <1>18, <1>f, JobTyped DEF QueueUndo, JobOK
  <2>3. ReqOK'
    BY <1>18, <1>f, ReqTyped DEF QueueUndo
  <2>4. QED
    BY <2>1, <2>2, <2>3, TypeParts
       DEF PipeOK, JobOK, ReqOK, CycOK, HistOK, TypeOK
<1>19. ASSUME NEW c \in Clients, CancelJob(c)
      PROVE  TypeOK'
  <2>1. PipeOK' /\ CycOK' /\ HistOK'
    BY <1>19, <1>f DEF CancelJob, PipeOK, CycOK, HistOK
  <2>2. JobOK'
    BY <1>19, <1>f, JobTyped DEF CancelJob, JobOK
  <2>3. ReqOK'
    BY <1>19, <1>f, ReqTyped DEF CancelJob
  <2>4. QED
    BY <2>1, <2>2, <2>3, TypeParts
       DEF PipeOK, JobOK, ReqOK, CycOK, HistOK, TypeOK
<1>20. ASSUME NEW c \in Clients, CancelMove(c)
      PROVE  TypeOK'
  <2>1. JobOK' /\ CycOK' /\ HistOK'
    BY <1>20, <1>f DEF CancelMove, JobOK, CycOK, HistOK
  <2>2. PipeOK'
    BY <1>20, <1>f, PipeTyped DEF CancelMove, PipeOK
  <2>3. ReqOK'
    BY <1>20, <1>f, ReqTyped DEF CancelMove
  <2>4. QED
    BY <2>1, <2>2, <2>3, TypeParts
       DEF PipeOK, JobOK, ReqOK, CycOK, HistOK, TypeOK
<1>21. ASSUME NEW c \in Clients, ResetReadJob(c)
      PROVE  TypeOK'
  <2>1. PipeOK' /\ JobOK' /\ CycOK' /\ HistOK'
    BY <1>21, <1>f DEF ResetReadJob, PipeOK, JobOK, CycOK, HistOK
  <2>2. ReqOK'
    BY <1>21, <1>f, ReqTyped DEF ResetReadJob
  <2>3. QED
    BY <2>1, <2>2, TypeParts
       DEF PipeOK, JobOK, ReqOK, CycOK, HistOK, TypeOK
<1>22. ASSUME NEW c \in Clients, ResetPut(c)
      PROVE  TypeOK'
  <2>1. PipeOK' /\ CycOK' /\ HistOK'
    BY <1>22, <1>f DEF ResetPut, PipeOK, CycOK, HistOK
  <2>2. JobOK'
    BY <1>22, <1>f, JobTyped DEF ResetPut, JobOK
  <2>3. ReqOK'
    BY <1>22, <1>f, ReqTyped DEF ResetPut
  <2>4. QED
    BY <2>1, <2>2, <2>3, TypeParts
       DEF PipeOK, JobOK, ReqOK, CycOK, HistOK, TypeOK
<1>23. ASSUME NEW c \in Clients, ResetMove(c)
      PROVE  TypeOK'
  <2>1. JobOK' /\ CycOK' /\ HistOK'
    BY <1>23, <1>f DEF ResetMove, JobOK, CycOK, HistOK
  <2>2. PipeOK'
    BY <1>23, <1>f, PipeTyped DEF ResetMove, PipeOK
  <2>3. ReqOK'
    BY <1>23, <1>f, ReqTyped DEF ResetMove
  <2>4. QED
    BY <2>1, <2>2, <2>3, TypeParts
       DEF PipeOK, JobOK, ReqOK, CycOK, HistOK, TypeOK
<1>24. ASSUME NEW c \in Clients, ResetUndo(c)
      PROVE  TypeOK'
  <2>1. PipeOK' /\ CycOK' /\ HistOK'
    BY <1>24, <1>f DEF ResetUndo, PipeOK, CycOK, HistOK
  <2>2. JobOK'
    BY <1>24, <1>f, JobTyped DEF ResetUndo, JobOK
  <2>3. ReqOK'
    BY <1>24, <1>f, ReqTyped DEF ResetUndo
  <2>4. QED
    BY <2>1, <2>2, <2>3, TypeParts
       DEF PipeOK, JobOK, ReqOK, CycOK, HistOK, TypeOK
<1>25. ASSUME NEW c \in Clients, CrashRequest(c)
      PROVE  TypeOK'
  <2>1. PipeOK' /\ JobOK' /\ CycOK' /\ HistOK'
    BY <1>25, <1>f DEF CrashRequest, PipeOK, JobOK, CycOK, HistOK
  <2>2. ReqOK'
    BY <1>25, <1>f, ReqTyped DEF CrashRequest
  <2>3. QED
    BY <2>1, <2>2, TypeParts
       DEF PipeOK, JobOK, ReqOK, CycOK, HistOK, TypeOK
<1>26. ASSUME CreateBatch
      PROVE  TypeOK'
  <2>1. PipeOK' /\ ReqOK' /\ CycOK'
    BY <1>26, <1>f DEF CreateBatch, PipeOK, ReqOK, CycOK
  <2>2. JobOK'
    <3>1. PICK S \in SUBSET Vacancies :
             job' = [v \in Vacancies |->
                       IF v \in S
                       THEN [status |-> job[v].status, text |-> job[v].text,
                             batch |-> batches + 1, gen |-> job[v].gen]
                       ELSE job[v]]
      BY <1>26 DEF CreateBatch
    <3>2. \A v \in Vacancies :
             [status |-> job[v].status, text |-> job[v].text,
              batch |-> batches + 1, gen |-> job[v].gen] \in JobRow
      BY <1>f DEF JobRow, HistOK
    <3>3. \A v \in Vacancies : job'[v] \in JobRow
      BY <3>1, <3>2, <1>f DEF JobOK
    <3>4. QED
      BY <3>1, <3>3 DEF JobOK
  <2>3. HistOK'
    <3>1. batches' = batches + 1
      BY <1>26 DEF CreateBatch
    <3>2. UNCHANGED <<hh, hist>>
      BY <1>26 DEF CreateBatch
    <3>3. batches' \in Nat
      BY <3>1, <1>f DEF HistOK
    <3>4. QED
      BY <3>2, <3>3, <1>f DEF HistOK
  <2>4. QED
    BY <2>1, <2>2, <2>3, TypeParts
       DEF PipeOK, JobOK, ReqOK, CycOK, HistOK, TypeOK
<1>27. ASSUME NEW s \in Senders, NEW b \in 1..MaxBatches,
              NEW v \in Vacancies, NextJob(s, b, v)
      PROVE  TypeOK'
  <2>1. PipeOK' /\ JobOK' /\ ReqOK' /\ HistOK'
    BY <1>27, <1>f DEF NextJob, PipeOK, JobOK, ReqOK, HistOK
  <2>2. CycOK'
    <3>1. [pc |-> "claim", batch |-> b, v |-> v,
           text |-> job[v].text, gen |-> job[v].gen,
           outcome |-> "none", target |-> "none"] \in Cycle
      BY SendQueueAssumption DEF Cycle
    <3>2. QED
      BY <1>27, <1>f, <3>1 DEF NextJob, CycOK
  <2>3. QED
    BY <2>1, <2>2, TypeParts
       DEF PipeOK, JobOK, ReqOK, CycOK, HistOK, TypeOK
<1>28. ASSUME NEW s \in Senders, Claim(s)
      PROVE  TypeOK'
  <2>1. PipeOK' /\ ReqOK' /\ HistOK'
    BY <1>28, <1>f DEF Claim, PipeOK, ReqOK, HistOK
  <2>2. JobOK'
    BY <1>28, <1>f, JobTyped DEF Claim, JobOK
  <2>3. CycOK'
    BY <1>28, <1>f, CycTyped DEF Claim
  <2>4. QED
    BY <2>1, <2>2, <2>3, TypeParts
       DEF PipeOK, JobOK, ReqOK, CycOK, HistOK, TypeOK
<1>29. ASSUME NEW s \in Senders, Snapshot(s)
      PROVE  TypeOK'
  <2>1. PipeOK' /\ JobOK' /\ ReqOK' /\ HistOK'
    BY <1>29, <1>f DEF Snapshot, PipeOK, JobOK, ReqOK, HistOK
  <2>2. CycOK'
    BY <1>29, <1>f, CycTyped DEF Snapshot, Conclude
  <2>3. QED
    BY <2>1, <2>2, TypeParts
       DEF PipeOK, JobOK, ReqOK, CycOK, HistOK, TypeOK
<1>30. ASSUME NEW s \in Senders, FetchFails(s)
      PROVE  TypeOK'
  <2>1. PipeOK' /\ JobOK' /\ ReqOK' /\ HistOK'
    BY <1>30, <1>f DEF FetchFails, PipeOK, JobOK, ReqOK, HistOK
  <2>2. CycOK'
    BY <1>30, <1>f, CycTyped DEF FetchFails, Conclude
  <2>3. QED
    BY <2>1, <2>2, TypeParts
       DEF PipeOK, JobOK, ReqOK, CycOK, HistOK, TypeOK
<1>31. ASSUME NEW s \in Senders, CycleRaises(s)
      PROVE  TypeOK'
  <2>1. PipeOK' /\ JobOK' /\ ReqOK' /\ HistOK'
    BY <1>31, <1>f DEF CycleRaises, PipeOK, JobOK, ReqOK, HistOK
  <2>2. CycOK'
    BY <1>31, <1>f, CycTyped DEF CycleRaises
  <2>3. QED
    BY <2>1, <2>2, TypeParts
       DEF PipeOK, JobOK, ReqOK, CycOK, HistOK, TypeOK
<1>32. ASSUME NEW s \in Senders, FetchResponded(s)
      PROVE  TypeOK'
  <2>1. PipeOK' /\ JobOK' /\ ReqOK'
    BY <1>32, <1>f DEF FetchResponded, PipeOK, JobOK, ReqOK
  <2>2. CycOK'
    BY <1>32, <1>f, CycTyped DEF FetchResponded, Conclude
  <2>3. HistOK'
    BY <1>32, <1>f DEF FetchResponded, HistOK
  <2>4. QED
    BY <2>1, <2>2, <2>3, TypeParts
       DEF PipeOK, JobOK, ReqOK, CycOK, HistOK, TypeOK
<1>33. ASSUME NEW s \in Senders, FetchHasTest(s)
      PROVE  TypeOK'
  <2>1. PipeOK' /\ JobOK' /\ ReqOK' /\ HistOK'
    BY <1>33, <1>f DEF FetchHasTest, PipeOK, JobOK, ReqOK, HistOK
  <2>2. CycOK'
    BY <1>33, <1>f, CycTyped DEF FetchHasTest, Conclude
  <2>3. QED
    BY <2>1, <2>2, TypeParts
       DEF PipeOK, JobOK, ReqOK, CycOK, HistOK, TypeOK
<1>34. ASSUME NEW s \in Senders, FetchClear(s)
      PROVE  TypeOK'
  <2>1. PipeOK' /\ JobOK' /\ ReqOK' /\ HistOK'
    BY <1>34, <1>f DEF FetchClear, PipeOK, JobOK, ReqOK, HistOK
  <2>2. CycOK'
    BY <1>34, <1>f, CycTyped DEF FetchClear
  <2>3. QED
    BY <2>1, <2>2, TypeParts
       DEF PipeOK, JobOK, ReqOK, CycOK, HistOK, TypeOK
<1>35. ASSUME NEW s \in Senders, SubmitBlocked(s)
      PROVE  TypeOK'
  <2>1. PipeOK' /\ JobOK' /\ ReqOK' /\ HistOK'
    BY <1>35, <1>f DEF SubmitBlocked, PipeOK, JobOK, ReqOK, HistOK
  <2>2. CycOK'
    BY <1>35, <1>f, CycTyped DEF SubmitBlocked
  <2>3. QED
    BY <2>1, <2>2, TypeParts
       DEF PipeOK, JobOK, ReqOK, CycOK, HistOK, TypeOK
<1>36. ASSUME NEW s \in Senders, SubmitAccepted(s)
      PROVE  TypeOK'
  <2>1. PipeOK' /\ JobOK' /\ ReqOK'
    BY <1>36, <1>f DEF SubmitAccepted, PipeOK, JobOK, ReqOK
  <2>2. CycOK'
    BY <1>36, <1>f, CycTyped DEF SubmitAccepted, Conclude
  <2>3. HistOK'
    BY <1>36, <1>f, PostTyped DEF SubmitAccepted, HistOK
  <2>4. QED
    BY <2>1, <2>2, <2>3, TypeParts
       DEF PipeOK, JobOK, ReqOK, CycOK, HistOK, TypeOK
<1>37. ASSUME NEW s \in Senders, SubmitUncertain(s)
      PROVE  TypeOK'
  <2>1. PipeOK' /\ JobOK' /\ ReqOK'
    BY <1>37, <1>f DEF SubmitUncertain, PipeOK, JobOK, ReqOK
  <2>2. CycOK'
    BY <1>37, <1>f, CycTyped DEF SubmitUncertain
  <2>3. HistOK'
    BY <1>37, <1>f, PostTyped DEF SubmitUncertain, HistOK
  <2>4. QED
    BY <2>1, <2>2, <2>3, TypeParts
       DEF PipeOK, JobOK, ReqOK, CycOK, HistOK, TypeOK
<1>38. ASSUME NEW s \in Senders, ReconcileSent(s)
      PROVE  TypeOK'
  <2>1. PipeOK' /\ JobOK' /\ ReqOK'
    BY <1>38, <1>f DEF ReconcileSent, PipeOK, JobOK, ReqOK
  <2>2. CycOK'
    BY <1>38, <1>f, CycTyped DEF ReconcileSent, Conclude
  <2>3. HistOK'
    BY <1>38, <1>f DEF ReconcileSent, HistOK
  <2>4. QED
    BY <2>1, <2>2, <2>3, TypeParts
       DEF PipeOK, JobOK, ReqOK, CycOK, HistOK, TypeOK
<1>39. ASSUME NEW s \in Senders, ReconcileFailed(s)
      PROVE  TypeOK'
  <2>1. PipeOK' /\ JobOK' /\ ReqOK' /\ HistOK'
    BY <1>39, <1>f DEF ReconcileFailed, PipeOK, JobOK, ReqOK, HistOK
  <2>2. CycOK'
    BY <1>39, <1>f, CycTyped DEF ReconcileFailed, Conclude
  <2>3. QED
    BY <2>1, <2>2, TypeParts
       DEF PipeOK, JobOK, ReqOK, CycOK, HistOK, TypeOK
<1>40. ASSUME NEW s \in Senders, Finish(s)
      PROVE  TypeOK'
  <2>1. PipeOK' /\ ReqOK' /\ HistOK'
    BY <1>40, <1>f DEF Finish, PipeOK, ReqOK, HistOK
  <2>2. JobOK'
    BY <1>40, <1>f, JobTyped DEF Finish, JobOK
  <2>3. CycOK'
    BY <1>40, <1>f, CycTyped DEF Finish
  <2>4. QED
    BY <2>1, <2>2, <2>3, TypeParts
       DEF PipeOK, JobOK, ReqOK, CycOK, HistOK, TypeOK
<1>41. ASSUME NEW s \in Senders, Move(s)
      PROVE  TypeOK'
  <2>1. JobOK' /\ ReqOK' /\ HistOK'
    BY <1>41, <1>f DEF Move, JobOK, ReqOK, HistOK
  <2>2. PipeOK'
    <3>1. cyc[s].target \in PipeStatus
      BY <1>41 DEF Move, RoleInv
    <3>2. QED
      BY <1>41, <1>f, <3>1, PipeTyped DEF Move, PipeOK
  <2>3. CycOK'
    BY <1>41, <1>f, CycTyped DEF Move
  <2>4. QED
    BY <2>1, <2>2, <2>3, TypeParts
       DEF PipeOK, JobOK, ReqOK, CycOK, HistOK, TypeOK
<1>42. ASSUME NEW s \in Senders, CrashCycle(s)
      PROVE  TypeOK'
  <2>1. PipeOK' /\ JobOK' /\ ReqOK' /\ HistOK'
    BY <1>42, <1>f DEF CrashCycle, PipeOK, JobOK, ReqOK, HistOK
  <2>2. CycOK'
    BY <1>42, <1>f, CycTyped DEF CrashCycle
  <2>3. QED
    BY <2>1, <2>2, TypeParts
       DEF PipeOK, JobOK, ReqOK, CycOK, HistOK, TypeOK
<1>43. CASE UNCHANGED vars
  BY <1>43 DEF vars, TypeOK
<1>44. ASSUME NEW c \in Clients, NEW v \in Vacancies, StartRequest(c, v)
       PROVE  TypeOK'
  BY <1>44, <1>7, <1>8, <1>9, <1>10, <1>11
     DEF StartRequest
<1>45. ASSUME NEW c \in Clients, RequestNext(c) \/ CrashRequest(c)
       PROVE  TypeOK'
  BY <1>45, <1>12, <1>13, <1>14, <1>15, <1>16, <1>17, <1>18, <1>19, <1>20,
     <1>21, <1>22, <1>23, <1>24, <1>25
     DEF RequestNext
<1>46. ASSUME NEW s \in Senders, CycleNext(s) \/ CrashCycle(s)
       PROVE  TypeOK'
  BY <1>46, <1>28, <1>29, <1>30, <1>31, <1>32, <1>33, <1>34, <1>35, <1>36,
     <1>37, <1>38, <1>39, <1>40, <1>41, <1>42
     DEF CycleNext
<1>47. QED
  BY <1>1, <1>2, <1>3, <1>4, <1>5, <1>6, <1>26, <1>27, <1>43, <1>44, <1>45,
     <1>46
     DEF Next, UserStep

-----------------------------------------------------------------------------
(* What a step does to the queue and to the cycles.  Most steps never make  *)
(* a job queued, never change what a job carries, and only take cycles      *)
(* forward; the five that do more are treated one by one below.             *)

\* No job becomes queued; text, batch and generation are kept.
JobKept ==
    \A v \in Vacancies :
        /\ job'[v].text = job[v].text
        /\ job'[v].batch = job[v].batch
        /\ job'[v].gen = job[v].gen
        /\ job'[v].status # job[v].status => job'[v].status # "queued"

\* Cycle s ends, or goes on with the same job, or stays where it is.
CycleKept(s) ==
    \/ cyc'[s].pc = "idle"
    \/ /\ cyc'[s].v = cyc[s].v
       /\ cyc'[s].text = cyc[s].text
       /\ cyc'[s].gen = cyc[s].gen
       /\ cyc'[s].batch = cyc[s].batch
       /\ \/ cyc'[s].pc = cyc[s].pc
          \/ /\ cyc[s].pc \in Holding
             /\ cyc'[s].pc \in Holding
             /\ cyc'[s].pc \in PrePost => cyc[s].pc \in PrePost

CyclesKept == \A s \in Senders : CycleKept(s)

\* The new value of one job, pointwise.
LEMMA JobWithEffect ==
    ASSUME TypeOK, NEW v \in Vacancies, NEW st, job' = JobWith(v, st)
    PROVE  /\ job'[v].status = st
           /\ \A w \in Vacancies \ {v} : job'[w] = job[w]
           /\ st # "queued" => JobKept
<1>1. /\ \A w \in Vacancies \ {v} : job'[w] = job[w]
      /\ job'[v] = [status |-> st, text |-> job[v].text,
                    batch |-> job[v].batch, gen |-> job[v].gen]
  BY DEF JobWith, TypeOK
<1>2. /\ job'[v].status = st
      /\ job'[v].text = job[v].text
      /\ job'[v].batch = job[v].batch
      /\ job'[v].gen = job[v].gen
  BY <1>1
<1>3. QED
  BY <1>1, <1>2 DEF JobKept

\* The new value of one cycle, pointwise.
LEMMA CycleAtEffect ==
    ASSUME TypeOK, NEW s \in Senders, NEW step, NEW out, NEW to,
           CycleAt(s, step, out, to)
    PROVE  /\ \A t \in Senders \ {s} : cyc'[t] = cyc[t]
           /\ cyc'[s].pc = step
           /\ cyc'[s].batch = cyc[s].batch
           /\ cyc'[s].v = cyc[s].v
           /\ cyc'[s].text = cyc[s].text
           /\ cyc'[s].gen = cyc[s].gen
           /\ cyc'[s].outcome = out
           /\ cyc'[s].target = to
<1>1. /\ \A t \in Senders \ {s} : cyc'[t] = cyc[t]
      /\ cyc'[s] = [pc |-> step, batch |-> cyc[s].batch, v |-> cyc[s].v,
                    text |-> cyc[s].text, gen |-> cyc[s].gen,
                    outcome |-> out, target |-> to]
  BY DEF CycleAt, TypeOK
<1>2. QED
  BY <1>1

\* A cycle that ends touches no other cycle and keeps no outcome.
LEMMA CycleDoneEffect ==
    ASSUME TypeOK, NEW s \in Senders, CycleDone(s)
    PROVE  /\ \A t \in Senders \ {s} : cyc'[t] = cyc[t]
           /\ cyc'[s].pc = "idle"
           /\ cyc'[s].outcome = "none"
           /\ cyc'[s].target = "none"
<1>1. /\ \A t \in Senders \ {s} : cyc'[t] = cyc[t]
      /\ cyc'[s] = IdleCycle
  BY DEF CycleDone, TypeOK
<1>2. QED
  BY <1>1 DEF IdleCycle

\* The new value of one request, pointwise.
LEMMA RequestEffect ==
    ASSUME TypeOK, NEW c \in Clients
    PROVE  /\ \A step, v, t : Start(c, step, v, t) =>
                 /\ \A d \in Clients \ {c} : req'[d] = req[d]
                 /\ req'[c].pc = step /\ req'[c].v = v
                 /\ req'[c].text = t /\ req'[c].seen = "none"
           /\ \A step, seen : GotoSeen(c, step, seen) =>
                 /\ \A d \in Clients \ {c} : req'[d] = req[d]
                 /\ req'[c].pc = step /\ req'[c].v = req[c].v
                 /\ req'[c].text = req[c].text /\ req'[c].seen = seen
           /\ \A step : Goto(c, step) =>
                 /\ \A d \in Clients \ {c} : req'[d] = req[d]
                 /\ req'[c].pc = step /\ req'[c].v = req[c].v
                 /\ req'[c].text = req[c].text /\ req'[c].seen = req[c].seen
           /\ Done(c) =>
                 /\ \A d \in Clients \ {c} : req'[d] = req[d]
                 /\ req'[c].pc = "idle"
<1>1. ASSUME NEW step, NEW v, NEW t, Start(c, step, v, t)
      PROVE  /\ \A d \in Clients \ {c} : req'[d] = req[d]
             /\ req'[c].pc = step /\ req'[c].v = v
             /\ req'[c].text = t /\ req'[c].seen = "none"
  <2>1. /\ \A d \in Clients \ {c} : req'[d] = req[d]
        /\ req'[c] = [pc |-> step, v |-> v, text |-> t, seen |-> "none"]
    BY <1>1 DEF Start, TypeOK
  <2>2. QED
    BY <2>1
<1>2. ASSUME NEW step, NEW seen, GotoSeen(c, step, seen)
      PROVE  /\ \A d \in Clients \ {c} : req'[d] = req[d]
             /\ req'[c].pc = step /\ req'[c].v = req[c].v
             /\ req'[c].text = req[c].text /\ req'[c].seen = seen
  <2>1. /\ \A d \in Clients \ {c} : req'[d] = req[d]
        /\ req'[c] = [pc |-> step, v |-> req[c].v,
                      text |-> req[c].text, seen |-> seen]
    BY <1>2 DEF GotoSeen, TypeOK
  <2>2. QED
    BY <2>1
<1>3. Done(c) => /\ \A d \in Clients \ {c} : req'[d] = req[d]
                 /\ req'[c].pc = "idle"
  <2>1. Done(c) => /\ \A d \in Clients \ {c} : req'[d] = req[d]
                   /\ req'[c] = IdleReq
    BY DEF Done, TypeOK
  <2>2. QED
    BY <2>1 DEF IdleReq
<1>4. QED
  BY <1>1, <1>2, <1>3 DEF Goto

\* The new table of vacancies after one write, pointwise.
LEMMA PipeEffect ==
    ASSUME TypeOK, NEW v \in Vacancies
    PROVE  /\ \A st, d, a : pipe' = RowWith(v, st, d, a) =>
                 /\ \A w \in Vacancies \ {v} : pipe'[w] = pipe[w]
                 /\ pipe'[v].status = st
                 /\ pipe'[v].draft = d
                 /\ pipe'[v].approved = a
           /\ \A st : pipe' = PipeWith(v, st) =>
                 /\ \A w \in Vacancies \ {v} : pipe'[w] = pipe[w]
                 /\ pipe'[v].status = st
                 /\ pipe'[v].draft = pipe[v].draft
                 /\ pipe'[v].approved = pipe[v].approved
           /\ \A from, to : pipe' = Moved(v, from, to) =>
                 \/ pipe' = pipe
                 \/ /\ pipe[v].status = from
                    /\ \A w \in Vacancies \ {v} : pipe'[w] = pipe[w]
                    /\ pipe'[v].status = to
                    /\ pipe'[v].draft = pipe[v].draft
                    /\ pipe'[v].approved = pipe[v].approved
<1>1. ASSUME NEW st, NEW d, NEW a, pipe' = RowWith(v, st, d, a)
      PROVE  /\ \A w \in Vacancies \ {v} : pipe'[w] = pipe[w]
             /\ pipe'[v].status = st
             /\ pipe'[v].draft = d
             /\ pipe'[v].approved = a
  <2>1. /\ \A w \in Vacancies \ {v} : pipe'[w] = pipe[w]
        /\ pipe'[v] = [status |-> st, draft |-> d, approved |-> a]
    BY <1>1 DEF RowWith, TypeOK
  <2>2. QED
    BY <2>1
<1>2. QED
  BY <1>1 DEF Moved, PipeWith

\* The new queue after queue_approved has put a job in it, pointwise.
LEMMA EnqueuedEffect ==
    ASSUME TypeOK, NEW v \in Vacancies, NEW t, job' = Enqueued(v, t)
    PROVE  /\ \A w \in Vacancies \ {v} : job'[w] = job[w]
           /\ job'[v].status = "queued"
           /\ job'[v].text = t
           /\ job'[v].batch = 0
           /\ job'[v].gen = job[v].gen + 1
<1>1. /\ \A w \in Vacancies \ {v} : job'[w] = job[w]
      /\ job'[v] = QueuedJob(v, t)
  BY DEF Enqueued, TypeOK
<1>2. QED
  BY <1>1 DEF QueuedJob

\* hh's table of responses after a response has taken effect, pointwise.
LEMMA RespondedEffect ==
    ASSUME TypeOK, NEW v \in Vacancies,
           responded' = [responded EXCEPT ![v] = TRUE]
    PROVE  /\ responded'[v]
           /\ \A w \in Vacancies : responded[w] => responded'[w]
  BY DEF TypeOK

\* Every step leaves requests and cycles fit for their next statement.
LEMMA RoleStep == TypeOK /\ RoleInv /\ [Next]_vars => RoleInv'
<1> SUFFICES ASSUME TypeOK, RoleInv, [Next]_vars
             PROVE  RoleInv'
  OBVIOUS
<1> USE DEF rows, hh, hist
<1>1. ASSUME \/ \E v \in Vacancies :
                  \/ Decide(v) \/ EnrichArchive(v) \/ GenerateDraft(v)
                  \/ SaveDraft(v) \/ LateResponse(v)
                  \/ RespondElsewhere(v)
             \/ CreateBatch
      PROVE  RoleInv'
  BY <1>1 DEF RoleInv, Decide, EnrichArchive, GenerateDraft, SaveDraft,
               LateResponse, RespondElsewhere, CreateBatch
<1>2. ASSUME NEW c \in Clients, NEW v \in Vacancies, StartSaveApproved(c, v)
      PROVE  RoleInv'
  BY <1>2, RequestEffect
     DEF StartSaveApproved, RoleInv
<1>3. ASSUME NEW c \in Clients, NEW v \in Vacancies, StartApprove(c, v)
      PROVE  RoleInv'
  BY <1>3, RequestEffect
     DEF StartApprove, RoleInv
<1>4. ASSUME NEW c \in Clients, NEW v \in Vacancies, StartQueue(c, v)
      PROVE  RoleInv'
  BY <1>4, RequestEffect
     DEF StartQueue, RoleInv
<1>5. ASSUME NEW c \in Clients, NEW v \in Vacancies, StartCancel(c, v)
      PROVE  RoleInv'
  BY <1>5, RequestEffect
     DEF StartCancel, RoleInv
<1>6. ASSUME NEW c \in Clients, NEW v \in Vacancies, StartReset(c, v)
      PROVE  RoleInv'
  BY <1>6, RequestEffect
     DEF StartReset, RoleInv
<1>7. ASSUME NEW c \in Clients, SaveCheckJob(c)
      PROVE  RoleInv'
  BY <1>7, RequestEffect
     DEF SaveCheckJob, RoleInv
<1>8. ASSUME NEW c \in Clients, SaveApproved(c)
      PROVE  RoleInv'
  BY <1>8, RequestEffect
     DEF SaveApproved, RoleInv
<1>9. ASSUME NEW c \in Clients, ApproveWrite(c)
      PROVE  RoleInv'
  BY <1>9, RequestEffect
     DEF ApproveWrite, RoleInv
<1>10. ASSUME NEW c \in Clients, QueueReadJob(c)
      PROVE  RoleInv'
  BY <1>10, RequestEffect
     DEF QueueReadJob, RoleInv
<1>11. ASSUME NEW c \in Clients, QueuePut(c)
      PROVE  RoleInv'
  BY <1>11, RequestEffect
     DEF QueuePut, RoleInv
<1>12. ASSUME NEW c \in Clients, QueueMove(c)
      PROVE  RoleInv'
  BY <1>12, RequestEffect
     DEF QueueMove, RoleInv
<1>13. ASSUME NEW c \in Clients, QueueUndo(c)
      PROVE  RoleInv'
  BY <1>13, RequestEffect
     DEF QueueUndo, RoleInv
<1>14. ASSUME NEW c \in Clients, CancelJob(c)
      PROVE  RoleInv'
  BY <1>14, RequestEffect
     DEF CancelJob, RoleInv
<1>15. ASSUME NEW c \in Clients, CancelMove(c)
      PROVE  RoleInv'
  BY <1>15, RequestEffect
     DEF CancelMove, RoleInv
<1>16. ASSUME NEW c \in Clients, ResetReadJob(c)
      PROVE  RoleInv'
  BY <1>16, RequestEffect
     DEF ResetReadJob, RoleInv
<1>17. ASSUME NEW c \in Clients, ResetPut(c)
      PROVE  RoleInv'
  BY <1>17, RequestEffect
     DEF ResetPut, RoleInv
<1>18. ASSUME NEW c \in Clients, ResetMove(c)
      PROVE  RoleInv'
  BY <1>18, RequestEffect
     DEF ResetMove, RoleInv
<1>19. ASSUME NEW c \in Clients, ResetUndo(c)
      PROVE  RoleInv'
  BY <1>19, RequestEffect
     DEF ResetUndo, RoleInv
<1>20. ASSUME NEW c \in Clients, CrashRequest(c)
      PROVE  RoleInv'
  BY <1>20, RequestEffect
     DEF CrashRequest, RoleInv
<1>21. ASSUME NEW s \in Senders, NEW b \in 1..MaxBatches,
              NEW v \in Vacancies, NextJob(s, b, v)
      PROVE  RoleInv'
  BY <1>21, CycleAtEffect, CycleDoneEffect
     DEF NextJob, RoleInv, CycleGoto, Conclude
<1>22. ASSUME NEW s \in Senders, Claim(s)
      PROVE  RoleInv'
  BY <1>22, CycleAtEffect, CycleDoneEffect
     DEF Claim, RoleInv, CycleGoto, Conclude
<1>23. ASSUME NEW s \in Senders, Snapshot(s)
      PROVE  RoleInv'
  BY <1>23, CycleAtEffect, CycleDoneEffect
     DEF Snapshot, RoleInv, CycleGoto, Conclude
<1>24. ASSUME NEW s \in Senders, FetchFails(s)
      PROVE  RoleInv'
  BY <1>24, CycleAtEffect, CycleDoneEffect
     DEF FetchFails, RoleInv, CycleGoto, Conclude
<1>25. ASSUME NEW s \in Senders, CycleRaises(s)
      PROVE  RoleInv'
  BY <1>25, CycleAtEffect, CycleDoneEffect
     DEF CycleRaises, RoleInv, CycleGoto, Conclude
<1>26. ASSUME NEW s \in Senders, FetchResponded(s)
      PROVE  RoleInv'
  BY <1>26, CycleAtEffect, CycleDoneEffect
     DEF FetchResponded, RoleInv, CycleGoto, Conclude
<1>27. ASSUME NEW s \in Senders, FetchHasTest(s)
      PROVE  RoleInv'
  BY <1>27, CycleAtEffect, CycleDoneEffect
     DEF FetchHasTest, RoleInv, CycleGoto, Conclude
<1>28. ASSUME NEW s \in Senders, FetchClear(s)
      PROVE  RoleInv'
  BY <1>28, CycleAtEffect, CycleDoneEffect
     DEF FetchClear, RoleInv, CycleGoto, Conclude
<1>29. ASSUME NEW s \in Senders, SubmitBlocked(s)
      PROVE  RoleInv'
  BY <1>29, CycleAtEffect, CycleDoneEffect
     DEF SubmitBlocked, RoleInv, CycleGoto, Conclude
<1>30. ASSUME NEW s \in Senders, SubmitAccepted(s)
      PROVE  RoleInv'
  BY <1>30, CycleAtEffect, CycleDoneEffect
     DEF SubmitAccepted, RoleInv, CycleGoto, Conclude
<1>31. ASSUME NEW s \in Senders, SubmitUncertain(s)
      PROVE  RoleInv'
  BY <1>31, CycleAtEffect, CycleDoneEffect
     DEF SubmitUncertain, RoleInv, CycleGoto, Conclude
<1>32. ASSUME NEW s \in Senders, ReconcileSent(s)
      PROVE  RoleInv'
  BY <1>32, CycleAtEffect, CycleDoneEffect
     DEF ReconcileSent, RoleInv, CycleGoto, Conclude
<1>33. ASSUME NEW s \in Senders, ReconcileFailed(s)
      PROVE  RoleInv'
  BY <1>33, CycleAtEffect, CycleDoneEffect
     DEF ReconcileFailed, RoleInv, CycleGoto, Conclude
<1>34. ASSUME NEW s \in Senders, Finish(s)
      PROVE  RoleInv'
  BY <1>34, CycleAtEffect, CycleDoneEffect
     DEF Finish, RoleInv, CycleGoto, Conclude
<1>35. ASSUME NEW s \in Senders, Move(s)
      PROVE  RoleInv'
  BY <1>35, CycleAtEffect, CycleDoneEffect
     DEF Move, RoleInv, CycleGoto, Conclude
<1>36. ASSUME NEW s \in Senders, CrashCycle(s)
      PROVE  RoleInv'
  BY <1>36, CycleAtEffect, CycleDoneEffect
     DEF CrashCycle, RoleInv, CycleGoto, Conclude
<1>37. CASE UNCHANGED vars
  BY <1>37 DEF vars, RoleInv
<1>38. ASSUME NEW c \in Clients, NEW v \in Vacancies, StartRequest(c, v)
       PROVE  RoleInv'
  BY <1>38, <1>2, <1>3, <1>4, <1>5, <1>6
     DEF StartRequest
<1>39. ASSUME NEW c \in Clients, RequestNext(c) \/ CrashRequest(c)
       PROVE  RoleInv'
  BY <1>39, <1>7, <1>8, <1>9, <1>10, <1>11, <1>12, <1>13, <1>14, <1>15,
     <1>16, <1>17, <1>18, <1>19, <1>20
     DEF RequestNext
<1>40. ASSUME NEW s \in Senders, CycleNext(s) \/ CrashCycle(s)
       PROVE  RoleInv'
  BY <1>40, <1>22, <1>23, <1>24, <1>25, <1>26, <1>27, <1>28, <1>29, <1>30,
     <1>31, <1>32, <1>33, <1>34, <1>35, <1>36
     DEF CycleNext
<1>41. ASSUME NEW v \in Vacancies,
              UserStep(v) \/ LateResponse(v) \/ RespondElsewhere(v)
       PROVE  RoleInv'
  BY <1>41, <1>1 DEF UserStep
<1>42. CASE CreateBatch
  BY <1>42, <1>1
<1>43. QED
  BY <1>21, <1>37, <1>38, <1>39, <1>40, <1>41, <1>42
     DEF Next

\* Every step that records "sent" finds the response on hh.
LEMMA SentStep == TypeOK /\ RoleInv /\ SentInv /\ [Next]_vars => SentInv'
<1> SUFFICES ASSUME TypeOK, RoleInv, SentInv, [Next]_vars
             PROVE  SentInv'
  OBVIOUS
<1> USE Fields DEF rows, hh, hist
<1>1. ASSUME \/ \E c \in Clients, v \in Vacancies :
                  \/ StartSaveApproved(c, v) \/ StartApprove(c, v)
                  \/ StartQueue(c, v) \/ StartCancel(c, v)
                  \/ StartReset(c, v)
            \/ \E c \in Clients :
                  \/ SaveCheckJob(c) \/ QueueReadJob(c)
                  \/ ResetReadJob(c) \/ CrashRequest(c)
      PROVE  SentInv'
  BY <1>1
     DEF SentInv, SentIsTrue, StartSaveApproved, StartApprove, StartQueue,
         StartCancel, StartReset, SaveCheckJob, QueueReadJob, ResetReadJob,
         CrashRequest
<1>2. ASSUME NEW v \in Vacancies, Decide(v)
      PROVE  SentInv'
  BY <1>2, PipeEffect
     DEF Decide, SentInv, SentIsTrue, RoleInv
<1>3. ASSUME NEW v \in Vacancies, EnrichArchive(v)
      PROVE  SentInv'
  BY <1>3, PipeEffect
     DEF EnrichArchive, SentInv, SentIsTrue, RoleInv
<1>4. ASSUME NEW v \in Vacancies, GenerateDraft(v)
      PROVE  SentInv'
  BY <1>4, PipeEffect
     DEF GenerateDraft, SentInv, SentIsTrue, RoleInv
<1>5. ASSUME NEW v \in Vacancies, SaveDraft(v)
      PROVE  SentInv'
  BY <1>5, PipeEffect
     DEF SaveDraft, SentInv, SentIsTrue, RoleInv
<1>6. ASSUME NEW v \in Vacancies, LateResponse(v)
      PROVE  SentInv'
  BY <1>6, RespondedEffect
     DEF LateResponse, SentInv, SentIsTrue, RoleInv
<1>7. ASSUME NEW v \in Vacancies, RespondElsewhere(v)
      PROVE  SentInv'
  BY <1>7, RespondedEffect
     DEF RespondElsewhere, SentInv, SentIsTrue, RoleInv
<1>8. ASSUME NEW c \in Clients, SaveApproved(c)
      PROVE  SentInv'
  BY <1>8, PipeEffect
     DEF SaveApproved, SentInv, SentIsTrue, RoleInv
<1>9. ASSUME NEW c \in Clients, ApproveWrite(c)
      PROVE  SentInv'
  BY <1>9, PipeEffect, RespondedEffect
     DEF ApproveWrite, SentInv, SentIsTrue, RoleInv
<1>10. ASSUME NEW c \in Clients, QueuePut(c)
      PROVE  SentInv'
  BY <1>10, JobWithEffect, EnqueuedEffect
     DEF QueuePut, SentInv, SentIsTrue, RoleInv
<1>11. ASSUME NEW c \in Clients, QueueMove(c)
      PROVE  SentInv'
  BY <1>11, PipeEffect
     DEF QueueMove, SentInv, SentIsTrue, RoleInv
<1>12. ASSUME NEW c \in Clients, QueueUndo(c)
      PROVE  SentInv'
  BY <1>12, JobWithEffect, EnqueuedEffect
     DEF QueueUndo, SentInv, SentIsTrue, RoleInv
<1>13. ASSUME NEW c \in Clients, CancelJob(c)
      PROVE  SentInv'
  BY <1>13, JobWithEffect, EnqueuedEffect
     DEF CancelJob, SentInv, SentIsTrue, RoleInv
<1>14. ASSUME NEW c \in Clients, CancelMove(c)
      PROVE  SentInv'
  BY <1>14, PipeEffect
     DEF CancelMove, SentInv, SentIsTrue, RoleInv
<1>15. ASSUME NEW c \in Clients, ResetPut(c)
      PROVE  SentInv'
  BY <1>15, JobWithEffect, EnqueuedEffect
     DEF ResetPut, SentInv, SentIsTrue, RoleInv
<1>16. ASSUME NEW c \in Clients, ResetMove(c)
      PROVE  SentInv'
  BY <1>16, PipeEffect
     DEF ResetMove, SentInv, SentIsTrue, RoleInv
<1>17. ASSUME NEW c \in Clients, ResetUndo(c)
      PROVE  SentInv'
  BY <1>17, JobWithEffect, EnqueuedEffect
     DEF ResetUndo, SentInv, SentIsTrue, RoleInv
<1>18. ASSUME CreateBatch
      PROVE  SentInv'
  BY <1>18, JobWithEffect, EnqueuedEffect, RespondedEffect
     DEF CreateBatch, SentInv, SentIsTrue, RoleInv
<1>19. ASSUME NEW s \in Senders, NEW b \in 1..MaxBatches,
              NEW v \in Vacancies, NextJob(s, b, v)
      PROVE  SentInv'
  BY <1>19, CycleAtEffect, CycleDoneEffect
     DEF NextJob, SentInv, SentIsTrue, RoleInv, CycleGoto, Conclude
<1>20. ASSUME NEW s \in Senders, Claim(s)
      PROVE  SentInv'
  BY <1>20, JobWithEffect, EnqueuedEffect, CycleAtEffect, CycleDoneEffect
     DEF Claim, SentInv, SentIsTrue, RoleInv, CycleGoto, Conclude
<1>21. ASSUME NEW s \in Senders, Snapshot(s)
      PROVE  SentInv'
  BY <1>21, CycleAtEffect, CycleDoneEffect
     DEF Snapshot, SentInv, SentIsTrue, RoleInv, CycleGoto, Conclude
<1>22. ASSUME NEW s \in Senders, FetchFails(s)
      PROVE  SentInv'
  BY <1>22, CycleAtEffect, CycleDoneEffect
     DEF FetchFails, SentInv, SentIsTrue, RoleInv, CycleGoto, Conclude
<1>23. ASSUME NEW s \in Senders, CycleRaises(s)
      PROVE  SentInv'
  BY <1>23, CycleAtEffect, CycleDoneEffect
     DEF CycleRaises, SentInv, SentIsTrue, RoleInv, CycleGoto, Conclude
<1>24. ASSUME NEW s \in Senders, FetchResponded(s)
      PROVE  SentInv'
  BY <1>24, CycleAtEffect, CycleDoneEffect, RespondedEffect
     DEF FetchResponded, SentInv, SentIsTrue, RoleInv, CycleGoto, Conclude
<1>25. ASSUME NEW s \in Senders, FetchHasTest(s)
      PROVE  SentInv'
  BY <1>25, CycleAtEffect, CycleDoneEffect
     DEF FetchHasTest, SentInv, SentIsTrue, RoleInv, CycleGoto, Conclude
<1>26. ASSUME NEW s \in Senders, FetchClear(s)
      PROVE  SentInv'
  BY <1>26, CycleAtEffect, CycleDoneEffect
     DEF FetchClear, SentInv, SentIsTrue, RoleInv, CycleGoto, Conclude
<1>27. ASSUME NEW s \in Senders, SubmitBlocked(s)
      PROVE  SentInv'
  BY <1>27, CycleAtEffect, CycleDoneEffect
     DEF SubmitBlocked, SentInv, SentIsTrue, RoleInv, CycleGoto, Conclude
<1>28. ASSUME NEW s \in Senders, SubmitAccepted(s)
      PROVE  SentInv'
  <2>1. /\ responded'[cyc[s].v]
        /\ \A w \in Vacancies : responded[w] => responded'[w]
    BY <1>28, RespondedEffect DEF SubmitAccepted
  <2>2. UNCHANGED <<pipe, job>>
    BY <1>28 DEF SubmitAccepted
  <2>3. /\ \A t \in Senders \ {s} : cyc'[t] = cyc[t]
        /\ cyc'[s].v = cyc[s].v
    BY <1>28, CycleAtEffect DEF SubmitAccepted, Conclude
  <2>4. QED
    BY <2>1, <2>2, <2>3 DEF SentInv, SentIsTrue
<1>29. ASSUME NEW s \in Senders, SubmitUncertain(s)
      PROVE  SentInv'
  BY <1>29, CycleAtEffect, CycleDoneEffect, RespondedEffect
     DEF SubmitUncertain, SentInv, SentIsTrue, RoleInv, CycleGoto, Conclude
<1>30. ASSUME NEW s \in Senders, ReconcileSent(s)
      PROVE  SentInv'
  BY <1>30, CycleAtEffect, CycleDoneEffect, RespondedEffect
     DEF ReconcileSent, SentInv, SentIsTrue, RoleInv, CycleGoto, Conclude
<1>31. ASSUME NEW s \in Senders, ReconcileFailed(s)
      PROVE  SentInv'
  BY <1>31, CycleAtEffect, CycleDoneEffect
     DEF ReconcileFailed, SentInv, SentIsTrue, RoleInv, CycleGoto, Conclude
<1>32. ASSUME NEW s \in Senders, Finish(s)
      PROVE  SentInv'
  BY <1>32, JobWithEffect, EnqueuedEffect, CycleAtEffect, CycleDoneEffect
     DEF Finish, SentInv, SentIsTrue, RoleInv, CycleGoto, Conclude
<1>33. ASSUME NEW s \in Senders, Move(s)
      PROVE  SentInv'
  BY <1>33, PipeEffect, CycleAtEffect, CycleDoneEffect
     DEF Move, SentInv, SentIsTrue, RoleInv, CycleGoto, Conclude
<1>34. ASSUME NEW s \in Senders, CrashCycle(s)
      PROVE  SentInv'
  BY <1>34, CycleAtEffect, CycleDoneEffect
     DEF CrashCycle, SentInv, SentIsTrue, RoleInv, CycleGoto, Conclude
<1>35. CASE UNCHANGED vars
  BY <1>35 DEF vars, SentInv, SentIsTrue
<1>36. ASSUME NEW c \in Clients, NEW v \in Vacancies, StartRequest(c, v)
       PROVE  SentInv'
  BY <1>36, <1>1
     DEF StartRequest
<1>37. ASSUME NEW c \in Clients, RequestNext(c) \/ CrashRequest(c)
       PROVE  SentInv'
  BY <1>37, <1>1, <1>8, <1>9, <1>10, <1>11, <1>12, <1>13, <1>14, <1>15,
     <1>16, <1>17
     DEF RequestNext
<1>38. ASSUME NEW s \in Senders, CycleNext(s) \/ CrashCycle(s)
       PROVE  SentInv'
  BY <1>38, <1>20, <1>21, <1>22, <1>23, <1>24, <1>25, <1>26, <1>27, <1>28,
     <1>29, <1>30, <1>31, <1>32, <1>33, <1>34
     DEF CycleNext
<1>39. QED
  BY <1>2, <1>3, <1>4, <1>5, <1>6, <1>7, <1>18, <1>19, <1>35, <1>36, <1>37,
     <1>38
     DEF Next, UserStep

\* A step that leaves the history alone, takes cycles forward, and queues no
\* job.
Quiet == JobKept /\ CyclesKept /\ UNCHANGED <<posts, batches>>

LoudStep ==
    \/ CreateBatch
    \/ \E c \in Clients : QueuePut(c)
    \/ \E s \in Senders, b \in 1..MaxBatches, v \in Vacancies : NextJob(s, b, v)
    \/ \E s \in Senders :
          Claim(s) \/ SubmitAccepted(s) \/ SubmitUncertain(s)

\* All but six of the actions are quiet.
LEMMA QuietOrLoud ==
    TypeOK /\ RoleInv /\ [Next]_vars => Quiet \/ LoudStep
<1> SUFFICES ASSUME TypeOK, RoleInv, [Next]_vars
             PROVE  Quiet \/ LoudStep
  OBVIOUS
<1> USE Fields DEF rows, hh, hist
<1>1. ASSUME \/ \E v \in Vacancies :
                  \/ Decide(v) \/ EnrichArchive(v) \/ GenerateDraft(v)
                  \/ SaveDraft(v) \/ LateResponse(v)
                  \/ RespondElsewhere(v)
             \/ \E c \in Clients, v \in Vacancies :
                  \/ StartSaveApproved(c, v) \/ StartApprove(c, v)
                  \/ StartQueue(c, v) \/ StartCancel(c, v)
                  \/ StartReset(c, v)
             \/ \E c \in Clients :
                  \/ SaveCheckJob(c) \/ SaveApproved(c)
                  \/ ApproveWrite(c) \/ QueueReadJob(c) \/ QueueMove(c)
                  \/ CancelMove(c) \/ ResetReadJob(c) \/ ResetMove(c)
                  \/ CrashRequest(c)
      PROVE  Quiet \/ LoudStep
  <2>1. CASE \E v \in Vacancies :
                \/ Decide(v) \/ EnrichArchive(v) \/ GenerateDraft(v)
                \/ SaveDraft(v) \/ LateResponse(v) \/ RespondElsewhere(v)
    <3>1. UNCHANGED <<job, cyc, posts, batches>>
      BY <2>1 DEF Decide, EnrichArchive, GenerateDraft, SaveDraft,
                  LateResponse, RespondElsewhere
    <3>2. QED
      BY <3>1 DEF Quiet, JobKept, CyclesKept, CycleKept
  <2>2. CASE \E c \in Clients, v \in Vacancies :
                \/ StartSaveApproved(c, v) \/ StartApprove(c, v)
                \/ StartQueue(c, v) \/ StartCancel(c, v)
                \/ StartReset(c, v)
    <3>1. UNCHANGED <<job, cyc, posts, batches>>
      BY <2>2 DEF StartSaveApproved, StartApprove, StartQueue, StartCancel,
                  StartReset
    <3>2. QED
      BY <3>1 DEF Quiet, JobKept, CyclesKept, CycleKept
  <2>3. CASE \E c \in Clients :
                \/ SaveCheckJob(c) \/ SaveApproved(c)
                \/ ApproveWrite(c) \/ QueueReadJob(c) \/ QueueMove(c)
                \/ CancelMove(c) \/ ResetReadJob(c) \/ ResetMove(c)
                \/ CrashRequest(c)
    <3>1. UNCHANGED <<job, cyc, posts, batches>>
      BY <2>3 DEF SaveCheckJob, SaveApproved, ApproveWrite, QueueReadJob,
                  QueueMove, CancelMove, ResetReadJob, ResetMove,
                  CrashRequest
    <3>2. QED
      BY <3>1 DEF Quiet, JobKept, CyclesKept, CycleKept
  <2>4. QED
    BY <1>1, <2>1, <2>2, <2>3
<1>2. ASSUME NEW c \in Clients, QueuePut(c)
      PROVE  Quiet \/ LoudStep
  BY <1>2 DEF LoudStep
<1>3. ASSUME NEW c \in Clients, QueueUndo(c)
      PROVE  Quiet \/ LoudStep
  BY <1>3, JobWithEffect
     DEF QueueUndo, Quiet, RoleInv, JobKept, CyclesKept, CycleKept
<1>4. ASSUME NEW c \in Clients, CancelJob(c)
      PROVE  Quiet \/ LoudStep
  BY <1>4, JobWithEffect
     DEF CancelJob, Quiet, RoleInv, JobKept, CyclesKept, CycleKept
<1>5. ASSUME NEW c \in Clients, ResetPut(c)
      PROVE  Quiet \/ LoudStep
  BY <1>5, JobWithEffect
     DEF ResetPut, Quiet, RoleInv, JobKept, CyclesKept, CycleKept
<1>6. ASSUME NEW c \in Clients, ResetUndo(c)
      PROVE  Quiet \/ LoudStep
  BY <1>6, JobWithEffect
     DEF ResetUndo, Quiet, RoleInv, JobKept, CyclesKept, CycleKept
<1>7. ASSUME CreateBatch
      PROVE  Quiet \/ LoudStep
  BY <1>7 DEF LoudStep
<1>8. ASSUME NEW s \in Senders, NEW b \in 1..MaxBatches,
              NEW v \in Vacancies, NextJob(s, b, v)
      PROVE  Quiet \/ LoudStep
  BY <1>8 DEF LoudStep
<1>9. ASSUME NEW s \in Senders, Claim(s)
      PROVE  Quiet \/ LoudStep
  BY <1>9 DEF LoudStep
<1>10. ASSUME NEW s \in Senders, Snapshot(s)
      PROVE  Quiet \/ LoudStep
  BY <1>10, CycleAtEffect, CycleDoneEffect
     DEF Snapshot, Quiet, JobKept, CyclesKept, CycleKept, CycleGoto, Holding,
         PrePost, Conclude
<1>11. ASSUME NEW s \in Senders, FetchFails(s)
      PROVE  Quiet \/ LoudStep
  BY <1>11, CycleAtEffect, CycleDoneEffect
     DEF FetchFails, Quiet, JobKept, CyclesKept, CycleKept, CycleGoto,
         Holding, PrePost, Conclude
<1>12. ASSUME NEW s \in Senders, CycleRaises(s)
      PROVE  Quiet \/ LoudStep
  BY <1>12, CycleAtEffect, CycleDoneEffect
     DEF CycleRaises, Quiet, JobKept, CyclesKept, CycleKept, CycleGoto,
         Holding, PrePost
<1>13. ASSUME NEW s \in Senders, FetchResponded(s)
      PROVE  Quiet \/ LoudStep
  BY <1>13, CycleAtEffect, CycleDoneEffect
     DEF FetchResponded, Quiet, JobKept, CyclesKept, CycleKept, CycleGoto,
         Holding, PrePost, Conclude
<1>14. ASSUME NEW s \in Senders, FetchHasTest(s)
      PROVE  Quiet \/ LoudStep
  BY <1>14, CycleAtEffect, CycleDoneEffect
     DEF FetchHasTest, Quiet, JobKept, CyclesKept, CycleKept, CycleGoto,
         Holding, PrePost, Conclude
<1>15. ASSUME NEW s \in Senders, FetchClear(s)
      PROVE  Quiet \/ LoudStep
  BY <1>15, CycleAtEffect, CycleDoneEffect
     DEF FetchClear, Quiet, JobKept, CyclesKept, CycleKept, CycleGoto,
         Holding, PrePost
<1>16. ASSUME NEW s \in Senders, SubmitBlocked(s)
      PROVE  Quiet \/ LoudStep
  BY <1>16, CycleAtEffect, CycleDoneEffect
     DEF SubmitBlocked, Quiet, JobKept, CyclesKept, CycleKept, CycleGoto,
         Holding, PrePost
<1>17. ASSUME NEW s \in Senders, SubmitAccepted(s)
      PROVE  Quiet \/ LoudStep
  BY <1>17 DEF LoudStep
<1>18. ASSUME NEW s \in Senders, SubmitUncertain(s)
      PROVE  Quiet \/ LoudStep
  BY <1>18 DEF LoudStep
<1>19. ASSUME NEW s \in Senders, ReconcileSent(s)
      PROVE  Quiet \/ LoudStep
  BY <1>19, CycleAtEffect, CycleDoneEffect
     DEF ReconcileSent, Quiet, JobKept, CyclesKept, CycleKept, CycleGoto,
         Holding, PrePost, Conclude
<1>20. ASSUME NEW s \in Senders, ReconcileFailed(s)
      PROVE  Quiet \/ LoudStep
  BY <1>20, CycleAtEffect, CycleDoneEffect
     DEF ReconcileFailed, Quiet, JobKept, CyclesKept, CycleKept, CycleGoto,
         Holding, PrePost, Conclude
<1>21. ASSUME NEW s \in Senders, Finish(s)
      PROVE  Quiet \/ LoudStep
  BY <1>21, JobWithEffect, CycleAtEffect, CycleDoneEffect
     DEF Finish, Quiet, RoleInv, JobKept, CyclesKept, CycleKept, CycleGoto,
         Holding, PrePost
<1>22. ASSUME NEW s \in Senders, Move(s)
      PROVE  Quiet \/ LoudStep
  BY <1>22, CycleAtEffect, CycleDoneEffect
     DEF Move, Quiet, JobKept, CyclesKept, CycleKept, CycleGoto, Holding,
         PrePost
<1>23. ASSUME NEW s \in Senders, CrashCycle(s)
      PROVE  Quiet \/ LoudStep
  BY <1>23, CycleAtEffect, CycleDoneEffect
     DEF CrashCycle, Quiet, JobKept, CyclesKept, CycleKept, CycleGoto,
         Holding, PrePost
<1>24. CASE UNCHANGED vars
  BY <1>24 DEF vars, Quiet, JobKept, CyclesKept, CycleKept
<1>25. ASSUME NEW c \in Clients, NEW v \in Vacancies, StartRequest(c, v)
       PROVE  Quiet \/ LoudStep
  BY <1>25, <1>1
     DEF StartRequest
<1>26. ASSUME NEW c \in Clients, RequestNext(c) \/ CrashRequest(c)
       PROVE  Quiet \/ LoudStep
  BY <1>26, <1>1, <1>2, <1>3, <1>4, <1>5, <1>6
     DEF RequestNext
<1>27. ASSUME NEW s \in Senders, CycleNext(s) \/ CrashCycle(s)
       PROVE  Quiet \/ LoudStep
  BY <1>27, <1>9, <1>10, <1>11, <1>12, <1>13, <1>14, <1>15, <1>16, <1>17,
     <1>18, <1>19, <1>20, <1>21, <1>22, <1>23
     DEF CycleNext
<1>28. ASSUME NEW v \in Vacancies,
              UserStep(v) \/ LateResponse(v) \/ RespondElsewhere(v)
       PROVE  Quiet \/ LoudStep
  BY <1>28, <1>1 DEF UserStep
<1>29. QED
  BY <1>7, <1>8, <1>24, <1>25, <1>26, <1>27, <1>28
     DEF Next

\* A cycle that posts adds one response of its own generation to the history.
LEMMA PostEffect ==
    ASSUME TypeOK, NEW s \in Senders, Post(s)
    PROVE  LET w == cyc[s].v
               n == Len(posts[w])
           IN  /\ \A v \in Vacancies \ {w} : posts'[v] = posts[v]
               /\ n \in Nat
               /\ Len(posts'[w]) = n + 1
               /\ \A i \in 1..n : posts'[w][i] = posts[w][i]
               /\ posts'[w][n + 1].gen = cyc[s].gen
               /\ posts'[w][n + 1].text = cyc[s].text
<1> DEFINE r == [gen |-> cyc[s].gen, text |-> cyc[s].text]
           w == cyc[s].v
           n == Len(posts[w])
<1>1. r \in [gen : Nat, text : Letter] /\ w \in Vacancies
  BY Fields
<1>2. posts \in [Vacancies -> Seq([gen : Nat, text : Letter])]
  BY DEF TypeOK
<1>3. posts' = [posts EXCEPT ![w] = Append(posts[w], r)]
  BY DEF Post
<1>4. r.gen = cyc[s].gen /\ r.text = cyc[s].text
  OBVIOUS
<1> HIDE DEF r, w
<1>5. /\ \A v \in Vacancies \ {w} : posts'[v] = posts[v]
      /\ posts'[w] = Append(posts[w], r)
  BY <1>1, <1>2, <1>3
<1>6. posts[w] \in Seq([gen : Nat, text : Letter])
  BY <1>1, <1>2
<1>7. /\ n \in Nat
      /\ Len(posts'[w]) = n + 1
      /\ \A i \in 1..n : posts'[w][i] = posts[w][i]
      /\ posts'[w][n + 1] = r
  BY <1>1, <1>5, <1>6, AppendProperties, LenProperties
<1>8. QED
  BY <1>4, <1>5, <1>7 DEF w

\* The steps that are not quiet, by what they do.
LEMMA LoudEffect ==
    ASSUME TypeOK, LoudStep
    PROVE  \/ Quiet
           \/ /\ batches' = batches + 1
              /\ UNCHANGED <<cyc, posts>>
              /\ \A v \in Vacancies :
                    /\ job'[v].status = job[v].status
                    /\ job'[v].text = job[v].text
                    /\ job'[v].gen = job[v].gen
                    /\ job'[v].batch \in {job[v].batch, batches + 1}
           \/ /\ UNCHANGED <<cyc, posts, batches>>
              /\ \E c \in Clients, v \in Vacancies :
                    /\ req[c].pc = "queue_put" /\ v = req[c].v
                    /\ \A w \in Vacancies \ {v} : job'[w] = job[w]
                    /\ job'[v].status = "queued"
                    /\ job'[v].text = req[c].text
                    /\ job'[v].batch = 0
                    /\ job'[v].gen = job[v].gen + 1
           \/ /\ UNCHANGED <<job, posts, batches>>
              /\ \E s \in Senders, v \in Vacancies :
                    /\ \A t \in Senders \ {s} : cyc'[t] = cyc[t]
                    /\ job[v].status = "queued"
                    /\ cyc'[s].pc = "claim"
                    /\ cyc'[s].v = v
                    /\ cyc'[s].batch = job[v].batch
                    /\ cyc'[s].batch >= 1
                    /\ cyc'[s].text = job[v].text
                    /\ cyc'[s].gen = job[v].gen
           \/ /\ UNCHANGED <<posts, batches>>
              /\ JobKept
              /\ \E s \in Senders :
                    /\ \A t \in Senders \ {s} : cyc'[t] = cyc[t]
                    /\ cyc[s].pc = "claim"
                    /\ job[cyc[s].v].status = "queued"
                    /\ job[cyc[s].v].batch = cyc[s].batch
                    /\ job'[cyc[s].v].status = "sending"
                    /\ cyc'[s].pc = "snapshot"
                    /\ cyc'[s].v = cyc[s].v
                    /\ cyc'[s].gen = cyc[s].gen
                    /\ cyc'[s].text = cyc[s].text
                    /\ cyc'[s].batch = cyc[s].batch
           \/ /\ UNCHANGED <<job, batches>>
              /\ CyclesKept
              /\ \E s \in Senders :
                    /\ \A t \in Senders \ {s} : cyc'[t] = cyc[t]
                    /\ cyc[s].pc = "submit"
                    /\ cyc'[s].pc \in Holding \ PrePost
                    /\ Post(s)
<1> USE Fields DEF rows, hh, hist
<1>1. ASSUME CreateBatch
      PROVE  /\ batches' = batches + 1
             /\ UNCHANGED <<cyc, posts>>
             /\ \A v \in Vacancies :
                   /\ job'[v].status = job[v].status
                   /\ job'[v].text = job[v].text
                   /\ job'[v].gen = job[v].gen
                   /\ job'[v].batch \in {job[v].batch, batches + 1}
  BY <1>1 DEF CreateBatch
<1>2. ASSUME NEW c \in Clients, QueuePut(c)
      PROVE  \/ Quiet
             \/ /\ UNCHANGED <<cyc, posts, batches>>
                /\ req[c].pc = "queue_put" /\ req[c].v \in Vacancies
                /\ \A w \in Vacancies \ {req[c].v} : job'[w] = job[w]
                /\ job'[req[c].v].status = "queued"
                /\ job'[req[c].v].text = req[c].text
                /\ job'[req[c].v].batch = 0
                /\ job'[req[c].v].gen = job[req[c].v].gen + 1
  BY <1>2, EnqueuedEffect
     DEF QueuePut, Quiet, JobKept, CyclesKept, CycleKept
<1>3. ASSUME NEW s \in Senders, NEW b \in 1..MaxBatches, NEW v \in Vacancies,
             NextJob(s, b, v)
      PROVE  /\ UNCHANGED <<job, posts, batches>>
             /\ \A t \in Senders \ {s} : cyc'[t] = cyc[t]
             /\ job[v].status = "queued"
             /\ cyc'[s].pc = "claim"
             /\ cyc'[s].v = v
             /\ cyc'[s].batch = job[v].batch
             /\ cyc'[s].batch >= 1
             /\ cyc'[s].text = job[v].text
             /\ cyc'[s].gen = job[v].gen
  <2>1. /\ \A t \in Senders \ {s} : cyc'[t] = cyc[t]
        /\ cyc'[s] = [pc |-> "claim", batch |-> b, v |-> v,
                      text |-> job[v].text, gen |-> job[v].gen,
                      outcome |-> "none", target |-> "none"]
    BY <1>3 DEF NextJob, TypeOK
  <2>2. b \in Nat /\ b >= 1
    BY SendQueueAssumption
  <2>3. QED
    BY <1>3, <2>1, <2>2 DEF NextJob
<1>4. ASSUME NEW s \in Senders, Claim(s)
      PROVE  \/ Quiet
             \/ /\ UNCHANGED <<posts, batches>>
                /\ JobKept
                /\ \A t \in Senders \ {s} : cyc'[t] = cyc[t]
                /\ cyc[s].pc = "claim"
                /\ job[cyc[s].v].status = "queued"
                /\ job[cyc[s].v].batch = cyc[s].batch
                /\ job'[cyc[s].v].status = "sending"
                /\ cyc'[s].pc = "snapshot"
                /\ cyc'[s].v = cyc[s].v
                /\ cyc'[s].gen = cyc[s].gen
                /\ cyc'[s].text = cyc[s].text
                /\ cyc'[s].batch = cyc[s].batch
  <2>1. CASE Claimable(cyc[s].v, cyc[s].batch)
    BY <1>4, <2>1, JobWithEffect, CycleAtEffect DEF Claim, CycleGoto, Claimable
  <2>2. CASE ~Claimable(cyc[s].v, cyc[s].batch)
    BY <1>4, <2>2, CycleDoneEffect
       DEF Claim, Quiet, JobKept, CyclesKept, CycleKept
  <2>3. QED
    BY <2>1, <2>2
<1>5. ASSUME NEW s \in Senders, SubmitAccepted(s) \/ SubmitUncertain(s)
      PROVE  /\ UNCHANGED <<job, batches>>
             /\ CyclesKept
             /\ \A t \in Senders \ {s} : cyc'[t] = cyc[t]
             /\ cyc[s].pc = "submit"
             /\ cyc'[s].pc \in Holding \ PrePost
             /\ Post(s)
  <2>1. CASE SubmitAccepted(s)
    BY <2>1, CycleAtEffect
       DEF SubmitAccepted, Conclude, CyclesKept, CycleKept, Holding, PrePost
  <2>2. CASE SubmitUncertain(s)
    BY <2>2, CycleAtEffect
       DEF SubmitUncertain, CycleGoto, CyclesKept, CycleKept, Holding, PrePost
  <2>3. QED
    BY <1>5, <2>1, <2>2
<1>6. CASE CreateBatch
  BY <1>1, <1>6
<1>7. CASE \E c \in Clients : QueuePut(c)
  BY <1>2, <1>7
<1>8. CASE \E s \in Senders, b \in 1..MaxBatches, v \in Vacancies : NextJob(s, b, v)
  <2>1. PICK s \in Senders, b \in 1..MaxBatches, v \in Vacancies : NextJob(s, b, v)
    BY <1>8
  <2>2. QED
    BY <1>3, <2>1
<1>9. CASE \E s \in Senders : Claim(s)
  BY <1>4, <1>9
<1>10. CASE \E s \in Senders : SubmitAccepted(s) \/ SubmitUncertain(s)
  BY <1>5, <1>10
<1>11. QED
  BY <1>6, <1>7, <1>8, <1>9, <1>10 DEF LoudStep

\* The generation of a posted response is a number.
LEMMA PostGen ==
    ASSUME TypeOK, NEW v \in Vacancies, NEW i \in 1..Len(posts[v])
    PROVE  posts[v][i].gen \in Nat
<1>1. posts[v] \in Seq([gen : Nat, text : Letter])
  BY DEF TypeOK
<1>2. posts[v][i] \in [gen : Nat, text : Letter]
  BY <1>1, ElementOfSeq
<1>3. QED
  BY <1>2

\* The generation invariant, across a quiet step.
LEMMA GenQuiet == TypeOK /\ GenInv /\ Quiet => GenInv'
<1> SUFFICES ASSUME TypeOK, GenInv, Quiet
             PROVE  GenInv'
  OBVIOUS
<1> USE Fields
<1>1. (\A v \in Vacancies : job[v].batch <= batches)'
  BY DEF GenInv, Quiet, JobKept
<1>2. ClaimInv'
  BY DEF GenInv, ClaimInv, Quiet, JobKept, CyclesKept, CycleKept, Holding
<1>3. HoldInv'
  BY DEF GenInv, HoldInv, Quiet, JobKept, CyclesKept, CycleKept,
         Holding, PrePost
<1>4. PostInv'
  BY DEF GenInv, PostInv, OnePostPerEnqueue, Quiet, JobKept, CyclesKept,
         CycleKept, Holding, PrePost
<1>5. QED
  BY <1>1, <1>2, <1>3, <1>4 DEF GenInv

\* The generation invariant, across the other steps.
LEMMA GenLoud == TypeOK /\ GenInv /\ LoudStep => GenInv'
<1> SUFFICES ASSUME TypeOK, GenInv, LoudStep
             PROVE  GenInv'
  OBVIOUS
<1> USE Fields
<1>n. batches \in Nat
  BY DEF TypeOK
\* A new batch: an older cycle's batch stays behind it.
<1>1. CASE /\ batches' = batches + 1
           /\ UNCHANGED <<cyc, posts>>
           /\ \A v \in Vacancies :
                 /\ job'[v].status = job[v].status
                 /\ job'[v].text = job[v].text
                 /\ job'[v].gen = job[v].gen
                 /\ job'[v].batch \in {job[v].batch, batches + 1}
  <2>1. (\A v \in Vacancies : job[v].batch <= batches)'
    BY <1>1, <1>n DEF GenInv
  <2>2. ClaimInv'
    BY <1>1, <1>n DEF GenInv, ClaimInv
  <2>3. HoldInv'
    BY <1>1 DEF GenInv, HoldInv, Holding
  <2>4. PostInv'
    BY <1>1 DEF GenInv, PostInv, OnePostPerEnqueue
  <2>5. QED
    BY <2>1, <2>2, <2>3, <2>4 DEF GenInv
\* A job put in the queue: its generation is newer than every cycle and post.
<1>2. CASE /\ UNCHANGED <<cyc, posts, batches>>
           /\ \E c \in Clients, v \in Vacancies :
                 /\ req[c].pc = "queue_put" /\ v = req[c].v
                 /\ \A w \in Vacancies \ {v} : job'[w] = job[w]
                 /\ job'[v].status = "queued"
                 /\ job'[v].text = req[c].text
                 /\ job'[v].batch = 0
                 /\ job'[v].gen = job[v].gen + 1
  <2>1. (\A v \in Vacancies : job[v].batch <= batches)'
    BY <1>2, <1>n DEF GenInv
  <2>2. ClaimInv'
    BY <1>2, <1>n DEF GenInv, ClaimInv
  <2>3. HoldInv'
    BY <1>2 DEF GenInv, HoldInv, Holding
  <2>4. PostInv'
    <3>1. ASSUME NEW v \in Vacancies, NEW i \in 1..Len(posts[v])
          PROVE  /\ posts[v][i].gen <= job'[v].gen
                 /\ posts[v][i].gen = job'[v].gen => job'[v].status # "queued"
      <4>1. posts[v][i].gen \in Nat
        BY PostGen
      <4>2. /\ posts[v][i].gen <= job[v].gen
            /\ job[v].gen \in Nat
        BY DEF GenInv, PostInv
      <4>3. CASE job'[v] = job[v]
        BY <4>3 DEF GenInv, PostInv
      <4>4. CASE job'[v].gen = job[v].gen + 1
        BY <4>1, <4>2, <4>4
      <4>5. QED
        BY <1>2, <4>3, <4>4
    <3>2. QED
      BY <1>2, <3>1 DEF GenInv, PostInv, OnePostPerEnqueue
  <2>5. QED
    BY <2>1, <2>2, <2>3, <2>4 DEF GenInv
\* A cycle reads a queued job of its batch.
<1>3. CASE /\ UNCHANGED <<job, posts, batches>>
           /\ \E s \in Senders, v \in Vacancies :
                 /\ \A t \in Senders \ {s} : cyc'[t] = cyc[t]
                 /\ job[v].status = "queued"
                 /\ cyc'[s].pc = "claim"
                 /\ cyc'[s].v = v
                 /\ cyc'[s].batch = job[v].batch
                 /\ cyc'[s].batch >= 1
                 /\ cyc'[s].text = job[v].text
                 /\ cyc'[s].gen = job[v].gen
  <2>1. (\A v \in Vacancies : job[v].batch <= batches)'
    BY <1>3 DEF GenInv
  <2>2. ClaimInv'
    BY <1>3, <1>n DEF GenInv, ClaimInv
  <2>3. HoldInv'
    BY <1>3 DEF GenInv, HoldInv, Holding, PrePost
  <2>4. PostInv'
    BY SMTT(40), <1>3 DEF GenInv, PostInv, OnePostPerEnqueue, PrePost
  <2>5. QED
    BY <2>1, <2>2, <2>3, <2>4 DEF GenInv
\* A cycle claims its job: the job is queued, so nobody holds this generation
\* and nothing was posted for it.
<1>4. CASE /\ UNCHANGED <<posts, batches>>
           /\ JobKept
           /\ \E s \in Senders :
                 /\ \A t \in Senders \ {s} : cyc'[t] = cyc[t]
                 /\ cyc[s].pc = "claim"
                 /\ job[cyc[s].v].status = "queued"
                 /\ job[cyc[s].v].batch = cyc[s].batch
                 /\ job'[cyc[s].v].status = "sending"
                 /\ cyc'[s].pc = "snapshot"
                 /\ cyc'[s].v = cyc[s].v
                 /\ cyc'[s].gen = cyc[s].gen
                 /\ cyc'[s].text = cyc[s].text
                 /\ cyc'[s].batch = cyc[s].batch
  <2> PICK s \in Senders :
        /\ \A t \in Senders \ {s} : cyc'[t] = cyc[t]
        /\ cyc[s].pc = "claim"
        /\ job[cyc[s].v].status = "queued"
        /\ job[cyc[s].v].batch = cyc[s].batch
        /\ job'[cyc[s].v].status = "sending"
        /\ cyc'[s].pc = "snapshot"
        /\ cyc'[s].v = cyc[s].v
        /\ cyc'[s].gen = cyc[s].gen
        /\ cyc'[s].text = cyc[s].text
        /\ cyc'[s].batch = cyc[s].batch
    BY <1>4
  <2>g. cyc[s].gen = job[cyc[s].v].gen
    BY <1>n DEF GenInv, ClaimInv
  <2>1. (\A v \in Vacancies : job[v].batch <= batches)'
    BY <1>4 DEF GenInv, JobKept
  <2>2. ClaimInv'
    BY <1>4 DEF GenInv, ClaimInv, JobKept
  <2>3. HoldInv'
    <3>1. ASSUME NEW t \in Senders, cyc'[t].pc \in Holding
          PROVE  /\ cyc'[t].gen <= job'[cyc'[t].v].gen
                 /\ cyc'[t].gen = job'[cyc'[t].v].gen =>
                       job'[cyc'[t].v].status # "queued"
      <4>1. CASE t = s
        BY <1>4, <2>g, <4>1 DEF JobKept
      <4>2. CASE t # s
        BY <1>4, <3>1, <4>2 DEF JobKept, GenInv, HoldInv
      <4>3. QED
        BY <4>1, <4>2
    <3>2. ASSUME NEW t \in Senders, t # s, cyc[t].pc \in PrePost,
                 cyc[t].v = cyc[s].v
          PROVE  cyc[t].gen # cyc[s].gen
      BY <2>g, <3>2 DEF GenInv, HoldInv, Holding, PrePost
    <3>3. QED
      BY <3>1, <3>2 DEF GenInv, HoldInv
  <2>4. PostInv'
    <3>1. \A i \in 1..Len(posts[cyc[s].v]) :
             posts[cyc[s].v][i].gen # cyc[s].gen
      BY <2>g DEF GenInv, PostInv
    <3>2. (\A v \in Vacancies : \A i \in 1..Len(posts[v]) :
             /\ posts[v][i].gen <= job[v].gen
             /\ posts[v][i].gen = job[v].gen => job[v].status # "queued")'
      BY <1>4 DEF GenInv, PostInv, JobKept
    <3>3. (\A t \in Senders : cyc[t].pc \in PrePost =>
             \A i \in 1..Len(posts[cyc[t].v]) :
                posts[cyc[t].v][i].gen # cyc[t].gen)'
      <4>1. ASSUME NEW t \in Senders, cyc'[t].pc \in PrePost,
                   NEW i \in 1..Len(posts[cyc'[t].v])
            PROVE  posts[cyc'[t].v][i].gen # cyc'[t].gen
        <5>1. CASE t = s
          BY <3>1, <4>1, <5>1
        <5>2. CASE t # s
          BY <4>1, <5>2 DEF GenInv, PostInv
        <5>3. QED
          BY <5>1, <5>2
      <4>2. QED
        BY <1>4, <4>1
    <3>4. OnePostPerEnqueue'
      BY <1>4 DEF GenInv, PostInv, OnePostPerEnqueue
    <3>5. QED
      BY <3>2, <3>3, <3>4 DEF PostInv
  <2>5. QED
    BY <2>1, <2>2, <2>3, <2>4 DEF GenInv
\* A cycle posts: it was the only one that still could for this generation.
<1>5. CASE /\ UNCHANGED <<job, batches>>
           /\ CyclesKept
           /\ \E s \in Senders :
                 /\ \A t \in Senders \ {s} : cyc'[t] = cyc[t]
                 /\ cyc[s].pc = "submit"
                 /\ cyc'[s].pc \in Holding \ PrePost
                 /\ Post(s)
  <2> PICK s \in Senders :
        /\ \A t \in Senders \ {s} : cyc'[t] = cyc[t]
        /\ cyc[s].pc = "submit"
        /\ cyc'[s].pc \in Holding \ PrePost
        /\ Post(s)
    BY <1>5
  <2> DEFINE w == cyc[s].v
             n == Len(posts[w])
  <2>p. /\ w \in Vacancies
        /\ \A v \in Vacancies \ {w} : posts'[v] = posts[v]
        /\ n \in Nat
        /\ Len(posts'[w]) = n + 1
        /\ \A i \in 1..n : posts'[w][i] = posts[w][i]
        /\ posts'[w][n + 1].gen = cyc[s].gen
    BY PostEffect
  <2>h. /\ cyc[s].gen <= job[w].gen
        /\ cyc[s].gen = job[w].gen => job[w].status # "queued"
        /\ \A i \in 1..n : posts[w][i].gen # cyc[s].gen
    BY DEF GenInv, HoldInv, PostInv, Holding, PrePost
  <2>d. \A t \in Senders : /\ t # s /\ cyc[t].pc \in PrePost /\ cyc[t].v = w
                           => cyc[t].gen # cyc[s].gen
    BY DEF GenInv, HoldInv, PrePost
  <2>1. (\A v \in Vacancies : job[v].batch <= batches)'
    BY <1>5 DEF GenInv
  <2>2. ClaimInv'
    BY <1>5 DEF GenInv, ClaimInv, CyclesKept, CycleKept, Holding
  <2>3. HoldInv'
    BY <1>5 DEF GenInv, HoldInv, CyclesKept, CycleKept, Holding, PrePost
  <2>4. PostInv'
    <3> HIDE DEF w, n
    <3>1. ASSUME NEW v \in Vacancies, NEW i \in 1..Len(posts'[v])
          PROVE  \/ v = w /\ i = n + 1 /\ posts'[v][i].gen = cyc[s].gen
                 \/ i \in 1..Len(posts[v]) /\ posts'[v][i] = posts[v][i]
      <4>1. CASE v = w
        <5>1. i \in 1..(n + 1)
          BY <2>p, <4>1
        <5>2. CASE i = n + 1
          BY <2>p, <4>1, <5>2
        <5>3. CASE i \in 1..n
          BY <2>p, <4>1, <5>3 DEF n
        <5>4. QED
          BY <2>p, <5>1, <5>2, <5>3
      <4>2. CASE v # w
        BY <2>p, <4>2
      <4>3. QED
        BY <4>1, <4>2
    <3>2. (\A v \in Vacancies : \A i \in 1..Len(posts[v]) :
             /\ posts[v][i].gen <= job[v].gen
             /\ posts[v][i].gen = job[v].gen => job[v].status # "queued")'
      BY SMTT(40), <1>5, <2>h, <3>1 DEF GenInv, PostInv
    <3>3. (\A t \in Senders : cyc[t].pc \in PrePost =>
             \A i \in 1..Len(posts[cyc[t].v]) :
                posts[cyc[t].v][i].gen # cyc[t].gen)'
      <4>1. ASSUME NEW t \in Senders, cyc'[t].pc \in PrePost,
                   NEW i \in 1..Len(posts'[cyc'[t].v])
            PROVE  posts'[cyc'[t].v][i].gen # cyc'[t].gen
        <5>1. t # s /\ cyc'[t] = cyc[t]
          BY <4>1
        <5>2. cyc[t].v \in Vacancies
          OBVIOUS
        <5>3. QED
          BY <2>d, <3>1, <4>1, <5>1, <5>2 DEF GenInv, PostInv
      <4>2. QED
        BY <4>1
    <3>4. OnePostPerEnqueue'
      <4>1. ASSUME NEW v \in Vacancies, NEW i \in 1..Len(posts'[v]),
                   NEW k \in 1..Len(posts'[v]),
                   posts'[v][i].gen = posts'[v][k].gen
            PROVE  i = k
        <5>1. \A j \in 1..Len(posts[v]) : v = w => posts[v][j].gen # cyc[s].gen
          BY <2>h DEF n
        <5>2. QED
          BY <3>1, <4>1, <5>1 DEF GenInv, PostInv, OnePostPerEnqueue
      <4>2. QED
        BY <4>1 DEF OnePostPerEnqueue
    <3>5. QED
      BY <3>2, <3>3, <3>4 DEF PostInv
  <2>5. QED
    BY <2>1, <2>2, <2>3, <2>4 DEF GenInv
<1>6. CASE Quiet
  BY <1>6, GenQuiet
<1>7. QED
  BY <1>1, <1>2, <1>3, <1>4, <1>5, <1>6, LoudEffect


-----------------------------------------------------------------------------
(* Approval: no letter reaches hh that the user did not approve.            *)

\* Nothing takes an approval out of the history.
LEMMA ApprovalsGrow ==
    ASSUME TypeOK, [Next]_vars
    PROVE  \A u \in Vacancies : approvals[u] \subseteq approvals'[u]
<1> USE DEF rows, hh, hist
<1>1. ASSUME NEW v \in Vacancies, Decide(v)
      PROVE  \A u \in Vacancies : approvals[u] \subseteq approvals'[u]
  BY <1>1 DEF Decide
<1>2. ASSUME NEW v \in Vacancies, EnrichArchive(v)
      PROVE  \A u \in Vacancies : approvals[u] \subseteq approvals'[u]
  BY <1>2 DEF EnrichArchive
<1>3. ASSUME NEW v \in Vacancies, GenerateDraft(v)
      PROVE  \A u \in Vacancies : approvals[u] \subseteq approvals'[u]
  BY <1>3 DEF GenerateDraft
<1>4. ASSUME NEW v \in Vacancies, SaveDraft(v)
      PROVE  \A u \in Vacancies : approvals[u] \subseteq approvals'[u]
  BY <1>4 DEF SaveDraft
<1>5. ASSUME NEW v \in Vacancies, LateResponse(v)
      PROVE  \A u \in Vacancies : approvals[u] \subseteq approvals'[u]
  BY <1>5 DEF LateResponse
<1>6. ASSUME NEW v \in Vacancies, RespondElsewhere(v)
      PROVE  \A u \in Vacancies : approvals[u] \subseteq approvals'[u]
  BY <1>6 DEF RespondElsewhere
<1>7. ASSUME NEW c \in Clients, NEW v \in Vacancies, StartSaveApproved(c, v)
      PROVE  \A u \in Vacancies : approvals[u] \subseteq approvals'[u]
  BY <1>7 DEF StartSaveApproved
<1>8. ASSUME NEW c \in Clients, NEW v \in Vacancies, StartApprove(c, v)
      PROVE  \A u \in Vacancies : approvals[u] \subseteq approvals'[u]
  BY <1>8 DEF StartApprove
<1>9. ASSUME NEW c \in Clients, NEW v \in Vacancies, StartQueue(c, v)
      PROVE  \A u \in Vacancies : approvals[u] \subseteq approvals'[u]
  BY <1>9 DEF StartQueue
<1>10. ASSUME NEW c \in Clients, NEW v \in Vacancies, StartCancel(c, v)
      PROVE  \A u \in Vacancies : approvals[u] \subseteq approvals'[u]
  BY <1>10 DEF StartCancel
<1>11. ASSUME NEW c \in Clients, NEW v \in Vacancies, StartReset(c, v)
      PROVE  \A u \in Vacancies : approvals[u] \subseteq approvals'[u]
  BY <1>11 DEF StartReset
<1>12. ASSUME NEW c \in Clients, SaveCheckJob(c)
      PROVE  \A u \in Vacancies : approvals[u] \subseteq approvals'[u]
  BY <1>12 DEF SaveCheckJob
<1>13. ASSUME NEW c \in Clients, SaveApproved(c)
      PROVE  \A u \in Vacancies : approvals[u] \subseteq approvals'[u]
  BY <1>13 DEF SaveApproved
<1>14. ASSUME NEW c \in Clients, ApproveWrite(c)
      PROVE  \A u \in Vacancies : approvals[u] \subseteq approvals'[u]
  <2>1. CASE pipe[req[c].v].status = "letter_draft"
    <3>1. approvals' = [approvals EXCEPT ![req[c].v] = @ \union {req[c].text}]
      BY <1>14, <2>1 DEF ApproveWrite
    <3>2. DOMAIN approvals = Vacancies
      BY DEF TypeOK
    <3>3. QED
      BY <3>1, <3>2
  <2>2. CASE pipe[req[c].v].status # "letter_draft"
    BY <1>14, <2>2 DEF ApproveWrite
  <2>3. QED
    BY <2>1, <2>2
<1>15. ASSUME NEW c \in Clients, QueueReadJob(c)
      PROVE  \A u \in Vacancies : approvals[u] \subseteq approvals'[u]
  BY <1>15 DEF QueueReadJob
<1>16. ASSUME NEW c \in Clients, QueuePut(c)
      PROVE  \A u \in Vacancies : approvals[u] \subseteq approvals'[u]
  BY <1>16 DEF QueuePut
<1>17. ASSUME NEW c \in Clients, QueueMove(c)
      PROVE  \A u \in Vacancies : approvals[u] \subseteq approvals'[u]
  BY <1>17 DEF QueueMove
<1>18. ASSUME NEW c \in Clients, QueueUndo(c)
      PROVE  \A u \in Vacancies : approvals[u] \subseteq approvals'[u]
  BY <1>18 DEF QueueUndo
<1>19. ASSUME NEW c \in Clients, CancelJob(c)
      PROVE  \A u \in Vacancies : approvals[u] \subseteq approvals'[u]
  BY <1>19 DEF CancelJob
<1>20. ASSUME NEW c \in Clients, CancelMove(c)
      PROVE  \A u \in Vacancies : approvals[u] \subseteq approvals'[u]
  BY <1>20 DEF CancelMove
<1>21. ASSUME NEW c \in Clients, ResetReadJob(c)
      PROVE  \A u \in Vacancies : approvals[u] \subseteq approvals'[u]
  BY <1>21 DEF ResetReadJob
<1>22. ASSUME NEW c \in Clients, ResetPut(c)
      PROVE  \A u \in Vacancies : approvals[u] \subseteq approvals'[u]
  BY <1>22 DEF ResetPut
<1>23. ASSUME NEW c \in Clients, ResetMove(c)
      PROVE  \A u \in Vacancies : approvals[u] \subseteq approvals'[u]
  BY <1>23 DEF ResetMove
<1>24. ASSUME NEW c \in Clients, ResetUndo(c)
      PROVE  \A u \in Vacancies : approvals[u] \subseteq approvals'[u]
  BY <1>24 DEF ResetUndo
<1>25. ASSUME NEW c \in Clients, CrashRequest(c)
      PROVE  \A u \in Vacancies : approvals[u] \subseteq approvals'[u]
  BY <1>25 DEF CrashRequest
<1>26. ASSUME CreateBatch
      PROVE  \A u \in Vacancies : approvals[u] \subseteq approvals'[u]
  BY <1>26 DEF CreateBatch
<1>27. ASSUME NEW s \in Senders, NEW b \in 1..MaxBatches,
              NEW v \in Vacancies, NextJob(s, b, v)
      PROVE  \A u \in Vacancies : approvals[u] \subseteq approvals'[u]
  BY <1>27 DEF NextJob
<1>28. ASSUME NEW s \in Senders, Claim(s)
      PROVE  \A u \in Vacancies : approvals[u] \subseteq approvals'[u]
  BY <1>28 DEF Claim
<1>29. ASSUME NEW s \in Senders, Snapshot(s)
      PROVE  \A u \in Vacancies : approvals[u] \subseteq approvals'[u]
  BY <1>29 DEF Snapshot
<1>30. ASSUME NEW s \in Senders, FetchFails(s)
      PROVE  \A u \in Vacancies : approvals[u] \subseteq approvals'[u]
  BY <1>30 DEF FetchFails
<1>31. ASSUME NEW s \in Senders, CycleRaises(s)
      PROVE  \A u \in Vacancies : approvals[u] \subseteq approvals'[u]
  BY <1>31 DEF CycleRaises
<1>32. ASSUME NEW s \in Senders, FetchResponded(s)
      PROVE  \A u \in Vacancies : approvals[u] \subseteq approvals'[u]
  BY <1>32 DEF FetchResponded
<1>33. ASSUME NEW s \in Senders, FetchHasTest(s)
      PROVE  \A u \in Vacancies : approvals[u] \subseteq approvals'[u]
  BY <1>33 DEF FetchHasTest
<1>34. ASSUME NEW s \in Senders, FetchClear(s)
      PROVE  \A u \in Vacancies : approvals[u] \subseteq approvals'[u]
  BY <1>34 DEF FetchClear
<1>35. ASSUME NEW s \in Senders, SubmitBlocked(s)
      PROVE  \A u \in Vacancies : approvals[u] \subseteq approvals'[u]
  BY <1>35 DEF SubmitBlocked
<1>36. ASSUME NEW s \in Senders, SubmitAccepted(s)
      PROVE  \A u \in Vacancies : approvals[u] \subseteq approvals'[u]
  BY <1>36 DEF SubmitAccepted
<1>37. ASSUME NEW s \in Senders, SubmitUncertain(s)
      PROVE  \A u \in Vacancies : approvals[u] \subseteq approvals'[u]
  BY <1>37 DEF SubmitUncertain
<1>38. ASSUME NEW s \in Senders, ReconcileSent(s)
      PROVE  \A u \in Vacancies : approvals[u] \subseteq approvals'[u]
  BY <1>38 DEF ReconcileSent
<1>39. ASSUME NEW s \in Senders, ReconcileFailed(s)
      PROVE  \A u \in Vacancies : approvals[u] \subseteq approvals'[u]
  BY <1>39 DEF ReconcileFailed
<1>40. ASSUME NEW s \in Senders, Finish(s)
      PROVE  \A u \in Vacancies : approvals[u] \subseteq approvals'[u]
  BY <1>40 DEF Finish
<1>41. ASSUME NEW s \in Senders, Move(s)
      PROVE  \A u \in Vacancies : approvals[u] \subseteq approvals'[u]
  BY <1>41 DEF Move
<1>42. ASSUME NEW s \in Senders, CrashCycle(s)
      PROVE  \A u \in Vacancies : approvals[u] \subseteq approvals'[u]
  BY <1>42 DEF CrashCycle
<1>43. CASE UNCHANGED vars
  BY <1>43 DEF vars
<1>44. ASSUME NEW c \in Clients, NEW v \in Vacancies, StartRequest(c, v)
       PROVE  \A u \in Vacancies : approvals[u] \subseteq approvals'[u]
  BY <1>44, <1>7, <1>8, <1>9, <1>10, <1>11
     DEF StartRequest
<1>45. ASSUME NEW c \in Clients, RequestNext(c) \/ CrashRequest(c)
       PROVE  \A u \in Vacancies : approvals[u] \subseteq approvals'[u]
  BY <1>45, <1>12, <1>13, <1>14, <1>15, <1>16, <1>17, <1>18, <1>19, <1>20,
     <1>21, <1>22, <1>23, <1>24, <1>25
     DEF RequestNext
<1>46. ASSUME NEW s \in Senders, CycleNext(s) \/ CrashCycle(s)
       PROVE  \A u \in Vacancies : approvals[u] \subseteq approvals'[u]
  BY <1>46, <1>28, <1>29, <1>30, <1>31, <1>32, <1>33, <1>34, <1>35, <1>36,
     <1>37, <1>38, <1>39, <1>40, <1>41, <1>42
     DEF CycleNext
<1>47. QED
  BY <1>1, <1>2, <1>3, <1>4, <1>5, <1>6, <1>26, <1>27, <1>43, <1>44, <1>45,
     <1>46
     DEF Next, UserStep

\* What is approved on a vacancy row, and what a request has read in order to
\* queue it, has been approved by the user.
ApprovedRows ==
    /\ \A v \in Vacancies :
          pipe[v].approved # NoText => pipe[v].approved \in approvals[v]
    /\ \A c \in Clients :
          req[c].pc \in {"queue_job", "queue_put"} =>
              req[c].text \in approvals[req[c].v]

\* Rows, queued jobs and requests go on carrying approved letters only.
LEMMA ApprovedRowsStep ==
    TypeOK /\ ApprovedRows /\ [Next]_vars => ApprovedRows'
<1> SUFFICES ASSUME TypeOK, ApprovedRows, [Next]_vars
             PROVE  ApprovedRows'
  OBVIOUS
<1>a. \A v \in Vacancies : approvals[v] \subseteq approvals'[v]
  BY ApprovalsGrow
<1> USE Fields DEF rows, hh, hist
<1>1. ASSUME \/ \E v \in Vacancies : LateResponse(v) \/ RespondElsewhere(v)
             \/ CreateBatch
             \/ \E s \in Senders :
                  \/ Claim(s) \/ Snapshot(s) \/ FetchFails(s)
                  \/ CycleRaises(s) \/ FetchResponded(s)
                  \/ FetchHasTest(s) \/ FetchClear(s) \/ SubmitBlocked(s)
                  \/ SubmitAccepted(s) \/ SubmitUncertain(s)
                  \/ ReconcileSent(s) \/ ReconcileFailed(s) \/ Finish(s)
                  \/ CrashCycle(s)
      PROVE  ApprovedRows'
  BY <1>1
     DEF ApprovedRows, LateResponse, RespondElsewhere, CreateBatch, Claim,
         Snapshot, FetchFails, CycleRaises, FetchResponded, FetchHasTest,
         FetchClear, SubmitBlocked, SubmitAccepted, SubmitUncertain,
         ReconcileSent, ReconcileFailed, Finish, CrashCycle
<1>2. ASSUME NEW v \in Vacancies, Decide(v)
      PROVE  ApprovedRows'
  BY <1>2, PipeEffect
     DEF Decide, ApprovedRows
<1>3. ASSUME NEW v \in Vacancies, EnrichArchive(v)
      PROVE  ApprovedRows'
  BY <1>3, PipeEffect
     DEF EnrichArchive, ApprovedRows
<1>4. ASSUME NEW v \in Vacancies, GenerateDraft(v)
      PROVE  ApprovedRows'
  BY <1>4, PipeEffect
     DEF GenerateDraft, ApprovedRows
<1>5. ASSUME NEW v \in Vacancies, SaveDraft(v)
      PROVE  ApprovedRows'
  BY <1>5, PipeEffect
     DEF SaveDraft, ApprovedRows
<1>6. ASSUME NEW c \in Clients, NEW v \in Vacancies, StartSaveApproved(c, v)
      PROVE  ApprovedRows'
  BY <1>6, RequestEffect
     DEF StartSaveApproved, ApprovedRows
<1>7. ASSUME NEW c \in Clients, NEW v \in Vacancies, StartApprove(c, v)
      PROVE  ApprovedRows'
  BY <1>7, RequestEffect
     DEF StartApprove, ApprovedRows
<1>8. ASSUME NEW c \in Clients, NEW v \in Vacancies, StartQueue(c, v)
      PROVE  ApprovedRows'
  BY <1>8, RequestEffect
     DEF StartQueue, ApprovedRows, ApprovalIntact
<1>9. ASSUME NEW c \in Clients, NEW v \in Vacancies, StartCancel(c, v)
      PROVE  ApprovedRows'
  BY <1>9, RequestEffect
     DEF StartCancel, ApprovedRows
<1>10. ASSUME NEW c \in Clients, NEW v \in Vacancies, StartReset(c, v)
      PROVE  ApprovedRows'
  BY <1>10, RequestEffect
     DEF StartReset, ApprovedRows
<1>11. ASSUME NEW c \in Clients, SaveCheckJob(c)
      PROVE  ApprovedRows'
  BY <1>11, RequestEffect
     DEF SaveCheckJob, ApprovedRows
<1>12. ASSUME NEW c \in Clients, SaveApproved(c)
      PROVE  ApprovedRows'
  BY <1>12, PipeEffect, RequestEffect
     DEF SaveApproved, ApprovedRows
<1>13. ASSUME NEW c \in Clients, ApproveWrite(c)
      PROVE  ApprovedRows'
  <2> DEFINE w == req[c].v
  <2>1. CASE pipe[w].status = "letter_draft"
    <3>1. /\ \A v \in Vacancies \ {w} : pipe'[v] = pipe[v]
          /\ pipe'[w].approved = req[c].text
      <4>1. pipe' = RowWith(w, "approved", pipe[w].draft, req[c].text)
        BY <1>13, <2>1 DEF ApproveWrite
      <4>2. w \in Vacancies
        OBVIOUS
      <4> HIDE DEF w
      <4>3. QED
        BY <4>1, <4>2, PipeEffect
    <3>2. req[c].text \in approvals'[w]
      <4>1. approvals' = [approvals EXCEPT ![w] = @ \union {req[c].text}]
        BY <1>13, <2>1 DEF ApproveWrite
      <4>2. DOMAIN approvals = Vacancies /\ w \in Vacancies
        BY DEF TypeOK
      <4> HIDE DEF w
      <4>3. QED
        BY <4>1, <4>2
    <3>3. /\ \A d \in Clients \ {c} : req'[d] = req[d]
          /\ req'[c].pc = "idle"
      BY <1>13, RequestEffect DEF ApproveWrite
    <3>4. QED
      BY <1>a, <3>1, <3>2, <3>3 DEF ApprovedRows
  <2>2. CASE pipe[w].status # "letter_draft"
    BY <1>13, <2>2, RequestEffect DEF ApproveWrite, ApprovedRows
  <2>3. QED
    BY <2>1, <2>2
<1>14. ASSUME NEW c \in Clients, QueueReadJob(c)
      PROVE  ApprovedRows'
  BY <1>14, RequestEffect
     DEF QueueReadJob, ApprovedRows
<1>15. ASSUME NEW c \in Clients, QueuePut(c)
      PROVE  ApprovedRows'
  BY <1>15, RequestEffect
     DEF QueuePut, ApprovedRows
<1>16. ASSUME NEW c \in Clients, QueueMove(c)
      PROVE  ApprovedRows'
  BY <1>16, PipeEffect, RequestEffect
     DEF QueueMove, ApprovedRows
<1>17. ASSUME NEW c \in Clients, QueueUndo(c)
      PROVE  ApprovedRows'
  BY <1>17, RequestEffect
     DEF QueueUndo, ApprovedRows
<1>18. ASSUME NEW c \in Clients, CancelJob(c)
      PROVE  ApprovedRows'
  BY <1>18, RequestEffect
     DEF CancelJob, ApprovedRows
<1>19. ASSUME NEW c \in Clients, CancelMove(c)
      PROVE  ApprovedRows'
  BY <1>19, PipeEffect, RequestEffect
     DEF CancelMove, ApprovedRows
<1>20. ASSUME NEW c \in Clients, ResetReadJob(c)
      PROVE  ApprovedRows'
  BY <1>20, RequestEffect
     DEF ResetReadJob, ApprovedRows
<1>21. ASSUME NEW c \in Clients, ResetPut(c)
      PROVE  ApprovedRows'
  BY <1>21, RequestEffect
     DEF ResetPut, ApprovedRows
<1>22. ASSUME NEW c \in Clients, ResetMove(c)
      PROVE  ApprovedRows'
  BY <1>22, PipeEffect, RequestEffect
     DEF ResetMove, ApprovedRows
<1>23. ASSUME NEW c \in Clients, ResetUndo(c)
      PROVE  ApprovedRows'
  BY <1>23, RequestEffect
     DEF ResetUndo, ApprovedRows
<1>24. ASSUME NEW c \in Clients, CrashRequest(c)
      PROVE  ApprovedRows'
  BY <1>24, RequestEffect
     DEF CrashRequest, ApprovedRows
<1>25. ASSUME NEW s \in Senders, NEW b \in 1..MaxBatches,
              NEW v \in Vacancies, NextJob(s, b, v)
      PROVE  ApprovedRows'
  BY <1>25
     DEF NextJob, ApprovedRows
<1>26. ASSUME NEW s \in Senders, Move(s)
      PROVE  ApprovedRows'
  BY <1>26, PipeEffect
     DEF Move, ApprovedRows
<1>27. CASE UNCHANGED vars
  BY <1>27 DEF vars, ApprovedRows
<1>28. ASSUME NEW c \in Clients, NEW v \in Vacancies, StartRequest(c, v)
       PROVE  ApprovedRows'
  BY <1>28, <1>6, <1>7, <1>8, <1>9, <1>10
     DEF StartRequest
<1>29. ASSUME NEW c \in Clients, RequestNext(c) \/ CrashRequest(c)
       PROVE  ApprovedRows'
  BY <1>29, <1>11, <1>12, <1>13, <1>14, <1>15, <1>16, <1>17, <1>18, <1>19,
     <1>20, <1>21, <1>22, <1>23, <1>24
     DEF RequestNext
<1>30. ASSUME NEW s \in Senders, CycleNext(s) \/ CrashCycle(s)
       PROVE  ApprovedRows'
  BY <1>30, <1>1, <1>26
     DEF CycleNext
<1>31. QED
  BY <1>1, <1>2, <1>3, <1>4, <1>5, <1>25, <1>27, <1>28, <1>29, <1>30
     DEF Next, UserStep

\* The whole approval invariant: from the row to the queue, to a cycle's hands,
\* to hh.
LEMMA ApprovalStep ==
    TypeOK /\ RoleInv /\ ApprovalInv /\ GenInv /\ [Next]_vars => ApprovalInv'
<1> SUFFICES ASSUME TypeOK, RoleInv, ApprovalInv, GenInv, [Next]_vars
             PROVE  ApprovalInv'
  OBVIOUS
<1> USE Fields
<1>a. \A v \in Vacancies : approvals[v] \subseteq approvals'[v]
  BY ApprovalsGrow
<1>r. ApprovedRows'
  BY ApprovedRowsStep DEF ApprovalInv, ApprovedRows
<1> DEFINE QueuedInv == \A v \in Vacancies :
                           job[v].status = "queued" => job[v].text \in approvals[v]
           CycleInv  == \A s \in Senders :
                           cyc[s].pc # "idle" => cyc[s].text \in approvals[cyc[s].v]
<1>i. QueuedInv /\ CycleInv /\ ApprovedTextOnly /\ ApprovedRows
  BY DEF ApprovalInv, ApprovedRows
<1>1. ASSUME JobKept
      PROVE  QueuedInv'
  BY <1>1, <1>i, <1>a DEF JobKept
<1>2. ASSUME CyclesKept
      PROVE  CycleInv'
  BY <1>2, <1>i, <1>a DEF CyclesKept, CycleKept, Holding
<1>3. ASSUME UNCHANGED cyc
      PROVE  CycleInv'
  BY <1>3, <1>i, <1>a
<1>4. ASSUME UNCHANGED job
      PROVE  QueuedInv'
  BY <1>4, <1>i, <1>a
<1>5. ASSUME UNCHANGED posts
      PROVE  ApprovedTextOnly'
  BY <1>5, <1>i, <1>a DEF ApprovedTextOnly
<1>6. QueuedInv' /\ CycleInv' /\ ApprovedTextOnly'
  <2>1. CASE Quiet
    BY <2>1, <1>1, <1>2, <1>5 DEF Quiet
  <2>2. CASE /\ batches' = batches + 1
             /\ UNCHANGED <<cyc, posts>>
             /\ \A v \in Vacancies :
                   /\ job'[v].status = job[v].status
                   /\ job'[v].text = job[v].text
                   /\ job'[v].gen = job[v].gen
                   /\ job'[v].batch \in {job[v].batch, batches + 1}
    BY <2>2, <1>3, <1>5, <1>i, <1>a
  <2>3. CASE /\ UNCHANGED <<cyc, posts, batches>>
             /\ \E c \in Clients, v \in Vacancies :
                   /\ req[c].pc = "queue_put" /\ v = req[c].v
                   /\ \A w \in Vacancies \ {v} : job'[w] = job[w]
                   /\ job'[v].status = "queued"
                   /\ job'[v].text = req[c].text
                   /\ job'[v].batch = 0
                   /\ job'[v].gen = job[v].gen + 1
    <3>1. QueuedInv'
      BY <2>3, <1>i, <1>a DEF ApprovedRows
    <3>2. QED
      BY <2>3, <3>1, <1>3, <1>5
  <2>4. CASE /\ UNCHANGED <<job, posts, batches>>
             /\ \E s \in Senders, v \in Vacancies :
                   /\ \A t \in Senders \ {s} : cyc'[t] = cyc[t]
                   /\ job[v].status = "queued"
                   /\ cyc'[s].pc = "claim"
                   /\ cyc'[s].v = v
                   /\ cyc'[s].batch = job[v].batch
                   /\ cyc'[s].batch >= 1
                   /\ cyc'[s].text = job[v].text
                   /\ cyc'[s].gen = job[v].gen
    <3>1. CycleInv'
      BY <2>4, <1>i, <1>a
    <3>2. QED
      BY <2>4, <3>1, <1>4, <1>5
  <2>5. CASE /\ UNCHANGED <<posts, batches>>
             /\ JobKept
             /\ \E s \in Senders :
                   /\ \A t \in Senders \ {s} : cyc'[t] = cyc[t]
                   /\ cyc[s].pc = "claim"
                   /\ job[cyc[s].v].status = "queued"
                   /\ job[cyc[s].v].batch = cyc[s].batch
                   /\ job'[cyc[s].v].status = "sending"
                   /\ cyc'[s].pc = "snapshot"
                   /\ cyc'[s].v = cyc[s].v
                   /\ cyc'[s].gen = cyc[s].gen
                   /\ cyc'[s].text = cyc[s].text
                   /\ cyc'[s].batch = cyc[s].batch
    <3>1. CycleInv'
      BY <2>5, <1>i, <1>a
    <3>2. QED
      BY <2>5, <3>1, <1>1, <1>5
  <2>6. CASE /\ UNCHANGED <<job, batches>>
             /\ CyclesKept
             /\ \E s \in Senders :
                   /\ \A t \in Senders \ {s} : cyc'[t] = cyc[t]
                   /\ cyc[s].pc = "submit"
                   /\ cyc'[s].pc \in Holding \ PrePost
                   /\ Post(s)
    <3>1. PICK s \in Senders : cyc[s].pc = "submit" /\ Post(s)
      BY <2>6
    <3> DEFINE w == cyc[s].v
               n == Len(posts[w])
    <3>2. cyc[s].text \in approvals[w]
      BY <3>1, <1>i
    <3>3. /\ w \in Vacancies
          /\ \A v \in Vacancies \ {w} : posts'[v] = posts[v]
          /\ n \in Nat
          /\ Len(posts'[w]) = n + 1
          /\ \A i \in 1..n : posts'[w][i] = posts[w][i]
          /\ posts'[w][n + 1].text = cyc[s].text
      BY <3>1, PostEffect
    <3>4. ApprovedTextOnly'
      <4>1. ASSUME NEW v \in Vacancies, NEW i \in 1..Len(posts'[v])
            PROVE  posts'[v][i].text \in approvals'[v]
        <5> HIDE DEF w, n
        <5>1. CASE v # w
          BY <3>3, <5>1, <1>i, <1>a DEF ApprovedTextOnly
        <5>2. CASE v = w /\ i = n + 1
          BY <3>2, <3>3, <5>2, <1>a
        <5>3. CASE v = w /\ i # n + 1
          <6>1. i \in 1..n
            BY <3>3, <5>3
          <6>2. posts[w][i].text \in approvals[w]
            BY <3>3, <6>1, <1>i DEF ApprovedTextOnly, n
          <6>3. QED
            BY <3>3, <5>3, <6>1, <6>2, <1>a
        <5>4. QED
          BY <5>1, <5>2, <5>3
      <4>2. QED
        BY <4>1 DEF ApprovedTextOnly
    <3>5. QED
      BY <2>6, <3>4, <1>2, <1>4
  <2>7. QED
    BY <2>1, <2>2, <2>3, <2>4, <2>5, <2>6, QuietOrLoud, LoudEffect
<1>7. QED
  BY <1>r, <1>6 DEF ApprovalInv, ApprovedRows

-----------------------------------------------------------------------------
(* The theorems.                                                            *)

\* The empty tables satisfy the inductive invariant.
LEMMA InitInv == Init => SendInv
<1> SUFFICES ASSUME Init
             PROVE  SendInv
  OBVIOUS
<1>0. /\ \A v \in Vacancies :
           /\ pipe[v].status = "review" /\ pipe[v].draft = NoText
           /\ pipe[v].approved = NoText
           /\ job[v].status = "none" /\ job[v].text = NoText
           /\ job[v].batch = 0 /\ job[v].gen = 0
           /\ posts[v] = <<>>
      /\ \A c \in Clients : req[c].pc = "idle"
      /\ \A s \in Senders : cyc[s].pc = "idle"
      /\ batches = 0
  BY DEF Init, NoJob, IdleReq, IdleCycle
<1>1. TypeOK
  <2>1. NoText \in Letter
    BY DEF Letter
  <2>2. PipeOK
    BY <2>1, StatusNames DEF Init, PipeOK, PipeRow
  <2>3. JobOK
    BY <2>1, StatusNames DEF Init, JobOK, JobRow, NoJob
  <2>4. ReqOK /\ CycOK
    BY IdleTyped DEF Init, ReqOK, CycOK
  <2>5. posts \in [Vacancies -> Seq([gen : Nat, text : Letter])]
    BY EmptySeq DEF Init
  <2>6. HistOK
    BY <2>5 DEF Init, HistOK
  <2>7. QED
    BY <2>2, <2>3, <2>4, <2>6, TypeParts
<1>2. RoleInv
  BY <1>0 DEF RoleInv
<1>3. ApprovalInv
  BY <1>0 DEF ApprovalInv, ApprovedTextOnly
<1>4. SentInv
  BY <1>0 DEF SentInv, SentIsTrue
<1>5. GenInv
  BY <1>0 DEF GenInv, ClaimInv, HoldInv, PostInv, OnePostPerEnqueue,
              Holding, PrePost
<1>6. QED
  BY <1>1, <1>2, <1>3, <1>4, <1>5 DEF SendInv

\* Every statement of a request, a cycle or hh preserves it.
LEMMA NextInv == SendInv /\ [Next]_vars => SendInv'
<1> SUFFICES ASSUME SendInv, [Next]_vars
             PROVE  SendInv'
  OBVIOUS
<1>1. TypeOK /\ RoleInv /\ ApprovalInv /\ SentInv /\ GenInv
  BY DEF SendInv
<1>2. TypeOK'
  BY <1>1, TypeStep
<1>3. RoleInv'
  BY <1>1, RoleStep
<1>4. ApprovalInv'
  BY <1>1, ApprovalStep
<1>5. SentInv'
  BY <1>1, SentStep
<1>6. GenInv'
  BY <1>1, QuietOrLoud, GenQuiet, GenLoud
<1>7. QED
  BY <1>2, <1>3, <1>4, <1>5, <1>6 DEF SendInv

\* The inductive invariant of the queue and its senders holds in every
\* reachable state.
THEOREM Invariance == Spec => []SendInv
<1>1. Init => SendInv
  BY InitInv
<1>2. SendInv /\ [Next]_vars => SendInv'
  BY NextInv
<1>3. QED
  BY <1>1, <1>2, PTL DEF Spec

\* Every variable keeps its type.
THEOREM TypeCorrect == Spec => []TypeOK
<1>1. SendInv => TypeOK
  BY DEF SendInv
<1>2. QED
  BY <1>1, Invariance, PTL

\* Every letter posted to hh was approved by the user for that vacancy,
\* whatever the numbers of vacancies, requests and overlapping cycles.
THEOREM ExactTextApproval == Spec => []ApprovedTextOnly
<1>1. SendInv => ApprovedTextOnly
  BY DEF SendInv, ApprovalInv
<1>2. QED
  BY <1>1, Invariance, PTL

\* One enqueue never leads to two POSTs, however many cycles overlap, requests
\* interleave, and crashes happen.
THEOREM NoDoublePost == Spec => []OnePostPerEnqueue
<1>1. SendInv => OnePostPerEnqueue
  BY DEF SendInv, GenInv, PostInv
<1>2. QED
  BY <1>1, Invariance, PTL

\* A row or a job marked sent has its negotiation on hh.
THEOREM SentRecordsAreTrue == Spec => []SentIsTrue
<1>1. SendInv => SentIsTrue
  BY DEF SendInv, SentInv
<1>2. QED
  BY <1>1, Invariance, PTL

\* The job a cycle can still claim is the job it read, letter included.
THEOREM ClaimIsExact == Spec => []ClaimedJobIsTheOneRead
<1>1. SendInv => ClaimedJobIsTheOneRead
  <2> SUFFICES ASSUME SendInv, NEW s \in Senders, cyc[s].pc = "claim",
                      job[cyc[s].v].status = "queued",
                      job[cyc[s].v].batch = cyc[s].batch
               PROVE  /\ job[cyc[s].v].text = cyc[s].text
                      /\ job[cyc[s].v].gen = cyc[s].gen
    BY DEF ClaimedJobIsTheOneRead
  <2>1. TypeOK /\ ClaimInv
    BY DEF SendInv, GenInv
  <2>2. batches \in Nat
    BY <2>1 DEF TypeOK
  <2>3. QED
    BY <2>1, <2>2, Fields DEF ClaimInv
<1>2. QED
  BY <1>1, Invariance, PTL

=============================================================================
