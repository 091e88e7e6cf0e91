# Otclick-hh: TLA+ models of the send pipeline, its worker, its pages and its extension

Otclick applies to vacancies on hh.ru for its users.  A FastAPI process serves
the user (`backend/app/api`), a worker process does the background work
(`backend/worker_main.py`), and the two share nothing but Supabase tables.  The
user-visible promise is narrow and strong: *only the exact letter the user
approved is sent, at most once per queueing, and never when the user has said
stop*.  No database transaction spans two statements and no lock spans the two
processes, so this promise rests on the order of single `UPDATE ... WHERE
status = ...` statements.  That order is what the first five modules model.

The user sees all this through a web client (`frontend/`) that polls, caches and
guesses, and fills forms of other sites with a browser extension (`ext/`).  What
these show, offer and send is the subject of the other modules: every page is
modelled together with the handlers its buttons call.

All paths below are relative to the repository's root.

## 1. Inventory

| Part | State it keeps | Operations | What makes it hard | What makes it correct |
|---|---|---|---|---|
| Vacancy lifecycle (`services/vacancy_pipeline.py`, `vacancy_review_service.py`) | `vacancy_pipeline.status` and letter columns | `transition`, `decide`, `enrich`, `archive_many` | read, then a guarded `UPDATE`; every other part moves the same row | a decision is not undone by work that was under way |
| Letters (`services/pipeline_cover_letters.py`) | draft, approved text and hash | `generate_draft`, `save_draft`, `approve_letter` | the draft may change between the read that is hashed and the write | an approval names the text the user saw |
| Send queue (`services/send_queue_service.py`) | `application_send_queue`, one job per vacancy | `queue_approved`, `cancel_queued`, `reset_failed`, with compensations | two tables, no transaction, compensations that race with the sender | one enqueue, one POST; cancelled means not sent |
| Persistent sender (`services/persistent_sender.py`) | a cycle's locals, a job in `sending` | `process_next`: claim, snapshot check, fetch, submit, reconcile, finish | lost answers of hh, overlapping cycles, a crash anywhere | text is the approved one; `sent` means hh has it; no second POST |
| Runtime control (`services/send_runtime_control.py`, migration 040) | desired state, active batch, lease, batches | Resume, Pause, Stop after current, lease RPCs, finalisation | expiring leases without fencing; a late finaliser; requests between a cycle's statements | one cycle at a time inside a lease; stop means at most one more; no batch is lost |
| Scoring (`services/pipeline_scoring.py`, `pipeline_maintenance.py`, migration 044) | claim token, lease, attempts, failures | claim, enrich, score, retry, requeue, reap | several scorers of two processes, expired leases, stale lists, the user's pre-emption | the score in a row is that of its latest claim; no row stays in `scoring` |
| hh credentials (`services/hh_credentials.py`, `token_refresh.py`, `hh_auth.py`, `hh/client.py`) | the token row, a client cache per process, client objects | load, refresh, persist, invalidate, login, disconnect | single-use refresh tokens, shared and copied clients, lost answers | the row has a live refresh token or a call is about to write one |
| Search runs (`services/search_run_service.py`, migration 042) | run rows, request queue | claim, heartbeat, finish, fail | a dead or overlong run is failed by the next claim | one run of a user at a time |
| Worker and runner (`worker/runner.py`, `services/worker_control.py`) | switches, asyncio tasks | start, stop, reconcile, the captcha pause | tasks cancelled at any `await`, a start lost behind a late disable | a loop whose switch stays off ends |
| Captcha (`services/captcha.py`, `hh/web_captcha.py`) | challenge row, four browser slots | open, answer, dismiss, time out | an answer crosses a newer challenge; a slot leaks on cancellation | a slot is free, held or lost at a known await; a pause holds |
| Form drafts and recruiter drafts (`services/form_drafts.py`, `recruiter.py`) | drafts with a status | approve, send, answer, discard | no claim between the read and the submission | a decision that is still to be made stays on the page |
| Producer, sources, selection rules | cursors, rules and proposals | round robin over sources; versions of rules | versions computed before they are inserted | one active rule of a kind |
| AI, context, page parsing, sync, notifications, plan | texts and copies of hh data | pure preparation, I/O | little: idempotent or stateless | - |
| Web client, pages (`frontend/src/app/(app)`, `hooks`, `components`) | cached lists, selections, editors, polled copies of server rows | load, poll, click, apply an answer | answers lost, late and in any order; rows decided that were read some time ago; effects of an earlier render | a page shows, or comes to show, what the server has; a late answer never replaces a newer one |
| Web client, captcha window (`components/captcha-modal.tsx`) | the row shown, its picture | first read, change notices, solve, dismiss | notices and pictures overtake each other | the window is about the newest open captcha and shows its screenshot |
| Extension, form filling (`ext/lib/snapshot.ts`, `entrypoints/content.ts`) | the form's fields, references, harvested options, marks | observe, fill in two rounds, read edits back | the page changes and the user types between the rounds; menus of several drop-downs | options are the field's own; a correction survives; nothing is learnt that nobody changed |
| Extension, session (`ext/lib/auth.ts`, `session-sync.ts`) | a token pair in storage | adopt, refresh, sign out | storage is read and written between awaits, by several calls | a sign-out holds |
| Extension, chat (`ext/lib/chat-store.ts`, `panel.ts`) | one stored history, a panel per tab | load, ask, clear | every append reads and rewrites the list, which is cut at a limit | a reload repeats what the panel showed |

Interactions: the API's requests and the worker's cycles meet only in the
tables; hh.ru is called by both; a worker loop in `worker_main` runs the reaper
(`reap_expired_vacancy_scoring`) and reconciles the tasks every 15 seconds.
The web client calls the API and reads the captcha table's changes from Supabase
directly; the extension calls the API with a copy of the web client's session.
`process_next` of the persistent sender exists and is tested, but nothing in
this commit schedules it; its model therefore assumes no schedule.

`PROJECT.json` lists each component with its status, and every hazard at the
line where it bites.

## 2. The modules

One action is one database statement, one call of hh, or one step between two
of them at which another process may run.  A read directly followed by an
`UPDATE` that repeats everything read in its `WHERE` is one action: no other
process can tell it from two.

### SendQueue — approval, queue and sender cycles

| Model | Code |
|---|---|
| `pipe` | a `vacancy_pipeline` row: status, draft, approved hash. `review` stands for all statuses before `selected` |
| `job` | the vacancy's `application_send_queue` row; `gen` counts its enqueues (history) |
| `req`, `cyc` | API requests and sender cycles: next statement and the values already read |
| `responded`, `inflight` | hh: the negotiation exists; hh has the POST but has not acted on it |
| `approvals`, `posts`, `settled` | history: what was approved, what was posted, what a cycle saw confirmed |
| `Decide`, `EnrichArchive`, `GenerateDraft`, `SaveDraft`, `StartApprove`/`ApproveWrite`, ... | the handlers of the letter code, statement by statement |
| `StartQueue`..`QueueUndo`, `StartCancel`.., `StartReset`.. | `queue_approved`, `cancel_queued`, `reset_failed` with their compensations |
| `NextJob`..`Move` | `_process_leased`; `SubmitUncertain` is a POST whose answer does not say whether it took effect |
| `RespondElsewhere`, `LateResponse` | hh's own doings |
| `CrashRequest`, `CrashCycle` | a process dies between two statements |

A letter is a member of `Texts` and is its own hash.  `Texts` has two members
in the runs: "the approved letter" and "another one" is all the guards compare.

### SendPromise — what the user is promised about letters

An abstract specification without queue, batches, requests or cycles: texts are
approved, a vacancy is enqueued, and a letter is sent only if its text is
approved and its enqueue has had none; what is recorded as sent is answered on
hh.  `SendQueue!KeepsPromise` is this specification under a refinement mapping
(`INSTANCE SendPromise WITH`): the number of enqueues is the generation of the
job, and "recorded" is a `sent` in either table.  A crash, a reset, a
compensation, a reconciliation and all the guards are stutters or truthful
changes of the records.

### SendControl — Resume, Pause, Stop, batches and the lease

Same granularity, on the control row (`desired`, `active`), the lease (`owner`,
`live`), batches and jobs.  There is no clock: a live lease may expire at any
time (`Expire`), which includes every timing of a slow cycle.  A cycle uses a
fresh owner name, so a lease is never its own already.  History: `overran`
(cycles whose lease expired under them), `torn` (batches whose Resume died
after the assignment), `claimedOff` (claims after a stop).  What a cycle does to
its job is SendQueue's; here `Work` ends it or raises.

SendQueue and SendControl cut the same code at the call of `_process_leased`:
SendQueue lets cycles overlap freely, which is the worst SendControl's lease can
do once it has expired, so what is shown there does not depend on the lease.

### Scoring — claims on vacancies

`token`, `live`, `attempts`, `failures` are the columns; a claim's token is its
number.  `pc`, `row`, `mine`, `readStatus`, `readAttempts` are a scorer's
locals, `readAttempts` being the list's copy of the count.  A scorer may crash,
be cancelled or hang at every step; the user decides at any time; the reaper is
`Reap`.

### Credentials — the OAuth pair in three places

Pairs are numbered in the order of issue; `pairs[k].heir` is the pair hh gave
for `k`'s refresh token.  `row` is `hh_credentials`; `cache` the client cache of
each process; `calls` are the running calls with the client object each holds
(`cl`), the pair in it, the pair noted at the start (`orig`).  Calls that share
an object see each other's refresh.  Two client objects are never confused: an
identity is reused only once nobody holds it.

The only assumption on time: a pair lives for two weeks, a cached client for 60
seconds, a call for minutes, so every pair has a moment with no call running and
no client cached; that is where `Expire` may happen.  Expiry is read only by a
refresh, so moving it forward to such a moment removes no behaviour.
`Faults` switches crashes, lost answers of hh and failed writes.  A persist
that reads access and refresh token of a shared client on both sides of another
call's refresh (a torn read) is not modelled: the three fields are read in one
expression.

### Runner — the apply loops and the captcha pause

| Model | Code |
|---|---|
| `enabled`, `creds`, `row` | `profiles.worker_enabled`, the connection's row (none, valid, marked invalid), the newest `captcha_requests` row: unsolved, with an answer |
| `task` | a user's asyncio task: next statement; what a browser being closed is closed for; whether the row's id was read when it was opened |
| `sessions`, `slots` | `web_captcha._sessions` and the value of `_semaphore` |
| `late` | a write a cancelled task was waiting for: its thread runs on |
| `main` | `_reconcile`: snapshot of the connections, of the switches, users left |
| `walled`, `staleStarts`, `lost` | history: a wall nobody has lifted; loops started since the switch went off; slots nobody will give back |
| `StartApply`..`DisableWorker` | `_run_loop`: an apply ends, meets a captcha, or takes the terminal path |
| `LoadCookies`..`MarkSolved` | `_run_paused_captcha`, `open_for`, `close_for`, `_resume_from_captcha`, await by await |
| `Unwind`, `Raises`, `Cancel` | what the `finally` and `except` clauses still do when the task ends at that await |
| `ReadCreds`..`PassEnds` | `active_user_flags` (two reads) and `WorkerRegistry.reconcile` of each user |
| `Start`..`Dismiss`, `Restart` | the API's requests, login and cron; the process |

`"loop"` stands for everything between two applies: limits, producer, breaks and
throttle only delay, and none holds anything.  The recruiter loop has a task of
its own with nothing shared but the handle; it is not modelled.  A pass waits
for a cancelled task while it holds the registry's lock (`Awaited`).  A user has
one row in the model; the answer goes to all unsolved rows at once, so an older
row shows the same answer, except after a late insert by a cancelled apply.

### The web client: one module per group of pages

Each module has the page's state (what `useState`, refs and the query cache
hold), the server's rows it is about, and the requests between the two, with
the stage each has reached: asked, read or done by the server, answered.  A
render's effects belong to the action that caused the render, unless the effect
is one that runs later (`SenderPages`).  An answer may be lost, and the answers
of two requests may come in any order.

| Module | Pages and handlers | State besides requests |
|---|---|---|
| `Todo` | `todo/page.tsx`, `useRecruiter.ts`, `useFormDrafts.ts` with `form_drafts.py`, `recruiter.py` | `row` in the database, `list` cached per query, `card` local edits, `known` (history) |
| `Chats` | `chats/page.tsx`, `useChats.ts` | `lists` of the two queries, `selectedId`, `messages`, `reqId`, `text`; the deep link |
| `HHConnect` | `onboarding/page.tsx`, `useHHConnect.ts` with the login jobs of `hh_auth.py`, `api/auth.py` | `jobs`, `answers` queued for the login browser, `phase`, `timer`, `polls` |
| `Vacancies` | `vacancies/page.tsx`, `cover-letter-editor.tsx` with the handlers of `vacancy_review_service.py`, `pipeline_cover_letters.py` | `pipeline` in the database, `rows` shown, `ticked`, `editors`, `busyId` |
| `SenderPages` | `vacancies/run`, `sender-control.tsx`, `send-problems.tsx`, `bulk` with their handlers | `searches`, `control`, `sendJobs` and the page's copies of them, `effect` |
| `Shell` | `worker-bar.tsx`, `onboarding-modal.tsx`, `useFilters.ts` with `api/worker.py` | `flags` stored, `status` cached, `tour`, filter reloads |
| `CaptchaModal` | `captcha-modal.tsx` with `api/captcha.py`, `services/captcha.py` and the pause of `runner.py` | the rows, their screenshots, `feed` of changes, `pending`, `imageUrl` |

`MCPages` composes them: the router shows one page at a time, so `scene` is the
page open and the variables of the others rest.  Texts are three values
(stored, edited, empty), a letter is the number of the draft it is, and a
screenshot is the number of its upload.

### The browser extension

- `Snapshot`: `observe` and `observeWithOptions` on a form that is a record of
  documents and elements.  An element keeps what the code asks of the DOM;
  a search around it is kept as its result.  A menu that does not listen to
  Escape stays on the screen (`sticky`).
- `FormFill` extends it: `runFill` with its two rounds (facts at once, the
  backend's answers later), `FormFiller.apply` field by field, the user's edits
  in between, and `saveEdits`.  A value is told apart by who chose it; `code` is
  the page's own spelling of a choice made by its label.
- `ExtSession`: pairs `<<sign-in, generation>>`, background calls between two
  awaits, the web client's cookie and the authentication service (external).
- `ExtChat`: the shared history, a panel and a turn per tab.

`MCExtension` has the forms and runs one of the three parts at a time: they share
no state.

## 3. Runs

`MC*.tla` instantiates a module for TLC (model values, symmetry over requests,
cycles, letters, client objects; none in the runs of Scoring and Runner, of which
one each checks liveness).  `Pages` checks liveness too and has no symmetry;
`Extension` is symmetric in background calls and panels.

| Run | Shows |
|---|---|
| `SendQueueCycles` | two overlapping cycles, one request, crashes: one POST per enqueue, a claim takes the job that was read, the letter and the job are frozen under a submit, a confirmed response is never submitted again; the queue implements `SendPromise` |
| `SendQueueRequests` | two overlapping requests, one cycle, crashes: only approved letters are posted, `sent` is true on hh |
| `SendQueueStranded` | *violated*: a failed job whose vacancy cannot be reset |
| `SendControlCycles` | two cycles, one request, crashes: exclusive lease, at most one more job after a stop, completed batches stay done, no stranded job, the active batch is kept until done |
| `ScoringClaims` | two scorers, user and reaper: the score is the latest claim's, a claim exactly while scoring, decisions stand, and (with fairness) scoring ends |
| `CredentialsCalls` | two calls at a time of all kinds, crashes, lost answers: a spent row is about to be brought up to date unless a fault or the poll lost the pair; the row never goes back within a login |
| `CredentialsPoll` | *violated without faults*: the poll's early refresh is not persisted |
| `RunnerLoops` | one user's loops with pauses, crashes, cancellations at every await, late writes and restarts: slots add up, no open browser without its loop, one stale start at most, and (with fairness) a switch that stays off stops the loop |
| `Pages` | every page, one at a time, against its server: a card that is gone was decided; no late history replaces a newer one; a page's decision never takes back an approved vacancy; the captcha window is about the newest open captcha; and (with fairness) the end of a login job and of a search run comes to be shown, and the worker's bar settles on the stored switches |
| `Extension` | five forms, the session and the chat: a field is offered its own options only; a correction of a fact survives the second round; only a call under way undoes a sign-out; a panel repeats what it showed |
| `ExtEdits` | *violated*: an unchanged field is saved as a correction |
| `CaptchaPicture` | *violated*: a new screenshot of the open captcha is not shown |

### Bounds

- One vacancy (`SendQueue`, `Scoring`): the guards of a step look at its own
  vacancy only.  Two jobs (`SendControl`): with one, a second claim after a stop
  could not exist, since a job returns to a batch only through a Resume.  The
  proofs hold for any number.
- `MaxEnqueues = 2`, `MaxBatches = 2`: an old and a new generation, an old and a
  new batch; every hazard listed confuses just two.  The bounds are guards of
  `QueuePut` and `CreateBatch`.
- Two requests *or* two cycles, each in a run of its own against one of the
  other: a third actor would add no new pair of interleaved statements.  The
  theorems hold for any number; some suppose that requests take turns
  (`OneRequest`, `TakeTurns`; section 5).
- `MaxClaims = 3` (two scorers) lets a claim be lost, taken over and lost again.
- `MaxPairs = 3`: the row's pair, its heir and the heir's heir or a new login's.
  `Clients` has three identities, which two calls and two caches can use up; a
  call then waits.
- One user and `Cap = 1` (`Runner`): with two users the state space passes 15
  million states.  Users meet in the pass, which visits them one by one, and in
  the semaphore, whose value the one user also finds at 0 once a slot is lost
  (`AtCapacity`).  `RunnerProofs` covers any number of users and slots.
- `Pages`: the counters allow one more than the interleaving a property is about
  needs: two message loads (an old and a new), two list loads, two polls of a
  login under way at once, two captchas (one followed by another), two requests
  on a vacancy and one step of the scorer or sender between them; one form,
  draft, question and task, the last written while the page is open.  The
  pages' properties are about one row at a time, except the orders of requests,
  for which two suffice.  `PagesProofs` covers any number of everything, on
  every page.
- `Extension`: five forms of up to five elements, each with one difficulty
  (native inputs, drop-downs with menus of their own, a list a drop-down owns,
  web components, frames), one edit, two fills.  At most one menu is open when a
  snapshot starts or survives Escape.  Two background calls and two panels:
  every race there is between two.  A history of at most two messages instead
  of forty: the cut happens in the first turn.  `ExtensionProofs` covers any
  forms, calls, panels and limits.
- Deadlock is not checked: a user who does nothing is a legitimate end, and the
  bounds stop runs.

### Fairness

SendQueue, SendControl and Credentials state no fairness: nothing schedules the
sender, and no request need be made.  Scoring's liveness run assumes
`WF(Expire)` (time passes) and `WF(Reap)` (the worker's loop calls the reaper
every 15 seconds for as long as it runs).  It assumes nothing of the scorers,
which may hang or die for ever, and nothing of the user.

Runner's liveness run assumes what `main`'s loop gives for as long as the process
runs: a pass begins every 15 seconds (`WF(ReadCreds)`), visits every user
(`WF` of a user's visit: the discovery and scoring before it, caught or not,
return) and ends.  A read of the switches may fail any number of times but not
for ever (`SF(ReadFlags)`).  A browser told to close closes
(`WF(CloseBrowser)`, `WF(StopPlaywright)`, raising or not).  Nothing is assumed of
the loop itself, which may stay at any other await: a pass cancels it there.

`Pages`' liveness assumes what the timers and the server give while the page is
open: the login and worker polls tick (two and five seconds), an effect whose
render happened runs, a request is served and answered some time
(`PagesFairness`, the conjunction of `ConnectFairness`, `SenderPagesFairness`
and `ShellFairness`).  Losses are counted by a bound, so no fairness hides them;
nothing is assumed of the user, of a login or search run ending, or of a click.
Captcha, Todo, Chats and Vacancies state none: their properties are safety.

## 4. Where code and texts disagree

Each violation run checks what a comment, docstring or test says:

1. `queue_approved` makes the job claimable before it moves the vacancy.  A
   cycle in between fails the job; neither cancel nor reset then accepts the
   vacancy (`SendQueueStranded`).
2. The recruiter poll notes the token after the first request that may have
   refreshed it (`CredentialsPoll`).
3. The extension saves as a correction every field whose value reads back in
   another spelling, though "unchanged values teach the memory nothing"
   (`ext/lib/edits.ts`; `ExtEdits`).
4. The captcha window "already re-renders on any `storage_path` UPDATE"
   (`docs/superpowers/specs/2026-08-22-captcha-real-solve-design.md`), but its UPDATE
   handler fetches no picture (`CaptchaPicture`).

Four more contradict a text; the property stays in its module, marked "(Does not
hold: ...)", because history variables and proofs there speak of it, and has no run:
`SendQueue!CompensationBeforeAnyPost` (the compensation of `queue_approved` is
commented "No HH call has happened", and cancels by id alone a job a cycle may
have posted); `Scoring!ThirdFailureIsTerminal` (transient failures are counted
from the list's copy of `score_attempts`, so a manual retry does not start a new
budget); `Credentials!InvalidatedIsDead` (the refresh cron takes any error
status for a dead token); `Runner!PauseHolds` ("Captcha pauses indefinitely until
external resume", but an exception in the paused task ends the pause and the
next pass applies behind the wall).  One is no matter of order: the dashboard's
captcha banner reads `items` of an answer that is a bare list
(`captcha-banner.tsx:11`, `api/captcha.py:30`), so it never shows.

Met while modelling, without a text that contradicts them, so without a run: a
Resume that races the end of the batch leaves the control running with none; two
Resumes at once strand a batch; a lease taken with no active batch is not
released; a Stop after the last release leaves `stop_after_current` in place; a
crashed or raising cycle leaves its job in `sending` for ever; a client built
from a row read before a login is cached after it for 60 seconds; a late
persist can overwrite the pair of a newer login; `mark_invalid` writes
unconditionally; `score_lease_failures` is not reset by a requeue; `enrich`
archives from any status; `open_for` and `close_for` lose a browser slot when they
are cancelled before the session is registered or while playwright starts or
stops (the launch's `except Exception` does not catch a cancellation), and four
of those stop captcha pauses for every user until a restart; `_disable_worker`
overwrites a Start; a cancelled resume may recreate a removed connection; an
answer typed between the read and the clear of the last one is dropped.

On the pages: a double click sends a reply or a form twice, and a discard can
relabel a draft that was sent (`Todo`, no claim in the handlers); an approval the
server refuses with `ok: false` still drops the card; a message sent from a chat
that was left reloads that chat into the pane (`Chats`); a late list of an earlier
tab replaces the rows of the tab shown, and an approval may name a draft
that was generated anew and never seen (`Vacancies`); a single lost poll marks a
login failed that goes on in the server, and an answer queued for a login's
captcha is taken by its next one (`HHConnect`); a poll overwrites an interval
being typed (`SenderPages`); a captcha dismissed while its pause is under way
leaves the worker waiting for a row nobody sees (`CaptchaModal`).  In the
extension: a radio button is reported as filled whether it was or not; a second
fill started by the shortcut overlaps the first; extension and site share one
single-use refresh token, so the slower refresh of the two may end a session;
appends of two tabs can lose a message in the store.

## 5. Proofs

`tlapm` proves, for every value of the constants:

**SendQueueProofs.**  `TypeCorrect`, `ExactTextApproval`, `NoDoublePost`,
`SentRecordsAreTrue`, `ClaimIsExact`.  They follow from `Invariance`: `SendInv`
is inductive.  None of the properties is so by itself, and the conjuncts say
why they hold all the same:

- `RoleInv`: a reset in progress remembers `failed` or `manual_required`, so its
  rollback never puts a job back in the queue; a cycle's outcome is a final one.
- `ApprovalInv`: the text travels request → job → cycle → POST, and at each stop
  it is one of the approved.  The guard of `SnapshotMatches` is not needed for
  this; approvals are never withdrawn from history.
- `SentInv`: an outcome `sent` in a cycle's hands is already true on hh.
- `GenInv`: jobs have generations.  `ClaimInv`: a cycle that read an older
  generation finds the job outside its batch (a re-queue clears the batch, a
  later batch has a larger id).  `HoldInv`: once a generation is claimed its job
  is not `queued`, and two cycles before their POST hold different generations.
  `PostInv`: a cycle before its POST has not posted its generation.

**SendPromiseProofs.**  `QueueKeepsPromise`: `SendQueue!Spec => KeepsPromise`.
Initial states map to initial states, and `PromiseStep` maps every step to a step
of `SendPromise` or a stutter, with a lemma per kind (`ApproveStep`, `EnqueueStep`,
`SendStep`, `AnswerStep`).  `ApprovalInv`, `PostInv` and `SentInv` of the invariant
above give the abstract guards; one more conjunct is needed (`WasEnqueued`: a
queued job and a cycle's job have been enqueued at least once), since a POST for an
enqueue that never was would satisfy the safety properties and not the promise.

The same module proves what needs requests on one vacancy not to overlap: `SubmitHolds`
(`SubmitHoldsTheJob`), `LetterFrozen` (`LetterFrozenUnderSubmit`) and `NeverTwice`
(`SettledNeverResubmitted`), under `[]TakeTurns`, for any number of requests on
other vacancies and of overlapping, crashing cycles.  `TurnsInv` is inductive
together with `SendInv`: `RowAgrees` says what a vacancy's status means for its
job and the cycles, `TurnAgrees` what a request may still rely on of what it
read, `HoldsOn` what a cycle holds, and `HolderAlone` that no two cycles work on one
vacancy (the lease is no part of it: generations and claims see to it).

**SendControlProofs.**  `TypeCorrect`, `OneLeaseOwner`, `StopsAfterCurrent`,
`CompletedBatchIsDone` from `ControlInv`, for any number of requests and
cycles: `StopInv` (after one claim with the control off, no cycle inside its
lease still has one to make: here exclusivity is used), `KnownIds` and
`RowsExist` (ids in use have a row), `PrivateBatch` (a batch just inserted is
known to one request), `FinalInv` (a cycle that found its batch done is right
for ever, because jobs only join a batch that is private).  `NothingStranded`
and `ActiveBatchKept` hold for one control request at a time: the theorems have
that hypothesis (`OneRequest`), and `LoneResume` is the invariant.

**ScoringProofs.**  `TypeCorrect`, `LatestClaimScores`, `ClaimIffScoring`,
`DecisionsStand` from `ScoringInv`; `RequeueInv` says that a requeue never read a
status the user or hh made final.

**CredentialsProofs.**  `TypeCorrect`, `RowCaughtUp` (`RowKeepsUp`) and
`RowMovesForward` (`NeverBack`) from `CredInv`, for any number of calls, client
objects and pairs.  `ChainInv`: of the pairs of one login only the last is
unspent, and a spent pair has expired.  `FreshInv`: what a call is bound to write
is unexpired, because nothing expires under a running call (the timing at the
head of the module).  The two together give `NeverBack`: an unexpired pair is the
last of its login, so writing it never goes back, whoever writes last.
`SharedInv`: all holders of one client object see one token, and while a
replacement is on its way to a client the client still has the pair replaced;
`RowKeepsUp` needs this when the new pair reaches every holder of the client at
once (`TakePairStep`).  `StepInv` says what a call holds at each statement.

**RunnerProofs.**  `TypeCorrect`, `SlotsAddUp` (`SlotsAccounted`),
`OpenBrowsersOwned` (`SessionsOwned`) and `OneStaleStart`
(`AtMostOneStaleStart`) from `RunnerInv`.  The number of holders is a cardinality
over all users; `HoldersMove` shows that it follows the one task that moves, and
`TaskStep` reduces every step of a task to a sum of four numbers: slots, losses
and what the task held before and after.  `SlotsAccounted` needs
`SessionsOwned` in its proof: which `finally` clause runs is decided by
`_sessions`, not by the statement.  `StaleInv` is the strengthening of
`AtMostOneStaleStart`: the user is no longer among those the pass will start.

**PagesProofs.**  The web client, for any number of rows, requests, polls, loads
and searches.  `ClientTypeCorrect` (`PagesTypeOK`) and `ClientCorrect` (the four
safety properties of the run `Pages`) hold of the whole client: a step of it is a
step of the page that is open (`PageSteps`), and each page has an invariant:

- Chats, `PaneInv`: numbers are given once, and what is shown is older than the
  newest request while that is unanswered.  `NeverBack` (`MessagesNeverGoBack`) and
  `LoadingIsHonest` (`LoadingMeansUnanswered`) follow.  Every action touches the
  pane in one of four ways or not at all (`NextTouches`).
- Tasks, `TodoInv`: `GoneMeansResolved` is not inductive, since a list read earlier
  is applied later and an answer is believed later.  `Missing` says what a list on
  its way leaves out, `AnswersDecided` what an answer on its way means, `OwnRows`
  that no list holds rows of another table (the sections' tables are disjoint).
- Captcha, `WindowInv`: `WindowIsCurrent` speaks of an empty feed only.  `FateKnown`
  says of what is shown, and of each insertion on its way, that it is current or
  that a change behind it takes it away; `RaisedInOrder` that captchas are
  raised in their order, so the newest open one is the last raised.
- Vacancies, `VacanciesInv`: `AskFits` says that a handler under way has read only
  rows in statuses its operation permits.  As it writes only onto a status that
  has not changed since, `DecisionsSpareApproved` follows (`ApprovedSpared`).
- Search and sending, `SenderInv`: the types alone are not inductive.  A poll, an
  answer and the run shown name a search that was started (`RunFollowed`,
  `FitCall`), and no call that would store a malformed interval is under way.

**ExtensionProofs.**  For any forms, number of calls, panels, fills and edits:
`SignedOutStays` (`SignOutHolds`), `PanelsRepeat` (`PanelRepeats`), `OptionsOwn`
(`OptionsAreOwn`), `CorrectionsStay` (`CorrectionsSurvive`), `ExtensionTypeCorrect`
(`ExtTypeOK`) and, of the extension as a whole, `ExtensionCorrect`.

- `SignedOutInv`: signed out and with nothing under way, all calls are idle.
- `PanelFits`: what the panel shows and what is stored differ by the question
  until that is written; what an append read still stands when it writes.
  This holds of a panel nothing else wrote beside (`disturbed` says when).
- `OptionsInv`: what was harvested earlier belongs to the drop-down its key in
  the cache names.
- `QueueInv`: each field still to be applied is in the queue once, none of them
  has been applied in this run, and what the user corrected has been.

`OptionsOwn` and `CorrectionsStay` have a condition on the form met, which no
code can bring about: `TellsDropdownsApart` (at most one menu is open at a time; a
selector finds its own drop-down or nothing; label and selector name one
drop-down) and `FieldsApart` (no field's value lands on the element of another
field).  TLC found both to hold throughout on the five forms of `Extension`.  Two
menus that stay open, or a selector that finds a twin, do break the properties.

### Assumptions

Those on the constants are named in the modules (`SendQueueAssumption` and so on,
one per module); TLC evaluates them on every run.  They say that values standing
for "none" are none of the others, that bounds are numbers (not zero where a
page begins with a request, which counts), and that chats and users are finitely
many.  The invariants of the first five components are defined in the modules
themselves, those of the pages and of the extension beside their proofs.  The
former, and `WindowInv`, `VacanciesInv` and `SenderInv` of the latter, were checked
with TLC on small instances before they were proved.

The hypotheses on behaviours are `OneRequest` (SendControl), `TakeTurns`
(SendQueue), `TellsDropdownsApart` and `FieldsApart`.  The first two state what the
code does not enforce; section 6 says what happens without.

Only model-checked: the liveness properties `ScoringEnds`, `StopTakesEffect`,
`JobEndIsShown`, `RunEndIsShown` and `BarSettles`; liveness under fairness is out
of the prover's reach.

## 6. Not modelled, and known limits

- With two overlapping requests on one vacancy, `SubmitHoldsTheJob` and
  `LetterFrozenUnderSubmit` do not hold: the unguarded compensation
  (section 4) takes the job away.  Their run has one request, and their theorems
  the hypothesis `TakeTurns`, which no lock of the code ensures.
- The LLM, page parsing, formatting and notifications are nondeterministic
  inputs.  Insertion of discovered vacancies and list views are left out.
- The safety interval between cycles only delays and is left out.
- The scoring batch's circuit breaker and the hard filters' content are not
  modelled: any outcome is allowed.
- The login job's browser dialogue is not modelled; what it asks of the page
  (captcha, code), its end and its last writes are.
- Of the web client: landing, settings, analytics, resumes and layout read and
  render.  The pages' models take no time-outs of single requests: a lost answer
  stands for them.
- Of the extension: the panel's markup and the collection of resumes.  What an
  element is called is a field of its record, so that two labels differ or not
  is decided by the form, not by text rules.
- hh's dialogue of a form (`form_filler.py`) is an outcome: accepted, refused.

The components with status `not_modelled` and why: the vacancy producer is a
round robin over hh's searches by one worker at a time, and nearly all of it is
I/O; prompts and agent, candidate context and fingerprints, page parsing are pure
preparation of texts, whose outcome is an input of the models; synchronisation,
retention, notifications and analytics are idempotent copies and deletions that
no other part reads back.  Versions of selection rules, the insertion of
discovered vacancies and the claim of search runs are the parts of partly modelled
components that are left; each is named in `PROJECT.json`.
