----------------------------- MODULE Vacancies -----------------------------
(***************************************************************************)
(* The "Вакансии" page of the web client and the letter editor of its      *)
(* cards (src/frontend/src/app/(app)/vacancies/page.tsx,                   *)
(* cover-letter-editor.tsx), with the handlers their buttons call.         *)
(*                                                                         *)
(* The page works on rows read some time ago.  Nothing orders its list     *)
(* loads, a reload unmounts every editor while their requests go on, and   *)
(* an answer is applied with the tab its click was made under.  A handler  *)
(* reads the vacancy, then writes it if its status is still the one read.  *)
(***************************************************************************)
EXTENDS Naturals, FiniteSets, Sequences, SequencesExt

CONSTANTS
    Vacancies,      \* numbers, in the order they were discovered
    InitStatuses,   \* statuses a vacancy has when the page opens
    UsedTabs,       \* the tabs the user visits
    PageSize,       \* rows of a page
    MaxAsks,        \* requests the user makes (bound)
    MaxLoads,       \* list loads (bound)
    MaxBackground   \* steps of the scorer and the sender (bound)

Unscored == {"discovered", "scoring", "scored", "review", "score_error"}
SelectedLike == {"selected", "letter_draft", "approved", "queued_to_send"}
Statuses == Unscored \cup SelectedLike \cup
            {"hold", "rejected_by_user", "rejected_by_rule", "archived", "sending", "sent",
             "send_error"}

TABS == [review   |-> Unscored,
         selected |-> SelectedLike,
         hold     |-> {"hold"},
         rejected |-> {"rejected_by_user", "rejected_by_rule"},
         archived |-> {"archived"},
         all      |-> Statuses]
Archivable == Unscored

ASSUME VacanciesAssumption ==
    /\ Vacancies \subseteq Nat \ {0} /\ InitStatuses \subseteq Statuses
    /\ UsedTabs \subseteq DOMAIN TABS /\ "review" \in UsedTabs
    /\ PageSize \in Nat \ {0}
    /\ MaxAsks \in Nat /\ MaxLoads \in Nat \ {0} /\ MaxBackground \in Nat

VARIABLES
    pipeline,       \* pipeline[v]: the vacancy_pipeline row
    tab, pageNo,    \* the tab and the page chosen
    rows,           \* the rows shown, by vacancy
    skeleton,       \* no rows yet: rows is null
    listings,       \* list loads under way
    loadsMade,      \* list loads made so far
    ticked,         \* selectedIds, the rows ticked for the archive
    busyId,         \* the row whose buttons wait for an answer
    maintenance,    \* the "maintenanceBusy" flag
    details,        \* the row whose details are open
    rejecting,      \* the row whose reject box is open
    editors,        \* editors[v]: the state of the card's letter editor
    asks,           \* requests under way
    asked,          \* requests made so far
    background      \* background steps so far

vacanciesVars == <<pipeline, tab, pageNo, rows, skeleton, listings, loadsMade, ticked, busyId, maintenance,
                   details, rejecting, editors, asks, asked, background>>

NoVacancyId == 0
VacancyIds == Vacancies \cup {NoVacancyId}
Letters == {"none", "generated", "mine"}
PipelineRow == [status : Statuses, letter : Letters, approved : Letters]
NoRows == [v \in {} |-> [status |-> "discovered", letter |-> "none", approved |-> "none"]]

Decisions == [select |-> "selected", reject |-> "rejected_by_user", hold |-> "hold",
              review |-> "review", archive |-> "archived"]
LetterOps == {"generate", "save", "approve", "queue", "cancel"}
BulkOps == {"bulkArchive", "retryIncomplete"}
Ops == DOMAIN Decisions \cup LetterOps \cup BulkOps \cup {"enrich"}

\* mount: which of the editors the card has had asked; under: the tab and page
\* of the closure; read, row: what the handler read and what it answers.
Ask == [op : Ops, ids : SUBSET Vacancies, under : [tab : UsedTabs, pageNo : Nat],
        mount : Nat, text : Letters, stage : {"asked", "read", "ok", "error"},
        read : UNION {[S -> PipelineRow] : S \in SUBSET Vacancies},
        row : UNION {[S -> PipelineRow] : S \in SUBSET Vacancies}]
Editor == [text : Letters, saved : Letters, editing : BOOLEAN, busy : BOOLEAN, mount : Nat]

VacanciesTypeOK ==
    /\ pipeline \in [Vacancies -> PipelineRow]
    /\ tab \in UsedTabs /\ pageNo \in Nat
    /\ DOMAIN rows \subseteq Vacancies /\ \A v \in DOMAIN rows : rows[v] \in PipelineRow
    /\ skeleton \in BOOLEAN /\ (skeleton => rows = NoRows)
    /\ \A i \in DOMAIN listings : listings[i].under.tab \in UsedTabs
    /\ loadsMade \in 0..MaxLoads
    /\ ticked \in SUBSET Vacancies
    /\ busyId \in VacancyIds /\ details \in VacancyIds /\ rejecting \in VacancyIds
    /\ maintenance \in BOOLEAN
    /\ \A v \in Vacancies : editors[v] \in Editor
    /\ \A i \in DOMAIN asks : asks[i] \in Ask
    /\ asked \in 0..MaxAsks /\ background \in 0..MaxBackground

-----------------------------------------------------------------------------
(* Rendering *)

\* What queryFor asks for: the newest first, a page of them.
QueryFor(under) ==
    LET found == {v \in Vacancies : pipeline[v].status \in TABS[under.tab]}
        before(v) == Cardinality({w \in found : w > v})
    IN  {v \in found : before(v) \div PageSize = under.pageNo}

HasEditor(rs, v) == v \in DOMAIN rs /\ rs[v].status \in SelectedLike

NewEditor(row, n) ==
    [text |-> row.letter, saved |-> row.letter, editing |-> FALSE, busy |-> FALSE, mount |-> n]

\* An editor is mounted with the row's draft, and takes it again whenever the
\* draft or the status of its row changes; what was being typed is dropped.
CoverLetterEditor(e, v, old, new) ==
    IF ~HasEditor(new, v) THEN [e EXCEPT !.text = "none", !.saved = "none", !.editing = FALSE,
                                         !.busy = FALSE]
    ELSE IF ~HasEditor(old, v) THEN NewEditor(new[v], e.mount + 1)
    ELSE IF <<old[v].letter, old[v].status>> # <<new[v].letter, new[v].status>>
         THEN [e EXCEPT !.text = new[v].letter, !.saved = new[v].letter, !.editing = FALSE]
    ELSE e

\* Rows new are rendered over editors eds.
Render(new, eds) ==
    /\ rows' = new
    /\ editors' = [v \in Vacancies |-> CoverLetterEditor(eds[v], v, rows, new)]

-----------------------------------------------------------------------------
(* What the cards offer *)

\* The buttons of a row that is not final, and of its details.
RowOffers(v) ==
    LET s == rows[v].status
        final == s \in {"approved", "archived", "sending", "sent", "queued_to_send",
                        "rejected_by_rule"}
        open == ~final /\ s # "rejected_by_user"
    IN  (IF busyId = v THEN {}
         ELSE (IF open /\ s \notin SelectedLike
               THEN {"select", "hold", "openReject"}
                      \cup (IF s \in Archivable THEN {"archive"} ELSE {})
               ELSE {})
              \cup (IF open /\ s \in {"selected", "letter_draft"} THEN {"review"} ELSE {})
              \cup (IF details = v /\ ~final THEN {"enrich"} ELSE {})
              \cup (IF rejecting = v THEN {"reject"} ELSE {}))
        \cup (IF s \in Archivable THEN {"tick"} ELSE {})

\* The editor: a draft is saved or approved, never both; an approved letter is
\* queued, or opened to be changed.
EditorOffers(v) ==
    LET e == editors[v]
        s == rows[v].status
        changed == e.text # e.saved
        blank == e.text = "none"
    IN  CASE s \notin SelectedLike -> {}
          [] s = "selected" -> {"generate"}
          [] s = "queued_to_send" -> {"cancel"}
          [] s = "letter_draft" ->
               {"type"} \cup (IF changed /\ ~blank THEN {"save"} ELSE {})
                        \cup (IF ~changed THEN {"generate"} ELSE {})
                        \cup (IF ~changed /\ ~blank THEN {"approve"} ELSE {})
          [] s = "approved" /\ ~e.editing -> {"queue", "edit"}
          [] s = "approved" /\ e.editing ->
               {"type", "cancelEdit"} \cup (IF changed /\ ~blank THEN {"save"} ELSE {})

\* While a letter request is under way only the text may be changed.
CardOffers(v) ==
    RowOffers(v) \cup (EditorOffers(v) \cap (IF editors[v].busy THEN {"type"}
                                             ELSE LetterOps \cup {"type", "edit", "cancelEdit"}))

Offered(v, control) == v \in DOMAIN rows /\ control \in CardOffers(v)

PageOffers ==
    (IF maintenance THEN {} ELSE {"retryIncomplete"})
      \cup (IF ~maintenance /\ ticked # {} THEN {"bulkArchive"} ELSE {})

VacanciesInit ==
    /\ \E s \in InitStatuses :
         LET letter == IF s \in {"letter_draft", "approved"} THEN "generated" ELSE "none" IN
         pipeline = [v \in Vacancies |->
           [status |-> s, letter |-> letter,
            approved |-> IF s = "approved" THEN letter ELSE "none"]]
    /\ tab = "review" /\ pageNo = 0
    /\ rows = NoRows /\ skeleton = TRUE
    /\ listings = <<[under |-> [tab |-> "review", pageNo |-> 0], stage |-> "asked", found |-> NoRows]>>
    /\ loadsMade = 1
    /\ ticked = {} /\ busyId = NoVacancyId /\ maintenance = FALSE
    /\ details = NoVacancyId /\ rejecting = NoVacancyId
    /\ editors = [v \in Vacancies |-> [text |-> "none", saved |-> "none", editing |-> FALSE,
                                       busy |-> FALSE, mount |-> 0]]
    /\ asks = <<>> /\ asked = 0 /\ background = 0

-----------------------------------------------------------------------------
(* The list *)

\* load of a render under some tab and page: the rows go, and with them every
\* editor.
LoadVacancies(under) ==
    /\ loadsMade < MaxLoads
    /\ loadsMade' = loadsMade + 1
    /\ listings' = Append(listings, [under |-> under, stage |-> "asked", found |-> NoRows])
    /\ skeleton' = TRUE
    /\ Render(NoRows, editors)

Here == [tab |-> tab, pageNo |-> pageNo]

Reload ==
    /\ LoadVacancies(Here)
    /\ UNCHANGED <<pipeline, tab, pageNo, ticked, busyId, maintenance, details, rejecting, asks, asked,
                   background>>

ChooseTab(t) ==
    /\ t \in UsedTabs
    /\ tab' = t /\ pageNo' = 0
    /\ details' = NoVacancyId /\ ticked' = {}
    /\ IF [tab |-> t, pageNo |-> 0] = Here
       THEN UNCHANGED <<rows, skeleton, listings, loadsMade, editors>>
       ELSE LoadVacancies([tab |-> t, pageNo |-> 0])
    /\ UNCHANGED <<pipeline, busyId, maintenance, rejecting, asks, asked, background>>

\* The pager, under rows only: "дальше" if the page is full.
TurnPage ==
    /\ rows # NoRows
    /\ \/ pageNo > 0 /\ pageNo' = pageNo - 1
       \/ Cardinality(DOMAIN rows) >= PageSize /\ pageNo' = pageNo + 1
    /\ LoadVacancies([tab |-> tab, pageNo |-> pageNo'])
    /\ UNCHANGED <<pipeline, tab, ticked, busyId, maintenance, details, rejecting, asks, asked, background>>

ListVacancies(i) ==
    /\ listings[i].stage = "asked"
    /\ LET found == QueryFor(listings[i].under) IN
       listings' = [listings EXCEPT ![i].stage = "read", ![i].found = [v \in found |-> pipeline[v]]]
    /\ UNCHANGED <<pipeline, tab, pageNo, rows, skeleton, loadsMade, ticked, busyId, maintenance, details,
                   rejecting, editors, asks, asked, background>>

\* An answer replaces the rows, whichever tab and page it was asked for.
ListedVacancies(i) ==
    /\ listings[i].stage = "read"
    /\ listings' = RemoveAt(listings, i)
    /\ Render(listings[i].found, editors)
    /\ skeleton' = FALSE
    /\ ticked' = {}
    /\ UNCHANGED <<pipeline, tab, pageNo, loadsMade, busyId, maintenance, details, rejecting, asks, asked,
                   background>>

ListLost(i) ==
    /\ listings' = RemoveAt(listings, i)
    /\ Render(NoRows, editors)
    /\ skeleton' = FALSE
    /\ UNCHANGED <<pipeline, tab, pageNo, loadsMade, ticked, busyId, maintenance, details, rejecting, asks,
                   asked, background>>

-----------------------------------------------------------------------------
(* The user *)

ToggleSelected(v) ==
    /\ Offered(v, "tick")
    /\ ticked' = IF v \in ticked THEN ticked \ {v} ELSE ticked \cup {v}
    /\ UNCHANGED <<pipeline, tab, pageNo, rows, skeleton, listings, loadsMade, busyId, maintenance, details,
                   rejecting, editors, asks, asked, background>>

ToggleDetails(v) ==
    /\ v \in DOMAIN rows
    /\ details' = IF details = v THEN NoVacancyId ELSE v
    /\ UNCHANGED <<pipeline, tab, pageNo, rows, skeleton, listings, loadsMade, ticked, busyId, maintenance,
                   rejecting, editors, asks, asked, background>>

\* "отклонить с причиной" opens the box that asks for the reason, or "отмена".
ToggleReject(v) ==
    /\ \/ Offered(v, "openReject") /\ rejecting' = v
       \/ Offered(v, "reject") /\ rejecting' = NoVacancyId
    /\ UNCHANGED <<pipeline, tab, pageNo, rows, skeleton, listings, loadsMade, ticked, busyId, maintenance,
                   details, editors, asks, asked, background>>

\* The letter: type, open an approved one, drop the change.
EditLetter(v) ==
    /\ \/ /\ Offered(v, "type") /\ editors[v].text # "mine"
          /\ editors' = [editors EXCEPT ![v].text = "mine"]
       \/ /\ Offered(v, "edit")
          /\ editors' = [editors EXCEPT ![v].editing = TRUE]
       \/ /\ Offered(v, "cancelEdit")
          /\ editors' = [editors EXCEPT ![v].text = editors[v].saved, ![v].editing = FALSE]
    /\ UNCHANGED <<pipeline, tab, pageNo, rows, skeleton, listings, loadsMade, ticked, busyId, maintenance,
                   details, rejecting, asks, asked, background>>

Send(op, ids, mount, text) ==
    /\ asked < MaxAsks
    /\ asked' = asked + 1
    /\ asks' = Append(asks, [op |-> op, ids |-> ids, under |-> Here, mount |-> mount, text |-> text,
                             stage |-> "asked", read |-> NoRows, row |-> NoRows])

\* A decision or an enrichment: the row's buttons wait.
DecideVacancy(v, op) ==
    /\ op \in DOMAIN Decisions \cup {"enrich"}
    /\ Offered(v, op)
    /\ Send(op, {v}, 0, "none")
    /\ busyId' = v
    /\ UNCHANGED <<pipeline, tab, pageNo, rows, skeleton, listings, loadsMade, ticked, maintenance, details,
                   rejecting, editors, background>>

\* A letter request: the editor's buttons wait.
AskLetter(v, op) ==
    /\ op \in LetterOps
    /\ Offered(v, op)
    /\ Send(op, {v}, editors[v].mount, editors[v].text)
    /\ editors' = [editors EXCEPT ![v].busy = TRUE]
    /\ UNCHANGED <<pipeline, tab, pageNo, rows, skeleton, listings, loadsMade, ticked, busyId, maintenance,
                   details, rejecting, background>>

\* The page's own requests: archive what is ticked, score again.
AskBulk(op) ==
    /\ op \in BulkOps \cap PageOffers
    /\ Send(op, IF op = "bulkArchive" THEN ticked ELSE {}, 0, "none")
    /\ maintenance' = TRUE
    /\ UNCHANGED <<pipeline, tab, pageNo, rows, skeleton, listings, loadsMade, ticked, busyId, details,
                   rejecting, editors, background>>

-----------------------------------------------------------------------------
(* The handlers: they read, check and then write what has not changed since *)

Permitted(op) ==
    CASE op = "archive" -> Archivable
      [] op \in DOMAIN Decisions -> Unscored \cup {"selected", "letter_draft", "rejected_by_user", "hold"}
      [] op = "generate" -> {"selected", "letter_draft"}
      [] op = "save" -> {"letter_draft", "approved"}
      [] op = "approve" -> {"letter_draft"}
      [] op = "queue" -> {"approved"}
      [] op = "cancel" -> {"queued_to_send"}
      [] op = "bulkArchive" -> Archivable
      [] op = "retryIncomplete" -> {"discovered", "scored", "review", "score_error"}
      [] op = "enrich" -> Statuses

\* bulkArchive skips the rows it may not archive, retryIncomplete looks for its
\* own; the others refuse.
HandlerReads(i) ==
    LET op == asks[i].op
        ids == IF op = "retryIncomplete" THEN Vacancies ELSE asks[i].ids
        fit == {v \in ids : pipeline[v].status \in Permitted(op)}
        refused == op \notin BulkOps /\ fit = {}
    IN /\ asks[i].stage = "asked"
       /\ asks' = [asks EXCEPT ![i].stage = IF refused THEN "error" ELSE "read",
                               ![i].read = [v \in fit |-> pipeline[v]]]
       /\ UNCHANGED <<pipeline, tab, pageNo, rows, skeleton, listings, loadsMade, ticked, busyId, maintenance,
                      details, rejecting, editors, asked, background>>

\* The row a handler writes over row r.
Written(ask, r) ==
    CASE ask.op \in DOMAIN Decisions -> [r EXCEPT !.status = Decisions[ask.op]]
      [] ask.op = "bulkArchive" -> [r EXCEPT !.status = "archived"]
      [] ask.op = "generate" -> [status |-> "letter_draft", letter |-> "generated", approved |-> "none"]
      [] ask.op = "save" -> [status |-> "letter_draft", letter |-> ask.text, approved |-> "none"]
      [] ask.op = "approve" -> [r EXCEPT !.status = "approved", !.approved = r.letter]
      [] ask.op = "queue" -> [r EXCEPT !.status = "queued_to_send"]
      [] ask.op = "cancel" -> [r EXCEPT !.status = "approved"]

\* Mutant: the update without its status condition.
UnmovedAny(ask) == DOMAIN ask.read

\* transition: a row whose status is no longer the one read is left alone.
Unmoved(ask) == {v \in DOMAIN ask.read : pipeline[v].status = ask.read[v].status}

\* What enrichment and a new scoring come to is up to hh and the model.
Outcomes(ask, v) ==
    CASE ask.op = "enrich" ->
           {pipeline[v]} \cup (IF ask.read[v].status = "sent" THEN {}
                              ELSE {[pipeline[v] EXCEPT !.status = "archived"]})
      [] ask.op = "retryIncomplete" ->
           {pipeline[v]} \cup {[pipeline[v] EXCEPT !.status = s] :
                                 s \in {"review", "score_error", "rejected_by_rule", "archived"}}
      [] OTHER -> {Written(ask, pipeline[v])}

HandlerWrites(i) ==
    LET ask == asks[i]
        ids == Unmoved(ask)
        refused == ask.op \notin BulkOps \cup {"enrich"} /\ ids = {}
    IN /\ ask.stage = "read"
       /\ \E new \in [ids -> UNION {Outcomes(ask, v) : v \in ids}] :
            /\ \A v \in ids : new[v] \in Outcomes(ask, v)
            /\ pipeline' = [v \in Vacancies |-> IF v \in ids THEN new[v] ELSE pipeline[v]]
       /\ asks' = [asks EXCEPT ![i].stage = IF refused THEN "error" ELSE "ok",
                               ![i].row = [v \in ask.ids |-> pipeline'[v]]]
       /\ UNCHANGED <<tab, pageNo, rows, skeleton, listings, loadsMade, ticked, busyId, maintenance,
                      details, rejecting, editors, asked, background>>

-----------------------------------------------------------------------------
(* The answers *)

Replaced(rs, ask) == [v \in DOMAIN rs |-> IF v \in ask.ids THEN ask.row[v] ELSE rs[v]]

\* removeIfLeavesTab of the render that was clicked.
Kept(rs, ask) ==
    LET leaves == {v \in ask.ids : ask.row[v].status \notin TABS[ask.under.tab]} IN
    [v \in DOMAIN rs \ leaves |-> rs[v]]

Decided(i) ==
    LET ask == asks[i] IN
    /\ ask.op \in DOMAIN Decisions \cup {"enrich"}
    /\ ask.stage = "ok"
    /\ asks' = RemoveAt(asks, i)
    /\ IF ask.op = "enrich"
       THEN /\ Render(Replaced(rows, ask), editors)
            /\ UNCHANGED <<ticked, rejecting>>
       ELSE /\ Render(Kept(Replaced(rows, ask), ask), editors)
            /\ ticked' = ticked \ ask.ids
            /\ rejecting' = IF ask.op = "reject" THEN NoVacancyId ELSE rejecting
    /\ skeleton' = FALSE
    /\ busyId' = NoVacancyId
    /\ UNCHANGED <<pipeline, tab, pageNo, listings, loadsMade, maintenance, details, asked, background>>

\* queue and cancelQueue are followed by a second request, which reads the row
\* as it is by then.
RefreshVacancy(i) ==
    /\ asks[i].op \in {"queue", "cancel"}
    /\ asks[i].stage = "ok"
    /\ asks' = [asks EXCEPT ![i].row = [v \in asks[i].ids |-> pipeline[v]]]
    /\ asks' # asks
    /\ UNCHANGED <<pipeline, tab, pageNo, rows, skeleton, listings, loadsMade, ticked, busyId, maintenance,
                   details, rejecting, editors, asked, background>>

\* The editor that asked, if it is still there, takes the row's draft; the
\* page's row gets its status and its draft in any case.
LetterAnswered(i) ==
    LET ask == asks[i]
        v == CHOOSE x \in ask.ids : TRUE
        mine == editors[v].mount = ask.mount
        e == IF mine THEN [editors[v] EXCEPT !.text = ask.row[v].letter, !.saved = ask.row[v].letter,
                                             !.busy = FALSE,
                                             !.editing = @ /\ ask.op \in {"generate", "approve"}]
                     ELSE editors[v]
    IN /\ ask.op \in LetterOps
       /\ ask.stage = "ok"
       /\ asks' = RemoveAt(asks, i)
       /\ Render(Replaced(rows, ask), [editors EXCEPT ![v] = e])
       /\ skeleton' = FALSE
       /\ UNCHANGED <<pipeline, tab, pageNo, listings, loadsMade, ticked, busyId, maintenance, details,
                      rejecting, asked, background>>

\* Then the list is loaded again, under the tab that was clicked.
BulkAnswered(i) ==
    /\ asks[i].op \in BulkOps
    /\ asks[i].stage = "ok"
    /\ asks' = RemoveAt(asks, i)
    /\ LoadVacancies(asks[i].under)
    /\ maintenance' = FALSE
    /\ UNCHANGED <<pipeline, tab, pageNo, ticked, busyId, details, rejecting, asked, background>>

\* Refused, or the answer is lost: an error is shown, nothing else changes.
AskFailed(i) ==
    LET ask == asks[i] IN
    /\ ask.stage \in {"ok", "error"}
    /\ asks' = RemoveAt(asks, i)
    /\ busyId' = IF ask.op \in DOMAIN Decisions \cup {"enrich"} THEN NoVacancyId ELSE busyId
    /\ maintenance' = (maintenance /\ ask.op \notin BulkOps)
    /\ editors' = [v \in Vacancies |-> IF v \in ask.ids /\ ask.op \in LetterOps
                                          /\ editors[v].mount = ask.mount
                                       THEN [editors[v] EXCEPT !.busy = FALSE] ELSE editors[v]]
    /\ UNCHANGED <<pipeline, tab, pageNo, rows, skeleton, listings, loadsMade, ticked, details, rejecting,
                   asked, background>>

-----------------------------------------------------------------------------
\* External: the scorer and the sender move vacancies of their own.
Background(v) ==
    LET to == [discovered |-> {"scoring"}, scoring |-> {"review", "score_error", "rejected_by_rule"},
               queued_to_send |-> {"sending"}, sending |-> {"sent", "send_error"}] IN
    /\ background < MaxBackground
    /\ pipeline[v].status \in DOMAIN to
    /\ background' = background + 1
    /\ \E s \in to[pipeline[v].status] : pipeline' = [pipeline EXCEPT ![v].status = s]
    /\ UNCHANGED <<tab, pageNo, rows, skeleton, listings, loadsMade, ticked, busyId, maintenance, details,
                   rejecting, editors, asks, asked>>

VacanciesUser ==
    \/ Reload \/ TurnPage
    \/ \E t \in UsedTabs : ChooseTab(t)
    \/ \E v \in Vacancies :
         \/ ToggleSelected(v) \/ ToggleDetails(v) \/ ToggleReject(v) \/ EditLetter(v)
         \/ \E op \in Ops : DecideVacancy(v, op) \/ AskLetter(v, op)
    \/ \E op \in BulkOps : AskBulk(op)

VacanciesNext ==
    \/ VacanciesUser
    \/ \E i \in DOMAIN listings : ListVacancies(i) \/ ListedVacancies(i) \/ ListLost(i)
    \/ \E i \in DOMAIN asks :
         HandlerReads(i) \/ HandlerWrites(i) \/ Decided(i) \/ RefreshVacancy(i) \/ LetterAnswered(i)
           \/ BulkAnswered(i) \/ AskFailed(i)
    \/ \E v \in Vacancies : Background(v)

VacanciesSpec == VacanciesInit /\ [][VacanciesNext]_vacanciesVars

-----------------------------------------------------------------------------
(* Properties *)

\* A vacancy whose letter was approved is out of the reach of the page's
\* decisions, however stale the row that was clicked and whatever happens
\* between a handler's check and its write.
Undecided == {"discovered", "scoring", "scored", "review", "score_error", "selected", "hold",
              "rejected_by_user"}
DecisionsSpareApproved ==
    [][\A v \in Vacancies :
         pipeline[v].status \in {"approved", "queued_to_send", "sending", "sent"}
           => pipeline'[v].status \notin Undecided]_vacanciesVars
=============================================================================
