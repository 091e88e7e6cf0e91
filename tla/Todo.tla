------------------------------- MODULE Todo -------------------------------
(***************************************************************************)
(* The "Задания" page of the web client: the forms, reply drafts,          *)
(* questions and tasks that wait for the user's decision                   *)
(* (src/frontend/src/app/(app)/todo/page.tsx, hooks/useRecruiter.ts,       *)
(* hooks/useFormDrafts.ts), together with the handlers their buttons call  *)
(* (services/form_drafts.py, services/recruiter.py).                       *)
(*                                                                         *)
(* No button of a card is disabled while its request is in flight, so      *)
(* the same card may have several requests under way; a list fetch that    *)
(* was read before a decision may be applied after it.                     *)
(***************************************************************************)
EXTENDS Naturals, Sequences, FiniteSets, SequencesExt

CONSTANTS
    Forms,          \* form_drafts rows
    Drafts,         \* recruiter_drafts rows
    Questions,      \* recruiter_questions rows
    Tasks,          \* recruiter_todos rows
    Late,           \* the rows that the agent writes while the page is open
    MaxPosts,       \* decisions the user sends (bound)
    MaxFetches      \* list fetches after the first of each query (bound)

Items == Forms \cup Drafts \cup Questions \cup Tasks

\* The tabs of the page, and the query each of them reads from.
Sections == {"forms", "drafts", "questions", "tasks"}
SectionItems == [forms |-> Forms, drafts |-> Drafts,
                 questions |-> Questions, tasks |-> Tasks]
QueryOf == [forms |-> "form-drafts", drafts |-> "recruiter",
            questions |-> "recruiter", tasks |-> "recruiter"]
Queries == {"form-drafts", "recruiter"}
SectionOf(i) == CHOOSE s \in Sections : i \in SectionItems[s]

ASSUME TodoAssumption ==
    /\ MaxPosts \in Nat /\ MaxFetches \in Nat
    \* each section has a table of its own
    /\ \A s, t \in Sections : s # t => SectionItems[s] \cap SectionItems[t] = {}

\* What a card's text fields hold: the stored text, the user's, or nothing.
Texts == {"stored", "edited", "empty"}

VARIABLES
    row,        \* row[i]: the database row's status, "absent" before the agent wrote it
    delivered,  \* delivered[i]: the texts hh received for row i
    active,     \* the tab shown
    list,       \* list[q]: the cached rows of query q
    loading,    \* the queries that have not answered yet
    fetching,   \* fetching[s]: how far the fetch of section s's query came
    fetches,    \* list fetches started again so far
    known,      \* rows the page has ever listed
    card,       \* card[i]: the local state of a mounted card
    posts,      \* the decisions under way, with the stage each has reached
    decisions   \* decisions sent so far

todoVars == <<row, delivered, active, list, loading, fetching, fetches, known, card, posts,
              decisions>>

Open(i) == row[i] = "pending"
Resolved == {"sent", "failed", "discarded", "answered", "done", "dismissed"}

\* The state useState gives a card when it mounts.
FreshCard(i) == [text |-> IF i \in Questions THEN "empty" ELSE "stored",
                 buf |-> IF i \in Questions THEN "empty" ELSE "stored",
                 editing |-> FALSE]

Post == [item : Items, op : {"approve", "send", "answer", "done", "dismissed", "discard"},
         text : Texts, stage : {"asked", "read", "accepted", "refusedByHh", "ok", "error"}]

\* Fetch stages of a section: not fetched, being fetched, or the rows read.
FetchIdle == [stage |-> "idle", rows |-> {}]

TodoTypeOK ==
    /\ row \in [Items -> {"absent", "pending"} \cup Resolved]
    /\ delivered \in [Items -> SUBSET Texts]
    /\ active \in Sections
    /\ list \in [Queries -> SUBSET Items]
    /\ loading \in SUBSET Queries
    /\ fetching \in [Sections -> [stage : {"idle", "asked", "read"}, rows : SUBSET Items]]
    /\ fetches \in 0..MaxFetches
    /\ known \in SUBSET Items
    /\ card \in [Items -> [text : Texts, buf : Texts, editing : BOOLEAN]]
    /\ posts \in Seq(Post)
    /\ decisions \in 0..MaxPosts
    /\ Len(posts) <= decisions

\* The page mounts: both queries are fetched for the first time.
TodoInit ==
    /\ row = [i \in Items |-> IF i \in Late THEN "absent" ELSE "pending"]
    /\ delivered = [i \in Items |-> {}]
    /\ active = "forms"
    /\ list = [q \in Queries |-> {}]
    /\ loading = Queries
    /\ fetching = [s \in Sections |-> [stage |-> "asked", rows |-> {}]]
    /\ fetches = 0
    /\ known = {}
    /\ card = [i \in Items |-> FreshCard(i)]
    /\ posts = <<>>
    /\ decisions = 0

-----------------------------------------------------------------------------
(* What the page shows *)

SectionsOf(q) == {s \in Sections : QueryOf[s] = q}

\* RecruiterPage: nothing but a skeleton until both queries have answered,
\* then the cards of the active tab.
RecruiterPage ==
    IF loading # {}
    THEN {}
    ELSE SectionItems[active] \cap list[QueryOf[active]]

\* FormDraftCard: the fields are edited in place; both buttons always work.
FormDraftCard(i) == {"update", "approve", "discard"}

\* DraftCard: an editor hides the buttons that send or discard.
DraftCard(i) == IF card[i].editing THEN {"type", "save", "cancel"}
                                   ELSE {"send", "edit", "discard"}

\* QuestionCard: answers go out only once every field has been filled.
QuestionCard(i) == {"update", "discard"}
                     \cup (IF card[i].text = "empty" THEN {} ELSE {"answer"})

\* TasksSection: a task is done or hidden.
TasksSection(i) == {"done", "dismissed"}

Offers(i) == CASE i \in Forms -> FormDraftCard(i)
               [] i \in Drafts -> DraftCard(i)
               [] i \in Questions -> QuestionCard(i)
               [] i \in Tasks -> TasksSection(i)

\* Control c of card i is on the screen and works.
Clickable(i, c) == i \in RecruiterPage /\ c \in Offers(i)

-----------------------------------------------------------------------------
(* The user *)

\* Another tab: its cards mount with their stored texts.
SetActive(s) ==
    /\ s # active
    /\ active' = s
    /\ card' = [i \in Items |-> FreshCard(i)]
    /\ UNCHANGED <<row, delivered, list, loading, fetching, fetches, known, posts, decisions>>

SetCard(i, c) ==
    /\ card' = [card EXCEPT ![i] = c]
    /\ UNCHANGED <<row, delivered, active, list, loading, fetching, fetches, known, posts, decisions>>

\* A form's answers and letter, or a question's answers, edited in place.
UpdateAnswers(i) ==
    /\ Clickable(i, "update")
    /\ \E t \in {"edited", FreshCard(i).text} \ {card[i].text} :
         SetCard(i, [card[i] EXCEPT !.text = t])

\* A reply draft: open the editor, type, keep or drop what was typed.
EditDraft(i) ==
    \/ /\ Clickable(i, "edit")
       /\ SetCard(i, [card[i] EXCEPT !.buf = card[i].text, !.editing = TRUE])
    \/ /\ Clickable(i, "type")
       /\ card[i].buf # "edited"
       /\ SetCard(i, [card[i] EXCEPT !.buf = "edited"])
    \/ /\ Clickable(i, "save")
       /\ SetCard(i, [card[i] EXCEPT !.text = card[i].buf, !.editing = FALSE])
    \/ /\ Clickable(i, "cancel")
       /\ SetCard(i, [card[i] EXCEPT !.buf = card[i].text, !.editing = FALSE])

\* A click on a button that decides: the request leaves with the card's text.
Decide(i, op) ==
    /\ Clickable(i, op)
    /\ decisions < MaxPosts
    /\ decisions' = decisions + 1
    /\ posts' = Append(posts, [item |-> i, op |-> op, text |-> card[i].text,
                               stage |-> "asked"])
    /\ UNCHANGED <<row, delivered, active, list, loading, fetching, fetches, known, card>>

-----------------------------------------------------------------------------
(* The handlers.  Reading the row, calling hh and writing the row are       *)
(* separate awaits.                                                         *)

SetStage(p, s) == posts' = [posts EXCEPT ![p].stage = s]

\* form_drafts.approve insists on a pending row; send_draft and the others
\* only on the row's existence.
ReadRow(p) ==
    /\ posts[p].stage = "asked"
    /\ SetStage(p, IF posts[p].op = "approve" /\ ~Open(posts[p].item)
                   THEN "error" ELSE "read")
    /\ UNCHANGED <<row, delivered, active, list, loading, fetching, fetches, known, card, decisions>>

CallsHh(p) == posts[p].op \in {"approve", "send"}

\* hh takes the text, or refuses it: a refused reply raises in send_draft, a
\* refused form comes back to approve as a status.
CallHh(p) ==
    /\ posts[p].stage = "read"
    /\ CallsHh(p)
    /\ \/ /\ delivered' = [delivered EXCEPT ![posts[p].item] = @ \cup {posts[p].text}]
          /\ SetStage(p, "accepted")
       \/ /\ UNCHANGED delivered
          /\ SetStage(p, IF posts[p].op = "approve" THEN "refusedByHh" ELSE "error")
    /\ UNCHANGED <<row, active, list, loading, fetching, fetches, known, card, decisions>>

\* The status a handler leaves.  None of them checks what the row holds by now.
Outcome(p) ==
    CASE posts[p].op \in {"approve", "send"} ->
           IF posts[p].stage = "accepted" THEN "sent" ELSE "failed"
      [] posts[p].op = "answer" -> "answered"
      [] posts[p].op = "discard" -> "discarded"
      [] OTHER -> posts[p].op

\* The row is written and the handler answers 200, whatever hh said.
WriteRow(p) ==
    /\ \/ posts[p].stage \in {"accepted", "refusedByHh"}
       \/ posts[p].stage = "read" /\ ~CallsHh(p)
    /\ row' = [row EXCEPT ![posts[p].item] = Outcome(p)]
    /\ SetStage(p, "ok")
    /\ UNCHANGED <<delivered, active, list, loading, fetching, fetches, known, card, decisions>>

-----------------------------------------------------------------------------
(* The answers *)

\* setQueryData drops the row from the list the page now has.
DropFromList(i) ==
    LET q == QueryOf[SectionOf(i)] IN
    list' = [list EXCEPT ![q] = @ \ {i}]

PostAnswered(p) ==
    /\ posts[p].stage = "ok"
    /\ DropFromList(posts[p].item)
    /\ posts' = RemoveAt(posts, p)
    /\ UNCHANGED <<row, delivered, active, loading, fetching, fetches, known, card, decisions>>

\* Mutant: the card is dropped before the answer is looked at.
PostFailedDrops(p) ==
    /\ posts[p].stage \in {"error", "ok"}
    /\ DropFromList(posts[p].item)
    /\ posts' = RemoveAt(posts, p)
    /\ UNCHANGED <<row, delivered, active, loading, fetching, fetches, known, card, decisions>>

\* An error answer, or one lost on the way: apiFetch throws, the list stays.
PostFailed(p) ==
    /\ posts[p].stage \in {"error", "ok"}
    /\ posts' = RemoveAt(posts, p)
    /\ UNCHANGED <<row, delivered, active, list, loading, fetching, fetches, known, card, decisions>>

-----------------------------------------------------------------------------
(* The lists *)

\* A stale query is fetched again when a component that uses it mounts; one
\* fetch per query is under way at a time.
Refetch(q) ==
    /\ fetches < MaxFetches
    /\ \A s \in SectionsOf(q) : fetching[s].stage = "idle"
    /\ fetches' = fetches + 1
    /\ fetching' = [s \in Sections |-> IF s \in SectionsOf(q)
                                       THEN [stage |-> "asked", rows |-> {}]
                                       ELSE fetching[s]]
    /\ UNCHANGED <<row, delivered, active, list, loading, known, card, posts, decisions>>

\* The server reads one of the lists: the rows still pending.
ListRows(s) ==
    /\ fetching[s].stage = "asked"
    /\ fetching' = [fetching EXCEPT ![s] =
                      [stage |-> "read", rows |-> {i \in SectionItems[s] : Open(i)}]]
    /\ UNCHANGED <<row, delivered, active, list, loading, fetches, known, card, posts, decisions>>

Fetched(q) == UNION {fetching[s].rows : s \in SectionsOf(q)}

\* All the lists of a query have come: they replace the cached ones.  A card
\* that was not on the page mounts.
FetchDone(q) ==
    /\ \A s \in SectionsOf(q) : fetching[s].stage = "read"
    /\ list' = [list EXCEPT ![q] = Fetched(q)]
    /\ loading' = loading \ {q}
    /\ known' = known \cup Fetched(q)
    /\ card' = [i \in Items |-> IF i \in RecruiterPage THEN card[i] ELSE FreshCard(i)]
    /\ fetching' = [s \in Sections |-> IF s \in SectionsOf(q) THEN FetchIdle
                                                               ELSE fetching[s]]
    /\ UNCHANGED <<row, delivered, active, fetches, posts, decisions>>

\* A fetch that fails twice leaves the cached lists; without any the page
\* shows empty ones under the error.
FetchFailed(q) ==
    /\ \E s \in SectionsOf(q) : fetching[s].stage = "asked"
    /\ loading' = loading \ {q}
    /\ fetching' = [s \in Sections |-> IF s \in SectionsOf(q) THEN FetchIdle
                                                               ELSE fetching[s]]
    /\ UNCHANGED <<row, delivered, active, list, fetches, known, card, posts, decisions>>

-----------------------------------------------------------------------------
\* External: the agent writes a new row (services/recruiter.py insert_draft,
\* insert_question, insert_todo; form_drafts.save).
NewRow(i) ==
    /\ row[i] = "absent"
    /\ row' = [row EXCEPT ![i] = "pending"]
    /\ UNCHANGED <<delivered, active, list, loading, fetching, fetches, known, card, posts, decisions>>

TodoUser ==
    \/ \E s \in Sections : SetActive(s)
    \/ \E i \in Items : UpdateAnswers(i) \/ EditDraft(i)
    \/ \E i \in Items, op \in {"approve", "send", "answer", "done", "dismissed", "discard"} :
         Decide(i, op)

TodoServer == \E p \in DOMAIN posts : ReadRow(p) \/ CallHh(p) \/ WriteRow(p)

TodoNext ==
    \/ TodoUser
    \/ TodoServer
    \/ \E p \in DOMAIN posts : PostAnswered(p) \/ PostFailed(p)
    \/ \E q \in Queries : Refetch(q) \/ FetchDone(q) \/ FetchFailed(q)
    \/ \E s \in Sections : ListRows(s)
    \/ \E i \in Items : NewRow(i)

TodoSpec == TodoInit /\ [][TodoNext]_todoVars

-----------------------------------------------------------------------------
(* Properties *)

\* A card that the page once listed is gone only if its row was resolved: no
\* failed or lost request, and no late list, makes a decision disappear that
\* is still to be made.
GoneMeansResolved ==
    \A i \in known :
        i \notin list[QueryOf[SectionOf(i)]] => row[i] \in Resolved
=============================================================================
