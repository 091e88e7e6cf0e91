---------------------------- MODULE PagesProofs ----------------------------
(***************************************************************************)
(* Theorems about the pages of the web client, for any number of rows,     *)
(* requests and loads, each about one page, with what they say of the      *)
(* client as a whole (PagesSpec) at the end: a page's steps are the only   *)
(* ones that touch its variables.                                          *)
(***************************************************************************)
EXTENDS MCPages, SequenceTheorems, FiniteSetTheorems, TLAPS

-----------------------------------------------------------------------------
(* The messages pane of the chats page (Chats).  Whatever the user does and *)
(* in whatever order hh answers, the newest request decides what is shown   *)
(* and whether the pane says "loading".  Every action of the page touches   *)
(* the pane in one of four ways, or not at all (PaneStep); the invariant    *)
(* (PaneInv) and the action property follow from these, so the proof has    *)
(* one step per way and one lemma that sorts the actions into them.         *)

\* Numbers are given out once, in order; what is shown is not newer than the
\* newest request, and older than it while that is unanswered.
PaneInv ==
    /\ reqId \in Nat
    /\ messages.req \in Nat
    /\ \A r \in requests : r.req \in Nat /\ r.req <= reqId
    /\ \A r, q \in requests : r.req = q.req => r = q
    /\ messages.req <= reqId
    /\ paneLoading \in BOOLEAN
    /\ paneLoading => messages.req < reqId
    /\ LoadingMeansUnanswered

Untouched == UNCHANGED paneVars
Cleared == messages' = NoMessages /\ UNCHANGED <<reqId, paneLoading, requests>>
Asked == \E c : LoadMessages(c)
AnswerShown == \E r \in requests :
    /\ requests' = requests \ {r}
    /\ IF r.req = reqId
       THEN messages' = [chat |-> r.chat, req |-> r.req] /\ paneLoading' = FALSE
       ELSE UNCHANGED <<messages, paneLoading>>
    /\ UNCHANGED reqId

PaneStep == Untouched \/ Cleared \/ Asked \/ AnswerShown

-----------------------------------------------------------------------------
(* Every action does one of these to the pane. *)

LEMMA RenderTouches ==
    ASSUME NEW chats, NEW found, NEW s, NEW sel, Rendered(chats, found, s, sel)
    PROVE  PaneStep
<1> DEFINE next == Selected(Reselect(sel, chats, found, s), found)
<1>1. PaneEffect(next)
    BY DEF Rendered
<1>2. CASE next = Pane
    BY <1>1, <1>2 DEF PaneEffect, PaneStep, Untouched
<1>3. CASE next # Pane /\ next.chat = NoChat
    BY <1>1, <1>3 DEF PaneEffect, PaneStep, Cleared
<1>4. CASE next # Pane /\ next.chat # NoChat
    <2>1. LoadMessages(next.chat)
        BY <1>1, <1>4 DEF PaneEffect
    <2> QED
        BY <2>1 DEF PaneStep, Asked
<1> QED
    BY <1>2, <1>3, <1>4

LEMMA UserTouches == ASSUME ChatsUser PROVE PaneStep
<1>1. ASSUME RefreshMessages PROVE PaneStep
    BY <1>1 DEF RefreshMessages, PaneStep, Asked
<1>2. ASSUME RefreshList PROVE PaneStep
    BY <1>2 DEF RefreshList, PaneStep, Untouched
<1>3. ASSUME ToggleUnread PROVE PaneStep
    BY <1>3, RenderTouches DEF ToggleUnread
<1>4. ASSUME Search PROVE PaneStep
    BY <1>4, RenderTouches DEF Search
<1>5. ASSUME MarkAllRead PROVE PaneStep
    BY <1>5 DEF MarkAllRead, PaneStep, Untouched
<1>6. ASSUME NEW c \in ChatIds, ClickRow(c) PROVE PaneStep
    BY <1>6, RenderTouches DEF ClickRow
<1>7. ASSUME NEW c \in ChatIds, OnSend(c) PROVE PaneStep
    BY <1>7 DEF OnSend, PaneStep, Untouched
<1>8. ASSUME NEW t \in Fields, Type(t) PROVE PaneStep
    BY <1>8 DEF Type, PaneStep, Untouched
<1> QED
    BY <1>1, <1>2, <1>3, <1>4, <1>5, <1>6, <1>7, <1>8 DEF ChatsUser

LEMMA NextTouches == ASSUME [ChatsNext]_chatsVars PROVE PaneStep
<1>1. CASE ChatsUser
    BY <1>1, UserTouches
<1>2. ASSUME NEW r \in requests, MessagesAnswered(r) PROVE PaneStep
    BY <1>2 DEF MessagesAnswered, PaneStep, AnswerShown
<1>3. ASSUME NEW b \in BOOLEAN, ListAnswered(b) PROVE PaneStep
    <2>1. CASE b = unreadOnly
        BY <1>3, <2>1, RenderTouches DEF ListAnswered
    <2>2. CASE b # unreadOnly
        BY <1>3, <2>2 DEF ListAnswered, PaneStep, Untouched
    <2> QED
        BY <2>1, <2>2
<1>4. ASSUME NEW b \in BOOLEAN, ListFailed(b) PROVE PaneStep
    <2>1. CASE b = unreadOnly
        BY <1>4, <2>1, RenderTouches DEF ListFailed
    <2>2. CASE b # unreadOnly
        BY <1>4, <2>2 DEF ListFailed, PaneStep, Untouched
    <2> QED
        BY <2>1, <2>2
<1>5. ASSUME MarkAllReadDone PROVE PaneStep
    BY <1>5 DEF MarkAllReadDone, PaneStep, Untouched
<1>6. ASSUME NEW c \in ChatIds, EmployerWrites(c) PROVE PaneStep
    BY <1>6 DEF EmployerWrites, PaneStep, Untouched
<1>7. ASSUME NEW i \in DOMAIN sends, SendPosted(i) PROVE PaneStep
    BY <1>7 DEF SendPosted, PaneStep, Asked
<1>8. ASSUME NEW i \in DOMAIN sends, SendFailed(i) PROVE PaneStep
    BY <1>8 DEF SendFailed, PaneStep, Untouched
<1>9. ASSUME NEW i \in DOMAIN sends, SendDone(i) PROVE PaneStep
    BY <1>9 DEF SendDone, PaneStep, Untouched
<1>10. CASE UNCHANGED chatsVars
    BY <1>10 DEF chatsVars, paneVars, PaneStep, Untouched
<1> QED
    BY <1>1, <1>2, <1>3, <1>4, <1>5, <1>6, <1>7, <1>8, <1>9, <1>10 DEF ChatsNext

-----------------------------------------------------------------------------
(* The invariant. *)

LEMMA PaneInit == ASSUME ChatsInit PROVE PaneInv
<1>1. messages.req = 0
    BY DEF ChatsInit, NoMessages
<1>2. CASE deepLink # NoChat
    <2>1. /\ reqId = 1
          /\ requests = {[chat |-> deepLink, req |-> 1]}
          /\ paneLoading = TRUE
        BY <1>2 DEF ChatsInit
    <2>2. \A r \in requests : r.req = 1 /\ r = [chat |-> deepLink, req |-> 1]
        BY <2>1
    <2>3. \E r \in requests : r.req = reqId
        BY <2>1
    <2> QED
        BY <1>1, <2>1, <2>2, <2>3 DEF PaneInv, LoadingMeansUnanswered
<1>3. CASE deepLink = NoChat
    <2>1. reqId = 0 /\ requests = {} /\ paneLoading = FALSE
        BY <1>3 DEF ChatsInit
    <2>2. paneLoading \in BOOLEAN /\ ~paneLoading
        BY <2>1, Zenon
    <2>3. LoadingMeansUnanswered
        BY <2>1, <2>2, Zenon DEF LoadingMeansUnanswered
    <2> QED
        BY <1>1, <2>1, <2>2, <2>3 DEF PaneInv
<1> QED
    BY <1>2, <1>3

LEMMA PaneKept == ASSUME PaneInv, PaneStep PROVE PaneInv'
<1>1. CASE Untouched
    BY <1>1 DEF Untouched, paneVars, PaneInv, LoadingMeansUnanswered
<1>2. CASE Cleared
    BY <1>2 DEF Cleared, NoMessages, PaneInv, LoadingMeansUnanswered
<1>3. ASSUME NEW c, LoadMessages(c) PROVE PaneInv'
    <2> DEFINE new == [chat |-> c, req |-> reqId + 1]
    <2>1. /\ reqId' = reqId + 1
          /\ requests' = requests \cup {new}
          /\ paneLoading' = TRUE
          /\ messages' = messages
        BY <1>3 DEF LoadMessages
    <2>2. reqId \in Nat /\ \A r \in requests : r.req \in Nat /\ r.req < reqId + 1
        BY DEF PaneInv
    <2>3. \A r \in requests' : r.req \in Nat /\ r.req <= reqId'
        BY <2>1, <2>2
    <2>4. \A r, q \in requests' : r.req = q.req => r = q
        BY <2>1, <2>2 DEF PaneInv
    <2>5. \E r \in requests' : r.req = reqId'
        <3>1. new \in requests' /\ new.req = reqId'
            BY <2>1
        <3> QED
            BY <3>1
    <2>6. messages'.req < reqId'
        BY <2>1 DEF PaneInv
    <2> QED
        BY <2>1, <2>2, <2>3, <2>4, <2>5, <2>6 DEF PaneInv, LoadingMeansUnanswered
<1>4. CASE AnswerShown
    <2>1. PICK r \in requests :
            /\ requests' = requests \ {r}
            /\ IF r.req = reqId
               THEN messages' = [chat |-> r.chat, req |-> r.req] /\ paneLoading' = FALSE
               ELSE UNCHANGED <<messages, paneLoading>>
            /\ UNCHANGED reqId
        BY <1>4 DEF AnswerShown
    <2>2. CASE r.req = reqId
        <3>1. /\ messages'.req = reqId /\ reqId' = reqId
              /\ paneLoading' = FALSE /\ requests' \subseteq requests
            BY <2>1, <2>2
        \* the only request with the newest number is gone
        <3>2. \A q \in requests' : q.req # reqId'
            BY <2>1, <2>2 DEF PaneInv
        <3>3. paneLoading' \in BOOLEAN /\ ~paneLoading'
            BY <3>1, Zenon
        <3>4. LoadingMeansUnanswered'
            BY <3>2, <3>3, Zenon DEF LoadingMeansUnanswered
        <3> QED
            BY <3>1, <3>3, <3>4 DEF PaneInv
    <2>3. CASE r.req # reqId
        BY <2>1, <2>3 DEF PaneInv, LoadingMeansUnanswered
    <2> QED
        BY <2>2, <2>3
<1> QED
    BY <1>1, <1>2, <1>3, <1>4 DEF PaneStep, Asked

\* The messages pane keeps its invariant.
THEOREM PaneCorrect == ChatsSpec => []PaneInv
<1>1. ChatsInit => PaneInv
    BY PaneInit
<1>2. PaneInv /\ [ChatsNext]_chatsVars => PaneInv'
    BY NextTouches, PaneKept
<1> QED
    BY <1>1, <1>2, PTL DEF ChatsSpec

-----------------------------------------------------------------------------
(* What the user sees. *)

\* The pane says "loading" exactly while its newest request is unanswered
\* (useChatMessages' reqId against every order of answers).
THEOREM LoadingIsHonest == ChatsSpec => []LoadingMeansUnanswered
<1>1. PaneInv => LoadingMeansUnanswered
    BY DEF PaneInv
<1> QED
    BY <1>1, PaneCorrect, PTL

\* What replaces the messages shown was asked for after them, however late or
\* reordered the answers are.
THEOREM NeverBack == ChatsSpec => MessagesNeverGoBack
<1>1. ASSUME PaneInv, [ChatsNext]_chatsVars
      PROVE  [messages' # messages => messages'.req > messages.req \/ messages' = NoMessages]_chatsVars
    <2>1. PaneStep
        BY <1>1, NextTouches
    <2>2. CASE Untouched
        BY <2>2 DEF Untouched, paneVars
    <2>3. CASE Cleared
        BY <2>3 DEF Cleared
    <2>4. CASE Asked
        BY <2>4 DEF Asked, LoadMessages
    <2>5. CASE AnswerShown
        <3>1. PICK r \in requests :
                IF r.req = reqId
                THEN messages' = [chat |-> r.chat, req |-> r.req] /\ paneLoading' = FALSE
                ELSE UNCHANGED <<messages, paneLoading>>
            BY <2>5 DEF AnswerShown
        <3>2. CASE r.req = reqId
            <4>1. messages.req < reqId
                BY <1>1, <3>2 DEF PaneInv, LoadingMeansUnanswered
            <4> QED
                BY <1>1, <3>1, <3>2, <4>1 DEF PaneInv
        <3>3. CASE r.req # reqId
            BY <3>1, <3>3
        <3> QED
            BY <3>2, <3>3
    <2> QED
        BY <2>1, <2>2, <2>3, <2>4, <2>5 DEF PaneStep
<1> QED
    BY <1>1, PaneCorrect, PTL DEF ChatsSpec, MessagesNeverGoBack

-----------------------------------------------------------------------------
(* The tasks page (Todo): a card that is gone was decided.                  *)
(* GoneMeansResolved is not inductive: a list that was read earlier is      *)
(* applied later, and an answer of the server is believed later.  The       *)
(* invariant therefore says what a list on its way leaves out (Missing) and *)
(* what an answer on its way means (AnswersDecided).  The actions fall into *)
(* six kinds by what they touch, with a lemma each.                         *)

Stages == {"idle", "asked", "read"}

Shapes ==
    /\ row \in [Items -> {"absent", "pending"} \cup Resolved]
    /\ list \in [Queries -> SUBSET Items]
    /\ fetching \in [Sections -> [stage : Stages, rows : SUBSET Items]]
    /\ known \in SUBSET Items
    /\ posts \in Seq(Post)

\* The cards' fields, needed only for the text a request leaves with.
TodoCards == card \in [Items -> [text : Texts, buf : Texts, editing : BOOLEAN]]

\* A list holds rows of its own table, written ones.
OwnRows == \A s \in Sections : \A i \in fetching[s].rows :
             i \in SectionItems[s] /\ row[i] # "absent"

KnownWritten == \A i \in known : row[i] # "absent"

\* What a list that was read leaves out of the rows the page knows is resolved.
Missing == \A s \in Sections : \A i \in known \cap SectionItems[s] :
             fetching[s].stage = "read" /\ i \notin fetching[s].rows => row[i] \in Resolved

\* The handler of a request that was answered 200 has resolved its row.
AnswersDecided == \A p \in DOMAIN posts :
             posts[p].stage = "ok" => row[posts[p].item] \in Resolved

TodoInv == Shapes /\ OwnRows /\ KnownWritten /\ Missing /\ AnswersDecided /\ GoneMeansResolved

-----------------------------------------------------------------------------
(* Sections and queries *)

LEMMA SectionFacts ==
    /\ \A s \in Sections : SectionItems[s] \subseteq Items /\ QueryOf[s] \in Queries
    /\ \A i \in Items : SectionOf(i) \in Sections /\ i \in SectionItems[SectionOf(i)]
    /\ \A s \in Sections : \A i \in SectionItems[s] : SectionOf(i) = s
<1>1. \A s \in Sections : SectionItems[s] \subseteq Items /\ QueryOf[s] \in Queries
    BY DEF Sections, SectionItems, Items, QueryOf, Queries
<1>2. \A i \in Items : \E s \in Sections : i \in SectionItems[s]
    BY DEF Sections, SectionItems, Items
<1>3. \A i \in Items : SectionOf(i) \in Sections /\ i \in SectionItems[SectionOf(i)]
    BY <1>2 DEF SectionOf
<1>4. ASSUME NEW s \in Sections, NEW i \in SectionItems[s]
      PROVE  SectionOf(i) = s
    <2>1. SectionOf(i) \in Sections /\ i \in SectionItems[SectionOf(i)]
        BY <1>1, <1>3
    <2> QED
        BY <2>1, TodoAssumption
<1> QED
    BY <1>1, <1>3, <1>4

-----------------------------------------------------------------------------
(* What each kind of step keeps *)

\* Only requests change, and none of them becomes "ok".
Requests ==
    /\ posts' \in Seq(Post)
    /\ \A p \in DOMAIN posts' : posts'[p].stage = "ok" =>
         \E q \in DOMAIN posts : posts[q].stage = "ok" /\ posts[q].item = posts'[p].item

LEMMA RequestsKeep ==
    ASSUME TodoInv, Requests, UNCHANGED <<row, list, fetching, known>>
    PROVE  TodoInv'
<1>1. Shapes' /\ OwnRows' /\ KnownWritten' /\ Missing' /\ GoneMeansResolved'
    BY DEF TodoInv, Shapes, OwnRows, KnownWritten, Missing, GoneMeansResolved, Requests
<1>2. AnswersDecided'
    BY DEF TodoInv, AnswersDecided, Requests
<1> QED
    BY <1>1, <1>2 DEF TodoInv

\* Rows only go on: an absent one is written, any other is resolved.
GoesOn ==
    /\ row' \in [Items -> {"absent", "pending"} \cup Resolved]
    /\ \A i \in Items : \/ row'[i] = row[i]
                        \/ row'[i] \in Resolved
                        \/ row[i] = "absent" /\ row'[i] = "pending"

LEMMA RowsGoOn ==
    ASSUME TodoInv, GoesOn, UNCHANGED <<list, fetching, known>>
    PROVE  /\ \A i \in Items : row[i] \in Resolved => row'[i] \in Resolved
           /\ OwnRows' /\ KnownWritten' /\ Missing' /\ GoneMeansResolved'
<1>1. known \subseteq Items /\ \A s \in Sections : fetching[s].rows \subseteq Items
    BY DEF TodoInv, Shapes
<1>2. \A i \in Items : row[i] # "absent" => row'[i] # "absent"
    BY DEF GoesOn, Resolved
<1>3. \A i \in Items : row[i] \in Resolved => row'[i] \in Resolved
    BY DEF GoesOn, Resolved
<1>4. OwnRows' /\ KnownWritten'
    BY <1>1, <1>2 DEF TodoInv, OwnRows, KnownWritten
<1>5. Missing' /\ GoneMeansResolved'
    BY <1>1, <1>3 DEF TodoInv, Missing, GoneMeansResolved
<1> QED
    BY <1>3, <1>4, <1>5

\* Lists and what is known stay; the sections of query q start again or stop.
LEMMA FetchRestarts ==
    ASSUME TodoInv, NEW q \in Queries, NEW f \in [stage : Stages, rows : SUBSET Items],
           f.stage # "read", f.rows = {},
           fetching' = [s \in Sections |-> IF s \in SectionsOf(q) THEN f ELSE fetching[s]],
           UNCHANGED <<row, list, known, posts>>
    PROVE  TodoInv'
<1>1. Shapes'
    BY DEF TodoInv, Shapes
<1>2. OwnRows' /\ Missing'
    BY DEF TodoInv, OwnRows, Missing
<1>3. KnownWritten' /\ AnswersDecided' /\ GoneMeansResolved'
    BY DEF TodoInv, KnownWritten, AnswersDecided, GoneMeansResolved
<1> QED
    BY <1>1, <1>2, <1>3 DEF TodoInv

-----------------------------------------------------------------------------
(* Requests *)

LEMMA Staged ==
    ASSUME TodoInv, NEW p \in DOMAIN posts, NEW s \in {"read", "accepted", "refusedByHh", "error"},
           SetStage(p, s)
    PROVE  Requests
<1>1. posts \in Seq(Post) /\ posts[p] \in Post
    BY DEF TodoInv, Shapes
<1>2. [posts[p] EXCEPT !.stage = s] \in Post
    BY <1>1 DEF Post
<1>3. posts' \in Seq(Post)
    BY <1>1, <1>2 DEF SetStage
<1>4. \A n \in DOMAIN posts' : posts'[n].stage = "ok" => n \in DOMAIN posts /\ posts'[n] = posts[n]
    BY <1>1 DEF SetStage, Post
<1> QED
    BY <1>3, <1>4 DEF Requests

LEMMA Removed ==
    ASSUME TodoInv, NEW p \in DOMAIN posts, posts' = RemoveAt(posts, p)
    PROVE  Requests
<1>1. posts \in Seq(Post) /\ Len(posts) \in Nat /\ p \in 1..Len(posts)
    BY DEF TodoInv, Shapes
<1>2. posts' = SubSeq(posts, 1, p - 1) \o SubSeq(posts, p + 1, Len(posts))
    BY DEF RemoveAt
<1> DEFINE a == SubSeq(posts, 1, p - 1)
           b == SubSeq(posts, p + 1, Len(posts))
<1>3. /\ a \in Seq(Post) /\ Len(a) = p - 1
      /\ \A n \in 1..(p - 1) : a[n] = posts[n]
    BY <1>1, SubSeqProperties
<1>4. /\ b \in Seq(Post) /\ Len(b) = Len(posts) - p
      /\ \A n \in 1..(Len(posts) - p) : b[n] = posts[p + n]
    BY <1>1, SubSeqProperties
<1>5. posts' = a \o b
    BY <1>2
<1> HIDE DEF a, b
<1>6. /\ posts' \in Seq(Post)
      /\ Len(posts') = Len(a) + Len(b)
      /\ \A n \in 1..(Len(a) + Len(b)) :
           posts'[n] = IF n <= Len(a) THEN a[n] ELSE b[n - Len(a)]
    <2>1. /\ a \o b \in Seq(Post)
          /\ Len(a \o b) = Len(a) + Len(b)
          /\ \A n \in 1..(Len(a) + Len(b)) :
               (a \o b)[n] = IF n <= Len(a) THEN a[n] ELSE b[n - Len(a)]
        BY <1>3, <1>4, ConcatProperties
    <2> QED
        BY <1>5, <2>1, Zenon
<1>7. \A n \in DOMAIN posts' : \E m \in DOMAIN posts : posts'[n] = posts[m]
    <2> TAKE n \in DOMAIN posts'
    <2>1. n \in 1..(Len(posts) - 1)
        BY <1>1, <1>3, <1>4, <1>6
    <2>2. CASE n <= p - 1
        BY <1>1, <1>3, <1>6, <2>1, <2>2
    <2>3. CASE n > p - 1
        <3>1. n - (p - 1) \in 1..(Len(posts) - p) /\ n + 1 \in DOMAIN posts
            BY <1>1, <2>1, <2>3
        <3>2. posts'[n] = b[n - (p - 1)]
            BY <1>1, <1>3, <1>4, <1>6, <2>1, <2>3
        <3>3. posts'[n] = posts[n + 1]
            BY <1>1, <1>4, <2>1, <3>1, <3>2
        <3> QED
            BY <3>1, <3>3
    <2> QED
        BY <1>1, <2>1, <2>2, <2>3
<1> QED
    BY <1>6, <1>7 DEF Requests

LEMMA DecideKeeps ==
    ASSUME TodoInv, NEW i \in Items,
           NEW op \in {"approve", "send", "answer", "done", "dismissed", "discard"},
           TodoCards, Decide(i, op)
    PROVE  TodoInv'
<1> DEFINE new == [item |-> i, op |-> op, text |-> card[i].text, stage |-> "asked"]
<1>1. posts \in Seq(Post) /\ new \in Post
    BY DEF TodoInv, Shapes, TodoCards, Post
<1>2. posts' = Append(posts, new)
    BY DEF Decide
<1>3. Requests
    BY <1>1, <1>2 DEF Requests
<1> QED
    BY <1>3, RequestsKeep DEF Decide

\* The cards' fields keep their shape, whatever else happens.
LEMMA CardsKept == ASSUME TodoCards, [TodoNext]_todoVars PROVE TodoCards'
<1>0. \A i \in Items : FreshCard(i) \in [text : Texts, buf : Texts, editing : BOOLEAN]
    BY DEF FreshCard, Texts
<1>1. ASSUME NEW s \in Sections, SetActive(s) PROVE TodoCards'
    BY <1>0, <1>1 DEF SetActive, TodoCards
<1>2. ASSUME NEW i \in Items, UpdateAnswers(i) PROVE TodoCards'
    <2>1. PICK t \in {"edited", FreshCard(i).text} \ {card[i].text} :
            SetCard(i, [card[i] EXCEPT !.text = t])
        BY <1>2 DEF UpdateAnswers
    <2>2. t \in Texts
        BY <1>0, <2>1 DEF Texts
    <2> QED
        BY <2>1, <2>2 DEF SetCard, TodoCards
<1>3. ASSUME NEW i \in Items, EditDraft(i) PROVE TodoCards'
    BY <1>3 DEF EditDraft, SetCard, TodoCards, Texts
<1>4. ASSUME NEW q \in Queries, FetchDone(q) PROVE TodoCards'
    BY <1>0, <1>4 DEF FetchDone, TodoCards
<1>5. ASSUME UNCHANGED card PROVE TodoCards'
    BY <1>5 DEF TodoCards
<1>6. ASSUME NEW i \in Items,
             NEW op \in {"approve", "send", "answer", "done", "dismissed", "discard"},
             Decide(i, op)
      PROVE  TodoCards'
    BY <1>5, <1>6 DEF Decide
<1>7. ASSUME TodoServer PROVE TodoCards'
    BY <1>5, <1>7 DEF TodoServer, ReadRow, CallHh, WriteRow
<1>8. ASSUME NEW p \in DOMAIN posts, PostAnswered(p) \/ PostFailed(p) PROVE TodoCards'
    BY <1>5, <1>8 DEF PostAnswered, PostFailed
<1>9. ASSUME NEW q \in Queries, Refetch(q) \/ FetchFailed(q) PROVE TodoCards'
    BY <1>5, <1>9 DEF Refetch, FetchFailed
<1>10. ASSUME NEW s \in Sections, ListRows(s) PROVE TodoCards'
    BY <1>5, <1>10 DEF ListRows
<1>11. ASSUME NEW i \in Items, NewRow(i) PROVE TodoCards'
    BY <1>5, <1>11 DEF NewRow
<1>12. CASE UNCHANGED todoVars
    BY <1>5, <1>12 DEF todoVars
<1> QED
    BY <1>1, <1>2, <1>3, <1>4, <1>6, <1>7, <1>8, <1>9, <1>10, <1>11, <1>12
       DEF TodoNext, TodoUser

-----------------------------------------------------------------------------
(* Rows and lists *)

LEMMA WriteRowKeeps == ASSUME TodoInv, NEW p \in DOMAIN posts, WriteRow(p) PROVE TodoInv'
<1>1. posts \in Seq(Post) /\ posts[p] \in Post
    BY DEF TodoInv, Shapes
<1> DEFINE i == posts[p].item
<1>2. i \in Items /\ Outcome(p) \in Resolved
    BY <1>1 DEF WriteRow, Outcome, Post, Resolved, CallsHh
<1>3. row' = [row EXCEPT ![i] = Outcome(p)] /\ UNCHANGED <<list, fetching, known>>
    BY DEF WriteRow
<1> HIDE DEF i
<1>4. GoesOn
    BY <1>2, <1>3 DEF TodoInv, Shapes, GoesOn
<1>5. row'[i] \in Resolved
    BY <1>2, <1>3 DEF TodoInv, Shapes
<1>6. posts' = [posts EXCEPT ![p].stage = "ok"]
    BY DEF WriteRow, SetStage
<1>7. posts' \in Seq(Post)
    <2>1. [posts[p] EXCEPT !.stage = "ok"] \in Post
        BY <1>1 DEF Post
    <2> QED
        BY <1>1, <1>6, <2>1
<1>8. AnswersDecided'
    <2> SUFFICES ASSUME NEW n \in DOMAIN posts', posts'[n].stage = "ok"
                 PROVE  row'[posts'[n].item] \in Resolved
        BY DEF AnswersDecided
    <2>1. n \in DOMAIN posts /\ posts[n] \in Post
        BY <1>1, <1>6
    <2>2. CASE n = p
        BY <1>1, <1>5, <1>6, <2>2 DEF i, Post
    <2>3. CASE n # p
        <3>1. posts'[n] = posts[n]
            BY <1>1, <1>6, <2>1, <2>3
        <3> QED
            BY <1>3, <1>4, <2>1, <3>1, RowsGoOn DEF TodoInv, AnswersDecided, Post
    <2> QED
        BY <2>2, <2>3
<1> QED
    BY <1>3, <1>4, <1>7, <1>8, RowsGoOn DEF TodoInv, Shapes, GoesOn

LEMMA NewRowKeeps == ASSUME TodoInv, NEW i \in Items, NewRow(i) PROVE TodoInv'
<1>1. GoesOn
    BY DEF TodoInv, Shapes, NewRow, GoesOn
<1>2. UNCHANGED <<list, fetching, known, posts>>
    BY DEF NewRow
<1>3. AnswersDecided'
    <2>1. posts \in Seq(Post)
        BY DEF TodoInv, Shapes
    <2>2. \A p \in DOMAIN posts : posts[p] \in Post
        BY <2>1
    <2>3. \A p \in DOMAIN posts : posts[p].item \in Items
        BY <2>2 DEF Post
    <2> QED
        BY <1>1, <1>2, <2>3, RowsGoOn DEF TodoInv, AnswersDecided
<1> QED
    BY <1>1, <1>2, <1>3, RowsGoOn DEF TodoInv, Shapes, GoesOn

LEMMA PostAnsweredKeeps ==
    ASSUME TodoInv, NEW p \in DOMAIN posts, PostAnswered(p) PROVE TodoInv'
<1>1. posts[p] \in Post
    BY DEF TodoInv, Shapes
<1> DEFINE i == posts[p].item
<1>2. i \in Items /\ row[i] \in Resolved
    BY <1>1 DEF TodoInv, AnswersDecided, PostAnswered, Post
<1>3. /\ list' = [list EXCEPT ![QueryOf[SectionOf(i)]] = @ \ {i}]
      /\ UNCHANGED <<row, fetching, known>>
    BY DEF PostAnswered, DropFromList
<1>4. Requests
    BY Removed DEF PostAnswered
<1> HIDE DEF i
<1>5. list' \in [Queries -> SUBSET Items]
    BY <1>2, <1>3, SectionFacts DEF TodoInv, Shapes
<1>6. Shapes' /\ OwnRows' /\ KnownWritten' /\ Missing'
    BY <1>3, <1>4, <1>5 DEF TodoInv, Shapes, OwnRows, KnownWritten, Missing, Requests
<1>7. AnswersDecided'
    BY <1>3, <1>4 DEF TodoInv, AnswersDecided, Requests
<1>8. GoneMeansResolved'
    \* the only card that leaves a list is that of a resolved row
    <2>1. \A j \in known : j # i /\ j \in list[QueryOf[SectionOf(j)]]
                            => j \in list'[QueryOf[SectionOf(j)]]
        BY <1>3, SectionFacts DEF TodoInv, Shapes
    <2> QED
        BY <1>2, <1>3, <2>1 DEF TodoInv, GoneMeansResolved
<1> QED
    BY <1>6, <1>7, <1>8 DEF TodoInv

LEMMA ListRowsKeeps == ASSUME TodoInv, NEW s \in Sections, ListRows(s) PROVE TodoInv'
<1> DEFINE f == [stage |-> "read", rows |-> {i \in SectionItems[s] : Open(i)}]
<1>1. /\ fetching' = [fetching EXCEPT ![s] = f]
      /\ UNCHANGED <<row, list, known, posts>>
    BY DEF ListRows
<1>2. f \in [stage : Stages, rows : SUBSET Items]
    BY SectionFacts DEF Stages
<1>3. Shapes'
    BY <1>1, <1>2 DEF TodoInv, Shapes
<1>4. \A i \in f.rows : i \in SectionItems[s] /\ row[i] # "absent"
    BY DEF Open
<1>5. \A i \in known \cap SectionItems[s] : i \notin f.rows => row[i] \in Resolved
    BY DEF TodoInv, Shapes, KnownWritten, Open
<1> HIDE DEF f
<1>6. \A t \in Sections : fetching'[t] = IF t = s THEN f ELSE fetching[t]
    BY <1>1 DEF TodoInv, Shapes
<1>7. OwnRows' /\ Missing'
    BY <1>1, <1>4, <1>5, <1>6 DEF TodoInv, OwnRows, Missing
<1>8. KnownWritten' /\ AnswersDecided' /\ GoneMeansResolved'
    BY <1>1 DEF TodoInv, KnownWritten, AnswersDecided, GoneMeansResolved
<1> QED
    BY <1>3, <1>7, <1>8 DEF TodoInv

LEMMA FetchDoneKeeps == ASSUME TodoInv, NEW q \in Queries, FetchDone(q) PROVE TodoInv'
<1>1. /\ \A s \in SectionsOf(q) : fetching[s].stage = "read"
      /\ list' = [list EXCEPT ![q] = Fetched(q)]
      /\ known' = known \cup Fetched(q)
      /\ fetching' = [s \in Sections |-> IF s \in SectionsOf(q) THEN FetchIdle ELSE fetching[s]]
      /\ UNCHANGED <<row, posts>>
    BY DEF FetchDone
<1>2. \A i : i \in Fetched(q) <=> \E s \in Sections : QueryOf[s] = q /\ i \in fetching[s].rows
    BY DEF Fetched, SectionsOf
<1>3. \A i \in Fetched(q) : /\ i \in Items /\ row[i] # "absent"
                            /\ QueryOf[SectionOf(i)] = q
    BY <1>2, SectionFacts DEF TodoInv, OwnRows
<1>4. Shapes'
    <2>1. FetchIdle \in [stage : Stages, rows : SUBSET Items]
        BY DEF FetchIdle, Stages
    <2> QED
        BY <1>1, <1>3, <2>1 DEF TodoInv, Shapes
<1>5. OwnRows' /\ KnownWritten' /\ AnswersDecided'
    BY <1>1, <1>3 DEF TodoInv, OwnRows, KnownWritten, AnswersDecided, FetchIdle
<1>6. Missing'
    \* what is new to the page belongs to the query that was applied
    <2> SUFFICES ASSUME NEW s \in Sections, NEW i \in known' \cap SectionItems[s],
                        fetching'[s].stage = "read", i \notin fetching'[s].rows
                 PROVE  row'[i] \in Resolved
        BY DEF Missing
    <2>1. s \notin SectionsOf(q) /\ fetching'[s] = fetching[s]
        BY <1>1 DEF FetchIdle
    <2>2. QueryOf[SectionOf(i)] # q
        BY <2>1, SectionFacts DEF SectionsOf
    <2>3. i \in known
        BY <1>1, <1>3, <2>2
    <2> QED
        BY <1>1, <2>1, <2>3 DEF TodoInv, Missing
<1>7. GoneMeansResolved'
    <2> SUFFICES ASSUME NEW i \in known', i \notin list'[QueryOf[SectionOf(i)]]
                 PROVE  row'[i] \in Resolved
        BY DEF GoneMeansResolved
    <2>1. i \in Items
        BY <1>4 DEF Shapes
    <2>2. CASE QueryOf[SectionOf(i)] = q
        <3>1. i \notin Fetched(q)
            BY <1>1, <2>2 DEF TodoInv, Shapes
        <3>2. i \in known \cap SectionItems[SectionOf(i)] /\ SectionOf(i) \in SectionsOf(q)
            BY <1>1, <2>1, <2>2, <3>1, SectionFacts DEF SectionsOf
        <3>3. i \notin fetching[SectionOf(i)].rows
            BY <1>2, <2>2, <3>1, <3>2 DEF SectionsOf
        <3> QED
            BY <1>1, <3>2, <3>3, SectionFacts, <2>1 DEF TodoInv, Missing
    <2>3. CASE QueryOf[SectionOf(i)] # q
        <3>1. i \in known
            BY <1>1, <1>3, <2>3
        <3>2. list'[QueryOf[SectionOf(i)]] = list[QueryOf[SectionOf(i)]]
            BY <1>1, <2>1, <2>3, SectionFacts DEF TodoInv, Shapes
        <3> QED
            BY <1>1, <3>1, <3>2 DEF TodoInv, GoneMeansResolved
    <2> QED
        BY <2>2, <2>3
<1> QED
    BY <1>4, <1>5, <1>6, <1>7 DEF TodoInv

-----------------------------------------------------------------------------
(* The invariant and the theorem *)

LEMMA TodoInitially == ASSUME TodoInit PROVE TodoInv /\ TodoCards
<1>1. Shapes
    BY DEF TodoInit, Shapes, Stages
<1>2. OwnRows /\ KnownWritten /\ Missing /\ AnswersDecided /\ GoneMeansResolved
    BY DEF TodoInit, OwnRows, KnownWritten, Missing, AnswersDecided, GoneMeansResolved
<1>3. TodoCards
    BY DEF TodoInit, TodoCards, FreshCard, Texts
<1> QED
    BY <1>1, <1>2, <1>3 DEF TodoInv

LEMMA TodoKept == ASSUME TodoInv, TodoCards, [TodoNext]_todoVars PROVE TodoInv'
<1>1. ASSUME Requests, UNCHANGED <<row, list, fetching, known>> PROVE TodoInv'
    BY <1>1, RequestsKeep
<1>2. ASSUME UNCHANGED posts PROVE Requests
    BY <1>2 DEF TodoInv, Shapes, Requests
<1>3. ASSUME NEW s \in Sections, SetActive(s) PROVE TodoInv'
    BY <1>1, <1>2, <1>3 DEF SetActive
<1>4. ASSUME NEW i \in Items, UpdateAnswers(i) \/ EditDraft(i) PROVE TodoInv'
    BY <1>1, <1>2, <1>4 DEF UpdateAnswers, EditDraft, SetCard
<1>5. ASSUME NEW i \in Items,
             NEW op \in {"approve", "send", "answer", "done", "dismissed", "discard"},
             Decide(i, op)
      PROVE  TodoInv'
    BY <1>5, DecideKeeps
<1>6. ASSUME NEW p \in DOMAIN posts, ReadRow(p) PROVE TodoInv'
    BY <1>1, <1>6, Staged DEF ReadRow
<1>7. ASSUME NEW p \in DOMAIN posts, CallHh(p) PROVE TodoInv'
    BY <1>1, <1>7, Staged DEF CallHh
<1>8. ASSUME NEW p \in DOMAIN posts, WriteRow(p) PROVE TodoInv'
    BY <1>8, WriteRowKeeps
<1>9. ASSUME NEW p \in DOMAIN posts, PostAnswered(p) PROVE TodoInv'
    BY <1>9, PostAnsweredKeeps
<1>10. ASSUME NEW p \in DOMAIN posts, PostFailed(p) PROVE TodoInv'
    BY <1>1, <1>10, Removed DEF PostFailed
<1>11. ASSUME NEW q \in Queries, Refetch(q) PROVE TodoInv'
    <2> DEFINE f == [stage |-> "asked", rows |-> {}]
    <2>1. f \in [stage : Stages, rows : SUBSET Items] /\ f.stage # "read" /\ f.rows = {}
        BY DEF Stages
    <2>2. /\ fetching' = [s \in Sections |-> IF s \in SectionsOf(q) THEN f ELSE fetching[s]]
          /\ UNCHANGED <<row, list, known, posts>>
        BY <1>11 DEF Refetch
    <2> HIDE DEF f
    <2> QED
        BY <2>1, <2>2, FetchRestarts
<1>12. ASSUME NEW q \in Queries, FetchFailed(q) PROVE TodoInv'
    <2>1. /\ FetchIdle \in [stage : Stages, rows : SUBSET Items]
          /\ FetchIdle.stage # "read" /\ FetchIdle.rows = {}
        BY DEF FetchIdle, Stages
    <2>2. /\ fetching' = [s \in Sections |-> IF s \in SectionsOf(q) THEN FetchIdle
                                                                    ELSE fetching[s]]
          /\ UNCHANGED <<row, list, known, posts>>
        BY <1>12 DEF FetchFailed
    <2> QED
        BY <2>1, <2>2, FetchRestarts
<1>13. ASSUME NEW q \in Queries, FetchDone(q) PROVE TodoInv'
    BY <1>13, FetchDoneKeeps
<1>14. ASSUME NEW s \in Sections, ListRows(s) PROVE TodoInv'
    BY <1>14, ListRowsKeeps
<1>15. ASSUME NEW i \in Items, NewRow(i) PROVE TodoInv'
    BY <1>15, NewRowKeeps
<1>16. CASE UNCHANGED todoVars
    BY <1>1, <1>2, <1>16 DEF todoVars
<1> QED
    BY <1>3, <1>4, <1>5, <1>6, <1>7, <1>8, <1>9, <1>10, <1>11, <1>12, <1>13, <1>14, <1>15,
       <1>16 DEF TodoNext, TodoUser, TodoServer

\* The tasks page keeps its invariant.
THEOREM TodoCorrect == TodoSpec => [](TodoInv /\ TodoCards)
<1>1. TodoInit => TodoInv /\ TodoCards
    BY TodoInitially
<1>2. TodoInv /\ TodoCards /\ [TodoNext]_todoVars => (TodoInv /\ TodoCards)'
    BY TodoKept, CardsKept
<1> QED
    BY <1>1, <1>2, PTL DEF TodoSpec

\* A card that the page once listed is gone only if its row was resolved:
\* whatever requests fail or are lost, and however old the lists that are
\* applied (setQueryData in useRecruiter and useFormDrafts).
THEOREM GoneIsResolved == TodoSpec => []GoneMeansResolved
<1>1. TodoInv => GoneMeansResolved
    BY DEF TodoInv
<1> QED
    BY <1>1, TodoCorrect, PTL

-----------------------------------------------------------------------------
(* The captcha window (CaptchaModal): once every change has come it shows   *)
(* the newest open captcha, none, or the one it read before it subscribed.  *)
(* WindowIsCurrent speaks of an empty feed only; the invariant (FateKnown)  *)
(* says of every change still on its way what will become of the captcha it *)
(* brings, and of the one shown now.                                        *)

\* Captchas are raised in their order, so that the newest open one, if any is
\* open, is the last that was raised.
RaisedInOrder ==
    /\ \A c, d \in Captchas : c < d /\ captcha[d] # "absent" => captcha[c] # "absent"
    /\ \E m \in Captchas \cup {0} :
         /\ \A c \in Captchas : captcha[c] # "absent" => c <= m
         /\ GetPending # {} => m \in GetPending

\* Nothing is delivered, and nothing shown, before the first read is applied.
NothingBefore == firstRead # "done" => feed = <<>> /\ pending = NoRow

\* The change e takes captcha c off the window.
Settles(e, c) == e.event = "insert" \/ (e.event = "solved" /\ e.row.id = c)

\* What the window shows, now (k = 0) or once change k has come, is current, or
\* a change after it takes it away.
Brought(k) == IF k = 0 THEN pending.id ELSE feed[k].row.id

FateKnown ==
    \A k \in 0..Len(feed) :
        k = 0 \/ feed[k].event = "insert" =>
            \/ Brought(k) \in {0, Newest, loaded.id}
            \/ \E j \in (k + 1)..Len(feed) : Settles(feed[j], Brought(k))

WindowInv ==
    /\ CaptchaTypeOK
    /\ RaisedInOrder
    /\ NothingBefore
    /\ FateKnown

Change == [row : CaptchaRow, event : {"insert", "update", "solved"}]

-----------------------------------------------------------------------------
(* The open captchas, by rank.                                              *)

LEMMA MaxIs ==
    ASSUME NEW S \in SUBSET Nat, NEW m \in S, \A x \in S : x <= m
    PROVE  Max(S) = m
<1>1. \A x \in S : (\A y \in S : x >= y) => x = m
    OBVIOUS
<1>2. m \in S /\ \A y \in S : m >= y
    OBVIOUS
<1> QED
    BY <1>1, <1>2 DEF Max

\* The ranks of a finite set of numbers are 1 .. its size, each once.
LEMMA Ranks ==
    ASSUME NEW S \in SUBSET Nat, IsFiniteSet(S)
    PROVE  /\ Cardinality(S) \in Nat
           /\ \A x \in S : Cardinality({y \in S : y <= x}) \in 1..Cardinality(S)
           /\ \A i \in 1..Cardinality(S) : \E x \in S : Cardinality({y \in S : y <= x}) = i
           /\ \A x, z \in S : Cardinality({y \in S : y <= x}) = Cardinality({y \in S : y <= z})
                               => x = z
<1> DEFINE n == Cardinality(S)
           upTo(x) == {y \in S : y <= x}
           rank == [x \in S |-> Cardinality(upTo(x))]
<1>1. n \in Nat
    BY FS_CardinalityType
<1>2. \A x \in S : IsFiniteSet(upTo(x)) /\ Cardinality(upTo(x)) <= n
                   /\ Cardinality(upTo(x)) \in Nat
    BY FS_Subset, FS_CardinalityType
<1>3. \A x \in S : Cardinality(upTo(x)) \in 1..n
    <2> TAKE x \in S
    <2>1. x \in upTo(x)
        OBVIOUS
    <2>2. Cardinality(upTo(x)) # 0
        BY <1>2, <2>1, FS_EmptySet
    <2> QED
        BY <1>1, <1>2, <2>2
<1>4. \A x, y \in S : x <= y /\ Cardinality(upTo(x)) = Cardinality(upTo(y)) => x = y
    <2> SUFFICES ASSUME NEW x \in S, NEW y \in S, x <= y,
                        Cardinality(upTo(x)) = Cardinality(upTo(y))
                 PROVE  x = y
        OBVIOUS
    <2>1. \A z \in S : z <= x => z <= y
        <3> TAKE z \in S
        <3>1. x \in Nat /\ y \in Nat /\ z \in Nat
            OBVIOUS
        <3> QED
            BY <3>1
    <2>2. upTo(x) \in SUBSET upTo(y)
        BY <2>1
    <2>3. upTo(x) = upTo(y)
        <3> HIDE DEF upTo
        <3> QED
            BY <1>2, <2>2, FS_Subset
    <2>4. y \in upTo(y)
        OBVIOUS
    <2>5. y <= x
        BY <2>3, <2>4
    <2>6. x \in Nat /\ y \in Nat
        OBVIOUS
    <2> QED
        BY <2>5, <2>6
<1>5. \A x, y \in S : Cardinality(upTo(x)) = Cardinality(upTo(y)) => x = y
    <2> SUFFICES ASSUME NEW x \in S, NEW y \in S,
                        Cardinality(upTo(x)) = Cardinality(upTo(y))
                 PROVE  x = y
        OBVIOUS
    <2>1. x <= y \/ y <= x
        OBVIOUS
    <2> HIDE DEF upTo
    <2> QED
        BY <1>4, <2>1
<1>6. rank \in [S -> 1..n]
    BY <1>3
<1>7. \A x, y \in S : rank[x] = rank[y] => x = y
    BY <1>5
<1>8. rank \in Injection(S, 1..n)
    <2> HIDE DEF rank
    <2> QED
        BY <1>6, <1>7 DEF Injection, IsInjective
<1>9. IsFiniteSet(1..n) /\ Cardinality(1..n) = n
    BY <1>1, FS_Interval
<1>10. rank \in Surjection(S, 1..n)
    <2> HIDE DEF rank
    <2> QED
        BY <1>8, <1>9, FS_Injection
<1>11. \A i \in 1..n : \E x \in S : rank[x] = i
    <2> HIDE DEF rank
    <2> QED
        BY <1>10 DEF Surjection
<1> QED
    BY <1>1, <1>3, <1>5, <1>11

LEMMA PendingFinite ==
    ASSUME CaptchaTypeOK, RaisedInOrder
    PROVE  /\ GetPending \in SUBSET Nat
           /\ IsFiniteSet(GetPending)
           /\ GetPending # {} =>
                Newest \in GetPending /\ \A c \in GetPending : c <= Newest
<1>1. GetPending \in SUBSET Nat
    BY CaptchaAssumption DEF GetPending
<1>2. PICK m \in Captchas \cup {0} :
            /\ \A c \in Captchas : captcha[c] # "absent" => c <= m
            /\ GetPending # {} => m \in GetPending
    BY DEF RaisedInOrder
<1>3. \A c \in GetPending : c <= m
    BY <1>2 DEF GetPending
<1>4. m \in Nat
    BY CaptchaAssumption
<1>5. IsFiniteSet(GetPending)
    BY <1>1, <1>3, <1>4, FS_BoundedSetOfNaturals
<1>6. GetPending # {} => Newest = m
    BY <1>1, <1>2, <1>3, MaxIs DEF Newest
<1> QED
    BY <1>1, <1>2, <1>3, <1>5, <1>6

\* mark_solved tells of every open captcha that it is solved, and of no other.
LEMMA MarkedChanges ==
    ASSUME CaptchaTypeOK, RaisedInOrder, MarkSolved
    PROVE  \E new \in Seq(Change) :
             /\ Publish(new)
             /\ \A i \in DOMAIN new : new[i].event = "solved"
             /\ \A c \in GetPending : \E i \in DOMAIN new : new[i].row.id = c
<1> DEFINE n == Cardinality(GetPending)
           rank(x) == Cardinality({y \in GetPending : y <= x})
           nth(i) == CHOOSE x \in GetPending : rank(x) = i
           new == [i \in 1..n |-> [row |-> RowOf(nth(i)), event |-> "solved"]]
<1>1. /\ n \in Nat
      /\ \A x \in GetPending : rank(x) \in 1..n
      /\ \A i \in 1..n : \E x \in GetPending : rank(x) = i
      /\ \A x, z \in GetPending : rank(x) = rank(z) => x = z
    BY PendingFinite, Ranks
<1>2. \A i \in 1..n : nth(i) \in GetPending /\ rank(nth(i)) = i
    BY <1>1
<1>3. \A c \in GetPending : RowOf(c) \in CaptchaRow /\ RowOf(c).id = c
    BY DEF CaptchaTypeOK, GetPending, RowOf, CaptchaRow
<1>4. \A i \in 1..n : new[i] \in Change /\ new[i].event = "solved"
                      /\ new[i].row.id = nth(i)
    BY <1>2, <1>3 DEF Change
<1>5. Publish(new)
    BY DEF MarkSolved
<1>6. \A c \in GetPending : \E i \in 1..n : new[i].row.id = c
    <2> TAKE c \in GetPending
    <2>1. rank(c) \in 1..n
        BY <1>1
    <2>2. nth(rank(c)) \in GetPending /\ rank(nth(rank(c))) = rank(c)
        BY <1>2, <2>1
    <2>3. nth(rank(c)) = c
        <3> HIDE DEF nth
        <3> QED
            BY <1>1, <2>2
    <2>4. new[rank(c)].row.id = nth(rank(c))
        BY <1>4, <2>1
    <2> HIDE DEF rank, nth
    <2> QED
        BY <2>1, <2>3, <2>4
<1>7. new \in [1..n -> Change] /\ DOMAIN new = 1..n
    BY <1>4
<1> HIDE DEF nth, new
<1>8. new \in Seq(Change)
    BY <1>1, <1>7, SeqDef
<1>9. \A i \in DOMAIN new : new[i].event = "solved"
    BY <1>4, <1>7
<1>10. \A c \in GetPending : \E i \in DOMAIN new : new[i].row.id = c
    BY <1>6, <1>7
<1> QED
    BY <1>5, <1>8, <1>9, <1>10

-----------------------------------------------------------------------------
(* One lemma per way the fate of the candidates can change.                 *)

\* Nothing is published before the channel is joined.
LEMMA FateBefore ==
    ASSUME NothingBefore, NothingBefore', firstRead' # "done"
    PROVE  FateKnown'
<1>1. feed' = <<>> /\ pending' = NoRow
    BY DEF NothingBefore
<1>2. Len(feed') = 0 /\ pending'.id = 0
    BY <1>1 DEF NoRow
<1> QED
    BY <1>2 DEF FateKnown, Brought

\* Changes follow the feed: they leave the newest captcha as it is, or settle it.
LEMMA FateGrows ==
    ASSUME CaptchaTypeOK, FateKnown,
           NEW new \in Seq(Change), feed' = feed \o new,
           UNCHANGED <<pending, loaded>>,
           \A j \in 1..Len(new) : new[j].event = "insert" => new[j].row.id = Newest',
           Newest \in {0, Newest', loaded.id}
             \/ \E j \in 1..Len(new) : Settles(new[j], Newest)
    PROVE  FateKnown'
<1> DEFINE old == Len(feed)
           all == feed \o new
<1>1. feed \in Seq(Change)
    BY DEF CaptchaTypeOK, Change
<1>2. /\ old \in Nat /\ Len(new) \in Nat
      /\ Len(all) = old + Len(new)
      /\ \A j \in 1..old : all[j] = feed[j]
      /\ \A j \in 1..Len(new) : all[old + j] = new[j]
    BY <1>1, LenProperties, ConcatProperties
<1> HIDE DEF all
<1> SUFFICES ASSUME NEW k \in 0..Len(all), k = 0 \/ all[k].event = "insert"
             PROVE  \/ Brought(k)' \in {0, Newest', loaded.id}
                    \/ \E j \in (k + 1)..Len(all) : Settles(all[j], Brought(k)')
    BY DEF FateKnown, Settles, all
<1>3. CASE k \in 0..old
    <2>1. Brought(k)' = Brought(k)
        BY <1>2, <1>3 DEF Brought, all
    <2>2. k = 0 \/ feed[k].event = "insert"
        BY <1>2, <1>3
    <2>3. CASE \E j \in (k + 1)..old : Settles(feed[j], Brought(k))
        <3>1. PICK j \in (k + 1)..old : Settles(feed[j], Brought(k))
            BY <2>3
        <3>2. j \in (k + 1)..Len(all) /\ all[j] = feed[j]
            BY <1>2, <1>3, <3>1
        <3> QED
            BY <2>1, <3>1, <3>2
    <2>4. CASE Brought(k) \in {0, loaded.id}
        BY <2>1, <2>4
    <2>5. CASE Brought(k) = Newest /\ Newest \in {0, Newest', loaded.id}
        BY <2>1, <2>5
    <2>6. CASE Brought(k) = Newest /\ \E j \in 1..Len(new) : Settles(new[j], Newest)
        <3>1. PICK j \in 1..Len(new) : Settles(new[j], Newest)
            BY <2>6
        <3>2. old + j \in (k + 1)..Len(all) /\ all[old + j] = new[j]
            BY <1>2, <1>3, <3>1
        <3> QED
            BY <2>1, <2>6, <3>1, <3>2
    <2> QED
        BY <1>3, <2>2, <2>3, <2>4, <2>5, <2>6 DEF FateKnown
<1>4. CASE k \notin 0..old
    <2> DEFINE j == k - old
    <2>1. j \in 1..Len(new) /\ k = old + j /\ k # 0
        BY <1>2, <1>4
    <2>2. all[k] = new[j]
        BY <1>2, <2>1
    <2>3. Brought(k)' = all[k].row.id
        BY <2>1 DEF Brought, all
    <2> HIDE DEF j
    <2> QED
        BY <2>1, <2>2, <2>3
<1> QED
    BY <1>3, <1>4

\* The window is closed, or shows the captcha it read.
LEMMA FateShown ==
    ASSUME FateKnown, UNCHANGED <<feed, loaded, captcha>>,
           pending'.id \in {0, pending.id, loaded.id}
    PROVE  FateKnown'
<1>1. Newest' = Newest
    BY DEF Newest, GetPending
<1> SUFFICES ASSUME NEW k \in 0..Len(feed), k = 0 \/ feed[k].event = "insert"
             PROVE  \/ Brought(k)' \in {0, Newest, loaded.id}
                    \/ \E j \in (k + 1)..Len(feed) : Settles(feed[j], Brought(k)')
    BY <1>1 DEF FateKnown, Settles
<1>2. CASE k # 0
    <2>1. Brought(k)' = Brought(k)
        BY <1>2 DEF Brought
    <2> QED
        BY <2>1 DEF FateKnown
<1>3. CASE k = 0
    <2>1. Brought(k)' = pending'.id /\ Brought(k) = pending.id
        BY <1>3 DEF Brought
    <2> QED
        BY <2>1 DEF FateKnown
<1> QED
    BY <1>2, <1>3

\* The first change of the feed comes.
LEMMA FateShifts ==
    ASSUME CaptchaTypeOK, FateKnown, ChangeCame
    PROVE  FateKnown'
<1> DEFINE rest == Tail(feed)
           e == Head(feed)
<1>1. feed \in Seq(Change) /\ feed # <<>>
    BY DEF CaptchaTypeOK, Change, ChangeCame
<1>2. /\ e = feed[1] /\ e \in Change
      /\ Len(feed) \in Nat \ {0}
      /\ Len(rest) = Len(feed) - 1
      /\ \A j \in 1..Len(rest) : rest[j] = feed[j + 1]
    BY <1>1, HeadTailProperties
<1>3. feed' = rest /\ UNCHANGED <<captcha, loaded>>
    BY DEF ChangeCame, captchaRows
<1>4. Newest' = Newest
    BY <1>3 DEF Newest, GetPending
<1>5. /\ e.event = "insert" => pending' = e.row
      /\ e.event # "insert" =>
            \/ pending'.id = 0
            \/ pending'.id = pending.id /\ ~Settles(e, pending.id)
    <2>1. CASE e.event = "insert"
        BY <2>1 DEF ChangeCame
    <2>2. CASE e.event = "solved"
        BY <2>2 DEF ChangeCame, NoRow, Settles
    <2>3. CASE e.event = "update"
        BY <2>3 DEF ChangeCame, NoRow, Settles
    <2> QED
        BY <1>2, <2>1, <2>2, <2>3 DEF Change
<1> HIDE DEF rest, e
<1> SUFFICES ASSUME NEW k \in 0..Len(rest), k = 0 \/ rest[k].event = "insert"
             PROVE  \/ Brought(k)' \in {0, Newest, loaded.id}
                    \/ \E j \in (k + 1)..Len(rest) : Settles(rest[j], Brought(k)')
    BY <1>3, <1>4 DEF FateKnown, Settles
<1>6. ASSUME NEW l \in 0..Len(feed), l = 0 \/ feed[l].event = "insert",
             Brought(k)' = Brought(l), l = 0 \/ l = k + 1,
             l = 0 => k = 0 /\ ~Settles(e, Brought(l))
      PROVE  \/ Brought(k)' \in {0, Newest, loaded.id}
             \/ \E j \in (k + 1)..Len(rest) : Settles(rest[j], Brought(k)')
    <2>1. CASE Brought(l) \in {0, Newest, loaded.id}
        BY <1>6, <2>1
    <2>2. CASE \E j \in (l + 1)..Len(feed) : Settles(feed[j], Brought(l))
        <3>1. PICK j \in (l + 1)..Len(feed) : Settles(feed[j], Brought(l))
            BY <2>2
        <3>2. j # 1
            BY <1>2, <1>6, <3>1
        <3>3. j - 1 \in (k + 1)..Len(rest) /\ rest[j - 1] = feed[j]
            BY <1>2, <1>6, <3>1, <3>2
        <3> QED
            BY <1>6, <3>1, <3>3
    <2> QED
        BY <1>6, <2>1, <2>2 DEF FateKnown
<1>7. CASE k # 0
    <2>1. k + 1 \in 0..Len(feed) /\ rest[k] = feed[k + 1] /\ k + 1 # 0
        BY <1>2, <1>7
    <2>2. Brought(k)' = Brought(k + 1)
        BY <1>3, <1>7, <2>1 DEF Brought
    <2> QED
        BY <1>6, <1>7, <2>1, <2>2
<1>8. CASE k = 0 /\ e.event = "insert"
    <2>1. 1 \in 0..Len(feed)
        BY <1>2
    <2>2. Brought(k)' = pending'.id /\ Brought(1) = e.row.id
        BY <1>2, <1>8 DEF Brought
    <2> QED
        BY <1>2, <1>5, <1>6, <1>8, <2>1, <2>2
<1>9. CASE k = 0 /\ e.event # "insert"
    <2>1. Brought(k)' = pending'.id /\ Brought(0) = pending.id /\ 0 \in 0..Len(feed)
        BY <1>2, <1>9 DEF Brought
    <2> QED
        BY <1>5, <1>6, <1>9, <2>1
<1> QED
    BY <1>7, <1>8, <1>9

-----------------------------------------------------------------------------
(* The steps                                                                *)

LEMMA CaptchaInitially ==
    ASSUME CaptchaInit
    PROVE  WindowInv
<1>1. CaptchaTypeOK
    <2>1. NoRow \in CaptchaRow
        BY DEF CaptchaRow
    <2>2. 0 \in 0..MaxPicture /\ 0 \in 0..MaxCaptchaFailures
        BY CaptchaAssumption
    <2>3. /\ captcha \in [Captchas -> {"absent", "open", "solved"}]
          /\ storagePath \in [Captchas -> 0..MaxPicture]
          /\ captchaPosts \in [1..MaxCaptchaPosts -> {"none", "solve", "dismiss", "solved", "done"}]
        BY <2>2 DEF CaptchaInit
    <2>4. /\ solution \in SUBSET Captchas /\ paused \in BOOLEAN /\ browser = "closed" /\ requestId = 0
          /\ feed = <<>> /\ firstRead = "asked" /\ loaded = NoRow /\ pending = NoRow
          /\ imageUrl = NoRow /\ incoming \in SUBSET CaptchaRow /\ typed \in BOOLEAN
          /\ captchaFailures \in 0..MaxCaptchaFailures
        BY <2>2 DEF CaptchaInit
    <2> QED
        BY <2>1, <2>3, <2>4 DEF CaptchaTypeOK
<1>2. RaisedInOrder
    BY DEF CaptchaInit, RaisedInOrder, GetPending
<1>3. NothingBefore
    BY DEF CaptchaInit, NothingBefore
<1>4. FateKnown
    <2>1. Len(feed) = 0 /\ pending.id = 0
        BY DEF CaptchaInit, NoRow
    <2> QED
        BY <2>1 DEF FateKnown, Brought
<1> QED
    BY <1>1, <1>2, <1>3, <1>4 DEF WindowInv

\* What is published joins the feed, or is lost.
LEMMA PublishSteps ==
    ASSUME WindowInv, NEW new \in Seq(Change), Publish(new),
           UNCHANGED <<firstRead, pending, loaded>>,
           \A j \in 1..Len(new) : new[j].event = "insert" => new[j].row.id = Newest',
           Newest \in {0, Newest', loaded.id}
             \/ \E j \in 1..Len(new) : Settles(new[j], Newest)
    PROVE  feed' \in Seq(Change) /\ NothingBefore' /\ FateKnown'
<1>1. feed \in Seq(Change)
    BY DEF WindowInv, CaptchaTypeOK, Change
<1>2. CASE firstRead = "done"
    <2>1. feed' = feed \o new
        BY <1>2 DEF Publish
    <2>2. feed' \in Seq(Change)
        BY <1>1, <2>1, ConcatProperties
    <2>3. FateKnown'
        BY <2>1, FateGrows DEF WindowInv
    <2> QED
        BY <1>2, <2>2, <2>3 DEF NothingBefore
<1>3. CASE firstRead # "done"
    <2>1. feed' = feed
        BY <1>3 DEF Publish
    <2>2. NothingBefore'
        BY <2>1 DEF WindowInv, NothingBefore
    <2> QED
        BY <1>1, <1>3, <2>1, <2>2, FateBefore DEF WindowInv
<1> QED
    BY <1>2, <1>3

LEMMA CreateSteps ==
    ASSUME WindowInv, NEW c \in Captchas, CreateRequest(c)
    PROVE  WindowInv'
<1> USE DEF WindowInv
<1>1. PICK shot \in {0, 1} \cap 0..MaxPicture :
            /\ storagePath' = [storagePath EXCEPT ![c] = shot]
            /\ Publish(<<[row |-> [id |-> c, path |-> shot], event |-> "insert"]>>)
    BY DEF CreateRequest
<1> DEFINE e == [row |-> [id |-> c, path |-> shot], event |-> "insert"]
           new == <<e>>
<1>2. /\ captcha \in [Captchas -> {"absent", "open", "solved"}]
      /\ captcha' = [captcha EXCEPT ![c] = "open"]
      /\ captcha[c] = "absent"
      /\ \A d \in Captchas : d < c => captcha[d] # "absent"
    BY DEF CreateRequest, CaptchaTypeOK
<1>3. \A d \in Captchas : captcha[d] # "absent" => d < c
    <2> TAKE d \in Captchas
    <2>1. d \in Nat /\ c \in Nat
        BY CaptchaAssumption
    <2>2. c < d /\ captcha[d] # "absent" => captcha[c] # "absent"
        BY DEF RaisedInOrder
    <2> QED
        BY <1>2, <2>1, <2>2
<1>4. RaisedInOrder'
    <2>1. \A d, f \in Captchas : d < f /\ captcha'[f] # "absent" => captcha'[d] # "absent"
        BY <1>2, <1>3 DEF RaisedInOrder
    <2>2. c \in Nat /\ c <= c
        BY CaptchaAssumption
    <2>3. \A d \in Captchas : captcha'[d] # "absent" => d <= c
        <3> TAKE d \in Captchas
        <3>1. d \in Nat /\ c \in Nat
            BY CaptchaAssumption
        <3> QED
            BY <1>2, <1>3, <3>1
    <2>4. c \in GetPending'
        BY <1>2 DEF GetPending
    <2> QED
        BY <2>1, <2>3, <2>4 DEF RaisedInOrder
<1>5. CaptchaTypeOK' <=> feed' \in Seq(Change)
    <2>1. storagePath' \in [Captchas -> 0..MaxPicture]
        BY <1>1 DEF CaptchaTypeOK
    <2> QED
        BY <1>2, <2>1 DEF CaptchaTypeOK, CreateRequest, modalVars, Change
<1>6. Newest' = c
    <2>1. c \in GetPending'
        BY <1>2 DEF GetPending
    <2>2. \A d \in GetPending' : d <= c
        <3> TAKE d \in GetPending'
        <3>1. d \in Nat /\ c \in Nat /\ d \in Captchas
            BY CaptchaAssumption DEF GetPending
        <3>2. captcha'[d] = "open"
            BY DEF GetPending
        <3> QED
            BY <1>2, <1>3, <3>1, <3>2
    <2>3. GetPending' \in SUBSET Nat
        BY CaptchaAssumption DEF GetPending
    <2>4. \A S \in SUBSET Nat : c \in S /\ (\A d \in S : d <= c) => Max(S) = c
        BY MaxIs
    <2> QED
        BY <2>1, <2>2, <2>3, <2>4 DEF Newest
<1>7. new \in Seq(Change) /\ Len(new) = 1 /\ new[1] = e
    BY <1>1 DEF Change, CaptchaRow
<1>8. Publish(new)
    BY <1>1
<1>9. UNCHANGED <<firstRead, pending, loaded>>
    BY DEF CreateRequest, modalVars
<1>10. e.event = "insert" /\ e.row.id = c
    OBVIOUS
<1> HIDE DEF e, new
<1>11. \A j \in 1..Len(new) : new[j].event = "insert" => new[j].row.id = Newest'
    BY <1>6, <1>7, <1>10
<1>12. Settles(new[1], Newest)
    BY <1>7, <1>10 DEF Settles
<1>13. \E j \in 1..Len(new) : Settles(new[j], Newest)
    BY <1>7, <1>12
<1>14. feed' \in Seq(Change) /\ NothingBefore' /\ FateKnown'
    BY <1>7, <1>8, <1>9, <1>11, <1>13, PublishSteps
<1> QED
    BY <1>4, <1>5, <1>14

\* The rows solved: RaisedInOrder speaks of the ones that were raised.
LEMMA MarkSteps ==
    ASSUME WindowInv, MarkSolved, UNCHANGED <<firstRead, pending, loaded>>
    PROVE  /\ captcha' \in [Captchas -> {"absent", "open", "solved"}]
           /\ feed' \in Seq(Change)
           /\ RaisedInOrder' /\ NothingBefore' /\ FateKnown'
<1> USE DEF WindowInv
<1>1. /\ captcha \in [Captchas -> {"absent", "open", "solved"}]
      /\ captcha' = [c \in Captchas |-> IF captcha[c] = "open" THEN "solved" ELSE captcha[c]]
    BY DEF MarkSolved, CaptchaTypeOK
<1>2. captcha' \in [Captchas -> {"absent", "open", "solved"}]
    BY <1>1
<1>3. GetPending' = {} /\ Newest' = 0
    BY <1>1 DEF GetPending, Newest
<1>4. RaisedInOrder'
    <2>1. \A c \in Captchas : captcha'[c] # "absent" <=> captcha[c] # "absent"
        BY <1>1
    <2>2. PICK m \in Captchas \cup {0} :
                \A c \in Captchas : captcha[c] # "absent" => c <= m
        BY DEF RaisedInOrder
    <2>3. \A c, d \in Captchas : c < d /\ captcha'[d] # "absent" => captcha'[c] # "absent"
        BY <2>1 DEF RaisedInOrder
    <2> QED
        BY <1>3, <2>1, <2>2, <2>3 DEF RaisedInOrder
<1>5. PICK new \in Seq(Change) :
            /\ Publish(new)
            /\ \A i \in DOMAIN new : new[i].event = "solved"
            /\ \A c \in GetPending : \E i \in DOMAIN new : new[i].row.id = c
    BY MarkedChanges
<1>6. DOMAIN new = 1..Len(new)
    BY <1>5, LenProperties
<1>7. \A j \in 1..Len(new) : new[j].event = "insert" => new[j].row.id = Newest'
    BY <1>5, <1>6
<1>8. Newest \in {0, Newest', loaded.id} \/ \E j \in 1..Len(new) : Settles(new[j], Newest)
    <2>1. CASE GetPending = {}
        BY <2>1 DEF Newest
    <2>2. CASE GetPending # {}
        <3>1. Newest \in GetPending
            BY <2>2, PendingFinite
        <3> QED
            BY <1>5, <1>6, <3>1 DEF Settles
    <2> QED
        BY <2>1, <2>2
<1>9. feed' \in Seq(Change) /\ NothingBefore' /\ FateKnown'
    BY <1>5, <1>7, <1>8, PublishSteps
<1> QED
    BY <1>2, <1>4, <1>9

LEMMA AttachSteps ==
    ASSUME WindowInv, NEW c, c \in Captchas \cup {0}, AttachScreenshot(c),
           UNCHANGED <<captcha, firstRead, pending, loaded>>
    PROVE  /\ storagePath' \in [Captchas -> 0..MaxPicture]
           /\ captchaFailures' \in 0..MaxCaptchaFailures
           /\ feed' \in Seq(Change)
           /\ NothingBefore' /\ FateKnown'
<1> USE DEF WindowInv
<1>1. /\ feed \in Seq(Change) /\ captchaFailures \in 0..MaxCaptchaFailures
      /\ storagePath \in [Captchas -> 0..MaxPicture]
    BY DEF CaptchaTypeOK, Change
<1>2. Newest' = Newest
    BY DEF Newest, GetPending
<1>3. CASE UNCHANGED <<feed, storagePath>> /\ captchaFailures' \in 0..MaxCaptchaFailures
    <2>1. NothingBefore'
        BY <1>3 DEF NothingBefore
    <2>2. FateKnown'
        BY <1>3, FateShown
    <2> QED
        BY <1>1, <1>3, <2>1, <2>2
<1>4. CASE c = 0
    BY <1>1, <1>3, <1>4 DEF AttachScreenshot
<1>5. CASE c # 0 /\ CaptchaFails /\ UNCHANGED <<storagePath, feed>>
    <2>1. captchaFailures' \in 0..MaxCaptchaFailures
        BY <1>1, <1>5, CaptchaAssumption DEF CaptchaFails
    <2> QED
        BY <1>3, <1>5, <2>1
<1>6. CASE /\ c # 0 /\ storagePath[c] < MaxPicture
           /\ storagePath' = [storagePath EXCEPT ![c] = @ + 1]
           /\ Publish(<<[row |-> [id |-> c, path |-> storagePath[c] + 1],
                          event |-> IF captcha[c] = "open" THEN "update" ELSE "solved"]>>)
           /\ UNCHANGED captchaFailures
    <2>1. PICK e \in Change :
                Publish(<<e>>) /\ e.event # "insert"
        <3>1. storagePath[c] + 1 \in 0..MaxPicture /\ c \in Captchas
            BY <1>1, <1>6, CaptchaAssumption
        <3>2. [row |-> [id |-> c, path |-> storagePath[c] + 1],
               event |-> IF captcha[c] = "open" THEN "update" ELSE "solved"] \in Change
            BY <3>1 DEF Change, CaptchaRow
        <3> QED
            BY <1>6, <3>2
    <2> DEFINE new == <<e>>
    <2>2. new \in Seq(Change) /\ Len(new) = 1 /\ new[1] = e /\ Publish(new)
        BY <2>1
    <2> HIDE DEF new
    <2>3. \A j \in 1..Len(new) : new[j].event = "insert" => new[j].row.id = Newest'
        BY <2>1, <2>2
    <2>4. feed' \in Seq(Change) /\ NothingBefore' /\ FateKnown'
        BY <1>2, <2>2, <2>3, PublishSteps
    <2>5. storagePath' \in [Captchas -> 0..MaxPicture]
        BY <1>1, <1>6, CaptchaAssumption
    <2> QED
        BY <1>1, <1>6, <2>4, <2>5
<1> QED
    BY <1>4, <1>5, <1>6 DEF AttachScreenshot

\* The other steps change no captcha: the feed, the window and the requests.
LEMMA QuietSteps ==
    ASSUME WindowInv, CaptchaTypeOK', UNCHANGED <<captcha, feed, loaded>>,
           firstRead' # "done" => firstRead # "done",
           pending'.id \in {0, pending.id, loaded.id},
           firstRead' # "done" => pending' = NoRow
    PROVE  WindowInv'
<1>1. RaisedInOrder'
    BY DEF WindowInv, RaisedInOrder, GetPending
<1>2. NothingBefore'
    BY DEF WindowInv, NothingBefore
<1>3. FateKnown'
    BY FateShown DEF WindowInv
<1> QED
    BY <1>1, <1>2, <1>3 DEF WindowInv

LEMMA WindowSteps ==
    ASSUME WindowInv, [CaptchaNext]_captchaVars
    PROVE  WindowInv'
<1> USE DEF WindowInv
<1>0. /\ captcha \in [Captchas -> {"absent", "open", "solved"}]
      /\ storagePath \in [Captchas -> 0..MaxPicture] /\ solution \in SUBSET Captchas
      /\ paused \in BOOLEAN /\ browser \in {"closed", "open", "submitting"}
      /\ requestId \in Captchas \cup {0}
      /\ feed \in Seq(Change)
      /\ firstRead \in {"asked", "read", "done"} /\ loaded \in CaptchaRow
      /\ pending \in CaptchaRow /\ imageUrl \in CaptchaRow /\ incoming \in SUBSET CaptchaRow
      /\ typed \in BOOLEAN
      /\ captchaPosts \in [1..MaxCaptchaPosts -> {"none", "solve", "dismiss", "solved", "done"}]
      /\ captchaFailures \in 0..MaxCaptchaFailures
    BY DEF CaptchaTypeOK, Change
<1>a. NoRow \in CaptchaRow /\ NoRow.id = 0
    BY DEF CaptchaRow, NoRow
<1>b. Newest \in Captchas \cup {0}
    BY PendingFinite DEF Newest, GetPending
<1>c. CaptchaFails => captchaFailures' \in 0..MaxCaptchaFailures
    BY <1>0, CaptchaAssumption DEF CaptchaFails
<1>d. firstRead # "done" => pending = NoRow
    BY DEF NothingBefore
<1>1. ASSUME UNCHANGED captchaVars
      PROVE  WindowInv'
    <2>1. CaptchaTypeOK'
        BY <1>0, <1>1 DEF captchaVars, captchaRows, pauseVars, modalVars, CaptchaTypeOK, Change
    <2> QED
        BY <1>1, <1>d, <2>1, QuietSteps DEF captchaVars, captchaRows, pauseVars, modalVars
<1>2. ASSUME NEW c \in Captchas, CreateRequest(c)
      PROVE  WindowInv'
    BY <1>2, CreateSteps
<1>3. ASSUME MarkSolved, UNCHANGED <<storagePath, solution, modalVars>>,
             paused' \in BOOLEAN, browser' \in {"closed", "open", "submitting"},
             requestId' \in Captchas \cup {0},
             captchaPosts' \in [1..MaxCaptchaPosts -> {"none", "solve", "dismiss", "solved", "done"}],
             captchaFailures' \in 0..MaxCaptchaFailures
      PROVE  WindowInv'
    <2>1. UNCHANGED <<firstRead, pending, loaded, imageUrl, incoming, typed>>
        BY <1>3 DEF modalVars
    <2>2. /\ captcha' \in [Captchas -> {"absent", "open", "solved"}]
          /\ feed' \in Seq(Change)
          /\ RaisedInOrder' /\ NothingBefore' /\ FateKnown'
        BY <1>3, <2>1, MarkSteps
    <2>3. CaptchaTypeOK'
        BY <1>0, <1>3, <2>1, <2>2 DEF CaptchaTypeOK, Change
    <2> QED
        BY <2>2, <2>3
<1>4. ASSUME NEW c, c \in Captchas \cup {0}, AttachScreenshot(c),
             UNCHANGED <<captcha, solution, modalVars, paused, captchaPosts>>,
             browser' \in {"closed", "open", "submitting"}, requestId' \in Captchas \cup {0}
      PROVE  WindowInv'
    <2>1. UNCHANGED <<firstRead, pending, loaded, imageUrl, incoming, typed>>
        BY <1>4 DEF modalVars
    <2>2. /\ storagePath' \in [Captchas -> 0..MaxPicture]
          /\ captchaFailures' \in 0..MaxCaptchaFailures
          /\ feed' \in Seq(Change)
          /\ NothingBefore' /\ FateKnown'
        BY <1>4, <2>1, AttachSteps
    <2>3. RaisedInOrder'
        BY <1>4 DEF RaisedInOrder, GetPending
    <2>4. CaptchaTypeOK'
        BY <1>0, <1>4, <2>1, <2>2 DEF CaptchaTypeOK, Change
    <2> QED
        BY <2>2, <2>3, <2>4
<1>5. ASSUME OpenFor
      PROVE  WindowInv'
    <2>1. ASSUME AttachScreenshot(Newest), browser' = "open", UNCHANGED <<captcha, paused>>
          PROVE  WindowInv'
        BY <1>4, <1>5, <1>b, <2>1 DEF OpenFor
    <2>2. ASSUME ResumeFromCaptcha, UNCHANGED <<storagePath, captchaFailures>>
          PROVE  WindowInv'
        BY <1>0, <1>3, <1>5, <1>b, <2>2 DEF OpenFor, ResumeFromCaptcha
    <2> QED
        BY <1>5, <2>1, <2>2 DEF OpenFor
<1>6. ASSUME SubmitFor
      PROVE  WindowInv'
    <2>1. ASSUME AttachScreenshot(requestId), browser' = "open", UNCHANGED <<captcha, paused>>
          PROVE  WindowInv'
        BY <1>0, <1>4, <1>6, <2>1 DEF SubmitFor
    <2>2. ASSUME ResumeFromCaptcha, UNCHANGED <<storagePath, captchaFailures>>
          PROVE  WindowInv'
        BY <1>0, <1>3, <1>6, <2>2 DEF SubmitFor, ResumeFromCaptcha
    <2> QED
        BY <1>6, <2>1, <2>2 DEF SubmitFor
<1>7. ASSUME TakeSolution \/ IdleTimeout \/ WorkerRestarted
      PROVE  WindowInv'
    <2>1. CaptchaTypeOK'
        BY <1>0, <1>7
           DEF TakeSolution, IdleTimeout, WorkerRestarted, captchaRows, modalVars, CaptchaTypeOK, Change
    <2>2. UNCHANGED <<captcha, feed, loaded, firstRead, pending>>
        BY <1>7 DEF TakeSolution, IdleTimeout, WorkerRestarted, captchaRows, modalVars
    <2> QED
        BY <1>d, <2>1, <2>2, QuietSteps
<1>8. ASSUME LoadPending
      PROVE  WindowInv'
    <2>1. loaded' \in CaptchaRow
        <3>1. Newest # 0 => RowOf(Newest) \in CaptchaRow
            BY <1>0, <1>b DEF RowOf, CaptchaRow
        <3> QED
            BY <1>8, <1>a, <3>1 DEF LoadPending
    <2>2. CaptchaTypeOK'
        BY <1>0, <1>8, <2>1 DEF LoadPending, captchaRows, pauseVars, CaptchaTypeOK, Change
    <2>3. RaisedInOrder'
        BY <1>8 DEF LoadPending, captchaRows, RaisedInOrder, GetPending
    <2>4. NothingBefore'
        BY <1>8 DEF LoadPending, NothingBefore
    <2>5. firstRead' # "done"
        BY <1>8 DEF LoadPending
    <2> QED
        BY <2>2, <2>3, <2>4, <2>5, FateBefore
<1>9. ASSUME Subscribe
      PROVE  WindowInv'
    <2>1. CASE pending' = loaded /\ RefreshImage(loaded) /\ UNCHANGED captchaFailures
        <3>1. CaptchaTypeOK'
            BY <1>0, <1>9, <1>a, <2>1
               DEF Subscribe, RefreshImage, captchaRows, pauseVars, CaptchaTypeOK, Change
        <3> QED
            BY <1>9, <2>1, <3>1, QuietSteps DEF Subscribe, captchaRows
    <2>2. CASE CaptchaFails /\ UNCHANGED <<pending, imageUrl, incoming>>
        <3>1. CaptchaTypeOK'
            BY <1>0, <1>9, <1>c, <2>2
               DEF Subscribe, captchaRows, pauseVars, CaptchaTypeOK, Change
        <3> QED
            BY <1>9, <2>2, <3>1, QuietSteps DEF Subscribe, captchaRows
    <2> QED
        BY <1>9, <2>1, <2>2 DEF Subscribe
<1>10. ASSUME ChangeCame
       PROVE  WindowInv'
    <2> DEFINE e == Head(feed)
               rest == Tail(feed)
    <2>1. e \in Change /\ rest \in Seq(Change)
        BY <1>0, <1>10, HeadTailProperties DEF ChangeCame
    <2>2. feed' = rest /\ UNCHANGED <<captchaRows, pauseVars, firstRead, loaded, typed, captchaPosts, captchaFailures>>
        BY <1>10 DEF ChangeCame
    <2>3. /\ pending' \in CaptchaRow /\ imageUrl' \in CaptchaRow
          /\ incoming' \in SUBSET CaptchaRow
        <3>0. e.row \in CaptchaRow /\ e.event \in {"insert", "update", "solved"}
            BY <2>1 DEF Change
        <3>1. CASE e.event = "insert"
            BY <1>0, <1>10, <1>a, <3>0, <3>1 DEF ChangeCame, RefreshImage
        <3>2. CASE e.event = "solved"
            BY <1>0, <1>10, <1>a, <3>0, <3>2 DEF ChangeCame
        <3>3. CASE e.event = "update"
            BY <1>0, <1>10, <1>a, <3>0, <3>3 DEF ChangeCame
        <3> QED
            BY <3>0, <3>1, <3>2, <3>3
    <2>4. firstRead = "done"
        BY <1>10 DEF ChangeCame, NothingBefore
    <2>5. CaptchaTypeOK'
        BY <1>0, <2>1, <2>2, <2>3 DEF captchaRows, pauseVars, CaptchaTypeOK, Change
    <2>6. RaisedInOrder' /\ NothingBefore'
        BY <2>2, <2>4 DEF captchaRows, RaisedInOrder, GetPending, NothingBefore
    <2>7. FateKnown'
        BY <1>10, FateShifts
    <2> QED
        BY <2>5, <2>6, <2>7
<1>11. ASSUME NEW picture \in incoming, PictureCame(picture)
       PROVE  WindowInv'
    <2>1. CaptchaTypeOK'
        BY <1>0, <1>11, <1>a, <1>c DEF PictureCame, captchaRows, pauseVars, CaptchaTypeOK, Change
    <2>2. UNCHANGED <<captcha, feed, loaded, firstRead, pending>>
        BY <1>11 DEF PictureCame, captchaRows
    <2> QED
        BY <1>d, <2>1, <2>2, QuietSteps
<1>12. ASSUME TypeAnswer
       PROVE  WindowInv'
    <2>1. CaptchaTypeOK'
        BY <1>0, <1>12 DEF TypeAnswer, captchaRows, pauseVars, CaptchaTypeOK, Change
    <2>2. UNCHANGED <<captcha, feed, loaded, firstRead, pending>>
        BY <1>12 DEF TypeAnswer, captchaRows
    <2> QED
        BY <1>d, <2>1, <2>2, QuietSteps
<1>13. ASSUME NEW i \in 1..MaxCaptchaPosts, HandleSolve(i) \/ SolveServed(i) \/ SolveAnswered(i)
       PROVE  WindowInv'
    <2>1. captchaPosts' \in [1..MaxCaptchaPosts -> {"none", "solve", "dismiss", "solved", "done"}]
        BY <1>0, <1>13 DEF HandleSolve, SolveServed, SolveAnswered, PostCaptcha
    <2>2. solution' \in SUBSET Captchas /\ captchaFailures' \in 0..MaxCaptchaFailures
          /\ typed' \in BOOLEAN
        BY <1>0, <1>13, <1>c
           DEF HandleSolve, SolveServed, SolveAnswered, captchaRows, modalVars, GetPending
    <2>3. UNCHANGED <<captcha, storagePath, pauseVars, feed, loaded, firstRead, pending, imageUrl, incoming>>
        BY <1>13 DEF HandleSolve, SolveServed, SolveAnswered, captchaRows, modalVars
    <2>4. CaptchaTypeOK'
        BY <1>0, <2>1, <2>2, <2>3 DEF pauseVars, CaptchaTypeOK, Change
    <2> QED
        BY <1>d, <2>3, <2>4, QuietSteps
<1>14. ASSUME NEW i \in 1..MaxCaptchaPosts, HandleDismiss(i)
       PROVE  WindowInv'
    <2>1. captchaPosts' \in [1..MaxCaptchaPosts -> {"none", "solve", "dismiss", "solved", "done"}]
        BY <1>0, <1>14 DEF HandleDismiss, PostCaptcha
    <2>2. CaptchaTypeOK'
        BY <1>0, <1>14, <1>a, <2>1 DEF HandleDismiss, captchaRows, pauseVars, CaptchaTypeOK, Change
    <2> QED
        BY <1>14, <1>a, <2>2, QuietSteps DEF HandleDismiss, captchaRows
<1>15. ASSUME NEW i \in 1..MaxCaptchaPosts, DismissServed(i)
       PROVE  WindowInv'
    <2>1. captchaPosts' \in [1..MaxCaptchaPosts -> {"none", "solve", "dismiss", "solved", "done"}]
        BY <1>0, <1>15 DEF DismissServed
    <2>2. ASSUME MarkSolved, UNCHANGED captchaFailures
          PROVE  WindowInv'
        BY <1>0, <1>3, <1>15, <2>1, <2>2 DEF DismissServed, pauseVars
    <2>3. ASSUME CaptchaFails, UNCHANGED <<captcha, feed>>
          PROVE  WindowInv'
        <3>1. CaptchaTypeOK'
            BY <1>0, <1>15, <1>c, <2>1, <2>3 DEF DismissServed, pauseVars, modalVars, CaptchaTypeOK, Change
        <3>2. UNCHANGED <<captcha, feed, loaded, firstRead, pending>>
            BY <1>15, <2>3 DEF DismissServed, modalVars
        <3> QED
            BY <1>d, <3>1, <3>2, QuietSteps
    <2> QED
        BY <1>15, <2>2, <2>3 DEF DismissServed
<1> QED
    BY <1>1, <1>2, <1>5, <1>6, <1>7, <1>8, <1>9, <1>10, <1>11, <1>12, <1>13, <1>14, <1>15
       DEF CaptchaNext

\* CaptchaTypeOK: every variable of the captcha window's model has its type.
THEOREM CaptchaTypeCorrect == CaptchaSpec => []CaptchaTypeOK
<1>1. CaptchaInit => WindowInv
    BY CaptchaInitially
<1>2. WindowInv /\ [CaptchaNext]_captchaVars => WindowInv'
    BY WindowSteps
<1>3. WindowInv => CaptchaTypeOK
    BY DEF WindowInv
<1> QED
    BY <1>1, <1>2, <1>3, PTL DEF CaptchaSpec

\* WindowIsCurrent: once every change has come, the captcha window shows the
\* newest open captcha, none, or the one it read before it subscribed, however
\* captchas are raised, solved, dismissed and given up, in any number.
THEOREM WindowCurrent == CaptchaSpec => []WindowIsCurrent
<1>1. CaptchaInit => WindowInv
    BY CaptchaInitially
<1>2. WindowInv /\ [CaptchaNext]_captchaVars => WindowInv'
    BY WindowSteps
<1>3. WindowInv => WindowIsCurrent
    <2> SUFFICES ASSUME WindowInv, feed = <<>>
                 PROVE  pending.id \in {0, Newest, loaded.id}
        BY DEF WindowIsCurrent
    <2>1. Len(feed) = 0
        OBVIOUS
    <2> QED
        BY <2>1 DEF WindowInv, FateKnown, Brought
<1> QED
    BY <1>1, <1>2, <1>3, PTL DEF CaptchaSpec

-----------------------------------------------------------------------------
(* The vacancies page (Vacancies).  A decision that was checked against one  *)
(* status is written only over that status, and no decision's check admits a *)
(* vacancy that is approved, queued or being sent (AskFits, OutcomesFit).    *)

RowMaps == UNION {[S -> PipelineRow] : S \in SUBSET Vacancies}
Listing == [under : [tab : UsedTabs, pageNo : Nat], stage : {"asked", "read"}, found : RowMaps]

\* A request is about the row it was clicked on, unless it is the page's own;
\* its handler read only rows it may change, and answers for what it was asked.
AskFits(a) ==
    /\ a.op \notin BulkOps => \E v \in Vacancies : a.ids = {v}
    /\ a.stage = "read" => \A v \in DOMAIN a.read : a.read[v].status \in Permitted(a.op)
    /\ a.stage = "ok" => DOMAIN a.row = a.ids
FitAsk == {a \in Ask : AskFits(a)}

ListInv ==
    /\ tab \in UsedTabs /\ pageNo \in Nat
    /\ rows \in RowMaps /\ skeleton \in BOOLEAN /\ (skeleton => rows = NoRows)
    /\ listings \in Seq(Listing)
    /\ editors \in [Vacancies -> Editor]
    /\ loadsMade \in 0..MaxLoads

ClickInv ==
    /\ ticked \in SUBSET Vacancies
    /\ busyId \in VacancyIds /\ details \in VacancyIds /\ rejecting \in VacancyIds
    /\ maintenance \in BOOLEAN

AsksInv == asks \in Seq(FitAsk) /\ asked \in 0..MaxAsks

VacanciesInv ==
    /\ pipeline \in [Vacancies -> PipelineRow]
    /\ background \in 0..MaxBackground
    /\ ListInv
    /\ ClickInv
    /\ AsksInv

-----------------------------------------------------------------------------
(* Rows, requests and sequences of them                                     *)

LEMMA Shortened ==
    ASSUME NEW S, NEW s \in Seq(S), NEW i \in DOMAIN s
    PROVE  RemoveAt(s, i) \in Seq(S)
<1>1. Len(s) \in Nat /\ i \in 1..Len(s)
    OBVIOUS
<1>2. SubSeq(s, 1, i - 1) \in Seq(S) /\ SubSeq(s, i + 1, Len(s)) \in Seq(S)
    BY <1>1, SubSeqProperties
<1> QED
    BY <1>2, ConcatProperties DEF RemoveAt

LEMMA Changed ==
    ASSUME NEW S, NEW s \in Seq(S), NEW i \in DOMAIN s, NEW e \in S
    PROVE  [s EXCEPT ![i] = e] \in Seq(S)
BY ExceptSeq

LEMMA RowMap ==
    ASSUME NEW S \in SUBSET Vacancies, NEW f, f = [v \in S |-> f[v]],
           \A v \in S : f[v] \in PipelineRow
    PROVE  f \in RowMaps
<1>1. f \in [S -> PipelineRow]
    OBVIOUS
<1> QED
    BY <1>1 DEF RowMaps

LEMMA RowMapHas ==
    ASSUME NEW f \in RowMaps
    PROVE  /\ DOMAIN f \in SUBSET Vacancies
           /\ f = [v \in DOMAIN f |-> f[v]]
           /\ \A v \in DOMAIN f : f[v] \in PipelineRow
BY DEF RowMaps

LEMMA NoRowsIs == NoRows \in RowMaps /\ DOMAIN NoRows = {}
<1>1. DOMAIN NoRows = {} /\ NoRows = [v \in {} |-> NoRows[v]]
    BY DEF NoRows
<1> QED
    BY <1>1, RowMap

LEMMA AskHas ==
    ASSUME NEW a \in FitAsk
    PROVE  /\ a.op \in Ops /\ a.ids \in SUBSET Vacancies
           /\ a.under \in [tab : UsedTabs, pageNo : Nat]
           /\ a.mount \in Nat /\ a.text \in Letters
           /\ a.stage \in {"asked", "read", "ok", "error"}
           /\ a.read \in RowMaps /\ a.row \in RowMaps
           /\ AskFits(a)
BY DEF FitAsk, Ask, RowMaps

LEMMA AskIs ==
    ASSUME NEW op \in Ops, NEW ids \in SUBSET Vacancies,
           NEW under \in [tab : UsedTabs, pageNo : Nat],
           NEW mount \in Nat, NEW words \in Letters,
           NEW stage \in {"asked", "read", "ok", "error"},
           NEW read \in RowMaps, NEW answer \in RowMaps,
           op \notin BulkOps => \E v \in Vacancies : ids = {v},
           stage = "read" => \A v \in DOMAIN read : read[v].status \in Permitted(op),
           stage = "ok" => DOMAIN answer = ids
    PROVE  [op |-> op, ids |-> ids, under |-> under, mount |-> mount, text |-> words,
            stage |-> stage, read |-> read, row |-> answer] \in FitAsk
<1> DEFINE a == [op |-> op, ids |-> ids, under |-> under, mount |-> mount, text |-> words,
                 stage |-> stage, read |-> read, row |-> answer]
<1>1. a \in Ask
    BY DEF Ask, RowMaps
<1>2. a.op = op /\ a.ids = ids /\ a.stage = stage /\ a.read = read /\ a.row = answer
    OBVIOUS
<1> HIDE DEF a
<1>3. AskFits(a)
    BY <1>2 DEF AskFits
<1> QED
    BY <1>1, <1>3 DEF FitAsk, a

\* A request whose handler has read ...
LEMMA AskRead ==
    ASSUME NEW a \in FitAsk,
           NEW stage \in {"read", "error"}, NEW read \in RowMaps,
           \A v \in DOMAIN read : read[v].status \in Permitted(a.op)
    PROVE  [a EXCEPT !.stage = stage, !.read = read] \in FitAsk
<1> DEFINE b == [a EXCEPT !.stage = stage, !.read = read]
<1>1. a \in Ask
    BY DEF FitAsk
<1>2. b \in Ask
    BY <1>1 DEF Ask, RowMaps
<1>3. b.op = a.op /\ b.ids = a.ids /\ b.stage = stage /\ b.read = read
    BY <1>1 DEF Ask
<1> HIDE DEF b
<1>4. AskFits(b)
    BY <1>3, AskHas DEF AskFits
<1> QED
    BY <1>2, <1>4 DEF FitAsk, b

\* ... and written, and which is read again for its answer.
LEMMA AskWrote ==
    ASSUME NEW a \in FitAsk,
           NEW stage \in {"ok", "error"}, NEW answer \in RowMaps, DOMAIN answer = a.ids
    PROVE  [a EXCEPT !.stage = stage, !.row = answer] \in FitAsk
<1> DEFINE b == [a EXCEPT !.stage = stage, !.row = answer]
<1>1. a \in Ask
    BY DEF FitAsk
<1>2. b \in Ask
    BY <1>1 DEF Ask, RowMaps
<1>3. b.op = a.op /\ b.ids = a.ids /\ b.stage = stage /\ b.row = answer
    BY <1>1 DEF Ask
<1> HIDE DEF b
<1>4. AskFits(b)
    BY <1>3, AskHas DEF AskFits
<1> QED
    BY <1>2, <1>4 DEF FitAsk, b

LEMMA AskReadAgain ==
    ASSUME NEW a \in FitAsk,
           NEW answer \in RowMaps, a.stage = "ok", DOMAIN answer = a.ids
    PROVE  [a EXCEPT !.row = answer] \in FitAsk
<1> DEFINE b == [a EXCEPT !.row = answer]
<1>1. a \in Ask
    BY DEF FitAsk
<1>2. b \in Ask
    BY <1>1 DEF Ask, RowMaps
<1>3. b.op = a.op /\ b.ids = a.ids /\ b.stage = "ok" /\ b.row = answer
    BY <1>1 DEF Ask
<1> HIDE DEF b
<1>4. AskFits(b)
    BY <1>3, AskHas DEF AskFits
<1> QED
    BY <1>2, <1>4 DEF FitAsk, b

\* What a handler writes over the status it read.
LEMMA OutcomesFit ==
    ASSUME NEW a \in FitAsk, a.stage = "read", NEW v \in DOMAIN a.read,
           pipeline[v] \in PipelineRow, pipeline[v].status = a.read[v].status,
           NEW r, r \in Outcomes(a, v)
    PROVE  /\ r \in PipelineRow
           /\ pipeline[v].status \in {"approved", "queued_to_send", "sending", "sent"}
                => r.status \notin Undecided
<1> DEFINE p == pipeline[v]
<1>1. p \in PipelineRow /\ p.status \in Permitted(a.op) /\ a.op \in Ops /\ a.text \in Letters
    BY AskHas DEF AskFits
<1>2. /\ p.status \in Statuses /\ p.letter \in Letters /\ p.approved \in Letters
      /\ \A s \in Statuses : /\ [p EXCEPT !.status = s] \in PipelineRow
                             /\ [p EXCEPT !.status = s].status = s
    BY <1>1 DEF PipelineRow
<1>3. DOMAIN Decisions = {"select", "reject", "hold", "review", "archive"}
    BY DEF Decisions
<1>4. CASE a.op \in DOMAIN Decisions
    <2>1. r = [p EXCEPT !.status = Decisions[a.op]]
        BY <1>3, <1>4 DEF Outcomes, Written
    <2>2. Decisions[a.op] \in Statuses
        BY <1>3, <1>4 DEF Decisions, Statuses, Unscored, SelectedLike
    <2>3. p.status \notin {"approved", "queued_to_send", "sending", "sent"}
        BY <1>1, <1>3, <1>4 DEF Permitted, Archivable, Unscored
    <2> QED
        BY <1>2, <2>1, <2>2, <2>3
<1>5. CASE a.op = "bulkArchive"
    <2>1. r = [p EXCEPT !.status = "archived"]
        BY <1>3, <1>5 DEF Outcomes, Written
    <2>2. "archived" \in Statuses
        BY DEF Statuses
    <2> QED
        BY <1>2, <2>1, <2>2 DEF Undecided
<1>6. CASE a.op \in {"generate", "save"}
    <2>1. r.status = "letter_draft" /\ r \in PipelineRow
        BY <1>1, <1>3, <1>6
           DEF Outcomes, Written, PipelineRow, Statuses, Letters, SelectedLike
    <2> QED
        BY <2>1 DEF Undecided
<1>7. CASE a.op = "approve"
    <2>1. r = [p EXCEPT !.status = "approved", !.approved = p.letter]
        BY <1>3, <1>7 DEF Outcomes, Written
    <2>2. r.status = "approved" /\ r \in PipelineRow
        BY <1>1, <1>2, <2>1 DEF PipelineRow, Statuses, SelectedLike
    <2> QED
        BY <2>2 DEF Undecided
<1>8. CASE a.op \in {"queue", "cancel"}
    <2>1. \E s \in {"approved", "queued_to_send"} : r = [p EXCEPT !.status = s]
        BY <1>3, <1>8 DEF Outcomes, Written
    <2>2. {"approved", "queued_to_send"} \subseteq Statuses
        BY DEF Statuses, SelectedLike
    <2> QED
        BY <1>2, <2>1, <2>2 DEF Undecided
<1>9. CASE a.op = "enrich"
    <2>1. r = p \/ r = [p EXCEPT !.status = "archived"]
        BY <1>9 DEF Outcomes
    <2>2. "archived" \in Statuses
        BY DEF Statuses
    <2> QED
        BY <1>1, <1>2, <2>1, <2>2 DEF Undecided
<1>10. CASE a.op = "retryIncomplete"
    <2>1. r = p \/ \E s \in {"review", "score_error", "rejected_by_rule", "archived"} :
                     r = [p EXCEPT !.status = s]
        BY <1>10 DEF Outcomes
    <2>2. {"review", "score_error", "rejected_by_rule", "archived"} \subseteq Statuses
        BY DEF Statuses, Unscored
    <2>3. p.status \notin {"approved", "queued_to_send", "sending", "sent"}
        BY <1>1, <1>3, <1>10 DEF Permitted
    <2> QED
        BY <1>1, <1>2, <2>1, <2>2, <2>3
<1> QED
    BY <1>1, <1>4, <1>5, <1>6, <1>7, <1>8, <1>9, <1>10 DEF Ops, LetterOps, BulkOps

-----------------------------------------------------------------------------
(* The page: rows and the editors rendered over them                        *)

LEMMA EditorIs ==
    ASSUME NEW e \in Editor, NEW v \in Vacancies, NEW old \in RowMaps, NEW new \in RowMaps
    PROVE  CoverLetterEditor(e, v, old, new) \in Editor
<1>1. /\ e.text \in Letters /\ e.saved \in Letters /\ e.editing \in BOOLEAN
      /\ e.busy \in BOOLEAN /\ e.mount \in Nat
    BY DEF Editor
<1>2. v \in DOMAIN new => new[v].letter \in Letters
    BY RowMapHas DEF PipelineRow
<1>3. "none" \in Letters
    BY DEF Letters
<1>4. [e EXCEPT !.text = "none", !.saved = "none", !.editing = FALSE, !.busy = FALSE] \in Editor
    BY <1>3 DEF Editor
<1>5. HasEditor(new, v) => NewEditor(new[v], e.mount + 1) \in Editor
    BY <1>1, <1>2 DEF HasEditor, NewEditor, Editor
<1>6. HasEditor(new, v) =>
        [e EXCEPT !.text = new[v].letter, !.saved = new[v].letter, !.editing = FALSE] \in Editor
    BY <1>2 DEF HasEditor, Editor
<1> QED
    BY <1>4, <1>5, <1>6 DEF CoverLetterEditor

LEMMA RowsRendered ==
    ASSUME rows \in RowMaps, NEW new \in RowMaps, NEW eds \in [Vacancies -> Editor],
           Render(new, eds)
    PROVE  rows' = new /\ rows' \in RowMaps /\ editors' \in [Vacancies -> Editor]
<1>1. \A v \in Vacancies : CoverLetterEditor(eds[v], v, rows, new) \in Editor
    BY EditorIs
<1>2. editors' = [v \in Vacancies |-> CoverLetterEditor(eds[v], v, rows, new)]
    BY DEF Render
<1> QED
    BY <1>1, <1>2 DEF Render

LEMMA Loaded ==
    ASSUME ListInv, NEW under \in [tab : UsedTabs, pageNo : Nat], LoadVacancies(under)
    PROVE  /\ rows' \in RowMaps /\ skeleton' \in BOOLEAN /\ (skeleton' => rows' = NoRows)
           /\ listings' \in Seq(Listing)
           /\ editors' \in [Vacancies -> Editor]
           /\ loadsMade' \in 0..MaxLoads
<1>1. Render(NoRows, editors) /\ NoRows \in RowMaps
    BY NoRowsIs DEF LoadVacancies
<1>2. rows' = NoRows /\ rows' \in RowMaps /\ editors' \in [Vacancies -> Editor]
    <2>1. PICK eds \in [Vacancies -> Editor] : eds = editors
        BY DEF ListInv
    <2>2. Render(NoRows, eds)
        BY <1>1, <2>1
    <2>3. rows \in RowMaps
        BY DEF ListInv
    <2> QED
        BY <1>1, <2>2, <2>3, RowsRendered
<1>3. [under |-> under, stage |-> "asked", found |-> NoRows] \in Listing
    BY <1>1 DEF Listing
<1>4. listings' \in Seq(Listing)
    BY <1>3, AppendProperties DEF ListInv, LoadVacancies
<1>5. loadsMade' \in 0..MaxLoads /\ skeleton' \in BOOLEAN
    BY VacanciesAssumption DEF ListInv, LoadVacancies
<1> QED
    BY <1>2, <1>4, <1>5

\* The rows an answer leaves on the page.
LEMMA AnswerRows ==
    ASSUME NEW rs \in RowMaps, NEW a \in FitAsk, a.stage = "ok"
    PROVE  Replaced(rs, a) \in RowMaps /\ Kept(Replaced(rs, a), a) \in RowMaps
<1>1. /\ DOMAIN rs \in SUBSET Vacancies /\ \A v \in DOMAIN rs : rs[v] \in PipelineRow
      /\ \A v \in a.ids : a.row[v] \in PipelineRow
    BY RowMapHas, AskHas DEF AskFits
<1> DEFINE f == Replaced(rs, a)
<1>2. /\ DOMAIN f = DOMAIN rs /\ f = [v \in DOMAIN rs |-> f[v]]
      /\ \A v \in DOMAIN rs : f[v] \in PipelineRow
    BY <1>1 DEF Replaced
<1> HIDE DEF f
<1>3. f \in RowMaps
    BY <1>1, <1>2, RowMap
<1> DEFINE kept == DOMAIN f \ {v \in a.ids : a.row[v].status \notin TABS[a.under.tab]}
           g == Kept(f, a)
<1>4. g = [v \in kept |-> f[v]] /\ kept \in SUBSET Vacancies
    BY <1>1, <1>2 DEF Kept
<1>5. g = [v \in kept |-> g[v]] /\ \A v \in kept : g[v] \in PipelineRow
    BY <1>2, <1>4
<1> HIDE DEF g, kept
<1>6. g \in RowMaps
    BY <1>4, <1>5, RowMap
<1> QED
    BY <1>3, <1>6 DEF f, g

-----------------------------------------------------------------------------
(* The steps                                                                *)

LEMMA VacanciesInitially ==
    ASSUME VacanciesInit
    PROVE  VacanciesInv
<1>1. PICK s \in InitStatuses :
        LET letter == IF s \in {"letter_draft", "approved"} THEN "generated" ELSE "none" IN
        pipeline = [v \in Vacancies |->
          [status |-> s, letter |-> letter, approved |-> IF s = "approved" THEN letter ELSE "none"]]
    BY DEF VacanciesInit
<1>2. pipeline \in [Vacancies -> PipelineRow]
    <2>1. s \in Statuses
        BY VacanciesAssumption
    <2> QED
        BY <1>1, <2>1 DEF PipelineRow, Letters
<1>3. "review" \in UsedTabs /\ 0 \in 0..MaxAsks /\ 0 \in 0..MaxBackground
    BY VacanciesAssumption
<1>4. editors \in [Vacancies -> Editor]
    BY DEF VacanciesInit, Editor, Letters
<1>5. listings \in Seq(Listing)
    <2>1. [under |-> [tab |-> "review", pageNo |-> 0], stage |-> "asked", found |-> NoRows] \in Listing
        BY <1>3, NoRowsIs DEF Listing
    <2> QED
        BY <2>1 DEF VacanciesInit
<1>6. asks \in Seq(FitAsk)
    BY DEF VacanciesInit
<1>7. loadsMade \in 0..MaxLoads
    BY VacanciesAssumption DEF VacanciesInit
<1> QED
    BY <1>2, <1>3, <1>4, <1>5, <1>6, <1>7, NoRowsIs
       DEF VacanciesInit, VacanciesInv, ListInv, ClickInv, AsksInv, VacancyIds

\* No step of a page takes an approved vacancy back to be decided.
Spares ==
    \A v \in Vacancies :
        pipeline[v].status \in {"approved", "queued_to_send", "sending", "sent"}
            => pipeline'[v].status \notin Undecided

LEMMA PipelineKept ==
    ASSUME VacanciesInv, UNCHANGED <<pipeline, background>>
    PROVE  /\ pipeline' \in [Vacancies -> PipelineRow] /\ background' \in 0..MaxBackground
           /\ Spares
BY DEF VacanciesInv, Spares, Undecided

LEMMA ListKept ==
    ASSUME ListInv, UNCHANGED <<tab, pageNo, rows, skeleton, listings, loadsMade, editors>>
    PROVE  ListInv'
BY DEF ListInv

LEMMA ClickKept ==
    ASSUME ClickInv, UNCHANGED <<ticked, busyId, maintenance, details, rejecting>>
    PROVE  ClickInv'
BY DEF ClickInv

LEMMA AsksKept ==
    ASSUME AsksInv, UNCHANGED <<asks, asked>>
    PROVE  AsksInv'
BY DEF AsksInv

LEMMA HereIs == ASSUME ListInv PROVE Here \in [tab : UsedTabs, pageNo : Nat]
BY DEF ListInv, Here

\* An answer's rows are rendered, and the list's loads are as they were.
LEMMA RenderKeeps ==
    ASSUME ListInv, NEW new \in RowMaps, NEW eds \in [Vacancies -> Editor], Render(new, eds),
           UNCHANGED <<tab, pageNo, loadsMade>>, skeleton' = FALSE, listings' \in Seq(Listing)
    PROVE  ListInv'
<1>1. rows' \in RowMaps /\ editors' \in [Vacancies -> Editor]
    BY RowsRendered DEF ListInv
<1> QED
    BY <1>1 DEF ListInv

LEMMA LoadKeeps ==
    ASSUME ListInv, NEW under \in [tab : UsedTabs, pageNo : Nat], LoadVacancies(under),
           tab' \in UsedTabs, pageNo' \in Nat
    PROVE  ListInv'
BY Loaded DEF ListInv

LEMMA ListingSteps ==
    ASSUME VacanciesInv,
           \/ Reload \/ TurnPage
           \/ \E t \in UsedTabs : ChooseTab(t)
           \/ \E i \in DOMAIN listings : ListVacancies(i) \/ ListedVacancies(i) \/ ListLost(i)
    PROVE  VacanciesInv' /\ Spares
<1> USE DEF VacanciesInv
<1>1. CASE Reload
    <2>1. PICK under \in [tab : UsedTabs, pageNo : Nat] : under = Here
        BY HereIs
    <2>2. ListInv'
        BY <1>1, <2>1, LoadKeeps DEF Reload, ListInv
    <2>3. ClickInv' /\ AsksInv'
        BY <1>1, ClickKept, AsksKept DEF Reload
    <2> QED
        BY <1>1, <2>2, <2>3, PipelineKept DEF Reload
<1>2. CASE TurnPage
    <2>1. pageNo' \in Nat
        BY <1>2 DEF TurnPage, ListInv
    <2>2. PICK under \in [tab : UsedTabs, pageNo : Nat] : under = [tab |-> tab, pageNo |-> pageNo']
        BY <2>1 DEF ListInv
    <2>3. ListInv'
        BY <1>2, <2>1, <2>2, LoadKeeps DEF TurnPage, ListInv
    <2>4. ClickInv' /\ AsksInv'
        BY <1>2, ClickKept, AsksKept DEF TurnPage
    <2> QED
        BY <1>2, <2>3, <2>4, PipelineKept DEF TurnPage
<1>3. ASSUME NEW t \in UsedTabs, ChooseTab(t)
      PROVE  VacanciesInv' /\ Spares
    <2>1. tab' \in UsedTabs /\ pageNo' \in Nat
        BY <1>3 DEF ChooseTab
    <2>2. ASSUME UNCHANGED <<rows, skeleton, listings, loadsMade, editors>>
          PROVE  ListInv'
        <3>1. /\ rows \in RowMaps /\ skeleton \in BOOLEAN /\ (skeleton => rows = NoRows)
              /\ listings \in Seq(Listing) /\ editors \in [Vacancies -> Editor]
              /\ loadsMade \in 0..MaxLoads
            BY DEF ListInv
        <3>2. (skeleton => rows = NoRows)'
            BY <2>2, <3>1 DEF NoRows
        <3> QED
            BY <2>1, <2>2, <3>1, <3>2 DEF ListInv
    <2>3. ASSUME LoadVacancies([tab |-> t, pageNo |-> 0])
          PROVE  ListInv'
        <3>1. PICK under \in [tab : UsedTabs, pageNo : Nat] : under = [tab |-> t, pageNo |-> 0]
            OBVIOUS
        <3> QED
            BY <2>1, <2>3, <3>1, LoadKeeps
    <2>4. ListInv'
        BY <1>3, <2>2, <2>3 DEF ChooseTab
    <2>5. ClickInv'
        BY <1>3 DEF ChooseTab, ClickInv, VacancyIds
    <2>6. AsksInv'
        BY <1>3, AsksKept DEF ChooseTab
    <2> QED
        BY <1>3, <2>4, <2>5, <2>6, PipelineKept DEF ChooseTab
<1>4. ASSUME NEW i \in DOMAIN listings, ListVacancies(i)
      PROVE  VacanciesInv' /\ Spares
    <2> DEFINE found == QueryFor(listings[i].under)
               f == [v \in found |-> pipeline[v]]
               e == [listings[i] EXCEPT !.stage = "read", !.found = f]
    <2>1. listings \in Seq(Listing) /\ listings[i] \in Listing
        BY DEF ListInv
    <2>2. found \in SUBSET Vacancies
        BY DEF QueryFor
    <2>3. f \in RowMaps
        <3>1. f = [v \in found |-> f[v]] /\ \A v \in found : f[v] \in PipelineRow
            BY <2>2
        <3> HIDE DEF f, found
        <3> QED
            BY <2>2, <3>1, RowMap
    <2>4. listings' = [listings EXCEPT ![i] = e]
        BY <1>4 DEF ListVacancies
    <2>5. e \in Listing
        <3> HIDE DEF f, found
        <3> QED
            BY <2>1, <2>3 DEF Listing
    <2>6. listings' \in Seq(Listing)
        <3> HIDE DEF e
        <3> QED
            BY <2>1, <2>4, <2>5, Changed
    <2>7. ListInv'
        BY <1>4, <2>6 DEF ListVacancies, ListInv
    <2>8. ClickInv' /\ AsksInv'
        BY <1>4, ClickKept, AsksKept DEF ListVacancies
    <2> QED
        BY <1>4, <2>7, <2>8, PipelineKept DEF ListVacancies
<1>5. ASSUME NEW i \in DOMAIN listings, ListedVacancies(i) \/ ListLost(i)
      PROVE  VacanciesInv' /\ Spares
    <2>1. listings \in Seq(Listing) /\ listings[i].found \in RowMaps
        <3>1. listings \in Seq(Listing) /\ listings[i] \in Listing
            BY DEF ListInv
        <3> QED
            BY <3>1 DEF Listing
    <2>2. listings' \in Seq(Listing)
        BY <1>5, <2>1, Shortened DEF ListedVacancies, ListLost
    <2>3. PICK new \in RowMaps : Render(new, editors)
        BY <1>5, <2>1, NoRowsIs DEF ListedVacancies, ListLost
    <2>4. PICK eds \in [Vacancies -> Editor] : eds = editors
        BY DEF ListInv
    <2>5. Render(new, eds)
        BY <2>3, <2>4
    <2>6. ListInv'
        BY <1>5, <2>2, <2>5, RenderKeeps DEF ListedVacancies, ListLost
    <2>7. ClickInv'
        BY <1>5 DEF ListedVacancies, ListLost, ClickInv
    <2>8. AsksInv'
        BY <1>5, AsksKept DEF ListedVacancies, ListLost
    <2> QED
        BY <1>5, <2>6, <2>7, <2>8, PipelineKept DEF ListedVacancies, ListLost
<1> QED
    BY <1>1, <1>2, <1>3, <1>4, <1>5

\* A click that asks the server for something.
LEMMA SendKeeps ==
    ASSUME VacanciesInv, NEW op \in Ops, NEW ids \in SUBSET Vacancies,
           NEW mount \in Nat, NEW words \in Letters,
           op \notin BulkOps => \E v \in Vacancies : ids = {v},
           Send(op, ids, mount, words)
    PROVE  AsksInv'
<1>1. PICK under \in [tab : UsedTabs, pageNo : Nat] : under = Here
    BY HereIs DEF VacanciesInv
<1> DEFINE a == [op |-> op, ids |-> ids, under |-> under, mount |-> mount, text |-> words,
                 stage |-> "asked", read |-> NoRows, row |-> NoRows]
<1>2. a \in FitAsk
    BY NoRowsIs, AskIs
<1>3. asks' = Append(asks, a)
    BY <1>1 DEF Send
<1> HIDE DEF a
<1>4. asks' \in Seq(FitAsk)
    BY <1>2, <1>3, AppendProperties DEF VacanciesInv, AsksInv
<1>5. asked' \in 0..MaxAsks
    BY VacanciesAssumption DEF Send, VacanciesInv, AsksInv
<1> QED
    BY <1>4, <1>5 DEF AsksInv

LEMMA ClickSteps ==
    ASSUME VacanciesInv,
           \/ \E v \in Vacancies :
                \/ ToggleSelected(v) \/ ToggleDetails(v) \/ ToggleReject(v) \/ EditLetter(v)
                \/ \E op \in Ops : DecideVacancy(v, op) \/ AskLetter(v, op)
           \/ \E op \in BulkOps : AskBulk(op)
    PROVE  VacanciesInv' /\ Spares
<1> USE DEF VacanciesInv
<1>1. ASSUME NEW v \in Vacancies, ToggleSelected(v) \/ ToggleDetails(v) \/ ToggleReject(v)
      PROVE  VacanciesInv' /\ Spares
    <2>1. ListInv' /\ AsksInv'
        BY <1>1, ListKept, AsksKept DEF ToggleSelected, ToggleDetails, ToggleReject
    <2>2. ClickInv'
        BY <1>1 DEF ToggleSelected, ToggleDetails, ToggleReject, ClickInv, VacancyIds
    <2> QED
        BY <1>1, <2>1, <2>2, PipelineKept DEF ToggleSelected, ToggleDetails, ToggleReject
<1>2. ASSUME NEW v \in Vacancies, EditLetter(v)
      PROVE  VacanciesInv' /\ Spares
    <2>1. editors \in [Vacancies -> Editor] /\ editors[v] \in Editor /\ "mine" \in Letters
        BY DEF ListInv, Letters
    <2>2. editors' \in [Vacancies -> Editor]
        <3>1. \E e \in Editor : editors' = [editors EXCEPT ![v] = e]
            <4>1. CASE editors' = [editors EXCEPT ![v].text = "mine"]
                <5>1. [editors[v] EXCEPT !.text = "mine"] \in Editor
                    BY <2>1 DEF Editor
                <5> QED
                    BY <4>1, <5>1
            <4>2. CASE editors' = [editors EXCEPT ![v].editing = TRUE]
                <5>1. [editors[v] EXCEPT !.editing = TRUE] \in Editor
                    BY <2>1 DEF Editor
                <5> QED
                    BY <4>2, <5>1
            <4>3. CASE editors' = [editors EXCEPT ![v].text = editors[v].saved, ![v].editing = FALSE]
                <5>1. [editors[v] EXCEPT !.text = editors[v].saved, !.editing = FALSE] \in Editor
                    BY <2>1 DEF Editor
                <5> QED
                    BY <4>3, <5>1
            <4> QED
                BY <1>2, <4>1, <4>2, <4>3 DEF EditLetter
        <3> QED
            BY <2>1, <3>1
    <2>3. ListInv'
        BY <1>2, <2>2 DEF EditLetter, ListInv
    <2>4. ClickInv' /\ AsksInv'
        BY <1>2, ClickKept, AsksKept DEF EditLetter
    <2> QED
        BY <1>2, <2>3, <2>4, PipelineKept DEF EditLetter
<1>3. ASSUME NEW v \in Vacancies, NEW op \in Ops, DecideVacancy(v, op)
      PROVE  VacanciesInv' /\ Spares
    <2>1. AsksInv'
        <3>1. Send(op, {v}, 0, "none") /\ "none" \in Letters
            BY <1>3 DEF DecideVacancy, Letters
        <3> QED
            BY <3>1, SendKeeps
    <2>2. ListInv'
        BY <1>3, ListKept DEF DecideVacancy
    <2>3. ClickInv'
        BY <1>3 DEF DecideVacancy, ClickInv, VacancyIds
    <2> QED
        BY <1>3, <2>1, <2>2, <2>3, PipelineKept DEF DecideVacancy
<1>4. ASSUME NEW v \in Vacancies, NEW op \in Ops, AskLetter(v, op)
      PROVE  VacanciesInv' /\ Spares
    <2>1. editors \in [Vacancies -> Editor] /\ editors[v] \in Editor
        BY DEF ListInv
    <2>2. PICK mount \in Nat, words \in Letters : mount = editors[v].mount /\ words = editors[v].text
        BY <2>1 DEF Editor
    <2>3. AsksInv'
        <3>1. Send(op, {v}, mount, words)
            BY <1>4, <2>2 DEF AskLetter
        <3> QED
            BY <3>1, SendKeeps
    <2>4. editors' \in [Vacancies -> Editor]
        <3>1. [editors[v] EXCEPT !.busy = TRUE] \in Editor
            BY <2>1 DEF Editor
        <3>2. editors' = [editors EXCEPT ![v] = [editors[v] EXCEPT !.busy = TRUE]]
            BY <1>4 DEF AskLetter
        <3> QED
            BY <2>1, <3>1, <3>2
    <2>5. ListInv'
        BY <1>4, <2>4 DEF AskLetter, ListInv
    <2>6. ClickInv'
        BY <1>4, ClickKept DEF AskLetter
    <2> QED
        BY <1>4, <2>3, <2>5, <2>6, PipelineKept DEF AskLetter
<1>5. ASSUME NEW op \in BulkOps, AskBulk(op)
      PROVE  VacanciesInv' /\ Spares
    <2>1. PICK ids \in SUBSET Vacancies : Send(op, ids, 0, "none")
        BY <1>5 DEF AskBulk, ClickInv
    <2>2. op \in Ops /\ "none" \in Letters
        BY DEF Ops, Letters
    <2>3. AsksInv'
        BY <2>1, <2>2, SendKeeps
    <2>4. ListInv'
        BY <1>5, ListKept DEF AskBulk
    <2>5. ClickInv'
        BY <1>5 DEF AskBulk, ClickInv
    <2> QED
        BY <1>5, <2>3, <2>4, <2>5, PipelineKept DEF AskBulk
<1> QED
    BY <1>1, <1>2, <1>3, <1>4, <1>5

LEMMA HandlerSteps ==
    ASSUME VacanciesInv, NEW i \in DOMAIN asks,
           HandlerReads(i) \/ HandlerWrites(i) \/ RefreshVacancy(i)
    PROVE  VacanciesInv' /\ Spares
<1> USE DEF VacanciesInv
<1>1. asks \in Seq(FitAsk) /\ asks[i] \in FitAsk /\ asked \in 0..MaxAsks
    BY DEF AsksInv
<1>2. PICK a \in FitAsk : a = asks[i]
    BY <1>1
<1>3. a.op \in Ops /\ a.ids \in SUBSET Vacancies /\ AskFits(a) /\ a.read \in RowMaps
    BY AskHas
<1>4. \A b \in FitAsk : [asks EXCEPT ![i] = b] \in Seq(FitAsk)
    BY <1>1, Changed
<1>5. CASE HandlerReads(i)
    <2> DEFINE ids == IF a.op = "retryIncomplete" THEN Vacancies ELSE a.ids
               fit == {v \in ids : pipeline[v].status \in Permitted(a.op)}
               f == [v \in fit |-> pipeline[v]]
               stage == IF a.op \notin BulkOps /\ fit = {} THEN "error" ELSE "read"
    <2>1. asks' = [asks EXCEPT ![i] = [asks[i] EXCEPT !.stage = stage, !.read = f]]
        BY <1>2, <1>5 DEF HandlerReads
    <2>2. fit \in SUBSET Vacancies /\ stage \in {"read", "error"}
        BY <1>3
    <2>3. /\ f = [v \in fit |-> f[v]] /\ DOMAIN f = fit
          /\ \A v \in fit : f[v] \in PipelineRow /\ f[v].status \in Permitted(a.op)
        BY <2>2
    <2> HIDE DEF fit, f, stage
    <2>4. f \in RowMaps
        BY <2>2, <2>3, RowMap
    <2>5. PICK rd \in RowMaps, st \in {"read", "error"} : rd = f /\ st = stage
        BY <2>2, <2>4
    <2>6. [a EXCEPT !.stage = st, !.read = rd] \in FitAsk
        BY <2>3, <2>5, AskRead
    <2>7. asks' \in Seq(FitAsk)
        BY <1>2, <1>4, <2>1, <2>5, <2>6
    <2>8. AsksInv'
        BY <1>1, <1>5, <2>7 DEF HandlerReads, AsksInv
    <2>9. ListInv' /\ ClickInv'
        BY <1>5, ListKept, ClickKept DEF HandlerReads
    <2> QED
        BY <1>5, <2>8, <2>9, PipelineKept DEF HandlerReads
<1>6. CASE HandlerWrites(i)
    <2> DEFINE ids == Unmoved(a)
               stage == IF a.op \notin BulkOps \cup {"enrich"} /\ ids = {} THEN "error" ELSE "ok"
               f == [v \in a.ids |-> pipeline'[v]]
    <2>1. /\ a.stage = "read"
          /\ asks' = [asks EXCEPT ![i] = [asks[i] EXCEPT !.stage = stage, !.row = f]]
        BY <1>2, <1>6 DEF HandlerWrites
    <2>2. PICK new :
                /\ \A v \in ids : new[v] \in Outcomes(a, v)
                /\ pipeline' = [v \in Vacancies |-> IF v \in ids THEN new[v] ELSE pipeline[v]]
        BY <1>2, <1>6 DEF HandlerWrites
    <2>3. \A v \in ids : v \in DOMAIN a.read /\ pipeline[v].status = a.read[v].status
                         /\ v \in Vacancies
        BY <1>3, RowMapHas DEF Unmoved
    <2>4. \A v \in ids : /\ new[v] \in PipelineRow
                         /\ pipeline[v].status \in {"approved", "queued_to_send", "sending", "sent"}
                              => new[v].status \notin Undecided
        <3> TAKE v \in ids
        <3>1. v \in DOMAIN a.read /\ pipeline[v].status = a.read[v].status
              /\ pipeline[v] \in PipelineRow /\ new[v] \in Outcomes(a, v)
            BY <2>2, <2>3
        <3> QED
            BY <2>1, <3>1, OutcomesFit
    <2> HIDE DEF ids
    <2>5. pipeline' \in [Vacancies -> PipelineRow]
        BY <2>2, <2>4
    <2>6. Spares
        BY <2>2, <2>4 DEF Spares, Undecided
    <2>7. /\ f = [v \in a.ids |-> f[v]] /\ DOMAIN f = a.ids
          /\ \A v \in a.ids : f[v] \in PipelineRow
        BY <1>3, <2>5
    <2>8. stage \in {"ok", "error"}
        OBVIOUS
    <2> HIDE DEF f, stage
    <2>9. f \in RowMaps
        BY <1>3, <2>7, RowMap
    <2>10. PICK wr \in RowMaps, st \in {"ok", "error"} : wr = f /\ st = stage
        BY <2>8, <2>9
    <2>11. [a EXCEPT !.stage = st, !.row = wr] \in FitAsk
        BY <2>7, <2>10, AskWrote
    <2>12. asks' \in Seq(FitAsk)
        BY <1>2, <1>4, <2>1, <2>10, <2>11
    <2>13. AsksInv'
        BY <1>1, <1>6, <2>12 DEF HandlerWrites, AsksInv
    <2>14. ListInv' /\ ClickInv'
        BY <1>6, ListKept, ClickKept DEF HandlerWrites
    <2> QED
        BY <1>6, <2>5, <2>6, <2>13, <2>14 DEF HandlerWrites
<1>7. CASE RefreshVacancy(i)
    <2> DEFINE f == [v \in a.ids |-> pipeline[v]]
    <2>1. a.stage = "ok" /\ asks' = [asks EXCEPT ![i] = [asks[i] EXCEPT !.row = f]]
        BY <1>2, <1>7 DEF RefreshVacancy
    <2>2. /\ f = [v \in a.ids |-> f[v]] /\ DOMAIN f = a.ids
          /\ \A v \in a.ids : f[v] \in PipelineRow
        BY <1>3
    <2> HIDE DEF f
    <2>3. f \in RowMaps
        BY <1>3, <2>2, RowMap
    <2>4. PICK wr \in RowMaps : wr = f
        BY <2>3
    <2>5. [a EXCEPT !.row = wr] \in FitAsk
        BY <2>1, <2>2, <2>4, AskReadAgain
    <2>6. asks' \in Seq(FitAsk)
        BY <1>2, <1>4, <2>1, <2>4, <2>5
    <2>7. AsksInv'
        BY <1>1, <1>7, <2>6 DEF RefreshVacancy, AsksInv
    <2>8. ListInv' /\ ClickInv'
        BY <1>7, ListKept, ClickKept DEF RefreshVacancy
    <2> QED
        BY <1>7, <2>7, <2>8, PipelineKept DEF RefreshVacancy
<1> QED
    BY <1>5, <1>6, <1>7

LEMMA AnswerSteps ==
    ASSUME VacanciesInv, NEW i \in DOMAIN asks,
           Decided(i) \/ LetterAnswered(i) \/ BulkAnswered(i) \/ AskFailed(i)
    PROVE  VacanciesInv' /\ Spares
<1> USE DEF VacanciesInv
<1>1. asks \in Seq(FitAsk) /\ asks[i] \in FitAsk /\ asked \in 0..MaxAsks
    BY DEF AsksInv
<1>2. PICK a \in FitAsk : a = asks[i]
    BY <1>1
<1>3. /\ a.op \in Ops /\ a.ids \in SUBSET Vacancies /\ AskFits(a)
      /\ a.under \in [tab : UsedTabs, pageNo : Nat] /\ a.row \in RowMaps
    BY AskHas
<1>4. AsksInv'
    <2>1. asks' = RemoveAt(asks, i) /\ asked' = asked
        BY DEF Decided, LetterAnswered, BulkAnswered, AskFailed
    <2> QED
        BY <1>1, <2>1, Shortened DEF AsksInv
<1>5. UNCHANGED <<pipeline, background>>
    BY DEF Decided, LetterAnswered, BulkAnswered, AskFailed
<1>6. /\ rows \in RowMaps /\ editors \in [Vacancies -> Editor] /\ listings \in Seq(Listing)
    BY DEF ListInv
<1>7. PICK rs \in RowMaps : rs = rows
    BY <1>6
<1>8. a.stage = "ok" => Replaced(rs, a) \in RowMaps /\ Kept(Replaced(rs, a), a) \in RowMaps
    BY AnswerRows
<1>9. CASE Decided(i)
    <2>1. a.stage = "ok" /\ \/ Render(Replaced(rs, a), editors)
                            \/ Render(Kept(Replaced(rs, a), a), editors)
        BY <1>2, <1>7, <1>9 DEF Decided
    <2>2. PICK new \in RowMaps, eds \in [Vacancies -> Editor] : Render(new, eds)
        BY <1>6, <1>8, <2>1
    <2>3. ListInv'
        BY <1>6, <1>9, <2>2, RenderKeeps DEF Decided
    <2>4. ClickInv'
        BY <1>9 DEF Decided, ClickInv, VacancyIds
    <2> QED
        BY <1>4, <1>5, <2>3, <2>4, PipelineKept
<1>10. CASE LetterAnswered(i)
    <2> DEFINE v == CHOOSE x \in a.ids : TRUE
               e == IF editors[v].mount = a.mount
                    THEN [editors[v] EXCEPT !.text = a.row[v].letter, !.saved = a.row[v].letter,
                                            !.busy = FALSE,
                                            !.editing = @ /\ a.op \in {"generate", "approve"}]
                    ELSE editors[v]
    <2>1. /\ a.op \in LetterOps /\ a.stage = "ok"
          /\ Render(Replaced(rs, a), [editors EXCEPT ![v] = e])
        BY <1>2, <1>7, <1>10 DEF LetterAnswered
    <2>2. v \in a.ids /\ v \in Vacancies
        <3>1. a.op \notin BulkOps
            BY <2>1 DEF LetterOps, BulkOps
        <3> QED
            BY <1>3, <3>1 DEF AskFits
    <2>3. a.row[v].letter \in Letters
        <3>1. a.row[v] \in PipelineRow
            BY <1>3, <2>1, <2>2, RowMapHas DEF AskFits
        <3> QED
            BY <3>1 DEF PipelineRow
    <2>4. editors[v] \in Editor
        BY <1>6, <2>2
    <2>5. e \in Editor
        <3> HIDE DEF v
        <3> QED
            BY <2>3, <2>4 DEF Editor
    <2> HIDE DEF e, v
    <2>6. [editors EXCEPT ![v] = e] \in [Vacancies -> Editor]
        BY <1>6, <2>5
    <2>7. PICK new \in RowMaps, eds \in [Vacancies -> Editor] : Render(new, eds)
        BY <1>8, <2>1, <2>6
    <2>8. ListInv'
        BY <1>6, <1>10, <2>7, RenderKeeps DEF LetterAnswered
    <2>9. ClickInv'
        BY <1>10, ClickKept DEF LetterAnswered
    <2> QED
        BY <1>4, <1>5, <2>8, <2>9, PipelineKept
<1>11. CASE BulkAnswered(i)
    <2>1. LoadVacancies(a.under)
        BY <1>2, <1>11 DEF BulkAnswered
    <2>2. tab' \in UsedTabs /\ pageNo' \in Nat
        BY <1>11 DEF BulkAnswered, ListInv
    <2>3. ListInv'
        BY <1>3, <2>1, <2>2, LoadKeeps
    <2>4. ClickInv'
        BY <1>11 DEF BulkAnswered, ClickInv
    <2> QED
        BY <1>4, <1>5, <2>3, <2>4, PipelineKept
<1>12. CASE AskFailed(i)
    <2>1. editors' \in [Vacancies -> Editor]
        <3>1. \A v \in Vacancies : [editors[v] EXCEPT !.busy = FALSE] \in Editor
            BY <1>6 DEF Editor
        <3> QED
            BY <1>6, <1>12, <3>1 DEF AskFailed
    <2>2. ListInv'
        BY <1>12, <2>1 DEF AskFailed, ListInv
    <2>3. ClickInv'
        BY <1>12 DEF AskFailed, ClickInv, VacancyIds
    <2> QED
        BY <1>4, <1>5, <2>2, <2>3, PipelineKept
<1> QED
    BY <1>9, <1>10, <1>11, <1>12

LEMMA BackgroundSteps ==
    ASSUME VacanciesInv, NEW v \in Vacancies, Background(v)
    PROVE  VacanciesInv' /\ Spares
<1> USE DEF VacanciesInv
<1> DEFINE to == [discovered |-> {"scoring"}, scoring |-> {"review", "score_error", "rejected_by_rule"},
                  queued_to_send |-> {"sending"}, sending |-> {"sent", "send_error"}]
           was == pipeline[v].status
<1>1. DOMAIN to = {"discovered", "scoring", "queued_to_send", "sending"}
    OBVIOUS
<1>2. was \in DOMAIN to
    BY DEF Background
<1>3. PICK s \in to[was] : pipeline' = [pipeline EXCEPT ![v].status = s]
    BY DEF Background
<1>4. /\ s \in Statuses
      /\ was \in {"approved", "queued_to_send", "sending", "sent"} => s \notin Undecided
    BY <1>1, <1>2, <1>3 DEF Statuses, Unscored, SelectedLike, Undecided
<1>5. pipeline' = [pipeline EXCEPT ![v] = [pipeline[v] EXCEPT !.status = s]]
    BY <1>3
<1> HIDE DEF to, was
<1>6. [pipeline[v] EXCEPT !.status = s] \in PipelineRow /\ [pipeline[v] EXCEPT !.status = s].status = s
    BY <1>4 DEF PipelineRow
<1>7. pipeline' \in [Vacancies -> PipelineRow]
    BY <1>5, <1>6
<1>8. Spares
    BY <1>4, <1>5, <1>6 DEF Spares, Undecided, was
<1>9. background' \in 0..MaxBackground
    BY VacanciesAssumption DEF Background
<1>10. ListInv' /\ ClickInv' /\ AsksInv'
    BY ListKept, ClickKept, AsksKept DEF Background
<1> QED
    BY <1>7, <1>8, <1>9, <1>10

LEMMA VacanciesSteps ==
    ASSUME VacanciesInv, [VacanciesNext]_vacanciesVars
    PROVE  VacanciesInv' /\ Spares
<1>1. CASE UNCHANGED vacanciesVars
    BY <1>1, PipelineKept, ListKept, ClickKept, AsksKept DEF vacanciesVars, VacanciesInv
<1>2. CASE VacanciesNext
    BY <1>2, ListingSteps, ClickSteps, HandlerSteps, AnswerSteps, BackgroundSteps
       DEF VacanciesNext, VacanciesUser
<1> QED
    BY <1>1, <1>2

LEMMA VacanciesTyped == ASSUME VacanciesInv PROVE VacanciesTypeOK
<1>1. DOMAIN rows \subseteq Vacancies /\ \A v \in DOMAIN rows : rows[v] \in PipelineRow
    BY RowMapHas DEF VacanciesInv, ListInv
<1>2. \A i \in DOMAIN listings : listings[i].under.tab \in UsedTabs
    <2>1. listings \in Seq(Listing)
        BY DEF VacanciesInv, ListInv
    <2>2. \A i \in DOMAIN listings : listings[i] \in Listing
        BY <2>1
    <2> QED
        BY <2>2 DEF Listing
<1>3. \A i \in DOMAIN asks : asks[i] \in Ask
    BY DEF VacanciesInv, AsksInv, FitAsk
<1> QED
    BY <1>1, <1>2, <1>3
       DEF VacanciesInv, ListInv, ClickInv, AsksInv, VacanciesTypeOK

\* VacanciesTypeOK: every variable of the vacancies page has its type.
THEOREM VacanciesTypeCorrect == VacanciesSpec => []VacanciesTypeOK
<1>1. VacanciesInit => VacanciesInv
    BY VacanciesInitially
<1>2. VacanciesInv /\ [VacanciesNext]_vacanciesVars => VacanciesInv'
    BY VacanciesSteps
<1>3. VacanciesInv => VacanciesTypeOK
    BY VacanciesTyped
<1> QED
    BY <1>1, <1>2, <1>3, PTL DEF VacanciesSpec

\* DecisionsSpareApproved: whatever row is clicked, however stale, and whatever
\* happens between a handler's check and its write, no vacancy that is approved,
\* queued or being sent goes back to be decided.
THEOREM ApprovedSpared == VacanciesSpec => DecisionsSpareApproved
<1>1. VacanciesInit => VacanciesInv
    BY VacanciesInitially
<1>2. VacanciesInv /\ [VacanciesNext]_vacanciesVars => VacanciesInv'
    BY VacanciesSteps
<1>3. VacanciesInv /\ [VacanciesNext]_vacanciesVars =>
        [\A v \in Vacancies :
           pipeline[v].status \in {"approved", "queued_to_send", "sending", "sent"}
             => pipeline'[v].status \notin Undecided]_vacanciesVars
    BY VacanciesSteps DEF Spares
<1> QED
    BY <1>1, <1>2, <1>3, PTL DEF VacanciesSpec, DecisionsSpareApproved

-----------------------------------------------------------------------------
(* The types of the tasks page, beyond what its invariant says              *)

TodoCounts ==
    /\ delivered \in [Items -> SUBSET Texts] /\ active \in Sections
    /\ loading \in SUBSET Queries /\ fetches \in 0..MaxFetches
    /\ decisions \in 0..MaxPosts /\ Len(posts) <= decisions

LEMMA OneShorter ==
    ASSUME NEW S, NEW s \in Seq(S), NEW i \in DOMAIN s
    PROVE  Len(RemoveAt(s, i)) = Len(s) - 1
<1>1. Len(s) \in Nat /\ i \in 1..Len(s)
    OBVIOUS
<1>2. /\ SubSeq(s, 1, i - 1) \in Seq(S) /\ Len(SubSeq(s, 1, i - 1)) = i - 1
      /\ SubSeq(s, i + 1, Len(s)) \in Seq(S) /\ Len(SubSeq(s, i + 1, Len(s))) = Len(s) - i
    BY <1>1, SubSeqProperties
<1> DEFINE a == SubSeq(s, 1, i - 1)
           b == SubSeq(s, i + 1, Len(s))
<1>3. RemoveAt(s, i) = a \o b
    BY DEF RemoveAt
<1>4. a \in Seq(S) /\ Len(a) = i - 1 /\ b \in Seq(S) /\ Len(b) = Len(s) - i
    BY <1>2
<1> HIDE DEF a, b
<1>5. Len(a \o b) = Len(a) + Len(b)
    BY <1>4, ConcatProperties
<1> QED
    BY <1>1, <1>3, <1>4, <1>5

LEMMA TodoCountsKept ==
    ASSUME TodoInv, TodoCounts, [TodoNext]_todoVars
    PROVE  TodoCounts'
<1>0. /\ posts \in Seq(Post) /\ Len(posts) \in Nat
      /\ delivered \in [Items -> SUBSET Texts] /\ active \in Sections
      /\ loading \in SUBSET Queries /\ fetches \in 0..MaxFetches
      /\ decisions \in 0..MaxPosts /\ Len(posts) <= decisions
    BY DEF TodoInv, Shapes, TodoCounts
<1>1. ASSUME UNCHANGED <<delivered, active, loading, fetches, decisions>>, Len(posts') <= Len(posts),
             Len(posts') \in Nat
      PROVE  TodoCounts'
    BY <1>0, <1>1, TodoAssumption DEF TodoCounts
<1>2. ASSUME UNCHANGED <<delivered, active, loading, fetches, decisions, posts>> PROVE TodoCounts'
    BY <1>0, <1>1, <1>2
<1>3. ASSUME NEW p \in DOMAIN posts, NEW s, SetStage(p, s) PROVE Len(posts') = Len(posts)
    BY <1>0, <1>3 DEF SetStage
<1>4. ASSUME NEW s \in Sections, SetActive(s) PROVE TodoCounts'
    BY <1>0, <1>4 DEF SetActive, TodoCounts
<1>5. ASSUME NEW i \in Items, UpdateAnswers(i) \/ EditDraft(i) PROVE TodoCounts'
    BY <1>2, <1>5 DEF UpdateAnswers, EditDraft, SetCard
<1>6. ASSUME NEW i \in Items,
             NEW op \in {"approve", "send", "answer", "done", "dismissed", "discard"},
             Decide(i, op)
      PROVE  TodoCounts'
    <2>1. decisions' \in 0..MaxPosts /\ decisions' = decisions + 1
        BY <1>0, <1>6, TodoAssumption DEF Decide
    <2>2. Len(posts') = Len(posts) + 1
        BY <1>0, <1>6 DEF Decide
    <2> QED
        BY <1>0, <1>6, <2>1, <2>2, TodoAssumption DEF Decide, TodoCounts
<1>7. ASSUME NEW p \in DOMAIN posts, ReadRow(p) PROVE TodoCounts'
    <2>1. Len(posts') = Len(posts)
        BY <1>3, <1>7 DEF ReadRow
    <2> QED
        BY <1>0, <1>1, <1>7, <2>1 DEF ReadRow
<1>8. ASSUME NEW p \in DOMAIN posts, CallHh(p) PROVE TodoCounts'
    <2>1. Len(posts') = Len(posts)
        BY <1>3, <1>8 DEF CallHh
    <2>2. posts[p].text \in Texts
        <3>1. posts[p] \in Post
            BY <1>0
        <3> QED
            BY <3>1 DEF Post
    <2>3. delivered' \in [Items -> SUBSET Texts]
        BY <1>0, <1>8, <2>2 DEF CallHh
    <2> QED
        BY <1>0, <1>8, <2>1, <2>3 DEF CallHh, TodoCounts
<1>9. ASSUME NEW p \in DOMAIN posts, WriteRow(p) PROVE TodoCounts'
    <2>1. Len(posts') = Len(posts)
        BY <1>3, <1>9 DEF WriteRow
    <2> QED
        BY <1>0, <1>1, <1>9, <2>1 DEF WriteRow
<1>10. ASSUME NEW p \in DOMAIN posts, PostAnswered(p) \/ PostFailed(p) PROVE TodoCounts'
    <2>1. Len(posts) > 0 /\ Len(posts') = Len(posts) - 1
        BY <1>0, <1>10, OneShorter DEF PostAnswered, PostFailed
    <2> QED
        BY <1>0, <1>1, <1>10, <2>1 DEF PostAnswered, PostFailed
<1>11. ASSUME NEW q \in Queries, Refetch(q) PROVE TodoCounts'
    BY <1>0, <1>11, TodoAssumption DEF Refetch, TodoCounts
<1>12. ASSUME NEW q \in Queries, FetchDone(q) \/ FetchFailed(q) PROVE TodoCounts'
    <2>1. loading' \in SUBSET Queries
        BY <1>0, <1>12 DEF FetchDone, FetchFailed
    <2> QED
        BY <1>0, <1>12, <2>1 DEF FetchDone, FetchFailed, TodoCounts
<1>13. ASSUME NEW s \in Sections, ListRows(s) PROVE TodoCounts'
    BY <1>2, <1>13 DEF ListRows
<1>14. ASSUME NEW i \in Items, NewRow(i) PROVE TodoCounts'
    BY <1>2, <1>14 DEF NewRow
<1>15. CASE UNCHANGED todoVars
    BY <1>2, <1>15 DEF todoVars
<1> QED
    BY <1>4, <1>5, <1>6, <1>7, <1>8, <1>9, <1>10, <1>11, <1>12, <1>13, <1>14, <1>15
       DEF TodoNext, TodoUser, TodoServer

\* TodoTypeOK: every variable of the tasks page has its type, and no more
\* requests are under way than decisions were made.
THEOREM TodoTypeCorrect == TodoSpec => []TodoTypeOK
<1>1. TodoInit => TodoCounts
    BY TodoAssumption DEF TodoInit, TodoCounts, Sections
<1>2. TodoInv /\ TodoCounts /\ [TodoNext]_todoVars => TodoCounts'
    BY TodoCountsKept
<1>3. TodoInv /\ TodoCards /\ TodoCounts => TodoTypeOK
    BY DEF TodoInv, Shapes, Stages, TodoCards, TodoCounts, TodoTypeOK
<1> QED
    BY <1>1, <1>2, <1>3, TodoCorrect, PTL DEF TodoSpec

-----------------------------------------------------------------------------
(* The types of the chats page, part by part                                *)

NoOrChat == ChatIds \cup {NoChat}

ChatLists ==
    /\ deepLink \in DeepLinks /\ unread \in SUBSET ChatIds /\ unreadOnly \in BOOLEAN
    /\ lists \in [BOOLEAN -> SUBSET Row] /\ listed \in SUBSET BOOLEAN /\ failed \in SUBSET BOOLEAN
    /\ loadingList \in SUBSET BOOLEAN /\ listLoads \in 0..MaxListLoads /\ search \in BOOLEAN
    /\ markingRead \in SUBSET ChatIds

ChatPane ==
    /\ selectedId \in NoOrChat
    /\ messages \in [chat : NoOrChat, req : 0..MaxRequests]
    /\ reqId \in 0..MaxRequests /\ paneLoading \in BOOLEAN
    /\ requests \in SUBSET [chat : ChatIds, req : 1..MaxRequests]

ChatField ==
    /\ text \in Fields /\ sending \in BOOLEAN
    /\ sends \in Seq([chat : ChatIds, text : Fields, reload : 0..MaxRequests])
    /\ sent \in 0..MaxSends

LEMMA Least ==
    ASSUME NEW S \in SUBSET Nat, IsFiniteSet(S), S # {}
    PROVE  \E m \in S : \A y \in S : m <= y
<1>1. Cardinality(S) \in Nat /\ Cardinality(S) # 0
    BY FS_CardinalityType, FS_EmptySet
<1>2. PICK m \in S : Cardinality({y \in S : y <= m}) = 1
    BY <1>1, Ranks
<1> DEFINE upTo == {y \in S : y <= m}
<1>3. IsFiniteSet(upTo) /\ m \in upTo
    BY FS_Subset
<1>4. \A y \in upTo : y = m
    <2> HIDE DEF upTo
    <2>1. Cardinality(upTo) = 1
        BY <1>2 DEF upTo
    <2>2. PICK x : upTo = {x}
        BY <1>3, <2>1, FS_Singleton
    <2> QED
        BY <1>3, <2>2
<1>5. \A y \in S : y \in Nat /\ m \in Nat /\ (y <= m => y = m)
    BY <1>4
<1> QED
    BY <1>5

LEMMA FirstIs ==
    ASSUME NEW ids \in SUBSET ChatIds, ids # {}
    PROVE  First(ids) \in ids
<1>1. ids \in SUBSET Nat /\ IsFiniteSet(ids)
    BY ChatsAssumption, FS_Subset
<1>2. \E c \in ids : \A d \in ids : c <= d
    BY <1>1, Least
<1> QED
    BY <1>2 DEF First

\* What a render selects and shows is a chat, or none.
LEMMA ChosenIs ==
    ASSUME ChatLists, NEW rws \in SUBSET Row, NEW chats, NEW s, NEW sel \in NoOrChat
    PROVE  /\ Reselect(sel, chats, rws, s) \in NoOrChat
           /\ Selected(sel, rws).chat \in NoOrChat
<1>1. deepLink \in NoOrChat /\ Ids(rws) \subseteq ChatIds
    BY ChatsAssumption DEF ChatLists, NoOrChat, Ids, Row
<1>2. Filtered(rws, s) \subseteq ChatIds
    BY <1>1 DEF Filtered
<1>3. Filtered(rws, s) # {} => First(Filtered(rws, s)) \in ChatIds
    BY <1>2, FirstIs
<1>4. Reselect(sel, chats, rws, s) \in NoOrChat
    BY <1>1, <1>3 DEF Reselect, NoOrChat
<1>5. Selected(sel, rws).chat \in NoOrChat
    BY <1>1 DEF Selected
<1> QED
    BY <1>4, <1>5

LEMMA ShownIs == ASSUME ChatLists PROVE Shown(unreadOnly) \in SUBSET Row
BY DEF ChatLists, Shown

LEMMA PaneIs == ASSUME ChatLists, ChatPane PROVE Pane.chat \in NoOrChat
BY ShownIs, ChosenIs DEF Pane, ChatPane

LEMMA LoadTyped ==
    ASSUME ChatPane, NEW c \in ChatIds, LoadMessages(c), selectedId' \in NoOrChat
    PROVE  ChatPane' /\ reqId' = reqId + 1 /\ reqId' \in 1..MaxRequests
<1>1. reqId' \in 1..MaxRequests /\ reqId' = reqId + 1 /\ reqId' \in 0..MaxRequests
    BY ChatsAssumption DEF LoadMessages, ChatPane
<1>2. requests' \in SUBSET [chat : ChatIds, req : 1..MaxRequests]
    BY <1>1 DEF LoadMessages, ChatPane
<1>3. paneLoading' \in BOOLEAN /\ messages' = messages
    BY Zenon DEF LoadMessages
<1> QED
    BY <1>1, <1>2, <1>3 DEF ChatPane

LEMMA RenderTyped ==
    ASSUME ChatLists, ChatPane, NEW rws \in SUBSET Row, NEW chats, NEW s, NEW sel \in NoOrChat,
           Rendered(chats, rws, s, sel)
    PROVE  ChatPane'
<1> DEFINE kept == Reselect(sel, chats, rws, s)
           next == Selected(kept, rws)
<1>1. selectedId' = kept /\ PaneEffect(next)
    BY DEF Rendered
<1>2. kept \in NoOrChat
    BY ChosenIs
<1>3. next.chat \in NoOrChat
    <2> HIDE DEF kept
    <2> QED
        BY <1>2, ChosenIs
<1>4. ASSUME UNCHANGED paneVars PROVE ChatPane'
    BY <1>1, <1>2, <1>4 DEF ChatPane, paneVars
<1>5. ASSUME messages' = NoMessages, UNCHANGED <<reqId, paneLoading, requests>> PROVE ChatPane'
    <2>1. NoMessages \in [chat : NoOrChat, req : 0..MaxRequests]
        BY ChatsAssumption DEF NoMessages, NoOrChat
    <2> QED
        BY <1>1, <1>2, <1>5, <2>1 DEF ChatPane
<1>6. ASSUME LoadMessages(next.chat), next.chat # NoChat PROVE ChatPane'
    <2>1. PICK c : c = next.chat
        OBVIOUS
    <2>2. c \in ChatIds /\ LoadMessages(c)
        BY <1>3, <1>6, <2>1 DEF NoOrChat
    <2> QED
        BY <1>1, <1>2, <2>2, LoadTyped
<1> HIDE DEF next, kept
<1> QED
    BY <1>1, <1>4, <1>5, <1>6 DEF PaneEffect

LEMMA ListLoadTyped ==
    ASSUME ChatLists, NEW b \in BOOLEAN, StartListLoad(b)
    PROVE  /\ failed' \in SUBSET BOOLEAN /\ loadingList' \in SUBSET BOOLEAN
           /\ listLoads' \in 0..MaxListLoads
BY ChatsAssumption DEF ChatLists, StartListLoad

\* A render of no rows, and one of the rows that were read.
LEMMA RenderedTyped ==
    ASSUME ChatLists, ChatPane,
           \E chats : \E rws \in SUBSET Row : \E s : \E sel \in NoOrChat : Rendered(chats, rws, s, sel)
    PROVE  ChatPane'
BY RenderTyped

LEMMA PaneStays == ASSUME ChatPane, UNCHANGED <<selectedId, paneVars>> PROVE ChatPane'
BY DEF ChatPane, paneVars

LEMMA FieldStays == ASSUME ChatField, UNCHANGED fieldVars PROVE ChatField'
BY DEF ChatField, fieldVars

LEMMA ListsStay == ASSUME ChatLists, UNCHANGED <<listVars, search>> PROVE ChatLists'
BY DEF ChatLists, listVars

LEMMA ListActionsTyped ==
    ASSUME ChatLists, ChatPane,
           \/ RefreshList \/ ToggleUnread \/ Search \/ MarkAllRead \/ MarkAllReadDone
           \/ \E b \in BOOLEAN : ListAnswered(b) \/ ListFailed(b)
           \/ \E c \in ChatIds : ClickRow(c) \/ EmployerWrites(c)
    PROVE  ChatLists' /\ ChatPane' /\ UNCHANGED fieldVars
<1>0. unreadOnly \in BOOLEAN /\ selectedId \in NoOrChat
    BY DEF ChatLists, ChatPane
<1>1. CASE RefreshList
    <2>1. /\ failed' \in SUBSET BOOLEAN /\ loadingList' \in SUBSET BOOLEAN
          /\ listLoads' \in 0..MaxListLoads
        BY <1>0, <1>1, ListLoadTyped DEF RefreshList
    <2>2. ChatLists'
        BY <1>1, <2>1 DEF RefreshList, ChatLists
    <2> QED
        BY <1>1, <2>2, PaneStays DEF RefreshList
<1>2. CASE ToggleUnread
    <2> DEFINE b == ~unreadOnly
    <2>1. b \in BOOLEAN
        BY <1>0
    <2>2. unreadOnly' = b /\ UNCHANGED <<deepLink, unread, lists, listed, search, fieldVars, markingRead>>
        BY <1>2 DEF ToggleUnread
    <2>3. \/ UNCHANGED <<failed, loadingList, listLoads>>
          \/ StartListLoad(b)
        BY <1>2 DEF ToggleUnread
    <2>4. Rendered(b \in listed \cup failed', IF b \in failed' THEN {} ELSE lists[b], search, selectedId)
        BY <1>2 DEF ToggleUnread
    <2> HIDE DEF b
    <2>5. /\ failed' \in SUBSET BOOLEAN /\ loadingList' \in SUBSET BOOLEAN
          /\ listLoads' \in 0..MaxListLoads
        BY <2>1, <2>3, ListLoadTyped DEF ChatLists
    <2>6. ChatLists'
        BY <2>1, <2>2, <2>5 DEF ChatLists
    <2>7. (IF b \in failed' THEN {} ELSE lists[b]) \in SUBSET Row
        BY <2>1 DEF ChatLists
    <2>8. ChatPane'
        BY <1>0, <2>4, <2>7, RenderedTyped
    <2> QED
        BY <2>2, <2>6, <2>8
<1>3. CASE Search
    <2>1. Rendered(Known(unreadOnly), Shown(unreadOnly), search', selectedId)
        BY <1>3 DEF Search
    <2>2. ChatPane'
        BY <1>0, <2>1, ShownIs, RenderedTyped
    <2>3. search' \in BOOLEAN
        BY <1>3 DEF Search, ChatLists
    <2>4. ChatLists'
        BY <1>3, <2>3 DEF Search, ChatLists, listVars
    <2> QED
        BY <1>3, <2>2, <2>4 DEF Search
<1>4. CASE MarkAllRead
    <2>1. \A r \in Shown(unreadOnly) : r.id \in ChatIds
        BY ShownIs DEF Row
    <2>2. markingRead' \in SUBSET ChatIds
        BY <1>4, <2>1 DEF MarkAllRead
    <2>3. ChatLists'
        BY <1>4, <2>2 DEF MarkAllRead, ChatLists
    <2> QED
        BY <1>4, <2>3, PaneStays DEF MarkAllRead
<1>5. CASE MarkAllReadDone
    <2>1. /\ failed' \in SUBSET BOOLEAN /\ loadingList' \in SUBSET BOOLEAN
          /\ listLoads' \in 0..MaxListLoads
        BY <1>0, <1>5, ListLoadTyped DEF MarkAllReadDone, ChatLists
    <2>2. unread' \in SUBSET ChatIds
        BY <1>5 DEF MarkAllReadDone, ChatLists
    <2>3. ChatLists'
        BY <1>5, <2>1, <2>2 DEF MarkAllReadDone, ChatLists
    <2> QED
        BY <1>5, <2>3, PaneStays DEF MarkAllReadDone
<1>6. ASSUME NEW b \in BOOLEAN, ListAnswered(b) PROVE ChatLists' /\ ChatPane' /\ UNCHANGED fieldVars
    <2> DEFINE rws == {[id |-> c, updates |-> c \in unread] : c \in (IF b THEN unread ELSE ChatIds) \ Beyond}
    <2>1. /\ lists' = [lists EXCEPT ![b] = rws] /\ listed' = listed \cup {b}
          /\ failed' = failed \ {b} /\ loadingList' = loadingList \ {b}
          /\ IF b = unreadOnly THEN Rendered(TRUE, rws, search, selectedId)
                               ELSE UNCHANGED <<selectedId, paneVars>>
          /\ UNCHANGED <<deepLink, unread, unreadOnly, listLoads, search, fieldVars, markingRead>>
        BY <1>6 DEF ListAnswered
    <2>2. rws \in SUBSET Row
        <3>1. \A c \in (IF b THEN unread ELSE ChatIds) \ Beyond : c \in ChatIds
            BY DEF ChatLists
        <3>2. \A c \in ChatIds : [id |-> c, updates |-> c \in unread] \in Row
            <4> TAKE c \in ChatIds
            <4> DEFINE u == c \in unread
            <4>1. u \in BOOLEAN
                OBVIOUS
            <4> HIDE DEF u
            <4>2. [id |-> c, updates |-> u] \in Row
                BY <4>1 DEF Row
            <4> QED
                BY <4>2 DEF u
        <3> QED
            BY <3>1, <3>2
    <2> HIDE DEF rws
    <2>3. ChatLists'
        BY <2>1, <2>2 DEF ChatLists
    <2>4. ChatPane'
        BY <1>0, <2>1, <2>2, PaneStays, RenderedTyped
    <2> QED
        BY <2>1, <2>3, <2>4
<1>7. ASSUME NEW b \in BOOLEAN, ListFailed(b) PROVE ChatLists' /\ ChatPane' /\ UNCHANGED fieldVars
    <2>1. /\ loadingList' = loadingList \ {b} /\ failed' = failed \cup {b}
          /\ IF b = unreadOnly THEN Rendered(TRUE, {}, search, selectedId)
                               ELSE UNCHANGED <<selectedId, paneVars>>
          /\ UNCHANGED <<deepLink, unread, unreadOnly, lists, listed, listLoads, search, fieldVars,
                         markingRead>>
        BY <1>7 DEF ListFailed
    <2>2. ChatLists'
        BY <2>1 DEF ChatLists
    <2>3. {} \in SUBSET Row
        OBVIOUS
    <2>4. ChatPane'
        BY <1>0, <2>1, <2>3, PaneStays, RenderedTyped
    <2> QED
        BY <2>1, <2>2, <2>4
<1>8. ASSUME NEW c \in ChatIds, ClickRow(c) PROVE ChatLists' /\ ChatPane' /\ UNCHANGED fieldVars
    <2>1. Rendered(Known(unreadOnly), Shown(unreadOnly), search, c) /\ c \in NoOrChat
        BY <1>8 DEF ClickRow, NoOrChat
    <2>2. ChatPane'
        BY <2>1, ShownIs, RenderedTyped
    <2> QED
        BY <1>8, <2>2, ListsStay DEF ClickRow
<1>9. ASSUME NEW c \in ChatIds, EmployerWrites(c) PROVE ChatLists' /\ ChatPane' /\ UNCHANGED fieldVars
    <2>1. ChatLists'
        BY <1>9 DEF EmployerWrites, ChatLists
    <2> QED
        BY <1>9, <2>1, PaneStays DEF EmployerWrites
<1> QED
    BY <1>1, <1>2, <1>3, <1>4, <1>5, <1>6, <1>7, <1>8, <1>9

Sending == [chat : ChatIds, text : Fields, reload : 0..MaxRequests]

LEMMA MessageActionsTyped ==
    ASSUME ChatLists, ChatPane, ChatField,
           \/ RefreshMessages
           \/ \E r \in requests : MessagesAnswered(r)
           \/ \E c \in ChatIds : OnSend(c)
           \/ \E t \in Fields : Type(t)
           \/ \E i \in DOMAIN sends : SendPosted(i) \/ SendFailed(i) \/ SendDone(i)
    PROVE  ChatLists' /\ ChatPane' /\ ChatField'
<1>0. /\ unreadOnly \in BOOLEAN /\ selectedId \in NoOrChat /\ sends \in Seq(Sending)
      /\ text \in Fields /\ sending \in BOOLEAN /\ sent \in 0..MaxSends
    BY DEF ChatLists, ChatPane, ChatField, Sending
<1>1. ASSUME text' \in Fields, sending' \in BOOLEAN, sends' \in Seq(Sending), sent' \in 0..MaxSends
      PROVE  ChatField'
    BY <1>1 DEF ChatField, Sending
<1>2. CASE RefreshMessages
    <2>1. PICK c : c = Pane.chat
        OBVIOUS
    <2>2. c \in ChatIds /\ LoadMessages(c) /\ selectedId' \in NoOrChat
        BY <1>0, <1>2, <2>1, PaneIs DEF RefreshMessages, NoOrChat
    <2>3. ChatPane'
        BY <2>2, LoadTyped
    <2> QED
        BY <1>2, <2>3, ListsStay, FieldStays DEF RefreshMessages
<1>3. ASSUME NEW r \in requests, MessagesAnswered(r) PROVE ChatLists' /\ ChatPane' /\ ChatField'
    <2>1. r.chat \in ChatIds /\ r.req \in 1..MaxRequests
        BY DEF ChatPane
    <2>2. [chat |-> r.chat, req |-> r.req] \in [chat : NoOrChat, req : 0..MaxRequests]
        BY <2>1, ChatsAssumption DEF NoOrChat
    <2>3. messages' \in [chat : NoOrChat, req : 0..MaxRequests] /\ requests' \subseteq requests
        BY <1>3, <2>2 DEF MessagesAnswered, ChatPane
    <2>4. paneLoading' \in BOOLEAN
        <3>1. paneLoading' = FALSE \/ paneLoading' = paneLoading
            BY <1>3 DEF MessagesAnswered
        <3>2. paneLoading \in BOOLEAN
            BY DEF ChatPane
        <3> QED
            BY <3>1, <3>2, Zenon
    <2>5. ChatPane'
        BY <1>3, <2>3, <2>4 DEF MessagesAnswered, ChatPane
    <2> QED
        BY <1>3, <2>5, ListsStay, FieldStays DEF MessagesAnswered
<1>4. ASSUME NEW c \in ChatIds, OnSend(c) PROVE ChatLists' /\ ChatPane' /\ ChatField'
    <2>1. /\ sent < MaxSends /\ sent' = sent + 1
          /\ sends' = Append(sends, [chat |-> c, text |-> text, reload |-> 0])
          /\ UNCHANGED <<listVars, search, selectedId, paneVars, text>>
        BY <1>4, Zenon DEF OnSend
    <2>2. sending' \in BOOLEAN
        BY <1>4, Zenon DEF OnSend
    <2>3. [chat |-> c, text |-> text, reload |-> 0] \in Sending
        BY <1>0, ChatsAssumption DEF Sending
    <2>4. sends' \in Seq(Sending)
        BY <1>0, <2>1, <2>3
    <2>5. sent' \in 0..MaxSends
        BY <1>0, <2>1, ChatsAssumption
    <2>6. ChatField'
        BY <1>0, <1>1, <2>1, <2>2, <2>4, <2>5
    <2> QED
        BY <2>1, <2>6, ListsStay, PaneStays
<1>5. ASSUME NEW t \in Fields, Type(t) PROVE ChatLists' /\ ChatPane' /\ ChatField'
    <2>1. text' = t /\ UNCHANGED <<listVars, search, selectedId, paneVars, sending, sends, sent>>
        BY <1>5 DEF Type
    <2>2. ChatField'
        BY <1>0, <1>1, <2>1
    <2> QED
        BY <2>1, <2>2, ListsStay, PaneStays
<1>6. ASSUME NEW i \in DOMAIN sends, SendPosted(i) PROVE ChatLists' /\ ChatPane' /\ ChatField'
    <2>1. /\ LoadMessages(sends[i].chat) /\ sends' = [sends EXCEPT ![i].reload = reqId + 1]
          /\ UNCHANGED <<listVars, search, selectedId, text, sending, sent>>
        BY <1>6 DEF SendPosted
    <2>2. sends[i] \in Sending
        BY <1>0
    <2>3. PICK c : c = sends[i].chat
        OBVIOUS
    <2>4. c \in ChatIds /\ LoadMessages(c) /\ selectedId' \in NoOrChat
        BY <1>0, <2>1, <2>2, <2>3 DEF Sending
    <2>5. ChatPane' /\ reqId' = reqId + 1 /\ reqId' \in 1..MaxRequests
        BY <2>4, LoadTyped
    <2>6. [sends[i] EXCEPT !.reload = reqId + 1] \in Sending
        BY <2>2, <2>5, ChatsAssumption DEF Sending
    <2>7. sends' \in Seq(Sending)
        BY <1>0, <2>1, <2>6, Changed
    <2>8. ChatField'
        BY <1>0, <1>1, <2>1, <2>7
    <2> QED
        BY <2>1, <2>5, <2>8, ListsStay
<1>7. ASSUME NEW i \in DOMAIN sends, SendFailed(i) PROVE ChatLists' /\ ChatPane' /\ ChatField'
    <2>1. sends' = RemoveAt(sends, i) /\ UNCHANGED <<listVars, search, selectedId, paneVars, text, sent>>
        BY <1>7 DEF SendFailed
    <2>2. sending' \in BOOLEAN
        BY <1>7, Zenon DEF SendFailed
    <2>3. sends' \in Seq(Sending)
        BY <1>0, <2>1, Shortened
    <2>4. ChatField'
        BY <1>0, <1>1, <2>1, <2>2, <2>3
    <2> QED
        BY <2>1, <2>4, ListsStay, PaneStays
<1>8. ASSUME NEW i \in DOMAIN sends, SendDone(i) PROVE ChatLists' /\ ChatPane' /\ ChatField'
    <2>1. /\ sends' = RemoveAt(sends, i) /\ StartListLoad(unreadOnly)
          /\ UNCHANGED <<deepLink, unread, unreadOnly, lists, listed, markingRead, search, selectedId,
                         paneVars, sent>>
        BY <1>8, Zenon DEF SendDone
    <2>2. text' \in Fields /\ sending' \in BOOLEAN
        BY <1>8, Zenon DEF SendDone, Fields
    <2>3. sends' \in Seq(Sending)
        BY <1>0, <2>1, Shortened
    <2>4. ChatField'
        BY <1>0, <1>1, <2>1, <2>2, <2>3
    <2>5. /\ failed' \in SUBSET BOOLEAN /\ loadingList' \in SUBSET BOOLEAN
          /\ listLoads' \in 0..MaxListLoads
        BY <1>0, <2>1, ListLoadTyped
    <2>6. ChatLists'
        BY <2>1, <2>5 DEF ChatLists
    <2> QED
        BY <2>1, <2>4, <2>6, PaneStays
<1> QED
    BY <1>2, <1>3, <1>4, <1>5, <1>6, <1>7, <1>8

LEMMA ChatsInitially == ASSUME ChatsInit PROVE ChatLists /\ ChatPane /\ ChatField
<1>1. ChatLists
    <2>1. unreadOnly \in BOOLEAN /\ search \in BOOLEAN
        BY Zenon DEF ChatsInit
    <2>2. loadingList \in SUBSET BOOLEAN /\ listLoads \in 0..MaxListLoads
        <3>1. loadingList = {FALSE} /\ listLoads = 1
            BY Zenon DEF ChatsInit
        <3>2. loadingList \in SUBSET BOOLEAN
            BY <3>1
        <3> QED
            BY <3>1, <3>2, ChatsAssumption
    <2>3. /\ deepLink \in DeepLinks /\ unread = {} /\ lists = [b \in BOOLEAN |-> {}]
          /\ listed = {} /\ failed = {} /\ markingRead = {}
        BY Zenon DEF ChatsInit
    <2> QED
        BY <2>1, <2>2, <2>3 DEF ChatLists
<1>2. ChatPane
    <2>1. PICK load \in BOOLEAN : load = (deepLink # NoChat)
        OBVIOUS
    <2>2. /\ deepLink \in DeepLinks /\ selectedId = NoChat /\ messages = NoMessages
          /\ reqId = IF load THEN 1 ELSE 0
          /\ requests = IF load THEN {[chat |-> deepLink, req |-> 1]} ELSE {}
          /\ paneLoading = load
        BY <2>1, Zenon DEF ChatsInit
    <2>3. load => deepLink \in ChatIds
        BY <2>1, <2>2, ChatsAssumption
    <2>4. reqId \in 0..MaxRequests /\ requests \in SUBSET [chat : ChatIds, req : 1..MaxRequests]
        BY <2>2, <2>3, ChatsAssumption
    <2>5. messages \in [chat : NoOrChat, req : 0..MaxRequests]
        BY <2>2, ChatsAssumption DEF NoMessages, NoOrChat
    <2>6. paneLoading \in BOOLEAN
        BY <2>2, Zenon
    <2> QED
        BY <2>2, <2>4, <2>5, <2>6 DEF ChatPane, NoOrChat
<1>3. ChatField
    <2>1. text \in Fields /\ sending \in BOOLEAN /\ sends = <<>> /\ sent = 0
        BY Zenon DEF ChatsInit, Fields
    <2> QED
        BY <2>1, ChatsAssumption DEF ChatField
<1> QED
    BY <1>1, <1>2, <1>3

LEMMA ChatsTyped ==
    ASSUME ChatLists, ChatPane, ChatField, [ChatsNext]_chatsVars
    PROVE  ChatLists' /\ ChatPane' /\ ChatField'
<1>1. CASE UNCHANGED chatsVars
    BY <1>1, ListsStay, PaneStays, FieldStays DEF chatsVars, listVars, paneVars, fieldVars
<1>2. CASE ChatsNext
    BY <1>2, ListActionsTyped, MessageActionsTyped, FieldStays DEF ChatsNext, ChatsUser
<1> QED
    BY <1>1, <1>2

\* ChatsTypeOK: every variable of the chats page has its type; a message is
\* asked for, sent and shown only for a chat of the list or the deep link's.
THEOREM ChatsTypeCorrect == ChatsSpec => []ChatsTypeOK
<1>1. ChatsInit => ChatLists /\ ChatPane /\ ChatField
    BY ChatsInitially
<1>2. ChatLists /\ ChatPane /\ ChatField /\ [ChatsNext]_chatsVars => (ChatLists /\ ChatPane /\ ChatField)'
    BY ChatsTyped
<1>3. ChatLists /\ ChatPane /\ ChatField => ChatsTypeOK
    BY DEF ChatLists, ChatPane, ChatField, NoOrChat, ChatsTypeOK
<1> QED
    BY <1>1, <1>2, <1>3, PTL DEF ChatsSpec

-----------------------------------------------------------------------------
(* The page that connects an hh account (HHConnect)                          *)

LEMMA ConnectInitially == ASSUME ConnectInit PROVE ConnectTypeOK
BY HHConnectAssumption DEF ConnectInit, ConnectTypeOK, NoPost, JobStatus, Asking, Ended

LEMMA JobsTyped ==
    ASSUME ConnectTypeOK, UNCHANGED <<hookVars, pageVars>>,
           \/ \E j \in LoginJobs : JobAsks(j) \/ JobTakesAnswer(j) \/ JobEnds(j)
           \/ ForgetJobs
    PROVE  ConnectTypeOK'
<1> USE DEF ConnectTypeOK, hookVars, pageVars, JobStatus, Asking, Ended
<1>1. CASE \E j \in LoginJobs : JobAsks(j)
    BY <1>1 DEF JobAsks
<1>2. CASE \E j \in LoginJobs : JobTakesAnswer(j)
    BY <1>2 DEF JobTakesAnswer
<1>3. CASE \E j \in LoginJobs : JobEnds(j)
    <2>1. PICK j \in LoginJobs : JobEnds(j)
        BY <1>3
    <2>2. jobs' \in [LoginJobs -> {"none", "lost"} \cup JobStatus]
        BY <2>1 DEF JobEnds
    <2>3. connected' \in BOOLEAN
        BY <2>1, Zenon DEF JobEnds
    <2> QED
        BY <2>1, <2>2, <2>3 DEF JobEnds
<1>4. CASE ForgetJobs
    BY <1>4 DEF ForgetJobs
<1> QED
    BY <1>1, <1>2, <1>3, <1>4

Polls == [job : LoginJobs, status : {"asked", "error"} \cup JobStatus]

LEMMA PollsTyped ==
    ASSUME ConnectTypeOK,
           PollTick \/ \E p \in polls : PollServed(p) \/ PollLost(p) \/ PollAnswered(p)
    PROVE  ConnectTypeOK'
<1>1. /\ polls \in SUBSET Polls /\ timer \in {0} \cup LoginJobs
      /\ phase \in {"idle"} \cup JobStatus
    BY DEF ConnectTypeOK, Polls
<1>2. ASSUME polls' \in SUBSET Polls, timer' \in {0} \cup LoginJobs,
             phase' \in {"idle"} \cup JobStatus, UNCHANGED <<serverVars, jobId, posting, pageVars>>
      PROVE  ConnectTypeOK'
    BY <1>2 DEF ConnectTypeOK, Polls, serverVars, pageVars
<1>3. CASE PollTick
    BY <1>1, <1>2, <1>3 DEF PollTick, Polls
<1>4. ASSUME NEW p \in polls, NEW s \in {"asked", "error"} \cup JobStatus
      PROVE  (polls \ {p}) \cup {[p EXCEPT !.status = s]} \in SUBSET Polls
    BY <1>1 DEF Polls
<1>5. ASSUME NEW p \in polls, PollServed(p) PROVE ConnectTypeOK'
    <2>1. (IF jobs[p.job] \in JobStatus THEN jobs[p.job] ELSE "error")
             \in {"asked", "error"} \cup JobStatus
        OBVIOUS
    <2>2. polls' \in SUBSET Polls
        BY <1>4, <1>5, <2>1 DEF PollServed
    <2> QED
        BY <1>1, <1>2, <1>5, <2>2 DEF PollServed
<1>6. ASSUME NEW p \in polls, PollLost(p) PROVE ConnectTypeOK'
    BY <1>1, <1>2, <1>4, <1>6 DEF PollLost
<1>7. ASSUME NEW p \in polls, PollAnswered(p) PROVE ConnectTypeOK'
    <2>1. phase' \in {"idle"} \cup JobStatus
        BY <1>1, <1>7 DEF PollAnswered, Polls, JobStatus, Ended
    <2> QED
        BY <1>1, <1>2, <1>7, <2>1 DEF PollAnswered
<1> QED
    BY <1>3, <1>5, <1>6, <1>7

\* The requests of the page and what the user does on it.
LEMMA PageTyped ==
    ASSUME ConnectTypeOK,
           \/ ConnectUser \/ OpenDashboard \/ HHStatusAnswered \/ DisconnectAnswered
           \/ StartAnswered \/ SubmitAnswered
    PROVE  ConnectTypeOK'
<1> USE DEF ConnectTypeOK, serverVars, hookVars, pageVars
<1>1. CASE ConnectUser
    <2>1. CASE Disconnect
        BY <2>1 DEF Disconnect
    <2>2. CASE ChooseMethod
        BY <2>2 DEF ChooseMethod
    <2>3. CASE SubmitForm
        BY <2>3 DEF SubmitForm, Start
    <2>4. CASE SubmitPanel
        BY <2>4 DEF SubmitPanel, SubmitAnswer
    <2>5. CASE TryAgain
        BY <2>5 DEF TryAgain, Reset
    <2> QED
        BY <1>1, <2>1, <2>2, <2>3, <2>4, <2>5 DEF ConnectUser
<1>2. CASE OpenDashboard
    BY <1>2 DEF OpenDashboard
<1>3. CASE HHStatusAnswered
    BY <1>3 DEF HHStatusAnswered
<1>4. CASE DisconnectAnswered
    BY <1>4 DEF DisconnectAnswered, Reset
<1>5. CASE StartAnswered
    BY <1>5 DEF StartAnswered, NoPost, JobStatus, Ended
<1>6. CASE SubmitAnswered
    <2>1. answers' \in [LoginJobs -> SUBSET Asking]
        BY <1>6 DEF SubmitAnswered
    <2>2. timer' \in {0} \cup LoginJobs
        BY <1>6 DEF SubmitAnswered
    <2> QED
        BY <1>6, <2>1, <2>2 DEF SubmitAnswered, NoPost, JobStatus
<1> QED
    BY <1>1, <1>2, <1>3, <1>4, <1>5, <1>6

LEMMA ConnectTyped == ASSUME ConnectTypeOK, [ConnectNext]_connectVars PROVE ConnectTypeOK'
<1>1. CASE UNCHANGED connectVars
    BY <1>1 DEF connectVars, ConnectTypeOK
<1>2. CASE ConnectNext
    <2>1. ASSUME NEW j \in LoginJobs, JobAsks(j) \/ JobTakesAnswer(j) \/ JobEnds(j)
          PROVE  UNCHANGED <<hookVars, pageVars>>
        BY <2>1 DEF JobAsks, JobTakesAnswer, JobEnds
    <2>2. ASSUME ForgetJobs PROVE UNCHANGED <<hookVars, pageVars>>
        BY <2>2 DEF ForgetJobs
    <2> QED
        BY <1>2, <2>1, <2>2, JobsTyped, PollsTyped, PageTyped DEF ConnectNext
<1> QED
    BY <1>1, <1>2

THEOREM ConnectTypeCorrect == ConnectSpec => []ConnectTypeOK
<1>1. ConnectInit => ConnectTypeOK
    BY ConnectInitially
<1>2. ConnectTypeOK /\ [ConnectNext]_connectVars => ConnectTypeOK'
    BY ConnectTyped
<1> QED
    BY <1>1, <1>2, PTL DEF ConnectSpec

-----------------------------------------------------------------------------
(* The worker's bar and the tour (Shell)                                     *)

LEMMA ShellInitially == ASSUME ShellInit PROVE ShellTypeOK
<1>1. Nothing \in Status
    BY DEF Nothing, Status
<1>2. reloads \subseteq (1..MaxReloads) \X {"asked", "none", "some"}
    BY ShellAssumption DEF ShellInit
<1>3. working \in BOOLEAN /\ minimized \in BOOLEAN /\ finalSlide \in BOOLEAN /\ syncing \in BOOLEAN
    BY Zenon DEF ShellInit
<1>4. flags \in [Switches -> BOOLEAN] /\ account \in SUBSET Parts /\ onboarded \in BOOLEAN
    BY DEF ShellInit
<1>5. tourKnows \in SUBSET Parts /\ changes \in 0..MaxChanges /\ missed \in 0..MaxMissed
    BY ShellAssumption DEF ShellInit
<1>6. /\ status \in Status /\ fetched \in Status /\ fetchStage = "asked" /\ switching = {}
      /\ tour = "unknown"
    BY <1>1, Zenon DEF ShellInit
<1> QED
    BY <1>2, <1>3, <1>4, <1>5, <1>6 DEF ShellTypeOK

\* What is offered is a request.
LEMMA OfferedTyped ==
    ASSUME NEW r \in WorkerBar \cup TourSwitches
    PROVE  r \in Request
<1>1. CASE r \in WorkerBar
    <2>1. PICK s \in Switches : r = [switch |-> s, on |-> ~On(s), place |-> "bar", served |-> FALSE]
        BY <1>1 DEF WorkerBar
    <2> DEFINE on == ~On(s)
    <2>2. on \in BOOLEAN
        BY DEF On
    <2>3. r = [switch |-> s, on |-> on, place |-> "bar", served |-> FALSE]
        BY <2>1
    <2> HIDE DEF on
    <2> QED
        BY <2>2, <2>3 DEF Request
<1>2. CASE r \in TourSwitches
    <2>1. \E s \in Switches :
            r = [switch |-> s, on |-> TRUE, place |-> "tour", served |-> FALSE]
        BY <1>2 DEF TourSwitches
    <2> QED
        BY <2>1 DEF Request
<1> QED
    BY <1>1, <1>2

\* The query, the switches and what happens elsewhere.
LEMMA StatusTyped ==
    ASSUME ShellTypeOK,
           \/ StatusPoll \/ StatusRead \/ StatusAnswered \/ StatusMissed
           \/ \E r \in WorkerBar \cup TourSwitches : Switch(r)
           \/ \E r \in switching : SwitchServed(r) \/ SwitchAnswered(r) \/ SwitchFailed(r)
           \/ Elsewhere
    PROVE  ShellTypeOK'
<1> USE ShellAssumption DEF ShellTypeOK, shellServerVars, statusVars, tourVars
<1>1. CASE StatusPoll
    BY <1>1 DEF StatusPoll
<1>2. CASE StatusRead
    BY <1>2 DEF StatusRead, Status
<1>3. CASE StatusAnswered
    BY <1>3 DEF StatusAnswered
<1>4. CASE StatusMissed
    BY <1>4 DEF StatusMissed
<1>5. CASE \E r \in WorkerBar \cup TourSwitches : Switch(r)
    BY <1>5, OfferedTyped DEF Switch
<1>6. ASSUME NEW r \in switching, SwitchServed(r) PROVE ShellTypeOK'
    <2>1. r \in Request
        OBVIOUS
    <2>2. [r EXCEPT !.served = TRUE] \in Request
        BY <2>1 DEF Request
    <2>3. flags' \in [Switches -> BOOLEAN] /\ working' \in BOOLEAN
        BY <1>6, <2>1 DEF SwitchServed, Request
    <2>4. switching' \in SUBSET Request
        BY <1>6, <2>2 DEF SwitchServed
    <2> QED
        BY <1>6, <2>3, <2>4 DEF SwitchServed
<1>7. ASSUME NEW r \in switching, SwitchAnswered(r) PROVE ShellTypeOK'
    BY <1>7 DEF SwitchAnswered
<1>8. ASSUME NEW r \in switching, SwitchFailed(r) PROVE ShellTypeOK'
    BY <1>8 DEF SwitchFailed
<1>9. CASE Elsewhere
    <2>1. account' \in SUBSET Parts
        BY <1>9 DEF Elsewhere, Parts
    <2>2. flags' \in [Switches -> BOOLEAN]
        BY <1>9 DEF Elsewhere
    <2>3. working' \in BOOLEAN
        BY <1>9 DEF Elsewhere
    <2> QED
        BY <1>9, <2>1, <2>2, <2>3 DEF Elsewhere
<1> QED
    BY <1>1, <1>2, <1>3, <1>4, <1>5, <1>6, <1>7, <1>8, <1>9

LEMMA TourTyped ==
    ASSUME ShellTypeOK,
           \/ ProfileRead \/ AccountRead \/ SyncResumes \/ SyncAnswered
           \/ OpenFilters \/ ResumeTour \/ ReloadTick \/ Reopen \/ NextSlide \/ Finish
           \/ \E l \in reloads : FiltersRead(l) \/ FiltersAnswered(l) \/ FiltersMissed(l)
    PROVE  ShellTypeOK'
<1> USE ShellAssumption DEF ShellTypeOK, shellServerVars, statusVars, Parts
<1>1. CASE ProfileRead
    BY <1>1 DEF ProfileRead
<1>2. CASE AccountRead
    BY <1>2 DEF AccountRead
<1>3. CASE SyncResumes
    BY <1>3 DEF SyncResumes
<1>4. CASE SyncAnswered
    BY <1>4 DEF SyncAnswered
<1>5. CASE OpenFilters
    BY <1>5 DEF OpenFilters
<1>6. CASE ResumeTour
    <2>1. reloads' \subseteq (1..MaxReloads) \X {"asked", "none", "some"}
        BY <1>6 DEF ResumeTour, StartReload
    <2>2. minimized' \in BOOLEAN
        BY <1>6, Zenon DEF ResumeTour
    <2> QED
        BY <1>6, <2>1, <2>2 DEF ResumeTour
<1>7. CASE ReloadTick
    BY <1>7 DEF ReloadTick, StartReload
<1>8. CASE Reopen
    BY <1>8 DEF Reopen
<1>9. CASE NextSlide
    BY <1>9 DEF NextSlide
<1>10. CASE Finish
    BY <1>10 DEF Finish
<1>11. ASSUME NEW l \in reloads, FiltersRead(l) \/ FiltersAnswered(l) \/ FiltersMissed(l)
       PROVE  ShellTypeOK'
    <2>1. l[1] \in 1..MaxReloads
        OBVIOUS
    <2>2. CASE FiltersRead(l)
        BY <2>1, <2>2 DEF FiltersRead
    <2>3. CASE FiltersAnswered(l)
        BY <2>3 DEF FiltersAnswered
    <2>4. CASE FiltersMissed(l)
        BY <2>4 DEF FiltersMissed
    <2> QED
        BY <1>11, <2>2, <2>3, <2>4
<1> QED
    BY <1>1, <1>2, <1>3, <1>4, <1>5, <1>6, <1>7, <1>8, <1>9, <1>10, <1>11

LEMMA ShellTyped == ASSUME ShellTypeOK, [ShellNext]_shellVars PROVE ShellTypeOK'
<1>1. CASE UNCHANGED shellVars
    BY <1>1 DEF shellVars, shellServerVars, statusVars, tourVars, ShellTypeOK
<1>2. CASE ShellNext
    BY <1>2, StatusTyped, TourTyped DEF ShellNext
<1> QED
    BY <1>1, <1>2

THEOREM ShellTypeCorrect == ShellSpec => []ShellTypeOK
<1>1. ShellInit => ShellTypeOK
    BY ShellInitially
<1>2. ShellTypeOK /\ [ShellNext]_shellVars => ShellTypeOK'
    BY ShellTyped
<1> QED
    BY <1>1, <1>2, PTL DEF ShellSpec

-----------------------------------------------------------------------------
(* The pages that run the search and the sending (SenderPages).  Their type *)
(* invariant needs the numbers on the way: a poll, an answer and the run    *)
(* shown name a search that was started, and nothing with a malformed       *)
(* interval that would be stored was sent.                                  *)

Given(r) == r.id \in DOMAIN searches

FitCall == {c \in Call :
    /\ c.op = "poll" \/ (c.op = "runNow" /\ c.stage # "asked") => Given(c.run)
    /\ c.op \in {"configure", "resume"} => c.interval # "malformed"}

ServersTyped ==
    /\ searches \in Seq(Active \cup FINAL) /\ Len(searches) <= MaxRuns
    /\ control \in [desired : Desired, interval : Intervals \ {"malformed"}]
    /\ sendJobs \in [Jobs -> {"approved", "queued", "failed", "archived"}]

CallsFit == calls \in Seq(FitCall) /\ clicks \in 0..MaxClicks /\ lost \in 0..MaxLost

RunFollowed ==
    /\ run \in RunShown /\ (run = NoRun \/ Given(run))
    /\ effect \in RunShown /\ (effect = NoRun \/ Given(effect))
    /\ starting \in BOOLEAN

SendTyped ==
    /\ shownControl \in Control /\ intervalValue \in Intervals /\ busy \in BOOLEAN
    /\ shownJobs \in SUBSET Jobs /\ chosen \in SUBSET Jobs

SenderInv == path \in {"run", "send", "bulk"} /\ ServersTyped /\ CallsFit /\ RunFollowed /\ SendTyped

Operations == {"poll", "runNow", "loadControl", "configure", "resume", "pause", "stop_after_current",
               "loadJobs", "reset", "queueSelected"}

LEMMA NothingShown == NoRun \in RunShown /\ NoControl \in Control
BY SenderPagesAssumption DEF NoRun, RunShown, NoControl, Control, Intervals

LEMMA NewCallFits ==
    ASSUME NEW op \in Operations \ {"poll"}, NEW js \in SUBSET Jobs, NEW t \in Intervals,
           op \in {"configure", "resume"} => t # "malformed"
    PROVE  NewCall(op, js, t) \in FitCall
<1>1. NewCall(op, js, t) \in Call
    BY NothingShown DEF NewCall, Call, Operations
<1>2. /\ NewCall(op, js, t).op = op /\ NewCall(op, js, t).stage = "asked"
      /\ NewCall(op, js, t).interval = t
    BY DEF NewCall
<1> QED
    BY <1>1, <1>2 DEF FitCall

LEMMA PlainCallFits ==
    ASSUME NEW op \in Operations \ {"poll", "configure", "resume"}
    PROVE  PlainCall(op) \in FitCall
<1>1. "ten" \in Intervals
    BY DEF Intervals
<1>2. NewCall(op, {}, "ten") \in FitCall
    BY <1>1, NewCallFits
<1> QED
    BY <1>2 DEF PlainCall

LEMMA PollFits ==
    ASSUME NEW r \in RunShown, Given(r)
    PROVE  [PlainCall("poll") EXCEPT !.run = r] \in FitCall
<1> DEFINE c == [PlainCall("poll") EXCEPT !.run = r]
<1>1. PlainCall("poll") \in Call
    BY NothingShown DEF PlainCall, NewCall, Call, Intervals
<1>2. c \in Call
    BY <1>1 DEF Call
<1>3. c.op = "poll" /\ c.run = r
    BY DEF PlainCall, NewCall
<1> QED
    BY <1>2, <1>3 DEF FitCall

LEMMA WiderSeq ==
    ASSUME NEW S, NEW T, S \subseteq T, NEW s \in Seq(S)
    PROVE  s \in Seq(T)
OBVIOUS

\* A search once started stays one, so what is on the way stays fit.
LEMMA FitStays ==
    ASSUME DOMAIN searches \subseteq DOMAIN searches'
    PROVE  FitCall \subseteq FitCall'
BY DEF FitCall, Given

LEMMA CallsStay ==
    ASSUME CallsFit, DOMAIN searches \subseteq DOMAIN searches', UNCHANGED <<calls, clicks, lost>>
    PROVE  CallsFit'
<1>1. calls \in Seq(FitCall')
    BY FitStays, WiderSeq DEF CallsFit
<1> QED
    BY <1>1 DEF CallsFit

LEMMA RunStays ==
    ASSUME RunFollowed, DOMAIN searches \subseteq DOMAIN searches', UNCHANGED runVars
    PROVE  RunFollowed'
BY DEF RunFollowed, Given, runVars

LEMMA SendStays == ASSUME SendTyped, UNCHANGED sendVars PROVE SendTyped'
BY DEF SendTyped, sendVars

LEMMA ServersStay == ASSUME ServersTyped, UNCHANGED senderServerVars PROVE ServersTyped'
BY DEF ServersTyped, senderServerVars

LEMMA SenderInitially == ASSUME SenderPagesInit PROVE SenderInv
<1>1. path \in {"run", "send", "bulk"}
    BY DEF SenderPagesInit
<1>2. ServersTyped
    BY SenderPagesAssumption DEF SenderPagesInit, ServersTyped, Desired, Intervals
<1>3. PlainCall("loadControl") \in FitCall /\ PlainCall("loadJobs") \in FitCall
    BY PlainCallFits DEF Operations
<1>4. calls \in Seq(FitCall)
    BY <1>1, <1>3 DEF SenderPagesInit
<1>5. CallsFit
    BY <1>4, SenderPagesAssumption DEF SenderPagesInit, CallsFit
<1>6. RunFollowed
    <2>1. run = NoRun /\ effect = NoRun /\ starting \in BOOLEAN
        BY Zenon DEF SenderPagesInit
    <2> QED
        BY <2>1, NothingShown DEF RunFollowed
<1>7. SendTyped
    <2>1. busy \in BOOLEAN /\ shownControl = NoControl
        BY Zenon DEF SenderPagesInit
    <2>2. intervalValue \in Intervals /\ shownJobs = {} /\ chosen = {}
        BY DEF SenderPagesInit, Intervals
    <2> QED
        BY <2>1, <2>2, NothingShown DEF SendTyped
<1> QED
    BY <1>1, <1>2, <1>5, <1>6, <1>7 DEF SenderInv

-----------------------------------------------------------------------------
(* The user, the timers and the effects                                     *)

\* One more call, the searches as they were.
LEMMA OneMore ==
    ASSUME CallsFit, NEW c \in FitCall, calls' = Append(calls, c), UNCHANGED searches,
           clicks' \in 0..MaxClicks, lost' \in 0..MaxLost
    PROVE  CallsFit'
<1>1. calls' \in Seq(FitCall)
    BY DEF CallsFit
<1>2. FitCall \subseteq FitCall'
    BY FitStays
<1>3. calls' \in Seq(FitCall')
    BY <1>1, <1>2, WiderSeq
<1> QED
    BY <1>3 DEF CallsFit

LEMMA Clicked ==
    ASSUME SenderInv, NEW c \in FitCall, Click(c), UNCHANGED <<path, senderServerVars, lost>>
    PROVE  CallsFit' /\ ServersTyped' /\ path' \in {"run", "send", "bulk"}
<1>1. clicks' \in 0..MaxClicks /\ lost' \in 0..MaxLost /\ calls' = Append(calls, c)
    BY SenderPagesAssumption DEF SenderInv, CallsFit, Click
<1>2. CallsFit'
    BY <1>1, OneMore DEF SenderInv, senderServerVars
<1> QED
    BY <1>2, ServersStay DEF SenderInv

LEMMA SenderUserKeeps ==
    ASSUME SenderInv,
           \/ RunNow \/ RefreshJobs \/ ToggleRows \/ QueueSelected
           \/ \E t \in Intervals : TypeInterval(t)
           \/ \E op \in {"configure", "resume", "pause", "stop_after_current"} : ControlAction(op)
           \/ \E j \in Jobs : ResetJob(j)
    PROVE  SenderInv'
<1>0. RunFollowed /\ SendTyped /\ ServersTyped /\ CallsFit /\ path \in {"run", "send", "bulk"}
    BY DEF SenderInv
<1>1. CASE RunNow
    <2>1. PlainCall("runNow") \in FitCall
        BY PlainCallFits DEF Operations
    <2>2. CallsFit' /\ ServersTyped' /\ path' \in {"run", "send", "bulk"}
        BY <1>1, <2>1, Clicked DEF RunNow
    <2>3. starting' \in BOOLEAN
        BY <1>1, Zenon DEF RunNow
    <2>4. RunFollowed'
        BY <1>0, <1>1, <2>3 DEF RunNow, RunFollowed, Given, senderServerVars
    <2> QED
        BY <1>0, <1>1, <2>2, <2>4, SendStays DEF RunNow, SenderInv
<1>2. CASE RefreshJobs
    <2>1. PlainCall("loadJobs") \in FitCall
        BY PlainCallFits DEF Operations
    <2>2. CallsFit' /\ ServersTyped' /\ path' \in {"run", "send", "bulk"}
        BY <1>2, <2>1, Clicked DEF RefreshJobs
    <2> QED
        BY <1>0, <1>2, <2>2, RunStays, SendStays DEF RefreshJobs, SenderInv, senderServerVars
<1>3. CASE ToggleRows
    <2>1. chosen' \in SUBSET Jobs
        BY <1>0, <1>3 DEF ToggleRows, SendTyped
    <2>2. SendTyped'
        BY <1>0, <1>3, <2>1 DEF ToggleRows, SendTyped
    <2>3. UNCHANGED <<path, senderServerVars, calls, clicks, lost, runVars>>
        BY <1>3 DEF ToggleRows
    <2> QED
        BY <1>0, <2>2, <2>3, RunStays, CallsStay, ServersStay DEF SenderInv, senderServerVars
<1>4. CASE QueueSelected
    <2>1. "ten" \in Intervals /\ chosen \in SUBSET Jobs
        BY <1>0 DEF Intervals, SendTyped
    <2>2. NewCall("queueSelected", chosen, "ten") \in FitCall
        BY <2>1, NewCallFits DEF Operations
    <2>3. CallsFit' /\ ServersTyped' /\ path' \in {"run", "send", "bulk"}
        BY <1>4, <2>2, Clicked DEF QueueSelected
    <2>4. busy' \in BOOLEAN
        BY <1>4, Zenon DEF QueueSelected
    <2>5. SendTyped'
        BY <1>0, <1>4, <2>4 DEF QueueSelected, SendTyped
    <2> QED
        BY <1>0, <1>4, <2>3, <2>5, RunStays DEF QueueSelected, SenderInv, senderServerVars
<1>5. ASSUME NEW t \in Intervals, TypeInterval(t) PROVE SenderInv'
    <2>1. UNCHANGED <<path, senderServerVars, calls, clicks, lost, runVars>>
        BY <1>5 DEF TypeInterval
    <2>2. SendTyped'
        BY <1>0, <1>5 DEF TypeInterval, SendTyped
    <2> QED
        BY <1>0, <2>1, <2>2, RunStays, CallsStay, ServersStay DEF SenderInv, senderServerVars
<1>6. ASSUME NEW op \in {"configure", "resume", "pause", "stop_after_current"}, ControlAction(op)
      PROVE  SenderInv'
    <2>1. NewCall(op, {}, intervalValue) \in FitCall
        BY <1>0, <1>6, NewCallFits DEF ControlAction, Operations, SendTyped
    <2>2. CallsFit' /\ ServersTyped' /\ path' \in {"run", "send", "bulk"}
        BY <1>6, <2>1, Clicked DEF ControlAction
    <2>3. busy' \in BOOLEAN
        BY <1>6, Zenon DEF ControlAction
    <2>4. SendTyped'
        BY <1>0, <1>6, <2>3 DEF ControlAction, SendTyped
    <2> QED
        BY <1>0, <1>6, <2>2, <2>4, RunStays DEF ControlAction, SenderInv, senderServerVars
<1>7. ASSUME NEW j \in Jobs, ResetJob(j) PROVE SenderInv'
    <2>1. "ten" \in Intervals
        BY DEF Intervals
    <2>2. NewCall("reset", {j}, "ten") \in FitCall
        BY <2>1, NewCallFits DEF Operations
    <2>3. CallsFit' /\ ServersTyped' /\ path' \in {"run", "send", "bulk"}
        BY <1>7, <2>2, Clicked DEF ResetJob
    <2>4. SendTyped'
        BY <1>0, <1>7 DEF ResetJob, SendTyped
    <2> QED
        BY <1>0, <1>7, <2>3, <2>4, RunStays DEF ResetJob, SenderInv, senderServerVars
<1> QED
    BY <1>1, <1>2, <1>3, <1>4, <1>5, <1>6, <1>7

LEMMA SenderTimersKeep ==
    ASSUME SenderInv, RunPollTick \/ RunEffect
    PROVE  SenderInv'
<1>0. RunFollowed /\ SendTyped /\ ServersTyped /\ CallsFit /\ path \in {"run", "send", "bulk"}
    BY DEF SenderInv
<1>1. NoRun.status \notin Active
    BY DEF NoRun, Active
<1>2. CASE RunPollTick
    <2>1. UNCHANGED <<path, senderServerVars, clicks, lost, runVars, sendVars>>
        BY <1>2 DEF RunPollTick
    <2>2. \E c \in FitCall : calls' = Append(calls, c)
        <3>1. PlainCall("loadControl") \in FitCall
            BY PlainCallFits DEF Operations
        <3>2. ASSUME effect.status \in Active
              PROVE  [PlainCall("poll") EXCEPT !.run = effect] \in FitCall
            BY <1>0, <1>1, <3>2, PollFits DEF RunFollowed
        <3> QED
            BY <1>2, <3>1, <3>2 DEF RunPollTick
    <2>3. CallsFit'
        BY <1>0, <2>1, <2>2, OneMore DEF CallsFit, senderServerVars
    <2> QED
        BY <1>0, <2>1, <2>3, RunStays, SendStays, ServersStay DEF SenderInv, senderServerVars
<1>3. CASE RunEffect
    <2> DEFINE rest == [i \in DOMAIN calls |-> IF calls[i].op = "poll"
                                               THEN [calls[i] EXCEPT !.live = FALSE] ELSE calls[i]]
               poll == [PlainCall("poll") EXCEPT !.run = run]
    <2>1. /\ calls' = IF run.status \in Active THEN Append(rest, poll) ELSE rest
          /\ effect' = run
          /\ UNCHANGED <<path, senderServerVars, clicks, lost, run, starting, sendVars>>
        BY <1>3 DEF RunEffect
    <2>2. rest \in Seq(FitCall)
        <3>1. calls \in Seq(FitCall)
            BY <1>0 DEF CallsFit
        <3>2. \A c \in FitCall : [c EXCEPT !.live = FALSE] \in FitCall
            BY DEF FitCall, Call
        <3>3. \A i \in DOMAIN calls : rest[i] \in FitCall
            BY <3>1, <3>2
        <3>4. Len(calls) \in Nat /\ DOMAIN rest = 1..Len(calls)
            BY <3>1
        <3> HIDE DEF rest
        <3>5. \A i \in 1..Len(calls) : rest[i] \in FitCall
            BY <3>1, <3>3
        <3>6. rest \in [1..Len(calls) -> FitCall]
            <4>1. rest = [i \in DOMAIN rest |-> rest[i]]
                BY DEF rest
            <4> QED
                BY <3>4, <3>5, <4>1
        <3> QED
            BY <3>4, <3>6, SeqDef
    <2>3. run.status \in Active => poll \in FitCall
        BY <1>0, <1>1, PollFits DEF RunFollowed
    <2> HIDE DEF rest, poll
    <2>4. calls' \in Seq(FitCall)
        BY <2>1, <2>2, <2>3
    <2>5. FitCall \subseteq FitCall'
        BY <2>1, FitStays DEF senderServerVars
    <2>6. calls' \in Seq(FitCall')
        BY <2>4, <2>5, WiderSeq
    <2>7. CallsFit'
        BY <1>0, <2>1, <2>6 DEF CallsFit
    <2>8. RunFollowed'
        BY <1>0, <2>1 DEF RunFollowed, Given, senderServerVars
    <2> QED
        BY <1>0, <2>1, <2>7, <2>8, SendStays, ServersStay DEF SenderInv
<1> QED
    BY <1>2, <1>3

-----------------------------------------------------------------------------
(* The handlers                                                              *)

LEMMA CallHas ==
    ASSUME SenderInv, NEW i \in DOMAIN calls
    PROVE  /\ calls[i] \in FitCall /\ calls[i] \in Call
           /\ calls[i].op \in Operations /\ calls[i].jobs \in SUBSET Jobs
           /\ calls[i].interval \in Intervals /\ calls[i].run \in RunShown
           /\ calls[i].control \in Control /\ calls[i].rows \in SUBSET Jobs
<1>1. calls[i] \in FitCall
    BY DEF SenderInv, CallsFit
<1>2. calls[i] \in Call
    BY <1>1 DEF FitCall
<1> QED
    BY <1>1, <1>2 DEF Call, Operations

LEMMA CurrentIs ==
    ASSUME ServersTyped, NEW r \in DOMAIN searches
    PROVE  Current(r) \in RunShown /\ Given(Current(r))
<1>1. r \in 0..MaxRuns /\ searches[r] \in Active \cup FINAL
    BY SenderPagesAssumption DEF ServersTyped
<1> QED
    BY <1>1 DEF Current, RunShown, Given

LEMMA ServedFits ==
    ASSUME SenderInv, NEW i \in DOMAIN calls, \E a \in FitCall' : Answer(i, a),
           DOMAIN searches \subseteq DOMAIN searches', UNCHANGED <<clicks, lost>>
    PROVE  CallsFit'
<1>1. calls \in Seq(FitCall) /\ clicks \in 0..MaxClicks /\ lost \in 0..MaxLost
    BY DEF SenderInv, CallsFit
<1>2. calls \in Seq(FitCall')
    BY <1>1, FitStays, WiderSeq
<1>3. calls' \in Seq(FitCall')
    BY <1>2, Changed DEF Answer
<1> QED
    BY <1>1, <1>3 DEF CallsFit

LEMMA ServeKeeps == ASSUME SenderInv, NEW i \in DOMAIN calls, Serve(i) PROVE SenderInv'
<1>0. RunFollowed /\ SendTyped /\ ServersTyped /\ CallsFit /\ path \in {"run", "send", "bulk"}
    BY DEF SenderInv
<1>1. UNCHANGED <<path, clicks, lost, runVars, sendVars>>
    BY DEF Serve
<1>2. calls[i] \in FitCall /\ calls[i] \in Call /\ calls[i].jobs \in SUBSET Jobs
    BY CallHas
<1> DEFINE c == calls[i]
<1>3. ASSUME DOMAIN searches \subseteq DOMAIN searches', ServersTyped', CallsFit'
      PROVE  SenderInv'
    BY <1>0, <1>1, <1>3, RunStays, SendStays DEF SenderInv
<1>4. CASE ServePoll(i)
    <2> DEFINE a == [c EXCEPT !.stage = "ok", !.run = Current(c.run.id)]
    <2>1. c.op = "poll" /\ Answer(i, a) /\ UNCHANGED senderServerVars
        BY <1>4 DEF ServePoll
    <2>2. c.run.id \in DOMAIN searches
        BY <1>2, <2>1 DEF FitCall, Given
    <2>3. Current(c.run.id) \in RunShown /\ Given(Current(c.run.id))
        BY <1>0, <2>2, CurrentIs
    <2>4. a \in Call /\ a.op = "poll" /\ a.run = Current(c.run.id)
        BY <1>2, <2>1, <2>3 DEF Call
    <2>5. a \in FitCall
        BY <2>3, <2>4 DEF FitCall
    <2> HIDE DEF a
    <2>6. a \in FitCall'
        BY <2>1, <2>5, FitStays DEF senderServerVars
    <2>7. CallsFit'
        BY <1>1, <2>1, <2>6, ServedFits DEF senderServerVars
    <2> QED
        BY <1>0, <1>3, <2>1, <2>7, ServersStay DEF senderServerVars
<1>5. CASE ServeRunNow(i)
    <2> DEFINE running == {r \in DOMAIN searches : searches[r] \in Active}
               answered(r) == [c EXCEPT !.stage = "ok", !.run = r]
    <2>1. ASSUME NEW r \in RunShown, c.op = "runNow", r.id \in DOMAIN searches'
          PROVE  answered(r) \in FitCall'
        <3>1. answered(r) \in Call /\ answered(r).op = "runNow" /\ answered(r).run = r
            BY <1>2, <2>1 DEF Call
        <3> HIDE DEF answered
        <3> QED
            BY <2>1, <3>1 DEF FitCall, Given
    <2>2. c.op = "runNow" /\ UNCHANGED <<control, sendJobs>>
        BY <1>5 DEF ServeRunNow
    <2>3. CASE running # {}
        <3>1. UNCHANGED searches /\ Answer(i, answered(Current(CHOOSE r \in running : TRUE)))
            BY <1>5, <2>3 DEF ServeRunNow
        <3>2. (CHOOSE r \in running : TRUE) \in DOMAIN searches
            BY <2>3
        <3>3. PICK r \in DOMAIN searches : r = CHOOSE r2 \in running : TRUE
            BY <3>2
        <3>4. Current(r) \in RunShown /\ Current(r).id \in DOMAIN searches
            BY <1>0, CurrentIs DEF Given
        <3>5. PICK s : s = Current(r)
            OBVIOUS
        <3> HIDE DEF answered, running
        <3>6. answered(s) \in FitCall'
            BY <2>1, <2>2, <3>1, <3>4, <3>5
        <3>7. Answer(i, answered(s))
            BY <3>1, <3>3, <3>5
        <3>8. CallsFit'
            BY <1>1, <3>1, <3>6, <3>7, ServedFits
        <3> QED
            BY <1>0, <1>3, <2>2, <3>1, <3>8, ServersStay DEF senderServerVars
    <2>4. CASE running = {}
        <3>1. /\ Len(searches) < MaxRuns /\ searches' = Append(searches, "queued")
              /\ Answer(i, answered([id |-> Len(searches) + 1, status |-> "queued"]))
            BY <1>5, <2>4 DEF ServeRunNow
        <3>2. searches \in Seq(Active \cup FINAL) /\ Len(searches) \in Nat /\ "queued" \in Active
            BY <1>0 DEF ServersTyped, Active
        <3>3. /\ searches' \in Seq(Active \cup FINAL)
              /\ Len(searches') = Len(searches) + 1
            BY <3>1, <3>2
        <3>4. ServersTyped'
            BY <1>0, <2>2, <3>1, <3>2, <3>3, SenderPagesAssumption DEF ServersTyped
        <3>5. DOMAIN searches \subseteq DOMAIN searches' /\ Len(searches) + 1 \in DOMAIN searches'
            BY <3>2, <3>3
        <3>6. PICK s : s = [id |-> Len(searches) + 1, status |-> "queued"]
            OBVIOUS
        <3>7. s \in RunShown /\ s.id \in DOMAIN searches'
            BY <3>1, <3>2, <3>5, <3>6, SenderPagesAssumption DEF RunShown
        <3> HIDE DEF answered, running
        <3>8. answered(s) \in FitCall' /\ Answer(i, answered(s))
            BY <2>1, <2>2, <3>1, <3>6, <3>7
        <3>9. CallsFit'
            BY <1>1, <3>5, <3>8, ServedFits
        <3> QED
            BY <1>3, <3>4, <3>5, <3>9
    <2> QED
        BY <2>3, <2>4
<1>6. CASE ServeControl(i)
    <2>1. /\ c.op \in {"loadControl", "configure", "resume", "pause", "stop_after_current"}
          /\ UNCHANGED <<searches, sendJobs>>
          /\ Answer(i, [c EXCEPT !.stage = "ok", !.control = control'])
        BY <1>6 DEF ServeControl
    <2>2. PICK d \in Desired :
            control' = [desired |-> d, interval |-> IF c.op \in {"configure", "resume"}
                                                    THEN c.interval ELSE control.interval]
        BY <1>0, <1>6 DEF ServeControl, ServersTyped, Desired
    <2>3. control' \in [desired : Desired, interval : Intervals \ {"malformed"}]
        BY <1>0, <1>2, <2>2, CallHas DEF ServersTyped, FitCall
    <2>4. ServersTyped'
        BY <1>0, <2>1, <2>3 DEF ServersTyped
    <2>5. PICK k : k = control'
        OBVIOUS
    <2> DEFINE a == [c EXCEPT !.stage = "ok", !.control = k]
    <2>6. k \in Control
        BY <2>3, <2>5 DEF Control
    <2>7. a \in Call /\ a.op = c.op /\ a.interval = c.interval
        BY <1>2, <2>6 DEF Call
    <2>8. a \in FitCall
        BY <1>2, <2>1, <2>7 DEF FitCall
    <2>9. Answer(i, a)
        BY <2>1, <2>5
    <2> HIDE DEF a
    <2>10. a \in FitCall'
        BY <2>1, <2>8, FitStays
    <2>11. CallsFit'
        BY <1>1, <2>1, <2>9, <2>10, ServedFits
    <2> QED
        BY <1>3, <2>1, <2>4, <2>11
<1>7. CASE ServeJobs(i)
    <2> DEFINE from == IF c.op = "reset" THEN "failed" ELSE "approved"
               to == IF c.op = "reset" THEN "approved" ELSE "queued"
               done == {j \in c.jobs : sendJobs[j] = from}
    <2>1. /\ c.op \in {"loadJobs", "reset", "queueSelected"}
          /\ sendJobs' = [j \in Jobs |-> IF j \in done THEN to ELSE sendJobs[j]]
          /\ Answer(i, [c EXCEPT !.rows = IF c.op = "loadJobs" THEN Listed ELSE done,
                                 !.stage = IF c.op = "reset" /\ done = {} THEN "error" ELSE "ok"])
          /\ UNCHANGED <<searches, control>>
        BY <1>7 DEF ServeJobs
    <2>2. done \in SUBSET Jobs /\ to \in {"approved", "queued"}
        BY <1>2
    <2>3. ServersTyped'
        BY <1>0, <2>1, <2>2 DEF ServersTyped
    <2> HIDE DEF done, to
    <2>4. PICK rs : rs = IF c.op = "loadJobs" THEN Listed ELSE done
        OBVIOUS
    <2>5. rs \in SUBSET Jobs
        BY <2>2, <2>4 DEF Listed
    <2>6. PICK st \in {"error", "ok"} : st = IF c.op = "reset" /\ done = {} THEN "error" ELSE "ok"
        OBVIOUS
    <2> DEFINE a == [c EXCEPT !.rows = rs, !.stage = st]
    <2>7. a \in Call /\ a.op = c.op
        BY <1>2, <2>5 DEF Call
    <2>8. a \in FitCall
        BY <2>1, <2>7 DEF FitCall
    <2>9. Answer(i, a)
        BY <2>1, <2>4, <2>6
    <2> HIDE DEF a
    <2>10. a \in FitCall'
        BY <2>1, <2>8, FitStays
    <2>11. CallsFit'
        BY <1>1, <2>1, <2>9, <2>10, ServedFits
    <2> QED
        BY <1>3, <2>1, <2>3, <2>11
<1> QED
    BY <1>4, <1>5, <1>6, <1>7 DEF Serve

-----------------------------------------------------------------------------
(* The answers, and what goes on elsewhere                                   *)

LEMMA CallDone ==
    ASSUME SenderInv, NEW i \in DOMAIN calls, calls' = RemoveAt(calls, i),
           clicks' \in 0..MaxClicks, lost' \in 0..MaxLost, UNCHANGED searches
    PROVE  CallsFit'
<1>1. calls' \in Seq(FitCall)
    BY Shortened DEF SenderInv, CallsFit
<1>2. calls' \in Seq(FitCall')
    BY <1>1, FitStays, WiderSeq
<1> QED
    BY <1>2 DEF CallsFit

LEMMA AnsweredKeeps == ASSUME SenderInv, NEW i \in DOMAIN calls, Answered(i) PROVE SenderInv'
<1>0. RunFollowed /\ SendTyped /\ ServersTyped /\ CallsFit /\ path \in {"run", "send", "bulk"}
    BY DEF SenderInv
<1>1. /\ UNCHANGED <<path, senderServerVars, clicks, lost>> /\ calls' = RemoveAt(calls, i)
      /\ calls[i].stage = "ok"
    BY DEF Answered
<1>2. CallsFit'
    BY <1>0, <1>1, CallDone DEF CallsFit, senderServerVars
<1>3. ServersTyped' /\ path' \in {"run", "send", "bulk"}
    BY <1>0, <1>1, ServersStay
<1>4. ASSUME RunFollowed', SendTyped' PROVE SenderInv'
    BY <1>2, <1>3, <1>4 DEF SenderInv
<1>5. CASE RunAnswered(i)
    <2>1. Given(calls[i].run) /\ calls[i].run \in RunShown
        BY <1>1, <1>5, CallHas DEF RunAnswered, FitCall
    <2>2. run' = (IF calls[i].live THEN calls[i].run ELSE run) /\ UNCHANGED <<effect, sendVars>>
        BY <1>5 DEF RunAnswered
    <2>3. starting' \in BOOLEAN
        BY <1>5 DEF RunAnswered
    <2>4. run' \in RunShown /\ (run' = NoRun \/ run'.id \in DOMAIN searches)
        BY <1>0, <2>1, <2>2 DEF RunFollowed, Given
    <2>5. RunFollowed'
        BY <1>0, <1>1, <2>2, <2>3, <2>4 DEF RunFollowed, Given, senderServerVars
    <2> QED
        BY <1>0, <1>4, <2>2, <2>5, SendStays
<1>6. CASE ControlAnswered(i)
    <2>1. calls[i].control \in Control
        BY CallHas
    <2>2. calls[i].control.interval \in Intervals
        BY <2>1 DEF Control
    <2>3. busy' \in BOOLEAN
        BY <1>6 DEF ControlAnswered
    <2>4. SendTyped'
        BY <1>0, <1>6, <2>1, <2>2, <2>3 DEF ControlAnswered, SendTyped
    <2>5. RunFollowed'
        BY <1>0, <1>1, <1>6, RunStays DEF ControlAnswered, senderServerVars
    <2> QED
        BY <1>4, <2>4, <2>5
<1>7. CASE JobsAnswered(i)
    <2>1. calls[i].rows \in SUBSET Jobs
        BY CallHas
    <2>2. busy' \in BOOLEAN
        BY <1>7 DEF JobsAnswered
    <2>3. shownJobs' \in SUBSET Jobs /\ chosen' \in SUBSET Jobs
        BY <1>0, <1>7, <2>1 DEF JobsAnswered, SendTyped
    <2>4. SendTyped'
        BY <1>0, <1>7, <2>2, <2>3 DEF JobsAnswered, SendTyped
    <2>5. RunFollowed'
        BY <1>0, <1>1, <1>7, RunStays DEF JobsAnswered, senderServerVars
    <2> QED
        BY <1>4, <2>4, <2>5
<1> QED
    BY <1>5, <1>6, <1>7 DEF Answered

LEMMA FailedKeeps == ASSUME SenderInv, NEW i \in DOMAIN calls, Failed(i) PROVE SenderInv'
<1>0. RunFollowed /\ SendTyped /\ ServersTyped /\ CallsFit /\ path \in {"run", "send", "bulk"}
    BY DEF SenderInv
<1>1. /\ calls' = RemoveAt(calls, i)
      /\ UNCHANGED <<path, senderServerVars, clicks, run, effect, shownControl, intervalValue>>
    BY DEF Failed
<1>2. lost' \in 0..MaxLost
    BY <1>0, SenderPagesAssumption DEF Failed, CallsFit
<1>3. CallsFit'
    BY <1>0, <1>1, <1>2, CallDone DEF CallsFit, senderServerVars
<1>4. starting' \in BOOLEAN /\ busy' \in BOOLEAN
    BY DEF Failed
<1>5. shownJobs' \in SUBSET Jobs /\ chosen' \in SUBSET Jobs
    BY <1>0 DEF Failed, SendTyped
<1>6. RunFollowed'
    BY <1>0, <1>1, <1>4 DEF RunFollowed, Given, senderServerVars
<1>7. SendTyped'
    BY <1>0, <1>1, <1>4, <1>5 DEF SendTyped
<1> QED
    BY <1>0, <1>1, <1>3, <1>6, <1>7, ServersStay DEF SenderInv

LEMMA SenderElsewhereKeeps ==
    ASSUME SenderInv,
           (\E r \in DOMAIN searches : SearchGoesOn(r)) \/ SearchElsewhere \/ SenderGoesOn
    PROVE  SenderInv'
<1>0. RunFollowed /\ SendTyped /\ ServersTyped /\ CallsFit /\ path \in {"run", "send", "bulk"}
    BY DEF SenderInv
<1>1. UNCHANGED <<path, calls, clicks, lost, runVars, sendVars>>
    BY DEF SearchGoesOn, SearchElsewhere, SenderGoesOn
<1>2. ASSUME DOMAIN searches \subseteq DOMAIN searches', ServersTyped' PROVE SenderInv'
    BY <1>0, <1>1, <1>2, RunStays, SendStays, CallsStay DEF SenderInv
<1>3. searches \in Seq(Active \cup FINAL) /\ Len(searches) \in Nat
    BY <1>0 DEF ServersTyped
<1>4. ASSUME NEW r \in DOMAIN searches, SearchGoesOn(r) PROVE SenderInv'
    <2>1. PICK s \in Active \cup FINAL : searches' = [searches EXCEPT ![r] = s]
        <3> DEFINE to == [queued |-> {"discovery"}, discovery |-> {"scoring", "failed"},
                          scoring |-> FINAL]
        <3>1. PICK s \in to[searches[r]] : searches' = [searches EXCEPT ![r] = s]
            BY <1>4 DEF SearchGoesOn
        <3>2. searches[r] \in {"queued", "discovery", "scoring"}
            BY <1>4 DEF SearchGoesOn, Active
        <3>3. to[searches[r]] \subseteq Active \cup FINAL
            BY <3>2 DEF Active, FINAL
        <3> QED
            BY <3>1, <3>3
    <2>2. searches' \in Seq(Active \cup FINAL)
        BY <1>3, <2>1, Changed
    <2>3. Len(searches') = Len(searches) /\ DOMAIN searches' = DOMAIN searches
        BY <1>3, <2>1
    <2>4. ServersTyped'
        BY <1>0, <1>4, <2>2, <2>3 DEF SearchGoesOn, ServersTyped
    <2> QED
        BY <1>2, <2>3, <2>4
<1>5. CASE SearchElsewhere
    <2>1. searches' \in Seq(Active \cup FINAL) /\ Len(searches') = Len(searches) + 1
        BY <1>3, <1>5 DEF SearchElsewhere, Active
    <2>2. DOMAIN searches \subseteq DOMAIN searches'
        BY <1>3, <2>1
    <2>3. ServersTyped'
        BY <1>0, <1>3, <1>5, <2>1, SenderPagesAssumption DEF SearchElsewhere, ServersTyped
    <2> QED
        BY <1>2, <2>2, <2>3
<1>6. CASE SenderGoesOn
    <2>1. control' \in [desired : Desired, interval : Intervals \ {"malformed"}]
        BY <1>0, <1>6 DEF SenderGoesOn, ServersTyped, Desired
    <2>2. sendJobs' \in [Jobs -> {"approved", "queued", "failed", "archived"}]
        BY <1>0, <1>6 DEF SenderGoesOn, ServersTyped
    <2>3. UNCHANGED searches
        BY <1>6 DEF SenderGoesOn
    <2>4. ServersTyped'
        BY <1>0, <2>1, <2>2, <2>3 DEF ServersTyped
    <2> QED
        BY <1>2, <2>3, <2>4
<1> QED
    BY <1>4, <1>5, <1>6

LEMMA SenderSteps == ASSUME SenderInv, [SenderPagesNext]_senderVars PROVE SenderInv'
<1>1. CASE UNCHANGED senderVars
    BY <1>1, RunStays, SendStays, CallsStay, ServersStay DEF senderVars, senderServerVars, SenderInv
<1>2. CASE SenderPagesNext
    BY <1>2, SenderUserKeeps, SenderTimersKeep, ServeKeeps, AnsweredKeeps, FailedKeeps,
       SenderElsewhereKeeps DEF SenderPagesNext
<1> QED
    BY <1>1, <1>2

LEMMA SenderTyped == ASSUME SenderInv PROVE SenderPagesTypeOK
<1>1. \A i \in DOMAIN calls : calls[i] \in Call
    BY CallHas
<1> QED
    BY <1>1 DEF SenderInv, ServersTyped, CallsFit, RunFollowed, SendTyped, SenderPagesTypeOK

\* SenderPagesTypeOK: every variable of the run, send and bulk pages has its
\* type; a poll never asks about a search that was not started.
THEOREM SenderPagesTypeCorrect == SenderPagesSpec => []SenderPagesTypeOK
<1>1. SenderPagesInit => SenderInv
    BY SenderInitially
<1>2. SenderInv /\ [SenderPagesNext]_senderVars => SenderInv'
    BY SenderSteps
<1>3. SenderInv => SenderPagesTypeOK
    BY SenderTyped
<1> QED
    BY <1>1, <1>2, <1>3, PTL DEF SenderPagesSpec

-----------------------------------------------------------------------------
(* The client (MCPages).  A step of the client is a step of the page that is *)
(* open, so what was proved of a page holds while the others are used, too.  *)

LEMMA PageSteps ==
    ASSUME [PagesNext]_pagesVars
    PROVE  /\ [TodoNext]_todoVars /\ [ChatsNext]_chatsVars /\ [ConnectNext]_connectVars
           /\ [VacanciesNext]_vacanciesVars /\ [SenderPagesNext]_senderVars
           /\ [ShellNext]_shellVars /\ [CaptchaNext]_captchaVars
BY DEF PagesNext, pagesVars

LEMMA ClientRunsPages ==
    PagesSpec => TodoSpec /\ ChatsSpec /\ VacanciesSpec /\ CaptchaSpec
<1>1. PagesInit => TodoInit /\ ChatsInit /\ VacanciesInit /\ CaptchaInit
    BY DEF PagesInit
<1>2. [PagesNext]_pagesVars =>
        /\ [TodoNext]_todoVars /\ [ChatsNext]_chatsVars
        /\ [VacanciesNext]_vacanciesVars /\ [CaptchaNext]_captchaVars
    BY PageSteps
<1> QED
    BY <1>1, <1>2, PTL DEF PagesSpec, TodoSpec, ChatsSpec, VacanciesSpec, CaptchaSpec

\* PagesTypeOK: every variable of every page has its type while any of the
\* pages is used, for any number of rows, requests, searches and loads.
THEOREM ClientTypeCorrect == PagesSpec => []PagesTypeOK
<1>1. PagesSpec => []TodoTypeOK /\ []ChatsTypeOK /\ []VacanciesTypeOK /\ []CaptchaTypeOK
    BY ClientRunsPages, TodoTypeCorrect, ChatsTypeCorrect, VacanciesTypeCorrect, CaptchaTypeCorrect, PTL
<1>2. PagesInit => ConnectTypeOK /\ SenderInv /\ ShellTypeOK
    BY ConnectInitially, SenderInitially, ShellInitially DEF PagesInit
<1>3. ConnectTypeOK /\ SenderInv /\ ShellTypeOK /\ [PagesNext]_pagesVars
        => (ConnectTypeOK /\ SenderInv /\ ShellTypeOK)'
    BY PageSteps, ConnectTyped, SenderSteps, ShellTyped
<1>4. SenderInv => SenderPagesTypeOK
    BY SenderTyped
<1>5. TodoTypeOK /\ ChatsTypeOK /\ VacanciesTypeOK /\ CaptchaTypeOK
      /\ ConnectTypeOK /\ SenderPagesTypeOK /\ ShellTypeOK => PagesTypeOK
    BY DEF PagesTypeOK
<1>6. PagesSpec => [](ConnectTypeOK /\ SenderInv /\ ShellTypeOK)
    BY <1>2, <1>3, PTL DEF PagesSpec
<1> QED
    BY <1>1, <1>4, <1>5, <1>6, PTL

\* What the pages promise, of the client as a whole, for any number of rows,
\* requests and loads: the tasks page (GoneMeansResolved), the captcha window
\* (WindowIsCurrent), the chats (MessagesNeverGoBack), the vacancies
\* (DecisionsSpareApproved).
THEOREM ClientCorrect ==
    PagesSpec => /\ []GoneMeansResolved
                 /\ []WindowIsCurrent
                 /\ MessagesNeverGoBack
                 /\ DecisionsSpareApproved
BY ClientRunsPages, GoneIsResolved, WindowCurrent, NeverBack, ApprovedSpared, PTL

=============================================================================
