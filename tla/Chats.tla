------------------------------- MODULE Chats -------------------------------
(***************************************************************************)
(* The "Мои чаты" page of the web client: the list of negotiations, the    *)
(* messages of the one selected and the field that answers it              *)
(* (src/frontend/src/app/(app)/chats/page.tsx, hooks/useChats.ts).         *)
(*                                                                         *)
(* A chat can be opened by a deep link (?n=...).  Requests overlap: the    *)
(* user changes chats, refreshes and sends while answers are on their way, *)
(* and answers may come in any order; a counter (reqId) tells the newest.  *)
(* A render's effects (choosing a chat, loading its messages) belong to    *)
(* the action that caused the render.                                      *)
(***************************************************************************)
EXTENDS Naturals, FiniteSets, Sequences, SequencesExt

CONSTANTS
    ChatIds,        \* negotiations: numbers, the most recently updated first
    ReadOnly,       \* those whose state_id does not allow a message
    Matching,       \* those a search for the user's words finds
    Beyond,         \* those too old for the 50 rows a list holds
    DeepLinks,      \* the values of the ?n= parameter, NoChat for none
    NoChat,
    MaxRequests,    \* message loads (bound)
    MaxSends,       \* messages the user sends (bound)
    MaxListLoads    \* list loads (bound)

ASSUME ChatsAssumption ==
    /\ ChatIds \subseteq Nat /\ IsFiniteSet(ChatIds)
    /\ NoChat \in Nat \ ChatIds
    /\ DeepLinks \subseteq ChatIds \cup {NoChat}
    \* the loads the page mounts with count
    /\ MaxRequests \in Nat \ {0} /\ MaxSends \in Nat /\ MaxListLoads \in Nat \ {0}

VARIABLES
    deepLink,       \* the page's ?n= parameter
    unread,         \* external: chats with an update on hh
    unreadOnly,     \* the toggle: which of the two cached lists is shown
    lists,          \* lists[b]: the cached list of query ["chats", b]
    listed,         \* the queries that have data
    failed,         \* the queries whose last fetch failed: they show no chats
    loadingList,    \* the queries being fetched
    listLoads,      \* list fetches so far
    search,         \* the search field is filled
    selectedId,     \* the row chosen
    messages,       \* the messages shown: of which chat, by which request
    reqId,          \* the newest request's number
    paneLoading,    \* the pane's "loading" flag
    requests,       \* message requests under way
    text,           \* the answer field
    sending,        \* the "sending" flag
    sends,          \* messages on their way: posted, then followed by a reload
    sent,           \* messages sent so far
    markingRead     \* the chats of a "read all" under way

chatsVars == <<deepLink, unread, unreadOnly, lists, listed, failed, loadingList, listLoads, search, selectedId,
               messages, reqId, paneLoading, requests, text, sending, sends, sent, markingRead>>

listVars == <<deepLink, unread, unreadOnly, lists, listed, failed, loadingList, listLoads, markingRead>>
paneVars == <<messages, reqId, paneLoading, requests>>
fieldVars == <<text, sending, sends, sent>>

Fields == {"", "hello"}
Row == [id : ChatIds, updates : BOOLEAN]
NoMessages == [chat |-> NoChat, req |-> 0]

ChatsTypeOK ==
    /\ deepLink \in DeepLinks
    /\ unread \in SUBSET ChatIds
    /\ unreadOnly \in BOOLEAN
    /\ lists \in [BOOLEAN -> SUBSET Row]
    /\ listed \in SUBSET BOOLEAN
    /\ failed \in SUBSET BOOLEAN
    /\ loadingList \in SUBSET BOOLEAN
    /\ listLoads \in 0..MaxListLoads
    /\ search \in BOOLEAN
    /\ selectedId \in ChatIds \cup {NoChat}
    /\ messages \in [chat : ChatIds \cup {NoChat}, req : 0..MaxRequests]
    /\ reqId \in 0..MaxRequests
    /\ paneLoading \in BOOLEAN
    /\ requests \in SUBSET [chat : ChatIds, req : 1..MaxRequests]
    /\ text \in Fields
    /\ sending \in BOOLEAN
    /\ sends \in Seq([chat : ChatIds, text : Fields, reload : 0..MaxRequests])
    /\ sent \in 0..MaxSends
    /\ markingRead \in SUBSET ChatIds

-----------------------------------------------------------------------------
(* Derived by every render *)

Ids(rows) == {r.id : r \in rows}

First(ids) == CHOOSE c \in ids : \A d \in ids : c <= d

Filtered(rows, s) == IF s THEN Ids(rows) \cap Matching ELSE Ids(rows)

\* The effect that keeps a chat selected: a deep link in the list always
\* wins; otherwise the first chat found, if none is chosen yet.
Reselect(sel, loaded, rows, s) ==
    IF loaded /\ deepLink \in Ids(rows) THEN deepLink
    ELSE IF sel = NoChat /\ loaded /\ Filtered(rows, s) # {} THEN First(Filtered(rows, s))
    ELSE sel

\* The chat of the pane: the deep link's row, the chosen row, or a stub for a
\* deep link whose row is not in the list.
Selected(sel, rows) ==
    LET target == IF deepLink # NoChat THEN deepLink ELSE sel
    IN  IF target \in Ids(rows) THEN [chat |-> target, row |-> TRUE]
        ELSE [chat |-> deepLink, row |-> FALSE]

\* What useChats returns for query b: no rows at all after a failure.
Shown(b) == IF b \in failed THEN {} ELSE lists[b]
Known(b) == b \in listed \cup failed

Pane == Selected(selectedId, Shown(unreadOnly))

\* MessagesPane offers a field only for a chat whose state allows it; a stub
\* has no state, so it does too.
CanSend == Pane.chat # NoChat /\ (Pane.row => Pane.chat \notin ReadOnly)

ChatsInit ==
    /\ deepLink \in DeepLinks
    /\ unread = {}
    /\ unreadOnly = FALSE
    /\ lists = [b \in BOOLEAN |-> {}]
    /\ listed = {}
    /\ failed = {}
    /\ loadingList = {FALSE}
    /\ listLoads = 1
    /\ search = FALSE
    /\ selectedId = NoChat
    \* a deep link's stub starts to load at once
    /\ LET load == deepLink # NoChat IN
       /\ reqId = IF load THEN 1 ELSE 0
       /\ requests = IF load THEN {[chat |-> deepLink, req |-> 1]} ELSE {}
       /\ paneLoading = load
    /\ messages = NoMessages
    /\ text = ""
    /\ sending = FALSE
    /\ sends = <<>>
    /\ sent = 0
    /\ markingRead = {}

-----------------------------------------------------------------------------
(* useChatMessages *)

\* refresh: a new request for chat c becomes the newest.
LoadMessages(c) ==
    /\ reqId < MaxRequests
    /\ reqId' = reqId + 1
    /\ requests' = requests \cup {[chat |-> c, req |-> reqId + 1]}
    /\ paneLoading' = TRUE
    /\ UNCHANGED messages

\* A render after which the pane shows another chat (or learns its row) runs
\* refresh; without a chat it only clears the messages.
PaneEffect(next) ==
    IF next = Pane THEN UNCHANGED paneVars
    ELSE IF next.chat = NoChat
         THEN /\ messages' = NoMessages
              /\ UNCHANGED <<reqId, paneLoading, requests>>
         ELSE LoadMessages(next.chat)

\* Mutant: no comparison with reqId.
MessagesAnsweredAny(r) ==
    /\ requests' = requests \ {r}
    /\ messages' = [chat |-> r.chat, req |-> r.req]
    /\ paneLoading' = FALSE
    /\ UNCHANGED <<listVars, search, selectedId, reqId, fieldVars>>

\* An answer (or an error, shown as no messages) counts only if its request is
\* still the newest.
MessagesAnswered(r) ==
    /\ requests' = requests \ {r}
    /\ IF r.req = reqId
       THEN /\ messages' = [chat |-> r.chat, req |-> r.req]
            /\ paneLoading' = FALSE
       ELSE UNCHANGED <<messages, paneLoading>>
    /\ UNCHANGED <<listVars, search, selectedId, reqId, fieldVars>>

RefreshMessages ==
    /\ Pane.chat # NoChat
    /\ LoadMessages(Pane.chat)
    /\ UNCHANGED <<listVars, search, selectedId, fieldVars>>

-----------------------------------------------------------------------------
(* The list *)

\* What a render with these rows selects and shows.
Rendered(loaded, rows, s, sel) ==
    LET chosen == Reselect(sel, loaded, rows, s) IN
    /\ selectedId' = chosen
    /\ PaneEffect(Selected(chosen, rows))

\* invalidateQueries or the first use of a key: one fetch per key at a time.
\* A failure is forgotten at once only if there is no data under it.
StartListLoad(b) ==
    IF b \in loadingList THEN UNCHANGED <<failed, loadingList, listLoads>>
    ELSE /\ listLoads < MaxListLoads
         /\ failed' = IF b \in listed THEN failed ELSE failed \ {b}
         /\ listLoads' = listLoads + 1
         /\ loadingList' = loadingList \cup {b}

\* hh's list, whole or only the chats with updates.
ListAnswered(b) ==
    LET rows == {[id |-> c, updates |-> c \in unread] :
                   c \in (IF b THEN unread ELSE ChatIds) \ Beyond}
    IN /\ b \in loadingList
       /\ lists' = [lists EXCEPT ![b] = rows]
       /\ listed' = listed \cup {b}
       /\ failed' = failed \ {b}
       /\ loadingList' = loadingList \ {b}
       /\ IF b = unreadOnly THEN Rendered(TRUE, rows, search, selectedId)
                            ELSE UNCHANGED <<selectedId, paneVars>>
       /\ UNCHANGED <<deepLink, unread, unreadOnly, listLoads, search, fieldVars, markingRead>>

\* A failed load: the page shows no chats, whatever it had, until one succeeds.
ListFailed(b) ==
    /\ b \in loadingList
    /\ loadingList' = loadingList \ {b}
    /\ failed' = failed \cup {b}
    /\ IF b = unreadOnly THEN Rendered(TRUE, {}, search, selectedId)
                         ELSE UNCHANGED <<selectedId, paneVars>>
    /\ UNCHANGED <<deepLink, unread, unreadOnly, lists, listed, listLoads, search, fieldVars,
                   markingRead>>

RefreshList ==
    /\ StartListLoad(unreadOnly)
    /\ UNCHANGED <<deepLink, unread, unreadOnly, lists, listed, search, selectedId, paneVars,
                   fieldVars, markingRead>>

\* The other query: fetched if it was never, or if what it has is stale.
ToggleUnread ==
    LET b == ~unreadOnly IN
    /\ unreadOnly' = b
    /\ \/ b \in listed /\ UNCHANGED <<failed, loadingList, listLoads>>
       \/ StartListLoad(b)
    /\ Rendered(b \in listed \cup failed', IF b \in failed' THEN {} ELSE lists[b],
                search, selectedId)
    /\ UNCHANGED <<deepLink, unread, lists, listed, search, fieldVars, markingRead>>

Search ==
    /\ search' = ~search
    /\ Rendered(Known(unreadOnly), Shown(unreadOnly), search', selectedId)
    /\ UNCHANGED <<listVars, fieldVars>>

\* ChatRow: a click chooses the row, and then the effects run.
ClickRow(c) ==
    /\ c \in Filtered(Shown(unreadOnly), search)
    /\ c # selectedId
    /\ Rendered(Known(unreadOnly), Shown(unreadOnly), search, c)
    /\ UNCHANGED <<listVars, search, fieldVars>>

\* "Прочитать все": the chats the list shows as updated, once at a time.
MarkAllRead ==
    LET ids == {r.id : r \in {x \in Shown(unreadOnly) : x.updates}} IN
    /\ ids # {} /\ markingRead = {}
    /\ markingRead' = ids
    /\ UNCHANGED <<deepLink, unread, unreadOnly, lists, listed, failed, loadingList, listLoads, search,
                   selectedId, paneVars, fieldVars>>

MarkAllReadDone ==
    /\ markingRead # {}
    /\ \/ /\ unread' = unread \ markingRead
          /\ StartListLoad(unreadOnly)
       \/ UNCHANGED <<unread, failed, loadingList, listLoads>>      \* refused: an alert
    /\ markingRead' = {}
    /\ UNCHANGED <<deepLink, unreadOnly, lists, listed, search, selectedId, paneVars, fieldVars>>

\* External: an employer writes.
EmployerWrites(c) ==
    /\ c \notin unread
    /\ unread' = unread \cup {c}
    /\ UNCHANGED <<deepLink, unreadOnly, lists, listed, failed, loadingList, listLoads, search, selectedId,
                   paneVars, fieldVars, markingRead>>

-----------------------------------------------------------------------------
(* MessagesPane *)

Type(t) ==
    /\ CanSend
    /\ t # text
    /\ text' = t
    /\ UNCHANGED <<listVars, search, selectedId, paneVars, sending, sends, sent>>

\* The button is disabled while a message is being sent; Ctrl+Enter is not.
OnSend(c) ==
    /\ CanSend
    /\ c = Pane.chat
    /\ text # ""
    /\ sent < MaxSends
    /\ sent' = sent + 1
    /\ sending' = TRUE
    /\ sends' = Append(sends, [chat |-> c, text |-> text, reload |-> 0])
    /\ UNCHANGED <<listVars, search, selectedId, paneVars, text>>

\* The server took it: send reloads the messages of the chat it was sent to,
\* the chat the pane may have left since.
SendPosted(i) ==
    /\ sends[i].reload = 0
    /\ LoadMessages(sends[i].chat)
    /\ sends' = [sends EXCEPT ![i].reload = reqId + 1]
    /\ UNCHANGED <<listVars, search, selectedId, text, sending, sent>>

\* Refused: an alert; the text stays.
SendFailed(i) ==
    /\ sends[i].reload = 0
    /\ sends' = RemoveAt(sends, i)
    /\ sending' = FALSE
    /\ UNCHANGED <<listVars, search, selectedId, paneVars, text, sent>>

\* The reload was answered: the field is emptied and the list loaded again.
SendDone(i) ==
    /\ sends[i].reload # 0
    /\ \A r \in requests : r.req # sends[i].reload
    /\ sends' = RemoveAt(sends, i)
    /\ text' = ""
    /\ sending' = FALSE
    /\ StartListLoad(unreadOnly)
    /\ UNCHANGED <<deepLink, unread, unreadOnly, lists, listed, markingRead, search, selectedId,
                   paneVars, sent>>

-----------------------------------------------------------------------------
ChatsUser ==
    \/ RefreshMessages \/ RefreshList \/ ToggleUnread \/ Search \/ MarkAllRead
    \/ \E c \in ChatIds : ClickRow(c) \/ OnSend(c)
    \/ \E t \in Fields : Type(t)

ChatsNext ==
    \/ ChatsUser
    \/ \E r \in requests : MessagesAnswered(r)
    \/ \E b \in BOOLEAN : ListAnswered(b) \/ ListFailed(b)
    \/ MarkAllReadDone
    \/ \E c \in ChatIds : EmployerWrites(c)
    \/ \E i \in DOMAIN sends : SendPosted(i) \/ SendFailed(i) \/ SendDone(i)

ChatsSpec == ChatsInit /\ [][ChatsNext]_chatsVars

-----------------------------------------------------------------------------
(* Properties *)

\* The pane never goes back: whatever the order in which the answers come,
\* what replaces the messages shown was asked for after them.
MessagesNeverGoBack ==
    [][messages' # messages => messages'.req > messages.req \/ messages' = NoMessages]_chatsVars

\* The pane says "loading" exactly while its newest request is unanswered: no
\* late answer of an earlier chat ends it, and none leaves it on.
LoadingMeansUnanswered ==
    paneLoading <=> \E r \in requests : r.req = reqId
=============================================================================
