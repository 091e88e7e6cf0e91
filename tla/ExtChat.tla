------------------------------ MODULE ExtChat ------------------------------
(***************************************************************************)
(* The chat in the extension's panel (src/ext/lib/chat-store.ts,           *)
(* lib/panel.ts, sendChat of entrypoints/content.ts): every tab has a      *)
(* panel of its own, all of them share one stored history, and a turn is   *)
(* an append, a request and another append, each of them asynchronous.     *)
(***************************************************************************)
EXTENDS Naturals, Sequences, FiniteSets, SequencesExt

CONSTANTS
    Panels,         \* the tabs with a panel
    MaxHistory,     \* MAX_HISTORY
    MaxTurns        \* questions asked, by all panels (bound)

ASSUME ExtChatAssumption == MaxHistory \in Nat \ {0} /\ MaxTurns \in Nat

VARIABLES
    history,        \* the stored messages
    panelChat,      \* panelChat[t]: the messages panel t shows
    loaded,         \* the panels that have shown the stored history
    turn,           \* turn[t]: how far panel t's turn is
    clearing,       \* the removals of the history under way
    asked,          \* questions so far
    disturbed       \* history: panels something else wrote beside

chatVars == <<history, panelChat, loaded, turn, clearing, asked, disturbed>>

\* Question n and its answer; an error is shown and kept as an answer, too.
Msg == [role : {"user", "assistant"}, n : 1..MaxTurns]

NoTurn == [step |-> "none", n |-> 0, read |-> <<>>]

ChatTypeOK ==
    /\ history \in Seq(Msg) /\ Len(history) <= MaxHistory
    /\ panelChat \in [Panels -> Seq(Msg)]
    /\ loaded \in SUBSET Panels
    /\ \A t \in Panels :
         /\ turn[t].step \in {"none", "ask", "asked", "wait", "answer", "answered"}
         /\ turn[t].read \in Seq(Msg)
    /\ clearing \in SUBSET Panels
    /\ asked \in 0..MaxTurns
    /\ disturbed \in SUBSET Panels

ChatInit ==
    /\ history = <<>>
    /\ panelChat = [t \in Panels |-> <<>>]
    /\ loaded = {}
    /\ turn = [t \in Panels |-> NoTurn]
    /\ clearing = {}
    /\ asked = 0
    /\ disturbed = {}

\* Mutants: no limit, or the first messages are kept.
LastOfAll(s) == s
LastOfFirst(s) == IF Len(s) > MaxHistory THEN SubSeq(s, 1, MaxHistory) ELSE s

\* slice(-MAX_HISTORY)
LastOf(s) == IF Len(s) > MaxHistory THEN SubSeq(s, Len(s) - MaxHistory + 1, Len(s)) ELSE s

\* Whoever writes the history disturbs the others, and those with an append
\* under way, too.
Disturb(t) == disturbed' = disturbed \cup (Panels \ {t})

\* main: the panel shows what is stored, then it is ready.
LoadHistory(t) ==
    /\ t \notin loaded
    /\ loaded' = loaded \cup {t}
    /\ panelChat' = [panelChat EXCEPT ![t] = @ \o history]
    /\ disturbed' = IF panelChat[t] = <<>> /\ turn[t].step = "none"
                    THEN disturbed \ {t} ELSE disturbed
    /\ UNCHANGED <<history, turn, clearing, asked>>

\* send: one turn at a time, the button and Enter alike.  The history need not
\* have been shown by then.
Send(t) ==
    /\ turn[t].step = "none"
    /\ asked < MaxTurns
    /\ asked' = asked + 1
    /\ panelChat' = [panelChat EXCEPT ![t] = Append(@, [role |-> "user", n |-> asked + 1])]
    /\ turn' = [turn EXCEPT ![t] = [step |-> "ask", n |-> asked + 1, read |-> <<>>]]
    /\ disturbed' = IF t \in loaded THEN disturbed ELSE disturbed \cup {t}
    /\ UNCHANGED <<history, loaded, clearing>>

\* appendMessage reads the history ...
ReadHistory(t) ==
    /\ turn[t].step \in {"ask", "answer"}
    /\ turn' = [turn EXCEPT ![t].step = IF @ = "ask" THEN "asked" ELSE "answered",
                            ![t].read = history]
    /\ UNCHANGED <<history, panelChat, loaded, clearing, asked, disturbed>>

\* ... and writes it back with the message, its oldest beyond MAX_HISTORY cut.
WriteHistory(t) ==
    LET role == IF turn[t].step = "asked" THEN "user" ELSE "assistant"
        message == [role |-> role, n |-> turn[t].n]
    IN  /\ turn[t].step \in {"asked", "answered"}
        /\ history' = LastOf(Append(turn[t].read, message))
        /\ Disturb(t)
        /\ IF role = "user"
           THEN /\ turn' = [turn EXCEPT ![t].step = "wait", ![t].read = <<>>]
                /\ UNCHANGED panelChat
           ELSE /\ turn' = [turn EXCEPT ![t] = NoTurn]
                /\ panelChat' = [panelChat EXCEPT ![t] = Append(@, message)]
        /\ UNCHANGED <<loaded, clearing, asked>>

\* sendChat: the backend's answer, or the words that there is none.
Answer(t) ==
    /\ turn[t].step = "wait"
    /\ turn' = [turn EXCEPT ![t].step = "answer"]
    /\ UNCHANGED <<history, panelChat, loaded, clearing, asked, disturbed>>

\* The message to the background fails: the turn ends without an answer.
AnswerFails(t) ==
    /\ turn[t].step = "wait"
    /\ turn' = [turn EXCEPT ![t] = NoTurn]
    /\ UNCHANGED <<history, panelChat, loaded, clearing, asked, disturbed>>

\* "Очистить историю": the panel at once, the storage soon.
ClearChat(t) ==
    /\ t \notin clearing
    /\ panelChat' = [panelChat EXCEPT ![t] = <<>>]
    /\ clearing' = clearing \cup {t}
    /\ disturbed' = IF turn[t].step # "none" \/ t \notin loaded
                    THEN disturbed \cup {t} ELSE disturbed
    /\ UNCHANGED <<history, loaded, turn, asked>>

ClearHistory(t) ==
    /\ t \in clearing
    /\ clearing' = clearing \ {t}
    /\ history' = <<>>
    /\ disturbed' = disturbed \cup (Panels \ {t})
                      \cup (IF turn[t].step # "none" \/ panelChat[t] # <<>> THEN {t} ELSE {})
    /\ UNCHANGED <<panelChat, loaded, turn, asked>>

ChatNext ==
    \E t \in Panels :
        \/ LoadHistory(t) \/ Send(t) \/ ReadHistory(t) \/ WriteHistory(t)
        \/ Answer(t) \/ AnswerFails(t) \/ ClearChat(t) \/ ClearHistory(t)

ChatSpec == ChatInit /\ [][ChatNext]_chatVars

-----------------------------------------------------------------------------
(* Properties *)

\* A panel nothing else wrote beside shows between its turns what is stored:
\* a reload of the page repeats the end of the conversation the user saw, as
\* much of it as the limit keeps.
PanelRepeats ==
    \A t \in loaded \ disturbed :
        turn[t].step = "none" /\ t \notin clearing =>
          /\ IsSuffix(history, panelChat[t])
          /\ Len(history) \in {Len(panelChat[t]), MaxHistory}
=============================================================================
