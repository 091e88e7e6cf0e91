-------------------------- MODULE ExtensionProofs --------------------------
(***************************************************************************)
(* Theorems about the browser extension, for any number of messages in     *)
(* hand, panels, sign-ins and questions, any limit of the history and any  *)
(* pages: a sign-out holds (ExtSession), a panel repeats the end of what   *)
(* it showed (ExtChat), and, on pages that tell their fields apart, the    *)
(* options of a drop-down are its own (Snapshot) and the user's            *)
(* corrections stay (FormFill).                                            *)
(***************************************************************************)
EXTENDS MCExtension, SequenceTheorems, FiniteSetTheorems, TLAPS

-----------------------------------------------------------------------------
(* The session.  The four steps of a call and the two of a sign-out touch   *)
(* the same storage with awaits in between; the invariant needs no types.   *)

\* Signed out with nothing under way: there is nothing to use and nothing that
\* could bring something back, until a page pushes a session again.
SignedOutInv ==
    signedOut /\ ~late =>
        /\ stored.pair = <<>>
        /\ \A c \in BackgroundCalls : calls[c].step = "idle"

LEMMA SignedOutStep == SignedOutInv /\ [SessionNext]_sessionVars => SignedOutInv'
<1> SUFFICES ASSUME SignedOutInv, [SessionNext]_sessionVars PROVE SignedOutInv'
    OBVIOUS
<1> USE DEF SignedOutInv
<1>1. ASSUME NEW c \in BackgroundCalls, GetValidJwt(c) PROVE SignedOutInv'
    BY <1>1 DEF GetValidJwt
<1>2. ASSUME NEW c \in BackgroundCalls, RefreshAnswered(c) PROVE SignedOutInv'
    BY <1>2 DEF RefreshAnswered
<1>3. ASSUME NEW c \in BackgroundCalls, StoreRefreshed(c) PROVE SignedOutInv'
    BY <1>3 DEF StoreRefreshed
<1>4. ASSUME NEW c \in BackgroundCalls, AdoptSession(c) PROVE SignedOutInv'
    BY <1>4 DEF AdoptSession
<1>5. ASSUME NEW c \in BackgroundCalls, PersistExternalSession(c) PROVE SignedOutInv'
    BY <1>5 DEF PersistExternalSession
<1>6. CASE SignOut
    BY <1>6 DEF SignOut, SignOutStorage, NoTokens
<1>7. ASSUME NEW f \in SignIns, WebSignIn(f) PROVE SignedOutInv'
    BY <1>7 DEF WebSignIn
<1>8. CASE WebSignOut
    BY <1>8 DEF WebSignOut
<1>9. CASE WebRefresh
    BY <1>9 DEF WebRefresh
<1>10. ASSUME NEW p \in Pairs, Age(p) PROVE SignedOutInv'
    BY <1>10 DEF Age
<1>11. CASE UNCHANGED sessionVars
    BY <1>11 DEF sessionVars
<1> QED
    BY <1>1, <1>2, <1>3, <1>4, <1>5, <1>6, <1>7, <1>8, <1>9, <1>10, <1>11 DEF SessionNext

\* After a sign-out (SIGN_OUT of background.ts) the extension stays without a
\* session until a page pushes one, unless a call was under way.
THEOREM SignedOutStays == SessionSpec => []SignOutHolds
<1>1. SessionInit => SignedOutInv
    BY DEF SessionInit, SignedOutInv
<1>2. SignedOutInv => SignOutHolds
    BY DEF SignedOutInv, SignOutHolds
<1> QED
    BY <1>1, <1>2, SignedOutStep, PTL DEF SessionSpec

\* What a call under way holds is a pair of tokens, never nothing.
CallsHoldPairs == \A c \in BackgroundCalls : calls[c].step # "idle" => calls[c].pair \in Pairs

SessionInv == SessionTypeOK /\ CallsHoldPairs

\* A family's generation grows up to its bound.
LEMMA RefreshedTypes ==
    ASSUME SessionTypeOK, NEW p, NEW q \in Pairs, Refreshed(p, q)
    PROVE  issued' \in [SignIns -> 0..MaxGeneration]
BY ExtSessionAssumption DEF SessionTypeOK, Refreshed

LEMMA SessionInvStep == SessionInv /\ [SessionNext]_sessionVars => SessionInv'
<1> SUFFICES ASSUME SessionInv, [SessionNext]_sessionVars PROVE SessionInv'
    OBVIOUS
<1>0. <<>> \in Pairs \cup {<<>>} /\ \A p \in Pairs : p \in Pairs \cup {<<>>} /\ p[1] \in SignIns
    BY DEF Pairs
<1>1. ASSUME NEW c \in BackgroundCalls, GetValidJwt(c) PROVE SessionInv'
    BY <1>1 DEF SessionTypeOK, CallsHoldPairs, SessionInv, GetValidJwt, Take
<1>2. ASSUME NEW c \in BackgroundCalls, RefreshAnswered(c) PROVE SessionInv'
    <2>1. CASE /\ \E q \in Pairs : Refreshed(calls[c].pair, q) /\ Take(c, "store", q)
               /\ UNCHANGED stored
        <3>1. PICK q \in Pairs : Refreshed(calls[c].pair, q) /\ Take(c, "store", q)
            BY <2>1
        <3>2. issued' \in [SignIns -> 0..MaxGeneration]
            BY <3>1, RefreshedTypes DEF SessionInv
        <3> QED
            BY <1>2, <2>1, <3>1, <3>2
            DEF SessionTypeOK, CallsHoldPairs, SessionInv, RefreshAnswered, Take
    <2>2. CASE SignOutStorage /\ Drop(c) /\ UNCHANGED issued
        BY <1>2, <2>2 DEF SessionTypeOK, CallsHoldPairs, SessionInv, RefreshAnswered, Drop,
                          SignOutStorage, NoTokens, Idle
    <2> QED
        BY <1>2, <2>1, <2>2 DEF RefreshAnswered
<1>3. ASSUME NEW c \in BackgroundCalls, StoreRefreshed(c) PROVE SessionInv'
    <2>1. calls[c].pair \in Pairs
        BY <1>3 DEF StoreRefreshed, CallsHoldPairs, SessionInv
    <2> QED
        BY <1>3, <2>1 DEF SessionTypeOK, CallsHoldPairs, SessionInv, StoreRefreshed, PersistSession, Drop, Idle
<1>4. ASSUME NEW c \in BackgroundCalls, AdoptSession(c) PROVE SessionInv'
    BY <1>4 DEF SessionTypeOK, CallsHoldPairs, SessionInv, AdoptSession, Take, ReadSupabaseSession
<1>5. ASSUME NEW c \in BackgroundCalls, PersistExternalSession(c) PROVE SessionInv'
    BY <1>5, <1>0, RefreshedTypes DEF SessionTypeOK, CallsHoldPairs, SessionInv, PersistExternalSession, Drop, PersistSession, Idle
<1>6. CASE SignOut
    BY <1>6 DEF SessionTypeOK, CallsHoldPairs, SessionInv, SignOut, SignOutStorage, NoTokens
<1>7. ASSUME NEW f \in SignIns, WebSignIn(f) PROVE SessionInv'
    BY <1>7, ExtSessionAssumption DEF SessionTypeOK, CallsHoldPairs, SessionInv, WebSignIn, Pairs
<1>8. CASE WebSignOut
    BY <1>8 DEF SessionTypeOK, CallsHoldPairs, SessionInv, WebSignOut
<1>9. CASE WebRefresh
    BY <1>9, <1>0, RefreshedTypes DEF SessionTypeOK, CallsHoldPairs, SessionInv, WebRefresh
<1>10. ASSUME NEW p \in Pairs, Age(p) PROVE SessionInv'
    BY <1>10 DEF SessionTypeOK, CallsHoldPairs, SessionInv, Age
<1>11. CASE UNCHANGED sessionVars
    BY <1>11 DEF SessionTypeOK, CallsHoldPairs, SessionInv, sessionVars
<1> QED
    BY <1>1, <1>2, <1>3, <1>4, <1>5, <1>6, <1>7, <1>8, <1>9, <1>10, <1>11 DEF SessionNext

\* The type invariant of the extension's session (ExtSession).
THEOREM SessionTypeCorrect == SessionSpec => []SessionTypeOK
<1>1. SessionInit => SessionInv
    <2> SUFFICES ASSUME SessionInit PROVE SessionInv
        OBVIOUS
    <2>1. stored \in [pair : Pairs \cup {<<>>}, email : SUBSET SignIns]
        BY DEF SessionInit, NoTokens
    <2>2. /\ issued \in [SignIns -> 0..MaxGeneration]
          /\ calls \in [BackgroundCalls -> [step : {"idle", "refresh", "store", "verify"},
                                            pair : Pairs \cup {<<>>}]]
        BY ExtSessionAssumption DEF SessionInit, Idle
    <2>3. cookie \in Pairs \cup {<<>>} /\ expiring \in SUBSET Pairs /\ used \in SUBSET Pairs
        BY DEF SessionInit
    <2>4. signedOut \in BOOLEAN /\ late \in BOOLEAN
        BY DEF SessionInit
    <2>5. CallsHoldPairs
        BY DEF SessionInit, CallsHoldPairs, Idle
    <2> QED
        BY <2>1, <2>2, <2>3, <2>4, <2>5 DEF SessionInv, SessionTypeOK
<1>2. SessionInv => SessionTypeOK
    BY DEF SessionInv
<1> QED
    BY <1>1, <1>2, SessionInvStep, PTL DEF SessionSpec

-----------------------------------------------------------------------------
(* The chat.  What is stored repeats the end of what a panel shows; during  *)
(* a turn it repeats what the panel showed before the question.             *)

Repeats(saved, seen) == IsSuffix(saved, seen) /\ Len(saved) \in {Len(seen), MaxHistory}

\* A suffix, message by message.
LEMMA SuffixAt ==
    ASSUME NEW S, NEW s \in Seq(S), NEW t \in Seq(S)
    PROVE  IsSuffix(s, t) <=> /\ Len(s) <= Len(t)
                              /\ \A i \in 1..Len(s) : s[i] = t[Len(t) - Len(s) + i]
<1> DEFINE rs == Reverse(s)
           rt == Reverse(t)
<1>1. /\ Len(rs) = Len(s) /\ rs \in Seq(S) /\ \A i \in 1..Len(s) : rs[i] = s[Len(s) - i + 1]
      /\ Len(rt) = Len(t) /\ rt \in Seq(S) /\ \A i \in 1..Len(t) : rt[i] = t[Len(t) - i + 1]
    BY DEF Reverse
<1> HIDE DEF rs, rt
<1>2. IsSuffix(s, t) <=> Len(s) <= Len(t) /\ SubSeq(rs, 1, Len(s)) = SubSeq(rt, 1, Len(s))
    BY <1>1 DEF IsSuffix, IsPrefix, rs, rt
<1>3. SUFFICES ASSUME Len(s) <= Len(t)
               PROVE  (SubSeq(rs, 1, Len(s)) = SubSeq(rt, 1, Len(s)))
                        <=> \A i \in 1..Len(s) : s[i] = t[Len(t) - Len(s) + i]
    BY <1>2
<1>4. (SubSeq(rs, 1, Len(s)) = SubSeq(rt, 1, Len(s))) <=> \A i \in 1..Len(s) : rs[i] = rt[i]
    BY <1>1, <1>3
<1>5. ASSUME \A i \in 1..Len(s) : rs[i] = rt[i]
      PROVE  \A i \in 1..Len(s) : s[i] = t[Len(t) - Len(s) + i]
    <2> SUFFICES ASSUME NEW i \in 1..Len(s) PROVE s[i] = t[Len(t) - Len(s) + i]
        OBVIOUS
    <2>1. Len(s) - i + 1 \in 1..Len(s) /\ Len(s) - i + 1 \in 1..Len(t)
        BY <1>3
    <2>2. /\ Len(s) - (Len(s) - i + 1) + 1 = i
          /\ Len(t) - (Len(s) - i + 1) + 1 = Len(t) - Len(s) + i
        BY <1>3
    <2> QED
        BY <1>1, <1>5, <2>1, <2>2
<1>6. ASSUME \A i \in 1..Len(s) : s[i] = t[Len(t) - Len(s) + i]
      PROVE  \A i \in 1..Len(s) : rs[i] = rt[i]
    <2> SUFFICES ASSUME NEW i \in 1..Len(s) PROVE rs[i] = rt[i]
        OBVIOUS
    <2>1. Len(s) - i + 1 \in 1..Len(s) /\ i \in 1..Len(t)
        BY <1>3
    <2>2. Len(t) - Len(s) + (Len(s) - i + 1) = Len(t) - i + 1
        BY <1>3
    <2> QED
        BY <1>1, <1>6, <2>1, <2>2
<1> QED
    BY <1>4, <1>5, <1>6

\* slice(-MAX_HISTORY): the last of them, never more than the limit.
LEMMA LastOfAt ==
    ASSUME NEW S, NEW s \in Seq(S)
    PROVE  /\ LastOf(s) \in Seq(S)
           /\ Len(LastOf(s)) = IF Len(s) > MaxHistory THEN MaxHistory ELSE Len(s)
           /\ \A i \in 1..Len(LastOf(s)) :
                LastOf(s)[i] = s[Len(s) - Len(LastOf(s)) + i]
<1>1. MaxHistory \in Nat
    BY ExtChatAssumption
<1>2. CASE Len(s) > MaxHistory
    <2>1. Len(s) - MaxHistory + 1 \in 1..(Len(s) + 1)
        BY <1>1, <1>2
    <2>2. \A i \in (Len(s) - MaxHistory + 1)..Len(s) : s[i] \in S
        BY <1>1, <1>2
    <2>3. /\ LastOf(s) \in Seq(S)
          /\ Len(LastOf(s)) = MaxHistory
          /\ \A i \in 1..MaxHistory : LastOf(s)[i] = s[(Len(s) - MaxHistory + 1) + i - 1]
        BY <1>1, <1>2, <2>1, <2>2 DEF LastOf
    <2> QED
        BY <1>1, <1>2, <2>3
<1>3. CASE ~(Len(s) > MaxHistory)
    BY <1>1, <1>3 DEF LastOf
<1> QED
    BY <1>2, <1>3

\* A message at the end of both: the stored history still repeats the panel.
LEMMA RepeatsOn ==
    ASSUME NEW S, NEW h \in Seq(S), NEW p \in Seq(S), NEW m \in S,
           Len(h) <= MaxHistory, Repeats(h, p)
    PROVE  Repeats(LastOf(Append(h, m)), Append(p, m))
<1> DEFINE hm == Append(h, m)
           pm == Append(p, m)
           l  == LastOf(hm)
<1>0. MaxHistory \in Nat /\ MaxHistory > 0
    BY ExtChatAssumption
<1>1. /\ hm \in Seq(S) /\ Len(hm) = Len(h) + 1
      /\ \A i \in 1..Len(h) : hm[i] = h[i]
      /\ hm[Len(h) + 1] = m
    OBVIOUS
<1>2. /\ pm \in Seq(S) /\ Len(pm) = Len(p) + 1
      /\ \A i \in 1..Len(p) : pm[i] = p[i]
      /\ pm[Len(p) + 1] = m
    OBVIOUS
<1>3. /\ Len(h) <= Len(p) /\ Len(h) \in {Len(p), MaxHistory}
      /\ \A i \in 1..Len(h) : h[i] = p[Len(p) - Len(h) + i]
    BY SuffixAt DEF Repeats
<1> HIDE DEF hm, pm
<1>4. /\ l \in Seq(S)
      /\ Len(l) = IF Len(hm) > MaxHistory THEN MaxHistory ELSE Len(hm)
      /\ \A i \in 1..Len(l) : l[i] = hm[Len(hm) - Len(l) + i]
    BY <1>1, LastOfAt
<1> HIDE DEF l
<1>5. Len(l) <= Len(pm) /\ Len(l) <= Len(hm) /\ Len(l) \in {Len(pm), MaxHistory}
    BY <1>0, <1>1, <1>2, <1>3, <1>4
<1>6. ASSUME NEW i \in 1..Len(l) PROVE l[i] = pm[Len(pm) - Len(l) + i]
    <2>1. PICK j \in 1..(Len(h) + 1) : j = Len(hm) - Len(l) + i
        BY <1>1, <1>4, <1>5
    <2>2. Len(pm) - Len(l) + i = Len(p) - Len(h) + j
        BY <1>1, <1>2, <1>4, <2>1
    <2>3. l[i] = hm[j]
        BY <1>4, <2>1
    <2>4. CASE j = Len(h) + 1
        <3>1. Len(p) - Len(h) + j = Len(p) + 1
            BY <2>4
        <3> QED
            BY <1>1, <1>2, <2>2, <2>3, <2>4, <3>1
    <2>5. CASE j \in 1..Len(h)
        <3>1. Len(p) - Len(h) + j \in 1..Len(p)
            BY <1>3, <2>5
        <3> QED
            BY <1>1, <1>2, <1>3, <2>2, <2>3, <2>5, <3>1
    <2> QED
        BY <2>4, <2>5
<1>7. IsSuffix(l, pm)
    BY <1>2, <1>4, <1>5, <1>6, SuffixAt
<1> QED
    BY <1>5, <1>7 DEF Repeats, l, hm, pm

\* What is stored repeats itself, and nothing repeats nothing.
LEMMA RepeatsSame ==
    ASSUME NEW S, NEW h \in Seq(S)
    PROVE  Repeats(h, h)
BY SuffixAt DEF Repeats

Steps == {"none", "ask", "asked", "wait", "answer", "answered"}
Turn == [step : Steps, n : 0..MaxTurns, read : Seq(Msg)]

\* The question of a turn has been given its number.
TurnsTyped ==
    /\ turn \in [Panels -> Turn]
    /\ \A t \in Panels : turn[t].step # "none" => turn[t].n \in 1..MaxTurns

\* Panel t, when nothing else wrote beside it: empty until the history is
\* loaded; while it is not being cleared it repeats what is stored, but for
\* the question until that is written; what its append has read still stands.
PanelFits(t) ==
    /\ t \notin loaded => panelChat[t] = <<>> /\ turn[t].step = "none"
    /\ t \in loaded \ clearing =>
         /\ turn[t].step \in {"none", "wait", "answer", "answered"} =>
              Repeats(history, panelChat[t])
         /\ turn[t].step \in {"ask", "asked"} =>
              \E before \in Seq(Msg) :
                /\ panelChat[t] = Append(before, [role |-> "user", n |-> turn[t].n])
                /\ Repeats(history, before)
         /\ turn[t].step \in {"asked", "answered"} => turn[t].read = history

PanelInv == \A t \in Panels \ disturbed : PanelFits(t)

ChatInv == ChatTypeOK /\ TurnsTyped /\ PanelInv

\* What WriteHistory stores is a history, within the limit.
LEMMA StoredTypes ==
    ASSUME NEW h \in Seq(Msg), NEW m \in Msg
    PROVE  LastOf(Append(h, m)) \in Seq(Msg) /\ Len(LastOf(Append(h, m))) <= MaxHistory
<1> DEFINE hm == Append(h, m)
<1>1. hm \in Seq(Msg) /\ Len(hm) \in Nat
    OBVIOUS
<1> HIDE DEF hm
<1>2. LastOf(hm) \in Seq(Msg) /\ Len(LastOf(hm)) = IF Len(hm) > MaxHistory THEN MaxHistory ELSE Len(hm)
    BY <1>1, LastOfAt
<1>3. Len(LastOf(hm)) <= MaxHistory
    BY <1>1, <1>2, ExtChatAssumption
<1> QED
    BY <1>2, <1>3 DEF hm

\* A turn moves on: its step and what it has read change, not its number.
LEMMA TurnMoves ==
    ASSUME turn \in [Panels -> Turn], NEW t \in Panels, NEW s \in Steps, NEW r \in Seq(Msg),
           turn' = [turn EXCEPT ![t].step = s, ![t].read = r]
    PROVE  /\ turn' \in [Panels -> Turn]
           /\ \A u \in Panels : turn'[u].n = turn[u].n /\ (u # t => turn'[u] = turn[u])
<1> DEFINE moved == [turn[t] EXCEPT !.step = s, !.read = r]
<1>1. turn[t] \in Turn
    OBVIOUS
<1>2. moved \in Turn /\ moved.n = turn[t].n
    BY <1>1 DEF Turn
<1>3. turn' = [turn EXCEPT ![t] = moved]
    OBVIOUS
<1> HIDE DEF moved
<1> QED
    BY <1>2, <1>3

LEMMA ChatTypeStep ==
    ChatTypeOK /\ TurnsTyped /\ [ChatNext]_chatVars => ChatTypeOK' /\ TurnsTyped'
<1> SUFFICES ASSUME ChatTypeOK, TurnsTyped, [ChatNext]_chatVars
             PROVE  ChatTypeOK' /\ TurnsTyped'
    OBVIOUS
<1> USE ExtChatAssumption DEF ChatTypeOK, TurnsTyped, Turn, Steps
<1>1. ASSUME NEW t \in Panels, LoadHistory(t) PROVE ChatTypeOK' /\ TurnsTyped'
    <2>1. panelChat[t] \in Seq(Msg) /\ history \in Seq(Msg)
        OBVIOUS
    <2>2. panelChat[t] \o history \in Seq(Msg)
        BY <2>1, ConcatProperties
    <2> QED
        BY <1>1, <2>2 DEF LoadHistory
<1>2. ASSUME NEW t \in Panels, Send(t) PROVE ChatTypeOK' /\ TurnsTyped'
    <2>1. asked + 1 \in 1..MaxTurns
        BY <1>2 DEF Send
    <2>2. Append(panelChat[t], [role |-> "user", n |-> asked + 1]) \in Seq(Msg)
        <3>1. [role |-> "user", n |-> asked + 1] \in Msg /\ panelChat[t] \in Seq(Msg)
            BY <2>1 DEF Msg
        <3> QED
            BY <3>1, AppendProperties
    <2>3. [step |-> "ask", n |-> asked + 1, read |-> <<>>] \in Turn
        BY <2>1
    <2> QED
        <3>1. panelChat' \in [Panels -> Seq(Msg)] /\ asked' \in 0..MaxTurns
            BY <1>2, <2>1, <2>2 DEF Send
        <3>2. TurnsTyped'
            BY <1>2, <2>1, <2>3 DEF Send
        <3>3. disturbed' \in SUBSET Panels /\ UNCHANGED <<history, loaded, clearing>>
            BY <1>2 DEF Send
        <3> QED
            BY <3>1, <3>2, <3>3
<1>3. ASSUME NEW t \in Panels, ReadHistory(t) PROVE ChatTypeOK' /\ TurnsTyped'
    <2>1. /\ turn[t].step # "none"
          /\ turn' = [turn EXCEPT ![t].step = IF @ = "ask" THEN "asked" ELSE "answered",
                                  ![t].read = history]
          /\ UNCHANGED <<history, panelChat, loaded, clearing, asked, disturbed>>
        BY <1>3 DEF ReadHistory
    <2>2. (IF turn[t].step = "ask" THEN "asked" ELSE "answered") \in Steps
        OBVIOUS
    <2>3. /\ turn' \in [Panels -> Turn]
          /\ \A u \in Panels : turn'[u].n = turn[u].n /\ (u # t => turn'[u] = turn[u])
        <3>1. history \in Seq(Msg) /\ turn \in [Panels -> Turn]
            OBVIOUS
        <3> HIDE DEF Turn, Steps
        <3> QED
            BY <2>1, <2>2, <3>1, TurnMoves
    <2>4. TurnsTyped'
        BY <2>1, <2>3
    <2> QED
        BY <2>1, <2>4
<1>4. ASSUME NEW t \in Panels, WriteHistory(t) PROVE ChatTypeOK' /\ TurnsTyped'
    <2> DEFINE message == [role |-> IF turn[t].step = "asked" THEN "user" ELSE "assistant",
                           n |-> turn[t].n]
    <2>1. message \in Msg
        BY <1>4 DEF WriteHistory, Msg
    <2>2. turn[t].read \in Seq(Msg) /\ Append(panelChat[t], message) \in Seq(Msg)
        BY <2>1
    <2>3. history' = LastOf(Append(turn[t].read, message))
        BY <1>4 DEF WriteHistory
    <2>4. history' \in Seq(Msg) /\ Len(history') <= MaxHistory
        BY <2>1, <2>2, <2>3, StoredTypes
    <2>5. panelChat' \in [Panels -> Seq(Msg)]
        BY <1>4, <2>2 DEF WriteHistory
    <2>6. TurnsTyped'
        <3>1. CASE turn' = [turn EXCEPT ![t].step = "wait", ![t].read = <<>>]
            <4>1. /\ turn' \in [Panels -> Turn]
                  /\ \A u \in Panels : turn'[u].n = turn[u].n /\ (u # t => turn'[u] = turn[u])
                <5>1. "wait" \in Steps /\ <<>> \in Seq(Msg) /\ turn \in [Panels -> Turn]
                    OBVIOUS
                <5> HIDE DEF Turn, Steps
                <5> QED
                    BY <3>1, <5>1, TurnMoves
            <4>2. turn[t].step # "none"
                BY <1>4 DEF WriteHistory
            <4> QED
                BY <4>1, <4>2
        <3>2. CASE turn' = [turn EXCEPT ![t] = NoTurn]
            BY <3>2 DEF NoTurn
        <3> QED
            BY <1>4, <3>1, <3>2 DEF WriteHistory
    <2> QED
        <3>1. disturbed' \in SUBSET Panels /\ UNCHANGED <<loaded, clearing, asked>>
            BY <1>4 DEF WriteHistory, Disturb
        <3> QED
            BY <2>4, <2>5, <2>6, <3>1
<1>5. ASSUME NEW t \in Panels, Answer(t) PROVE ChatTypeOK' /\ TurnsTyped'
    BY <1>5 DEF Answer
<1>6. ASSUME NEW t \in Panels, AnswerFails(t) PROVE ChatTypeOK' /\ TurnsTyped'
    BY <1>6 DEF AnswerFails, NoTurn
<1>7. ASSUME NEW t \in Panels, ClearChat(t) PROVE ChatTypeOK' /\ TurnsTyped'
    BY <1>7 DEF ClearChat
<1>8. ASSUME NEW t \in Panels, ClearHistory(t) PROVE ChatTypeOK' /\ TurnsTyped'
    BY <1>8 DEF ClearHistory
<1>9. CASE UNCHANGED chatVars
    BY <1>9 DEF chatVars
<1> QED
    BY <1>1, <1>2, <1>3, <1>4, <1>5, <1>6, <1>7, <1>8, <1>9 DEF ChatNext

LEMMA PanelStep ==
    ChatInv /\ [ChatNext]_chatVars => PanelInv'
<1> SUFFICES ASSUME ChatInv, [ChatNext]_chatVars, NEW t \in Panels, t \notin disturbed'
             PROVE  PanelFits(t)'
    BY DEF PanelInv
<1>0. /\ history \in Seq(Msg) /\ Len(history) <= MaxHistory
      /\ panelChat \in [Panels -> Seq(Msg)] /\ turn \in [Panels -> Turn]
      /\ turn[t].step # "none" => turn[t].n \in 1..MaxTurns
      /\ t \notin disturbed => PanelFits(t)
    BY DEF ChatInv, ChatTypeOK, TurnsTyped, PanelInv
<1>1. ASSUME NEW a \in Panels, LoadHistory(a) PROVE PanelFits(t)'
    <2>1. CASE t = a
        <3>1. panelChat[t] = <<>> /\ turn[t].step = "none"
            BY <1>0, <1>1, <2>1 DEF LoadHistory, PanelFits
        <3>2. panelChat'[t] = history /\ turn' = turn /\ history' = history /\ t \in loaded'
            BY <1>0, <1>1, <2>1, <3>1 DEF LoadHistory
        <3> QED
            BY <1>0, <3>1, <3>2, RepeatsSame DEF PanelFits
    <2>2. CASE t # a
        BY <1>0, <1>1, <2>2 DEF LoadHistory, PanelFits
    <2> QED
        BY <2>1, <2>2
<1>2. ASSUME NEW a \in Panels, Send(a) PROVE PanelFits(t)'
    <2>1. CASE t = a
        <3>1. /\ t \in loaded /\ t \notin disturbed /\ turn[t].step = "none"
              /\ history' = history /\ loaded' = loaded /\ clearing' = clearing
              /\ panelChat'[t] = Append(panelChat[t], [role |-> "user", n |-> asked + 1])
              /\ turn'[t] = [step |-> "ask", n |-> asked + 1, read |-> <<>>]
            BY <1>0, <1>2, <2>1 DEF Send
        <3>2. t \notin clearing => Repeats(history, panelChat[t])
            BY <1>0, <3>1 DEF PanelFits
        <3>3. turn'[t].step = "ask" /\ turn'[t].n = asked + 1
            BY <3>1
        <3>4. panelChat[t] \in Seq(Msg)
            BY <1>0
        <3> QED
            BY <3>1, <3>2, <3>3, <3>4 DEF PanelFits
    <2>2. CASE t # a
        BY <1>0, <1>2, <2>2 DEF Send, PanelFits
    <2> QED
        BY <2>1, <2>2
<1>3. ASSUME NEW a \in Panels, ReadHistory(a) PROVE PanelFits(t)'
    <2>1. CASE t = a
        <3>1. /\ turn'[t].step = IF turn[t].step = "ask" THEN "asked" ELSE "answered"
              /\ turn'[t].n = turn[t].n /\ turn'[t].read = history
              /\ turn[t].step \in {"ask", "answer"}
            BY <1>0, <1>3, <2>1 DEF ReadHistory, Turn
        <3>2. UNCHANGED <<history, panelChat, loaded, clearing, disturbed>>
            BY <1>3 DEF ReadHistory
        <3> QED
            BY <1>0, <3>1, <3>2 DEF PanelFits
    <2>2. CASE t # a
        BY <1>0, <1>3, <2>2 DEF ReadHistory, PanelFits
    <2> QED
        BY <2>1, <2>2
<1>4. ASSUME NEW a \in Panels, WriteHistory(a) PROVE PanelFits(t)'
    <2> DEFINE message == [role |-> IF turn[t].step = "asked" THEN "user" ELSE "assistant",
                           n |-> turn[t].n]
    <2>1. t = a /\ t \notin disturbed
        BY <1>4 DEF WriteHistory, Disturb
    <2>2. /\ turn[t].step \in {"asked", "answered"}
          /\ history' = LastOf(Append(turn[t].read, message))
          /\ UNCHANGED <<loaded, clearing>>
        BY <1>4, <2>1 DEF WriteHistory
    <2>3. message \in Msg
        BY <1>0, <2>2 DEF Msg
    <2>4. t \in loaded
        BY <1>0, <2>1, <2>2 DEF PanelFits
    <2>5. SUFFICES ASSUME t \notin clearing PROVE PanelFits(t)'
        BY <2>2, <2>4 DEF PanelFits
    <2>6. turn[t].read = history
        BY <1>0, <2>1, <2>2, <2>4, <2>5 DEF PanelFits
    <2>7. CASE turn[t].step = "asked"
        <3>1. PICK before \in Seq(Msg) : /\ panelChat[t] = Append(before, message)
                                         /\ Repeats(history, before)
            BY <1>0, <2>1, <2>2, <2>4, <2>5, <2>7 DEF PanelFits
        <3>2. Repeats(LastOf(Append(history, message)), Append(before, message))
            BY <1>0, <2>3, <3>1, RepeatsOn
        <3>3. turn'[t].step = "wait" /\ panelChat' = panelChat
            BY <1>0, <1>4, <2>1, <2>7 DEF WriteHistory, Turn
        <3> QED
            BY <2>2, <2>4, <2>6, <3>1, <3>2, <3>3 DEF PanelFits
    <2>8. CASE turn[t].step = "answered"
        <3>1. Repeats(history, panelChat[t])
            BY <1>0, <2>1, <2>2, <2>4, <2>5, <2>8 DEF PanelFits
        <3>2. Repeats(LastOf(Append(history, message)), Append(panelChat[t], message))
            BY <1>0, <2>3, <3>1, RepeatsOn
        <3>3. turn'[t].step = "none" /\ panelChat'[t] = Append(panelChat[t], message)
            BY <1>0, <1>4, <2>1, <2>8 DEF WriteHistory, NoTurn
        <3> QED
            BY <2>2, <2>4, <2>6, <3>2, <3>3 DEF PanelFits
    <2> QED
        BY <2>2, <2>7, <2>8
<1>5. ASSUME NEW a \in Panels, Answer(a) PROVE PanelFits(t)'
    BY <1>0, <1>5 DEF Answer, PanelFits, Turn
<1>6. ASSUME NEW a \in Panels, AnswerFails(a) PROVE PanelFits(t)'
    BY <1>0, <1>6 DEF AnswerFails, PanelFits, NoTurn
<1>7. ASSUME NEW a \in Panels, ClearChat(a) PROVE PanelFits(t)'
    BY <1>0, <1>7 DEF ClearChat, PanelFits
<1>8. ASSUME NEW a \in Panels, ClearHistory(a) PROVE PanelFits(t)'
    <2>1. t = a /\ panelChat[t] = <<>> /\ turn[t].step = "none" /\ history' = <<>>
        BY <1>8 DEF ClearHistory
    <2>2. Repeats(<<>>, <<>>)
        <3>1. <<>> \in Seq(Msg)
            OBVIOUS
        <3> QED
            BY <3>1, RepeatsSame
    <2> QED
        BY <1>8, <2>1, <2>2 DEF ClearHistory, PanelFits
<1>9. CASE UNCHANGED chatVars
    BY <1>0, <1>9 DEF chatVars, PanelFits
<1> QED
    BY <1>1, <1>2, <1>3, <1>4, <1>5, <1>6, <1>7, <1>8, <1>9 DEF ChatNext

LEMMA ChatInvariant == ChatSpec => []ChatInv
<1>1. ChatInit => ChatInv
    <2> SUFFICES ASSUME ChatInit PROVE ChatInv
        OBVIOUS
    <2>1. NoTurn \in Turn /\ <<>> \in Seq(Msg) /\ 0 <= MaxHistory
        BY ExtChatAssumption DEF Turn, Steps, NoTurn
    <2>2. TurnsTyped
        BY <2>1 DEF ChatInit, TurnsTyped, NoTurn
    <2>3. ChatTypeOK
        <3>1. /\ history = <<>> /\ panelChat = [t \in Panels |-> <<>>] /\ loaded = {}
              /\ clearing = {} /\ asked = 0 /\ disturbed = {}
            BY DEF ChatInit
        <3>2. turn \in [Panels -> Turn]
            BY <2>2 DEF TurnsTyped
        <3>3. Len(<<>>) <= MaxHistory
            BY <2>1
        <3>4. panelChat \in [Panels -> Seq(Msg)]
            BY <2>1, <3>1
        <3>5. \A t \in Panels : turn[t].step \in Steps /\ turn[t].read \in Seq(Msg)
            BY <3>2 DEF Turn
        <3> QED
            BY <2>1, <3>1, <3>3, <3>4, <3>5, ExtChatAssumption DEF ChatTypeOK, Steps
    <2>4. PanelInv
        BY DEF ChatInit, PanelInv, PanelFits, NoTurn
    <2> QED
        BY <2>2, <2>3, <2>4 DEF ChatInv
<1>2. ChatInv /\ [ChatNext]_chatVars => ChatInv'
    BY ChatTypeStep, PanelStep DEF ChatInv
<1> QED
    BY <1>1, <1>2, PTL DEF ChatSpec

\* The type invariant of the extension's chat (ExtChat).
THEOREM ChatTypeCorrect == ChatSpec => []ChatTypeOK
<1>1. ChatInv => ChatTypeOK
    BY DEF ChatInv
<1> QED
    BY <1>1, ChatInvariant, PTL

\* For any number of panels and questions and any limit, a panel nothing else
\* wrote beside shows between its turns what is stored (appendMessage of
\* chat-store.ts, and the panel that shows a message before it is stored).
THEOREM PanelsRepeat == ChatSpec => []PanelRepeats
<1>1. ChatInv => PanelRepeats
    BY DEF ChatInv, ChatTypeOK, PanelInv, PanelFits, PanelRepeats, Repeats
<1> QED
    BY <1>1, ChatInvariant, PTL

-----------------------------------------------------------------------------
(* The options of a drop-down (Snapshot, as FormFill uses it).              *)

\* The first of four that says something is one of them.
LEMMA FirstOfFour ==
    ASSUME NEW a, NEW b, NEW c, NEW d, NEW nothing
    PROVE  FirstOf(<<a, b, c, d>>, nothing) \in {a, b, c, d, nothing}
<1> DEFINE four == <<a, b, c, d>>
           said == {i \in DOMAIN four : four[i] # nothing}
<1>1. CASE said = {}
    BY <1>1 DEF FirstOf
<1>2. CASE said # {}
    <2>1. said \subseteq 1..4
        OBVIOUS
    <2>2. \E m \in said : \A y \in said : m <= y
        BY <1>2, <2>1
    <2>3. Min(said) \in said
        <3> HIDE DEF said
        <3> QED
            BY <2>2 DEF Min
    <2>4. FirstOf(four, nothing) = four[Min(said)]
        BY <1>2 DEF FirstOf
    <2>5. Min(said) \in 1..4
        BY <2>1, <2>3
    <2> QED
        BY <2>4, <2>5
<1> QED
    BY <1>1, <1>2

\* A field as build makes it.
IsField(f) ==
    f = [el |-> f.el, ref |-> f.ref, label |-> f.label, field_type |-> f.field_type,
         selector |-> f.selector, options |-> f.options, required |-> f.required,
         error |-> f.error, section |-> f.section]

\* Besides: what was harvested earlier belongs to the drop-down its key names.
OptionsInv(owner) ==
    /\ \A i \in DOMAIN fields : IsField(fields[i])
    /\ OptionsAreOwn
    /\ \A c \in optionsCache : \A o \in c.options : o[1] = owner[c.key]

\* Nothing build finds without a click is another's, while one menu is open.
LEMMA BuildOwn ==
    ASSUME OneMenuOpen, NEW e, NEW r
    PROVE  \A o \in Build(e, r).options : o[1] = e
<1>1. \A o \in MenuOf(e) : o[1] = e
    BY DEF MenuOf
<1>2. ASSUME NEW els, \A x \in open \cap els : x = e
      PROVE  \A o \in ShownOptions(els) : o[1] = e
    BY <1>1, <1>2 DEF ShownOptions, MenuOf
<1>3. e \in open => \A x \in open : x = e
    BY DEF OneMenuOpen
<1> DEFINE near == {<<e, t>> : t \in El(e).near}
           owned == IF El(e).owns THEN ShownOptions({e}) ELSE {}
           anywhere == IF e \in open THEN ShownOptions(InDocumentOf(e)) ELSE {}
<1>4. /\ \A o \in near : o[1] = e
      /\ \A o \in SchemaOptions(e) : o[1] = e
    BY DEF SchemaOptions
<1>5. \A o \in owned : o[1] = e
    BY <1>2
<1>6. \A o \in anywhere : o[1] = e
    BY <1>2, <1>3
<1> HIDE DEF near, owned, anywhere
<1>7. FirstOf(<<near, owned, anywhere, SchemaOptions(e)>>, {})
        \in {near, owned, anywhere, SchemaOptions(e), {}}
    BY FirstOfFour
<1>8. \A o \in FirstOf(<<near, owned, anywhere, SchemaOptions(e)>>, {}) : o[1] = e
    BY <1>4, <1>5, <1>6, <1>7
<1>9. \A o \in ExtractOptions(e) : o[1] = e
    <2> DEFINE named == {<<e, AccName(x)>> : x \in RadioPeers(e)}
               peers == named \ {<<e, "">>}
               four == FirstOf(<<near, owned, anywhere, SchemaOptions(e)>>, {})
    <2>1. \A o \in peers : o[1] = e
        <3>1. \A o \in named : o[1] = e
            OBVIOUS
        <3> HIDE DEF named
        <3> QED
            BY <3>1
    <2>2. ExtractOptions(e) = peers \/ ExtractOptions(e) = near \/ ExtractOptions(e) = {}
            \/ ExtractOptions(e) = four
        BY DEF ExtractOptions, near, owned, anywhere
    <2> HIDE DEF peers, four
    <2>3. \A o \in four : o[1] = e
        BY <1>8 DEF four
    <2> QED
        BY <1>4, <2>1, <2>2, <2>3
<1> QED
    BY <1>9 DEF Build

\* A menu that a click opened is the drop-down's own: what was on the screen
\* before is left out, unless the drop-down owns it.
LEMMA ForceOpenOwn ==
    ASSUME NEW e, NEW menus \in {open, open \cup {e}}
    PROVE  \A o \in ForceOpen(e, menus) : o[1] = e
BY DEF ForceOpen, OptionScope, MenuOf

\* The options of one field are replaced by some of its own.
LEMMA SetOptionsOwn ==
    ASSUME NEW owner, OptionsInv(owner), next \in DOMAIN fields, NEW opts, SetOptions(opts),
           \A o \in opts : o[1] = fields[next].el
    PROVE  /\ \A i \in DOMAIN fields' : IsField(fields'[i])
           /\ OptionsAreOwn'
<1>1. DOMAIN fields' = DOMAIN fields
    BY DEF SetOptions
<1>2. \A i \in DOMAIN fields : i # next => fields'[i] = fields[i]
    BY DEF SetOptions
<1>3. fields'[next] = [fields[next] EXCEPT !.options = opts]
    BY DEF SetOptions
<1>4. IsField(fields[next])
    BY DEF OptionsInv
<1>5. /\ IsField(fields'[next])
      /\ fields'[next].el = fields[next].el
      /\ fields'[next].options = opts
    BY <1>3, <1>4 DEF IsField
<1> QED
    BY <1>1, <1>2, <1>5 DEF OptionsInv, OptionsAreOwn

\* One step: where something is read or harvested, the conditions hold of the
\* form as it is by then.
LEMMA OptionsStep ==
    ASSUME NEW owner
    PROVE  /\ OptionsInv(owner)
           /\ TellsDropdownsApart(owner) /\ TellsDropdownsApart(owner)'
           /\ [FillNext]_fillVars
           => OptionsInv(owner)'
<1> SUFFICES ASSUME OptionsInv(owner), TellsDropdownsApart(owner),
                    TellsDropdownsApart(owner)', [FillNext]_fillVars
             PROVE  OptionsInv(owner)'
    OBVIOUS
<1>1. CASE RunFill
    <2>1. Observe
        BY <1>1 DEF RunFill
    <2>2. optionsCache' = optionsCache
        BY <2>1 DEF Observe
    <2> DEFINE seq == InOrder(Observed)
    <2>3. fields' = [i \in DOMAIN seq |-> Build(seq[i], i)]
        BY <2>1 DEF Observe
    <2>4. \A e, r : IsField(Build(e, r)) /\ Build(e, r).el = e
        BY DEF Build, IsField
    <2>5. \A e, r : \A o \in Build(e, r).options : o[1] = e
        BY BuildOwn DEF TellsDropdownsApart
    <2> HIDE DEF seq
    <2> QED
        BY <2>2, <2>3, <2>4, <2>5 DEF OptionsInv, OptionsAreOwn
<1>2. CASE Harvest /\ HarvestWithoutClick
    <2> DEFINE f == fields[next]
               trigger == FindEl(f.selector)
    <2>1. next \in DOMAIN fields /\ optionsCache' = optionsCache
        BY <1>2 DEF HarvestWithoutClick
    <2>2. CASE UNCHANGED fields
        BY <2>1, <2>2 DEF OptionsInv, OptionsAreOwn
    <2>3. ASSUME NEW opts, SetOptions(opts), \A o \in opts : o[1] = f.el
          PROVE  OptionsInv(owner)'
        BY <2>1, <2>3, SetOptionsOwn DEF OptionsInv
    <2>4. CASE /\ f.field_type = "select" /\ Cached(f) # {}
               /\ SetOptions(CHOOSE o \in Cached(f) : TRUE)
        <3> DEFINE opts == CHOOSE o \in Cached(f) : TRUE
        <3>1. opts \in Cached(f)
            BY <2>4
        <3>2. PICK c \in optionsCache : c.key = CacheKey(f) /\ opts = c.options
            BY <3>1 DEF Cached
        <3>3. owner[CacheKey(f)] = f.el
            BY <2>1, <2>4 DEF TellsDropdownsApart, KeysName, Selects
        <3>4. \A o \in opts : o[1] = f.el
            BY <3>2, <3>3 DEF OptionsInv
        <3> QED
            BY <2>3, <2>4, <3>4
    <2>5. CASE /\ f.field_type = "select" /\ trigger # 0
               /\ SetOptions({<<trigger, t>> : t \in El(trigger).hiddenSelect})
        <3>1. trigger = f.el
            BY <2>1, <2>5 DEF TellsDropdownsApart, SelectorsFind, Selects
        <3>2. \A o \in {<<trigger, t>> : t \in El(trigger).hiddenSelect} : o[1] = f.el
            BY <3>1
        <3> QED
            BY <2>3, <2>5, <3>2
    <2> QED
        BY <1>2, <2>2, <2>4, <2>5 DEF HarvestWithoutClick
<1>3. CASE Harvest /\ HarvestByClick
    <2> DEFINE f == fields[next]
               trigger == FindEl(f.selector)
    <2>1. next \in DOMAIN fields /\ f.field_type = "select" /\ trigger # 0
        BY <1>3 DEF HarvestByClick
    <2>2. PICK menus \in {open, open \cup {trigger}} :
             LET opts == ForceOpen(trigger, menus) IN
             /\ SetOptions(opts)
             /\ optionsCache' = IF opts = {} THEN optionsCache
                                ELSE optionsCache \cup {[key |-> CacheKey(f), options |-> opts]}
        BY <1>3 DEF HarvestByClick
    <2> DEFINE opts == ForceOpen(trigger, menus)
    <2>3. trigger = f.el
        BY <2>1 DEF TellsDropdownsApart, SelectorsFind, Selects
    <2>4. owner[CacheKey(f)] = f.el
        BY <2>1 DEF TellsDropdownsApart, KeysName, Selects
    <2>5. \A o \in opts : o[1] = f.el
        BY <2>3, ForceOpenOwn
    <2> HIDE DEF opts
    <2>6. \A i \in DOMAIN fields' : IsField(fields'[i])
        BY <2>1, <2>2, <2>5, SetOptionsOwn DEF opts
    <2>7. OptionsAreOwn'
        BY <2>1, <2>2, <2>5, SetOptionsOwn DEF opts
    <2>8. \A c \in optionsCache' : c \in optionsCache \/ c = [key |-> CacheKey(f), options |-> opts]
        BY <2>2 DEF opts
    <2>9. \A c \in optionsCache' : \A o \in c.options : o[1] = owner[c.key]
        BY <2>4, <2>5, <2>8 DEF OptionsInv
    <2> QED
        BY <2>6, <2>7, <2>9 DEF OptionsInv
<1>4. CASE UNCHANGED <<fields, optionsCache>>
    BY <1>4 DEF OptionsInv, OptionsAreOwn
<1> QED
    <2>1. SnapshotTaken \/ ContextAnswered \/ QuickDone \/ FillAnswered \/ AiDone \/ RunFails
            \/ ApplyField \/ SaveEdits \/ (\E e \in Els : EditField(e)) \/ UNCHANGED fillVars
          => UNCHANGED <<fields, optionsCache>>
        BY DEF SnapshotTaken, ContextAnswered, QuickDone, FillAnswered, AiDone, RunFails,
               ApplyField, SaveEdits, EditField, fillVars, snapVars
    <2>2. PageStep => UNCHANGED <<fields, optionsCache>>
        BY DEF PageStep
    <2> QED
        BY <1>1, <1>2, <1>3, <1>4, <2>1, <2>2 DEF FillNext, Harvest

\* On a page that tells its drop-downs apart - no two of them left open, a
\* selector that finds its own, selector and label that name one - neither a
\* menu that Escape failed to close, nor the cache, nor the page's other lists
\* are taken for the options of a drop-down (observeWithOptions,
\* _forceOpenOptions, extractOptions of snapshot.ts).
THEOREM OptionsOwn ==
    ASSUME NEW CONSTANT owner
    PROVE  FillSpec /\ []TellsDropdownsApart(owner) => []OptionsAreOwn
<1>1. FillInit => OptionsInv(owner)
    <2>1. FillInit => fields = <<>> /\ optionsCache = {}
        BY DEF FillInit, SnapInit
    <2>2. ASSUME fields = <<>> PROVE DOMAIN fields = {}
        BY <2>2
    <2> QED
        BY <2>1, <2>2 DEF OptionsInv, OptionsAreOwn
<1>2. OptionsInv(owner) => OptionsAreOwn
    BY DEF OptionsInv
<1> QED
    BY <1>1, <1>2, OptionsStep, PTL DEF FillSpec

-----------------------------------------------------------------------------
(* Filling a form (FormFill): its types, and what a run still has to apply. *)

\* The ranks of a finite set of numbers are 1 .. its size, each once.
LEMMA Ranks ==
    ASSUME NEW S \in SUBSET Nat, IsFiniteSet(S)
    PROVE  /\ Cardinality(S) \in Nat
           /\ \A x \in S : Cardinality({y \in S : y <= x}) \in 1..Cardinality(S)
           /\ \A i \in 1..Cardinality(S) : \E x \in S : Cardinality({y \in S : y <= x}) = i
           /\ \A x, z \in S : Cardinality({y \in S : y <= x}) = Cardinality({y \in S : y <= z})
                               => x = z
<1> DEFINE n == Cardinality(S)
           upTo(x) == {y \in S : y <= x}
           rank == [x \in S |-> Cardinality(upTo(x))]
<1>1. n \in Nat
    BY FS_CardinalityType
<1>2. \A x \in S : IsFiniteSet(upTo(x)) /\ Cardinality(upTo(x)) <= n
                   /\ Cardinality(upTo(x)) \in Nat
    BY FS_Subset, FS_CardinalityType
<1>3. \A x \in S : Cardinality(upTo(x)) \in 1..n
    <2> TAKE x \in S
    <2>1. x \in upTo(x)
        OBVIOUS
    <2>2. Cardinality(upTo(x)) # 0
        BY <1>2, <2>1, FS_EmptySet
    <2> QED
        BY <1>1, <1>2, <2>2
<1>4. \A x, y \in S : x <= y /\ Cardinality(upTo(x)) = Cardinality(upTo(y)) => x = y
    <2> SUFFICES ASSUME NEW x \in S, NEW y \in S, x <= y,
                        Cardinality(upTo(x)) = Cardinality(upTo(y))
                 PROVE  x = y
        OBVIOUS
    <2>1. \A z \in S : z <= x => z <= y
        <3> TAKE z \in S
        <3>1. x \in Nat /\ y \in Nat /\ z \in Nat
            OBVIOUS
        <3> QED
            BY <3>1
    <2>2. upTo(x) \in SUBSET upTo(y)
        BY <2>1
    <2>3. upTo(x) = upTo(y)
        <3> HIDE DEF upTo
        <3> QED
            BY <1>2, <2>2, FS_Subset
    <2>4. y \in upTo(y)
        OBVIOUS
    <2>5. y <= x
        BY <2>3, <2>4
    <2>6. x \in Nat /\ y \in Nat
        OBVIOUS
    <2> QED
        BY <2>5, <2>6
<1>5. \A x, y \in S : Cardinality(upTo(x)) = Cardinality(upTo(y)) => x = y
    <2> SUFFICES ASSUME NEW x \in S, NEW y \in S,
                        Cardinality(upTo(x)) = Cardinality(upTo(y))
                 PROVE  x = y
        OBVIOUS
    <2>1. x <= y \/ y <= x
        OBVIOUS
    <2> HIDE DEF upTo
    <2> QED
        BY <1>4, <2>1
<1>6. rank \in [S -> 1..n]
    BY <1>3
<1>7. \A x, y \in S : rank[x] = rank[y] => x = y
    BY <1>5
<1>8. rank \in Injection(S, 1..n)
    <2> HIDE DEF rank
    <2> QED
        BY <1>6, <1>7 DEF Injection, IsInjective
<1>9. IsFiniteSet(1..n) /\ Cardinality(1..n) = n
    BY <1>1, FS_Interval
<1>10. rank \in Surjection(S, 1..n)
    <2> HIDE DEF rank
    <2> QED
        BY <1>8, <1>9, FS_Injection
<1>11. \A i \in 1..n : \E x \in S : rank[x] = i
    <2> HIDE DEF rank
    <2> QED
        BY <1>10 DEF Surjection
<1> QED
    BY <1>1, <1>3, <1>5, <1>11

\* In order, each of the numbers once.
LEMMA Ordered ==
    ASSUME NEW S \in SUBSET Nat, IsFiniteSet(S)
    PROVE  /\ Cardinality(S) \in Nat
           /\ DOMAIN InOrder(S) = 1..Cardinality(S)
           /\ \A k \in 1..Cardinality(S) : InOrder(S)[k] \in S
           /\ \A k, l \in 1..Cardinality(S) : InOrder(S)[k] = InOrder(S)[l] => k = l
<1> DEFINE rank(x) == Cardinality({y \in S : y <= x})
           nth(k) == CHOOSE x \in S : rank(x) = k
<1>1. /\ Cardinality(S) \in Nat
      /\ \A k \in 1..Cardinality(S) : \E x \in S : rank(x) = k
    BY Ranks
<1>2. InOrder(S) = [k \in 1..Cardinality(S) |-> nth(k)]
    BY DEF InOrder
<1> HIDE DEF rank
<1>3. \A k \in 1..Cardinality(S) : nth(k) \in S /\ rank(nth(k)) = k
    BY <1>1
<1> HIDE DEF nth
<1> QED
    BY <1>1, <1>2, <1>3

\* The number of rank one is the least.
LEMMA Least ==
    ASSUME NEW S \in SUBSET Nat, IsFiniteSet(S), S # {}
    PROVE  \E m \in S : \A y \in S : m <= y
<1>1. Cardinality(S) \in Nat /\ Cardinality(S) # 0
    BY FS_CardinalityType, FS_EmptySet
<1>2. PICK m \in S : Cardinality({y \in S : y <= m}) = 1
    BY <1>1, Ranks
<1> DEFINE upTo == {y \in S : y <= m}
<1>3. IsFiniteSet(upTo) /\ m \in upTo
    BY FS_Subset
<1>4. \A y \in upTo : y = m
    <2> HIDE DEF upTo
    <2>1. Cardinality(upTo) = 1
        BY <1>2 DEF upTo
    <2>2. PICK x : upTo = {x}
        BY <1>3, <2>1, FS_Singleton
    <2> QED
        BY <1>3, <2>2
<1>5. \A y \in S : y \in Nat /\ m \in Nat /\ (y <= m => y = m)
    BY <1>4
<1> QED
    BY <1>5

\* A function on 1..n is a sequence of length n.
LEMMA FunctionIsSeq ==
    ASSUME NEW f, NEW n \in Nat, f = [i \in 1..n |-> f[i]]
    PROVE  f \in Seq(Range(f)) /\ Len(f) = n /\ DOMAIN f = 1..n
<1>1. DOMAIN f = 1..n
    OBVIOUS
<1>2. f \in [1..n -> Range(f)]
    BY <1>1 DEF Range
<1>3. f \in Seq(Range(f))
    BY <1>2, SeqDef
<1> QED
    BY <1>1, <1>3, LenProperties

\* Elements are numbered from 1.
LEMMA ElsNumbered ==
    ASSUME page \in DOMAIN Pages
    PROVE  /\ IsFiniteSet(Els) /\ Els \in SUBSET Nat /\ 0 \notin Els
           /\ Cardinality(Els) \in Nat
           /\ \A e \in Els : El(e).shown \in Visibility
<1>1. Pages[page].els \in Seq(Range(Pages[page].els))
    BY SnapshotAssumption
<1>2. PICK n \in Nat : Els = 1..n
    BY <1>1, LenProperties DEF Els
<1>3. \A e \in Els : El(e).shown \in Visibility
    BY SnapshotAssumption DEF Els, El
<1> QED
    BY <1>2, <1>3, FS_Interval, FS_CardinalityType

\* findEl finds an element of the page, or none.
LEMMA FindElIs ==
    ASSUME page \in DOMAIN Pages, NEW s
    PROVE  FindEl(s) \in Els \cup {0}
<1> DEFINE found == {e \in Els : El(e).root \in CollectRoots /\ Matches(e, s)}
<1>1. CASE found = {}
    BY <1>1 DEF FindEl
<1>2. CASE found # {}
    <2>1. found \in SUBSET Els
        OBVIOUS
    <2> HIDE DEF found
    <2>2. found \in SUBSET Nat /\ IsFiniteSet(found)
        BY <2>1, ElsNumbered, FS_Subset
    <2>3. PICK m \in found : \A y \in found : m <= y
        BY <1>2, <2>2, Least
    <2>4. Min(found) \in found
        BY <2>3 DEF Min
    <2> QED
        BY <1>2, <2>1, <2>4 DEF FindEl, found
<1> QED
    BY <1>1, <1>2

\* The snapshot is a sequence of fields, no longer than the page has elements;
\* between the two halves of a run nothing waits to be applied.
FieldsAreSeq ==
    /\ fields \in Seq(Range(fields)) /\ Len(fields) <= Cardinality(Els)
    /\ \A i \in DOMAIN fields : IsField(fields[i])

NothingQueued == run \in {"idle", "reading", "context", "asking"} => queue = <<>>

FillTypes == FillTypeOK /\ FieldsAreSeq /\ NothingQueued

LEMMA FieldsDomain ==
    ASSUME FieldsAreSeq, page \in DOMAIN Pages
    PROVE  /\ DOMAIN fields = 1..Len(fields) /\ Len(fields) \in Nat
           /\ IsFiniteSet(DOMAIN fields) /\ DOMAIN fields \in SUBSET Nat
           /\ DOMAIN fields \subseteq 1..Cardinality(Els)
<1>1. DOMAIN fields = 1..Len(fields) /\ Len(fields) \in Nat
    BY LenProperties DEF FieldsAreSeq
<1>2. Cardinality(Els) \in Nat /\ Len(fields) <= Cardinality(Els)
    BY ElsNumbered DEF FieldsAreSeq
<1>3. IsFiniteSet(1..Len(fields))
    BY <1>1, FS_Interval
<1>4. 1..Len(fields) \in SUBSET Nat /\ 1..Len(fields) \subseteq 1..Cardinality(Els)
    BY <1>1, <1>2
<1> QED
    BY <1>1, <1>3, <1>4

\* A reading of the form.
LEMMA ObserveTypes ==
    ASSUME SnapTypeOK, Observe
    PROVE  SnapTypeOK' /\ FieldsAreSeq'
<1>1. page' = page /\ shown' = shown /\ Els' = Els /\ page \in DOMAIN Pages
    BY DEF Observe, Els, SnapTypeOK
<1>2. /\ IsFiniteSet(Els) /\ Els \in SUBSET Nat /\ Cardinality(Els) \in Nat
    BY <1>1, ElsNumbered
<1>3. Observed \in SUBSET Els
    BY DEF Observed
<1>4. /\ Observed \in SUBSET Nat /\ IsFiniteSet(Observed)
      /\ Cardinality(Observed) \in Nat /\ Cardinality(Observed) <= Cardinality(Els)
    BY <1>2, <1>3, FS_Subset, FS_CardinalityType
<1> DEFINE n == Cardinality(Observed)
           seq == InOrder(Observed)
<1>5. DOMAIN seq = 1..n /\ \A k \in 1..n : seq[k] \in Els
    BY <1>3, <1>4, Ordered
<1>6. /\ fields' = [i \in DOMAIN seq |-> Build(seq[i], i)]
      /\ ref' = [e \in Els |-> IF \E i \in DOMAIN seq : seq[i] = e
                               THEN CHOOSE i \in DOMAIN seq : seq[i] = e ELSE ref[e]]
      /\ next' = 1 /\ opened' = 0
    BY DEF Observe
<1>7. open' \in SUBSET Els
    BY DEF Observe, PressEscape, SnapTypeOK
<1> HIDE DEF seq, n
<1>8. \A i \in 1..n : fields'[i] = Build(seq[i], i)
    BY <1>5, <1>6
<1>9. fields' = [i \in 1..n |-> fields'[i]]
    BY <1>5, <1>6
<1>10. n \in Nat
    BY <1>4 DEF n
<1>11. fields' \in Seq(Range(fields')) /\ Len(fields') = n /\ DOMAIN fields' = 1..n
    BY <1>9, <1>10, FunctionIsSeq
<1>12. \A i \in 1..n : IsField(fields'[i]) /\ fields'[i].el \in Els /\ fields'[i].ref = i
    <2>1. \A e, r : /\ IsField(Build(e, r)) /\ Build(e, r).el = e /\ Build(e, r).ref = r
        BY DEF Build, IsField
    <2> QED
        BY <1>5, <1>8, <2>1
<1>13. ref' \in [Els -> 0..Cardinality(Els)]
    <2>1. ref \in [Els -> 0..Cardinality(Els)]
        BY DEF SnapTypeOK
    <2>2. \A i \in DOMAIN seq : i \in 0..Cardinality(Els)
        BY <1>2, <1>4, <1>5 DEF n
    <2>3. \A e \in Els : (\E i \in DOMAIN seq : seq[i] = e)
                           => (CHOOSE i \in DOMAIN seq : seq[i] = e) \in 0..Cardinality(Els)
        BY <2>2
    <2> QED
        BY <1>6, <2>1, <2>3
<1>14. next' \in 1..(Len(fields') + 1) /\ opened' \in 0..Budget
    BY <1>6, <1>10, <1>11, SnapshotAssumption
<1>15. SnapTypeOK'
    BY <1>1, <1>7, <1>11, <1>12, <1>13, <1>14 DEF SnapTypeOK
<1> QED
    BY <1>1, <1>4, <1>11, <1>12, <1>15 DEF FieldsAreSeq, n

\* A drop-down's options replaced.
LEMMA SetOptionsTypes ==
    ASSUME SnapTypeOK, FieldsAreSeq, next \in DOMAIN fields, NEW opts, SetOptions(opts)
    PROVE  /\ fields' \in Seq(Range(fields')) /\ Len(fields') = Len(fields)
           /\ DOMAIN fields' = DOMAIN fields
           /\ \A i \in DOMAIN fields : /\ IsField(fields'[i])
                                       /\ fields'[i].el = fields[i].el
                                       /\ fields'[i].ref = fields[i].ref
<1>1. DOMAIN fields = 1..Len(fields) /\ Len(fields) \in Nat
    BY FieldsDomain DEF SnapTypeOK
<1>2. fields' = [fields EXCEPT ![next] = [fields[next] EXCEPT !.options = opts]]
    BY DEF SetOptions
<1>3. fields' = [i \in 1..Len(fields) |-> fields'[i]] /\ DOMAIN fields' = DOMAIN fields
    BY <1>1, <1>2
<1>4. fields' \in Seq(Range(fields')) /\ Len(fields') = Len(fields)
    BY <1>1, <1>3, FunctionIsSeq
<1>5. \A i \in DOMAIN fields : i # next => fields'[i] = fields[i]
    BY <1>2
<1>6. fields'[next] = [fields[next] EXCEPT !.options = opts]
    BY <1>2
<1>7. IsField(fields[next])
    BY DEF FieldsAreSeq
<1>8. /\ IsField(fields'[next]) /\ fields'[next].el = fields[next].el
      /\ fields'[next].ref = fields[next].ref
    BY <1>6, <1>7 DEF IsField
<1> QED
    BY <1>3, <1>4, <1>5, <1>8 DEF FieldsAreSeq

\* One drop-down harvested, with or without a click.
LEMMA HarvestTypes ==
    ASSUME SnapTypeOK, FieldsAreSeq, HarvestWithoutClick \/ HarvestByClick
    PROVE  SnapTypeOK' /\ FieldsAreSeq' /\ DOMAIN fields' = DOMAIN fields /\ page' = page
<1>1. /\ next \in DOMAIN fields /\ next' = next + 1
      /\ UNCHANGED <<page, shown, ref>>
    BY DEF HarvestWithoutClick, HarvestByClick
<1>2. Els' = Els /\ page \in DOMAIN Pages
    BY <1>1 DEF Els, SnapTypeOK
<1>3. UNCHANGED fields \/ \E opts : SetOptions(opts)
    BY DEF HarvestWithoutClick, HarvestByClick
<1>4. /\ fields' \in Seq(Range(fields')) /\ Len(fields') = Len(fields)
      /\ DOMAIN fields' = DOMAIN fields
      /\ \A i \in DOMAIN fields : /\ IsField(fields'[i])
                                  /\ fields'[i].el = fields[i].el
                                  /\ fields'[i].ref = fields[i].ref
    <2>1. CASE UNCHANGED fields
        BY <2>1 DEF FieldsAreSeq
    <2>2. ASSUME NEW opts, SetOptions(opts) PROVE <1>4
        BY <1>1, <2>2, SetOptionsTypes
    <2> QED
        BY <1>3, <2>1, <2>2
<1>5. DOMAIN fields = 1..Len(fields) /\ Len(fields) \in Nat
    BY <1>2, FieldsDomain
<1>6. next' \in 1..(Len(fields') + 1)
    BY <1>1, <1>4, <1>5
<1>7. open' \in SUBSET Els /\ opened' \in 0..Budget
    <2>1. CASE HarvestWithoutClick
        BY <2>1 DEF HarvestWithoutClick, SnapTypeOK
    <2>2. CASE HarvestByClick
        <3> DEFINE trigger == FindEl(fields[next].selector)
        <3>1. trigger \in Els
            BY <1>2, <2>2, FindElIs DEF HarvestByClick
        <3>2. PICK menus \in {open, open \cup {trigger}} : PressEscape(menus)
            BY <2>2 DEF HarvestByClick
        <3>3. open' \in SUBSET Els
            BY <3>1, <3>2 DEF PressEscape, SnapTypeOK
        <3>4. opened' \in 0..Budget
            BY <2>2, SnapshotAssumption DEF HarvestByClick, SnapTypeOK
        <3> QED
            BY <3>3, <3>4
    <2> QED
        BY <2>1, <2>2
<1>8. SnapTypeOK'
    BY <1>1, <1>2, <1>4, <1>6, <1>7 DEF SnapTypeOK
<1>9. FieldsAreSeq'
    BY <1>2, <1>4 DEF FieldsAreSeq
<1> QED
    BY <1>1, <1>4, <1>8, <1>9

\* What is to be applied: each of the fields once.
LEMMA EntriesTypes ==
    ASSUME FieldsAreSeq, page \in DOMAIN Pages, NEW is \in SUBSET DOMAIN fields,
           NEW v \in {"profile", "ai"}
    PROVE  /\ Entries(is, v) \in Seq(Entry)
           /\ \A k \in DOMAIN Entries(is, v) : Entries(is, v)[k].i \in is
           /\ \A k, l \in DOMAIN Entries(is, v) :
                Entries(is, v)[k].i = Entries(is, v)[l].i => k = l
<1>1. /\ IsFiniteSet(is) /\ is \in SUBSET Nat /\ DOMAIN fields = 1..Len(fields)
    BY FieldsDomain, FS_Subset
<1> DEFINE n == Cardinality(is)
           ordered == InOrder(is)
           entries == Entries(is, v)
<1>2. /\ n \in Nat /\ DOMAIN ordered = 1..n
      /\ \A k \in 1..n : ordered[k] \in is
      /\ \A k, l \in 1..n : ordered[k] = ordered[l] => k = l
    BY <1>1, Ordered
<1>3. entries = [k \in DOMAIN ordered |-> [i |-> ordered[k], value |-> v]]
    BY DEF Entries
<1> HIDE DEF n, ordered, entries
<1>4. /\ DOMAIN entries = 1..n
      /\ \A k \in 1..n : entries[k] = [i |-> ordered[k], value |-> v]
    BY <1>2, <1>3
<1>5. entries \in [1..n -> Entry]
    <2>1. \A k \in 1..n : [i |-> ordered[k], value |-> v] \in Entry
        BY <1>1, <1>2 DEF Entry
    <2> QED
        BY <1>2, <1>3, <2>1
<1>6. entries \in Seq(Entry)
    BY <1>2, <1>5, SeqDef
<1> QED
    BY <1>2, <1>4, <1>6 DEF entries

\* Whatever a value does, it does to an element of the page.
LEMMA EffectsTypes ==
    ASSUME FillTypeOK, NEW e \in Els, NEW f, NEW v \in {"profile", "ai"},
           NEW x \in Effects(e, f, v)
    PROVE  x.at \in Els /\ x.now \in Values
<1>1. holds[e] \in Values /\ v \in Values /\ open \subseteq Els
    BY DEF FillTypeOK, SnapTypeOK, Values
<1>2. \A y : Spelt(y, v) \in Values
    BY <1>1 DEF Spelt, Values
<1>3. "file" \in Values /\ "code" \in Values /\ "" \in Values
    BY DEF Values
<1>4. \A y \in AttachFile(e) : y.at \in Els /\ y.now \in Values
    <2> TAKE y \in AttachFile(e)
    <2>1. y.at = e /\ y.now \in {"file", holds[e]}
        BY DEF AttachFile
    <2> QED
        BY <1>1, <1>3, <2>1
<1>5. \A y \in SetSelect(e, v) : y.at \in Els /\ y.now \in Values
    BY <1>1, <1>2 DEF SetSelect
<1>6. \A y \in PickComboboxOption(e, f, v) : y.at \in Els /\ y.now \in Values
    <2>1. OptionScope(e, open \cup {e}) \subseteq Els
        BY <1>1 DEF OptionScope
    <2> QED
        BY <1>1, <1>2, <2>1 DEF PickComboboxOption
<1>7. \A y \in SetRadioGroup(e, v) : y.at \in Els /\ y.now \in Values
    BY <1>1, <1>2 DEF SetRadioGroup
<1>8. \A y \in SetToggle(e, v) : y.at \in Els /\ y.now \in Values
    <2>1. /\ [at |-> e, now |-> "code", done |-> TRUE].at = e
          /\ [at |-> e, now |-> "code", done |-> TRUE].now = "code"
          /\ [at |-> e, now |-> "", done |-> TRUE].at = e
          /\ [at |-> e, now |-> "", done |-> TRUE].now = ""
        OBVIOUS
    <2> QED
        BY <1>3, <2>1, Zenon DEF SetToggle
<1>9. \A y \in SetText(e, v) : y.at \in Els /\ y.now \in Values
    BY <1>1 DEF SetText
<1>10. \/ x \in AttachFile(e) \/ x \in SetSelect(e, v) \/ x \in PickComboboxOption(e, f, v)
       \/ x \in SetRadioGroup(e, v) \/ x \in SetToggle(e, v) \/ x \in SetText(e, v)
    BY DEF Effects
<1> QED
    BY <1>4, <1>5, <1>6, <1>7, <1>8, <1>9, <1>10

\* The user's and the run's steps that leave the snapshot alone.
LEMMA SnapUnchanged ==
    ASSUME FillTypes, UNCHANGED snapVars
    PROVE  SnapTypeOK' /\ FieldsAreSeq' /\ Els' = Els /\ Entry' = Entry
BY DEF FillTypes, FillTypeOK, SnapTypeOK, FieldsAreSeq, snapVars, Els, Entry

\* The user's edits are counted.
LEMMA EditCounts ==
    ASSUME FillTypeOK, NEW e, EditField(e)
    PROVE  edits' \in 0..MaxEdits
<1>1. edits \in 0..MaxEdits
    BY DEF FillTypeOK
<1>2. edits < MaxEdits /\ edits' = edits + 1
    BY DEF EditField
<1> QED
    BY <1>1, <1>2, FormFillAssumption

LEMMA FillTypeStep == FillTypes /\ [FillNext]_fillVars => FillTypes'
<1> SUFFICES ASSUME FillTypes, [FillNext]_fillVars PROVE FillTypes'
    OBVIOUS
<1>0. /\ FillTypeOK /\ FieldsAreSeq /\ NothingQueued /\ SnapTypeOK
      /\ page \in DOMAIN Pages
    BY DEF FillTypes, FillTypeOK, SnapTypeOK
<1>1. CASE RunFill
    <2>1. SnapTypeOK' /\ FieldsAreSeq' /\ Els' = Els
        BY <1>0, <1>1, ObserveTypes DEF RunFill, Observe, Els
    <2>2. queue = <<>> /\ queue' = <<>>
        BY <1>0, <1>1 DEF RunFill, NothingQueued
    <2>3. queue' \in Seq(Entry')
        BY <2>2
    <2>4. /\ run' = "reading" /\ panelState' = "working"
          /\ UNCHANGED <<holds, quick, lastApplied, filled, edits, saves, remembered>>
          /\ fills' \in 0..MaxFills /\ corrected' = {} /\ overwritten' = {}
        BY <1>0, <1>1, FormFillAssumption DEF RunFill, FillTypeOK
    <2>5. FillTypeOK'
        BY <1>0, <2>1, <2>3, <2>4 DEF FillTypeOK, Run, FillState
    <2> QED
        BY <2>1, <2>2, <2>5 DEF FillTypes, NothingQueued
<1>2. CASE Harvest
    <2>1. /\ SnapTypeOK' /\ FieldsAreSeq' /\ DOMAIN fields' = DOMAIN fields
          /\ Els' = Els /\ run = "reading" /\ queue = <<>>
        BY <1>0, <1>2, HarvestTypes DEF Harvest, NothingQueued, Els
    <2>2. UNCHANGED <<pageVars, run, queue, quick, panelVars, countVars>>
        BY <1>2 DEF Harvest
    <2>3. queue' \in Seq(Entry')
        BY <2>1, <2>2
    <2>4. FillTypeOK'
        BY <1>0, <2>1, <2>2, <2>3 DEF FillTypeOK, pageVars, panelVars, countVars
    <2> QED
        BY <2>1, <2>2, <2>4 DEF FillTypes, NothingQueued
<1>3. CASE PageStep
    <2>1. UNCHANGED <<page, ref, open, fields, next, opened, optionsCache, pageVars, run, queue,
                      quick, panelVars, fills, saves>>
        BY <1>3 DEF PageStep
    <2>2. Els' = Els /\ Entry' = Entry
        BY <2>1 DEF Els, Entry
    <2>3. shown' \in [Els -> Visibility] /\ edits' \in 0..MaxEdits
        <3>1. shown \in [Els -> Visibility]
            BY <1>0 DEF SnapTypeOK
        <3>2. shown' = [e \in Els |-> IF El(e).shown # "above" THEN shown[e]
                               ELSE IF shown[e] = "above" THEN "visible" ELSE "above"]
            BY <1>3 DEF PageStep
        <3>3. shown' \in [Els -> Visibility]
            BY <3>1, <3>2 DEF Visibility
        <3> QED
            BY <1>0, <1>3, <3>3, FormFillAssumption DEF PageStep, FillTypeOK
    <2>4. SnapTypeOK' /\ FieldsAreSeq'
        BY <1>0, <2>1, <2>2, <2>3 DEF SnapTypeOK, FieldsAreSeq
    <2>5. FillTypeOK'
        BY <1>0, <2>1, <2>2, <2>3, <2>4 DEF FillTypeOK, pageVars, panelVars
    <2> QED
        BY <1>0, <2>1, <2>4, <2>5 DEF FillTypes, NothingQueued
<1>4. SUFFICES ASSUME UNCHANGED snapVars PROVE FillTypes'
    <2>1. SnapshotTaken \/ ContextAnswered \/ QuickDone \/ FillAnswered \/ AiDone \/ RunFails
            \/ ApplyField \/ SaveEdits \/ (\E e \in Els : EditField(e)) \/ UNCHANGED fillVars
          => UNCHANGED snapVars
        BY DEF SnapshotTaken, ContextAnswered, QuickDone, FillAnswered, AiDone, RunFails,
               ApplyField, SaveEdits, EditField, fillVars
    <2> QED
        BY <1>1, <1>2, <1>3, <1>4, <2>1 DEF FillNext
<1>5. SnapTypeOK' /\ FieldsAreSeq' /\ Els' = Els /\ Entry' = Entry /\ DOMAIN fields' = DOMAIN fields
    BY <1>4, SnapUnchanged DEF snapVars
<1> USE <1>0, <1>5 DEF FillTypes, FillTypeOK, NothingQueued, Run, FillState
<1>6. CASE SnapshotTaken
    BY <1>6 DEF SnapshotTaken, pageVars, countVars
<1>7. CASE ContextAnswered
    <2>1. PICK facts \in SUBSET {"email"}, resume \in BOOLEAN :
             /\ quick' = DeterministicFields(facts, resume)
             /\ queue' = Entries(quick', "profile")
        BY <1>7 DEF ContextAnswered
    <2>2. quick' \in SUBSET DOMAIN fields
        BY <2>1 DEF DeterministicFields
    <2>3. queue' \in Seq(Entry') /\ quick' \in SUBSET (1..Cardinality(Els))
        BY <2>1, <2>2, EntriesTypes, FieldsDomain
    <2> QED
        BY <1>7, <2>3 DEF ContextAnswered, pageVars, countVars
<1>8. CASE QuickDone
    BY <1>8 DEF QuickDone, pageVars, countVars
<1>9. CASE FillAnswered
    <2>1. PICK is \in SUBSET {i \in Remaining : fields[i].field_type \notin {"file", "button"}} :
             queue' = Entries(is, "ai")
        BY <1>9 DEF FillAnswered
    <2>2. is \in SUBSET DOMAIN fields
        BY DEF Remaining
    <2>3. queue' \in Seq(Entry')
        BY <2>1, <2>2, EntriesTypes
    <2> QED
        BY <1>9, <2>3 DEF FillAnswered, pageVars, panelVars, countVars
<1>10. CASE AiDone
    BY <1>10 DEF AiDone, pageVars, countVars
<1>11. CASE RunFails
    BY <1>11 DEF RunFails, pageVars, countVars
<1>12. CASE ApplyField
    <2> DEFINE q == Head(queue)
               el == FindEl(fields[q.i].selector)
    <2>1. /\ queue # <<>> /\ queue' = Tail(queue)
          /\ UNCHANGED <<run, quick, filled, panelState, remembered, countVars>>
        BY <1>12 DEF ApplyField
    <2>2. q \in Entry /\ queue' \in Seq(Entry')
        BY <2>1
    <2>3. q.i \in DOMAIN fields /\ q.value \in {"profile", "ai"}
        BY <2>2, FieldsDomain DEF Entry
    <2>4. run \notin {"idle", "reading", "context", "asking"}
        BY <2>1
    <2>5. CASE el = 0
        <3>1. UNCHANGED <<pageVars, lastApplied>>
            BY <1>12, <2>5 DEF ApplyField
        <3> QED
            BY <2>1, <2>2, <2>4, <3>1 DEF pageVars, countVars
    <2>6. CASE el # 0
        <3>1. PICK x \in Effects(el, fields[q.i], q.value) :
                  /\ holds' = [holds EXCEPT ![x.at] = x.now]
                  /\ overwritten' = IF x.now # holds[x.at] /\ x.at \in corrected
                                    THEN overwritten \cup {x.at} ELSE overwritten
                  /\ lastApplied' = IF x.done THEN lastApplied \cup {Receipt(q)} ELSE lastApplied
                  /\ UNCHANGED corrected
            BY <1>12, <2>6 DEF ApplyField
        <3>2. el \in Els
            BY <2>6, FindElIs
        <3>3. x.at \in Els /\ x.now \in Values
            BY <2>3, <3>2, EffectsTypes
        <3>4. holds' \in [Els -> Values] /\ overwritten' \in SUBSET Els
            BY <3>1, <3>3
        <3>5. Receipt(q).el \in Els /\ Receipt(q).value \in {"profile", "ai"}
            BY <2>3 DEF Receipt, SnapTypeOK
        <3>6. \A f \in lastApplied' : f.el \in Els /\ f.value \in {"profile", "ai"}
            BY <3>1, <3>5
        <3> QED
            BY <2>1, <2>2, <2>4, <3>1, <3>4, <3>6 DEF countVars
    <2> QED
        BY <2>5, <2>6
<1>13. CASE SaveEdits
    <2>1. \A p \in CollectEdits : p.el \in Els /\ p.value \in Values
        <3>1. \A f : ReadFieldValue(f) \in Values
            BY FindElIs DEF ReadFieldValue, Values
        <3> QED
            <4>1. \A p \in CollectEdits : \E f \in lastApplied :
                    p.el = f.el /\ p.value = ReadFieldValue(f)
                <5> TAKE p \in CollectEdits
                <5>1. PICK f \in {g \in lastApplied : /\ g.label # ""
                                                   /\ ReadFieldValue(g) # ""
                                                   /\ ReadFieldValue(g) # g.value} :
                        p = [label |-> f.label, el |-> f.el, value |-> ReadFieldValue(f)]
                    BY DEF CollectEdits
                <5>2. f \in lastApplied
                    OBVIOUS
                <5>3. p.el = f.el /\ p.value = ReadFieldValue(f)
                    BY <5>1
                <5> QED
                    BY <5>2, <5>3
            <4> QED
                BY <3>1, <4>1
    <2>2. \A p \in remembered' : p.el \in Els /\ p.value \in Values
        BY <1>13, <2>1 DEF SaveEdits
    <2>3. panelState' \in FillState /\ saves' \in 0..MaxSaves
        BY <1>13, FormFillAssumption DEF SaveEdits
    <2>4. UNCHANGED <<pageVars, run, queue, quick, lastApplied, filled, fills, edits>>
        BY <1>13 DEF SaveEdits
    <2> QED
        BY <2>2, <2>3, <2>4 DEF pageVars
<1>14. ASSUME NEW e \in Els, EditField(e) PROVE FillTypes'
    <2>1. holds' \in [Els -> Values] /\ edits' \in 0..MaxEdits /\ corrected' \in SUBSET Els
        <3>1. PICK v \in {"user", ""} \ {holds[e]} : holds' = [holds EXCEPT ![e] = v]
            BY <1>14 DEF EditField
        <3>2. holds' \in [Els -> Values]
            <4>1. v \in Values
                BY DEF Values
            <4> QED
                BY <3>1, <4>1
        <3>3. edits' \in 0..MaxEdits
            BY <1>14, EditCounts
        <3>4. corrected' \in SUBSET Els
            BY <1>14 DEF EditField
        <3> QED
            BY <3>2, <3>3, <3>4
    <2>2. UNCHANGED <<run, queue, quick, panelVars, fills, saves, overwritten>>
        BY <1>14 DEF EditField
    <2> QED
        BY <2>1, <2>2 DEF panelVars
<1>15. CASE UNCHANGED fillVars
    BY <1>15 DEF fillVars
<1>16. FillNext => \/ RunFill \/ Harvest \/ PageStep \/ SnapshotTaken \/ ContextAnswered
                   \/ QuickDone \/ FillAnswered \/ AiDone \/ RunFails \/ ApplyField \/ SaveEdits
                   \/ \E e \in Els : EditField(e)
    BY DEF FillNext
<1> QED
    BY <1>1, <1>2, <1>3, <1>6, <1>7, <1>8, <1>9, <1>10, <1>11, <1>12, <1>13, <1>14, <1>15, <1>16

LEMMA FillTypesInit == FillInit => FillTypes
<1> SUFFICES ASSUME FillInit PROVE FillTypes
    OBVIOUS
<1>1. page \in DOMAIN Pages
    BY DEF FillInit, SnapInit
<1>2. Cardinality(Els) \in Nat /\ \A e \in Els : El(e).shown \in Visibility
    BY <1>1, ElsNumbered
<1>3. /\ shown = [e \in Els |-> El(e).shown] /\ ref = [e \in Els |-> 0]
      /\ fields = <<>> /\ next = 1 /\ opened = 0
    BY DEF FillInit, SnapInit
<1>4. open \in SUBSET Els
    BY DEF FillInit, SnapInit
<1>5. fields \in Seq(Range(fields)) /\ Len(fields) = 0 /\ DOMAIN fields = {}
    BY <1>3
<1>6. SnapTypeOK
    BY <1>1, <1>2, <1>3, <1>4, <1>5, SnapshotAssumption DEF SnapTypeOK
<1>7. FieldsAreSeq
    BY <1>2, <1>5 DEF FieldsAreSeq
<1>8. /\ run = "idle" /\ queue = <<>> /\ quick = {}
      /\ lastApplied = {} /\ filled = {} /\ panelState = "idle"
      /\ fills = 0 /\ edits = 0 /\ saves = 0 /\ corrected = {} /\ overwritten = {}
      /\ remembered = {}
    BY DEF FillInit
<1>9. holds \in [Els -> Values]
    BY DEF FillInit, Values
<1>10. queue \in Seq(Entry)
    <2>1. \A S : <<>> \in Seq(S)
        OBVIOUS
    <2> QED
        BY <1>8, <2>1
<1>11. fills \in 0..MaxFills /\ edits \in 0..MaxEdits /\ saves \in 0..MaxSaves
    BY <1>8, FormFillAssumption
<1>12. FillTypeOK
    BY <1>6, <1>8, <1>9, <1>10, <1>11 DEF FillTypeOK, Run, FillState
<1> QED
    BY <1>7, <1>8, <1>12 DEF FillTypes, NothingQueued

\* The type invariant of filling a form (FormFill), for any pages.
THEOREM FillTypeCorrect == FillSpec => []FillTypeOK
<1>1. FillTypes => FillTypeOK
    BY DEF FillTypes
<1> QED
    BY <1>1, FillTypesInit, FillTypeStep, PTL DEF FillSpec

\* The fields a run has still to apply, each once, and none it has applied;
\* what the user corrected had been applied.
QueueInv ==
    /\ run \in {"reading", "context"} => corrected = {}
    /\ overwritten = {}
    /\ run \in {"quick", "asking", "ai"} =>
         /\ \A k \in DOMAIN queue : queue[k].i \in DOMAIN fields
         /\ \A k, l \in DOMAIN queue : queue[k].i = queue[l].i => k = l
         /\ \A f \in lastApplied :
              /\ f.ref \in DOMAIN fields /\ f.el = fields[f.ref].el
              /\ \A k \in DOMAIN queue : queue[k].i # f.ref
         /\ \A e \in corrected : \E f \in lastApplied : f.el = e
    /\ run = "quick" => \A k \in DOMAIN queue : queue[k].i \in quick
    /\ run \in {"quick", "asking"} => \A f \in lastApplied : f.ref \in quick

\* A value lands where no other field is.
LEMMA ApplyKeeps ==
    ASSUME FillTypes, QueueInv, FieldsApart, ApplyField
    PROVE  QueueInv'
<1> DEFINE q == Head(queue)
           el == FindEl(fields[q.i].selector)
<1>1. /\ queue # <<>> /\ queue' = Tail(queue)
      /\ UNCHANGED <<snapVars, run, quick>>
    BY DEF ApplyField
<1>2. queue \in Seq(Entry) /\ run \in {"quick", "ai"}
    BY <1>1 DEF FillTypes, FillTypeOK, NothingQueued, Run
<1>3. /\ 1 \in DOMAIN queue /\ q = queue[1] /\ q \in Entry
      /\ \A k \in DOMAIN queue' : k + 1 \in DOMAIN queue /\ queue'[k] = queue[k + 1]
                                  /\ k + 1 # 1 /\ k \in Nat
    BY <1>1, <1>2
<1>4. q.i \in DOMAIN fields /\ q.value \in {"profile", "ai"}
    BY <1>2, <1>3 DEF QueueInv, Entry
<1>5. \A k \in DOMAIN queue' : queue'[k].i # q.i /\ queue'[k].i \in DOMAIN fields
    BY <1>2, <1>3 DEF QueueInv
<1>6. \A k, l \in DOMAIN queue' : queue'[k].i = queue'[l].i => k = l
    <2> TAKE k, l \in DOMAIN queue'
    <2>1. queue[k + 1].i = queue[l + 1].i => k + 1 = l + 1
        BY <1>2, <1>3 DEF QueueInv
    <2> QED
        BY <1>3, <2>1
<1>7. run = "quick" => \A k \in DOMAIN queue' : queue'[k].i \in quick
    BY <1>3 DEF QueueInv
<1>8. fields' = fields /\ run' = run /\ quick' = quick
    BY <1>1 DEF snapVars
<1>9. /\ \A f \in lastApplied' : f \in lastApplied \/ f = Receipt(q)
      /\ corrected' = corrected /\ lastApplied \subseteq lastApplied'
    BY DEF ApplyField, pageVars
<1>10. Receipt(q).ref = q.i /\ Receipt(q).el = fields[q.i].el
    BY DEF Receipt
<1>11. \A f \in lastApplied' : /\ f.ref \in DOMAIN fields /\ f.el = fields[f.ref].el
                               /\ \A k \in DOMAIN queue' : queue'[k].i # f.ref
    <2> TAKE f \in lastApplied'
    <2>1. CASE f = Receipt(q)
        BY <1>4, <1>5, <1>10, <2>1
    <2>2. CASE f \in lastApplied
        BY <1>2, <1>3, <2>2 DEF QueueInv
    <2> QED
        BY <1>9, <2>1, <2>2
<1>12. \A e \in corrected' : \E f \in lastApplied' : f.el = e
    BY <1>2, <1>9 DEF QueueInv
<1>13. run = "quick" => \A f \in lastApplied' : f.ref \in quick
    BY <1>2, <1>3, <1>9, <1>10 DEF QueueInv
<1>14. overwritten' = {}
    <2>1. CASE el = 0
        BY <2>1 DEF ApplyField, pageVars, QueueInv
    <2>2. CASE el # 0
        <3>1. PICK x \in Effects(el, fields[q.i], q.value) :
                overwritten' = IF x.now # holds[x.at] /\ x.at \in corrected
                               THEN overwritten \cup {x.at} ELSE overwritten
            BY <2>2 DEF ApplyField
        <3>2. \A j \in DOMAIN fields : j # q.i => x.at # fields[j].el
            BY <1>4, <2>2 DEF FieldsApart
        <3>3. \A f \in lastApplied : f.ref \in DOMAIN fields /\ f.ref # q.i
                                     /\ f.el = fields[f.ref].el
            BY <1>2, <1>3 DEF QueueInv
        <3>4. x.at \notin corrected
            BY <1>2, <3>2, <3>3 DEF QueueInv
        <3> QED
            BY <3>1, <3>4 DEF QueueInv
    <2> QED
        BY <2>1, <2>2
<1> QED
    BY <1>2, <1>5, <1>6, <1>7, <1>8, <1>11, <1>12, <1>13, <1>14 DEF QueueInv

LEMMA QueueStep == FillTypes /\ QueueInv /\ FieldsApart /\ [FillNext]_fillVars => QueueInv'
<1> SUFFICES ASSUME FillTypes, QueueInv, FieldsApart, [FillNext]_fillVars PROVE QueueInv'
    OBVIOUS
<1>0. /\ FieldsAreSeq /\ page \in DOMAIN Pages
      /\ run \in {"idle", "reading", "context", "asking"} => queue = <<>>
    BY DEF FillTypes, FillTypeOK, SnapTypeOK, NothingQueued
<1>1. CASE RunFill
    BY <1>1 DEF RunFill, QueueInv
<1>2. CASE Harvest
    BY <1>2 DEF Harvest, QueueInv, pageVars
<1>3. CASE SnapshotTaken
    BY <1>3 DEF SnapshotTaken, QueueInv, pageVars
<1>4. CASE ContextAnswered
    <2>1. PICK facts \in SUBSET {"email"}, resume \in BOOLEAN :
             /\ quick' = DeterministicFields(facts, resume)
             /\ queue' = Entries(quick', "profile")
        BY <1>4 DEF ContextAnswered
    <2>2. quick' \in SUBSET DOMAIN fields
        BY <2>1 DEF DeterministicFields
    <2>3. /\ \A k \in DOMAIN queue' : queue'[k].i \in quick'
          /\ \A k, l \in DOMAIN queue' : queue'[k].i = queue'[l].i => k = l
        BY <1>0, <2>1, <2>2, EntriesTypes
    <2>4. /\ run = "context" /\ run' = "quick" /\ fields' = fields /\ lastApplied' = {}
          /\ UNCHANGED <<corrected, overwritten>>
        BY <1>4 DEF ContextAnswered, snapVars, pageVars
    <2> QED
        BY <2>2, <2>3, <2>4 DEF QueueInv
<1>5. CASE QuickDone
    BY <1>5 DEF QuickDone, QueueInv, snapVars, pageVars
<1>6. CASE FillAnswered
    <2>1. PICK is \in SUBSET {i \in Remaining : fields[i].field_type \notin {"file", "button"}} :
             queue' = Entries(is, "ai")
        BY <1>6 DEF FillAnswered
    <2>2. is \in SUBSET DOMAIN fields /\ is \cap quick = {}
        BY DEF Remaining
    <2>3. /\ \A k \in DOMAIN queue' : queue'[k].i \in is
          /\ \A k, l \in DOMAIN queue' : queue'[k].i = queue'[l].i => k = l
        BY <1>0, <2>1, <2>2, EntriesTypes
    <2>4. /\ run = "asking" /\ run' = "ai" /\ fields' = fields
          /\ UNCHANGED <<corrected, overwritten, lastApplied, quick>>
        BY <1>6 DEF FillAnswered, snapVars, pageVars, panelVars
    <2> QED
        BY <2>2, <2>3, <2>4 DEF QueueInv
<1>7. CASE AiDone
    BY <1>7 DEF AiDone, QueueInv, snapVars, pageVars
<1>8. CASE RunFails
    BY <1>8 DEF RunFails, QueueInv, snapVars, pageVars
<1>9. CASE ApplyField
    BY <1>9, ApplyKeeps
<1>10. CASE SaveEdits
    BY <1>10 DEF SaveEdits, QueueInv, snapVars, pageVars
<1>11. CASE PageStep
    BY <1>11 DEF PageStep, QueueInv, pageVars, panelVars
<1>12. ASSUME NEW e \in Els, EditField(e) PROVE QueueInv'
    <2>1. /\ UNCHANGED <<snapVars, run, queue, quick, panelVars, overwritten>>
          /\ corrected' = IF run \in {"quick", "asking", "ai"} /\ \E f \in lastApplied : f.el = e
                          THEN corrected \cup {e} ELSE corrected
        BY <1>12 DEF EditField
    <2> QED
        BY <2>1 DEF QueueInv, snapVars, panelVars
<1>13. CASE UNCHANGED fillVars
    BY <1>13 DEF fillVars, QueueInv, snapVars
<1> QED
    BY <1>1, <1>2, <1>3, <1>4, <1>5, <1>6, <1>7, <1>8, <1>9, <1>10, <1>11, <1>12, <1>13
    DEF FillNext

\* On a form whose fields do not share elements, a fact the user corrects while
\* the run still waits for the backend stays corrected (runFill of content.ts:
\* the backend is asked about the other fields only, FormFiller.apply).
THEOREM CorrectionsStay == FillSpec /\ []FieldsApart => []CorrectionsSurvive
<1>1. FillInit => QueueInv
    BY DEF FillInit, QueueInv
<1>2. QueueInv => CorrectionsSurvive
    BY DEF QueueInv, CorrectionsSurvive
<1> QED
    BY <1>1, <1>2, FillTypesInit, FillTypeStep, QueueStep, PTL DEF FillSpec

-----------------------------------------------------------------------------
(* The extension.  Its parts share no state: a step of one is none of the   *)
(* others.                                                                  *)

LEMMA ExtensionRunsParts == ExtensionSpec => FillSpec /\ SessionSpec /\ ChatSpec
<1>1. ExtensionInit => FillInit /\ SessionInit /\ ChatInit
    BY DEF ExtensionInit
<1>2. [ExtensionNext]_extensionVars =>
        [FillNext]_fillVars /\ [SessionNext]_sessionVars /\ [ChatNext]_chatVars
    BY DEF ExtensionNext, extensionVars
<1> QED
    BY <1>1, <1>2, PTL DEF ExtensionSpec, FillSpec, SessionSpec, ChatSpec

\* The type invariants of the parts, of the extension as a whole.
THEOREM ExtensionTypeCorrect == ExtensionSpec => []ExtTypeOK
<1>1. FillTypeOK /\ SessionTypeOK /\ ChatTypeOK => ExtTypeOK
    BY DEF ExtTypeOK
<1> QED
    BY <1>1, ExtensionRunsParts, FillTypeCorrect, SessionTypeCorrect, ChatTypeCorrect, PTL

\* What the session and the chat promise, of the extension as a whole, and what
\* filling a form promises on a form whose fields do not share elements.
THEOREM ExtensionCorrect ==
    ExtensionSpec => /\ []SignOutHolds
                     /\ []PanelRepeats
                     /\ []FieldsApart => []CorrectionsSurvive
BY ExtensionRunsParts, SignedOutStays, PanelsRepeat, CorrectionsStay, PTL
=============================================================================
