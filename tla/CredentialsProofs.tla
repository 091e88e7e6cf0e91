-------------------------- MODULE CredentialsProofs --------------------------
(****************************************************************************)
(* The token pair of Credentials, proved for any number of calls, client    *)
(* objects and pairs: the row never goes back, and a spent row is about to  *)
(* be brought up to date.                                                   *)
(*                                                                          *)
(* First what a step of one call changes in general, then one lemma per     *)
(* statement, then the theorems.                                            *)
(****************************************************************************)
EXTENDS Credentials, SequenceTheorems, TLAPS

USE DEF Processes, On, Bare

Entry == [cl : Clients \union {NoClient}, tok : 0..Len(pairs)]

Row == [present : BOOLEAN, pair : 0..Len(pairs),
        invalid : {"no", "refresh", "session"}]

-----------------------------------------------------------------------------
(* What a step of one call changes.                                         *)

\* A call's new record is well formed wherever the record is, and the others
\* stay as they are.
LEMMA OneCall ==
    ASSUME TypeOK, StepInv, FreshInv, UNCHANGED pairs,
           NEW c \in Calls, NEW a \in Call, Fits(a), Fresh(a),
           calls' = [calls EXCEPT ![c] = a]
    PROVE  /\ calls' \in [Calls -> Call']
           /\ \A d \in Calls : Fits(calls[d])'
           /\ FreshInv'
<1>1. Call' = Call
    BY DEF Call
<1>2. calls' \in [Calls -> Call]
    BY DEF TypeOK
<1>3. \A d \in Calls : calls'[d] = IF d = c THEN a ELSE calls[d]
    BY DEF TypeOK
<1>4. \A d \in Calls : Fits(calls[d])'
    BY <1>3 DEF StepInv, Fits, Issued
<1>5. FreshInv'
    BY <1>3 DEF FreshInv, Fresh, Unexpired, Issued
<1> QED
    BY <1>1, <1>2, <1>4, <1>5

\* The object stays in the call's hands or is given up, and caches only lose
\* entries.
LEMMA SharedKept ==
    ASSUME TypeOK, StepInv, SharedInv, UNCHANGED pairs,
           NEW c \in Calls, NEW a \in Call,
           calls' = [calls EXCEPT ![c] = a],
           \/ a.cl = calls[c].cl /\ a.tok = calls[c].tok
           \/ a.cl = NoClient /\ a.tok = 0,
           a.pc # "granted",
           a.pc = "answer" => a.pair = a.tok,
           \A p \in Processes : cache'[p] \in {cache[p], NoEntry}
    PROVE  SharedInv'
<1>1. \A d \in Calls : calls'[d] = IF d = c THEN a ELSE calls[d]
    BY DEF TypeOK
<1>2. \A d \in Calls : calls[d].cl = NoClient => calls[d].tok = 0
    BY DEF StepInv, Fits
<1>3. \A p \in Processes : cache[p].cl = NoClient => cache[p].tok = 0
    BY CredentialsAssumption DEF StepInv, NoEntry
<1>4. NoEntry.cl = NoClient /\ NoEntry.tok = 0
    BY DEF NoEntry
<1>5. \A d, e \in Calls :
          calls'[d].cl = calls'[e].cl => calls'[d].tok = calls'[e].tok
    BY <1>1, <1>2 DEF SharedInv
<1>6. \A d \in Calls, p \in Processes :
          calls'[d].cl = cache'[p].cl => calls'[d].tok = cache'[p].tok
    BY <1>1, <1>2, <1>3, <1>4 DEF SharedInv
<1>7. \A p, q \in Processes :
          cache'[p].cl = cache'[q].cl => cache'[p].tok = cache'[q].tok
    BY <1>3, <1>4 DEF SharedInv
<1>8. \A d \in Calls :
          /\ calls'[d].pc = "granted" =>
                pairs'[calls'[d].tok].heir = calls'[d].pair
          /\ calls'[d].pc = "answer" =>
                \/ calls'[d].pair = calls'[d].tok
                \/ pairs'[calls'[d].pair].heir # 0
    BY <1>1 DEF SharedInv
<1>9. \A d, e \in Calls :
          d # e /\ calls'[d].pc = "granted" /\ calls'[e].pc = "granted" =>
              calls'[d].pair # calls'[e].pair
    BY <1>1 DEF SharedInv
<1> QED
    BY <1>5, <1>6, <1>7, <1>8, <1>9 DEF SharedInv

\* What the call had to write it still has to write, or it is written off.
LEMMA HandKept ==
    ASSUME TypeOK, RowKeepsUp, UNCHANGED <<pairs, row>>,
           NEW c \in Calls, NEW a \in Call,
           calls' = [calls EXCEPT ![c] = a],
           forgotten \subseteq forgotten',
           Hand(calls[c]) \subseteq Hand(a) \union forgotten'
    PROVE  RowKeepsUp'
<1>1. \A d \in Calls : calls'[d] = IF d = c THEN a ELSE calls[d]
    BY DEF TypeOK
<1> SUFFICES ASSUME row.present, Spent(row.pair)
             PROVE  \/ pairs[row.pair].heir \in forgotten'
                    \/ \E d \in Calls : pairs[row.pair].heir \in Hand(calls'[d])
    BY DEF RowKeepsUp, Spent, Issued, Hand
<1>2. CASE pairs[row.pair].heir \in forgotten
    BY <1>2
<1>3. CASE \E d \in Calls : pairs[row.pair].heir \in Hand(calls[d])
    <2>1. PICK d \in Calls : pairs[row.pair].heir \in Hand(calls[d])
        BY <1>3
    <2>2. CASE d = c
        BY <2>1, <2>2, <1>1
    <2>3. CASE d # c
        BY <2>1, <2>3, <1>1
    <2> QED
        BY <2>2, <2>3
<1> QED
    BY <1>2, <1>3 DEF RowKeepsUp

\* A step of one call that leaves hh alone and may write the row.
LEMMA OneStep ==
    ASSUME CredInv, UNCHANGED pairs,
           NEW c \in Calls, NEW a \in Call, Fits(a), Fresh(a),
           calls' = [calls EXCEPT ![c] = a],
           \/ a.cl = calls[c].cl /\ a.tok = calls[c].tok
           \/ a.cl = NoClient /\ a.tok = 0,
           a.pc # "granted",
           a.pc = "answer" => a.pair = a.tok,
           cache' \in [Processes -> Entry],
           \A p \in Processes : cache'[p] \in {cache[p], NoEntry},
           row' \in Row,
           ~row'.present => row'.pair = 0,
           forgotten' \subseteq Issued
    PROVE  TypeOK' /\ ChainInv' /\ StepInv' /\ FreshInv' /\ SharedInv'
<1>1. /\ calls' \in [Calls -> Call']
      /\ \A d \in Calls : Fits(calls[d])'
      /\ FreshInv'
    BY OneCall DEF CredInv
<1>2. SharedInv'
    BY SharedKept DEF CredInv
<1>3. TypeOK'
    BY <1>1 DEF CredInv, TypeOK, Entry, Row, Issued
<1>4. StepInv'
    BY <1>1 DEF CredInv, StepInv, Issued
<1>5. ChainInv'
    BY DEF CredInv, ChainInv, Issued
<1> QED
    BY <1>1, <1>2, <1>3, <1>4, <1>5

\* A step of one call that leaves hh and the row alone.
LEMMA Plain ==
    ASSUME CredInv, UNCHANGED <<pairs, row>>,
           NEW c \in Calls, NEW a \in Call, Fits(a), Fresh(a),
           calls' = [calls EXCEPT ![c] = a],
           \/ a.cl = calls[c].cl /\ a.tok = calls[c].tok
           \/ a.cl = NoClient /\ a.tok = 0,
           a.pc # "granted",
           a.pc = "answer" => a.pair = a.tok,
           cache' \in [Processes -> Entry],
           \A p \in Processes : cache'[p] \in {cache[p], NoEntry},
           forgotten \subseteq forgotten',
           forgotten' \subseteq Issued,
           Hand(calls[c]) \subseteq Hand(a) \union forgotten'
    PROVE  CredInv'
<1>1. row' \in Row /\ (~row'.present => row'.pair = 0)
    BY DEF CredInv, TypeOK, StepInv, Row
<1>2. TypeOK' /\ ChainInv' /\ StepInv' /\ FreshInv' /\ SharedInv'
    BY <1>1, OneStep
<1>3. RowKeepsUp'
    BY HandKept DEF CredInv
<1> QED
    BY <1>2, <1>3 DEF CredInv

-----------------------------------------------------------------------------
(* The statements of one call, in the order of the module.                  *)

LEMMA EntryFacts ==
    ASSUME CredInv
    PROVE  /\ cache \in [Processes -> Entry]
           /\ \A p \in Processes :
                 cache[p].cl = NoClient => cache[p] = NoEntry
           /\ NoEntry \in Entry
           /\ Len(pairs) \in Nat
<1> QED
    BY CredentialsAssumption DEF CredInv, TypeOK, StepInv, Entry, NoEntry

LEMMA RestFits ==
    ASSUME CredInv
    PROVE  /\ Rest \in Call /\ Fits(Rest) /\ Fresh(Rest) /\ Hand(Rest) = {}
           /\ Rest.pc = "idle" /\ Rest.cl = NoClient /\ Rest.tok = 0
<1> QED
    BY EntryFacts DEF Rest, Call, Kind, Step, Fits, Using, Fresh, Hand

\* The call is over: with nothing in its hands, or written off.
LEMMA RestStep ==
    ASSUME CredInv, UNCHANGED <<pairs, row>>,
           NEW c \in Calls, calls' = [calls EXCEPT ![c] = Rest],
           cache' \in [Processes -> Entry],
           \A p \in Processes : cache'[p] \in {cache[p], NoEntry},
           forgotten \subseteq forgotten',
           forgotten' \subseteq Issued,
           Hand(calls[c]) \subseteq forgotten'
    PROVE  CredInv'
<1> QED
    BY RestFits, Plain

LEMMA CallFacts ==
    ASSUME CredInv, NEW c \in Calls
    PROVE  /\ calls[c] \in Call /\ Fits(calls[c]) /\ Fresh(calls[c])
           /\ calls[c].pc = "answer" =>
                 \/ calls[c].pair = calls[c].tok
                 \/ pairs[calls[c].pair].heir # 0
           /\ forgotten \subseteq Issued
<1> QED
    BY DEF CredInv, TypeOK, StepInv, FreshInv, SharedInv

LEMMA ReadRowStep ==
    ASSUME CredInv, NEW c \in Calls, ReadRow(c)
    PROVE  CredInv'
<1> USE EntryFacts, CallFacts DEF Become
<1>1. CASE row.present /\ row.invalid = "no" /\ row.pair # 0
    <2> DEFINE a == Bare(calls[c].kind, "build", row.pair)
    <2>1. a \in Call /\ row.pair \in Issued
        BY <1>1 DEF CredInv, TypeOK, Call, Step, Issued
    <2>2. Fits(a) /\ Fresh(a) /\ Hand(calls[c]) = {}
        BY <2>1 DEF ReadRow, Fits, Using, Fresh, Hand, Call
    <2>3. calls' = [calls EXCEPT ![c] = a]
        BY <1>1 DEF ReadRow
    <2>4. a.cl = NoClient /\ a.tok = 0 /\ a.pc = "build"
        BY DEF Call
    <2> HIDE DEF a
    <2> QED
        BY <2>1, <2>2, <2>3, <2>4, Plain DEF ReadRow
<1>2. CASE ~(row.present /\ row.invalid = "no" /\ row.pair # 0)
    <2>1. Hand(calls[c]) = {}
        BY DEF ReadRow, Hand
    <2> QED
        BY <1>2, <2>1, RestStep DEF ReadRow
<1> QED
    BY <1>1, <1>2

LEMMA SendRefreshStep ==
    ASSUME CredInv, NEW c \in Calls, SendRefresh(c)
    PROVE  CredInv'
<1> USE EntryFacts, CallFacts DEF Become
<1> DEFINE a == On(calls[c], "answer", calls[c].orig, calls[c].tok)
<1>1. a \in Call
    BY DEF Call, Step
<1>2. Fits(a) /\ Fresh(a)
    BY DEF SendRefresh, Fits, Using, Fresh
<1>3. Hand(calls[c]) \subseteq Hand(a)
    BY DEF SendRefresh, Hand, Call
<1>4. calls' = [calls EXCEPT ![c] = a]
    BY DEF SendRefresh
<1>5. a.cl = calls[c].cl /\ a.tok = calls[c].tok /\ a.pc = "answer"
         /\ a.pair = a.tok
    BY DEF Call
<1> HIDE DEF a
<1> QED
    BY <1>1, <1>2, <1>3, <1>4, <1>5, Plain DEF SendRefresh

LEMMA NoteTokenStep ==
    ASSUME CredInv, NEW c \in Calls, NoteToken(c)
    PROVE  CredInv'
<1> USE EntryFacts, CallFacts DEF Become
<1> DEFINE a == On(calls[c], "request", calls[c].tok, 0)
<1>1. a \in Call
    BY DEF Call, Step
<1>2. Fits(a) /\ Fresh(a) /\ Hand(calls[c]) = {}
    BY DEF NoteToken, Fits, Using, Fresh, Hand, Call, Issued
<1>3. calls' = [calls EXCEPT ![c] = a]
    BY DEF NoteToken
<1>4. a.cl = calls[c].cl /\ a.tok = calls[c].tok /\ a.pc = "request"
    BY DEF Call
<1> HIDE DEF a
<1> QED
    BY <1>1, <1>2, <1>3, <1>4, Plain DEF NoteToken

\* persist_if_refreshed, and what follows a request in general.
LEMMA EndedFits ==
    ASSUME CredInv, NEW b \in Call, b.pc \in {"request", "answer", "granted"},
           b.kind \in {"chat", "poll", "refresh"},
           b.cl \in Clients, b.tok \in Issued, b.orig # 0,
           b.orig # b.tok => Unexpired(b.tok)
    PROVE  LET a == Ended(b) IN
           /\ a \in Call /\ Fits(a) /\ Fresh(a)
           /\ \/ a.cl = b.cl /\ a.tok = b.tok
              \/ a.cl = NoClient /\ a.tok = 0
           /\ a.pc \in {"persist", "idle"}
           /\ b.tok # b.orig => b.tok \in Hand(a)
<1>1. CASE b.tok # b.orig
    <2> DEFINE a == On(b, "persist", b.orig, 0)
    <2>1. a \in Call
        BY EntryFacts DEF Call, Step
    <2>2. Fits(a) /\ Fresh(a)
        BY <1>1, CredentialsAssumption DEF Fits, Using, Fresh, Call
    <2>3. b.tok \in Hand(a) /\ a.cl = b.cl /\ a.tok = b.tok /\ a.pc = "persist"
        BY DEF Hand, Call
    <2>4. Ended(b) = a
        BY <1>1 DEF Ended
    <2> HIDE DEF a
    <2> QED
        BY <2>1, <2>2, <2>3, <2>4
<1>2. CASE b.tok = b.orig
    BY <1>2, RestFits DEF Ended
<1> QED
    BY <1>1, <1>2

LEMMA FinishStep ==
    ASSUME CredInv, NEW c \in Calls, Finish(c)
    PROVE  CredInv'
<1> USE EntryFacts, CallFacts DEF Become
<1> DEFINE a == Ended(calls[c])
<1>1. /\ a \in Call /\ Fits(a) /\ Fresh(a)
      /\ \/ a.cl = calls[c].cl /\ a.tok = calls[c].tok
         \/ a.cl = NoClient /\ a.tok = 0
      /\ a.pc \in {"persist", "idle"}
      /\ calls[c].tok # calls[c].orig => calls[c].tok \in Hand(a)
    <2>1. /\ calls[c].pc = "request"
          /\ calls[c].kind \in {"chat", "poll", "refresh"}
          /\ calls[c].cl \in Clients
          /\ calls[c].tok \in Issued
          /\ calls[c].orig # 0
          /\ calls[c].orig # calls[c].tok => Unexpired(calls[c].tok)
        BY DEF Finish, Fits, Using, Fresh
    <2> QED
        BY <2>1, EndedFits
<1>2. Hand(calls[c]) \subseteq Hand(a)
    BY <1>1 DEF Finish, Hand
<1>3. calls' = [calls EXCEPT ![c] = a]
    BY DEF Finish
<1> HIDE DEF a
<1> QED
    BY <1>1, <1>2, <1>3, Plain DEF Finish

\* After a request of a poll or a chat call.
LEMMA ResumedFits ==
    ASSUME CredInv, NEW b \in Call, b.pc \in {"answer", "granted"},
           b.kind \in {"chat", "poll", "refresh"},
           b.cl \in Clients, b.tok \in Issued,
           b.kind # "poll" => b.orig # 0,
           b.orig \notin {0, b.tok} => Unexpired(b.tok)
    PROVE  LET a == Resumed(b) IN
           /\ a \in Call /\ Fits(a) /\ Fresh(a)
           /\ \/ a.cl = b.cl /\ a.tok = b.tok
              \/ a.cl = NoClient /\ a.tok = 0
           /\ a.pc \notin {"granted", "answer"}
           /\ b.orig \notin {0, b.tok} => b.tok \in Hand(a)
<1>1. CASE b.kind = "poll"
    <2> DEFINE a == On(b, IF b.orig = 0 THEN "states" ELSE "request", b.orig, 0)
    <2>1. a \in Call
        BY EntryFacts DEF Call, Step
    <2>2. Fits(a) /\ Fresh(a)
        BY <1>1, CredentialsAssumption DEF Fits, Using, Fresh, Call
    <2>3. /\ a.cl = b.cl /\ a.tok = b.tok /\ a.pc \in {"states", "request"}
          /\ b.orig \notin {0, b.tok} => b.tok \in Hand(a)
        BY <1>1 DEF Hand, Call
    <2>4. Resumed(b) = a
        BY <1>1 DEF Resumed
    <2> HIDE DEF a
    <2> QED
        BY <2>1, <2>2, <2>3, <2>4
<1>2. CASE b.kind # "poll"
    BY <1>2, EndedFits DEF Resumed
<1> QED
    BY <1>1, <1>2

LEMMA AnswerFacts ==
    ASSUME CredInv, NEW c \in Calls, calls[c].pc \in {"answer", "granted"}
    PROVE  LET b == calls[c] IN
           /\ b \in Call
           /\ b.kind \in {"chat", "poll", "refresh"}
           /\ b.cl \in Clients /\ b.tok \in Issued
           /\ b.kind # "poll" => b.orig # 0
           /\ b.orig \notin {0, b.tok} => Unexpired(b.tok)
<1> QED
    BY CallFacts DEF Fits, Using, Fresh

LEMMA RefuseStep ==
    ASSUME CredInv, NEW c \in Calls, Refuse(c)
    PROVE  CredInv'
<1> USE EntryFacts, CallFacts DEF Become
<1>1. CASE calls[c].kind = "refresh"
    <2> DEFINE a == On(calls[c], "mark", calls[c].orig, calls[c].pair)
    <2>1. a \in Call
        BY DEF Call, Step
    <2>2. Fits(a)
        BY <1>1 DEF Refuse, Fits, Using
    <2>3. Fresh(a) /\ Hand(calls[c]) = {}
        BY <1>1 DEF Refuse, Fresh, Hand
    <2>4. calls' = [calls EXCEPT ![c] = a]
        BY <1>1 DEF Refuse, Goto
    <2>5. a.cl = calls[c].cl /\ a.tok = calls[c].tok /\ a.pc = "mark"
        BY DEF Call
    <2>6. /\ cache' \in [Processes -> Entry]
          /\ \A p \in Processes : cache'[p] \in {cache[p], NoEntry}
        BY <1>1 DEF Refuse
    <2> HIDE DEF a
    <2> QED
        BY <2>1, <2>2, <2>3, <2>4, <2>5, <2>6, Plain DEF Refuse
<1>2. CASE calls[c].kind # "refresh"
    <2> DEFINE a == Resumed(calls[c])
    <2>1. /\ a \in Call /\ Fits(a) /\ Fresh(a)
          /\ \/ a.cl = calls[c].cl /\ a.tok = calls[c].tok
             \/ a.cl = NoClient /\ a.tok = 0
          /\ a.pc \notin {"granted", "answer"}
          /\ calls[c].orig \notin {0, calls[c].tok} =>
                calls[c].tok \in Hand(a)
        BY ResumedFits, AnswerFacts DEF Refuse
    <2>2. Hand(calls[c]) \subseteq Hand(a)
        BY <2>1 DEF Refuse, Hand
    <2>3. calls' = [calls EXCEPT ![c] = a]
        BY <1>2 DEF Refuse
    <2> HIDE DEF a
    <2> QED
        BY <1>2, <2>1, <2>2, <2>3, Plain DEF Refuse
<1> QED
    BY <1>1, <1>2

\* An answer lost after the grant writes the new pair off.
LEMMA NetworkFailsStep ==
    ASSUME CredInv, NEW c \in Calls, NetworkFails(c)
    PROVE  CredInv'
<1> USE EntryFacts, CallFacts DEF Become
<1>1. /\ forgotten \subseteq forgotten'
      /\ forgotten' \subseteq Issued
      /\ calls[c].pc = "granted" => calls[c].pair \in forgotten'
    BY DEF NetworkFails, Fits
<1>2. CASE calls[c].kind = "refresh"
    <2>1. Hand(calls[c]) \subseteq forgotten'
        BY <1>1, <1>2 DEF NetworkFails, Hand
    <2> QED
        BY <1>1, <1>2, <2>1, RestStep DEF NetworkFails
<1>3. CASE calls[c].kind # "refresh"
    <2> DEFINE a == Resumed(calls[c])
    <2>1. /\ a \in Call /\ Fits(a) /\ Fresh(a)
          /\ \/ a.cl = calls[c].cl /\ a.tok = calls[c].tok
             \/ a.cl = NoClient /\ a.tok = 0
          /\ a.pc \notin {"granted", "answer"}
          /\ calls[c].orig \notin {0, calls[c].tok} =>
                calls[c].tok \in Hand(a)
        BY ResumedFits, AnswerFacts DEF NetworkFails
    <2>2. Hand(calls[c]) \subseteq Hand(a) \union forgotten'
        BY <1>1, <2>1 DEF NetworkFails, Hand
    <2>3. calls' = [calls EXCEPT ![c] = a]
        BY <1>3 DEF NetworkFails
    <2> HIDE DEF a
    <2> QED
        BY <1>1, <2>1, <2>2, <2>3, Plain DEF NetworkFails
<1> QED
    BY <1>2, <1>3

LEMMA PersistFailsStep ==
    ASSUME CredInv, NEW c \in Calls, PersistFails(c)
    PROVE  CredInv'
<1> USE EntryFacts, CallFacts DEF Become
<1>1. /\ forgotten' \subseteq Issued
      /\ Hand(calls[c]) \subseteq forgotten'
    BY DEF PersistFails, Hand, Fits, Using
<1> QED
    BY <1>1, RestStep DEF PersistFails

LEMMA StartSessionStep ==
    ASSUME CredInv, NEW c \in Calls, StartSession(c)
    PROVE  CredInv'
<1> USE EntryFacts, CallFacts DEF Become
<1> DEFINE a == Bare("session", "mark", 0)
<1>1. a \in Call /\ Fits(a) /\ Fresh(a) /\ Hand(calls[c]) = {}
    BY DEF StartSession, Call, Kind, Step, Fits, Using, Fresh, Hand
<1>2. calls' = [calls EXCEPT ![c] = a]
    BY DEF StartSession
<1>3. a.cl = NoClient /\ a.tok = 0 /\ a.pc = "mark"
    OBVIOUS
<1>4. /\ cache' \in [Processes -> Entry]
      /\ \A p \in Processes : cache'[p] \in {cache[p], NoEntry}
    BY DEF StartSession
<1> HIDE DEF a
<1> QED
    BY <1>1, <1>2, <1>3, <1>4, Plain DEF StartSession

LEMMA ResetCachesStep ==
    ASSUME CredInv, NEW c \in Calls, ResetCaches(c)
    PROVE  CredInv'
<1> USE EntryFacts, CallFacts DEF Become
<1>1. Hand(calls[c]) = {}
    BY DEF ResetCaches, Hand
<1>2. /\ cache' \in [Processes -> Entry]
      /\ \A p \in Processes : cache'[p] \in {cache[p], NoEntry}
    BY DEF ResetCaches
<1> QED
    BY <1>1, <1>2, RestStep DEF ResetCaches

LEMMA PersistStep ==
    ASSUME CredInv, NEW c \in Calls, Persist(c)
    PROVE  CredInv'
<1> USE EntryFacts, CallFacts, RestFits DEF Become
<1>1. Unexpired(calls[c].tok)
    BY DEF Persist, Fresh
<1>2. row' \in Row /\ (~row'.present => row'.pair = 0)
    BY DEF Persist, CredInv, TypeOK, StepInv, Row, Call
<1>3. TypeOK' /\ ChainInv' /\ StepInv' /\ FreshInv' /\ SharedInv'
    BY <1>2, OneStep DEF Persist
<1>4. RowKeepsUp'
    <2>1. CASE row.present
        <3>1. row'.pair = calls[c].tok
            BY <2>1 DEF Persist, CredInv, TypeOK
        <3>2. Unexpired(row.pair)'
            BY <1>1, <3>1 DEF Persist, Unexpired, Issued
        <3> QED
            BY <1>3, <3>2 DEF ChainInv, Unexpired, Spent, RowKeepsUp
    <2>2. CASE ~row.present
        BY <2>2 DEF Persist, RowKeepsUp
    <2> QED
        BY <2>1, <2>2
<1> QED
    BY <1>3, <1>4 DEF CredInv

LEMMA MarkStep ==
    ASSUME CredInv, NEW c \in Calls, Mark(c)
    PROVE  CredInv'
<1> USE EntryFacts, CallFacts, RestFits DEF Become
<1>1. row' \in Row /\ (~row'.present => row'.pair = 0)
    BY DEF Mark, CredInv, TypeOK, StepInv, Row, Fits
<1>2. TypeOK' /\ ChainInv' /\ StepInv' /\ FreshInv' /\ SharedInv'
    BY <1>1, OneStep DEF Mark
<1>3. RowKeepsUp'
    <2>1. row'.pair = row.pair /\ row'.present = row.present
        BY DEF Mark, CredInv, TypeOK
    <2>2. Hand(calls[c]) = {}
        BY DEF Mark, Hand
    <2>3. \A d \in Calls : Hand(calls[d]) \subseteq Hand(calls'[d])
        BY <2>2 DEF Mark, CredInv, TypeOK
    <2>4. /\ Spent(row.pair)' = Spent(row.pair)
          /\ pairs'[row'.pair].heir = pairs[row.pair].heir
          /\ forgotten' = forgotten
        BY <2>1 DEF Mark, Spent, Issued
    <2>5. RowKeepsUp
        BY DEF CredInv
    <2>6. SUFFICES ASSUME row.present, Spent(row.pair)
                   PROVE  \/ pairs[row.pair].heir \in forgotten
                          \/ \E d \in Calls :
                                pairs[row.pair].heir \in Hand(calls'[d])
        BY <2>1, <2>4 DEF RowKeepsUp, Hand
    <2> QED
        BY <2>3, <2>5, <2>6 DEF RowKeepsUp
<1> QED
    BY <1>2, <1>3 DEF CredInv

LEMMA CacheExpiresStep ==
    ASSUME CredInv, NEW p \in Processes, CacheExpires(p)
    PROVE  CredInv'
<1> USE EntryFacts
<1>1. cache' = [cache EXCEPT ![p] = NoEntry]
    BY DEF CacheExpires
<1>2. TypeOK'
    <2>1. cache' \in [Processes -> Entry]
        BY <1>1
    <2> QED
        BY <2>1 DEF CacheExpires, CredInv, TypeOK, Entry, Call, Issued
<1>3. StepInv'
    BY <1>1 DEF CacheExpires, CredInv, StepInv, Fits, Issued
<1>4. ChainInv' /\ FreshInv'
    BY DEF CacheExpires, CredInv, ChainInv, FreshInv, Fresh, Unexpired, Issued
<1>5. SharedInv'
    <2>1. \A d \in Calls : calls[d].cl = NoClient => calls[d].tok = 0
        BY DEF CredInv, StepInv, Fits
    <2>2. NoEntry.cl = NoClient /\ NoEntry.tok = 0
        BY DEF NoEntry
    <2>3. \A q \in Processes : cache'[q] \in {cache[q], NoEntry}
        BY <1>1
    <2> QED
        BY <2>1, <2>2, <2>3 DEF CacheExpires, CredInv, SharedInv
<1>6. RowKeepsUp'
    BY DEF CacheExpires, CredInv, RowKeepsUp, Spent, Issued, Hand
<1> QED
    BY <1>2, <1>3, <1>4, <1>5, <1>6 DEF CredInv

\* The first row of a login job, or none at all, is not behind either.
LEMMA StoreLoginStep ==
    ASSUME CredInv, NEW c \in Calls, StoreLogin(c)
    PROVE  CredInv'
<1> USE EntryFacts, CallFacts DEF Become
<1> DEFINE a == On(calls[c], "reset", calls[c].orig, calls[c].pair)
<1>1. a \in Call /\ Fits(a) /\ Fresh(a)
    BY DEF StoreLogin, Call, Step, Fits, Using, Fresh
<1>2. /\ calls' = [calls EXCEPT ![c] = a]
      /\ a.cl = calls[c].cl /\ a.tok = calls[c].tok /\ a.pc = "reset"
    BY DEF StoreLogin, Goto
<1>3. row' \in Row /\ row'.present
    BY DEF StoreLogin, CredInv, TypeOK, Row, Call
<1> HIDE DEF a
<1>4. TypeOK' /\ ChainInv' /\ StepInv' /\ FreshInv' /\ SharedInv'
    BY <1>1, <1>2, <1>3, OneStep DEF StoreLogin
<1>5. RowKeepsUp'
    <2>1. CASE calls[c].pair # 0
        <3>1. Unexpired(row.pair)'
            BY <2>1 DEF StoreLogin, Fresh, Unexpired, Issued
        <3> QED
            BY <1>4, <3>1 DEF ChainInv, Unexpired, Spent, RowKeepsUp
    <2>2. CASE calls[c].pair = 0
        <3>1. row'.pair = row.pair
            BY <2>2 DEF StoreLogin
        <3>2. CASE row.present
            <4>1. Hand(calls[c]) = {}
                BY DEF StoreLogin, Hand
            <4>2. \A d \in Calls : Hand(calls[d]) \subseteq Hand(calls'[d])
                BY <1>2, <4>1 DEF CredInv, TypeOK
            <4> QED
                BY <3>1, <3>2, <4>2 DEF StoreLogin, CredInv, RowKeepsUp, Spent,
                                         Issued, Hand
        <3>3. CASE ~row.present
            <4>1. row'.pair = 0
                BY <3>1, <3>3 DEF CredInv, StepInv
            <4> QED
                BY <4>1 DEF RowKeepsUp, Spent, Issued
        <3> QED
            BY <3>2, <3>3
    <2> QED
        BY <2>1, <2>2
<1> QED
    BY <1>4, <1>5 DEF CredInv

LEMMA DisconnectStep ==
    ASSUME CredInv, Disconnect
    PROVE  CredInv'
<1> USE EntryFacts
<1>1. cache' = [cache EXCEPT !["api"] = NoEntry]
    BY DEF Disconnect
<1>2. TypeOK'
    <2>1. cache' \in [Processes -> Entry]
        BY <1>1
    <2> QED
        BY <2>1 DEF Disconnect, CredInv, TypeOK, Entry, Call, Issued
<1>3. StepInv'
    BY <1>1 DEF Disconnect, CredInv, StepInv, Fits, Issued
<1>4. ChainInv' /\ FreshInv'
    BY DEF Disconnect, CredInv, ChainInv, FreshInv, Fresh, Unexpired, Issued
<1>5. SharedInv'
    <2>1. \A d \in Calls : calls[d].cl = NoClient => calls[d].tok = 0
        BY DEF CredInv, StepInv, Fits
    <2>2. NoEntry.cl = NoClient /\ NoEntry.tok = 0
        BY DEF NoEntry
    <2>3. \A q \in Processes : cache'[q] \in {cache[q], NoEntry}
        BY <1>1
    <2> QED
        BY <2>1, <2>2, <2>3 DEF Disconnect, CredInv, SharedInv
<1>6. RowKeepsUp'
    BY DEF Disconnect, RowKeepsUp
<1> QED
    BY <1>2, <1>3, <1>4, <1>5, <1>6 DEF CredInv

\* A quiet moment: no call holds anything a pair's expiry could spoil.
LEMMA ExpireStep ==
    ASSUME CredInv, NEW k \in Issued, Expire(k)
    PROVE  CredInv'
<1> USE EntryFacts
<1>1. /\ Len(pairs') = Len(pairs)
      /\ pairs' \in Seq(Pair)
      /\ \A m \in Issued :
            /\ pairs'[m].login = pairs[m].login
            /\ pairs'[m].heir = pairs[m].heir
            /\ pairs[m].expired => pairs'[m].expired
    <2>1. pairs \in Seq(Pair) /\ pairs[k] \in Pair
        BY DEF CredInv, TypeOK, Issued
    <2> DEFINE e == [pairs[k] EXCEPT !.expired = TRUE]
    <2>2. /\ e \in Pair /\ e.login = pairs[k].login
          /\ e.heir = pairs[k].heir /\ e.expired
        BY <2>1 DEF Pair
    <2>3. pairs' = [pairs EXCEPT ![k] = e]
        BY DEF Expire
    <2> HIDE DEF e
    <2> QED
        BY <2>1, <2>2, <2>3, ExceptSeq DEF Issued
<1>2. Issued' = Issued
    BY <1>1 DEF Issued
<1>3. calls' = calls /\ cache' = cache /\ row' = row /\ forgotten' = forgotten
    BY DEF Expire
<1>4. \A c \in Calls : calls[c] = Rest
    BY CallFacts DEF Expire, Fits
<1>5. TypeOK'
    BY <1>1, <1>2, <1>3 DEF CredInv, TypeOK, Call
<1>6. ChainInv'
    BY <1>1, <1>2 DEF CredInv, ChainInv
<1>7. StepInv'
    BY <1>2, <1>3 DEF CredInv, StepInv, Fits
<1>8. FreshInv'
    BY <1>3, <1>4, RestFits DEF FreshInv, Fresh, Rest
<1>9. SharedInv'
    BY <1>3, <1>4 DEF CredInv, SharedInv, Rest
<1>10. RowKeepsUp'
    BY <1>1, <1>2, <1>3 DEF CredInv, RowKeepsUp, Spent, Hand
<1> QED
    BY <1>5, <1>6, <1>7, <1>8, <1>9, <1>10 DEF CredInv

-----------------------------------------------------------------------------
(* The steps in which hh issues a pair.                                     *)

\* What hh keeps of the pairs it has issued when it issues another one.
LEMMA Appended ==
    ASSUME pairs \in Seq(Pair), NEW old \in Seq(Pair), Len(old) = Len(pairs),
           NEW e \in Pair, pairs' = Append(old, e)
    PROVE  /\ pairs' \in Seq(Pair)
           /\ Len(pairs) \in Nat
           /\ Len(pairs') = Len(pairs) + 1
           /\ Issued' = Issued \union {Len(pairs) + 1}
           /\ Len(pairs) + 1 \notin Issued
           /\ \A m \in Issued : pairs'[m] = old[m]
           /\ pairs'[Len(pairs) + 1] = e
<1>1. Len(pairs) \in Nat
    OBVIOUS
<1>2. /\ pairs' \in Seq(Pair)
      /\ Len(pairs') = Len(pairs) + 1
      /\ \A m \in Issued : pairs'[m] = old[m]
      /\ pairs'[Len(pairs) + 1] = e
    BY <1>1, AppendProperties DEF Issued
<1>3. Issued' = 1..(Len(pairs) + 1)
    BY <1>2 DEF Issued
<1> QED
    BY <1>1, <1>2, <1>3 DEF Issued

\* A call that stays as it was stays fit for its step.
LEMMA StillFits ==
    ASSUME CredInv, Len(pairs') \in Nat, Len(pairs) <= Len(pairs'),
           Issued \subseteq Issued',
           \A m \in Issued : pairs'[m].expired = pairs[m].expired,
           NEW d \in Calls, calls'[d] = calls[d]
    PROVE  calls'[d] \in Call' /\ Fits(calls[d])' /\ Fresh(calls[d])'
<1> USE EntryFacts, CallFacts
<1>1. calls'[d] \in Call'
    BY DEF Call
<1>2. Fits(calls[d])'
    BY DEF Fits
<1>3. Fresh(calls[d])'
    BY DEF Fresh, Unexpired
<1> QED
    BY <1>1, <1>2, <1>3

LEMMA StartLoginStep ==
    ASSUME CredInv, NEW c \in Calls, NEW withPair \in BOOLEAN,
           StartLogin(c, withPair)
    PROVE  CredInv'
<1> USE EntryFacts, CallFacts DEF Become
<1> DEFINE n == Len(pairs) + 1
           a == Bare("login", "store", IF withPair THEN n ELSE 0)
<1>1. /\ calls' = [calls EXCEPT ![c] = a]
      /\ calls[c].pc = "idle"
      /\ row' = row /\ cache' = cache /\ forgotten' = forgotten
    BY DEF StartLogin
<1>2. CASE withPair
    <2> DEFINE e == [expired |-> FALSE, heir |-> 0, login |-> n]
    <2>1. e \in Pair /\ pairs \in Seq(Pair) /\ pairs' = Append(pairs, e)
        BY <1>2 DEF StartLogin, Pair, CredInv, TypeOK
    <2>2. e.expired = FALSE /\ e.heir = 0 /\ e.login = n
        OBVIOUS
    <2> HIDE DEF e
    <2>3. /\ pairs' \in Seq(Pair)
          /\ Len(pairs') = n
          /\ Issued' = Issued \union {n}
          /\ n \notin Issued
          /\ \A m \in Issued : pairs'[m] = pairs[m]
          /\ pairs'[n] = e
        BY <2>1, Appended
    <2>4. \A d \in Calls : calls'[d] = IF d = c THEN a ELSE calls[d]
        BY <1>1 DEF CredInv, TypeOK
    <2>5. calls'[c] \in Call' /\ Fits(calls[c])' /\ Fresh(calls[c])'
        <3>1. calls'[c] = Bare("login", "store", n)
            BY <1>2, <2>4
        <3>2. calls'[c] \in Call'
            BY <2>3, <3>1 DEF Call, Kind, Step
        <3>3. Fits(calls[c])'
            BY <3>1 DEF Fits, Using
        <3>4. Fresh(calls[c])'
            BY <2>2, <2>3, <3>1 DEF Fresh, Unexpired
        <3> QED
            BY <3>2, <3>3, <3>4
    <2>6. \A d \in Calls :
              calls'[d] \in Call' /\ Fits(calls[d])' /\ Fresh(calls[d])'
        BY <2>3, <2>4, <2>5, StillFits
    <2>7. TypeOK'
        <3>1. calls' \in [Calls -> Call']
            BY <1>1, <2>6 DEF CredInv, TypeOK
        <3> QED
            BY <1>1, <2>3, <3>1 DEF CredInv, TypeOK
    <2>8. ChainInv'
        BY <2>2, <2>3 DEF CredInv, ChainInv, Issued
    <2>9. StepInv'
        BY <1>1, <2>3, <2>6 DEF CredInv, StepInv
    <2>10. FreshInv'
        BY <2>6 DEF FreshInv
    <2>11. SharedInv'
        <3>1. a.cl = NoClient /\ a.tok = 0 /\ a.pc = "store"
            OBVIOUS
        <3>2. calls[c].cl = NoClient /\ calls[c].tok = 0
            BY <1>1 DEF Fits, Rest
        <3>3. \A d \in Calls : calls'[d].cl = calls[d].cl
                                  /\ calls'[d].tok = calls[d].tok
            BY <2>4, <3>1, <3>2
        <3>4. \A d \in Calls : calls'[d].pc \in {"granted", "answer"} =>
                  calls'[d] = calls[d]
            BY <2>4, <3>1
        <3>5. \A d \in Calls : calls[d].pc \in {"granted", "answer"} =>
                  calls[d].tok \in Issued /\ calls[d].pair \in Issued
            BY DEF Fits, Using
        <3> HIDE DEF a
        <3> QED
            BY <1>1, <2>3, <3>3, <3>4, <3>5 DEF CredInv, SharedInv
    <2>12. RowKeepsUp'
        <3>1. row.pair \in Issued' => row.pair \in Issued
            BY DEF CredInv, TypeOK, Issued
        <3>2. Hand(calls[c]) = {}
            BY <1>1 DEF Hand
        <3>3. \A d \in Calls : Hand(calls[d]) \subseteq Hand(calls'[d])
            BY <2>4, <3>2
        <3> QED
            BY <1>1, <2>3, <3>1, <3>3 DEF CredInv, RowKeepsUp, Spent, Hand
    <2> QED
        BY <2>7, <2>8, <2>9, <2>10, <2>11, <2>12 DEF CredInv
<1>3. CASE ~withPair
    <2>1. a \in Call /\ Fits(a) /\ Fresh(a) /\ Hand(calls[c]) = {}
        BY <1>1, <1>3 DEF Call, Kind, Step, Fits, Using, Fresh, Hand
    <2>2. a.cl = NoClient /\ a.tok = 0 /\ a.pc = "store"
        OBVIOUS
    <2>3. pairs' = pairs
        BY <1>3 DEF StartLogin
    <2> HIDE DEF a
    <2> QED
        BY <1>1, <2>1, <2>2, <2>3, Plain
<1> QED
    BY <1>2, <1>3

LEMMA GrantStep ==
    ASSUME CredInv, NEW c \in Calls, Grant(c)
    PROVE  CredInv'
<1> USE EntryFacts, CallFacts DEF Become
<1> DEFINE n == Len(pairs) + 1
           k == calls[c].pair
           a == On(calls[c], "granted", calls[c].orig, n)
<1>1. /\ calls' = [calls EXCEPT ![c] = a]
      /\ calls[c].pc = "answer"
      /\ row' = row /\ cache' = cache /\ forgotten' = forgotten
      /\ pairs[k].expired
      /\ ~Spent(k)
    BY DEF Grant
<1>2. /\ k \in Issued /\ pairs[k] \in Pair /\ pairs[k].heir = 0
      /\ calls[c].tok = k
    <2>1. k \in Issued
        BY <1>1 DEF Fits
    <2>2. pairs[k].heir = 0
        BY <1>1, <2>1 DEF Spent
    <2> QED
        BY <1>1, <2>1, <2>2, ElementOfSeq DEF CredInv, TypeOK, Issued
<1> DEFINE h == [pairs[k] EXCEPT !.heir = n]
           old == [pairs EXCEPT ![k] = h]
           e == [expired |-> FALSE, heir |-> 0, login |-> pairs[k].login]
<1>3. /\ h \in Pair /\ h.login = pairs[k].login /\ h.heir = n
      /\ h.expired = pairs[k].expired
    BY <1>2 DEF Pair
<1>4. /\ e \in Pair /\ e.expired = FALSE /\ e.heir = 0
      /\ e.login = pairs[k].login
    BY <1>2 DEF Pair
<1>5. pairs' = Append(old, e)
    BY DEF Grant
<1> HIDE DEF h, e
<1>6. /\ pairs \in Seq(Pair) /\ old \in Seq(Pair) /\ Len(old) = Len(pairs)
      /\ \A m \in Issued : old[m] = IF m = k THEN h ELSE pairs[m]
    BY <1>2, <1>3, ExceptSeq DEF CredInv, TypeOK, Issued
<1> HIDE DEF old
<1>7. /\ pairs' \in Seq(Pair)
      /\ Len(pairs') = n
      /\ Issued' = Issued \union {n}
      /\ n \notin Issued
      /\ \A m \in Issued : pairs'[m] = IF m = k THEN h ELSE pairs[m]
      /\ pairs'[n] = e
    BY <1>4, <1>5, <1>6, Appended
<1>8. \A m \in Issued :
          /\ pairs'[m].expired = pairs[m].expired
          /\ pairs'[m].login = pairs[m].login
          /\ pairs'[m].heir = IF m = k THEN n ELSE pairs[m].heir
    BY <1>3, <1>7
<1>9. \A d \in Calls : calls'[d] = IF d = c THEN a ELSE calls[d]
    BY <1>1 DEF CredInv, TypeOK
<1>10. calls'[c] \in Call' /\ Fits(calls[c])' /\ Fresh(calls[c])'
    <2>1. calls'[c] = a
        BY <1>9
    <2>2. a \in Call'
        BY <1>7 DEF Call, Step
    <2>3. Fits(calls[c])'
        BY <1>1, <1>7, <2>1 DEF Fits, Using
    <2>4. calls[c].orig \in {0, k}
        BY <1>1, <1>2 DEF Fresh, Unexpired
    <2>5. k # n /\ n # 0
        BY <1>2, <1>7
    <2>6. n \in Issued' /\ ~pairs'[n].expired
        BY <1>4, <1>7
    <2>7. Fresh(calls[c])'
        BY <1>2, <2>1, <2>4, <2>5, <2>6 DEF Fresh, Unexpired
    <2> QED
        BY <2>1, <2>2, <2>3, <2>7
<1>11. \A d \in Calls :
          calls'[d] \in Call' /\ Fits(calls[d])' /\ Fresh(calls[d])'
    BY <1>7, <1>8, <1>9, <1>10, StillFits
<1>12. TypeOK'
    <2>1. calls' \in [Calls -> Call']
        BY <1>1, <1>11 DEF CredInv, TypeOK
    <2> QED
        BY <1>1, <1>7, <2>1 DEF CredInv, TypeOK
<1>13. ChainInv'
    <2>1. \A m \in Issued' : /\ pairs'[m].login \in 1..m
                             /\ pairs'[m].heir # 0 => pairs'[m].expired
        BY <1>1, <1>2, <1>4, <1>7, <1>8 DEF CredInv, ChainInv, Issued
    <2>2. \A i, m \in Issued :
              i < m /\ pairs'[i].login = pairs'[m].login => pairs'[i].heir # 0
        BY <1>8 DEF CredInv, ChainInv
    <2>3. \A i \in Issued :
              pairs'[i].login = pairs'[n].login => pairs'[i].heir # 0
        BY <1>2, <1>4, <1>7, <1>8 DEF CredInv, ChainInv, Issued
    <2>4. \A m \in Issued' : ~(n < m)
        BY <1>7 DEF Issued
    <2> QED
        BY <1>7, <2>1, <2>2, <2>3, <2>4 DEF ChainInv
<1>14. StepInv'
    BY <1>1, <1>7, <1>11 DEF CredInv, StepInv
<1>15. FreshInv'
    BY <1>11 DEF FreshInv
<1>16. SharedInv'
    <2>1. \A d \in Calls : calls'[d].cl = calls[d].cl
                           /\ calls'[d].tok = calls[d].tok
        BY <1>9
    <2>2. /\ \A d, f \in Calls :
                calls'[d].cl = calls'[f].cl => calls'[d].tok = calls'[f].tok
          /\ \A d \in Calls, p \in Processes :
                calls'[d].cl = cache'[p].cl => calls'[d].tok = cache'[p].tok
          /\ \A p, q \in Processes :
                cache'[p].cl = cache'[q].cl => cache'[p].tok = cache'[q].tok
        BY <1>1, <2>1 DEF CredInv, SharedInv
    <2>3. ASSUME NEW d \in Calls
          PROVE  /\ calls'[d].pc = "granted" =>
                       pairs'[calls'[d].tok].heir = calls'[d].pair
                 /\ calls'[d].pc = "answer" =>
                       \/ calls'[d].pair = calls'[d].tok
                       \/ pairs'[calls'[d].pair].heir # 0
        <3>1. CASE d = c
            BY <3>1, <1>2, <1>8, <1>9
        <3>2. CASE d # c
            <4>1. calls[d].pc \in {"granted", "answer"} =>
                      calls[d].tok \in Issued /\ calls[d].pair \in Issued
                BY DEF Fits, Using
            <4>2. calls[d].pc = "granted" => calls[d].tok # k
                BY <4>1, <1>2 DEF CredInv, SharedInv, Issued
            <4> QED
                BY <3>2, <4>1, <4>2, <1>8, <1>9 DEF CredInv, SharedInv
        <3> QED
            BY <3>1, <3>2
    <2>4. ASSUME NEW d \in Calls, NEW f \in Calls, d # f,
                 calls'[d].pc = "granted", calls'[f].pc = "granted"
          PROVE  calls'[d].pair # calls'[f].pair
        <3>1. \A g \in Calls :
                  calls[g].pc = "granted" => calls[g].pair \in Issued
            BY DEF Fits
        <3> QED
            BY <1>7, <1>9, <2>4, <3>1 DEF CredInv, SharedInv
    <2> QED
        BY <2>2, <2>3, <2>4 DEF SharedInv
<1>17. RowKeepsUp'
    <2>1. row.pair \in Issued' => row.pair \in Issued
        BY DEF CredInv, TypeOK, Issued
    <2>2. Hand(calls[c]) \subseteq Hand(a) /\ n \in Hand(a)
        BY <1>1 DEF Hand
    <2>3. \A d \in Calls : Hand(calls[d]) \subseteq Hand(calls'[d])
        BY <1>9, <2>2
    <2>4. CASE row.pair = k
        <3>1. pairs'[row'.pair].heir = n
            BY <1>1, <1>2, <1>8, <2>4
        <3>2. n \in Hand(calls'[c])
            BY <1>9, <2>2
        <3> HIDE DEF n, a, k
        <3> QED
            BY <3>1, <3>2 DEF RowKeepsUp, Hand
    <2>5. CASE row.pair # k
        <3>1. Spent(row.pair)' => Spent(row.pair)
                  /\ pairs'[row.pair].heir = pairs[row.pair].heir
            BY <1>1, <1>8, <2>1, <2>5 DEF Spent
        <3> QED
            BY <1>1, <2>3, <3>1 DEF CredInv, RowKeepsUp, Hand
    <2> QED
        BY <2>4, <2>5
<1> QED
    BY <1>12, <1>13, <1>14, <1>15, <1>16, <1>17 DEF CredInv

-----------------------------------------------------------------------------
(* The steps that give a call its client object.                            *)

\* A call takes up an object: the cached one, or a new one it has cached.
LEMMA LoadedFits ==
    ASSUME CredInv, NEW kind \in {"chat", "poll", "refresh"},
           NEW entry \in Entry, entry.cl \in Clients, entry.tok \in Issued
    PROVE  LET a == Loaded(kind, entry) IN
           /\ a \in Call /\ Fits(a) /\ Fresh(a)
           /\ a.cl = entry.cl /\ a.tok = entry.tok
           /\ a.pc \in {"states", "request", "refresh"}
<1> DEFINE a == Loaded(kind, entry)
<1>1. a.pc = IF kind = "chat" THEN "request"
             ELSE IF kind = "poll" THEN "states" ELSE "refresh"
    BY DEF Loaded, FirstStep
<1>2. /\ a.kind = kind /\ a.cl = entry.cl /\ a.tok = entry.tok
      /\ a.orig = IF kind = "poll" THEN 0 ELSE entry.tok
      /\ a.pair = 0
    BY DEF Loaded
<1>3. a \in Call
    BY <1>1, EntryFacts DEF Loaded, Call, Kind, Step, Entry, FirstStep, Issued
<1> HIDE DEF a
<1>4. Fits(a)
    BY <1>1, <1>2, CredentialsAssumption DEF Fits, Using, Issued
<1>5. Fresh(a)
    BY <1>1, <1>2 DEF Fresh
<1> QED
    BY <1>1, <1>2, <1>3, <1>4, <1>5 DEF a

\* A call starts with the entry of its process, or without a client.
LEMMA StartStep ==
    ASSUME CredInv, NEW c \in Calls, NEW kind \in {"chat", "poll", "refresh"},
           Start(c, kind)
    PROVE  CredInv'
<1> USE EntryFacts, CallFacts DEF Become
<1> DEFINE entry == cache[At(kind)]
<1>1. /\ calls[c].pc = "idle" /\ Hand(calls[c]) = {}
      /\ pairs' = pairs /\ row' = row /\ cache' = cache
      /\ forgotten' = forgotten
    BY DEF Start, Hand
<1>2. CASE entry = NoEntry
    <2> DEFINE a == Bare(kind, "row", 0)
    <2>1. a \in Call /\ Fits(a) /\ Fresh(a)
        BY DEF Call, Kind, Step, Fits, Using, Fresh
    <2>2. /\ calls' = [calls EXCEPT ![c] = a]
          /\ a.cl = NoClient /\ a.tok = 0 /\ a.pc = "row"
        BY <1>2 DEF Start
    <2> HIDE DEF a
    <2> QED
        BY <1>1, <2>1, <2>2, Plain
<1>3. CASE entry # NoEntry
    <2> DEFINE a == Loaded(kind, entry)
    <2>1. At(kind) \in Processes
        BY DEF At
    <2>2. entry \in Entry /\ entry.cl \in Clients /\ entry.tok \in Issued
        BY <1>3, <2>1 DEF CredInv, StepInv
    <2>3. /\ a \in Call /\ Fits(a) /\ Fresh(a)
          /\ a.cl = entry.cl /\ a.tok = entry.tok
          /\ a.pc \in {"states", "request", "refresh"}
        BY <2>2, LoadedFits
    <2>4. calls' = [calls EXCEPT ![c] = a]
        BY <1>3 DEF Start
    <2> HIDE DEF a
    <2>5. \A d \in Calls : calls'[d] = IF d = c THEN a ELSE calls[d]
        BY <2>4 DEF CredInv, TypeOK
    <2>6. SharedInv'
        <3>1. \A d \in Calls : calls[d].cl = a.cl => calls[d].tok = a.tok
            BY <2>1, <2>3 DEF CredInv, SharedInv
        <3>2. \A p \in Processes : cache[p].cl = a.cl => cache[p].tok = a.tok
            BY <2>1, <2>3 DEF CredInv, SharedInv
        <3> QED
            BY <1>1, <2>3, <2>5, <3>1, <3>2 DEF CredInv, SharedInv
    <2>7. RowKeepsUp'
        BY <1>1, <2>3, <2>4, HandKept DEF CredInv
    <2>8. /\ calls' \in [Calls -> Call']
          /\ \A d \in Calls : Fits(calls[d])'
          /\ FreshInv'
        BY <1>1, <2>3, <2>4, OneCall DEF CredInv
    <2>9. TypeOK' /\ ChainInv' /\ StepInv'
        BY <1>1, <2>8 DEF CredInv, TypeOK, ChainInv, StepInv, Issued
    <2> QED
        BY <2>6, <2>7, <2>8, <2>9 DEF CredInv
<1> QED
    BY <1>2, <1>3

LEMMA BuildClientStep ==
    ASSUME CredInv, NEW c \in Calls, BuildClient(c)
    PROVE  CredInv'
<1> USE EntryFacts, CallFacts DEF Become
<1> DEFINE kind == calls[c].kind
<1>1. /\ calls[c].pc = "build" /\ Hand(calls[c]) = {}
      /\ pairs' = pairs /\ row' = row /\ forgotten' = forgotten
      /\ calls[c].pair \in Issued
      /\ kind \in {"chat", "poll", "refresh"}
    BY DEF BuildClient, Hand, Fits
<1>2. PICK i \in Clients :
          LET entry == [cl |-> i, tok |-> calls[c].pair]
          IN  /\ \A d \in Calls : calls[d].cl # i
              /\ \A p \in Processes : cache[p].cl # i
              /\ cache' = [cache EXCEPT ![At(kind)] = entry]
              /\ calls' = [calls EXCEPT ![c] = Loaded(kind, entry)]
    BY DEF BuildClient
<1> DEFINE entry == [cl |-> i, tok |-> calls[c].pair]
           a == Loaded(kind, entry)
<1>3. /\ entry \in Entry /\ entry.cl = i /\ entry.tok \in Issued
    BY <1>1 DEF Entry, Issued
<1> HIDE DEF entry
<1>4. /\ a \in Call /\ Fits(a) /\ Fresh(a)
      /\ a.cl = i /\ a.tok = entry.tok
      /\ a.pc \in {"states", "request", "refresh"}
    BY <1>1, <1>3, LoadedFits
<1>5. calls' = [calls EXCEPT ![c] = a]
    BY <1>2 DEF entry
<1> HIDE DEF a
<1>6. \A d \in Calls : calls'[d] = IF d = c THEN a ELSE calls[d]
    BY <1>5 DEF CredInv, TypeOK
<1>7. \A p \in Processes :
          cache'[p] = IF p = At(kind) THEN entry ELSE cache[p]
    BY <1>2 DEF entry
<1>8. cache' \in [Processes -> Entry]
    BY <1>2, <1>3 DEF entry
<1>9. SharedInv'
    <2>1. /\ \A d \in Calls : calls[d].cl # i
          /\ \A p \in Processes : cache[p].cl # i
        BY <1>2
    <2> QED
        BY <1>1, <1>3, <1>4, <1>6, <1>7, <2>1 DEF CredInv, SharedInv
<1>10. RowKeepsUp'
    BY <1>1, <1>4, <1>5, HandKept DEF CredInv
<1>11. /\ calls' \in [Calls -> Call']
       /\ \A d \in Calls : Fits(calls[d])'
       /\ FreshInv'
    BY <1>1, <1>4, <1>5, OneCall DEF CredInv
<1>12. TypeOK' /\ ChainInv'
    BY <1>1, <1>8, <1>11 DEF CredInv, TypeOK, Entry, ChainInv, Issued
<1>13. StepInv'
    BY <1>1, <1>3, <1>7, <1>11 DEF CredInv, StepInv, Issued
<1> QED
    BY <1>9, <1>10, <1>11, <1>12, <1>13 DEF CredInv

-----------------------------------------------------------------------------
(* The steps of several calls.                                              *)

\* The new pair reaches the object, and with it every call and cache that
\* shares it.
LEMMA TakePairStep ==
    ASSUME CredInv, NEW c \in Calls, TakePair(c)
    PROVE  CredInv'
<1> USE EntryFacts, CallFacts
<1> DEFINE i == calls[c].cl
           u == calls[c].tok
           k == calls[c].pair
           b == [calls[c] EXCEPT !.tok = k]
           a == Resumed(b)
           Took(d) == [calls[d] EXCEPT !.tok = k]
<1>1. /\ calls[c].pc = "granted"
      /\ pairs' = pairs /\ row' = row
      /\ forgotten' = IF calls[c].orig = 0 THEN forgotten \union {k}
                                           ELSE forgotten
    BY DEF TakePair
<1>2. /\ i \in Clients /\ u \in Issued /\ k \in Issued
      /\ Unexpired(k) /\ k # calls[c].orig
      /\ pairs[u].heir = k
      /\ ~Unexpired(u)
    <2>1. /\ i \in Clients /\ u \in Issued /\ k \in Issued
          /\ Unexpired(k) /\ k # calls[c].orig
        BY <1>1 DEF Fits, Using, Fresh
    <2>2. pairs[u].heir = k
        BY <1>1 DEF CredInv, SharedInv
    <2>3. ~Unexpired(u)
        BY <2>1, <2>2 DEF CredInv, ChainInv, Unexpired, Issued
    <2> QED
        BY <2>1, <2>2, <2>3
<1>3. /\ a \in Call /\ Fits(a) /\ Fresh(a)
      /\ \/ a.cl = i /\ a.tok = k
         \/ a.cl = NoClient /\ a.tok = 0
      /\ a.pc \notin {"granted", "answer"}
      /\ calls[c].orig # 0 => k \in Hand(a)
    <2>1. /\ b \in Call /\ b.pc = "granted" /\ b.kind = calls[c].kind
          /\ b.cl = i /\ b.tok = k /\ b.orig = calls[c].orig
        BY <1>1, <1>2 DEF Call, Issued
    <2>2. /\ b.kind \in {"chat", "poll", "refresh"}
          /\ b.kind # "poll" => b.orig # 0
        BY <1>1, <2>1, AnswerFacts
    <2> HIDE DEF b
    <2> QED
        BY <1>2, <2>1, <2>2, ResumedFits
<1>4. \A d \in Calls : calls'[d] = IF d = c THEN a
                                   ELSE IF calls[d].cl = i THEN Took(d)
                                   ELSE calls[d]
    BY DEF TakePair
<1>5. ASSUME NEW d \in Calls, d # c, calls[d].cl = i
      PROVE  /\ calls[d].tok = u
             /\ calls[d].pc # "granted"
             /\ calls[d].pc # "idle"
             /\ Hand(calls[d]) = {}
    <2>1. calls[d].tok = u
        BY <1>5 DEF CredInv, SharedInv
    <2>2. calls[d].pc # "granted"
        <3>1. calls[d].pc = "granted" =>
                  /\ pairs[calls[d].tok].heir = calls[d].pair
                  /\ calls[d].pair # k
            BY <1>1, <1>5 DEF CredInv, SharedInv
        <3> QED
            BY <1>2, <2>1, <3>1
    <2>3. calls[d].pc # "idle"
        BY <1>2, <1>5, CredentialsAssumption DEF Fits, Rest
    <2>4. Hand(calls[d]) = {}
        BY <1>2, <2>1, <2>2 DEF Hand, Fresh
    <2> QED
        BY <2>1, <2>2, <2>3, <2>4
<1>6. ASSUME NEW d \in Calls, d # c, calls[d].cl = i
      PROVE  /\ Took(d) \in Call
             /\ Took(d).kind = calls[d].kind /\ Took(d).pc = calls[d].pc
             /\ Took(d).cl = i /\ Took(d).tok = k
             /\ Took(d).orig = calls[d].orig /\ Took(d).pair = calls[d].pair
    BY <1>2, <1>6 DEF Call, Issued
<1> HIDE DEF a, Took
<1>7. \A d \in Calls :
          calls'[d] \in Call /\ Fits(calls[d])' /\ Fresh(calls[d])'
    <2> SUFFICES ASSUME NEW d \in Calls
                 PROVE  calls'[d] \in Call /\ Fits(calls[d])'
                                           /\ Fresh(calls[d])'
        OBVIOUS
    <2>1. CASE d = c
        BY <1>1, <1>3, <1>4, <2>1 DEF Fits, Fresh, Unexpired, Issued
    <2>2. CASE d # c /\ calls[d].cl = i
        <3>1. calls'[d] = Took(d)
            BY <1>4, <2>2
        <3>2. Fits(calls[d])'
            BY <1>1, <1>2, <1>5, <1>6, <2>2, <3>1, CredentialsAssumption
               DEF Fits, Issued
        <3>3. Fresh(calls[d])'
            BY <1>1, <1>2, <1>5, <1>6, <2>2, <3>1 DEF Fresh, Unexpired, Issued
        <3> QED
            BY <1>6, <2>2, <3>1, <3>2, <3>3
    <2>3. CASE d # c /\ calls[d].cl # i
        BY <1>1, <1>4, <2>3 DEF Fits, Fresh, Unexpired, Issued
    <2> QED
        BY <2>1, <2>2, <2>3
<1>8. /\ cache' \in [Processes -> Entry]
      /\ \A p \in Processes :
            IF cache[p].cl = i THEN cache'[p].cl = i /\ cache'[p].tok = k
                               ELSE cache'[p] = cache[p]
    <2>1. cache' = [p \in Processes |->
                      IF cache[p].cl = i THEN [cl |-> i, tok |-> k]
                                         ELSE cache[p]]
        BY DEF TakePair
    <2>2. [cl |-> i, tok |-> k] \in Entry
        BY <1>2 DEF Entry, Issued
    <2> QED
        BY <2>1, <2>2
<1>9. TypeOK'
    <2>1. calls' \in [Calls -> Call]
        <3>1. calls' = [d \in Calls |-> calls'[d]]
            BY DEF TakePair
        <3> QED
            BY <1>7, <3>1
    <2>2. forgotten' \subseteq Issued
        BY <1>1, <1>2
    <2> QED
        BY <1>1, <1>8, <2>1, <2>2 DEF CredInv, TypeOK, Entry, Call, Issued
<1>10. ChainInv'
    BY <1>1 DEF CredInv, ChainInv, Issued
<1>11. StepInv'
    BY <1>1, <1>2, <1>7, <1>8 DEF CredInv, StepInv, Issued
<1>12. FreshInv'
    BY <1>7 DEF FreshInv
<1>13. SharedInv'
    <2>1. \A d \in Calls :
              \/ calls'[d].cl = i /\ calls'[d].tok = k
              \/ calls'[d].cl = NoClient /\ calls'[d].tok = 0
              \/ /\ calls'[d].cl = calls[d].cl /\ calls'[d].tok = calls[d].tok
                 /\ calls[d].cl # i
        BY <1>3, <1>4, <1>6
    <2>2. \A p \in Processes :
              \/ cache'[p].cl = i /\ cache'[p].tok = k
              \/ /\ cache'[p].cl = cache[p].cl /\ cache'[p].tok = cache[p].tok
                 /\ cache[p].cl # i
        BY <1>8
    <2>3. /\ \A d \in Calls : calls[d].cl = NoClient => calls[d].tok = 0
          /\ \A p \in Processes : cache[p].cl = NoClient => cache[p].tok = 0
          /\ i # NoClient
        BY <1>2, CredentialsAssumption DEF Fits, NoEntry
    <2>4. \A d, e \in Calls :
              calls'[d].cl = calls'[e].cl => calls'[d].tok = calls'[e].tok
        BY <2>1, <2>3 DEF CredInv, SharedInv
    <2>5. \A d \in Calls, p \in Processes :
              calls'[d].cl = cache'[p].cl => calls'[d].tok = cache'[p].tok
        BY <2>1, <2>2, <2>3 DEF CredInv, SharedInv
    <2>6. \A p, q \in Processes :
              cache'[p].cl = cache'[q].cl => cache'[p].tok = cache'[q].tok
        BY <2>2 DEF CredInv, SharedInv
    <2>7. \A d \in Calls : calls'[d].pc = "granted" =>
              d # c /\ calls'[d] = calls[d]
        BY <1>3, <1>4, <1>5, <1>6
    <2>8. \A d \in Calls : calls'[d].pc = "answer" =>
              \/ calls'[d].pair = calls'[d].tok
              \/ pairs'[calls'[d].pair].heir # 0
        <3> SUFFICES ASSUME NEW d \in Calls, calls'[d].pc = "answer"
                     PROVE  \/ calls'[d].pair = calls'[d].tok
                            \/ pairs[calls'[d].pair].heir # 0
            BY <1>1
        <3>1. d # c
            BY <1>3, <1>4
        <3>2. CASE calls[d].cl = i
            BY <1>2, <1>4, <1>5, <1>6, <3>1, <3>2 DEF Issued
        <3>3. CASE calls[d].cl # i
            BY <1>4, <3>1, <3>3
        <3> QED
            BY <3>2, <3>3
    <2>9. \A d \in Calls : calls'[d].pc = "granted" =>
              pairs'[calls'[d].tok].heir = calls'[d].pair
        BY <1>1, <2>7 DEF CredInv, SharedInv
    <2>10. \A d, e \in Calls :
              d # e /\ calls'[d].pc = "granted" /\ calls'[e].pc = "granted" =>
                  calls'[d].pair # calls'[e].pair
        BY <2>7 DEF CredInv, SharedInv
    <2> QED
        BY <2>4, <2>5, <2>6, <2>8, <2>9, <2>10 DEF SharedInv
<1>14. RowKeepsUp'
    <2>1. \A d \in Calls :
              Hand(calls[d]) \subseteq Hand(calls'[d]) \union forgotten'
        <3> SUFFICES ASSUME NEW d \in Calls
                     PROVE  Hand(calls[d]) \subseteq
                                Hand(calls'[d]) \union forgotten'
            OBVIOUS
        <3>1. CASE d = c
            <4>1. Hand(calls[c]) = {k}
                BY <1>1, <1>2 DEF Hand, Fresh
            <4> QED
                BY <1>1, <1>3, <1>4, <3>1, <4>1
        <3>2. CASE d # c /\ calls[d].cl = i
            BY <1>5, <3>2
        <3>3. CASE d # c /\ calls[d].cl # i
            BY <1>4, <3>3
        <3> QED
            BY <3>1, <3>2, <3>3
    <2>2. forgotten \subseteq forgotten'
        BY <1>1
    <2> QED
        BY <1>1, <2>1, <2>2 DEF CredInv, RowKeepsUp, Spent, Issued, Hand
<1> QED
    BY <1>9, <1>10, <1>11, <1>12, <1>13, <1>14 DEF CredInv

\* A process dies with its calls and its cache; what they had in hand is
\* written off.
LEMMA CrashStep ==
    ASSUME CredInv, NEW p \in Processes, Crash(p)
    PROVE  CredInv'
<1> USE EntryFacts, CallFacts, RestFits
<1> DEFINE here == {d \in Calls : At(calls[d].kind) = p}
<1>1. /\ pairs' = pairs /\ row' = row
      /\ cache' = [cache EXCEPT ![p] = NoEntry]
      /\ forgotten' = forgotten \union UNION {Hand(calls[d]) : d \in here}
      /\ calls' = [d \in Calls |-> IF d \in here THEN Rest ELSE calls[d]]
    BY DEF Crash
<1>2. \A d \in Calls : calls'[d] = IF d \in here THEN Rest ELSE calls[d]
    BY <1>1
<1>3. \A d \in here : Hand(calls[d]) \subseteq forgotten'
    BY <1>1
<1>4. \A d \in Calls : Hand(calls[d]) \subseteq Issued
    BY DEF Hand, Fits, Using, Fresh, Unexpired
<1>5. TypeOK'
    <2>1. calls' \in [Calls -> Call]
        BY <1>1
    <2>2. forgotten' \subseteq Issued
        BY <1>1, <1>4 DEF CredInv, TypeOK
    <2>3. cache' \in [Processes -> Entry]
        BY <1>1
    <2> QED
        BY <1>1, <2>1, <2>2, <2>3 DEF CredInv, TypeOK, Entry, Call, Issued
<1>6. ChainInv'
    BY <1>1 DEF CredInv, ChainInv, Issued
<1>7. \A d \in Calls : Fits(calls[d])' /\ Fresh(calls[d])'
    <2> SUFFICES ASSUME NEW d \in Calls
                 PROVE  Fits(calls[d])' /\ Fresh(calls[d])'
        OBVIOUS
    <2>1. CASE d \in here
        BY <1>1, <1>2, <2>1 DEF Fits, Fresh, Unexpired, Issued
    <2>2. CASE d \notin here
        BY <1>1, <1>2, <2>2 DEF Fits, Fresh, Unexpired, Issued
    <2> QED
        BY <2>1, <2>2
<1>8. StepInv'
    BY <1>1, <1>7 DEF CredInv, StepInv, Issued
<1>9. FreshInv'
    BY <1>7 DEF FreshInv
<1>10. SharedInv'
    <2>1. \A d \in Calls : calls[d].cl = NoClient => calls[d].tok = 0
        BY DEF Fits
    <2>2. NoEntry.cl = NoClient /\ NoEntry.tok = 0
        BY DEF NoEntry
    <2>3. \A q \in Processes : cache'[q] \in {cache[q], NoEntry}
        BY <1>1
    <2>4. \A d \in Calls : calls'[d] \in {calls[d], Rest}
        BY <1>2
    <2> QED
        BY <1>1, <2>1, <2>2, <2>3, <2>4 DEF CredInv, SharedInv
<1>11. RowKeepsUp'
    BY <1>1, <1>2, <1>3 DEF CredInv, RowKeepsUp, Spent, Issued, Hand
<1> QED
    BY <1>5, <1>6, <1>8, <1>9, <1>10, <1>11 DEF CredInv

-----------------------------------------------------------------------------
(* The theorems.                                                            *)

\* There is no connection, no call and no pair at the start.
LEMMA Initially == Init => CredInv
<1> SUFFICES ASSUME Init PROVE CredInv
    OBVIOUS
<1>1. /\ pairs = <<>> /\ Len(pairs) = 0 /\ pairs \in Seq(Pair)
      /\ Issued = {}
    BY DEF Init, Issued
<1>2. Rest \in Call /\ Rest.cl = NoClient /\ Rest.tok = 0 /\ Rest.pc = "idle"
    BY <1>1 DEF Rest, Call, Kind, Step
<1>3. Fits(Rest) /\ Fresh(Rest)
    BY CredentialsAssumption DEF Rest, Fits, Using, Fresh
<1>4. NoEntry \in Entry /\ NoEntry.cl = NoClient /\ NoEntry.tok = 0
    BY <1>1 DEF Entry, NoEntry
<1>5. /\ calls \in [Calls -> Call] /\ \A c \in Calls : calls[c] = Rest
      /\ cache \in [Processes -> Entry]
      /\ \A p \in Processes : cache[p] = NoEntry
      /\ row = [present |-> FALSE, pair |-> 0, invalid |-> "no"]
      /\ forgotten = {}
    BY <1>2, <1>4 DEF Init
<1>6. TypeOK
    BY <1>1, <1>5 DEF TypeOK, Entry
<1>7. ChainInv
    BY <1>1 DEF ChainInv
<1>8. StepInv
    BY <1>3, <1>5 DEF StepInv
<1>9. FreshInv
    BY <1>3, <1>5 DEF FreshInv
<1>10. SharedInv
    BY <1>2, <1>4, <1>5 DEF SharedInv
<1>11. RowKeepsUp
    BY <1>5 DEF RowKeepsUp
<1> QED
    BY <1>6, <1>7, <1>8, <1>9, <1>10, <1>11 DEF CredInv

LEMMA StartCallStep ==
    ASSUME CredInv, NEW c \in Calls, StartCall(c)
    PROVE  CredInv'
<1>1. ASSUME NEW kind \in {"chat", "poll", "refresh"}, Start(c, kind)
      PROVE  CredInv'
    BY <1>1, StartStep
<1>2. CASE StartSession(c)
    BY <1>2, StartSessionStep
<1>3. ASSUME NEW withPair \in BOOLEAN, StartLogin(c, withPair)
      PROVE  CredInv'
    BY <1>3, StartLoginStep
<1> QED
    BY <1>1, <1>2, <1>3 DEF StartCall

LEMMA CallStep ==
    ASSUME CredInv, NEW c \in Calls, CallNext(c)
    PROVE  CredInv'
<1> USE CredInv
<1>1. CASE ReadRow(c)      BY <1>1, ReadRowStep
<1>2. CASE BuildClient(c)  BY <1>2, BuildClientStep
<1>3. CASE SendRefresh(c)  BY <1>3, SendRefreshStep
<1>4. CASE Grant(c)        BY <1>4, GrantStep
<1>5. CASE TakePair(c)     BY <1>5, TakePairStep
<1>6. CASE Refuse(c)       BY <1>6, RefuseStep
<1>7. CASE NetworkFails(c) BY <1>7, NetworkFailsStep
<1>8. CASE NoteToken(c)    BY <1>8, NoteTokenStep
<1>9. CASE Finish(c)       BY <1>9, FinishStep
<1>10. CASE Persist(c)      BY <1>10, PersistStep
<1>11. CASE PersistFails(c) BY <1>11, PersistFailsStep
<1>12. CASE Mark(c)         BY <1>12, MarkStep
<1>13. CASE StoreLogin(c)   BY <1>13, StoreLoginStep
<1>14. CASE ResetCaches(c)  BY <1>14, ResetCachesStep
<1> QED
    BY <1>1, <1>2, <1>3, <1>4, <1>5, <1>6, <1>7, <1>8, <1>9, <1>10, <1>11,
       <1>12, <1>13, <1>14 DEF CallNext

LEMMA NextStep ==
    ASSUME CredInv, [Next]_vars
    PROVE  CredInv'
<1>1. ASSUME NEW c \in Calls, StartCall(c) PROVE CredInv'
    BY <1>1, StartCallStep
<1>2. ASSUME NEW c \in Calls, CallNext(c) PROVE CredInv'
    BY <1>2, CallStep
<1>3. ASSUME NEW p \in Processes, CacheExpires(p) PROVE CredInv'
    BY <1>3, CacheExpiresStep
<1>4. ASSUME NEW p \in Processes, Crash(p) PROVE CredInv'
    BY <1>4, CrashStep
<1>5. ASSUME NEW k \in Issued, Expire(k) PROVE CredInv'
    BY <1>5, ExpireStep
<1>6. CASE Disconnect
    BY <1>6, DisconnectStep
<1>7. CASE UNCHANGED vars
    <2>1. /\ pairs' = pairs /\ row' = row /\ cache' = cache
          /\ calls' = calls /\ forgotten' = forgotten
        BY <1>7 DEF vars
    <2>2. Issued' = Issued /\ Call' = Call
        BY <2>1 DEF Issued, Call
    <2>3. TypeOK'
        BY <2>1, <2>2 DEF CredInv, TypeOK
    <2>4. ChainInv'
        BY <2>1, <2>2 DEF CredInv, ChainInv
    <2>5. StepInv'
        BY <2>1, <2>2 DEF CredInv, StepInv, Fits
    <2>6. FreshInv'
        BY <2>1, <2>2 DEF CredInv, FreshInv, Fresh, Unexpired
    <2>7. SharedInv'
        BY <2>1 DEF CredInv, SharedInv
    <2>8. RowKeepsUp'
        BY <2>1, <2>2 DEF CredInv, RowKeepsUp, Spent, Hand
    <2> QED
        BY <2>3, <2>4, <2>5, <2>6, <2>7, <2>8 DEF CredInv
<1> QED
    BY <1>1, <1>2, <1>3, <1>4, <1>5, <1>6, <1>7 DEF Next

\* Whatever calls, logins, crashes and lost answers come together, the pairs,
\* the clients, their caches and the row fit together as CredInv says.
THEOREM Invariance == Spec => []CredInv
<1> QED
    BY Initially, NextStep, PTL DEF Spec

\* Every variable keeps its type.
THEOREM TypeCorrect == Spec => []TypeOK
<1>1. CredInv => TypeOK
    BY DEF CredInv
<1> QED
    BY <1>1, Invariance, PTL

\* While the row holds a spent refresh token, some running call holds the pair
\* that replaced it and will write it, or that pair was lost in a crash, a
\* lost answer, a failed write, or by the poll noting its token too late.
THEOREM RowCaughtUp == Spec => []RowKeepsUp
<1>1. CredInv => RowKeepsUp
    BY DEF CredInv
<1> QED
    BY <1>1, Invariance, PTL

\* Within one login no writer puts an earlier pair over a later one: whatever
\* is written over the pair of a row is unexpired, and of the pairs of one
\* login only the last is.
THEOREM RowMovesForward == Spec => NeverBack
<1> DEFINE Forward ==
        row.pair \in Issued /\ row'.pair \in Issued
            /\ pairs[row'.pair].login = pairs[row.pair].login
        => row'.pair >= row.pair
<1>1. ASSUME CredInv, Next, row' # row
      PROVE  Forward
    <2>1. ASSUME Unexpired(row'.pair)
          PROVE  Forward
        BY <1>1, <2>1 DEF CredInv, ChainInv, Unexpired, Issued
    <2>2. ASSUME row'.pair \in {0, row.pair}
          PROVE  Forward
        BY <1>1, <2>2 DEF CredInv, TypeOK, Issued
    <2> HIDE DEF Forward
    <2>3. ASSUME NEW c \in Calls, StartCall(c) PROVE Forward
        BY <1>1, <2>3 DEF StartCall, Start, StartSession, StartLogin
    <2>4. ASSUME NEW c \in Calls, CallNext(c) PROVE Forward
        <3>1. Persist(c) \/ Mark(c) \/ StoreLogin(c)
            BY <1>1, <2>4 DEF CallNext, ReadRow, BuildClient, SendRefresh,
                Grant, TakePair, Refuse, NetworkFails, NoteToken, Finish,
                PersistFails, ResetCaches
        <3>2. row.present \in BOOLEAN /\ Fresh(calls[c])
            BY <1>1, CallFacts DEF CredInv, TypeOK
        <3>3. row \in Row
            BY <1>1 DEF CredInv, TypeOK, Row
        <3>4. CASE Persist(c)
            <4>1. row'.pair = calls[c].tok /\ Unexpired(calls[c].tok)
                BY <1>1, <3>2, <3>3, <3>4 DEF Persist, Fresh, Row
            <4> QED
                BY <2>1, <4>1
        <3>5. CASE Mark(c)
            <4>1. row'.pair = row.pair
                BY <1>1, <3>3, <3>5 DEF Mark, Row
            <4> QED
                BY <2>2, <4>1
        <3>6. CASE StoreLogin(c)
            <4>1. row'.pair = row.pair \/ Unexpired(row'.pair)
                BY <3>2, <3>6 DEF StoreLogin, Fresh
            <4> QED
                BY <2>1, <2>2, <4>1
        <3> QED
            BY <3>1, <3>4, <3>5, <3>6
    <2>5. ASSUME NEW p \in Processes, CacheExpires(p) \/ Crash(p)
          PROVE  Forward
        BY <1>1, <2>5 DEF CacheExpires, Crash
    <2>6. ASSUME NEW k \in Issued, Expire(k) PROVE Forward
        BY <1>1, <2>6 DEF Expire
    <2>7. CASE Disconnect
        BY <2>2, <2>7 DEF Disconnect
    <2> QED
        BY <1>1, <2>3, <2>4, <2>5, <2>6, <2>7 DEF Next
<1>2. CredInv /\ [Next]_vars => [Forward]_row
    BY <1>1 DEF vars
<1> QED
    BY <1>2, Invariance, PTL DEF Spec, NeverBack
=============================================================================
