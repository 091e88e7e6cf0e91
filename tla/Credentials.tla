---------------------------- MODULE Credentials ----------------------------
(****************************************************************************)
(* The hh OAuth pair of one user: an access token and the refresh token     *)
(* that replaces it.  hh takes a refresh token once, and only after its     *)
(* access token has expired (the comment in OAuthClient).  The pair is      *)
(* kept in three places that nothing keeps equal: hh, the row of            *)
(* hh_credentials, and the client objects of the API process and of the     *)
(* worker, each with its own cache.                                         *)
(*                                                                          *)
(* A pair is numbered in the order of issue.  Timing: a pair lives for two  *)
(* weeks, a cached client for 60 s and a call for minutes, so the user has  *)
(* a quiet moment in the life of every pair; that is where it expires.      *)
(* Only a refresh looks at the expiry, so that to let a pair expire at the  *)
(* last quiet moment instead of later takes no behaviour away.              *)
(****************************************************************************)
EXTENDS Integers, Sequences

CONSTANTS
    Calls,          \* the calls under way at the same time, in both processes
    Clients,        \* bound: identities of the ApiClient objects in use
    NoClient,       \* no object
    Faults,         \* crashes, lost answers and failed writes happen
    MaxPairs        \* bound: pairs hh issues

ASSUME CredentialsAssumption ==
    /\ NoClient \notin Clients
    /\ Faults \in BOOLEAN
    /\ MaxPairs \in Nat

VARIABLES
    pairs,          \* hh: the pairs issued; heir 0: its refresh token is unused
    row,            \* hh_credentials; pair 0: a cookies-only connection
    cache,          \* _clients of each process: an object and the pair in it
    calls,          \* the calls: the next statement, the object each holds,
                    \* the pair in it, the pair noted at the start
    forgotten       \* history: pairs that no call is bound to write any more

vars == <<pairs, row, cache, calls, forgotten>>

-----------------------------------------------------------------------------
Processes == {"api", "worker"}

\* What a call is: a request of the chats API or a draft being sent ("chat"),
\* a round of the recruiter poll, refresh_user, a login job, or an apply that
\* found the web session dead.
Kind == {"none", "chat", "poll", "refresh", "login", "session"}

Step == {"idle", "row", "build", "states", "request", "refresh", "answer",
         "granted", "persist", "mark", "store", "reset"}

At(kind) == IF kind \in {"poll", "session"} THEN "worker" ELSE "api"

NoEntry == [cl |-> NoClient, tok |-> 0]

\* A call without a client, and a call that goes on with the one it has.
Bare(kind, step, k) ==
    [kind |-> kind, pc |-> step, cl |-> NoClient, tok |-> 0, orig |-> 0,
     pair |-> k]

On(a, step, noted, k) ==
    [kind |-> a.kind, pc |-> step, cl |-> a.cl, tok |-> a.tok, orig |-> noted,
     pair |-> k]

Rest == Bare("none", "idle", 0)

Issued == 1..Len(pairs)

Spent(k) == k \in Issued /\ pairs[k].heir # 0

Init ==
    /\ pairs = <<>>
    /\ row = [present |-> FALSE, pair |-> 0, invalid |-> "no"]
    /\ cache = [p \in Processes |-> NoEntry]
    /\ calls = [c \in Calls |-> Rest]
    /\ forgotten = {}

Become(c, call) == calls' = [calls EXCEPT ![c] = call]

Goto(c, step) == Become(c, On(calls[c], step, calls[c].orig, calls[c].pair))

-----------------------------------------------------------------------------
(* load_api_client.                                                         *)

\* The statements after load_api_client: refresh_user and the chats API note
\* the access token at once, the poll first asks for the negotiation states.
FirstStep == [chat |-> "request", refresh |-> "refresh", poll |-> "states"]

Loaded(kind, entry) ==
    [kind |-> kind, pc |-> FirstStep[kind], cl |-> entry.cl, tok |-> entry.tok,
     orig |-> IF kind = "poll" THEN 0 ELSE entry.tok, pair |-> 0]

Start(c, kind) ==
    /\ calls[c].pc = "idle"
    /\ LET entry == cache[At(kind)]
       IN  Become(c, IF entry = NoEntry
                     THEN Bare(kind, "row", 0)
                     ELSE Loaded(kind, entry))
    /\ UNCHANGED <<pairs, row, cache, forgotten>>

\* An absent, invalid or cookies-only row raises: the call is over, a poll
\* goes on without a client.
ReadRow(c) ==
    /\ calls[c].pc = "row"
    /\ Become(c, IF row.present /\ row.invalid = "no" /\ row.pair # 0
                 THEN Bare(calls[c].kind, "build", row.pair)
                 ELSE Rest)
    /\ UNCHANGED <<pairs, row, cache, forgotten>>

\* The new client goes into the cache whatever was dropped since the read.
BuildClient(c) ==
    /\ calls[c].pc = "build"
    /\ \E i \in Clients :
          LET kind  == calls[c].kind
              entry == [cl |-> i, tok |-> calls[c].pair]
          IN  /\ \A d \in Calls : calls[d].cl # i
              /\ \A p \in Processes : cache[p].cl # i
              /\ cache' = [cache EXCEPT ![At(kind)] = entry]
              /\ Become(c, Loaded(kind, entry))
    /\ UNCHANGED <<pairs, row, forgotten>>

\* An entry is ignored after _CLIENT_TTL_S.
CacheExpires(p) ==
    /\ cache[p] # NoEntry
    /\ cache' = [cache EXCEPT ![p] = NoEntry]
    /\ UNCHANGED <<pairs, row, calls, forgotten>>

-----------------------------------------------------------------------------
(* Requests to hh, and the refresh inside them.                             *)

\* persist_if_refreshed compares the client's token with the one noted.
Ended(call) ==
    IF call.tok # call.orig THEN On(call, "persist", call.orig, 0) ELSE Rest

\* After its request a chat call is over; a poll goes on.
Resumed(call) ==
    IF call.kind = "poll"
    THEN On(call, IF call.orig = 0 THEN "states" ELSE "request", call.orig, 0)
    ELSE Ended(call)

\* A 403 on an expired access token: request() refreshes before it retries.
\* refresh_user refreshes without looking at the expiry.
SendRefresh(c) ==
    /\ \/ calls[c].pc \in {"states", "request"} /\ pairs[calls[c].tok].expired
       \/ calls[c].pc = "refresh"
    /\ Become(c, On(calls[c], "answer", calls[c].orig, calls[c].tok))
    /\ UNCHANGED <<pairs, row, cache, forgotten>>

\* hh takes the refresh token and issues the next pair.
Grant(c) ==
    /\ calls[c].pc = "answer"
    /\ Len(pairs) < MaxPairs
    /\ LET k == calls[c].pair
           n == Len(pairs) + 1
       IN  /\ pairs[k].expired
           /\ ~Spent(k)
           /\ pairs' = Append([pairs EXCEPT ![k].heir = n],
                              [expired |-> FALSE, heir |-> 0,
                               login |-> pairs[k].login])
           /\ Become(c, On(calls[c], "granted", calls[c].orig, n))
    /\ UNCHANGED <<row, cache, forgotten>>

\* handle_access_token.  What the poll takes before it has noted the access
\* token, it will take for the token it started with.
TakePair(c) ==
    /\ calls[c].pc = "granted"
    /\ LET i == calls[c].cl
           k == calls[c].pair
       IN  /\ calls' = [d \in Calls |->
                  IF d = c THEN Resumed([calls[c] EXCEPT !.tok = k])
                  ELSE IF calls[d].cl = i THEN [calls[d] EXCEPT !.tok = k]
                  ELSE calls[d]]
           /\ cache' = [p \in Processes |->
                  IF cache[p].cl = i THEN [cl |-> i, tok |-> k] ELSE cache[p]]
           /\ forgotten' = IF calls[c].orig = 0 THEN forgotten \union {k}
                                                ELSE forgotten
    /\ UNCHANGED <<pairs, row>>

\* Any error status is a BadResponse: a spent or unexpired token, but also
\* 429, 5xx or an undecodable body.  refresh_user marks the row invalid.
Refuse(c) ==
    /\ calls[c].pc = "answer"
    /\ IF calls[c].kind = "refresh"
       THEN /\ Goto(c, "mark")
            /\ cache' = [cache EXCEPT !["api"] = NoEntry]
       ELSE /\ Become(c, Resumed(calls[c]))
            /\ UNCHANGED cache
    /\ UNCHANGED <<pairs, row, forgotten>>

\* RequestException, before hh has seen the token or after it has answered.
NetworkFails(c) ==
    /\ \/ calls[c].pc = "answer" /\ UNCHANGED forgotten
       \/ /\ calls[c].pc = "granted"
          /\ Faults
          /\ forgotten' = forgotten \union {calls[c].pair}
    /\ Become(c, IF calls[c].kind = "refresh" THEN Rest
                 ELSE Resumed(calls[c]))
    /\ UNCHANGED <<pairs, row, cache>>

\* The poll notes the access token only now.
NoteToken(c) ==
    /\ calls[c].pc = "states"
    /\ Become(c, On(calls[c], "request", calls[c].tok, 0))
    /\ UNCHANGED <<pairs, row, cache, forgotten>>

\* The finally clause of a call whose request needed no refresh of its own.
Finish(c) ==
    /\ calls[c].pc = "request"
    /\ Become(c, Ended(calls[c]))
    /\ UNCHANGED <<pairs, row, cache, forgotten>>

-----------------------------------------------------------------------------
(* Writes to the row.                                                       *)

PersistAlways(c) ==    \* mutant
    /\ calls[c].pc \in {"persist", "request"}
    /\ row' = IF row.present THEN [row EXCEPT !.pair = calls[c].tok] ELSE row
    /\ Become(c, Rest)
    /\ UNCHANGED <<pairs, cache, forgotten>>

PersistIfValid(c) ==    \* mutant
    /\ calls[c].pc = "persist"
    /\ row' = IF row.present /\ row.invalid = "no"
              THEN [row EXCEPT !.pair = calls[c].tok] ELSE row
    /\ Become(c, Rest)
    /\ UNCHANGED <<pairs, cache, forgotten>>

\* _persist_refreshed updates the token columns, and nothing else.
Persist(c) ==
    /\ calls[c].pc = "persist"
    /\ row' = IF row.present THEN [row EXCEPT !.pair = calls[c].tok] ELSE row
    /\ Become(c, Rest)
    /\ UNCHANGED <<pairs, cache, forgotten>>

PersistFails(c) ==
    /\ Faults
    /\ calls[c].pc = "persist"
    /\ forgotten' = forgotten \union {calls[c].tok}
    /\ Become(c, Rest)
    /\ UNCHANGED <<pairs, row, cache>>

\* apply_one gives up on the web session: mark_invalid drops the client of
\* its own process first.
StartSession(c) ==
    /\ calls[c].pc = "idle"
    /\ Become(c, Bare("session", "mark", 0))
    /\ cache' = [cache EXCEPT !["worker"] = NoEntry]
    /\ UNCHANGED <<pairs, row, forgotten>>

MarkWrongWord(c) ==    \* mutant
    /\ calls[c].pc = "mark"
    /\ row' = [row EXCEPT !.invalid = "none"]
    /\ Become(c, Rest)
    /\ UNCHANGED <<pairs, cache, forgotten>>

\* _mark_invalid_sync, whatever the row holds by now.
Mark(c) ==
    /\ calls[c].pc = "mark"
    /\ row' = IF row.present THEN [row EXCEPT !.invalid = calls[c].kind]
                             ELSE row
    /\ Become(c, Rest)
    /\ UNCHANGED <<pairs, cache, forgotten>>

\* A login job after the browser: with a code that hh exchanges for a pair, or
\* with cookies only.  _admit lets one job of the user run.
StartLogin(c, withPair) ==
    /\ calls[c].pc = "idle"
    /\ \A d \in Calls : calls[d].kind # "login"
    /\ withPair => Len(pairs) < MaxPairs
    /\ LET n == Len(pairs) + 1
       IN  /\ pairs' = IF withPair
                       THEN Append(pairs, [expired |-> FALSE, heir |-> 0,
                                           login |-> n])
                       ELSE pairs
           /\ Become(c, Bare("login", "store", IF withPair THEN n ELSE 0))
    /\ UNCHANGED <<row, cache, forgotten>>

\* _persist_credentials, or _persist_web_session_only: the latter leaves the
\* token columns alone.
StoreLogin(c) ==
    /\ calls[c].pc = "store"
    /\ row' = [present |-> TRUE,
               pair |-> IF calls[c].pair = 0 THEN row.pair ELSE calls[c].pair,
               invalid |-> "no"]
    /\ Goto(c, "reset")
    /\ UNCHANGED <<pairs, cache, forgotten>>

\* _reset_caches, in the API process only.
ResetCaches(c) ==
    /\ calls[c].pc = "reset"
    /\ cache' = [cache EXCEPT !["api"] = NoEntry]
    /\ Become(c, Rest)
    /\ UNCHANGED <<pairs, row, forgotten>>

\* The handler runs on the event loop and awaits nothing.
Disconnect ==
    /\ row.present
    /\ row' = [present |-> FALSE, pair |-> 0, invalid |-> "no"]
    /\ cache' = [cache EXCEPT !["api"] = NoEntry]
    /\ UNCHANGED <<pairs, calls, forgotten>>

-----------------------------------------------------------------------------
(* The environment.                                                         *)

\* The access token of pair k expires: see the timing above.
Expire(k) ==
    /\ ~pairs[k].expired
    /\ \A c \in Calls : calls[c].pc = "idle"
    /\ \A p \in Processes : cache[p] = NoEntry
    /\ pairs' = [pairs EXCEPT ![k].expired = TRUE]
    /\ UNCHANGED <<row, cache, calls, forgotten>>

\* The pairs that a call is bound to write, or to take and then write.
Hand(a) ==
    (IF a.pc = "granted" THEN {a.pair} ELSE {})
    \union
    (IF \/ a.pc = "persist"
        \/ /\ a.kind \in {"chat", "poll"}
           /\ a.pc \in {"request", "answer", "granted"}
           /\ a.orig \notin {0, a.tok}
     THEN {a.tok} ELSE {})

Crash(p) ==
    /\ Faults
    /\ LET here == {c \in Calls : At(calls[c].kind) = p}
       IN  /\ calls' = [c \in Calls |-> IF c \in here THEN Rest ELSE calls[c]]
           /\ forgotten' = forgotten \union UNION {Hand(calls[c]) : c \in here}
    /\ cache' = [cache EXCEPT ![p] = NoEntry]
    /\ UNCHANGED <<pairs, row>>

-----------------------------------------------------------------------------
StartCall(c) ==
    \/ \E kind \in {"chat", "poll", "refresh"} : Start(c, kind)
    \/ StartSession(c)
    \/ \E withPair \in BOOLEAN : StartLogin(c, withPair)

CallNext(c) ==
    \/ ReadRow(c) \/ BuildClient(c) \/ SendRefresh(c) \/ Grant(c)
    \/ TakePair(c) \/ Refuse(c) \/ NetworkFails(c) \/ NoteToken(c)
    \/ Finish(c) \/ Persist(c) \/ PersistFails(c) \/ Mark(c)
    \/ StoreLogin(c) \/ ResetCaches(c)

Next ==
    \/ \E c \in Calls : StartCall(c) \/ CallNext(c)
    \/ \E p \in Processes : CacheExpires(p) \/ Crash(p)
    \/ \E k \in Issued : Expire(k)
    \/ Disconnect

Spec == Init /\ [][Next]_vars

-----------------------------------------------------------------------------
(* Properties.                                                              *)

Pair == [expired : BOOLEAN, heir : Nat, login : Nat]

Call == [kind : Kind, pc : Step, cl : Clients \union {NoClient},
         tok : 0..Len(pairs), orig : 0..Len(pairs), pair : 0..Len(pairs)]

TypeOK ==
    /\ pairs \in Seq(Pair)
    /\ row \in [present : BOOLEAN, pair : 0..Len(pairs),
                invalid : {"no", "refresh", "session"}]
    /\ cache \in [Processes -> [cl : Clients \union {NoClient},
                                tok : 0..Len(pairs)]]
    /\ calls \in [Calls -> Call]
    /\ forgotten \subseteq Issued

\* A row whose refresh token is spent is about to be brought up to date: some
\* running call holds the pair that replaced it and will write it.  Only a
\* crash, a lost answer, a failed write or the poll's early request loses it.
RowKeepsUp ==
    row.present /\ Spent(row.pair) =>
        LET k == pairs[row.pair].heir
        IN  k \in forgotten \/ \E c \in Calls : k \in Hand(calls[c])

\* Within one login the row never goes back to an earlier pair, whichever of
\* the calls sharing or copying a client is the last to write.
NeverBack ==
    [][row.pair \in Issued /\ row'.pair \in Issued
         /\ pairs[row'.pair].login = pairs[row.pair].login
       => row'.pair >= row.pair]_row

\* "Persists tokens if ApiClient auto-refreshes" (load_api_client): without
\* faults a spent row always has its replacement in a running call's hands.
RefreshIsPersisted ==
    row.present /\ Spent(row.pair) =>
        \E c \in Calls : pairs[row.pair].heir \in Hand(calls[c])

\* "hh rejection (token dead)" (refresh_user): a row invalidated by a refresh
\* holds a pair that hh has already replaced.  (Does not hold: any error status
\* counts as a rejection.)
InvalidatedIsDead ==
    row.present /\ row.invalid = "refresh" => Spent(row.pair)

-----------------------------------------------------------------------------
(* The inductive invariant behind the safety properties.                    *)

\* The pairs of one login are a chain: all but its last are spent, and hh
\* spends a pair only after its access token has expired.
ChainInv ==
    /\ \A k \in Issued :
          /\ pairs[k].login \in 1..k
          /\ pairs[k].heir # 0 => pairs[k].expired
    /\ \A k, m \in Issued :
          k < m /\ pairs[k].login = pairs[m].login => pairs[k].heir # 0

\* The steps at which a call uses its client.
Using == {"states", "request", "refresh", "answer", "granted", "persist"}

\* What a call holds is fit for the statement it is about to execute.
Fits(a) ==
    /\ a.pc = "idle" => a = Rest
    /\ a.cl = NoClient => a.tok = 0
    /\ a.pc \in {"row", "build"} \union Using =>
          a.kind \in {"chat", "poll", "refresh"}
    /\ a.pc = "mark" => a.kind \in {"refresh", "session"}
    /\ a.pc = "states" => a.kind = "poll"
    /\ a.pc = "request" => a.kind # "refresh"
    /\ a.pc \in Using => a.cl \in Clients /\ a.tok \in Issued
    /\ a.pc \in {"request", "refresh", "persist"} => a.orig # 0
    /\ a.pc \in {"answer", "granted"} =>
          a.pair \in Issued /\ (a.kind # "poll" => a.orig # 0)
    /\ a.pc = "build" => a.pair \in Issued

StepInv ==
    /\ \A c \in Calls : Fits(calls[c])
    /\ \A p \in Processes : cache[p] # NoEntry =>
          cache[p].cl \in Clients /\ cache[p].tok \in Issued
    /\ ~row.present => row.pair = 0

\* A pair that hh has issued and would not replace yet.
Unexpired(k) == k \in Issued /\ ~pairs[k].expired

\* A token that replaced the one a call noted, a pair on its way to a client
\* and the pair of a login are unexpired: nothing expires under a call.
Fresh(a) ==
    /\ a.pc = "persist" \/ a.orig \notin {0, a.tok} => Unexpired(a.tok)
    /\ a.pc = "granted" => Unexpired(a.pair) /\ a.pair # a.orig
    /\ a.pc = "store" /\ a.pair # 0 => Unexpired(a.pair)

FreshInv == \A c \in Calls : Fresh(calls[c])

\* All holders of a client object see the same token, and while a replacement
\* is under way to one of them the object keeps the token being replaced.
SharedInv ==
    /\ \A c, d \in Calls :
          calls[c].cl = calls[d].cl => calls[c].tok = calls[d].tok
    /\ \A c \in Calls, p \in Processes :
          calls[c].cl = cache[p].cl => calls[c].tok = cache[p].tok
    /\ \A p, q \in Processes :
          cache[p].cl = cache[q].cl => cache[p].tok = cache[q].tok
    /\ \A c \in Calls : LET a == calls[c] IN
          /\ a.pc = "granted" => pairs[a.tok].heir = a.pair
          /\ a.pc = "answer" => a.pair = a.tok \/ pairs[a.pair].heir # 0
    /\ \A c, d \in Calls :
          c # d /\ calls[c].pc = "granted" /\ calls[d].pc = "granted" =>
              calls[c].pair # calls[d].pair

CredInv ==
    /\ TypeOK
    /\ ChainInv
    /\ StepInv
    /\ FreshInv
    /\ SharedInv
    /\ RowKeepsUp
=============================================================================
