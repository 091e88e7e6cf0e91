----------------------------- MODULE ExtSession -----------------------------
(***************************************************************************)
(* The extension's own copy of the user's session (src/ext/lib/auth.ts,    *)
(* lib/session-sync.ts, entrypoints/otclick-sync.content.ts, the session   *)
(* messages of entrypoints/background.ts): adopted from the web            *)
(* application's cookie, refreshed before a request that needs it, and     *)
(* removed by a sign-out.  The background handles messages of all tabs at  *)
(* once; storage is read and written between awaits.                       *)
(*                                                                         *)
(* A pair of tokens is <<sign-in, generation>>: refreshing spends a pair   *)
(* and issues the next generation.  The authentication service is external.*)
(***************************************************************************)
EXTENDS Naturals, FiniteSets

CONSTANTS
    SignIns,        \* sign-ins on the web site, each a family of tokens
    MaxGeneration,  \* refreshes of one family (bound)
    BackgroundCalls \* messages the background can have in hand at once

ASSUME ExtSessionAssumption == MaxGeneration \in Nat

VARIABLES
    stored,         \* the tokens in the extension's storage, and the e-mail's sign-in
    cookie,         \* the web application's session cookie
    issued,         \* issued[f]: the newest generation of family f
    expiring,       \* the pairs whose access token is about to expire
    calls,          \* calls[c]: what the background does for message c
    used,           \* the pairs requests to the API went out with
    signedOut,      \* history: signed out, and nothing pushed by a page since
    late            \* history: calls were under way at that sign-out

sessionVars == <<stored, cookie, issued, expiring, calls, used, signedOut, late>>

Pairs == SignIns \X (0..MaxGeneration)
NoTokens == [pair |-> <<>>, email |-> {}]
Idle == [step |-> "idle", pair |-> <<>>]

SessionTypeOK ==
    /\ stored \in [pair : Pairs \cup {<<>>}, email : SUBSET SignIns]
    /\ cookie \in Pairs \cup {<<>>}
    /\ issued \in [SignIns -> 0..MaxGeneration]
    /\ expiring \in SUBSET Pairs
    /\ calls \in [BackgroundCalls ->
                    [step : {"idle", "refresh", "store", "verify"}, pair : Pairs \cup {<<>>}]]
    /\ used \in SUBSET Pairs
    /\ signedOut \in BOOLEAN /\ late \in BOOLEAN

SessionInit ==
    /\ stored = NoTokens
    /\ cookie = <<>>
    /\ issued = [f \in SignIns |-> 0]
    /\ expiring = {}
    /\ calls = [c \in BackgroundCalls |-> Idle]
    /\ used = {}
    /\ signedOut = FALSE /\ late = FALSE

Take(c, step, pair) == calls' = [calls EXCEPT ![c] = [step |-> step, pair |-> pair]]
Drop(c) == calls' = [calls EXCEPT ![c] = Idle]

\* isExpiringSoon: within a minute of its end, or not readable.
IsExpiringSoon(p) == p \in expiring

-----------------------------------------------------------------------------
(* lib/auth.ts *)

PersistSession(p, email) == stored' = [pair |-> p, email |-> email]

\* Mutant: only the e-mail is removed.
SignOutEmailOnly == stored' = [stored EXCEPT !.email = {}]

\* signOut removes all three keys at once.
SignOutStorage == stored' = NoTokens

\* getValidJwt, for AUTH_STATUS and every request: a token that will do is
\* used at once, one about to expire is refreshed first.
GetValidJwt(c) ==
    /\ calls[c].step = "idle"
    /\ stored.pair # <<>>
    /\ IF IsExpiringSoon(stored.pair)
       THEN Take(c, "refresh", stored.pair) /\ UNCHANGED used
       ELSE used' = used \cup {stored.pair} /\ UNCHANGED calls
    /\ UNCHANGED <<stored, cookie, issued, expiring, signedOut, late>>

\* External: the newest pair of a family is refreshed; a spent one is answered
\* with the newest for a few seconds, and then refused.
Refreshed(p, q) ==
    \/ /\ p[2] = issued[p[1]] /\ issued[p[1]] < MaxGeneration
       /\ q = <<p[1], p[2] + 1>>
       /\ issued' = [issued EXCEPT ![p[1]] = @ + 1]
    \/ /\ p[2] < issued[p[1]]
       /\ q = <<p[1], issued[p[1]]>>
       /\ UNCHANGED issued

\* setSession answered: the new pair, or no session - then the extension signs
\* itself out, whatever it holds by now.
RefreshAnswered(c) ==
    /\ calls[c].step = "refresh"
    /\ \/ /\ \E q \in Pairs : Refreshed(calls[c].pair, q) /\ Take(c, "store", q)
          /\ UNCHANGED stored
       \/ /\ SignOutStorage
          /\ Drop(c)
          /\ UNCHANGED issued
    /\ UNCHANGED <<cookie, expiring, used, signedOut, late>>

\* The e-mail is read again and the new pair stored beside it.
StoreRefreshed(c) ==
    /\ calls[c].step = "store"
    /\ PersistSession(calls[c].pair, stored.email)
    /\ used' = used \cup {calls[c].pair}
    /\ Drop(c)
    /\ UNCHANGED <<cookie, issued, expiring, signedOut, late>>

-----------------------------------------------------------------------------
(* Adoption *)

\* readSupabaseSession: the cookie, reassembled; no cookie, no push.
ReadSupabaseSession == cookie

\* syncSession, on every page load and once more 1.5 s later: the background
\* compares the access token and verifies another one.
AdoptSession(c) ==
    /\ calls[c].step = "idle"
    /\ ReadSupabaseSession # <<>>
    /\ stored.pair # ReadSupabaseSession
    /\ Take(c, "verify", ReadSupabaseSession)
    /\ signedOut' = FALSE
    /\ UNCHANGED <<stored, cookie, issued, expiring, used, late>>

\* persistExternalSession: an access token about to expire makes setSession
\* refresh the pair - but what is stored is the pair that was handed over.
PersistExternalSession(c) ==
    LET p == calls[c].pair IN
    /\ calls[c].step = "verify"
    /\ \/ /\ \/ ~IsExpiringSoon(p) /\ UNCHANGED issued
             \/ IsExpiringSoon(p) /\ \E q \in Pairs : Refreshed(p, q)
          /\ PersistSession(p, {p[1]})
       \/ UNCHANGED <<stored, issued>>
    /\ Drop(c)
    /\ UNCHANGED <<cookie, expiring, used, signedOut, late>>

\* SIGN_OUT.
SignOut ==
    /\ SignOutStorage
    /\ signedOut' = TRUE
    /\ late' = \E c \in BackgroundCalls : calls[c].step # "idle"
    /\ UNCHANGED <<cookie, issued, expiring, calls, used>>

-----------------------------------------------------------------------------
(* External: the web application and time *)

WebSignIn(f) ==
    /\ cookie = <<>> /\ issued[f] = 0
    /\ cookie' = <<f, 0>>
    /\ UNCHANGED <<stored, issued, expiring, calls, used, signedOut, late>>

WebSignOut ==
    /\ cookie # <<>>
    /\ cookie' = <<>>
    /\ UNCHANGED <<stored, issued, expiring, calls, used, signedOut, late>>

WebRefresh ==
    /\ cookie # <<>>
    /\ \E q \in Pairs : Refreshed(cookie, q) /\ cookie' = q
    /\ UNCHANGED <<stored, expiring, calls, used, signedOut, late>>

Age(p) ==
    /\ p[2] <= issued[p[1]]
    /\ p \notin expiring
    /\ expiring' = expiring \cup {p}
    /\ UNCHANGED <<stored, cookie, issued, calls, used, signedOut, late>>

SessionNext ==
    \/ \E c \in BackgroundCalls :
         GetValidJwt(c) \/ RefreshAnswered(c) \/ StoreRefreshed(c)
         \/ AdoptSession(c) \/ PersistExternalSession(c)
    \/ SignOut
    \/ \E f \in SignIns : WebSignIn(f)
    \/ WebSignOut \/ WebRefresh
    \/ \E p \in Pairs : Age(p)

SessionSpec == SessionInit /\ [][SessionNext]_sessionVars

-----------------------------------------------------------------------------
(* Properties *)

\* After a sign-out the extension stays without a session until a page pushes
\* one; only a call that was already under way can bring the old one back.
SignOutHolds == signedOut /\ stored.pair # <<>> => late
=============================================================================
