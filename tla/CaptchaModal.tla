---------------------------- MODULE CaptchaModal ----------------------------
(***************************************************************************)
(* The window of the web client that asks the user to solve hh's captcha   *)
(* (src/frontend/src/components/captcha-modal.tsx), the handlers it calls  *)
(* (backend api/captcha.py, services/captcha.py), and the pause of the     *)
(* worker that owns the captcha's browser (worker/runner.py).              *)
(*                                                                         *)
(* The window reads the newest open captcha once, then subscribes to the   *)
(* table's changes, which arrive in order.  Pictures and the answers to    *)
(* requests arrive in any order.  The dashboard's banner, which reads      *)
(* items of an answer that is a bare list, never shows, so nothing opens   *)
(* the window by hand.                                                     *)
(***************************************************************************)
EXTENDS Naturals, Sequences, FiniteSets, FiniteSetsExt

CONSTANTS
    Captchas,       \* captcha_requests rows: numbers, in the order they are raised
    MaxPicture,     \* screenshots made of one captcha (bound)
    MaxCaptchaPosts, \* solve and dismiss requests (bound)
    MaxCaptchaFailures       \* uploads, reads and requests that fail (bound)

ASSUME CaptchaAssumption ==
    /\ Captchas \subseteq Nat \ {0}
    /\ MaxPicture \in Nat /\ MaxCaptchaPosts \in Nat /\ MaxCaptchaFailures \in Nat

VARIABLES
    captcha,        \* captcha[c]: "absent", "open" or "solved"
    storagePath,    \* storagePath[c]: the number of the screenshot stored, 0 for none
    solution,       \* the rows that hold a solution
    paused,         \* the worker's state is paused_captcha
    browser,        \* its captcha browser: "closed", "open" or "submitting"
    requestId,      \* the row the pause works on, 0 for none
    feed,           \* the table's changes on their way to the subscription
    firstRead,      \* the first read: "asked", "read", then "done" and subscribed
    loaded,         \* the row it read
    pending,        \* the row the window shows, as it knows it
    imageUrl,       \* the picture it shows
    incoming,       \* the pictures on their way
    typed,          \* the answer field is not empty
    captchaPosts,   \* captchaPosts[i]: what the i-th request is and where it is
    captchaFailures \* counter of the bound

captchaRows == <<captcha, storagePath, solution>>
pauseVars == <<paused, browser, requestId>>
modalVars == <<firstRead, loaded, pending, imageUrl, incoming, typed>>
captchaVars == <<captchaRows, pauseVars, feed, modalVars, captchaPosts, captchaFailures>>

NoRow == [id |-> 0, path |-> 0]
RowOf(c) == [id |-> c, path |-> storagePath[c]]
CaptchaRow == [id : Captchas, path : 0..MaxPicture] \cup {NoRow}

CaptchaTypeOK ==
    /\ captcha \in [Captchas -> {"absent", "open", "solved"}]
    /\ storagePath \in [Captchas -> 0..MaxPicture] /\ solution \in SUBSET Captchas
    /\ paused \in BOOLEAN /\ browser \in {"closed", "open", "submitting"}
    /\ requestId \in Captchas \cup {0}
    /\ feed \in Seq([row : CaptchaRow, event : {"insert", "update", "solved"}])
    /\ firstRead \in {"asked", "read", "done"} /\ loaded \in CaptchaRow
    /\ pending \in CaptchaRow /\ imageUrl \in CaptchaRow /\ incoming \in SUBSET CaptchaRow
    /\ typed \in BOOLEAN
    /\ captchaPosts \in [1..MaxCaptchaPosts -> {"none", "solve", "dismiss", "solved", "done"}]
    /\ captchaFailures \in 0..MaxCaptchaFailures

CaptchaInit ==
    /\ captcha = [c \in Captchas |-> "absent"]
    /\ storagePath = [c \in Captchas |-> 0] /\ solution = {}
    /\ paused = FALSE /\ browser = "closed" /\ requestId = 0
    /\ feed = <<>> /\ firstRead = "asked" /\ loaded = NoRow
    /\ pending = NoRow /\ imageUrl = NoRow /\ incoming = {} /\ typed = FALSE
    /\ captchaPosts = [i \in 1..MaxCaptchaPosts |-> "none"]
    /\ captchaFailures = 0

\* get_pending, the newest first.
GetPending == {c \in Captchas : captcha[c] = "open"}
Newest == IF GetPending = {} THEN 0 ELSE Max(GetPending)

\* Realtime: changes made before the channel is joined are not delivered.
Publish(changes) == feed' = IF firstRead = "done" THEN feed \o changes ELSE feed

CaptchaFails == captchaFailures < MaxCaptchaFailures /\ captchaFailures' = captchaFailures + 1

-----------------------------------------------------------------------------
(* The worker *)

\* create_request, then the pause: what the captcha's link gave is stored as a
\* picture if it could be fetched.
CreateRequest(c) ==
    /\ ~paused /\ captcha[c] = "absent" /\ \A d \in Captchas : d < c => captcha[d] # "absent"
    /\ paused' = TRUE
    /\ captcha' = [captcha EXCEPT ![c] = "open"]
    /\ \E path \in {0, 1} \cap 0..MaxPicture :
         /\ storagePath' = [storagePath EXCEPT ![c] = path]
         /\ Publish(<<[row |-> [id |-> c, path |-> path], event |-> "insert"]>>)
    /\ UNCHANGED <<solution, browser, requestId, modalVars, captchaPosts, captchaFailures>>

\* attach_screenshot, or its upload failed.
AttachScreenshot(c) ==
    IF c = 0 THEN UNCHANGED <<storagePath, feed, captchaFailures>>
    ELSE \/ /\ storagePath[c] < MaxPicture
            /\ storagePath' = [storagePath EXCEPT ![c] = @ + 1]
            /\ Publish(<<[row |-> [id |-> c, path |-> storagePath[c] + 1],
                          event |-> IF captcha[c] = "open" THEN "update" ELSE "solved"]>>)
            /\ UNCHANGED captchaFailures
         \/ CaptchaFails /\ UNCHANGED <<storagePath, feed>>

\* mark_solved takes every open row of the user.
MarkSolved ==
    /\ captcha' = [c \in Captchas |-> IF captcha[c] = "open" THEN "solved" ELSE captcha[c]]
    /\ Publish([i \in 1..Cardinality(GetPending) |->
                  LET c == CHOOSE x \in GetPending :
                             Cardinality({y \in GetPending : y <= x}) = i
                  IN [row |-> RowOf(c), event |-> "solved"]])

\* _resume_from_captcha
ResumeFromCaptcha ==
    /\ paused' = FALSE /\ browser' = "closed"
    /\ MarkSolved

\* open_for: the captcha is there, or it is gone.
OpenFor ==
    /\ paused /\ browser = "closed"
    /\ requestId' = Newest
    /\ \/ AttachScreenshot(Newest) /\ browser' = "open" /\ UNCHANGED <<captcha, paused>>
       \/ ResumeFromCaptcha /\ UNCHANGED <<storagePath, captchaFailures>>
    /\ UNCHANGED <<solution, modalVars, captchaPosts>>

\* get_solution found one: clear_solution, then submit_for ...
TakeSolution ==
    /\ browser = "open" /\ requestId \in solution
    /\ solution' = solution \ {requestId}
    /\ browser' = "submitting"
    /\ UNCHANGED <<captcha, storagePath, paused, requestId, feed, modalVars, captchaPosts, captchaFailures>>

\* ... which hh takes, or answers with another captcha.
SubmitFor ==
    /\ browser = "submitting"
    /\ \/ AttachScreenshot(requestId) /\ browser' = "open" /\ UNCHANGED <<captcha, paused>>
       \/ ResumeFromCaptcha /\ UNCHANGED <<storagePath, captchaFailures>>
    /\ UNCHANGED <<solution, requestId, modalVars, captchaPosts>>

\* No answer for the idle timeout; it is opened again.
IdleTimeout ==
    /\ browser = "open" /\ requestId \notin solution
    /\ browser' = "closed"
    /\ UNCHANGED <<captchaRows, paused, requestId, feed, modalVars, captchaPosts, captchaFailures>>

\* The worker is switched off, or its token died, and on again: the rows stay.
WorkerRestarted ==
    /\ paused
    /\ paused' = FALSE /\ browser' = "closed" /\ requestId' = 0
    /\ UNCHANGED <<captchaRows, feed, modalVars, captchaPosts, captchaFailures>>

-----------------------------------------------------------------------------
(* The window *)

\* refreshImage: without a path there is nothing to fetch.
RefreshImage(row) ==
    IF row.path = 0 THEN imageUrl' = NoRow /\ UNCHANGED incoming
    ELSE incoming' = incoming \cup {row} /\ UNCHANGED imageUrl

LoadPending ==
    /\ firstRead = "asked"
    /\ firstRead' = "read"
    /\ loaded' = IF Newest = 0 THEN NoRow ELSE RowOf(Newest)
    /\ UNCHANGED <<captchaRows, pauseVars, feed, pending, imageUrl, incoming, typed, captchaPosts, captchaFailures>>

\* The row is shown, then the channel is joined; an error only joins it.
Subscribe ==
    /\ firstRead = "read"
    /\ firstRead' = "done"
    /\ \/ pending' = loaded /\ RefreshImage(loaded) /\ UNCHANGED captchaFailures
       \/ CaptchaFails /\ UNCHANGED <<pending, imageUrl, incoming>>
    /\ UNCHANGED <<captchaRows, pauseVars, feed, loaded, typed, captchaPosts>>

\* Mutant: the handler of UPDATE ignores that the row was solved.
ChangeCameSolvedIgnored ==
    /\ feed # <<>>
    /\ feed' = Tail(feed)
    /\ LET change == Head(feed) IN
       CASE change.event = "insert" -> pending' = change.row /\ RefreshImage(change.row)
         [] change.event # "insert" /\ pending.id = change.row.id ->
              pending' = change.row /\ UNCHANGED <<imageUrl, incoming>>
         [] OTHER -> UNCHANGED <<pending, imageUrl, incoming>>
    /\ UNCHANGED <<captchaRows, pauseVars, firstRead, loaded, typed, captchaPosts, captchaFailures>>

\* An INSERT is shown in any case; an UPDATE only reaches the row shown, and
\* its picture is not fetched again.
ChangeCame ==
    /\ feed # <<>>
    /\ feed' = Tail(feed)
    /\ LET change == Head(feed) IN
       CASE change.event = "insert" -> pending' = change.row /\ RefreshImage(change.row)
         [] change.event = "solved" /\ pending.id = change.row.id ->
              pending' = NoRow /\ imageUrl' = NoRow /\ UNCHANGED incoming
         [] change.event = "update" /\ pending.id = change.row.id ->
              pending' = change.row /\ UNCHANGED <<imageUrl, incoming>>
         [] OTHER -> UNCHANGED <<pending, imageUrl, incoming>>
    /\ UNCHANGED <<captchaRows, pauseVars, firstRead, loaded, typed, captchaPosts, captchaFailures>>

PictureCame(row) ==
    /\ incoming' = incoming \ {row}
    /\ \/ imageUrl' = row /\ UNCHANGED captchaFailures
       \/ imageUrl' = NoRow /\ CaptchaFails
    /\ UNCHANGED <<captchaRows, pauseVars, feed, firstRead, loaded, pending, typed, captchaPosts>>

\* The controls of the open window: the field, "отправить", and two to close.
CaptchaWindow ==
    IF pending = NoRow THEN {}
    ELSE {"type", "dismiss"} \cup (IF typed THEN {"solve"} ELSE {})

TypeAnswer ==
    /\ "type" \in CaptchaWindow /\ ~typed
    /\ typed' = TRUE
    /\ UNCHANGED <<captchaRows, pauseVars, feed, firstRead, loaded, pending, imageUrl, incoming, captchaPosts, captchaFailures>>

PostCaptcha(i, op) ==
    /\ captchaPosts[i] = "none" /\ \A j \in 1..MaxCaptchaPosts : j < i => captchaPosts[j] # "none"
    /\ captchaPosts' = [captchaPosts EXCEPT ![i] = op]

HandleSolve(i) ==
    /\ "solve" \in CaptchaWindow
    /\ PostCaptcha(i, "solve")
    /\ UNCHANGED <<captchaRows, pauseVars, feed, modalVars, captchaFailures>>

HandleDismiss(i) ==
    /\ "dismiss" \in CaptchaWindow
    /\ PostCaptcha(i, "dismiss")
    /\ pending' = NoRow /\ imageUrl' = NoRow /\ typed' = FALSE
    /\ UNCHANGED <<captchaRows, pauseVars, feed, firstRead, loaded, incoming, captchaFailures>>

\* The id in the request is not used: a solution goes to every open row.
SolveServed(i) ==
    /\ captchaPosts[i] = "solve"
    /\ \/ /\ solution' = solution \cup GetPending
          /\ captchaPosts' = [captchaPosts EXCEPT ![i] = "solved"]
          /\ UNCHANGED captchaFailures
       \/ /\ CaptchaFails
          /\ captchaPosts' = [captchaPosts EXCEPT ![i] = "done"]
          /\ UNCHANGED solution
    /\ UNCHANGED <<captcha, storagePath, pauseVars, feed, modalVars>>

SolveAnswered(i) ==
    /\ captchaPosts[i] = "solved"
    /\ captchaPosts' = [captchaPosts EXCEPT ![i] = "done"]
    /\ typed' = FALSE
    /\ UNCHANGED <<captchaRows, pauseVars, feed, firstRead, loaded, pending, imageUrl, incoming, captchaFailures>>

DismissServed(i) ==
    /\ captchaPosts[i] = "dismiss"
    /\ captchaPosts' = [captchaPosts EXCEPT ![i] = "done"]
    /\ \/ MarkSolved /\ UNCHANGED captchaFailures
       \/ CaptchaFails /\ UNCHANGED <<captcha, feed>>
    /\ UNCHANGED <<storagePath, solution, pauseVars, modalVars>>

CaptchaNext ==
    \/ \E c \in Captchas : CreateRequest(c)
    \/ OpenFor \/ TakeSolution \/ SubmitFor \/ IdleTimeout \/ WorkerRestarted
    \/ LoadPending \/ Subscribe \/ ChangeCame \/ TypeAnswer
    \/ \E row \in incoming : PictureCame(row)
    \/ \E i \in 1..MaxCaptchaPosts : \/ HandleSolve(i) \/ HandleDismiss(i) \/ SolveServed(i)
                                 \/ SolveAnswered(i) \/ DismissServed(i)

CaptchaSpec == CaptchaInit /\ [][CaptchaNext]_captchaVars

-----------------------------------------------------------------------------
(* Properties *)

\* The window is about the newest open captcha, or none: once every change has
\* come it shows no captcha that was solved, dismissed or followed by another,
\* except the one it read before it subscribed.
WindowIsCurrent ==
    (firstRead = "done" /\ feed = <<>>) => pending.id \in {0, Newest, loaded.id}

\* The window shows the screenshot the worker attached: when every change and
\* every picture has come, the picture shown is the one the row holds.
PictureIsCurrent ==
    (firstRead = "done" /\ feed = <<>> /\ incoming = {} /\ pending.path # 0) => imageUrl = pending
=============================================================================
