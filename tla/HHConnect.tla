----------------------------- MODULE HHConnect -----------------------------
(***************************************************************************)
(* Connecting an hh account from the web client: the login jobs of the     *)
(* backend as their endpoints show them (services/hh_auth.py, api/auth.py) *)
(* and the page that starts one and follows it                             *)
(* (src/frontend/src/hooks/useHHConnect.ts, app/onboarding/page.tsx).      *)
(*                                                                         *)
(* The page polls on a 2 s timer that does not wait for answers, so        *)
(* several polls can be under way and be answered in any order, also after *)
(* the timer was stopped.                                                  *)
(***************************************************************************)
EXTENDS Naturals, FiniteSets

CONSTANTS
    LoginJobs,      \* login jobs the backend may start, numbered in that order
    MaxPolls        \* polls under way at once (bound)

ASSUME HHConnectAssumption ==
    /\ LoginJobs \subseteq Nat \ {0}
    /\ MaxPolls \in Nat \ {0}

VARIABLES
    jobs,           \* jobs[j]: the status of login job j, "none" before it starts
    answers,        \* answers[j]: the kinds of answer queued for job j
    connected,      \* the user's hh credentials are stored
    phase,          \* the page's phase
    jobId,          \* the job it follows, 0 for none
    timer,          \* the job its poll timer asks about, 0 when stopped
    polls,          \* polls under way: asked, or answered by the backend
    posting,        \* the request that "submitting" stands for
    loginMethod,    \* the tab of the form
    hhStatus,       \* what the page knows of the connection
    checking,       \* "statusLoading": a status check is under way
    leaving,        \* "disconnect" is under way
    gone            \* the page was left

connectVars == <<jobs, answers, connected, phase, jobId, timer, polls, posting, loginMethod,
                 hhStatus, checking, leaving, gone>>

serverVars == <<jobs, answers, connected>>
hookVars == <<phase, jobId, timer, polls, posting>>
pageVars == <<loginMethod, hhStatus, checking, leaving, gone>>

Asking == {"captcha_required", "code_required"}
Ended == {"success", "failed"}
JobStatus == {"running"} \cup Asking \cup Ended
Live(j) == jobs[j] \in {"running"} \cup Asking
NoPost == [kind |-> "none", job |-> 0]

ConnectTypeOK ==
    /\ jobs \in [LoginJobs -> {"none", "lost"} \cup JobStatus]
    /\ answers \in [LoginJobs -> SUBSET Asking]
    /\ connected \in BOOLEAN
    /\ phase \in {"idle"} \cup JobStatus
    /\ jobId \in {0} \cup LoginJobs
    /\ timer \in {0} \cup LoginJobs
    /\ polls \in SUBSET [job : LoginJobs, status : {"asked", "error"} \cup JobStatus]
    /\ posting \in [kind : {"none", "start"} \cup Asking, job : {0} \cup LoginJobs]
    /\ loginMethod \in {"password", "email_code"}
    /\ hhStatus \in {"unknown", "connected", "disconnected"}
    /\ checking \in BOOLEAN
    /\ leaving \in BOOLEAN
    /\ gone \in BOOLEAN

ConnectInit ==
    /\ jobs = [j \in LoginJobs |-> "none"]
    /\ answers = [j \in LoginJobs |-> {}]
    /\ connected \in BOOLEAN
    /\ phase = "idle"
    /\ jobId = 0 /\ timer = 0
    /\ polls = {}
    /\ posting = NoPost
    /\ loginMethod = "password"
    /\ hhStatus = "unknown"
    /\ checking = TRUE
    /\ leaving = FALSE
    /\ gone = FALSE

-----------------------------------------------------------------------------
(* The login jobs *)

\* A job asks for the text of a captcha, or for the code hh mailed.
JobAsks(j) ==
    /\ jobs[j] = "running"
    /\ \E s \in Asking : jobs' = [jobs EXCEPT ![j] = s]
    /\ UNCHANGED <<answers, connected, hookVars, pageVars>>

\* It takes an answer from the queue of what it asked for - one that is there
\* already, too - and goes on.
JobTakesAnswer(j) ==
    /\ jobs[j] \in answers[j]
    /\ answers' = [answers EXCEPT ![j] = @ \ {jobs[j]}]
    /\ jobs' = [jobs EXCEPT ![j] = "running"]
    /\ UNCHANGED <<connected, hookVars, pageVars>>

\* It ends: the connection stored, the browser gave up, or the answer it
\* waited for timed out.
JobEnds(j) ==
    /\ Live(j)
    /\ \/ /\ jobs[j] = "running"
          /\ jobs' = [jobs EXCEPT ![j] = "success"]
          /\ connected' = TRUE
       \/ /\ jobs' = [jobs EXCEPT ![j] = "failed"]
          /\ UNCHANGED connected
    /\ UNCHANGED <<answers, hookVars, pageVars>>

\* The API process restarts and forgets every job.
ForgetJobs ==
    /\ \E j \in LoginJobs : jobs[j] \in JobStatus
    /\ jobs' = [j \in LoginJobs |-> IF jobs[j] \in JobStatus THEN "lost" ELSE jobs[j]]
    /\ UNCHANGED <<answers, connected, hookVars, pageVars>>

-----------------------------------------------------------------------------
(* useHHConnect *)

\* The interval fires: another poll, whether or not the last was answered - on
\* a page that was left, too, when a request was answered after it.
PollTick ==
    /\ timer # 0
    /\ Cardinality(polls) < MaxPolls
    /\ polls' = polls \cup {[job |-> timer, status |-> "asked"]}
    /\ UNCHANGED <<serverVars, phase, jobId, timer, posting, pageVars>>

\* connect_status: the job's status, 404 when the job is not known.
PollServed(p) ==
    /\ p.status = "asked"
    /\ polls' = (polls \ {p}) \cup
                  {[p EXCEPT !.status = IF jobs[p.job] \in JobStatus THEN jobs[p.job]
                                                                      ELSE "error"]}
    /\ UNCHANGED <<serverVars, phase, jobId, timer, posting, pageVars>>

\* External: a poll or its answer is lost.
PollLost(p) ==
    /\ p.status # "error"
    /\ polls' = (polls \ {p}) \cup {[p EXCEPT !.status = "error"]}
    /\ UNCHANGED <<serverVars, phase, jobId, timer, posting, pageVars>>

\* Mutant: polling stops while the user is asked.
PollAnsweredStops(p) ==
    /\ p.status # "asked"
    /\ polls' = polls \ {p}
    /\ phase' = IF p.status = "error" THEN "failed" ELSE p.status
    /\ timer' = IF phase' = "running" THEN timer ELSE 0
    /\ UNCHANGED <<serverVars, jobId, posting, pageVars>>

\* Mutant: no catch.
PollAnsweredUncaught(p) ==
    /\ p.status # "asked"
    /\ polls' = polls \ {p}
    /\ phase' = p.status
    /\ timer' = IF phase' \in Ended THEN 0 ELSE timer
    /\ UNCHANGED <<serverVars, jobId, posting, pageVars>>

\* What the page makes of an answer, whichever poll it belongs to.
PollAnswered(p) ==
    /\ p.status # "asked"
    /\ polls' = polls \ {p}
    /\ phase' = IF p.status = "error" THEN "failed" ELSE p.status
    /\ timer' = IF phase' \in Ended THEN 0 ELSE timer
    /\ UNCHANGED <<serverVars, jobId, posting, pageVars>>

\* start and startEmailCode: one request at a time.
Start ==
    /\ posting = NoPost
    /\ posting' = [kind |-> "start", job |-> 0]
    /\ UNCHANGED <<serverVars, phase, jobId, timer, polls, pageVars>>

\* The backend starts a job unless this user has one running; the page follows
\* it.  A refusal or a lost request is a failure.
StartAnswered ==
    /\ posting.kind = "start"
    /\ posting' = NoPost
    /\ \/ \E j \in LoginJobs :
            /\ jobs[j] = "none" /\ \A k \in LoginJobs : k < j => jobs[k] # "none"
            /\ \A k \in LoginJobs : ~Live(k)
            /\ jobs' = [jobs EXCEPT ![j] = "running"]
            /\ phase' = "running"
            /\ jobId' = j
            /\ timer' = j
       \/ /\ phase' = "failed"
          /\ UNCHANGED <<jobs, jobId, timer>>
    /\ UNCHANGED <<answers, connected, polls, pageVars>>

\* submitCaptcha and submitEmailCode, for the job followed.
SubmitAnswer(kind) ==
    /\ posting = NoPost
    /\ jobId # 0
    /\ posting' = [kind |-> kind, job |-> jobId]
    /\ UNCHANGED <<serverVars, phase, jobId, timer, polls, pageVars>>

\* Queued only while the job waits for just that; the page then believes the
\* job runs and starts the timer anew.
SubmitAnswered ==
    /\ posting.kind \in Asking
    /\ posting' = NoPost
    /\ \/ /\ jobs[posting.job] = posting.kind
          /\ answers' = [answers EXCEPT ![posting.job] = @ \cup {posting.kind}]
          /\ phase' = "running"
          /\ timer' = posting.job
       \/ UNCHANGED <<answers, phase, timer>>
    /\ UNCHANGED <<jobs, connected, jobId, polls, pageVars>>

\* reset: the timer stops, answers already under way do not.
Reset ==
    /\ phase' = "idle"
    /\ jobId' = 0
    /\ timer' = 0

-----------------------------------------------------------------------------
(* OnboardingPage *)

\* What the page offers: the connected panel, the form, or the phase's panel.
OnboardingPage ==
    IF gone THEN {}
    ELSE (IF ~checking /\ hhStatus = "connected" /\ phase # "success" /\ ~leaving
          THEN {"disconnect"} ELSE {})
    \cup (IF ~checking /\ hhStatus # "connected" /\ phase = "idle"
          THEN {"method", "start"} ELSE {})
    \cup (CASE phase \in Asking -> {phase}
            [] phase = "failed" -> {"reset"}
            [] OTHER -> {})

\* loadStatus, at mount and after a disconnect.
HHStatusAnswered ==
    /\ checking
    /\ checking' = FALSE
    /\ \/ hhStatus' = IF connected THEN "connected" ELSE "disconnected"
       \/ UNCHANGED hhStatus
    /\ UNCHANGED <<serverVars, hookVars, loginMethod, leaving, gone>>

\* "отключить": the credentials go, then reset and a new status check (one
\* disconnect at a time, a bound).
Disconnect ==
    /\ "disconnect" \in OnboardingPage
    /\ leaving' = TRUE
    /\ UNCHANGED <<serverVars, hookVars, loginMethod, hhStatus, checking, gone>>

DisconnectAnswered ==
    /\ leaving
    /\ leaving' = FALSE
    /\ \/ /\ connected' = FALSE
          /\ checking' = TRUE
          /\ Reset
          /\ UNCHANGED <<jobs, answers, polls, posting>>
       \/ UNCHANGED <<serverVars, hookVars, checking>>
    /\ UNCHANGED <<loginMethod, hhStatus, gone>>

ChooseMethod ==
    /\ "method" \in OnboardingPage
    /\ loginMethod' = IF loginMethod = "password" THEN "email_code" ELSE "password"
    /\ UNCHANGED <<serverVars, hookVars, hhStatus, checking, leaving, gone>>

SubmitForm == "start" \in OnboardingPage /\ Start

SubmitPanel == \E kind \in Asking : kind \in OnboardingPage /\ SubmitAnswer(kind)

TryAgain ==
    /\ "reset" \in OnboardingPage
    /\ Reset
    /\ UNCHANGED <<serverVars, polls, posting, pageVars>>

\* The dashboard opens: 1.5 s after a success, or when the user skips the page.
OpenDashboard ==
    /\ ~gone
    /\ gone' = TRUE
    /\ timer' = 0
    /\ UNCHANGED <<serverVars, phase, jobId, polls, posting, loginMethod, hhStatus,
                   checking, leaving>>

ConnectUser ==
    \/ Disconnect \/ ChooseMethod \/ SubmitForm \/ SubmitPanel \/ TryAgain

ConnectNext ==
    \/ ConnectUser
    \/ OpenDashboard \/ HHStatusAnswered \/ DisconnectAnswered
    \/ PollTick \/ StartAnswered \/ SubmitAnswered
    \/ \E p \in polls : PollServed(p) \/ PollLost(p) \/ PollAnswered(p)
    \/ \E j \in LoginJobs : JobAsks(j) \/ JobTakesAnswer(j) \/ JobEnds(j)
    \/ ForgetJobs

\* The interval keeps firing, and polls come to be answered.
ConnectFairness ==
    /\ WF_connectVars(PollTick)
    /\ WF_connectVars(\E p \in polls : PollServed(p))
    /\ WF_connectVars(\E p \in polls : PollAnswered(p))

ConnectSpec == ConnectInit /\ [][ConnectNext]_connectVars /\ ConnectFairness

-----------------------------------------------------------------------------
(* Properties *)

\* A page that still asks about a job when the job ends - by success, by
\* failure, or forgotten in a restart - comes to show an end, unless the user
\* turns to another job or leaves: stale answers do not stop the asking before.
JobEndIsShown ==
    \A j \in LoginJobs :
        (timer = j /\ ~Live(j)) ~> (phase \in Ended \/ jobId # j \/ gone)
=============================================================================
