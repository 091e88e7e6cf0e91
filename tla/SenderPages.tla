---------------------------- MODULE SenderPages ----------------------------
(***************************************************************************)
(* The pages of the web client that run the search and the sending: the    *)
(* manual search (src/frontend/src/app/(app)/vacancies/run/page.tsx), the  *)
(* sender's control and its problems (sender-control.tsx,                  *)
(* send/send-problems.tsx) and the bulk queue (bulk/page.tsx).             *)
(*                                                                         *)
(* Each page polls or loads on its own and nothing orders its answers; the *)
(* search, the sender and other tabs go on meanwhile.  An effect runs some *)
(* time after the render it belongs to.                                    *)
(***************************************************************************)
EXTENDS Naturals, FiniteSets, Sequences, SequencesExt

CONSTANTS
    Jobs,           \* vacancies with a letter, as sendable or as send problems
    MaxRuns,        \* search runs started, here or elsewhere (bound)
    MaxRunPolls,    \* calls of one kind under way (bound)
    MaxLost,        \* answers lost on the way (bound)
    MaxClicks       \* requests the user makes (bound)

ASSUME SenderPagesAssumption ==
    /\ MaxRuns \in Nat /\ MaxRunPolls \in Nat \ {0} /\ MaxLost \in Nat /\ MaxClicks \in Nat

Active == {"queued", "discovery", "scoring"}
FINAL == {"completed", "completed_with_errors", "failed"}
Desired == {"paused", "running", "stop_after_current"}
Intervals == {"ten", "five", "malformed"}

VARIABLES
    path,           \* the page that is open
    searches,       \* searches[r]: the status of search run r
    control,        \* the sender's control row
    sendJobs,       \* sendJobs[j]: the vacancy's or its send job's status
    calls,          \* requests under way
    clicks, lost,   \* counters of the bounds
    run,            \* run page: the run shown, number 0 for none
    effect,         \* run page: the run the polling effect stands for
    starting,       \* run page: "starting"
    shownControl,   \* control page: the state shown
    intervalValue,  \* control page: the interval field
    busy,           \* control or bulk page: "busy"
    shownJobs,      \* problems or bulk page: the rows shown
    chosen          \* bulk page: the rows ticked; problems: the row waiting

senderServerVars == <<searches, control, sendJobs>>
runVars == <<run, effect, starting>>
sendVars == <<shownControl, intervalValue, busy, shownJobs, chosen>>
senderVars == <<path, senderServerVars, calls, clicks, lost, runVars, sendVars>>

NoRun == [id |-> 0, status |-> "none"]
RunShown == [id : 0..MaxRuns, status : Active \cup FINAL \cup {"none"}]
Control == [desired : Desired \cup {"none"}, interval : Intervals]
NoControl == [desired |-> "none", interval |-> "ten"]

\* live: its effect has not been cleaned up.
Call == [op : {"poll", "runNow", "loadControl", "configure", "resume", "pause", "stop_after_current",
               "loadJobs", "reset", "queueSelected"},
         jobs : SUBSET Jobs, interval : Intervals, live : BOOLEAN, stage : {"asked", "ok", "error"},
         run : RunShown, control : Control, rows : SUBSET Jobs]

SenderPagesTypeOK ==
    /\ path \in {"run", "send", "bulk"}
    /\ searches \in Seq(Active \cup FINAL) /\ Len(searches) <= MaxRuns
    /\ control \in [desired : Desired, interval : Intervals \ {"malformed"}]
    /\ sendJobs \in [Jobs -> {"approved", "queued", "failed", "archived"}]
    /\ \A i \in DOMAIN calls : calls[i] \in Call
    /\ clicks \in 0..MaxClicks /\ lost \in 0..MaxLost
    /\ run \in RunShown /\ effect \in RunShown /\ starting \in BOOLEAN
    /\ shownControl \in Control /\ intervalValue \in Intervals /\ busy \in BOOLEAN
    /\ shownJobs \in SUBSET Jobs /\ chosen \in SUBSET Jobs

NewCall(op, js, interval) ==
    [op |-> op, jobs |-> js, interval |-> interval, live |-> TRUE, stage |-> "asked",
     run |-> NoRun, control |-> NoControl, rows |-> {}]
PlainCall(op) == NewCall(op, {}, "ten")
UnderWay(op) == Cardinality({i \in DOMAIN calls : calls[i].op = op /\ calls[i].live})

SenderPagesInit ==
    /\ path \in {"run", "send", "bulk"}
    /\ searches = <<>>
    /\ control = [desired |-> "paused", interval |-> "ten"]
    /\ sendJobs = [j \in Jobs |-> IF path = "bulk" THEN "approved" ELSE "failed"]
    /\ calls = CASE path = "run" -> <<>>
                 [] path = "send" -> <<PlainCall("loadControl"), PlainCall("loadJobs")>>
                 [] path = "bulk" -> <<PlainCall("loadJobs")>>
    /\ clicks = 0 /\ lost = 0
    /\ run = NoRun /\ effect = NoRun /\ starting = FALSE
    /\ shownControl = NoControl /\ intervalValue = "ten" /\ busy = FALSE
    /\ shownJobs = {} /\ chosen = {}

-----------------------------------------------------------------------------
(* What the pages offer *)

RunOffers ==
    IF starting \/ run.status \in Active THEN {} ELSE {"runNow"}

\* Nothing before the first state.
ControlOffers ==
    IF shownControl.desired = "none" THEN {}
    ELSE {"type"} \cup
         (IF busy THEN {}
          ELSE {"configure"} \cup (IF shownControl.desired = "running" THEN {} ELSE {"resume"})
                 \cup (IF shownControl.desired = "paused" THEN {} ELSE {"pause", "stop_after_current"}))

\* Only the last row clicked waits.
ProblemOffers(j) == IF j \in shownJobs \ chosen THEN {"reset"} ELSE {}

BulkOffers ==
    (IF shownJobs # {} THEN {"toggleAll"} ELSE {})
      \cup (IF busy THEN {} ELSE {"refresh"})
      \cup (IF busy \/ chosen = {} THEN {} ELSE {"queueSelected"})

-----------------------------------------------------------------------------
(* The user *)

Click(call) ==
    /\ clicks < MaxClicks
    /\ clicks' = clicks + 1
    /\ calls' = Append(calls, call)

RunNow ==
    /\ path = "run" /\ "runNow" \in RunOffers
    /\ Click(PlainCall("runNow"))
    /\ starting' = TRUE
    /\ UNCHANGED <<path, senderServerVars, lost, run, effect, sendVars>>

TypeInterval(t) ==
    /\ path = "send" /\ "type" \in ControlOffers
    /\ t # intervalValue
    /\ intervalValue' = t
    /\ UNCHANGED <<path, senderServerVars, calls, clicks, lost, runVars, shownControl, busy, shownJobs, chosen>>

\* A malformed interval is refused before anything is sent.
ControlAction(op) ==
    /\ path = "send" /\ op \in ControlOffers
    /\ op \in {"configure", "resume"} => intervalValue # "malformed"
    /\ Click(NewCall(op, {}, intervalValue))
    /\ busy' = TRUE
    /\ UNCHANGED <<path, senderServerVars, lost, runVars, shownControl, intervalValue, shownJobs, chosen>>

ResetJob(j) ==
    /\ path = "send" /\ "reset" \in ProblemOffers(j)
    /\ Click(NewCall("reset", {j}, "ten"))
    /\ chosen' = {j}
    /\ UNCHANGED <<path, senderServerVars, lost, runVars, shownControl, intervalValue, busy, shownJobs>>

\* "обновить", on the problems at any time.
RefreshJobs ==
    /\ path = "send" \/ (path = "bulk" /\ "refresh" \in BulkOffers)
    /\ Click(PlainCall("loadJobs"))
    /\ UNCHANGED <<path, senderServerVars, lost, runVars, sendVars>>

ToggleRows ==
    /\ path = "bulk"
    /\ \/ \E j \in shownJobs : chosen' = IF j \in chosen THEN chosen \ {j} ELSE chosen \cup {j}
       \/ /\ "toggleAll" \in BulkOffers
          /\ chosen' = IF Cardinality(chosen) = Cardinality(shownJobs) THEN {} ELSE shownJobs
    /\ UNCHANGED <<path, senderServerVars, calls, clicks, lost, runVars, shownControl, intervalValue, busy,
                   shownJobs>>

QueueSelected ==
    /\ path = "bulk" /\ "queueSelected" \in BulkOffers
    /\ Click(NewCall("queueSelected", chosen, "ten"))
    /\ busy' = TRUE
    /\ UNCHANGED <<path, senderServerVars, lost, runVars, shownControl, intervalValue, shownJobs, chosen>>

-----------------------------------------------------------------------------
(* Timers and effects *)

\* Mutant: the effect polls once and sets no interval.
RunPollTickOnce ==
    /\ path = "send" /\ UnderWay("loadControl") < MaxRunPolls
    /\ calls' = Append(calls, PlainCall("loadControl"))
    /\ UNCHANGED <<path, senderServerVars, clicks, lost, runVars, sendVars>>

\* The control page loads every 5 seconds, the run page polls every 2 while its
\* effect stands for an unfinished run.
RunPollTick ==
    /\ \/ /\ path = "send" /\ UnderWay("loadControl") < MaxRunPolls
          /\ calls' = Append(calls, PlainCall("loadControl"))
       \/ /\ path = "run" /\ effect.status \in Active /\ UnderWay("poll") < MaxRunPolls
          /\ calls' = Append(calls, [PlainCall("poll") EXCEPT !.run = effect])
    /\ UNCHANGED <<path, senderServerVars, clicks, lost, runVars, sendVars>>

\* The run shown is another, or has another status: the old effect's polls are
\* cancelled, the new one polls at once.
RunEffect ==
    /\ path = "run" /\ effect # run
    /\ effect' = run
    /\ LET rest == [i \in DOMAIN calls |-> IF calls[i].op = "poll" THEN [calls[i] EXCEPT !.live = FALSE]
                                                                   ELSE calls[i]]
       IN calls' = IF run.status \in Active THEN Append(rest, [PlainCall("poll") EXCEPT !.run = run]) ELSE rest
    /\ UNCHANGED <<path, senderServerVars, clicks, lost, run, starting, sendVars>>

-----------------------------------------------------------------------------
(* The handlers *)

Answer(i, a) == calls' = [calls EXCEPT ![i] = a]
Current(r) == [id |-> r, status |-> searches[r]]
Listed == {j \in Jobs : sendJobs[j] = IF path = "bulk" THEN "approved" ELSE "failed"}

ServePoll(i) ==
    /\ calls[i].op = "poll"
    /\ Answer(i, [calls[i] EXCEPT !.stage = "ok", !.run = Current(calls[i].run.id)])
    /\ UNCHANGED senderServerVars

\* search_run_service.enqueue: the active run if there is one.
ServeRunNow(i) ==
    LET active == {r \in DOMAIN searches : searches[r] \in Active} IN
    /\ calls[i].op = "runNow"
    /\ IF active # {}
       THEN /\ UNCHANGED searches
            /\ Answer(i, [calls[i] EXCEPT !.stage = "ok", !.run = Current(CHOOSE r \in active : TRUE)])
       ELSE /\ Len(searches) < MaxRuns
            /\ searches' = Append(searches, "queued")
            /\ Answer(i, [calls[i] EXCEPT !.stage = "ok",
                                          !.run = [id |-> Len(searches) + 1, status |-> "queued"]])
    /\ UNCHANGED <<control, sendJobs>>

\* send_runtime_control: whether a stop waits for a running cycle is its own.
ServeControl(i) ==
    LET c == calls[i]
        to == CASE c.op = "resume" -> {"running"}
                [] c.op = "pause" -> {"paused"}
                [] c.op = "stop_after_current" -> {"paused", "stop_after_current"}
                [] OTHER -> {control.desired}
    IN /\ c.op \in {"loadControl", "configure", "resume", "pause", "stop_after_current"}
       /\ \E d \in to :
            control' = [desired |-> d, interval |-> IF c.op \in {"configure", "resume"}
                                                    THEN c.interval ELSE control.interval]
       /\ Answer(i, [c EXCEPT !.stage = "ok", !.control = control'])
       /\ UNCHANGED <<searches, sendJobs>>

\* A job that is no longer resettable is refused; queue_many answers for each
\* vacancy whether it was queued.
ServeJobs(i) ==
    LET c == calls[i]
        from == IF c.op = "reset" THEN "failed" ELSE "approved"
        to == IF c.op = "reset" THEN "approved" ELSE "queued"
        done == {j \in c.jobs : sendJobs[j] = from}
    IN /\ c.op \in {"loadJobs", "reset", "queueSelected"}
       /\ sendJobs' = [j \in Jobs |-> IF j \in done THEN to ELSE sendJobs[j]]
       /\ Answer(i, [c EXCEPT !.rows = IF c.op = "loadJobs" THEN Listed ELSE done,
                              !.stage = IF c.op = "reset" /\ done = {} THEN "error" ELSE "ok"])
       /\ UNCHANGED <<searches, control>>

Serve(i) ==
    /\ calls[i].stage = "asked"
    /\ ServePoll(i) \/ ServeRunNow(i) \/ ServeControl(i) \/ ServeJobs(i)
    /\ UNCHANGED <<path, clicks, lost, runVars, sendVars>>

-----------------------------------------------------------------------------
(* The answers *)

\* A cancelled poll is ignored.
RunAnswered(i) ==
    /\ calls[i].op \in {"poll", "runNow"}
    /\ run' = IF calls[i].live THEN calls[i].run ELSE run
    /\ starting' = (starting /\ calls[i].op = "poll")
    /\ UNCHANGED <<effect, sendVars>>

\* Only a load fills the interval field, whatever is being typed in it.
ControlAnswered(i) ==
    /\ calls[i].op \in {"loadControl", "configure", "resume", "pause", "stop_after_current"}
    /\ shownControl' = calls[i].control
    /\ intervalValue' = IF calls[i].op = "loadControl" THEN calls[i].control.interval ELSE intervalValue
    /\ busy' = (busy /\ calls[i].op = "loadControl")
    /\ UNCHANGED <<runVars, shownJobs, chosen>>

JobsAnswered(i) ==
    LET c == calls[i] IN
    /\ c.op \in {"loadJobs", "reset", "queueSelected"}
    /\ shownJobs' = IF c.op = "loadJobs" THEN c.rows ELSE shownJobs \ c.rows
    /\ chosen' = CASE c.op = "reset" -> {}
                   [] c.op = "loadJobs" -> IF path = "bulk" THEN {} ELSE chosen
                   [] OTHER -> chosen \ c.rows
    /\ busy' = (busy /\ c.op # "queueSelected")
    /\ UNCHANGED <<runVars, shownControl, intervalValue>>

Answered(i) ==
    /\ calls[i].stage = "ok"
    /\ RunAnswered(i) \/ ControlAnswered(i) \/ JobsAnswered(i)
    /\ calls' = RemoveAt(calls, i)
    /\ UNCHANGED <<path, senderServerVars, clicks, lost>>

\* An error answer or a lost one: a failed load of rows shows none, a failed
\* poll leaves what is shown.  The timers go on.
Failed(i) ==
    LET c == calls[i] IN
    /\ \/ c.stage = "error" /\ UNCHANGED lost
       \/ c.stage = "ok" /\ lost < MaxLost /\ lost' = lost + 1
    /\ calls' = RemoveAt(calls, i)
    /\ starting' = (starting /\ c.op # "runNow")
    /\ busy' = (busy /\ c.op \in {"loadControl", "loadJobs", "reset"})
    /\ shownJobs' = IF c.op = "loadJobs" THEN {} ELSE shownJobs
    /\ chosen' = IF c.op = "reset" THEN {} ELSE chosen
    /\ UNCHANGED <<path, senderServerVars, clicks, run, effect, shownControl, intervalValue>>

-----------------------------------------------------------------------------
(* External *)

\* The worker takes the search a stage further, or fails it.
SearchGoesOn(r) ==
    LET to == [queued |-> {"discovery"}, discovery |-> {"scoring", "failed"}, scoring |-> FINAL] IN
    /\ searches[r] \in Active
    /\ \E s \in to[searches[r]] : searches' = [searches EXCEPT ![r] = s]
    /\ UNCHANGED <<path, control, sendJobs, calls, clicks, lost, runVars, sendVars>>

\* Another tab starts a search.
SearchElsewhere ==
    /\ path = "run" /\ Len(searches) < MaxRuns
    /\ \A r \in DOMAIN searches : searches[r] \in FINAL
    /\ searches' = Append(searches, "queued")
    /\ UNCHANGED <<path, control, sendJobs, calls, clicks, lost, runVars, sendVars>>

\* The batch completes; hh closes a vacancy.
SenderGoesOn ==
    /\ \/ /\ path = "send" /\ control.desired # "paused"
          /\ control' = [control EXCEPT !.desired = "paused"]
          /\ UNCHANGED sendJobs
       \/ /\ \E j \in Jobs : sendJobs[j] # "archived" /\ sendJobs' = [sendJobs EXCEPT ![j] = "archived"]
          /\ path # "run"
          /\ UNCHANGED control
    /\ UNCHANGED <<path, searches, calls, clicks, lost, runVars, sendVars>>

SenderPagesNext ==
    \/ RunNow \/ RefreshJobs \/ ToggleRows \/ QueueSelected
    \/ \E t \in Intervals : TypeInterval(t)
    \/ \E op \in {"configure", "resume", "pause", "stop_after_current"} : ControlAction(op)
    \/ \E j \in Jobs : ResetJob(j)
    \/ RunPollTick \/ RunEffect
    \/ \E i \in DOMAIN calls : Serve(i) \/ Answered(i) \/ Failed(i)
    \/ \E r \in DOMAIN searches : SearchGoesOn(r)
    \/ SearchElsewhere \/ SenderGoesOn

\* The browser's timers and effects run, the server serves and answers arrive,
\* except for the MaxLost that do not.
SenderPagesFairness ==
    /\ WF_senderVars(RunPollTick)
    /\ WF_senderVars(RunEffect)
    /\ WF_senderVars(\E i \in DOMAIN calls : Serve(i))
    /\ WF_senderVars(\E i \in DOMAIN calls : Answered(i))

SenderPagesSpec == SenderPagesInit /\ [][SenderPagesNext]_senderVars /\ SenderPagesFairness

-----------------------------------------------------------------------------
(* Properties *)

\* A search that has ended comes to be shown as ended on the page that follows
\* it: lost polls, late ones and the change of effects only delay that.
RunEndIsShown ==
    \A r \in 1..MaxRuns :
        (run.id = r /\ r \in DOMAIN searches /\ searches[r] \in FINAL)
          ~> (run.id = r => run.status \in FINAL)
=============================================================================
