------------------------------- MODULE Shell -------------------------------
(***************************************************************************)
(* What surrounds every page of the web client: the bar that shows and     *)
(* switches the worker (components/otclick/worker-bar.tsx) and the guided  *)
(* set-up of a new account (components/otclick/onboarding-modal.tsx,       *)
(* hooks/useFilters.ts).                                                   *)
(*                                                                         *)
(* Both read one cached query, polled by each of them and fetched again    *)
(* after a switch; the worker, other tabs and other pages change what it   *)
(* reads.  Filter lists overlap, and any of their answers may be the last. *)
(***************************************************************************)
EXTENDS Naturals, FiniteSets

CONSTANTS
    Switches,       \* the switches used, of those below
    SendingAllowed, \* ALLOW_REAL_APPLY of the server's environment
    MaxChanges,     \* changes made by the user, here and elsewhere (bound)
    MaxReloads,     \* filter loads under way (bound)
    MaxMissed       \* answers lost on the way (bound)

ASSUME ShellAssumption ==
    /\ Switches \subseteq {"worker", "agent", "discovery", "real_apply"}
    /\ SendingAllowed \in BOOLEAN
    /\ MaxChanges \in Nat /\ MaxReloads \in Nat \ {0} /\ MaxMissed \in Nat

VARIABLES
    flags,          \* flags[s]: the switch as stored
    working,        \* the worker has taken up its flag
    account,        \* what the account has: hh, a resume on hh, a filter
    onboarded,      \* profiles.onboarded
    status,         \* the cached worker status
    fetchStage,     \* the fetch of that query
    fetched,        \* what that fetch read
    switching,      \* switch requests under way, by bar or tour
    tour,           \* "unknown" until the profile is read, then "on" or "off"
    minimized,      \* the tour is a button in the corner
    finalSlide,     \* the tour's last slide is shown
    tourKnows,      \* what the tour knows of the account
    reloads,        \* filter loads under way: unanswered, or what they read
    syncing,        \* "синхронизация…"
    changes, missed \* counters of the bounds

shellServerVars == <<flags, working, account, onboarded>>
statusVars == <<status, fetchStage, fetched>>
tourVars == <<tour, minimized, finalSlide, tourKnows, reloads, syncing>>
shellVars == <<shellServerVars, statusVars, switching, tourVars, changes, missed>>

Parts == {"hh", "resume", "filter"}
Status == [flags : [Switches -> BOOLEAN], working : BOOLEAN]
Nothing == [flags |-> [s \in Switches |-> FALSE], working |-> FALSE]
Request == [switch : Switches, on : BOOLEAN, place : {"bar", "tour"}, served : BOOLEAN]

ShellTypeOK ==
    /\ flags \in [Switches -> BOOLEAN] /\ working \in BOOLEAN
    /\ account \in SUBSET Parts /\ onboarded \in BOOLEAN
    /\ status \in Status /\ fetched \in Status /\ fetchStage \in {"idle", "asked", "read"}
    /\ switching \in SUBSET Request
    /\ tour \in {"unknown", "on", "off"} /\ minimized \in BOOLEAN /\ finalSlide \in BOOLEAN
    /\ tourKnows \in SUBSET Parts
    /\ reloads \subseteq (1..MaxReloads) \X {"asked", "none", "some"}
    /\ syncing \in BOOLEAN
    /\ changes \in 0..MaxChanges /\ missed \in 0..MaxMissed

ShellInit ==
    /\ flags = [s \in Switches |-> FALSE] /\ working = FALSE
    /\ account = {} /\ onboarded \in BOOLEAN
    /\ status = Nothing /\ fetchStage = "asked" /\ fetched = Nothing
    /\ switching = {}
    /\ tour = "unknown" /\ minimized = FALSE /\ finalSlide = FALSE
    /\ tourKnows = {} /\ reloads = {<<1, "asked">>} /\ syncing = FALSE
    /\ changes = 0 /\ missed = 0

-----------------------------------------------------------------------------
(* What is offered *)

On(s) == s \in Switches /\ status.flags[s]

\* isPending of the mutation behind a switch: start and stop share the bar's
\* button, the two flags share one mutation, and the tour has its own.
Pending(s, place) ==
    \E r \in switching :
        /\ r.place = place
        /\ \/ r.switch = s
           \/ {r.switch, s} = {"discovery", "real_apply"}

\* WorkerBar: each control asks for the opposite of what the bar shows; real
\* sending only where the environment allows it.
WorkerBar ==
    {[switch |-> s, on |-> ~On(s), place |-> "bar", served |-> FALSE] :
       s \in {x \in Switches : ~Pending(x, "bar") /\ (x = "real_apply" => SendingAllowed)}}

\* The tour's steps, in order; the first that is not done is active.
Launched == On("agent") \/ (On("worker") /\ status.working)
Done == tourKnows \cup (IF Launched THEN {"launch"} ELSE {})
StepRow ==
    CASE "hh" \notin Done -> "hh"
      [] "resume" \notin Done -> "resume"
      [] "filter" \notin Done -> "filter"
      [] "launch" \notin Done -> "launch"
      [] OTHER -> "none"

TourOpen == tour = "on" /\ ~minimized

\* OnboardingModal: the active step's button, "Пропустить", and "Далее" once
\* all is done.
TourOffers ==
    IF ~TourOpen THEN IF tour = "on" THEN {"resume"} ELSE {}
    ELSE IF finalSlide THEN {"finish"}
    ELSE {"finish"} \cup (IF StepRow = "none" THEN {"next"} ELSE {})
           \cup (IF StepRow = "resume" /\ ~syncing THEN {"sync"} ELSE {})
           \cup (IF StepRow = "filter" THEN {"openFilters"} ELSE {})

TourSwitches ==
    IF TourOpen /\ ~finalSlide /\ StepRow = "launch"
    THEN {[switch |-> s, on |-> TRUE, place |-> "tour", served |-> FALSE] :
            s \in {x \in Switches \cap {"worker", "agent"} : ~Pending(x, "tour")}}
    ELSE {}

-----------------------------------------------------------------------------
(* The status query *)

\* Mutant: a failed fetch ends the polling.
StatusPollUntilError ==
    /\ fetchStage = "idle" /\ missed = 0
    /\ fetchStage' = "asked"
    /\ UNCHANGED <<shellServerVars, status, fetched, switching, tourVars, changes, missed>>

\* refetchInterval of either component; "Обновить" and its key.
StatusPoll ==
    /\ fetchStage = "idle"
    /\ fetchStage' = "asked"
    /\ UNCHANGED <<shellServerVars, status, fetched, switching, tourVars, changes, missed>>

\* worker_control: the flags as stored, and what the worker reports.
StatusRead ==
    /\ fetchStage = "asked"
    /\ fetchStage' = "read"
    /\ fetched' = [flags |-> flags, working |-> working]
    /\ UNCHANGED <<shellServerVars, status, switching, tourVars, changes, missed>>

StatusAnswered ==
    /\ fetchStage = "read"
    /\ fetchStage' = "idle"
    /\ status' = fetched
    /\ UNCHANGED <<shellServerVars, fetched, switching, tourVars, changes, missed>>

StatusMissed ==
    /\ fetchStage = "read" /\ missed < MaxMissed
    /\ missed' = missed + 1
    /\ fetchStage' = "idle"
    /\ UNCHANGED <<shellServerVars, status, fetched, switching, tourVars, changes>>

-----------------------------------------------------------------------------
(* The switches *)

Switch(r) ==
    /\ r \in WorkerBar \cup TourSwitches
    /\ changes < MaxChanges
    /\ changes' = changes + 1
    /\ switching' = switching \cup {r}
    /\ UNCHANGED <<shellServerVars, statusVars, tourVars, missed>>

\* The flag is stored; the worker takes it up later.  start refuses without a
\* filter that has a resume.
Refused(r) == r.switch = "worker" /\ r.on /\ "filter" \notin account

SwitchServed(r) ==
    /\ ~r.served /\ ~Refused(r)
    /\ flags' = [flags EXCEPT ![r.switch] = r.on]
    /\ working' = (working /\ (r.switch = "worker" => r.on))
    /\ switching' = (switching \ {r}) \cup {[r EXCEPT !.served = TRUE]}
    /\ UNCHANGED <<account, onboarded, statusVars, tourVars, changes, missed>>

\* invalidateQueries cancels the fetch under way and starts another.
SwitchAnswered(r) ==
    /\ r.served
    /\ switching' = switching \ {r}
    /\ fetchStage' = "asked"
    /\ UNCHANGED <<shellServerVars, status, fetched, tourVars, changes, missed>>

\* A toast; nothing is fetched.
SwitchFailed(r) ==
    /\ \/ ~r.served /\ Refused(r) /\ UNCHANGED missed
       \/ r.served /\ missed < MaxMissed /\ missed' = missed + 1
    /\ switching' = switching \ {r}
    /\ UNCHANGED <<shellServerVars, statusVars, tourVars, changes>>

-----------------------------------------------------------------------------
(* The tour *)

ProfileRead ==
    /\ tour = "unknown"
    /\ tour' = IF onboarded THEN "off" ELSE "on"
    /\ UNCHANGED <<shellServerVars, statusVars, switching, minimized, finalSlide, tourKnows, reloads,
                   syncing, changes, missed>>

\* hh's status is polled, the resumes are loaded when the tour comes on.
AccountRead ==
    /\ tour = "on"
    /\ \E p \in {"hh", "resume"} :
         tourKnows' = IF p \in account THEN tourKnows \cup {p} ELSE tourKnows \ {p}
    /\ UNCHANGED <<shellServerVars, statusVars, switching, tour, minimized, finalSlide, reloads, syncing,
                   changes, missed>>

SyncResumes ==
    /\ "sync" \in TourOffers
    /\ syncing' = TRUE
    /\ UNCHANGED <<shellServerVars, statusVars, switching, tour, minimized, finalSlide, tourKnows, reloads,
                   changes, missed>>

\* hh's resumes, if the account has any, or an error.
SyncAnswered ==
    /\ syncing
    /\ syncing' = FALSE
    /\ \/ /\ account' = account \cup {"resume"}
          /\ tourKnows' = tourKnows \cup {"resume"}
       \/ UNCHANGED <<account, tourKnows>>
    /\ UNCHANGED <<flags, working, onboarded, statusVars, switching, tour, minimized, finalSlide, reloads,
                   changes, missed>>

OpenFilters ==
    /\ "openFilters" \in TourOffers
    /\ minimized' = TRUE
    /\ UNCHANGED <<shellServerVars, statusVars, switching, tour, finalSlide, tourKnows, reloads, syncing,
                   changes, missed>>

\* A load of the filters: on mount, on "Закончить настройку", and every 1.5 s
\* while the tour is minimized.
StartReload ==
    \E i \in 1..MaxReloads :
        /\ \A l \in reloads : l[1] # i
        /\ reloads' = reloads \cup {<<i, "asked">>}

ResumeTour ==
    /\ "resume" \in TourOffers
    /\ minimized' = FALSE
    /\ StartReload
    /\ UNCHANGED <<shellServerVars, statusVars, switching, tour, finalSlide, tourKnows, syncing, changes,
                   missed>>

ReloadTick ==
    /\ minimized
    /\ StartReload
    /\ UNCHANGED <<shellServerVars, statusVars, switching, tour, minimized, finalSlide, tourKnows, syncing,
                   changes, missed>>

FiltersRead(l) ==
    /\ l[2] = "asked"
    /\ reloads' = (reloads \ {l}) \cup {<<l[1], IF "filter" \in account THEN "some" ELSE "none">>}
    /\ UNCHANGED <<shellServerVars, statusVars, switching, tour, minimized, finalSlide, tourKnows, syncing,
                   changes, missed>>

FiltersAnswered(l) ==
    /\ l[2] # "asked"
    /\ reloads' = reloads \ {l}
    /\ tourKnows' = IF l[2] = "some" THEN tourKnows \cup {"filter"} ELSE tourKnows \ {"filter"}
    /\ UNCHANGED <<shellServerVars, statusVars, switching, tour, minimized, finalSlide, syncing, changes,
                   missed>>

FiltersMissed(l) ==
    /\ l[2] # "asked" /\ missed < MaxMissed
    /\ missed' = missed + 1
    /\ reloads' = reloads \ {l}
    /\ UNCHANGED <<shellServerVars, statusVars, switching, tour, minimized, finalSlide, tourKnows, syncing,
                   changes>>

\* The effect that opens the tour again once a filter is known.
Reopen ==
    /\ minimized /\ "filter" \in tourKnows
    /\ minimized' = FALSE
    /\ UNCHANGED <<shellServerVars, statusVars, switching, tour, finalSlide, tourKnows, reloads, syncing,
                   changes, missed>>

\* "Далее", then "Начать работу"; or "Пропустить" at any time.  The profile is
\* written, unless the session or the write fails.
NextSlide ==
    /\ "next" \in TourOffers
    /\ finalSlide' = TRUE
    /\ UNCHANGED <<shellServerVars, statusVars, switching, tour, minimized, tourKnows, reloads, syncing,
                   changes, missed>>

Finish ==
    /\ "finish" \in TourOffers
    /\ tour' = "off"
    /\ onboarded' \in {TRUE, onboarded}
    /\ UNCHANGED <<flags, working, account, statusVars, switching, minimized, finalSlide, tourKnows, reloads,
                   syncing, changes, missed>>

-----------------------------------------------------------------------------
(* External *)

\* The user connects hh on its page and keeps filters in their drawer; another
\* tab switches; the worker takes up its flag or is paused.
Elsewhere ==
    /\ changes < MaxChanges
    /\ changes' = changes + 1
    /\ \/ /\ \E p \in {"hh", "filter"} :
               account' = IF p \in account THEN account \ {p} ELSE account \cup {p}
          /\ UNCHANGED <<flags, working>>
       \/ /\ \E s \in Switches : /\ flags' = [flags EXCEPT ![s] = ~@]
                                 /\ working' = (working /\ s # "worker")
          /\ UNCHANGED account
       \/ /\ "worker" \in Switches /\ flags["worker"]
          /\ working' = ~working
          /\ UNCHANGED <<flags, account>>
    /\ UNCHANGED <<onboarded, statusVars, switching, tourVars, missed>>

ShellNext ==
    \/ StatusPoll \/ StatusRead \/ StatusAnswered \/ StatusMissed
    \/ \E r \in WorkerBar \cup TourSwitches : Switch(r)
    \/ \E r \in switching : SwitchServed(r) \/ SwitchAnswered(r) \/ SwitchFailed(r)
    \/ ProfileRead \/ AccountRead \/ SyncResumes \/ SyncAnswered
    \/ OpenFilters \/ ResumeTour \/ ReloadTick \/ Reopen \/ NextSlide \/ Finish
    \/ \E l \in reloads : FiltersRead(l) \/ FiltersAnswered(l) \/ FiltersMissed(l)
    \/ Elsewhere

\* Either component's interval keeps firing, the server reads, answers arrive
\* except for the MaxMissed that do not.
ShellFairness == WF_shellVars(StatusPoll) /\ WF_shellVars(StatusRead) /\ WF_shellVars(StatusAnswered)

ShellSpec == ShellInit /\ [][ShellNext]_shellVars /\ ShellFairness

-----------------------------------------------------------------------------
(* Properties *)

\* The bar settles on what is stored: whatever was switched here and
\* elsewhere, in whatever order the fetches came, it does not go on showing
\* (and offering the opposite of) a switch as it no longer is.
BarSettles == <>[](status = [flags |-> flags, working |-> working])
=============================================================================
