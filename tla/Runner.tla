------------------------------- MODULE Runner -------------------------------
(****************************************************************************)
(* The auto-apply loops of the worker process: one asyncio task per user,   *)
(* started and cancelled by the reconcile pass of worker_main from two      *)
(* tables it reads, and the captcha pause inside a task, which holds one of *)
(* a fixed number of browser slots.                                         *)
(*                                                                          *)
(* A step runs from one await to the next.  A task may be cancelled at any  *)
(* await; a database write it was waiting for runs in a thread and may take *)
(* effect all the same, later.                                              *)
(****************************************************************************)
EXTENDS Integers, FiniteSets

CONSTANTS
    Users,
    Cap,            \* MAX_CONCURRENT_CAPTCHA_BROWSERS
    Faults,         \* a statement of a task or a pass may raise
    Restarts        \* the worker process may die and start again

ASSUME RunnerAssumption ==
    /\ IsFiniteSet(Users)
    /\ Cap \in Nat
    /\ Faults \in BOOLEAN
    /\ Restarts \in BOOLEAN

VARIABLES
    enabled,        \* profiles: the users whose worker_enabled is set
    creds,          \* hh_credentials of each user
    row,            \* captcha_requests: the newest row of each user
    task,           \* the apply loops: the next statement, what a browser
                    \* being closed is closed for, whether it knows the row
    sessions,       \* _sessions: the users with an open captcha browser
    slots,          \* the value of _semaphore
    late,           \* writes of cancelled tasks, under way in a thread
    main,           \* the reconcile pass: next statement, the users with
                    \* valid credentials or the one it waits for, the
                    \* loops wanted, the users left
    walled,         \* history: users behind a captcha wall nobody lifted
    staleStarts,    \* history: loops started since the switch went off
    lost            \* history: slots that nobody will give back

tables == <<enabled, creds, row>>
browsers == <<sessions, slots, lost>>
vars == <<tables, task, browsers, late, main, walled, staleStarts>>

-----------------------------------------------------------------------------
\* "loop": anywhere between two applies, asleep or not.
Pc == {"none", "loop", "apply", "disable", "cookies", "open", "starting",
       "launching", "reading", "wait", "clear", "submit", "closing",
       "stopping", "persist", "solve"}

Writes == {"disable", "invalid", "ask", "persist", "solve", "clear"}

\* The writes that the statement waits for.
InFlight(pc) ==
    CASE pc = "apply" -> {"invalid", "ask"}
      [] pc \in {"disable", "persist", "solve", "clear"} -> {pc}
      [] OTHER -> {}

At(pc, knows) == [pc |-> pc, next |-> "end", knows |-> knows]

Gone == At("none", FALSE)

\* The browser is being closed; next is the statement after close_for.
Closing(pc, next) == [pc |-> pc, next |-> next, knows |-> FALSE]

Pass(pc, who, want, todo) ==
    [pc |-> pc, who |-> who, want |-> want, todo |-> todo]

Idle == Pass("idle", {}, {}, {})

Live == {u \in Users : task[u].pc # "none"}

Init ==
    /\ enabled = {}
    /\ creds = [u \in Users |-> "none"]
    /\ row = [u \in Users |-> [open |-> FALSE, answer |-> FALSE]]
    /\ task = [u \in Users |-> Gone]
    /\ sessions = {}
    /\ slots = Cap
    /\ late = [u \in Users |-> "none"]
    /\ main = Idle
    /\ walled = {}
    /\ staleStarts = [u \in Users |-> 0]
    /\ lost = 0

Goto(u, t) == task' = [task EXCEPT ![u] = t]

\* One write to the tables, by a task or by the thread it left behind.
Write(u, w) ==
    /\ enabled' = IF w = "disable" THEN enabled \ {u} ELSE enabled
    /\ creds' = CASE w = "persist" -> [creds EXCEPT ![u] = "valid"]
                  [] w = "invalid" /\ creds[u] # "none" ->
                         [creds EXCEPT ![u] = "invalid"]
                  [] OTHER -> creds
    /\ row' = CASE w = "ask" ->
                       [row EXCEPT ![u] = [open |-> TRUE, answer |-> FALSE]]
                [] w = "solve" -> [row EXCEPT ![u].open = FALSE]
                [] w = "clear" -> [row EXCEPT ![u].answer = FALSE]
                [] OTHER -> row

-----------------------------------------------------------------------------
(* The apply loop.                                                          *)

StartApply(u) ==
    /\ task[u].pc = "loop"
    /\ Goto(u, At("apply", FALSE))
    /\ UNCHANGED <<tables, browsers, late, main, walled, staleStarts>>

ApplyEnds(u) ==
    /\ task[u].pc = "apply"
    /\ Goto(u, At("loop", FALSE))
    /\ UNCHANGED <<tables, browsers, late, main, walled, staleStarts>>

\* The insert of the request may fail; the loop pauses all the same.
ApplyCaptcha(u) ==
    /\ task[u].pc = "apply"
    /\ Write(u, "ask") \/ (Faults /\ UNCHANGED tables)
    /\ walled' = walled \union {u}
    /\ Goto(u, At("cookies", FALSE))
    /\ UNCHANGED <<browsers, late, main, staleStarts>>

\* A dead web session or a ban: mark_invalid, and the terminal path.
ApplyDead(u) ==
    /\ task[u].pc = "apply"
    /\ Write(u, "invalid")
    /\ Goto(u, At("disable", FALSE))
    /\ UNCHANGED <<browsers, late, main, walled, staleStarts>>

\* The free limit is used up, or a manual batch is done.
LoopDone(u) ==
    /\ task[u].pc = "loop"
    /\ Goto(u, At("disable", FALSE))
    /\ UNCHANGED <<tables, browsers, late, main, walled, staleStarts>>

\* _disable_worker, whatever the user has pressed meanwhile; the loop ends.
DisableWorker(u) ==
    /\ task[u].pc = "disable"
    /\ Write(u, "disable") \/ (Faults /\ UNCHANGED tables)
    /\ Goto(u, Gone)
    /\ UNCHANGED <<browsers, late, main, walled, staleStarts>>

-----------------------------------------------------------------------------
(* _run_paused_captcha.                                                     *)

\* No stored cookies is a dead token; an invalid row still has them.
LoadCookies(u) ==
    /\ task[u].pc = "cookies"
    /\ Goto(u, At(IF creds[u] = "none" THEN "disable" ELSE "open", FALSE))
    /\ UNCHANGED <<tables, browsers, late, main, walled, staleStarts>>

\* get_pending, then open_for up to its first await: AtCapacity or a slot.
TakeSlot(u) ==
    /\ task[u].pc = "open"
    /\ IF slots = 0
       THEN /\ Goto(u, At("cookies", FALSE))
            /\ UNCHANGED slots
       ELSE /\ Goto(u, At("starting", row[u].open))
            /\ slots' = slots - 1
    /\ UNCHANGED <<tables, sessions, lost, late, main, walled, staleStarts>>

StartPlaywright(u) ==
    /\ task[u].pc = "starting"
    /\ Goto(u, At("launching", task[u].knows))
    /\ UNCHANGED <<tables, browsers, late, main, walled, staleStarts>>

Launch(u) ==
    /\ task[u].pc = "launching"
    /\ Goto(u, At("reading", task[u].knows))
    /\ sessions' = sessions \union {u}
    /\ UNCHANGED <<tables, slots, lost, late, main, walled, staleStarts>>

\* close_for up to its first await.
Close(u, next) ==
    /\ Goto(u, Closing("closing", next))
    /\ sessions' = sessions \ {u}

\* _read_challenge: another captcha, a login wall, or nothing.
ReadPage(u) ==
    /\ task[u].pc \in {"reading", "submit"}
    /\ \/ /\ Goto(u, At("wait", task[u].knows))
          /\ UNCHANGED <<sessions, walled>>
       \/ /\ Close(u, "disable")
          /\ UNCHANGED walled
       \/ /\ Close(u, "persist")
          /\ walled' = walled \ {u}
    /\ UNCHANGED <<tables, slots, lost, late, main, staleStarts>>

\* get_solution of the row known when the browser was opened, by its id.
PollAnswer(u) ==
    /\ task[u].pc = "wait"
    /\ task[u].knows /\ row[u].answer
    /\ Goto(u, At("clear", TRUE))
    /\ UNCHANGED <<tables, browsers, late, main, walled, staleStarts>>

IdleWaitsOn(u) ==    \* mutant
    /\ task[u].pc = "wait"
    /\ ~(task[u].knows /\ row[u].answer)
    /\ Close(u, "wait")
    /\ UNCHANGED <<tables, slots, lost, late, main, walled, staleStarts>>

\* No answer for CAPTCHA_BROWSER_IDLE_TIMEOUT_S.
IdleTimeout(u) ==
    /\ task[u].pc = "wait"
    /\ ~(task[u].knows /\ row[u].answer)
    /\ Close(u, "cookies")
    /\ UNCHANGED <<tables, slots, lost, late, main, walled, staleStarts>>

ClearAnswer(u) ==
    /\ task[u].pc = "clear"
    /\ Write(u, "clear")
    /\ Goto(u, At("submit", TRUE))
    /\ UNCHANGED <<browsers, late, main, walled, staleStarts>>

\* browser.close; what it raises passes through playwright.stop.
CloseBrowser(u) ==
    /\ task[u].pc = "closing"
    /\ \/ Goto(u, Closing("stopping", task[u].next))
       \/ Faults /\ Goto(u, Closing("stopping", "end"))
    /\ UNCHANGED <<tables, browsers, late, main, walled, staleStarts>>

\* playwright.stop, and the slot is free again.
StopPlaywright(u) ==
    /\ task[u].pc = "stopping"
    /\ slots' = slots + 1
    /\ Goto(u, IF task[u].next = "end" THEN Gone
               ELSE At(task[u].next, FALSE))
    /\ UNCHANGED <<tables, sessions, lost, late, main, walled, staleStarts>>

\* _resume_from_captcha: the cookies make the connection valid, and exist.
PersistSession(u) ==
    /\ task[u].pc = "persist"
    /\ Write(u, "persist")
    /\ Goto(u, At("solve", FALSE))
    /\ UNCHANGED <<browsers, late, main, walled, staleStarts>>

MarkSolved(u) ==
    /\ task[u].pc = "solve"
    /\ Write(u, "solve")
    /\ Goto(u, At("loop", FALSE))
    /\ UNCHANGED <<browsers, late, main, walled, staleStarts>>

-----------------------------------------------------------------------------
(* A task that ends before its time.                                        *)

UnwindNoFinally(u, leaks) ==    \* mutant
    /\ UNCHANGED <<sessions, slots>>
    /\ IF task[u].pc \in leaks
       THEN Goto(u, Gone) /\ lost' = lost + 1
       ELSE /\ Goto(u, IF task[u].pc = "closing"
                       THEN Closing("stopping", "end") ELSE Gone)
            /\ UNCHANGED lost

\* The finally clauses on the way out: an open browser is closed, a browser
\* being closed is still stopped; at the steps in leaks nothing releases.
Unwind(u, leaks) ==
    IF u \in sessions
    THEN Close(u, "end") /\ UNCHANGED <<slots, lost>>
    ELSE /\ UNCHANGED <<sessions, slots>>
         /\ IF task[u].pc \in leaks
            THEN Goto(u, Gone) /\ lost' = lost + 1
            ELSE /\ Goto(u, IF task[u].pc = "closing"
                            THEN Closing("stopping", "end") ELSE Gone)
                 /\ UNCHANGED lost

RaisesUncaught(u) ==    \* mutant
    /\ Faults
    /\ task[u].pc \notin {"none", "apply", "disable", "closing"}
    /\ Unwind(u, {"starting", "stopping"})
    /\ UNCHANGED <<tables, late, main, walled, staleStarts>>

\* A statement raises and the task crashes.  The launch has an except clause
\* of its own, which stops playwright and releases the slot.
Raises(u) ==
    /\ Faults
    /\ task[u].pc \notin {"none", "apply", "disable", "closing"}
    /\ IF task[u].pc = "launching"
       THEN Goto(u, Closing("stopping", "end")) /\ UNCHANGED browsers
       ELSE Unwind(u, {"starting", "stopping"})
    /\ UNCHANGED <<tables, late, main, walled, staleStarts>>

\* _cancel_apply.  CancelledError is no Exception: the launch does not catch
\* it.  One write of a user can be left behind at a time (bound).
Cancel(u) ==
    /\ Unwind(u, {"starting", "launching", "stopping"})
    /\ \/ UNCHANGED late
       \/ /\ late[u] = "none"
          /\ \E w \in InFlight(task[u].pc) : late' = [late EXCEPT ![u] = w]

LateWrite(u) ==
    /\ late[u] # "none"
    /\ Write(u, late[u])
    /\ late' = [late EXCEPT ![u] = "none"]
    /\ UNCHANGED <<task, browsers, main, walled, staleStarts>>

-----------------------------------------------------------------------------
(* The reconcile pass.                                                      *)

\* active_user_flags reads the valid credentials, then the switches.
ReadCreds ==
    /\ main.pc = "idle"
    /\ main' = Pass("flags", {u \in Users : creds[u] = "valid"}, {}, {})
    /\ UNCHANGED <<tables, task, browsers, late, walled, staleStarts>>

ReadFlagsWanted ==    \* mutant
    /\ main.pc = "flags"
    /\ LET want == main.who \intersect enabled
       IN  main' = Pass("users", {}, want, want)
    /\ UNCHANGED <<tables, task, browsers, late, walled, staleStarts>>

\* Wanted loops and live ones are visited.
ReadFlags ==
    /\ main.pc = "flags"
    /\ LET want == main.who \intersect enabled
       IN  main' = Pass("users", {}, want, want \union Live)
    /\ UNCHANGED <<tables, task, browsers, late, walled, staleStarts>>

PassFails ==
    /\ Faults
    /\ main.pc = "flags"
    /\ main' = Idle
    /\ UNCHANGED <<tables, task, browsers, late, walled, staleStarts>>

\* registry.reconcile of one user, after discovery and scoring of the users
\* before it and of its own, which may take minutes.
StartLoop(u) ==
    /\ main.pc = "users"
    /\ u \in main.todo \intersect main.want
    /\ u \notin Live
    /\ Goto(u, At("loop", FALSE))
    /\ staleStarts' = IF u \in enabled THEN staleStarts
                      ELSE [staleStarts EXCEPT ![u] = @ + 1]
    /\ main' = [main EXCEPT !.todo = @ \ {u}]
    /\ UNCHANGED <<tables, browsers, late, walled>>

\* _cancel_apply waits for the task, holding the registry's lock.
CancelLoop(u) ==
    /\ main.pc = "users"
    /\ u \in main.todo \ main.want
    /\ u \in Live
    /\ Cancel(u)
    /\ main' = Pass("await", {u}, main.want, main.todo \ {u})
    /\ UNCHANGED <<tables, walled, staleStarts>>

LeaveAlone(u) ==
    /\ main.pc = "users"
    /\ u \in main.todo
    /\ u \in main.want <=> u \in Live
    /\ main' = [main EXCEPT !.todo = @ \ {u}]
    /\ UNCHANGED <<tables, task, browsers, late, walled, staleStarts>>

Awaited ==
    /\ main.pc = "await"
    /\ main.who \intersect Live = {}
    /\ main' = Pass("users", {}, main.want, main.todo)
    /\ UNCHANGED <<tables, task, browsers, late, walled, staleStarts>>

PassEndsCached ==    \* mutant
    /\ main.pc = "users"
    /\ main.todo = {}
    /\ main' = Pass("users", {}, main.want, main.want \union Live)
    /\ UNCHANGED <<tables, task, browsers, late, walled, staleStarts>>

PassEnds ==
    /\ main.pc = "users"
    /\ main.todo = {}
    /\ main' = Idle
    /\ UNCHANGED <<tables, task, browsers, late, walled, staleStarts>>

\* The process and its threads are gone; the tables stay.
Restart ==
    /\ Restarts
    /\ task' = [u \in Users |-> Gone]
    /\ sessions' = {}
    /\ slots' = Cap
    /\ lost' = 0
    /\ late' = [u \in Users |-> "none"]
    /\ main' = Idle
    /\ UNCHANGED <<tables, walled, staleStarts>>

-----------------------------------------------------------------------------
(* The user, through the API process, and its cron.                         *)

\* The user's Start counts as lifting the wall.
Start(u) ==
    /\ u \notin enabled
    /\ enabled' = enabled \union {u}
    /\ walled' = walled \ {u}
    /\ staleStarts' = [staleStarts EXCEPT ![u] = 0]
    /\ UNCHANGED <<creds, row, task, browsers, late, main>>

Stop(u) ==
    /\ u \in enabled
    /\ enabled' = enabled \ {u}
    /\ UNCHANGED <<creds, row, task, browsers, late, main, walled,
                   staleStarts>>

\* A login, a disconnect, or a token that the cron finds dead.
Connection(u) ==
    /\ \E c \in {"valid", "none"} \union
               (IF creds[u] = "none" THEN {} ELSE {"invalid"}) :
          creds' = [creds EXCEPT ![u] = c]
    /\ UNCHANGED <<enabled, row, task, browsers, late, main, walled,
                   staleStarts>>

Solve(u) ==
    /\ row[u].open
    /\ row' = [row EXCEPT ![u].answer = TRUE]
    /\ UNCHANGED <<enabled, creds, task, browsers, late, main, walled,
                   staleStarts>>

Dismiss(u) ==
    /\ row[u].open
    /\ row' = [row EXCEPT ![u].open = FALSE]
    /\ UNCHANGED <<enabled, creds, task, browsers, late, main, walled,
                   staleStarts>>

-----------------------------------------------------------------------------
LoopNext(u) ==
    \/ StartApply(u) \/ ApplyEnds(u) \/ ApplyCaptcha(u) \/ ApplyDead(u)
    \/ LoopDone(u) \/ DisableWorker(u)

PauseNext(u) ==
    \/ LoadCookies(u) \/ TakeSlot(u) \/ StartPlaywright(u) \/ Launch(u)
    \/ ReadPage(u) \/ PollAnswer(u) \/ IdleTimeout(u) \/ ClearAnswer(u)
    \/ CloseBrowser(u) \/ StopPlaywright(u) \/ PersistSession(u)
    \/ MarkSolved(u)

PassNext ==
    \/ ReadCreds \/ ReadFlags \/ PassFails \/ Awaited \/ PassEnds
    \/ \E u \in Users : StartLoop(u) \/ CancelLoop(u) \/ LeaveAlone(u)

UserNext(u) ==
    \/ Start(u) \/ Stop(u) \/ Connection(u) \/ Solve(u) \/ Dismiss(u)

Next ==
    \/ \E u \in Users : \/ LoopNext(u) \/ PauseNext(u) \/ Raises(u)
                        \/ LateWrite(u) \/ UserNext(u)
    \/ PassNext
    \/ Restart

Spec == Init /\ [][Next]_vars

\* The pass goes on, not every read of the switches fails, and a browser that
\* is told to close closes.
Fairness ==
    /\ WF_vars(ReadCreds) /\ SF_vars(ReadFlags)
    /\ WF_vars(Awaited) /\ WF_vars(PassEnds)
    /\ \A u \in Users :
          /\ WF_vars(StartLoop(u) \/ CancelLoop(u) \/ LeaveAlone(u))
          /\ WF_vars(CloseBrowser(u))
          /\ WF_vars(StopPlaywright(u))

FairSpec == Spec /\ Fairness

-----------------------------------------------------------------------------
(* Properties.                                                              *)

Task == [pc : Pc, next : {"end", "disable", "persist", "cookies"},
         knows : BOOLEAN]

TypeOK ==
    /\ enabled \subseteq Users
    /\ creds \in [Users -> {"none", "valid", "invalid"}]
    /\ row \in [Users -> [open : BOOLEAN, answer : BOOLEAN]]
    /\ task \in [Users -> Task]
    /\ sessions \subseteq Users
    /\ slots \in Nat
    /\ late \in [Users -> Writes \union {"none"}]
    /\ main \in [pc : {"idle", "flags", "users", "await"},
                 who : SUBSET Users, want : SUBSET Users,
                 todo : SUBSET Users]
    /\ walled \subseteq Users
    /\ staleStarts \in [Users -> Nat]
    /\ lost \in Nat

\* The steps of a task that holds a slot.
Shown == {"reading", "wait", "clear", "submit"}
Holding == {"starting", "launching", "closing", "stopping"} \union Shown
Holders == {u \in Users : task[u].pc \in Holding}

\* Every slot is free, held by one pause, or one of those lost to a task cut
\* off at an await that no clause guards: no other path loses a slot, and none
\* gives one back twice, so there are never more than Cap browsers.
SlotsAccounted == slots + Cardinality(Holders) + lost = Cap

\* An open browser belongs to a live pause, however the loops end.
SessionsOwned == \A u \in Users : u \in sessions <=> task[u].pc \in Shown

\* After the switch goes off, by the user or by a terminal stop, a pass that
\* has read it before may start one more loop, and no more.
AtMostOneStaleStart == \A u \in Users : staleStarts[u] <= 1

\* A loop whose switch stays off ends, wherever it is, and stays ended.
StopTakesEffect ==
    \A u \in Users :
        <>[](u \notin enabled) => <>[](u \notin Live)

\* The inductive invariant: a switch that is off and has had its stale start
\* is not about to have another.
StaleInv ==
    \A u \in Users :
        \/ staleStarts[u] = 0
        \/ /\ staleStarts[u] = 1
           /\ u \notin enabled
           /\ u \notin main.todo \intersect main.want

RunnerInv == TypeOK /\ SlotsAccounted /\ SessionsOwned /\ StaleInv

\* "Captcha pauses indefinitely until external resume." (the head of the
\* runner): nothing is applied for behind a wall that nobody has lifted.
\* (Does not hold: an exception in the paused task ends the pause.)
PauseHolds == \A u \in walled : task[u].pc # "apply"
=============================================================================
