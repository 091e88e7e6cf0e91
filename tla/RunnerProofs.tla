---------------------------- MODULE RunnerProofs ----------------------------
(****************************************************************************)
(* The apply loops of Runner, proved for any number of users and browser    *)
(* slots: the slots add up, an open browser has a live pause, and a switch  *)
(* that goes off has at most one stale start.                               *)
(****************************************************************************)
EXTENDS Runner, FiniteSetTheorems, TLAPS

Held(pc) == IF pc \in Holding THEN 1 ELSE 0

Row == [open : BOOLEAN, answer : BOOLEAN]

Main == [pc : {"idle", "flags", "users", "await"},
         who : SUBSET Users, want : SUBSET Users, todo : SUBSET Users]

-----------------------------------------------------------------------------
(* What a step changes.                                                     *)

\* A write may switch a loop off, never on.
LEMMA WriteFacts ==
    ASSUME TypeOK, NEW u \in Users, NEW w, Write(u, w)
    PROVE  /\ enabled' \subseteq enabled
           /\ creds' \in [Users -> {"none", "valid", "invalid"}]
           /\ row' \in [Users -> Row]
<1>1. enabled' \subseteq enabled
    BY DEF Write
<1>2. creds' \in [Users -> {"none", "valid", "invalid"}]
    BY DEF Write, TypeOK
<1>3. row' \in [Users -> Row]
    <2>1. row \in [Users -> Row]
        BY DEF TypeOK, Row
    <2>2. CASE w = "ask"
        BY <2>1, <2>2 DEF Write, Row
    <2>3. CASE w = "solve"
        BY <2>1, <2>3 DEF Write, Row
    <2>4. CASE w = "clear"
        BY <2>1, <2>4 DEF Write, Row
    <2>5. CASE w \notin {"ask", "solve", "clear"}
        BY <2>1, <2>5 DEF Write
    <2> QED
        BY <2>2, <2>3, <2>4, <2>5
<1> QED
    BY <1>1, <1>2, <1>3

\* The number of holders follows the one task that moves.
LEMMA HoldersMove ==
    ASSUME TypeOK, NEW u \in Users, NEW t \in Task, Goto(u, t)
    PROVE  /\ Cardinality(Holders) \in Nat
           /\ Cardinality(Holders') \in Nat
           /\ Cardinality(Holders') + Held(task[u].pc)
                  = Cardinality(Holders) + Held(t.pc)
<1>1. \A v \in Users : task'[v] = IF v = u THEN t ELSE task[v]
    BY DEF Goto, TypeOK
<1>2. IsFiniteSet(Holders)
    BY RunnerAssumption, FS_Subset DEF Holders
<1>3. Cardinality(Holders) \in Nat /\ Cardinality(Holders)' \in Nat
    <2>1. IsFiniteSet(Holders')
        BY RunnerAssumption, FS_Subset DEF Holders
    <2> QED
        BY <1>2, <2>1, FS_CardinalityType
<1>4. CASE t.pc \in Holding
    <2>1. Holders' = Holders \union {u}
        BY <1>1, <1>4 DEF Holders
    <2>2. u \in Holders <=> task[u].pc \in Holding
        BY DEF Holders
    <2>3. Cardinality(Holders \union {u})
              = IF u \in Holders THEN Cardinality(Holders)
                                 ELSE Cardinality(Holders) + 1
        BY <1>2, FS_AddElement
    <2> QED
        BY <1>4, <1>3, <2>1, <2>2, <2>3 DEF Held
<1>5. CASE t.pc \notin Holding
    <2>1. Holders' = Holders \ {u}
        BY <1>1, <1>5 DEF Holders
    <2>2. u \in Holders <=> task[u].pc \in Holding
        BY DEF Holders
    <2>3. Cardinality(Holders \ {u})
              = IF u \in Holders THEN Cardinality(Holders) - 1
                                 ELSE Cardinality(Holders)
        BY <1>2, FS_RemoveElement
    <2> QED
        BY <1>5, <1>3, <2>1, <2>2, <2>3 DEF Held
<1> QED
    BY <1>4, <1>5, <1>3

\* A step of one task: the slots it takes or loses are those it holds, and its
\* browser is open exactly at the steps that show it.
LEMMA TaskStep ==
    ASSUME RunnerInv, NEW u \in Users, NEW t \in Task, Goto(u, t),
           slots' \in Nat, lost' \in Nat,
           slots' + lost' + Held(t.pc) = slots + lost + Held(task[u].pc),
           sessions' = IF t.pc \in Shown THEN sessions \union {u}
                                         ELSE sessions \ {u},
           enabled' \subseteq enabled,
           creds' \in [Users -> {"none", "valid", "invalid"}],
           row' \in [Users -> Row],
           late' \in [Users -> Writes \union {"none"}],
           main' \in Main,
           main'.todo \intersect main'.want
               \subseteq main.todo \intersect main.want,
           walled' \subseteq Users,
           UNCHANGED staleStarts
    PROVE  RunnerInv'
<1>1. \A v \in Users : task'[v] = IF v = u THEN t ELSE task[v]
    BY DEF Goto, RunnerInv, TypeOK
<1>2. task' \in [Users -> Task]
    BY DEF Goto, RunnerInv, TypeOK
<1>3. TypeOK'
    BY <1>2 DEF RunnerInv, TypeOK, Row, Main, Task
<1>4. SlotsAccounted'
    <2>1. /\ Cardinality(Holders) \in Nat
          /\ Cardinality(Holders') \in Nat
          /\ Cardinality(Holders') + Held(task[u].pc)
                 = Cardinality(Holders) + Held(t.pc)
        BY HoldersMove DEF RunnerInv
    <2>2. slots \in Nat /\ lost \in Nat /\ Cap \in Nat
        BY RunnerAssumption DEF RunnerInv, TypeOK
    <2>3. Held(t.pc) \in Nat /\ Held(task[u].pc) \in Nat
        BY DEF Held
    <2> QED
        BY <2>1, <2>2, <2>3 DEF RunnerInv, SlotsAccounted
<1>5. SessionsOwned'
    BY <1>1 DEF RunnerInv, SessionsOwned
<1>6. StaleInv'
    BY DEF RunnerInv, StaleInv
<1> QED
    BY <1>3, <1>4, <1>5, <1>6 DEF RunnerInv

\* A step that moves no task.
LEMMA StillStep ==
    ASSUME RunnerInv, UNCHANGED <<task, browsers>>,
           enabled' \subseteq Users,
           creds' \in [Users -> {"none", "valid", "invalid"}],
           row' \in [Users -> Row],
           late' \in [Users -> Writes \union {"none"}],
           main' \in Main,
           walled' \subseteq Users,
           staleStarts' \in [Users -> Nat],
           StaleInv'
    PROVE  RunnerInv'
<1>1. TypeOK'
    BY DEF RunnerInv, TypeOK, browsers, Row, Main, Task
<1>2. SlotsAccounted'
    BY DEF RunnerInv, SlotsAccounted, Holders, browsers
<1>3. SessionsOwned'
    BY DEF RunnerInv, SessionsOwned, browsers
<1> QED
    BY <1>1, <1>2, <1>3 DEF RunnerInv

\* What a task knows of itself.
LEMMA TaskFacts ==
    ASSUME RunnerInv, NEW u \in Users
    PROVE  /\ task[u] \in Task
           /\ u \in sessions <=> task[u].pc \in Shown
           /\ slots \in Nat /\ lost \in Nat
           /\ Gone \in Task /\ Gone.pc = "none"
           /\ creds \in [Users -> {"none", "valid", "invalid"}]
           /\ row \in [Users -> Row]
           /\ late \in [Users -> Writes \union {"none"}]
           /\ main \in Main
           /\ walled \subseteq Users
<1> QED
    BY DEF RunnerInv, TypeOK, SessionsOwned, Gone, At, Task, Pc, Row, Main

\* A step inside a task that neither takes nor gives back a slot, and opens or
\* closes no browser.
LEMMA PlainStep ==
    ASSUME RunnerInv, NEW u \in Users, NEW t \in Task, Goto(u, t),
           t.pc \in Holding <=> task[u].pc \in Holding,
           t.pc \in Shown <=> task[u].pc \in Shown,
           UNCHANGED <<browsers, late, main, staleStarts>>,
           enabled' \subseteq enabled,
           creds' \in [Users -> {"none", "valid", "invalid"}],
           row' \in [Users -> Row],
           walled' \subseteq Users
    PROVE  RunnerInv'
<1> USE TaskFacts
<1>1. Held(t.pc) = Held(task[u].pc)
    BY DEF Held
<1>2. sessions' = IF t.pc \in Shown THEN sessions \union {u}
                                    ELSE sessions \ {u}
    BY DEF browsers
<1>3. slots' = slots /\ lost' = lost
    BY DEF browsers
<1> QED
    BY <1>1, <1>2, <1>3, TaskStep

\* The tables are the same, or one of them was written once.
LEMMA TablesKept ==
    ASSUME RunnerInv, UNCHANGED tables
    PROVE  /\ enabled' \subseteq enabled
           /\ creds' \in [Users -> {"none", "valid", "invalid"}]
           /\ row' \in [Users -> Row]
<1> QED
    BY DEF RunnerInv, TypeOK, tables, Row

\* A task that ends early, wherever it is: it still closes an open browser,
\* stops one being closed, and gives up or loses the slot it held.
LEMMA UnwindStep ==
    ASSUME RunnerInv, NEW u \in Users, NEW leaks, Unwind(u, leaks),
           leaks \subseteq {"starting", "launching", "stopping"},
           {task[u].pc} \intersect {"starting", "launching", "stopping"}
               \subseteq leaks,
           UNCHANGED <<tables, walled, staleStarts>>,
           late' \in [Users -> Writes \union {"none"}],
           main' \in Main,
           main'.todo \intersect main'.want
               \subseteq main.todo \intersect main.want
    PROVE  RunnerInv'
<1>1. /\ task[u] \in Task
      /\ u \in sessions <=> task[u].pc \in Shown
      /\ slots \in Nat /\ lost \in Nat
    BY TaskFacts
<1>2. /\ enabled' \subseteq enabled
      /\ creds' \in [Users -> {"none", "valid", "invalid"}]
      /\ row' \in [Users -> Row]
    BY TablesKept
<1>3. walled' \subseteq Users /\ UNCHANGED staleStarts
    BY TaskFacts
<1>4. CASE u \in sessions
    <2> DEFINE t == Closing("closing", "end")
    <2>1. t \in Task /\ t.pc = "closing"
        BY DEF Closing, Task, Pc
    <2>2. Goto(u, t) /\ sessions' = sessions \ {u}
          /\ slots' = slots /\ lost' = lost
        BY <1>4 DEF Unwind, Close
    <2>3. Held(t.pc) = 1 /\ Held(task[u].pc) = 1
        BY <1>1, <1>4, <2>1 DEF Held, Holding
    <2>4. sessions' = IF t.pc \in Shown THEN sessions \union {u}
                                        ELSE sessions \ {u}
        BY <2>1, <2>2 DEF Shown
    <2> HIDE DEF t
    <2> QED
        BY <1>1, <1>2, <1>3, <2>1, <2>2, <2>3, <2>4, TaskStep
<1>5. CASE u \notin sessions /\ task[u].pc = "closing"
    <2> DEFINE t == Closing("stopping", "end")
    <2>1. t \in Task /\ t.pc = "stopping"
        BY DEF Closing, Task, Pc
    <2>2. Goto(u, t) /\ sessions' = sessions
          /\ slots' = slots /\ lost' = lost
        BY <1>5 DEF Unwind
    <2>3. Held(t.pc) = 1 /\ Held(task[u].pc) = 1
        BY <1>5, <2>1 DEF Held, Holding
    <2>4. sessions' = IF t.pc \in Shown THEN sessions \union {u}
                                        ELSE sessions \ {u}
        BY <1>5, <2>1, <2>2 DEF Shown
    <2> HIDE DEF t
    <2> QED
        BY <1>1, <1>2, <1>3, <2>1, <2>2, <2>3, <2>4, TaskStep
<1>6. CASE u \notin sessions /\ task[u].pc # "closing"
    <2>1. Gone \in Task /\ Gone.pc = "none" /\ Held(Gone.pc) = 0
        BY TaskFacts DEF Held, Holding, Shown
    <2>2. Goto(u, Gone) /\ sessions' = sessions /\ slots' = slots
        BY <1>6 DEF Unwind
    <2>3. lost' = lost + Held(task[u].pc)
        <3>1. CASE task[u].pc \in leaks
            BY <1>1, <1>6, <3>1 DEF Unwind, Held, Holding
        <3>2. CASE task[u].pc \notin leaks
            <4>1. task[u].pc \notin Holding
                BY <1>1, <1>6, <3>2 DEF Holding
            <4> QED
                BY <1>1, <1>6, <3>2, <4>1 DEF Unwind, Held
        <3> QED
            BY <3>1, <3>2
    <2>4. sessions' = IF Gone.pc \in Shown THEN sessions \union {u}
                                           ELSE sessions \ {u}
        BY <1>6, <2>1, <2>2 DEF Shown
    <2>5. Held(task[u].pc) \in Nat
        BY DEF Held
    <2>6. slots' \in Nat /\ lost' \in Nat
          /\ slots' + lost' + Held(Gone.pc)
                 = slots + lost + Held(task[u].pc)
        BY <1>1, <2>1, <2>2, <2>3, <2>5
    <2> QED
        BY <1>1, <1>2, <1>3, <2>1, <2>2, <2>4, <2>6, TaskStep
<1> QED
    BY <1>4, <1>5, <1>6

-----------------------------------------------------------------------------
(* The apply loop and the pause.                                            *)

LEMMA LoopSteps ==
    ASSUME RunnerInv, NEW u \in Users, LoopNext(u)
    PROVE  RunnerInv'
<1> DEFINE Plain(t) == /\ t \in Task
                       /\ Goto(u, t)
                       /\ t.pc \notin Holding /\ task[u].pc \notin Holding
                       /\ t.pc \notin Shown /\ task[u].pc \notin Shown
                       /\ UNCHANGED <<browsers, late, main, staleStarts>>
                       /\ walled' \subseteq Users
<1>1. TypeOK
    BY DEF RunnerInv
<1>2. ASSUME NEW t, Plain(t), UNCHANGED tables \/ \E w \in Writes : Write(u, w)
      PROVE  RunnerInv'
    <2>1. /\ enabled' \subseteq enabled
          /\ creds' \in [Users -> {"none", "valid", "invalid"}]
          /\ row' \in [Users -> Row]
        BY <1>1, <1>2, TablesKept, WriteFacts
    <2> QED
        BY <1>2, <2>1, PlainStep
<1>3. walled \subseteq Users /\ walled \union {u} \subseteq Users
    BY TaskFacts
<1>4. \A pc \in Pc : At(pc, FALSE) \in Task /\ At(pc, FALSE).pc = pc
    BY DEF At, Task
<1>5. CASE StartApply(u)
    <2>1. Plain(At("apply", FALSE)) /\ UNCHANGED tables
        BY <1>3, <1>4, <1>5 DEF StartApply, Holding, Shown, Pc
    <2> QED
        BY <1>2, <2>1
<1>6. CASE ApplyEnds(u)
    <2>1. Plain(At("loop", FALSE)) /\ UNCHANGED tables
        BY <1>3, <1>4, <1>6 DEF ApplyEnds, Holding, Shown, Pc
    <2> QED
        BY <1>2, <2>1
<1>7. CASE ApplyCaptcha(u)
    <2>1. Plain(At("cookies", FALSE))
        BY <1>3, <1>4, <1>7 DEF ApplyCaptcha, Holding, Shown, Pc
    <2>2. UNCHANGED tables \/ \E w \in Writes : Write(u, w)
        BY <1>7 DEF ApplyCaptcha, Writes
    <2> QED
        BY <1>2, <2>1, <2>2
<1>8. CASE ApplyDead(u)
    <2>1. Plain(At("disable", FALSE))
        BY <1>3, <1>4, <1>8 DEF ApplyDead, Holding, Shown, Pc
    <2>2. \E w \in Writes : Write(u, w)
        BY <1>8 DEF ApplyDead, Writes
    <2> QED
        BY <1>2, <2>1, <2>2
<1>9. CASE DisableWorker(u)
    <2>1. Plain(Gone)
        BY <1>3, <1>9, TaskFacts DEF DisableWorker, Holding, Shown
    <2>2. UNCHANGED tables \/ \E w \in Writes : Write(u, w)
        BY <1>9 DEF DisableWorker, Writes
    <2> QED
        BY <1>2, <2>1, <2>2
<1>10. CASE LoopDone(u)
    <2>1. Plain(At("disable", FALSE)) /\ UNCHANGED tables
        BY <1>3, <1>4, <1>10 DEF LoopDone, Holding, Shown, Pc
    <2> QED
        BY <1>2, <2>1
<1> QED
    BY <1>5, <1>6, <1>7, <1>8, <1>9, <1>10 DEF LoopNext

\* A step of a task that leaves the tables and the pass alone.
LEMMA BrowserStep ==
    ASSUME RunnerInv, NEW u \in Users, NEW t \in Task, Goto(u, t),
           slots' \in Nat, lost' = lost,
           slots' + Held(t.pc) = slots + Held(task[u].pc),
           sessions' = IF t.pc \in Shown THEN sessions \union {u}
                                         ELSE sessions \ {u},
           walled' \subseteq Users,
           UNCHANGED <<tables, late, main, staleStarts>>
    PROVE  RunnerInv'
<1>1. /\ slots \in Nat /\ lost \in Nat
      /\ late \in [Users -> Writes \union {"none"}]
      /\ main \in Main
    BY TaskFacts
<1>2. /\ enabled' \subseteq enabled
      /\ creds' \in [Users -> {"none", "valid", "invalid"}]
      /\ row' \in [Users -> Row]
    BY TablesKept
<1>3. Held(t.pc) \in Nat /\ Held(task[u].pc) \in Nat
    BY DEF Held
<1>4. slots' + lost' + Held(t.pc) = slots + lost + Held(task[u].pc)
    BY <1>1, <1>3
<1> QED
    BY <1>1, <1>2, <1>4, TaskStep

\* The steps that open a browser.
LEMMA OpenSteps ==
    ASSUME RunnerInv, NEW u \in Users,
           LoadCookies(u) \/ TakeSlot(u) \/ StartPlaywright(u) \/ Launch(u)
    PROVE  RunnerInv'
<1>1. /\ task[u] \in Task
      /\ u \in sessions <=> task[u].pc \in Shown
      /\ slots \in Nat /\ walled \subseteq Users
      /\ row \in [Users -> Row]
    BY TaskFacts
<1>2. \A pc \in Pc, k \in BOOLEAN :
          At(pc, k) \in Task /\ At(pc, k).pc = pc
    BY DEF At, Task
<1>3. task[u].knows \in BOOLEAN /\ row[u].open \in BOOLEAN
    BY <1>1 DEF Task, Row
<1>4. CASE LoadCookies(u)
    <2> DEFINE t == At(IF creds[u] = "none" THEN "disable" ELSE "open", FALSE)
    <2>1. t \in Task /\ t.pc \in {"disable", "open"}
        BY <1>2 DEF Pc
    <2>2. Goto(u, t) /\ task[u].pc = "cookies"
          /\ UNCHANGED <<tables, browsers, late, main, walled, staleStarts>>
        BY <1>4 DEF LoadCookies
    <2> HIDE DEF t
    <2>3. Held(t.pc) = 0 /\ Held(task[u].pc) = 0
        BY <2>1, <2>2 DEF Held, Holding, Shown
    <2>4. sessions' = IF t.pc \in Shown THEN sessions \union {u}
                                        ELSE sessions \ {u}
        BY <1>1, <2>1, <2>2 DEF browsers, Shown
    <2> QED
        BY <1>1, <2>1, <2>2, <2>3, <2>4, BrowserStep DEF browsers
<1>5. CASE TakeSlot(u) /\ slots = 0
    <2> DEFINE t == At("cookies", FALSE)
    <2>1. t \in Task /\ t.pc = "cookies"
        BY <1>2 DEF Pc
    <2>2. Goto(u, t) /\ task[u].pc = "open" /\ UNCHANGED slots
          /\ UNCHANGED <<tables, sessions, lost, late, main, walled,
                         staleStarts>>
        BY <1>5 DEF TakeSlot
    <2> HIDE DEF t
    <2>3. Held(t.pc) = 0 /\ Held(task[u].pc) = 0
        BY <2>1, <2>2 DEF Held, Holding, Shown
    <2>4. sessions' = IF t.pc \in Shown THEN sessions \union {u}
                                        ELSE sessions \ {u}
        BY <1>1, <2>1, <2>2 DEF Shown
    <2> QED
        BY <1>1, <2>1, <2>2, <2>3, <2>4, BrowserStep
<1>6. CASE TakeSlot(u) /\ slots # 0
    <2> DEFINE t == At("starting", row[u].open)
    <2>1. t \in Task /\ t.pc = "starting"
        BY <1>2, <1>3 DEF Pc
    <2>2. Goto(u, t) /\ task[u].pc = "open" /\ slots' = slots - 1
          /\ UNCHANGED <<tables, sessions, lost, late, main, walled,
                         staleStarts>>
        BY <1>6 DEF TakeSlot
    <2> HIDE DEF t
    <2>3. Held(t.pc) = 1 /\ Held(task[u].pc) = 0
        BY <2>1, <2>2 DEF Held, Holding, Shown
    <2>4. sessions' = IF t.pc \in Shown THEN sessions \union {u}
                                        ELSE sessions \ {u}
        BY <1>1, <2>1, <2>2 DEF Shown
    <2>5. slots' \in Nat
          /\ slots' + Held(t.pc) = slots + Held(task[u].pc)
        BY <1>1, <1>6, <2>2, <2>3
    <2> QED
        BY <1>1, <2>1, <2>2, <2>4, <2>5, BrowserStep
<1>7. CASE StartPlaywright(u)
    <2> DEFINE t == At("launching", task[u].knows)
    <2>1. t \in Task /\ t.pc = "launching"
        BY <1>2, <1>3 DEF Pc
    <2>2. Goto(u, t) /\ task[u].pc = "starting"
          /\ UNCHANGED <<tables, browsers, late, main, walled, staleStarts>>
        BY <1>7 DEF StartPlaywright
    <2> HIDE DEF t
    <2>3. Held(t.pc) = 1 /\ Held(task[u].pc) = 1
        BY <2>1, <2>2 DEF Held, Holding
    <2>4. sessions' = IF t.pc \in Shown THEN sessions \union {u}
                                        ELSE sessions \ {u}
        BY <1>1, <2>1, <2>2 DEF browsers, Shown
    <2> QED
        BY <1>1, <2>1, <2>2, <2>3, <2>4, BrowserStep DEF browsers
<1>8. CASE Launch(u)
    <2> DEFINE t == At("reading", task[u].knows)
    <2>1. t \in Task /\ t.pc = "reading"
        BY <1>2, <1>3 DEF Pc
    <2>2. Goto(u, t) /\ task[u].pc = "launching"
          /\ sessions' = sessions \union {u}
          /\ UNCHANGED <<tables, slots, lost, late, main, walled, staleStarts>>
        BY <1>8 DEF Launch
    <2> HIDE DEF t
    <2>3. Held(t.pc) = 1 /\ Held(task[u].pc) = 1
        BY <2>1, <2>2 DEF Held, Holding, Shown
    <2>4. sessions' = IF t.pc \in Shown THEN sessions \union {u}
                                        ELSE sessions \ {u}
        BY <2>1, <2>2 DEF Shown
    <2> QED
        BY <1>1, <2>1, <2>2, <2>3, <2>4, BrowserStep
<1> QED
    BY <1>4, <1>5, <1>6, <1>7, <1>8

\* close_for and what leads to it: the slot is given back at the end.
LEMMA CloseSteps ==
    ASSUME RunnerInv, NEW u \in Users,
           IdleTimeout(u) \/ CloseBrowser(u) \/ StopPlaywright(u)
    PROVE  RunnerInv'
<1>1. /\ task[u] \in Task
      /\ u \in sessions <=> task[u].pc \in Shown
      /\ slots \in Nat /\ walled \subseteq Users
    BY TaskFacts
<1>2. \A pc \in Pc, n \in {"end", "disable", "persist", "cookies"} :
          Closing(pc, n) \in Task /\ Closing(pc, n).pc = pc
    BY DEF Closing, Task
<1>3. task[u].next \in {"end", "disable", "persist", "cookies"}
    BY <1>1 DEF Task
<1>4. CASE IdleTimeout(u)
    <2> DEFINE t == Closing("closing", "cookies")
    <2>1. t \in Task /\ t.pc = "closing"
        BY <1>2 DEF Pc
    <2>2. Goto(u, t) /\ task[u].pc = "wait" /\ sessions' = sessions \ {u}
          /\ UNCHANGED <<tables, slots, lost, late, main, walled, staleStarts>>
        BY <1>4 DEF IdleTimeout, Close
    <2> HIDE DEF t
    <2>3. Held(t.pc) = 1 /\ Held(task[u].pc) = 1
        BY <2>1, <2>2 DEF Held, Holding, Shown
    <2>4. sessions' = IF t.pc \in Shown THEN sessions \union {u}
                                        ELSE sessions \ {u}
        BY <2>1, <2>2 DEF Shown
    <2> QED
        BY <1>1, <2>1, <2>2, <2>3, <2>4, BrowserStep
<1>5. CASE CloseBrowser(u)
    <2>1. PICK n \in {"end", "disable", "persist", "cookies"} :
              Goto(u, Closing("stopping", n))
        BY <1>3, <1>5 DEF CloseBrowser
    <2> DEFINE t == Closing("stopping", n)
    <2>2. t \in Task /\ t.pc = "stopping" /\ Goto(u, t)
        BY <1>2, <2>1 DEF Pc
    <2>3. task[u].pc = "closing"
          /\ UNCHANGED <<tables, browsers, late, main, walled, staleStarts>>
        BY <1>5 DEF CloseBrowser
    <2> HIDE DEF t
    <2>4. Held(t.pc) = 1 /\ Held(task[u].pc) = 1
        BY <2>2, <2>3 DEF Held, Holding
    <2>5. sessions' = IF t.pc \in Shown THEN sessions \union {u}
                                        ELSE sessions \ {u}
        BY <1>1, <2>2, <2>3 DEF browsers, Shown
    <2> QED
        BY <1>1, <2>2, <2>3, <2>4, <2>5, BrowserStep DEF browsers
<1>6. CASE StopPlaywright(u)
    <2> DEFINE t == IF task[u].next = "end" THEN Gone
                    ELSE At(task[u].next, FALSE)
    <2>1. t \in Task /\ t.pc \in {"none", "disable", "persist", "cookies"}
        BY <1>3 DEF Gone, At, Task, Pc
    <2>2. Goto(u, t) /\ task[u].pc = "stopping" /\ slots' = slots + 1
          /\ UNCHANGED <<tables, sessions, lost, late, main, walled,
                         staleStarts>>
        BY <1>6 DEF StopPlaywright
    <2> HIDE DEF t
    <2>3. Held(t.pc) = 0 /\ Held(task[u].pc) = 1
        BY <2>1, <2>2 DEF Held, Holding, Shown
    <2>4. sessions' = IF t.pc \in Shown THEN sessions \union {u}
                                        ELSE sessions \ {u}
        BY <1>1, <2>1, <2>2 DEF Shown
    <2>5. slots' \in Nat
          /\ slots' + Held(t.pc) = slots + Held(task[u].pc)
        BY <1>1, <2>2, <2>3
    <2> QED
        BY <1>1, <2>1, <2>2, <2>4, <2>5, BrowserStep
<1> QED
    BY <1>4, <1>5, <1>6

\* What the browser shows, and the answer that is typed into it.
LEMMA ShownSteps ==
    ASSUME RunnerInv, NEW u \in Users,
           ReadPage(u) \/ PollAnswer(u) \/ ClearAnswer(u)
    PROVE  RunnerInv'
<1>1. /\ task[u] \in Task
      /\ u \in sessions <=> task[u].pc \in Shown
      /\ slots \in Nat /\ walled \subseteq Users
    BY TaskFacts
<1>2. \A pc \in Pc, k \in BOOLEAN :
          At(pc, k) \in Task /\ At(pc, k).pc = pc
    BY DEF At, Task
<1>3. task[u].knows \in BOOLEAN
    BY <1>1 DEF Task
<1>4. CASE ReadPage(u)
    <2>1. /\ task[u].pc \in {"reading", "submit"}
          /\ UNCHANGED <<tables, slots, lost, late, main, staleStarts>>
          /\ walled' \subseteq Users
        BY <1>1, <1>4 DEF ReadPage
    <2>2. Held(task[u].pc) = 1 /\ u \in sessions
        BY <1>1, <2>1 DEF Held, Holding, Shown
    <2>3. CASE Goto(u, At("wait", task[u].knows)) /\ UNCHANGED sessions
        <3> DEFINE t == At("wait", task[u].knows)
        <3>1. t \in Task /\ t.pc = "wait" /\ Goto(u, t)
            BY <1>2, <1>3, <2>3 DEF Pc
        <3> HIDE DEF t
        <3>2. Held(t.pc) = 1
            BY <3>1 DEF Held, Holding, Shown
        <3>3. sessions' = IF t.pc \in Shown THEN sessions \union {u}
                                            ELSE sessions \ {u}
            BY <2>2, <2>3, <3>1 DEF Shown
        <3> QED
            BY <1>1, <2>1, <2>2, <3>1, <3>2, <3>3, BrowserStep
    <2>4. CASE \E n \in {"disable", "persist"} : Close(u, n)
        <3>1. PICK n \in {"disable", "persist"} : Close(u, n)
            BY <2>4
        <3> DEFINE t == Closing("closing", n)
        <3>2. t \in Task /\ t.pc = "closing"
            BY DEF Closing, Task, Pc
        <3>3. Goto(u, t) /\ sessions' = sessions \ {u}
            BY <3>1 DEF Close
        <3> HIDE DEF t
        <3>4. Held(t.pc) = 1
            BY <3>2 DEF Held, Holding
        <3>5. sessions' = IF t.pc \in Shown THEN sessions \union {u}
                                            ELSE sessions \ {u}
            BY <3>2, <3>3 DEF Shown
        <3> QED
            BY <1>1, <2>1, <2>2, <3>2, <3>3, <3>4, <3>5, BrowserStep
    <2> QED
        BY <1>4, <2>3, <2>4 DEF ReadPage
<1>5. CASE PollAnswer(u)
    <2> DEFINE t == At("clear", TRUE)
    <2>1. t \in Task /\ t.pc = "clear" /\ Goto(u, t)
        BY <1>2, <1>5 DEF Pc, PollAnswer
    <2>2. /\ task[u].pc = "wait"
          /\ UNCHANGED <<browsers, late, main, staleStarts>>
          /\ UNCHANGED tables /\ walled' \subseteq Users
        BY <1>1, <1>5 DEF PollAnswer
    <2> HIDE DEF t
    <2> QED
        BY <2>1, <2>2, TablesKept, PlainStep DEF Holding, Shown
<1>6. CASE ClearAnswer(u)
    <2> DEFINE t == At("submit", TRUE)
    <2>1. t \in Task /\ t.pc = "submit" /\ Goto(u, t)
        BY <1>2, <1>6 DEF Pc, ClearAnswer
    <2>2. /\ task[u].pc = "clear"
          /\ UNCHANGED <<browsers, late, main, staleStarts>>
          /\ Write(u, "clear") /\ walled' \subseteq Users
        BY <1>1, <1>6 DEF ClearAnswer
    <2>3. /\ enabled' \subseteq enabled
          /\ creds' \in [Users -> {"none", "valid", "invalid"}]
          /\ row' \in [Users -> Row]
        BY <2>2, WriteFacts DEF RunnerInv
    <2> HIDE DEF t
    <2> QED
        BY <2>1, <2>2, <2>3, PlainStep DEF Holding, Shown
<1> QED
    BY <1>4, <1>5, <1>6

\* After the wall is lifted: the session is stored and the request closed.
LEMMA ResumeSteps ==
    ASSUME RunnerInv, NEW u \in Users, PersistSession(u) \/ MarkSolved(u)
    PROVE  RunnerInv'
<1>1. PICK t \in Task, w \in Writes :
          /\ Goto(u, t) /\ Write(u, w)
          /\ t.pc \in {"solve", "loop"} /\ task[u].pc \in {"persist", "solve"}
          /\ UNCHANGED <<browsers, late, main, walled, staleStarts>>
    <2>1. \A pc \in Pc : At(pc, FALSE) \in Task /\ At(pc, FALSE).pc = pc
        BY DEF At, Task
    <2>2. CASE PersistSession(u)
        BY <2>1, <2>2 DEF PersistSession, Pc, Writes
    <2>3. CASE MarkSolved(u)
        BY <2>1, <2>3 DEF MarkSolved, Pc, Writes
    <2> QED
        BY <2>2, <2>3
<1>2. /\ enabled' \subseteq enabled
      /\ creds' \in [Users -> {"none", "valid", "invalid"}]
      /\ row' \in [Users -> Row]
    BY <1>1, WriteFacts DEF RunnerInv
<1>3. walled' \subseteq Users
    BY <1>1, TaskFacts
<1>4. /\ t.pc \notin Holding /\ task[u].pc \notin Holding
      /\ t.pc \notin Shown /\ task[u].pc \notin Shown
    BY <1>1 DEF Holding, Shown
<1> QED
    BY <1>1, <1>2, <1>3, <1>4, PlainStep

-----------------------------------------------------------------------------
(* Crashes, cancellation and the reconcile pass.                            *)

LEMMA CrashSteps ==
    ASSUME RunnerInv, NEW u \in Users, Raises(u)
    PROVE  RunnerInv'
<1>1. /\ task[u] \in Task
      /\ u \in sessions <=> task[u].pc \in Shown
      /\ slots \in Nat /\ walled \subseteq Users
      /\ late \in [Users -> Writes \union {"none"}]
      /\ main \in Main
    BY TaskFacts
<1>2. CASE task[u].pc = "launching"
    <2> DEFINE t == Closing("stopping", "end")
    <2>1. t \in Task /\ t.pc = "stopping" /\ Goto(u, t)
        BY <1>2 DEF Closing, Task, Pc, Raises
    <2>2. UNCHANGED <<tables, browsers, late, main, walled, staleStarts>>
        BY <1>2 DEF Raises
    <2> HIDE DEF t
    <2>3. Held(t.pc) = 1 /\ Held(task[u].pc) = 1
        BY <1>2, <2>1 DEF Held, Holding
    <2>4. sessions' = IF t.pc \in Shown THEN sessions \union {u}
                                        ELSE sessions \ {u}
        BY <1>1, <1>2, <2>1, <2>2 DEF browsers, Shown
    <2> QED
        BY <1>1, <2>1, <2>2, <2>3, <2>4, BrowserStep DEF browsers
<1>3. CASE task[u].pc # "launching"
    <2>1. /\ Unwind(u, {"starting", "stopping"})
          /\ UNCHANGED <<tables, late, main, walled, staleStarts>>
        BY <1>3 DEF Raises
    <2> QED
        BY <1>1, <1>3, <2>1, UnwindStep
<1> QED
    BY <1>2, <1>3

LEMMA CancelSteps ==
    ASSUME RunnerInv, NEW u \in Users, CancelLoop(u)
    PROVE  RunnerInv'
<1>1. main \in Main /\ late \in [Users -> Writes \union {"none"}]
    BY TaskFacts
<1>2. Unwind(u, {"starting", "launching", "stopping"})
      /\ UNCHANGED <<tables, walled, staleStarts>>
    BY DEF CancelLoop, Cancel
<1>3. late' \in [Users -> Writes \union {"none"}]
    <2>1. InFlight(task[u].pc) \subseteq Writes
        BY DEF InFlight, Writes
    <2> QED
        BY <1>1, <2>1 DEF CancelLoop, Cancel
<1>4. main' = Pass("await", {u}, main.want, main.todo \ {u})
    BY DEF CancelLoop
<1>5. main' \in Main /\ main'.todo \intersect main'.want
                            \subseteq main.todo \intersect main.want
    BY <1>1, <1>4 DEF Pass, Main
<1> QED
    BY <1>2, <1>3, <1>5, UnwindStep

\* A thread that outlives its task.
LEMMA LateSteps ==
    ASSUME RunnerInv, NEW u \in Users, LateWrite(u)
    PROVE  RunnerInv'
<1>1. /\ late \in [Users -> Writes \union {"none"}]
      /\ main \in Main /\ walled \subseteq Users
      /\ staleStarts \in [Users -> Nat] /\ enabled \subseteq Users
    BY TaskFacts DEF RunnerInv, TypeOK
<1>2. /\ enabled' \subseteq enabled
      /\ creds' \in [Users -> {"none", "valid", "invalid"}]
      /\ row' \in [Users -> Row]
    BY WriteFacts DEF LateWrite, RunnerInv
<1>3. UNCHANGED <<task, browsers, main, walled, staleStarts>>
      /\ late' \in [Users -> Writes \union {"none"}]
    BY <1>1 DEF LateWrite
<1>4. StaleInv'
    BY <1>2, <1>3 DEF RunnerInv, StaleInv
<1> QED
    BY <1>1, <1>2, <1>3, <1>4, StillStep

\* The pass between two loops: what it wants it has just read as on.
LEMMA PassSteps ==
    ASSUME RunnerInv,
           ReadCreds \/ ReadFlags \/ PassFails \/ Awaited \/ PassEnds
               \/ \E u \in Users : LeaveAlone(u)
    PROVE  RunnerInv'
<1>1. /\ main \in Main /\ enabled \subseteq Users
      /\ creds \in [Users -> {"none", "valid", "invalid"}]
      /\ row \in [Users -> Row]
      /\ late \in [Users -> Writes \union {"none"}]
      /\ walled \subseteq Users /\ staleStarts \in [Users -> Nat]
    BY DEF RunnerInv, TypeOK, Main, Row
<1>2. UNCHANGED <<tables, task, browsers, late, walled, staleStarts>>
    BY DEF ReadCreds, ReadFlags, PassFails, Awaited, PassEnds, LeaveAlone
<1>3. main' \in Main
      /\ main'.todo \intersect main'.want
             \subseteq enabled \union (main.todo \intersect main.want)
    <2>1. CASE ReadCreds
        BY <1>1, <2>1 DEF ReadCreds, Pass, Main
    <2>2. CASE ReadFlags
        <3> DEFINE want == main.who \intersect enabled
        <3>1. main' = Pass("users", {}, want, want \union Live)
            BY <2>2 DEF ReadFlags
        <3>2. want \subseteq Users /\ Live \subseteq Users
              /\ want \subseteq enabled
            BY <1>1 DEF Live
        <3> HIDE DEF want
        <3> QED
            BY <3>1, <3>2 DEF Pass, Main
    <2>3. CASE PassFails \/ PassEnds
        BY <1>1, <2>3 DEF PassFails, PassEnds, Idle, Pass, Main
    <2>4. CASE Awaited
        BY <1>1, <2>4 DEF Awaited, Pass, Main
    <2>5. CASE \E u \in Users : LeaveAlone(u)
        BY <1>1, <2>5 DEF LeaveAlone, Main
    <2> QED
        BY <2>1, <2>2, <2>3, <2>4, <2>5
<1>4. StaleInv'
    BY <1>2, <1>3 DEF RunnerInv, StaleInv, tables
<1> QED
    BY <1>1, <1>2, <1>3, <1>4, StillStep DEF tables

\* A new loop holds nothing; if its switch is off, that was its stale start.
LEMMA StartSteps ==
    ASSUME RunnerInv, NEW u \in Users, StartLoop(u)
    PROVE  RunnerInv'
<1>1. task[u] \in Task /\ task[u].pc = "none"
      /\ sessions \subseteq Users /\ u \notin sessions
    BY TaskFacts DEF StartLoop, Live, RunnerInv, TypeOK, Shown
<1> DEFINE t == At("loop", FALSE)
<1>2. t \in Task /\ t.pc = "loop" /\ Goto(u, t)
    BY DEF At, Task, Pc, StartLoop
<1>3. UNCHANGED <<tables, browsers, late, walled>>
    BY DEF StartLoop
<1> HIDE DEF t
<1>4. \A v \in Users : task'[v] = IF v = u THEN t ELSE task[v]
    BY <1>2 DEF Goto, RunnerInv, TypeOK
<1>5. staleStarts' \in [Users -> Nat] /\ main' \in Main
    <2>1. staleStarts \in [Users -> Nat] /\ main \in Main
        BY DEF RunnerInv, TypeOK, Main
    <2>2. staleStarts' \in [Users -> Nat]
        BY <2>1 DEF StartLoop
    <2>3. main' = [main EXCEPT !.todo = @ \ {u}]
        BY DEF StartLoop
    <2>4. main' \in Main
        BY <2>1, <2>3 DEF Main
    <2> QED
        BY <2>2, <2>4
<1>6. TypeOK'
    <2>1. task' \in [Users -> Task]
        BY <1>2 DEF Goto, RunnerInv, TypeOK
    <2> QED
        BY <1>3, <1>5, <2>1 DEF RunnerInv, TypeOK, tables, browsers, Main
<1>7. SlotsAccounted'
    <2>1. Holders' = Holders
        BY <1>1, <1>2, <1>4 DEF Holders, Holding, Shown
    <2> QED
        BY <1>3, <2>1 DEF RunnerInv, SlotsAccounted, browsers
<1>8. SessionsOwned'
    BY <1>1, <1>2, <1>3, <1>4 DEF RunnerInv, SessionsOwned, browsers, Shown
<1>9. StaleInv'
    <2>1. staleStarts[u] = 0 /\ staleStarts \in [Users -> Nat]
        BY DEF StartLoop, RunnerInv, StaleInv, TypeOK
    <2>2. main'.todo = main.todo \ {u} /\ main'.want = main.want
        BY DEF StartLoop, RunnerInv, TypeOK
    <2> QED
        BY <1>3, <2>1, <2>2 DEF StartLoop, RunnerInv, StaleInv, tables
<1> QED
    BY <1>6, <1>7, <1>8, <1>9 DEF RunnerInv

LEMMA RestartSteps ==
    ASSUME RunnerInv, Restart
    PROVE  RunnerInv'
<1>1. TypeOK'
    BY RunnerAssumption
       DEF Restart, RunnerInv, TypeOK, tables, Gone, At, Task, Pc, Idle, Pass,
           Writes
<1>2. SlotsAccounted'
    <2>1. Holders' = {}
        BY DEF Restart, Holders, Holding, Shown, Gone, At
    <2> QED
        BY <2>1, FS_EmptySet, RunnerAssumption DEF Restart, SlotsAccounted
<1>3. SessionsOwned'
    BY DEF Restart, SessionsOwned, Shown, Gone, At
<1>4. StaleInv'
    BY DEF Restart, RunnerInv, StaleInv, tables, Idle, Pass
<1> QED
    BY <1>1, <1>2, <1>3, <1>4 DEF RunnerInv

\* What the user presses reaches the tables only.
LEMMA UserSteps ==
    ASSUME RunnerInv, NEW u \in Users, UserNext(u)
    PROVE  RunnerInv'
<1>1. /\ main \in Main /\ enabled \subseteq Users
      /\ creds \in [Users -> {"none", "valid", "invalid"}]
      /\ row \in [Users -> Row]
      /\ late \in [Users -> Writes \union {"none"}]
      /\ walled \subseteq Users /\ staleStarts \in [Users -> Nat]
    BY DEF RunnerInv, TypeOK, Main, Row
<1>2. UNCHANGED <<task, browsers, late, main>>
    BY DEF UserNext, Start, Stop, Connection, Solve, Dismiss
<1>3. /\ enabled' \subseteq Users
      /\ walled' \subseteq Users /\ staleStarts' \in [Users -> Nat]
    BY <1>1 DEF UserNext, Start, Stop, Connection, Solve, Dismiss
<1>4. creds' \in [Users -> {"none", "valid", "invalid"}]
    BY <1>1 DEF UserNext, Start, Stop, Connection, Solve, Dismiss
<1>5. row' \in [Users -> Row]
    <2>1. CASE Start(u) \/ Stop(u) \/ Connection(u)
        BY <1>1, <2>1 DEF Start, Stop, Connection
    <2>2. CASE Solve(u)
        BY <1>1, <2>2 DEF Solve, Row
    <2>3. CASE Dismiss(u)
        BY <1>1, <2>3 DEF Dismiss, Row
    <2> QED
        BY <2>1, <2>2, <2>3 DEF UserNext
<1>6. StaleInv'
    <2>1. CASE Start(u)
        BY <1>1, <1>2, <2>1 DEF Start, RunnerInv, StaleInv
    <2>2. CASE ~Start(u)
        <3>1. enabled' \subseteq enabled /\ UNCHANGED staleStarts
            BY <2>2 DEF UserNext, Stop, Connection, Solve, Dismiss
        <3> QED
            BY <1>2, <3>1 DEF RunnerInv, StaleInv
    <2> QED
        BY <2>1, <2>2
<1> QED
    BY <1>1, <1>2, <1>3, <1>4, <1>5, <1>6, StillStep

-----------------------------------------------------------------------------
(* Theorems.                                                                *)

LEMMA RunnerStart == ASSUME Init PROVE RunnerInv
<1>1. TypeOK
    BY RunnerAssumption
       DEF Init, TypeOK, Gone, At, Task, Pc, Idle, Pass, Writes
<1>2. SlotsAccounted
    <2>1. Holders = {}
        BY DEF Init, Holders, Holding, Shown, Gone, At
    <2> QED
        BY <2>1, FS_EmptySet, RunnerAssumption DEF Init, SlotsAccounted
<1>3. SessionsOwned /\ StaleInv
    BY DEF Init, SessionsOwned, StaleInv, Shown, Gone, At
<1> QED
    BY <1>1, <1>2, <1>3 DEF RunnerInv

\* Every step of the loops, the pass, the user and the process keeps the
\* inductive invariant.
THEOREM Invariance == Spec => []RunnerInv
<1>1. Init => RunnerInv
    BY RunnerStart
<1>2. RunnerInv /\ [Next]_vars => RunnerInv'
    <2> SUFFICES ASSUME RunnerInv, [Next]_vars
                 PROVE  RunnerInv'
        OBVIOUS
    <2>1. ASSUME NEW u \in Users, LoopNext(u) PROVE RunnerInv'
        BY <2>1, LoopSteps
    <2>2. ASSUME NEW u \in Users, PauseNext(u) PROVE RunnerInv'
        BY <2>2, OpenSteps, CloseSteps, ShownSteps, ResumeSteps DEF PauseNext
    <2>3. ASSUME NEW u \in Users, Raises(u) \/ LateWrite(u) \/ UserNext(u)
          PROVE  RunnerInv'
        BY <2>3, CrashSteps, LateSteps, UserSteps
    <2>4. ASSUME PassNext PROVE RunnerInv'
        BY <2>4, PassSteps, StartSteps, CancelSteps DEF PassNext
    <2>5. ASSUME Restart PROVE RunnerInv'
        BY <2>5, RestartSteps
    <2>6. ASSUME UNCHANGED vars PROVE RunnerInv'
        BY <2>6 DEF vars, tables, browsers, RunnerInv, TypeOK, SlotsAccounted,
                    Holders, SessionsOwned, StaleInv
    <2> QED
        BY <2>1, <2>2, <2>3, <2>4, <2>5, <2>6 DEF Next
<1> QED
    BY <1>1, <1>2, PTL DEF Spec

\* The tables, the loops and the pass keep their types: no count of slots goes
\* below zero.
THEOREM TypeCorrect == Spec => []TypeOK
<1>1. RunnerInv => TypeOK
    BY DEF RunnerInv
<1> QED
    BY <1>1, Invariance, PTL

\* However many users pause, crash or are cancelled, every browser slot is
\* free, held by one pause, or lost at an await that close_for and open_for
\* leave unguarded; none is given back twice.
THEOREM SlotsAddUp == Spec => []SlotsAccounted
<1>1. RunnerInv => SlotsAccounted
    BY DEF RunnerInv
<1> QED
    BY <1>1, Invariance, PTL

\* No captcha browser stays open once its loop has ended.
THEOREM OpenBrowsersOwned == Spec => []SessionsOwned
<1>1. RunnerInv => SessionsOwned
    BY DEF RunnerInv
<1> QED
    BY <1>1, Invariance, PTL

\* A pass that works through a snapshot of the switches starts a loop whose
\* switch has gone off at most once.
THEOREM OneStaleStart == Spec => []AtMostOneStaleStart
<1>1. RunnerInv => AtMostOneStaleStart
    BY DEF RunnerInv, StaleInv, AtMostOneStaleStart
<1> QED
    BY <1>1, Invariance, PTL
=============================================================================
