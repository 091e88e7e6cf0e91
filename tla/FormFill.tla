------------------------------ MODULE FormFill ------------------------------
(***************************************************************************)
(* Filling a form from the extension's panel (src/ext/entrypoints/         *)
(* content.ts, lib/snapshot.ts FormFiller, lib/deterministic-fill.ts,      *)
(* lib/edits.ts, lib/marks.ts, lib/panel.ts): a run reads the form, lands  *)
(* the facts it knows, asks the backend for the rest and applies the       *)
(* answers, while the user goes on editing the page; what the user         *)
(* corrected afterwards can be saved for the next form.                    *)
(*                                                                         *)
(* A value is told apart by who chose it: a fact of the profile, the       *)
(* model, the user - or "code", the way a page spells a choice it was      *)
(* given by its label.                                                     *)
(***************************************************************************)
EXTENDS Snapshot

CONSTANTS
    MaxFills,       \* runs the user starts, one after the other (bound)
    MaxEdits,       \* edits the user makes (bound)
    MaxSaves        \* times the user saves edits (bound)

ASSUME FormFillAssumption == MaxFills \in Nat /\ MaxEdits \in Nat /\ MaxSaves \in Nat

VARIABLES
    holds,          \* holds[e]: what element e holds
    run,            \* how far the run is
    queue,          \* the fields still to be applied
    quick,          \* the refs the facts answered in this run
    lastApplied,    \* the fields applied by the last run
    filled,         \* the fields the panel lists as filled
    panelState,     \* the panel's state: it decides which buttons work
    fills, edits, saves,
    corrected,      \* history: elements this run had filled and the user then changed
    overwritten,    \* history: corrections the same run wrote over
    remembered      \* the Q&A pairs sent to the memory: <<label, element, value>>

fillVars == <<snapVars, holds, run, queue, quick, lastApplied, filled, panelState, fills, edits,
              saves, corrected, overwritten, remembered>>

pageVars == <<holds, corrected, overwritten>>
panelVars == <<lastApplied, filled, panelState, remembered>>
countVars == <<fills, edits, saves>>

Values == {"", "profile", "ai", "user", "code", "file"}
Run == {"idle", "reading", "context", "quick", "asking", "ai"}
FillState == {"idle", "working", "done", "saved", "error"}

Entry == [i : 1..Len(fields), value : {"profile", "ai"}]

FillInit ==
    /\ SnapInit
    /\ holds = [e \in Els |-> ""]
    /\ run = "idle"
    /\ queue = <<>> /\ quick = {} /\ lastApplied = {} /\ filled = {}
    /\ panelState = "idle"
    /\ fills = 0 /\ edits = 0 /\ saves = 0
    /\ corrected = {} /\ overwritten = {}
    /\ remembered = {}

FillTypeOK ==
    /\ SnapTypeOK
    /\ holds \in [Els -> Values]
    /\ run \in Run
    /\ queue \in Seq(Entry)
    /\ quick \in SUBSET (1..Cardinality(Els))
    /\ \A f \in lastApplied \cup filled : f.el \in Els /\ f.value \in {"profile", "ai"}
    /\ panelState \in FillState
    /\ fills \in 0..MaxFills /\ edits \in 0..MaxEdits /\ saves \in 0..MaxSaves
    /\ corrected \in SUBSET Els /\ overwritten \in SUBSET Els
    /\ \A p \in remembered : p.el \in Els /\ p.value \in Values

-----------------------------------------------------------------------------
(* runFill *)

\* The button, or the shortcut; the shortcut works during a run, too, but here
\* one run ends before the next (bound).
RunFill ==
    /\ run = "idle" /\ panelState # "working"
    /\ fills < MaxFills
    /\ fills' = fills + 1
    /\ panelState' = "working"
    /\ run' = "reading"
    /\ Observe
    /\ corrected' = {} /\ overwritten' = {}
    /\ UNCHANGED <<holds, queue, quick, lastApplied, filled, edits, saves, remembered>>

Harvest ==
    /\ run = "reading"
    /\ HarvestWithoutClick \/ HarvestByClick
    /\ UNCHANGED <<pageVars, run, queue, quick, panelVars, countVars>>

\* Nothing to fill ends the run; else the background is asked for the facts.
SnapshotTaken ==
    /\ run = "reading" /\ SnapshotDone
    /\ IF fields = <<>>
       THEN run' = "idle" /\ panelState' = "error"
       ELSE run' = "context" /\ UNCHANGED panelState
    /\ UNCHANGED <<snapVars, pageVars, queue, quick, lastApplied, filled, remembered, countVars>>

\* deterministicFields: the facts whose label a rule knows, and the resume for
\* a file; never a textarea.
DeterministicFields(facts, resume) ==
    {i \in DOMAIN fields :
        \/ fields[i].field_type = "file" /\ resume
        \/ fields[i].field_type = "text" /\ fields[i].label \in facts}

Entries(is, v) == [k \in DOMAIN InOrder(is) |-> [i |-> InOrder(is)[k], value |-> v]]

ContextAnswered ==
    /\ run = "context"
    /\ \E facts \in SUBSET {"email"}, resume \in BOOLEAN :
         /\ quick' = DeterministicFields(facts, resume)
         /\ queue' = Entries(quick', "profile")
    /\ lastApplied' = {}
    /\ run' = "quick"
    /\ UNCHANGED <<snapVars, pageVars, filled, panelState, remembered, countVars>>

\* Mutant: the backend is asked about every field.
RemainingAll == DOMAIN fields

Remaining == DOMAIN fields \ quick

\* A context or fill request that fails, or finds the session gone.
RunFails ==
    /\ run \in {"context", "asking"}
    /\ run' = "idle"
    /\ panelState' = "error"
    /\ UNCHANGED <<snapVars, pageVars, queue, quick, lastApplied, filled, remembered, countVars>>

\* The facts have landed: the rest is asked of the backend, if there is a rest.
QuickDone ==
    /\ run = "quick" /\ queue = <<>>
    /\ filled' = IF quick # {} THEN lastApplied ELSE filled
    /\ IF Remaining = {}
       THEN run' = "idle" /\ panelState' = "done"
       ELSE run' = "asking" /\ UNCHANGED panelState
    /\ UNCHANGED <<snapVars, pageVars, queue, quick, lastApplied, remembered, countVars>>

\* The backend answers some of the fields it was asked about.
FillAnswered ==
    /\ run = "asking"
    /\ \E is \in SUBSET {i \in Remaining : fields[i].field_type \notin {"file", "button"}} :
         queue' = Entries(is, "ai")
    /\ run' = "ai"
    /\ UNCHANGED <<snapVars, pageVars, quick, panelVars, countVars>>

AiDone ==
    /\ run = "ai" /\ queue = <<>>
    /\ filled' = lastApplied
    /\ run' = "idle"
    /\ panelState' = "done"
    /\ UNCHANGED <<snapVars, pageVars, queue, quick, lastApplied, remembered, countVars>>

-----------------------------------------------------------------------------
(* FormFiller.apply: one field after the other *)

\* setText, and the choices, with what is in the element afterwards; a choice
\* given by its label reads back the way the page spells it.
SetText(e, v) == {[at |-> e, now |-> v, done |-> TRUE]}

Spelt(e, v) == IF El(e).spelt THEN "code" ELSE v

SetSelect(e, v) == {[at |-> e, now |-> Spelt(e, v), done |-> TRUE],
                    [at |-> e, now |-> holds[e], done |-> FALSE]}

\* pickComboboxOption: an option with the text wanted is clicked in what its
\* scope shows, whoever's it is.
PickComboboxOption(e, f, v) ==
    LET scope == OptionScope(e, open \cup {e})
        wanted == IF f.options = {} THEN El(e).menu ELSE {o[2] : o \in f.options}
    IN  {[at |-> x, now |-> Spelt(x, v), done |-> TRUE] :
            x \in {y \in scope : El(y).menu \cap wanted # {}}}
          \cup {[at |-> e, now |-> holds[e], done |-> FALSE]}

\* setRadioGroup says nothing of a value none of the radios has.
SetRadioGroup(e, v) == {[at |-> e, now |-> Spelt(e, v), done |-> TRUE],
                        [at |-> e, now |-> holds[e], done |-> TRUE]}

SetToggle(e, v) == {[at |-> e, now |-> "code", done |-> TRUE],
                    [at |-> e, now |-> "", done |-> TRUE]}

\* attachFile: downloaded and accepted by the input, or not.
AttachFile(e) == {[at |-> e, now |-> "file", done |-> TRUE],
                  [at |-> e, now |-> holds[e], done |-> FALSE]}

Effects(e, f, v) ==
    CASE f.field_type = "file" -> AttachFile(e)
      [] f.field_type = "select" -> IF El(e).tag = "select" THEN SetSelect(e, v)
                                                            ELSE PickComboboxOption(e, f, v)
      [] f.field_type = "radio" -> SetRadioGroup(e, v)
      [] f.field_type = "checkbox" -> SetToggle(e, v)
      [] OTHER -> SetText(e, v)

\* withLabels: the receipt keeps the value meant, under the field's label.
Receipt(q) == [el |-> fields[q.i].el, ref |-> q.i, selector |-> fields[q.i].selector,
               label |-> fields[q.i].label, value |-> q.value]

\* The next field: skipped when it is not found, or throws.
ApplyField ==
    LET q == Head(queue)
        f == fields[q.i]
        el == FindEl(f.selector)
    IN  /\ queue # <<>>
        /\ queue' = Tail(queue)
        /\ IF el = 0
           THEN UNCHANGED <<pageVars, lastApplied>>
           ELSE \E x \in Effects(el, f, q.value) :
                  /\ holds' = [holds EXCEPT ![x.at] = x.now]
                  /\ overwritten' = IF x.now # holds[x.at] /\ x.at \in corrected
                                    THEN overwritten \cup {x.at} ELSE overwritten
                  /\ lastApplied' = IF x.done THEN lastApplied \cup {Receipt(q)} ELSE lastApplied
                  /\ UNCHANGED corrected
        /\ UNCHANGED <<snapVars, run, quick, filled, panelState, remembered, countVars>>

-----------------------------------------------------------------------------
(* The user *)

\* Types into a visible field, at any moment; a choice is made in the page's
\* spelling.
EditField(e) ==
    /\ edits < MaxEdits
    /\ IsVisible(e) /\ Ftype(e) # "button"
    /\ \E v \in {"user", ""} \ {holds[e]} : holds' = [holds EXCEPT ![e] = v]
    /\ edits' = edits + 1
    /\ corrected' = IF run \in {"quick", "asking", "ai"} /\ \E f \in lastApplied : f.el = e
                    THEN corrected \cup {e} ELSE corrected
    /\ UNCHANGED <<snapVars, run, queue, quick, panelVars, fills, saves, overwritten>>

\* The form grows by a step that was hidden, or shrinks back.
PageStep ==
    /\ edits < MaxEdits
    /\ edits' = edits + 1
    /\ shown' = [e \in Els |-> IF El(e).shown # "above" THEN shown[e]
                               ELSE IF shown[e] = "above" THEN "visible" ELSE "above"]
    /\ shown' # shown
    /\ UNCHANGED <<page, ref, open, fields, next, opened, optionsCache, pageVars, run, queue,
                   quick, panelVars, fills, saves>>

\* readFieldValue of a field that was applied.
ReadFieldValue(f) == LET e == FindEl(f.selector) IN IF e = 0 THEN "" ELSE holds[e]

\* collectEdits: what differs from the value meant and is not empty.
CollectEdits ==
    {[label |-> f.label, el |-> f.el, value |-> ReadFieldValue(f)] :
        f \in {g \in lastApplied : /\ g.label # ""
                                   /\ ReadFieldValue(g) # ""
                                   /\ ReadFieldValue(g) # g.value}}

\* "Сохранить правки", on the panel of a finished run.
SaveEdits ==
    /\ panelState = "done"
    /\ saves < MaxSaves
    /\ saves' = saves + 1
    /\ IF CollectEdits = {}
       THEN panelState' = "saved" /\ UNCHANGED remembered
       ELSE \/ panelState' = "saved" /\ remembered' = remembered \cup CollectEdits
            \/ panelState' = "error" /\ UNCHANGED remembered
    /\ UNCHANGED <<snapVars, pageVars, run, queue, quick, lastApplied, filled, fills, edits>>

FillNext ==
    \/ RunFill \/ Harvest \/ SnapshotTaken \/ ContextAnswered \/ QuickDone
    \/ FillAnswered \/ AiDone \/ RunFails \/ ApplyField
    \/ SaveEdits \/ PageStep
    \/ \E e \in Els : EditField(e)

FillSpec == FillInit /\ [][FillNext]_fillVars

-----------------------------------------------------------------------------
(* Properties *)

\* A fact the user corrects while the run still waits for the backend stays
\* corrected: the backend is not asked about it, and no answer lands on it.
CorrectionsSurvive == overwritten = {}

\* What a form must be like for it: no field's value lands on the element of
\* another field.
FieldsApart ==
    \A i, j \in DOMAIN fields : i # j =>
        LET e == FindEl(fields[i].selector) IN
        e # 0 => \A v \in {"profile", "ai"} :
                   \A x \in Effects(e, fields[i], v) : x.at # fields[j].el

\* The comment in edits.ts, of every field: unchanged values teach the memory
\* nothing.
UnchangedTeachesNothing ==
    \A p \in remembered : p.value = "user"
=============================================================================
