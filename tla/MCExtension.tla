---------------------------- MODULE MCExtension ----------------------------
(***************************************************************************)
(* The three parts of the browser extension that keep state: filling a     *)
(* form, the session and the chat.  They share no state, so each is run    *)
(* alone.  The forms are small and each has one difficulty: native inputs, *)
(* drop-downs that draw their own menus, a list a drop-down owns, web      *)
(* components, frames.                                                     *)
(***************************************************************************)
EXTENDS FormFill, ExtSession, ExtChat, TLC

VARIABLE part       \* the part that runs

None == [tag |-> "input", type |-> "", role |-> "", popup |-> FALSE, owns |-> FALSE,
         ownedPopup |-> FALSE, id |-> "", name |-> "", code |-> "", path |-> "", root |-> 1,
         group |-> "", label |-> "", around |-> "", hostLabel |-> "", placeholder |-> "",
         text |-> "", legend |-> "", error |-> "", required |-> {}, shown |-> "visible",
         near |-> {}, menu |-> {}, schema |-> {}, hiddenSelect |-> {}, sticky |-> FALSE,
         spelt |-> FALSE]

TopDocument == [parent |-> 0, shadow |-> FALSE, open |-> TRUE]

NativeForm ==
    [roots |-> <<TopDocument>>,
     els |-> << [None EXCEPT !.id = "mail", !.label = "email", !.required = {"required"}],
                [None EXCEPT !.type = "hidden", !.name = "token"],
                [None EXCEPT !.type = "file", !.id = "cv", !.label = "cv", !.shown = "self"],
                [None EXCEPT !.type = "radio", !.name = "move", !.code = "1", !.label = "yes",
                             !.legend = "move", !.spelt = TRUE],
                [None EXCEPT !.type = "radio", !.name = "move", !.code = "0", !.label = "no",
                             !.legend = "move", !.spelt = TRUE] >>]

Dropdown == [None EXCEPT !.role = "combobox"]

\* The menu of `city` does not listen to Escape; `grade` is on a later step.
MenusForm ==
    [roots |-> <<TopDocument>>,
     els |-> << [Dropdown EXCEPT !.id = "city", !.label = "city", !.menu = {"a", "b"},
                                 !.sticky = TRUE],
                [Dropdown EXCEPT !.id = "pay", !.label = "pay", !.menu = {"c"}],
                [Dropdown EXCEPT !.name = "grade", !.schema = {"e"}, !.shown = "above"] >>]

OwnedListForm ==
    [roots |-> <<TopDocument>>,
     els |-> << [Dropdown EXCEPT !.id = "level", !.label = "level", !.owns = TRUE,
                                 !.menu = {"d"}],
                [None EXCEPT !.tag = "div", !.role = "listbox", !.id = "list",
                             !.ownedPopup = TRUE],
                [None EXCEPT !.tag = "textarea", !.name = "why", !.around = "why"] >>]

ShadowForm ==
    [roots |-> <<TopDocument, [parent |-> 1, shadow |-> TRUE, open |-> TRUE]>>,
     els |-> << [None EXCEPT !.tag = "div", !.role = "radio", !.group = "g", !.text = "yes",
                             !.legend = "ready", !.path = "p1"],
                [None EXCEPT !.tag = "div", !.role = "radio", !.group = "g", !.text = "no",
                             !.legend = "ready", !.path = "p2"],
                [None EXCEPT !.root = 2, !.hostLabel = "email"],
                [Dropdown EXCEPT !.root = 2, !.hostLabel = "start", !.hiddenSelect = {"f"}] >>]

\* An open frame and one of another origin.
FramesForm ==
    [roots |-> <<TopDocument, [parent |-> 1, shadow |-> FALSE, open |-> TRUE],
                 [parent |-> 1, shadow |-> FALSE, open |-> FALSE]>>,
     els |-> << [None EXCEPT !.tag = "select", !.root = 2, !.name = "way", !.near = {"g", "h"}],
                [None EXCEPT !.type = "checkbox", !.root = 2, !.id = "agree", !.label = "agree"],
                [None EXCEPT !.root = 3, !.id = "card", !.label = "card"] >>]

AllForms == [native |-> NativeForm, menus |-> MenusForm, owned |-> OwnedListForm,
             shadow |-> ShadowForm, frames |-> FramesForm]

\* Background calls and panels are interchangeable.
Symmetry == Permutations(BackgroundCalls) \union Permutations(Panels)

-----------------------------------------------------------------------------
extensionVars == <<part, fillVars, sessionVars, chatVars>>

ExtensionInit ==
    /\ part \in {"fill", "session", "chat"}
    /\ FillInit /\ SessionInit /\ ChatInit
    \* only a form that is filled is told apart
    /\ part # "fill" => page = "native" /\ open = {}

ExtensionNext ==
    \/ part = "fill" /\ FillNext /\ UNCHANGED <<part, sessionVars, chatVars>>
    \/ part = "session" /\ SessionNext /\ UNCHANGED <<part, fillVars, chatVars>>
    \/ part = "chat" /\ ChatNext /\ UNCHANGED <<part, fillVars, sessionVars>>

ExtensionSpec == ExtensionInit /\ [][ExtensionNext]_extensionVars

\* The type invariants of the parts.
ExtTypeOK == FillTypeOK /\ SessionTypeOK /\ ChatTypeOK
=============================================================================
