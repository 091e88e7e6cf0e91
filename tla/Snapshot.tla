------------------------------ MODULE Snapshot ------------------------------
(***************************************************************************)
(* How the browser extension reads a form (src/ext/lib/snapshot.ts): which *)
(* elements become fields, what they are called, how they are found again, *)
(* and where the options of a drop-down come from.                         *)
(*                                                                         *)
(* A page is a record [roots, els]: its documents and shadow roots, and    *)
(* its elements in the order a walk of the roots meets them.  An element   *)
(* record keeps of the DOM what the code asks of it; a search around the   *)
(* element (a legend above it, a list box beside it) is kept as its        *)
(* result.  "" stands for an attribute that is not there.                  *)
(***************************************************************************)
EXTENDS Naturals, Sequences, FiniteSets, FiniteSetsExt, SequencesExt

CONSTANTS
    Pages,          \* the forms: a function from their names to pages
    Budget          \* drop-downs that can be forced open within the time budget

Visibility == {"visible", "self", "above"}

\* A page's elements are a sequence, each shown in one of the three ways.
ASSUME SnapshotAssumption ==
    /\ Budget \in Nat
    /\ \A p \in DOMAIN Pages :
         /\ Pages[p].els \in Seq(Range(Pages[p].els))
         /\ \A e \in DOMAIN Pages[p].els : Pages[p].els[e].shown \in Visibility

VARIABLES
    page,           \* the name of the form on the screen
    shown,          \* shown[e]: is element e visible, hidden itself, or hidden from above
    ref,            \* ref[e]: its data-otc-ref attribute, 0 for none
    open,           \* the drop-downs whose menu is on the screen
    fields,         \* the snapshot: a sequence of fields
    next,           \* the field whose options are harvested next
    opened,         \* drop-downs forced open in this snapshot
    optionsCache    \* options harvested earlier, by selector and label

snapVars == <<page, shown, ref, open, fields, next, opened, optionsCache>>

Roots == Pages[page].roots
Els == DOMAIN Pages[page].els
El(e) == Pages[page].els[e]

-----------------------------------------------------------------------------
(* Roots *)

\* collectRoots: every open shadow root and same-origin frame, from the top.
CollectRoots ==
    LET reached[r \in DOMAIN Roots] ==
          /\ Roots[r].open
          /\ Roots[r].parent = 0 \/ reached[Roots[r].parent]
    IN  {r \in DOMAIN Roots : reached[r]}

\* collectDocuments: the same walk, which does not look into shadow roots.
CollectDocuments ==
    LET reached[r \in DOMAIN Roots] ==
          /\ Roots[r].open /\ ~Roots[r].shadow
          /\ Roots[r].parent = 0 \/ reached[Roots[r].parent]
    IN  {r \in DOMAIN Roots : reached[r]}

InShadow(e) == Roots[El(e).root].shadow

OwnerDocument(r) ==
    LET doc[x \in DOMAIN Roots] ==
          IF Roots[x].shadow THEN doc[Roots[x].parent] ELSE x
    IN  doc[r]

\* What document.querySelectorAll sees: nothing inside a shadow root.
InDocumentOf(e) == {x \in Els : El(x).root = OwnerDocument(El(e).root)}

-----------------------------------------------------------------------------
(* What an element is and is called *)

IsVisible(e) == shown[e] = "visible"
HiddenAncestor(e) == shown[e] = "above"
IsFileInput(e) == El(e).tag = "input" /\ El(e).type = "file"

\* The first of several sources that says something.
FirstOf(sources, nothing) ==
    LET said == {i \in DOMAIN sources : sources[i] # nothing}
    IN  IF said = {} THEN nothing ELSE sources[Min(said)]

\* shadowHostAttr: read only of a control inside a shadow root.
ShadowHostAttr(e, text) == IF InShadow(e) THEN text ELSE ""

\* containerLabel: the label or legend of the element's own container.
ContainerLabel(e) ==
    IF El(e).tag \in {"input", "textarea", "select"} THEN El(e).around ELSE ""

\* label[for], wrapping label, aria-label, aria-labelledby, the container, the
\* shadow host, placeholder, name, text.
AccName(e) ==
    FirstOf(<<El(e).label, ContainerLabel(e),
              IF El(e).tag \in {"input", "textarea", "select"}
              THEN ShadowHostAttr(e, El(e).hostLabel) ELSE "",
              El(e).placeholder, El(e).name, El(e).text>>, "")

\* The radios that share a name in the element's document.
RadioPeers(e) ==
    IF El(e).type # "radio" \/ El(e).name = "" THEN {}
    ELSE {x \in InDocumentOf(e) : El(x).type = "radio" /\ El(x).name = El(e).name}

\* The role=radio elements of the closest role=radiogroup.
AriaTogglePeers(e) ==
    IF El(e).role # "radio" \/ El(e).group = "" THEN {}
    ELSE {x \in Els : El(x).role = "radio" /\ El(x).group = El(e).group}

IsRadioGroup(e) == Cardinality(RadioPeers(e)) > 1
IsAriaRadioGroup(e) == ~IsRadioGroup(e) /\ Cardinality(AriaTogglePeers(e)) > 1

\* The question over a group of radios or checkboxes that share a name.
GroupContext(e) ==
    LET same == {x \in InDocumentOf(e) : El(x).type = El(e).type /\ El(x).name = El(e).name}
    IN  IF /\ El(e).type \in {"radio", "checkbox"} /\ El(e).name # ""
           /\ Cardinality(same) > 1
        THEN El(e).legend ELSE ""

\* The same for custom widgets: their list or group names its question.
AriaGroupContext(e) == IF El(e).role = "checkbox" THEN El(e).legend ELSE ""
AriaRadioGroupLabel(e) == El(e).legend

Label(e) ==
    IF IsRadioGroup(e) THEN FirstOf(<<GroupContext(e), AccName(e)>>, "")
    ELSE IF IsAriaRadioGroup(e) THEN FirstOf(<<AriaRadioGroupLabel(e), AccName(e)>>, "")
    ELSE FirstOf(<<FirstOf(<<GroupContext(e), AriaGroupContext(e)>>, ""), AccName(e)>>, "")

\* The section is not told apart from the question; an error counts when shown.
SectionFor(e) == El(e).legend
DescribedError(e) == IF IsVisible(e) THEN El(e).error ELSE ""

LabelRequiredMarker(e) == "marker" \in El(e).required

RequiredFor(e) ==
    \/ El(e).required \cap {"required", "aria"} # {}
    \/ InShadow(e) /\ "host" \in El(e).required
    \/ LabelRequiredMarker(e)

Ftype(e) ==
    LET x == El(e) IN
    CASE x.tag = "textarea" -> "textarea"
      [] x.tag # "textarea" /\ (x.tag = "select" \/ x.role \in {"combobox", "listbox"} \/ x.popup)
           -> "select"
      [] x.type = "file" -> "file"
      [] x.type = "checkbox" \/ x.role = "checkbox" -> "checkbox"
      [] x.type = "radio" \/ x.role = "radio" -> "radio"
      [] x.tag \in {"button", "a"} \/ x.type \in {"submit", "button"} \/ x.role = "button"
           -> "button"
      [] OTHER -> "text"

-----------------------------------------------------------------------------
(* Finding it again *)

\* durable: the id, the name (with the value of a radio or checkbox), the path.
Durable(e) ==
    LET x == El(e) IN
    IF x.id # "" THEN <<"id", x.id>>
    ELSE IF x.name # "" /\ x.type \in {"radio", "checkbox"} /\ x.code # ""
         THEN <<"value", x.name, x.code>>
    ELSE IF x.name # "" THEN <<"name", x.tag, x.name>>
    ELSE <<"path", x.path>>

\* What build stores: a tag on the element itself where a selector cannot reach.
Selector(e, r) ==
    IF InShadow(e) THEN <<"ref", r>>
    ELSE IF IsRadioGroup(e) THEN <<"radio", El(e).name>>
    ELSE IF IsAriaRadioGroup(e) THEN <<"ref", r>>
    ELSE Durable(e)

Matches(e, s) ==
    LET x == El(e) IN
    CASE s[1] = "id" -> x.id = s[2]
      [] s[1] = "value" -> x.tag = "input" /\ x.name = s[2] /\ x.code = s[3]
      [] s[1] = "name" -> x.tag = s[2] /\ x.name = s[3]
      [] s[1] = "path" -> x.path = s[2]
      [] s[1] = "radio" -> x.type = "radio" /\ x.name = s[2]
      [] s[1] = "ref" -> ref[e] = s[2]

\* findEl: the first match, root by root; 0 for none.
FindEl(s) ==
    LET found == {e \in Els : El(e).root \in CollectRoots /\ Matches(e, s)}
    IN  IF found = {} THEN 0 ELSE Min(found)

-----------------------------------------------------------------------------
(* Options without opening anything *)

\* A menu's options are <<drop-down, text>>: the menu they belong to matters.
MenuOf(e) == {<<e, t>> : t \in El(e).menu}
ShownOptions(els) == UNION {MenuOf(x) : x \in open \cap els}

SchemaOptions(e) == {<<e, t>> : t \in El(e).schema}

LooksLikeDropdown(e) ==
    El(e).role \in {"listbox", "combobox"} \/ El(e).popup \/ El(e).owns

\* extractOptions: a group's labels, a <select>'s own, and for a drop-down only:
\* what is mounted in or near it, the whole document while it says it is open,
\* and the page's form schema.
ExtractOptions(e) ==
    IF IsRadioGroup(e) THEN {<<e, AccName(x)>> : x \in RadioPeers(e)} \ {<<e, "">>}
    ELSE IF El(e).tag = "select" THEN {<<e, t>> : t \in El(e).near}
    ELSE IF ~LooksLikeDropdown(e) THEN {}
    ELSE FirstOf(<<{<<e, t>> : t \in El(e).near},
                   IF El(e).owns THEN ShownOptions({e}) ELSE {},
                   IF e \in open THEN ShownOptions(InDocumentOf(e)) ELSE {},
                   SchemaOptions(e)>>, {})

-----------------------------------------------------------------------------
(* observe *)

IsOwnedPopup(e) == El(e).role = "listbox" /\ El(e).ownedPopup

\* The walk skips what cannot be filled, and of a group of radios all but the
\* first it meets - by name, whichever document the name is in.
Observed ==
    LET walked == {e \in Els : El(e).root \in CollectRoots
                                 /\ El(e).type \notin {"hidden", "reset", "image"}
                                 /\ ~IsOwnedPopup(e)}
        earlier(e) == {x \in walked : x < e}
        seen(e) == \/ IsRadioGroup(e) /\ \E x \in earlier(e) :
                          IsRadioGroup(x) /\ El(x).name = El(e).name
                   \/ IsAriaRadioGroup(e) /\ \E x \in earlier(e) : x \in AriaTogglePeers(e)
    IN  {e \in walked : ~seen(e) /\ (IsVisible(e) \/ (IsFileInput(e) /\ ~HiddenAncestor(e)))}

\* build: the record the backend and the filler work with.
Build(e, r) ==
    [el |-> e, ref |-> r, label |-> Label(e), field_type |-> Ftype(e),
     selector |-> Selector(e, r),
     options |-> IF IsAriaRadioGroup(e) THEN {<<e, AccName(x)>> : x \in AriaTogglePeers(e)}
                                        ELSE ExtractOptions(e),
     required |-> RequiredFor(e), error |-> DescribedError(e), section |-> SectionFor(e)]

\* Escape is pressed in every document: it closes the menus that listen to it
\* there.
PressEscape(menus) ==
    open' = {e \in menus : El(e).sticky \/ OwnerDocument(El(e).root) \notin CollectDocuments}

\* Numbers in increasing order.
InOrder(S) == [k \in 1..Cardinality(S) |->
                 CHOOSE x \in S : Cardinality({y \in S : y <= x}) = k]

Observe ==
    LET seq == InOrder(Observed)
    IN  /\ fields' = [i \in DOMAIN seq |-> Build(seq[i], i)]
        /\ ref' = [e \in Els |-> IF \E i \in DOMAIN seq : seq[i] = e
                                 THEN CHOOSE i \in DOMAIN seq : seq[i] = e ELSE ref[e]]
        /\ PressEscape(open)
        /\ next' = 1
        /\ opened' = 0
        /\ UNCHANGED <<page, shown, optionsCache>>

-----------------------------------------------------------------------------
(* observeWithOptions: one drop-down after the other *)

CacheKey(f) == <<f.selector, f.label>>
Cached(f) == {c.options : c \in {x \in optionsCache : x.key = CacheKey(f)}}

SetOptions(opts) == fields' = [fields EXCEPT ![next].options = opts]

\* Nothing to do, or options to be had without a click.
HarvestWithoutClick ==
    LET f == fields[next]
        trigger == FindEl(f.selector)
    IN  /\ next \in DOMAIN fields
        /\ next' = next + 1
        /\ \/ /\ f.field_type # "select" \/ f.options # {} \/ (Cached(f) = {} /\ trigger = 0)
              /\ UNCHANGED fields
           \/ /\ f.field_type = "select" /\ f.options = {}
              /\ \/ Cached(f) # {} /\ SetOptions(CHOOSE o \in Cached(f) : TRUE)
                 \/ /\ Cached(f) = {} /\ trigger # 0
                    /\ El(trigger).hiddenSelect # {}
                    /\ SetOptions({<<trigger, t>> : t \in El(trigger).hiddenSelect})
                 \/ /\ Cached(f) = {} /\ trigger # 0 /\ El(trigger).hiddenSelect = {}
                    /\ opened >= Budget                     \* the budget is spent
                    /\ UNCHANGED fields
        /\ UNCHANGED <<page, shown, ref, open, opened, optionsCache>>

\* _optionScope: the list box the drop-down owns, or all its root.
OptionScope(e, menus) ==
    IF El(e).owns THEN menus \cap {e}
                  ELSE {x \in menus : El(x).root = El(e).root}

\* Mutant: what was on the screen before counts, too.
ForceOpenAll(e, menus) == UNION {MenuOf(x) : x \in OptionScope(e, menus)}

\* _forceOpenOptions: click it, and take what its scope shows by then, except -
\* when the scope is the whole root - what was on the screen before.
ForceOpen(e, menus) ==
    LET fresh == IF El(e).owns THEN OptionScope(e, menus)
                               ELSE OptionScope(e, menus) \ open
    IN  UNION {MenuOf(x) : x \in fresh}

\* The menu opens, or within both waits it does not; then Escape again.
HarvestByClick ==
    LET f == fields[next]
        trigger == FindEl(f.selector)
    IN  /\ next \in DOMAIN fields
        /\ f.field_type = "select" /\ f.options = {} /\ Cached(f) = {}
        /\ trigger # 0 /\ El(trigger).hiddenSelect = {}
        /\ opened < Budget
        /\ \E menus \in {open, open \cup {trigger}} :
             LET opts == ForceOpen(trigger, menus) IN
             /\ SetOptions(opts)
             /\ optionsCache' = IF opts = {} THEN optionsCache
                                ELSE optionsCache \cup {[key |-> CacheKey(f), options |-> opts]}
             /\ PressEscape(menus)
        /\ opened' = opened + 1
        /\ next' = next + 1
        /\ UNCHANGED <<page, shown, ref>>

SnapshotDone == next > Len(fields)

SnapInit ==
    /\ page \in DOMAIN Pages
    /\ shown = [e \in Els |-> El(e).shown]
    /\ ref = [e \in Els |-> 0]
    /\ open \in SUBSET {e \in Els : El(e).menu # {} /\ El(e).root \in CollectRoots}
    /\ Cardinality(open) <= 1
    /\ fields = <<>>
    /\ next = 1
    /\ opened = 0
    /\ optionsCache = {}

SnapTypeOK ==
    /\ page \in DOMAIN Pages
    /\ shown \in [Els -> Visibility]
    /\ ref \in [Els -> 0..Cardinality(Els)]
    /\ open \in SUBSET Els
    /\ \A i \in DOMAIN fields : fields[i].el \in Els /\ fields[i].ref = i
    /\ next \in 1..(Len(fields) + 1)
    /\ opened \in 0..Budget

-----------------------------------------------------------------------------
\* The options of a drop-down are its own: neither a menu that Escape failed to
\* close, nor the cache, nor the page's other lists are taken for them.
OptionsAreOwn ==
    \A i \in DOMAIN fields :
        \A o \in fields[i].options : o[1] = fields[i].el

-----------------------------------------------------------------------------
(* What a form must be like for the options to be sure: these are not       *)
(* properties of the code but of the page it meets.                         *)

Selects == {i \in DOMAIN fields : fields[i].field_type = "select"}

\* No two drop-downs are left open.
OneMenuOpen == \A x, y \in open : x = y

\* The selector of a drop-down finds that drop-down, or nothing.
SelectorsFind == \A i \in Selects : FindEl(fields[i].selector) \in {0, fields[i].el}

\* Selector and label name one drop-down, on every reading of the form alike.
KeysName(owner) == \A i \in Selects : owner[CacheKey(fields[i])] = fields[i].el

TellsDropdownsApart(owner) == OneMenuOpen /\ SelectorsFind /\ KeysName(owner)
=============================================================================
