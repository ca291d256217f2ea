-------------------------------- MODULE Forms --------------------------------
(* What one library window holds of its user while requests are under way: the  *)
(* text typed in its dialogs and in the inspector, and the marks on the items   *)
(* something is being done to. A request ends accepted or refused at any time.  *)
EXTENDS Integers, Sequences, FiniteSets

CONSTANTS
    FormItems,         \* keys of the items shown
    Nothing,
    TypesWhileSaving,  \* whether users go on with a form whose text is being stored
    MaxActs,           \* bound: what the user does
    MaxDialogs         \* bound: dialogs opened

Texts == {"one", "two"}
NoText == ""

\* A dialog, the metadata editor, a run of guesses and a request, as the window keeps them.
Dialogs == [n : Nat, kind : {"name", "rules"}, text : Texts \cup {NoText}, saving : BOOLEAN, refused : BOOLEAN]
Editors == [text : Texts, saving : BOOLEAN]
Guesses == [asked : SUBSET FormItems, left : SUBSET FormItems, guessed : SUBSET FormItems,
            failed : SUBSET FormItems, told : BOOLEAN]
Requests == [form : {"dialog", "note", "mirror", "editor", "send", "delete", "verify", "rebuild", "extract", "guess"},
             item : FormItems \cup {Nothing}, n : Nat, text : Texts \cup {NoText, "closing", "sent"}]

ASSUME FormsAssumption ==
    /\ {MaxActs, MaxDialogs} \subseteq Nat /\ TypesWhileSaving \in BOOLEAN
    /\ Nothing \notin FormItems /\ Nothing \notin Dialogs /\ Nothing \notin Editors
    /\ Nothing \notin Guesses /\ Nothing \notin Requests

VARIABLES
    dialog,     \* the dialog shown: a NameDialog or a SmartCollectionDialog
    opened,     \* dialogs opened so far
    panel,      \* the inspector: the item it is for, its tab, its forms; a new one for each item
    drafts,     \* each item's unsent note
    marks,      \* the marks an item carries: a send, a verification, a rebuild or an extraction
                \* under way, and how the last send or extraction failed or ended
    plugins,    \* the extraction plugins, as far as they are read
    reader,     \* which items are open in a reader, and which readers have unsaved annotations
    guess,      \* a run of Guess metadata over chosen items
    posts,      \* requests under way
    last,       \* the request the last step accepted
    acts

formsVars == <<dialog, opened, panel, drafts, marks, plugins, reader, guess, posts, last, acts>>

\* The panel of an item: which panel it is, which showing of its forms, the metadata editor when it
\* is open, the text of a new mirror, and whether the note is being stored.
NewPanel(item, n) ==
    [item |-> item, panel |-> n, forms |-> n, editor |-> Nothing, mirror |-> NoText, noting |-> FALSE]

Posted(form, item) == \E p \in posts : p.form = form /\ p.item = item
Post(p) == posts' = posts \cup {p}
Act == acts < MaxActs /\ acts' = acts + 1 /\ last' = Nothing

----------------------------------------------------------------------------
(* Dialogs.                                                                     *)

\* Each dialog opened is a new one: its fields start from its request.
OpenDialog(kind) ==
    /\ Act /\ dialog = Nothing /\ opened < MaxDialogs
    /\ opened' = opened + 1
    /\ dialog' = [n |-> opened + 1, kind |-> kind, text |-> NoText, saving |-> FALSE, refused |-> FALSE]
    /\ UNCHANGED <<panel, drafts, marks, reader, guess, posts>>

TypeName(t) ==
    /\ Act /\ dialog # Nothing /\ (TypesWhileSaving \/ ~dialog.saving)
    /\ dialog' = [dialog EXCEPT !.text = t]
    /\ UNCHANGED <<opened, panel, drafts, marks, reader, guess, posts>>

CancelName ==
    /\ Act /\ dialog # Nothing /\ dialog' = Nothing
    /\ UNCHANGED <<opened, panel, drafts, marks, reader, guess, posts>>

SubmitName ==
    /\ Act /\ dialog # Nothing /\ dialog.text # NoText /\ ~dialog.saving
    /\ dialog' = [dialog EXCEPT !.saving = TRUE, !.refused = FALSE]
    /\ Post([form |-> "dialog", item |-> Nothing, n |-> dialog.n, text |-> dialog.text])
    /\ UNCHANGED <<opened, panel, drafts, marks, reader, guess>>

\* A bug it could have: an accepted request closes whatever dialog is shown.
CloseDialogAny(p) == Nothing

\* An accepted request closes its own dialog.
CloseDialog(p) == IF dialog # Nothing /\ dialog.n = p.n THEN Nothing ELSE dialog

DialogRefused(p) ==
    IF dialog # Nothing /\ dialog.n = p.n THEN [dialog EXCEPT !.saving = FALSE, !.refused = TRUE] ELSE dialog

----------------------------------------------------------------------------
(* The inspector.                                                               *)

\* Another item's panel is a new one; the unsent notes stay with the window.
Select(i) ==
    /\ Act /\ panel.item # i
    /\ panel' = NewPanel(i, panel.forms + 1)
    /\ UNCHANGED <<dialog, opened, drafts, marks, reader, guess, posts>>

\* Another tab of the inspector and back: the editor is closed, and the forms are shown anew.
ShownAnew == [panel EXCEPT !.forms = @ + 1, !.editor = Nothing, !.mirror = NoText, !.noting = FALSE]

Leave ==
    /\ Act
    /\ panel' = ShownAnew
    /\ UNCHANGED <<dialog, opened, drafts, marks, reader, guess, posts>>

TypeNote(t) ==
    /\ Act /\ (TypesWhileSaving \/ ~Posted("note", panel.item))
    /\ drafts' = [drafts EXCEPT ![panel.item] = t]
    /\ UNCHANGED <<dialog, opened, panel, marks, reader, guess, posts>>

AddNote ==
    /\ Act /\ drafts[panel.item] # NoText /\ ~panel.noting
    /\ (TypesWhileSaving \/ ~Posted("note", panel.item))
    /\ panel' = [panel EXCEPT !.noting = TRUE]
    /\ Post([form |-> "note", item |-> panel.item, n |-> panel.forms, text |-> drafts[panel.item]])
    /\ UNCHANGED <<dialog, opened, drafts, marks, reader, guess>>

TypeMirror(t) ==
    /\ Act /\ panel.editor = Nothing /\ (TypesWhileSaving \/ ~Posted("mirror", panel.item))
    /\ panel' = [panel EXCEPT !.mirror = t]
    /\ UNCHANGED <<dialog, opened, drafts, marks, reader, guess, posts>>

AddMirror ==
    /\ Act /\ panel.mirror # NoText
    /\ Post([form |-> "mirror", item |-> panel.item, n |-> panel.forms, text |-> panel.mirror])
    /\ UNCHANGED <<dialog, opened, panel, drafts, marks, reader, guess>>

\* Edit metadata, in place of the other forms of the details; and what is typed in it.
EditMetadata(t) ==
    /\ Act /\ (TypesWhileSaving \/ ~Posted("editor", panel.item))
    /\ panel' = IF panel.editor = Nothing THEN [ShownAnew EXCEPT !.editor = [text |-> t, saving |-> FALSE]]
                ELSE [panel EXCEPT !.editor.text = t]
    /\ UNCHANGED <<dialog, opened, drafts, marks, reader, guess, posts>>

SaveMetadata ==
    /\ Act /\ panel.editor # Nothing /\ ~panel.editor.saving
    /\ panel' = [panel EXCEPT !.editor.saving = TRUE]
    /\ Post([form |-> "editor", item |-> panel.item, n |-> panel.panel, text |-> panel.editor.text])
    /\ UNCHANGED <<dialog, opened, drafts, marks, reader, guess>>

CancelMetadata ==
    /\ Act /\ panel.editor # Nothing /\ ~panel.editor.saving
    /\ panel' = [panel EXCEPT !.editor = Nothing]
    /\ UNCHANGED <<dialog, opened, drafts, marks, reader, guess, posts>>

\* The panel once request p is accepted: its own form empties or closes.
PanelAccepted(p) ==
    CASE p.form = "note" /\ p.n = panel.forms    -> [panel EXCEPT !.noting = FALSE]
      [] p.form = "mirror" /\ p.n = panel.forms  -> [panel EXCEPT !.mirror = NoText]
      [] p.form = "editor" /\ p.n = panel.panel  -> [panel EXCEPT !.editor = Nothing]
      [] OTHER -> panel

PanelRefused(p) ==
    CASE p.form = "note" /\ p.n = panel.forms -> [panel EXCEPT !.noting = FALSE]
      [] p.form = "editor" /\ p.n = panel.panel /\ panel.editor # Nothing -> [panel EXCEPT !.editor.saving = FALSE]
      [] OTHER -> panel

\* A bug it could have: the note of the item shown is emptied.
DraftsAcceptedShown(p) == IF p.form = "note" THEN [drafts EXCEPT ![panel.item] = NoText] ELSE drafts

\* A stored note leaves its own item's field.
DraftsAccepted(p) == IF p.form = "note" THEN [drafts EXCEPT ![p.item] = NoText] ELSE drafts

----------------------------------------------------------------------------
(* Actions on items, with a mark while they run.                                *)

Mark(i, m) == [marks EXCEPT ![i] = @ \cup {m}]
Unmark(items, ms) == [i \in FormItems |-> IF i \in items THEN marks[i] \ ms ELSE marks[i]]

\* Open and annotate.
OpenReader(i) ==
    /\ Act /\ reader' = [reader EXCEPT ![i] = [open |-> TRUE, edited |-> TRUE]]
    /\ UNCHANGED <<dialog, opened, panel, drafts, marks, guess, posts>>

\* The inspector's button waits for the send under way; the menu and the commands do not.
SendToZotero(i) ==
    /\ Act
    /\ marks' = [marks EXCEPT ![i] = (@ \ {"failed"}) \cup {"sending"}]
    /\ Post([form |-> "send", item |-> i, n |-> acts, text |-> "closing"])
    /\ UNCHANGED <<dialog, opened, panel, drafts, reader, guess>>

\* Delete, once confirmed.
DeleteItem(i) ==
    /\ Act
    /\ Post([form |-> "delete", item |-> i, n |-> acts, text |-> "closing"])
    /\ UNCHANGED <<dialog, opened, panel, drafts, marks, reader, guess>>

Verify(i) ==
    /\ Act /\ "verifying" \notin marks[i]
    /\ marks' = Mark(i, "verifying")
    /\ Post([form |-> "verify", item |-> i, n |-> acts, text |-> NoText])
    /\ UNCHANGED <<dialog, opened, panel, drafts, reader, guess>>

Rebuild(i) ==
    /\ Act /\ "rebuilding" \notin marks[i]
    /\ marks' = Mark(i, "rebuilding")
    /\ Post([form |-> "rebuild", item |-> i, n |-> acts, text |-> NoText])
    /\ UNCHANGED <<dialog, opened, panel, drafts, reader, guess>>

RebuildAll ==
    /\ Act /\ marks' = [i \in FormItems |-> marks[i] \cup {"rebuilding"}]
    /\ Post([form |-> "rebuild", item |-> Nothing, n |-> acts, text |-> NoText])
    /\ UNCHANGED <<dialog, opened, panel, drafts, reader, guess>>

\* The plugins are read once, when the window opens.
PluginsRead ==
    /\ plugins = "loading" /\ plugins' \in {"ready", "failed"} /\ last' = Nothing
    /\ UNCHANGED <<dialog, opened, panel, drafts, marks, reader, guess, posts, acts>>

\* The attempt shown is the last one: a run takes the place of the outcome before it.
Attempts == {"extracting", "extracted", "extractionFailed"}
Attempt(i, m) == [marks EXCEPT ![i] = (@ \ Attempts) \cup {m}]

\* Run extraction, once the plugins are read and no run of the item is under way.
ExtractWith(i) ==
    /\ Act /\ plugins = "ready" /\ "extracting" \notin marks[i]
    /\ marks' = Attempt(i, "extracting")
    /\ Post([form |-> "extract", item |-> i, n |-> acts, text |-> NoText])
    /\ UNCHANGED <<dialog, opened, panel, drafts, reader, guess>>

\* Guess metadata asks for one item after another.
GuessMetadata(items) ==
    /\ Act /\ guess = Nothing /\ items # {}
    /\ \E i \in items :
          /\ guess' = [asked |-> items, left |-> items \ {i}, guessed |-> {}, failed |-> {}, told |-> FALSE]
          /\ Post([form |-> "guess", item |-> i, n |-> acts, text |-> NoText])
    /\ UNCHANGED <<dialog, opened, panel, drafts, marks, reader>>

\* A bug it could have: a send does not wait for the reader to close.
ClosedAtOnce(p) == UNCHANGED reader

\* The item's reader is settled and closed before its send or deletion goes out.
ClosedReader(p) == reader' = [reader EXCEPT ![p.item] = [open |-> FALSE, edited |-> FALSE]]

Close ==
    \E p \in {x \in posts : x.text = "closing"} :
        /\ ClosedReader(p)
        /\ posts' = (posts \ {p}) \cup {[p EXCEPT !.text = "sent"]}
        /\ last' = Nothing
        /\ UNCHANGED <<dialog, opened, panel, drafts, marks, guess, acts>>

\* A run the server answered with an outcome, whichever, is finished; any other answer is an error.
ExtractionEnded(p, ok) == Attempt(p.item, IF ok THEN "extracted" ELSE "extractionFailed")

\* The marks once p has ended: the mark of a refused send says why.
MarksEnded(p) ==
    CASE p.form = "verify" -> Unmark({p.item}, {"verifying"})
      [] p.form = "rebuild" -> Unmark(IF p.item = Nothing THEN FormItems ELSE {p.item}, {"rebuilding"})
      [] OTHER -> marks

\* A finished run shows its outcome.
MarksAccepted(p) ==
    CASE p.form = "send" -> Unmark({p.item}, {"sending", "failed"})
      [] p.form = "extract" -> ExtractionEnded(p, TRUE)
      [] OTHER -> MarksEnded(p)

\* A bug it could have: a send that fails before it goes out keeps its mark.
MarksRefusedLate(p) ==
    IF p.form = "send" /\ p.text = "closing" THEN marks
    ELSE IF p.form = "send" THEN [marks EXCEPT ![p.item] = (@ \ {"sending"}) \cup {"failed"}]
    ELSE IF p.form = "extract" THEN ExtractionEnded(p, FALSE)
    ELSE Unmark({p.item}, {"verifying", "rebuilding"})

\* A refused send leaves its reason, and a new send may be made.
MarksRefused(p) ==
    CASE p.form = "send" -> [marks EXCEPT ![p.item] = (@ \ {"sending"}) \cup {"failed"}]
      [] p.form = "extract" -> ExtractionEnded(p, FALSE)
      [] OTHER -> MarksEnded(p)

\* A bug it could have: a guess that fails ends the run.
GuessNextStops(g, ok, i) ==
    IF ok THEN [g EXCEPT !.guessed = @ \cup {i}] ELSE [g EXCEPT !.failed = @ \cup {i}, !.left = {}]

\* A failed guess does not keep the others from being asked for.
GuessNext(g, ok, i) ==
    IF ok THEN [g EXCEPT !.guessed = @ \cup {i}] ELSE [g EXCEPT !.failed = @ \cup {i}]

GuessEnded(p, ok) ==
    LET g == GuessNext(guess, ok, p.item) IN
    IF g.left = {} THEN guess' = [g EXCEPT !.told = TRUE] /\ posts' = posts \ {p}
    ELSE \E i \in g.left : /\ guess' = [g EXCEPT !.left = @ \ {i}]
                           /\ posts' = (posts \ {p}) \cup {[p EXCEPT !.item = i]}

----------------------------------------------------------------------------
(* Requests end.                                                                *)

Accepted ==
    \E p \in {x \in posts : x.text # "closing"} :
        /\ last' = p
        /\ IF p.form = "guess" THEN GuessEnded(p, TRUE) ELSE posts' = posts \ {p} /\ UNCHANGED guess
        /\ dialog' = IF p.form = "dialog" THEN CloseDialog(p) ELSE dialog
        /\ panel' = PanelAccepted(p) /\ drafts' = DraftsAccepted(p) /\ marks' = MarksAccepted(p)
        /\ UNCHANGED <<opened, reader, acts>>

\* Refused by the bucket, or by a reader that could not settle.
Refused ==
    \E p \in posts :
        /\ last' = Nothing
        /\ IF p.form = "guess" THEN GuessEnded(p, FALSE) ELSE posts' = posts \ {p} /\ UNCHANGED guess
        /\ dialog' = IF p.form = "dialog" THEN DialogRefused(p) ELSE dialog
        /\ panel' = PanelRefused(p) /\ marks' = MarksRefused(p)
        /\ UNCHANGED <<opened, drafts, reader, acts>>

FormsInit ==
    /\ dialog = Nothing /\ opened = 0
    /\ \E i \in FormItems : panel = NewPanel(i, 0)
    /\ drafts = [i \in FormItems |-> NoText]
    /\ marks = [i \in FormItems |-> {}]
    /\ reader = [i \in FormItems |-> [open |-> FALSE, edited |-> FALSE]]
    /\ plugins = "loading" /\ guess = Nothing /\ posts = {} /\ last = Nothing /\ acts = 0

Ends == Close \/ Accepted \/ Refused

DialogsNext ==
    /\ UNCHANGED plugins
    /\ \/ \E kind \in {"name", "rules"} : OpenDialog(kind)
       \/ \E t \in Texts : TypeName(t)
       \/ CancelName \/ SubmitName \/ Ends

PanelNext ==
    /\ UNCHANGED plugins
    /\ \/ \E t \in Texts : TypeNote(t) \/ TypeMirror(t) \/ EditMetadata(t)
       \/ Leave \/ AddNote \/ AddMirror \/ SaveMetadata \/ CancelMetadata
       \/ \E i \in FormItems : Select(i)
       \/ Ends

ItemsNext ==
    \/ PluginsRead
    \/ /\ UNCHANGED plugins
       /\ \/ \E i \in FormItems : \/ OpenReader(i) \/ SendToZotero(i) \/ DeleteItem(i)
                                   \/ Verify(i) \/ Rebuild(i) \/ ExtractWith(i)
          \/ \E items \in SUBSET FormItems : GuessMetadata(items)
          \/ RebuildAll \/ Ends

----------------------------------------------------------------------------
(* Properties.                                                                  *)

\* What was typed stays until the bucket has accepted it: when a request ends, the text of a form
\* goes only if it is what that request stored.
TypedStays ==
    LET stored(form, item, text) == last' # Nothing /\ last'.form = form /\ last'.item = item /\ last'.text = text
        gone(form, item, old, new) == old # NoText /\ new # old => stored(form, item, old)
    IN  /\ dialog # Nothing /\ dialog.text # NoText /\ dialog' = Nothing =>
                stored("dialog", Nothing, dialog.text) /\ last'.n = dialog.n
        /\ \A i \in FormItems : gone("note", i, drafts[i], drafts'[i])
        /\ gone("mirror", panel.item, panel.mirror, panel'.mirror)
        /\ panel.editor # Nothing /\ panel'.editor = Nothing => stored("editor", panel.item, panel.editor.text)
TypedKept == [][acts' = acts => TypedStays]_formsVars

\* An item is marked as being sent, verified, rebuilt or extracted only while it is: its buttons
\* come back. It shows one extraction, the last, which runs alone.
MarksEnd ==
    \A i \in FormItems :
        /\ "sending" \in marks[i] => Posted("send", i)
        /\ "verifying" \in marks[i] => Posted("verify", i)
        /\ "rebuilding" \in marks[i] => Posted("rebuild", i) \/ Posted("rebuild", Nothing)
        /\ "extracting" \in marks[i] <=> Posted("extract", i)
        /\ Cardinality(marks[i] \cap Attempts) <= 1
        /\ Cardinality({p \in posts : p.form = "extract" /\ p.item = i}) <= 1

\* A send or a deletion goes out with no unsaved annotation of the item left in its reader.
SettledFirst ==
    \A p \in posts' \ posts : p.form \in {"send", "delete"} /\ p.text = "sent" => ~reader'[p.item].edited
GoesOutSettled == [][SettledFirst]_formsVars

\* Guess metadata ends with every item it was asked for either guessed or named as failed.
GuessAccounts ==
    guess # Nothing /\ guess.told => guess.guessed \cup guess.failed = guess.asked /\ guess.guessed \cap guess.failed = {}

\* Every request ends for its user: what it marked is unmarked, what it was asked for accounted for.
RequestsAccount == MarksEnd /\ GuessAccounts

\* No answer takes what its user has typed or drawn since and nothing has stored.
UnsavedKept == TypedKept /\ GoesOutSettled
=============================================================================
